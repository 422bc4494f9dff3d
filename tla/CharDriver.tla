----------------------------- MODULE CharDriver -----------------------------
(***************************************************************************)
(* aesd-char-driver/main.c: the file operations of /dev/aesdchar, called   *)
(* by threads on open files.  All of the device's state (the circular      *)
(* buffer and the unfinished command tmpbuf) is guarded by one mutex; a    *)
(* call is a sequence of steps                                             *)
(*                                                                         *)
(*   user -> lock -> (body) -> unlock -> ret -> user                       *)
(*                                                                         *)
(* so that threads interleave at every point where the code does not hold  *)
(* the mutex, and bodies are split where they hold pointers into the       *)
(* buffer.  heap is the kernel heap: the contents of every allocated       *)
(* address, NULL for a free one.                                           *)
(***************************************************************************)
EXTENDS CircularBuffer, SequencesExt

CONSTANTS Threads,    \* threads of the processes that use the device
          Files,      \* open file descriptions (struct file)
          Byte, NL,   \* the characters written, and the newline among them
          Payloads,   \* the strings one write() may pass; count is never 0
          Lseeks,     \* lseek arguments [whence, offset]
          SeekTos,    \* AESDCHAR_IOCSEEKTO arguments
          MaxPartial  \* bound: a write without a newline starts only if the unfinished
                      \* command stays this short

ASSUME PayloadsAssumption == NL \in Byte /\ Payloads \subseteq Seq(Byte) \ {<< >>}

\* struct aesd_seekto, the argument of AESDCHAR_IOCSEEKTO: a command and an
\* offset within it, both counted from 0
SeekTo == [write_cmd : Nat, write_cmd_offset : Nat]

ASSUME SeeksAssumption ==
  /\ Lseeks \subseteq [whence : {"SET", "CUR", "END"}, offset : Int]
  /\ SeekTos \subseteq SeekTo
ASSUME NULLBytesAssumption == NULL \notin Seq(Byte) /\ NULL \notin Threads \cup Files

VARIABLES
  heap,         \* [Addrs -> contents or NULL]
  tmpbuf,       \* dev->tmpbuf
  tmpbuf_size,  \* dev->tmpbuf_size
  lock,         \* dev->lock: the thread that holds it, or NULL
  loaded,       \* is the module loaded
  f_open,       \* [Files -> BOOLEAN]
  f_pos,        \* filp->f_pos
  pc,           \* where each thread is
  call          \* the call each thread is executing

vars == <<buffer, heap, tmpbuf, tmpbuf_size, lock, loaded, f_open, f_pos, pc, call>>
device == <<buffer, heap, tmpbuf, tmpbuf_size>>

EFAULT == -14
ENOTTY == -25
ERESTARTSYS == -512

\* What a thread outside any call has in the place of a call.
NoCall == [op |-> "none", file |-> NULL, arg |-> NULL, pos |-> 0, ret |-> 0,
           found |-> NULL, data |-> << >>]

\* The first step after the mutex is acquired.
Body == [read |-> "find", write |-> "copyin", llseek |-> "seek", ioctl |-> "jump"]

Free == {a \in Addrs : heap[a] = NULL}
Reachable(b, tmp) == {b.entry[i].buffptr : i \in Slots} \cup {tmp}

\* Mutant: the whole write is taken, whatever follows its first newline.
LastTakenAll(w) == Len(w)

\* find_char on the bytes of a write, used to cut it after its first newline:
\* the index of the last byte the driver takes.
LastTaken(w) == LET first == SelectInSeq(w, LAMBDA c : c = NL)
                IN  IF first = 0 THEN Len(w) ELSE first
Taken(w) == SubSeq(w, 1, LastTaken(w))

-----------------------------------------------------------------------------
(* The module and the open files *)

\* insmod: aesd_init_module; memset, aesd_circular_buffer_init, mutex_init
LoadModule ==
  /\ ~loaded
  /\ loaded' = TRUE
  /\ buffer' = EmptyBuffer
  /\ tmpbuf' = NULL /\ tmpbuf_size' = 0
  /\ lock' = NULL
  /\ UNCHANGED <<heap, f_open, f_pos, pc, call>>

\* rmmod: aesd_cleanup_module; the module owner count keeps it from running
\* while a file is open
UnloadModule ==
  /\ loaded /\ \A f \in Files : ~f_open[f]
  /\ loaded' = FALSE
  /\ heap' = [a \in Addrs |-> IF a \in Reachable(buffer, tmpbuf) THEN NULL ELSE heap[a]]
  /\ UNCHANGED <<buffer, tmpbuf, tmpbuf_size, lock, f_open, f_pos, pc, call>>

\* open(): aesd_open on a new struct file
Open(f) ==
  /\ loaded /\ ~f_open[f]
  /\ f_open' = [f_open EXCEPT ![f] = TRUE]
  /\ f_pos' = [f_pos EXCEPT ![f] = 0]
  /\ UNCHANGED <<device, lock, loaded, pc, call>>

\* the last close(): aesd_release, once no call uses the file
Release(f) ==
  /\ f_open[f] /\ \A t \in Threads : call[t].file # f
  /\ f_open' = [f_open EXCEPT ![f] = FALSE]
  /\ UNCHANGED <<device, lock, loaded, f_pos, pc, call>>

-----------------------------------------------------------------------------
(* Entering and leaving a call *)

\* The system call layer copies f_pos before it calls read or write.
Enter(t, f, op, arg, data, pos) ==
  /\ pc[t] = "user" /\ f_open[f]
  /\ pc' = [pc EXCEPT ![t] = "lock"]
  /\ call' = [call EXCEPT ![t] =
       [NoCall EXCEPT !.op = op, !.file = f, !.arg = arg, !.data = data,
                      !.pos = pos]]
  /\ UNCHANGED <<device, lock, loaded, f_open, f_pos>>

SysRead(t, f) == Enter(t, f, "read", NULL, << >>, f_pos[f])
SysWrite(t, f, w) ==
  /\ Contains(w, NL) \/ tmpbuf_size + Len(w) <= MaxPartial
  /\ Enter(t, f, "write", NULL, w, f_pos[f])
SysLlseek(t, f, s) == Enter(t, f, "llseek", s, << >>, 0)
SysIoctl(t, f, s) == Enter(t, f, "ioctl", s, << >>, 0)

\* aesd_unlocked_ioctl refuses a command that is not AESDCHAR_IOCSEEKTO, or
\* cannot copy its argument, before it takes the mutex.
SysIoctlBad(t, f) ==
  /\ pc[t] = "user" /\ f_open[f]
  /\ pc' = [pc EXCEPT ![t] = "ret"]
  /\ \E err \in {ENOTTY, EFAULT} :
       call' = [call EXCEPT ![t] =
         [NoCall EXCEPT !.op = "ioctl", !.file = f, !.ret = err]]
  /\ UNCHANGED <<device, lock, loaded, f_open, f_pos>>

\* mutex_lock_interruptible
Lock(t) ==
  /\ pc[t] = "lock" /\ lock = NULL
  /\ lock' = t
  /\ pc' = [pc EXCEPT ![t] = Body[call[t].op]]
  /\ UNCHANGED <<device, loaded, f_open, f_pos, call>>

\* Mutant: the result of mutex_lock_interruptible is not looked at.
LockInterruptedIgnored(t) ==
  /\ pc[t] = "lock" /\ lock # NULL
  /\ pc' = [pc EXCEPT ![t] = Body[call[t].op]]
  /\ UNCHANGED <<device, lock, loaded, f_open, f_pos, call>>

\* ... and its failure: a signal reaches a thread that waits for the mutex
LockInterrupted(t) ==
  /\ pc[t] = "lock" /\ lock # NULL
  /\ pc' = [pc EXCEPT ![t] = "ret"]
  /\ call' = [call EXCEPT ![t].ret = ERESTARTSYS]
  /\ UNCHANGED <<device, lock, loaded, f_open, f_pos>>

\* A step of a body: the next label, the result so far.
Step(t, label, c) ==
  /\ pc' = [pc EXCEPT ![t] = label]
  /\ call' = [call EXCEPT ![t] = c]
  /\ UNCHANGED <<lock, loaded, f_open>>

\* mutex_unlock; aesd_write then sets its *f_pos to 0
Unlock(t) ==
  /\ pc[t] = "unlock"
  /\ lock' = NULL
  /\ pc' = [pc EXCEPT ![t] = "ret"]
  /\ call' = [call EXCEPT ![t].pos = IF call[t].op = "write" THEN 0 ELSE @]
  /\ UNCHANGED <<device, loaded, f_open, f_pos>>

\* The system call layer stores the position back, unless the call failed.
Return(t) ==
  /\ pc[t] = "ret"
  /\ pc' = [pc EXCEPT ![t] = "user"]
  /\ f_pos' = IF call[t].op \in {"read", "write"} /\ call[t].ret >= 0
              THEN [f_pos EXCEPT ![call[t].file] = call[t].pos] ELSE f_pos
  /\ call' = [call EXCEPT ![t] = NoCall]
  /\ UNCHANGED <<device, lock, loaded, f_open>>

-----------------------------------------------------------------------------
(* aesd_read: find the entry at *f_pos, copy the rest of it *)

ReadFind(t) ==
  /\ pc[t] = "find"
  /\ LET entry == FindEntry(buffer, call[t].pos)
     IN  Step(t, IF entry = NULL THEN "unlock" ELSE "copy",
              [call[t] EXCEPT !.found = entry])
  /\ UNCHANGED <<device, f_pos>>

\* Mutant: a failed copy_to_user returns without unlocking.
ReadCopyReturns(t) ==
  /\ pc[t] = "copy"
  /\ LET entry == buffer.entry[call[t].found.ind]
         from == call[t].found.offset
         retval == entry.size - from
     IN  \/ Step(t, "unlock", [call[t] EXCEPT !.ret = retval, !.pos = @ + retval,
                   !.found = NULL, !.data = SubSeq(heap[entry.buffptr], from + 1, entry.size)])
         \/ Step(t, "ret", [call[t] EXCEPT !.ret = EFAULT])
  /\ UNCHANGED <<device, f_pos>>

\* Mutant: the copy begins at the start of the entry.
ReadCopyFromStart(t) ==
  /\ pc[t] = "copy"
  /\ LET entry == buffer.entry[call[t].found.ind]
         retval == entry.size - call[t].found.offset
     IN  \/ Step(t, "unlock", [call[t] EXCEPT !.ret = retval, !.pos = @ + retval,
                   !.found = NULL, !.data = SubSeq(heap[entry.buffptr], 1, retval)])
         \/ Step(t, "unlock", [call[t] EXCEPT !.ret = EFAULT])
  /\ UNCHANGED <<device, f_pos>>

ReadCopy(t) ==
  /\ pc[t] = "copy"
  /\ LET entry == buffer.entry[call[t].found.ind]
         from == call[t].found.offset
         retval == entry.size - from
     IN  \/ Step(t, "unlock", [call[t] EXCEPT !.ret = retval, !.pos = @ + retval,
                   !.found = NULL, !.data = SubSeq(heap[entry.buffptr], from + 1, entry.size)])
         \/ Step(t, "unlock", [call[t] EXCEPT !.ret = EFAULT])  \* copy_to_user fails
  /\ UNCHANGED <<device, f_pos>>

(* aesd_write: copy the bytes in, append them to tmpbuf, push a whole command *)

\* kmalloc, copy_from_user; data is freed on its failure or after the copying loop
WriteCopyIn(t) ==
  /\ pc[t] = "copyin"
  /\ \/ Step(t, "fill", call[t])
     \/ Step(t, "unlock", [call[t] EXCEPT !.ret = EFAULT, !.data = << >>])
                                                            \* copy_from_user fails
  /\ UNCHANGED <<device, f_pos>>

\* Mutant: the block is allocated anew and the bytes so far are not kept.
WriteFillFresh(t) ==
  /\ pc[t] = "fill"
  /\ \E a \in Free \cup ({tmpbuf} \ {NULL}) :
       /\ tmpbuf' = a
       /\ heap' = [x \in Addrs |-> IF x = a THEN Taken(call[t].data)
                                   ELSE IF x = tmpbuf THEN NULL ELSE heap[x]]
       /\ tmpbuf_size' = LastTaken(call[t].data)
       /\ Step(t, "push", [call[t] EXCEPT !.ret = LastTaken(call[t].data), !.data = << >>])
  /\ UNCHANGED <<buffer, f_pos>>

\* find_char, krealloc (the block may move) and the copying loop
WriteFill(t) ==
  /\ pc[t] = "fill"
  /\ LET w == call[t].data
         old == IF tmpbuf = NULL THEN << >> ELSE heap[tmpbuf]
     IN  \E a \in Free \cup ({tmpbuf} \ {NULL}) :
           /\ tmpbuf' = a
           /\ heap' = [x \in Addrs |-> IF x = a THEN old \o Taken(w)
                                       ELSE IF x = tmpbuf THEN NULL ELSE heap[x]]
           /\ tmpbuf_size' = tmpbuf_size + LastTaken(w)
           /\ Step(t, "push", [call[t] EXCEPT !.ret = LastTaken(w), !.data = << >>])
  /\ UNCHANGED <<buffer, f_pos>>

\* Mutant: the command that made room is not freed.
WritePushLeaks(t) ==
  /\ pc[t] = "push"
  /\ IF heap[tmpbuf][tmpbuf_size] = NL
     THEN /\ buffer' = AddEntry(buffer, [buffptr |-> tmpbuf, size |-> tmpbuf_size])
          /\ tmpbuf' = NULL /\ tmpbuf_size' = 0
          /\ UNCHANGED heap
     ELSE UNCHANGED device
  /\ Step(t, "unlock", call[t])
  /\ UNCHANGED f_pos

WritePush(t) ==
  /\ pc[t] = "push"
  /\ IF heap[tmpbuf][tmpbuf_size] = NL
     THEN /\ buffer' = AddEntry(buffer, [buffptr |-> tmpbuf, size |-> tmpbuf_size])
          /\ tmpbuf' = NULL /\ tmpbuf_size' = 0
          /\ LET old_data == AddEntryOldBuf(buffer)
             IN  heap' = [a \in Addrs |-> IF a = old_data THEN NULL ELSE heap[a]]
     ELSE UNCHANGED device
  /\ Step(t, "unlock", call[t])
  /\ UNCHANGED f_pos

(* aesd_llseek: fixed_size_llseek over the current size of the buffer *)

\* Mutant: positions outside the device are accepted.
LlseekUnchecked(t) ==
  /\ pc[t] = "seek"
  /\ LET s == call[t].arg
         f == call[t].file
         target == s.offset + (CASE s.whence = "SET" -> 0
                                 [] s.whence = "CUR" -> f_pos[f]
                                 [] s.whence = "END" -> buffer.size)
     IN  /\ f_pos' = [f_pos EXCEPT ![f] = target]
         /\ Step(t, "unlock", [call[t] EXCEPT !.ret = target])
  /\ UNCHANGED device

LlseekSeek(t) ==
  /\ pc[t] = "seek"
  /\ LET s == call[t].arg
         f == call[t].file
         target == s.offset + (CASE s.whence = "SET" -> 0
                                 [] s.whence = "CUR" -> f_pos[f]
                                 [] s.whence = "END" -> buffer.size)
         ok == target \in 0..buffer.size \/ (s.whence = "CUR" /\ s.offset = 0)
     IN  /\ f_pos' = IF ok THEN [f_pos EXCEPT ![f] = target] ELSE f_pos
         /\ Step(t, "unlock", [call[t] EXCEPT !.ret = IF ok THEN target ELSE EINVAL])
  /\ UNCHANGED device

(* aesd_unlocked_ioctl: write_cmd is a uint32_t, the parameter it is passed   *)
(* as a uint8_t                                                               *)

IoctlJump(t) ==
  /\ pc[t] = "jump"
  /\ LET s == call[t].arg
         pos == JmpEntryOffset(buffer, s.write_cmd % 256, s.write_cmd_offset)
     IN  /\ f_pos' = IF pos < 0 THEN f_pos ELSE [f_pos EXCEPT ![call[t].file] = pos]
         /\ Step(t, "unlock", [call[t] EXCEPT !.ret = IF pos < 0 THEN pos ELSE 0])
  /\ UNCHANGED device

-----------------------------------------------------------------------------
Init ==
  /\ loaded = FALSE
  /\ buffer = EmptyBuffer /\ tmpbuf = NULL /\ tmpbuf_size = 0 /\ lock = NULL
  /\ heap = [a \in Addrs |-> NULL]
  /\ f_open = [f \in Files |-> FALSE]
  /\ f_pos = [f \in Files |-> 0]
  /\ pc = [t \in Threads |-> "user"]
  /\ call = [t \in Threads |-> NoCall]

\* What a thread does once it is in a call.
Proceed(t) ==
  \/ ReadFind(t) \/ ReadCopy(t)
  \/ WriteCopyIn(t) \/ WriteFill(t) \/ WritePush(t)
  \/ LlseekSeek(t) \/ IoctlJump(t)
  \/ Unlock(t) \/ Return(t)

EnterSome(t, f) ==
  \/ SysRead(t, f)
  \/ \E w \in Payloads : SysWrite(t, f, w)
  \/ \E s \in Lseeks : SysLlseek(t, f, s)
  \/ \E s \in SeekTos : SysIoctl(t, f, s)
  \/ SysIoctlBad(t, f)

Next ==
  \/ LoadModule \/ UnloadModule
  \/ \E f \in Files : Open(f) \/ Release(f)
  \/ \E t \in Threads : \/ Lock(t) \/ LockInterrupted(t) \/ Proceed(t)
                        \/ \E f \in Files : EnterSome(t, f)

(***************************************************************************)
(* A thread inside the driver keeps running.  The kernel's mutex hands     *)
(* itself to its longest waiter, hence strong fairness of Lock.            *)
(***************************************************************************)
Fairness == \A t \in Threads : WF_vars(Proceed(t)) /\ SF_vars(Lock(t))

Spec == Init /\ [][Next]_vars /\ Fairness
-----------------------------------------------------------------------------
(* Properties *)

BodyLabels == {"find", "copy", "copyin", "fill", "push", "seek", "jump", "unlock"}

\* The finished commands as strings, oldest first, and the device as a file.
Commands == [k \in 1..Count(buffer) |-> heap[Contents(buffer)[k].buffptr]]
Stream == FlattenSeq(Commands)

\* The blocks the device refers to: those of its entries, and tmpbuf.
Blocks == {a \in Addrs : a \in Reachable(buffer, tmpbuf)}
EntryOf(a) == {i \in Slots : buffer.entry[i].buffptr = a}

\* An unfinished command, or none.
Partial == IF tmpbuf = NULL THEN << >> ELSE heap[tmpbuf]

\* The types of the device's state, of the open files and of the calls.
TypeOK ==
  /\ buffer \in BufferType
  /\ \A a \in Addrs : heap[a] = NULL \/ heap[a] \in Seq(Byte)
  /\ tmpbuf \in Addrs \cup {NULL} /\ tmpbuf_size \in Nat
  /\ lock \in Threads \cup {NULL}
  /\ loaded \in BOOLEAN
  /\ f_open \in [Files -> BOOLEAN]
  /\ f_pos \in [Files -> Nat]
  /\ pc \in [Threads -> BodyLabels \cup {"user", "lock", "ret"}]
  /\ \A t \in Threads :
       /\ call[t].op \in {"none"} \cup DOMAIN Body
       /\ call[t].file \in Files \cup {NULL}
       /\ call[t].pos \in Nat /\ call[t].ret \in Int

(***************************************************************************)
(* A thread runs the part of a file operation between mutex_lock and       *)
(* mutex_unlock exactly while it owns dev->lock, whatever error path it    *)
(* takes, so two threads are never in it together.                         *)
(***************************************************************************)
LockHeldInBody == \A t \in Threads : pc[t] \in BodyLabels <=> lock = t

(***************************************************************************)
(* The device's memory is exact: each allocated block belongs to exactly   *)
(* one entry or is tmpbuf, its length is the length recorded for it, and   *)
(* every pointer is to an allocated block.  So nothing leaks, nothing is   *)
(* freed twice or used after it is freed; after rmmod nothing is left.     *)
(***************************************************************************)
MemoryExact ==
  IF loaded
  THEN \A a \in Addrs :
         IF a = tmpbuf
         THEN heap[a] # NULL /\ Len(heap[a]) = tmpbuf_size /\ EntryOf(a) = {}
         ELSE IF heap[a] = NULL THEN EntryOf(a) = {}
         ELSE \E i \in Slots : /\ EntryOf(a) = {i}
                               /\ buffer.entry[i].size = Len(heap[a])
  ELSE \A a \in Addrs : heap[a] = NULL

(***************************************************************************)
(* Every command in the buffer is one line: its newline is its last byte.  *)
(* The unfinished command has none, except while the writer that completed *)
(* it is about to push it.                                                 *)
(***************************************************************************)
OneLine(w) == \A i \in 1..Len(w) : w[i] = NL <=> i = Len(w)
NoNewline(w) == \A i \in 1..Len(w) : w[i] # NL

CommandsAreLines ==
  loaded =>
    /\ \A i \in Slots : buffer.entry[i].buffptr # NULL =>
                          OneLine(heap[buffer.entry[i].buffptr])
    /\ \/ NoNewline(Partial)
       \/ OneLine(Partial) /\ \E t \in Threads : pc[t] = "push"

(***************************************************************************)
(* What aesd_read copies out is the device's stream at the position the    *)
(* call was given, up to the end of one command; it returns 0 exactly at   *)
(* or beyond the end of the stream.                                        *)
(***************************************************************************)
ReadsStream ==
  [][\A t \in Threads :
       LET pos == call[t].pos
           got == call'[t].data
       IN  /\ pc[t] = "copy" /\ pc'[t] # "copy" /\ call'[t].ret # EFAULT =>
                /\ call'[t].ret = Len(got) /\ got # << >>
                /\ got = SubSeq(Stream, pos + 1, pos + Len(got))
                /\ got[Len(got)] = NL
           /\ pc[t] = "find" /\ pc'[t] = "unlock" => pos >= Len(Stream)]_vars

(***************************************************************************)
(* For any number of writers the driver behaves as the abstract device:    *)
(* while the module is loaded, accepted bytes are neither lost nor         *)
(* reordered, and the commands kept are the latest.                        *)
(***************************************************************************)
Device == INSTANCE CommandDevice
            WITH Capacity <- MaxEntries, Items <- Seq(Byte),
                 Chunks <- {Taken(w) : w \in Payloads},
                 history <- IF loaded THEN Commands ELSE << >>,
                 partial <- IF loaded THEN Partial ELSE << >>
DriverIsDevice == Device!DSpec

(***************************************************************************)
(* Every call comes back to its caller: no path through a file operation   *)
(* keeps the mutex.                                                        *)
(***************************************************************************)
CallsReturn == \A t \in Threads : pc[t] # "user" ~> pc[t] = "user"
=============================================================================
