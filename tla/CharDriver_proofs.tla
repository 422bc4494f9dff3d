-------------------------- MODULE CharDriver_proofs --------------------------
(***************************************************************************)
(* For any number of threads, open files and slots: the file operations    *)
(* own the mutex while they use the device, its memory is exact, its       *)
(* commands are single lines, it implements CommandDevice, and a read()    *)
(* returns bytes of the concatenated commands.                             *)
(*                                                                         *)
(* The argument has two layers.  ControlInv says where threads are and     *)
(* what their calls carry; with LockHeldInBody it is inductive by itself.  *)
(* Given both, only WriteFill, WritePush, LoadModule and UnloadModule      *)
(* change what DeviceInv speaks of.  PositionInv adds what the file        *)
(* positions and the entry found by a read() in progress refer to.         *)
(***************************************************************************)
EXTENDS CharDriver, CircularBuffer_proofs, NatLemmas

CallFields == {"op", "file", "arg", "pos", "ret", "found", "data"}
Labels == BodyLabels \cup {"user", "lock", "ret"}

\* What the record of a thread's call holds at each of its labels.
CallInv(t) ==
  /\ DOMAIN call[t] = CallFields
  /\ pc[t] # "user" => /\ call[t].op \in DOMAIN Body /\ call[t].file \in Files
                       /\ f_open[call[t].file]
  /\ pc[t] \in {"copyin", "fill", "push"} => call[t].op = "write"
  /\ pc[t] \in {"lock", "copyin", "fill"} /\ call[t].op = "write"
       => call[t].data \in Payloads

ControlInv ==
  /\ lock \in Threads \cup {NULL} /\ loaded \in BOOLEAN
  /\ f_open \in [Files -> BOOLEAN]
  /\ \A f \in Files : f_open[f] => loaded
  /\ pc \in [Threads -> Labels]
  /\ call = [t \in Threads |-> call[t]]
  /\ \A t \in Threads : CallInv(t)

DeviceInv ==
  /\ WellFormed(buffer)
  /\ heap \in [Addrs -> Seq(Byte) \cup {NULL}]
  /\ tmpbuf \in Addrs \cup {NULL} /\ tmpbuf_size \in Nat
  /\ tmpbuf = NULL => tmpbuf_size = 0
  /\ \A t \in Threads : pc[t] = "push" => loaded /\ tmpbuf # NULL /\ tmpbuf_size # 0
  /\ MemoryExact
  /\ CommandsAreLines

DriverInv == ControlInv /\ LockHeldInBody /\ DeviceInv

-----------------------------------------------------------------------------
(* Control *)

\* The record of a call, the operations and their first labels.
LEMMA NoCallFields ==
  /\ DOMAIN NoCall = CallFields
  /\ NoCall.op = "none"
  /\ DOMAIN Body = {"read", "write", "llseek", "ioctl"}
  /\ \A op \in DOMAIN Body : Body[op] \in {"find", "copyin", "seek", "jump"}
  /\ \A op \in DOMAIN Body : Body[op] = "copyin" => op = "write"
BY DEF NoCall, CallFields, Body

\* Before insmod no thread is in a call and nobody owns the mutex.
LEMMA InitControl == Init => ControlInv /\ LockHeldInBody
<1> SUFFICES ASSUME Init PROVE ControlInv /\ LockHeldInBody
  OBVIOUS
<1>1. /\ lock = NULL /\ loaded = FALSE /\ f_open = [f \in Files |-> FALSE]
      /\ pc = [t \in Threads |-> "user"] /\ call = [t \in Threads |-> NoCall]
  BY DEF Init
<1>2. \A t \in Threads : CallInv(t)
  BY <1>1, NoCallFields DEF CallInv
<1>3. pc \in [Threads -> Labels]
  BY <1>1 DEF Labels
<1>4. ControlInv
  BY <1>1, <1>2, <1>3 DEF ControlInv
<1>5. LockHeldInBody
  <2>1. \A t \in Threads : pc[t] = "user" /\ t # NULL
    BY <1>1, NULLBytesAssumption
  <2> QED BY <1>1, <2>1 DEF LockHeldInBody, BodyLabels
<1> QED BY <1>4, <1>5

\* A thread that is in a call keeps the module loaded.
LEMMA BusyIsLoaded ==
  ASSUME ControlInv, NEW t \in Threads, pc[t] # "user"
  PROVE  loaded
BY DEF ControlInv, CallInv

\* A step of one thread that leaves the files alone, and takes, keeps or gives
\* back the mutex as its labels say.
LEMMA ThreadControl ==
  ASSUME ControlInv, LockHeldInBody, NEW t \in Threads,
         NEW label \in Labels, NEW c,
         pc' = [pc EXCEPT ![t] = label], call' = [call EXCEPT ![t] = c],
         UNCHANGED <<loaded, f_open>>,
         DOMAIN c = CallFields,
         label # "user" => c.op \in DOMAIN Body /\ c.file \in Files /\ f_open[c.file],
         label \in {"copyin", "fill", "push"} => c.op = "write",
         label \in {"lock", "copyin", "fill"} /\ c.op = "write"
           => c.data \in Payloads,
         lock' \in Threads \cup {NULL},
         \A u \in Threads \ {t} : lock' = u <=> lock = u,
         label \in BodyLabels <=> lock' = t
  PROVE  ControlInv' /\ LockHeldInBody'
<1>1. /\ pc' \in [Threads -> Labels] /\ call' = [u \in Threads |-> call'[u]]
      /\ loaded' = loaded /\ f_open' = f_open
      /\ pc'[t] = label /\ call'[t] = c
      /\ \A u \in Threads \ {t} : pc'[u] = pc[u] /\ call'[u] = call[u]
  BY DEF ControlInv, Labels
<1>2. CallInv(t)'
  BY <1>1 DEF CallInv
<1>3. \A u \in Threads \ {t} : CallInv(u)'
  BY <1>1 DEF ControlInv, CallInv
<1>4. ControlInv'
  BY <1>1, <1>2, <1>3 DEF ControlInv
<1>5. LockHeldInBody'
  BY <1>1 DEF LockHeldInBody
<1> QED BY <1>4, <1>5

\* A step of a body keeps the mutex.
LEMMA StepControl ==
  ASSUME ControlInv, LockHeldInBody, NEW t \in Threads, pc[t] \in BodyLabels,
         NEW label \in BodyLabels, NEW c, Step(t, label, c),
         DOMAIN c = CallFields, c.op = call[t].op, c.file = call[t].file,
         label \in {"copyin", "fill", "push"} => c.op = "write",
         label \in {"copyin", "fill"} => c.data \in Payloads
  PROVE  ControlInv' /\ LockHeldInBody'
<1>1. label \in Labels /\ label \notin {"user", "lock"} /\ pc[t] # "user"
  BY DEF Labels, BodyLabels
<1>2. c.op \in DOMAIN Body /\ c.file \in Files /\ f_open[c.file]
  BY <1>1 DEF ControlInv, CallInv
<1>3. lock' = lock /\ lock = t /\ lock \in Threads \cup {NULL}
  BY DEF LockHeldInBody, Step, ControlInv
<1> QED
  BY <1>1, <1>2, <1>3, ThreadControl DEF Step

\* Entering a call.
LEMMA EnterControl ==
  ASSUME ControlInv, LockHeldInBody, NEW t \in Threads, NEW f \in Files,
         NEW op \in DOMAIN Body, NEW arg, NEW data, NEW pos,
         op = "write" => data \in Payloads,
         Enter(t, f, op, arg, data, pos)
  PROVE  ControlInv' /\ LockHeldInBody'
<1> DEFINE c == [NoCall EXCEPT !.op = op, !.file = f, !.arg = arg, !.data = data,
                               !.pos = pos]
<1>1. DOMAIN c = CallFields /\ c.op = op /\ c.file = f /\ c.data = data
  BY NoCallFields DEF CallFields, NoCall
<1>2. pc[t] = "user" /\ f_open[f] /\ lock' = lock
  BY DEF Enter
<1>3. call' = [call EXCEPT ![t] = c] /\ pc' = [pc EXCEPT ![t] = "lock"]
      /\ UNCHANGED <<loaded, f_open>>
  BY DEF Enter
<1>4. "lock" \in Labels /\ "lock" \notin BodyLabels /\ "user" \notin BodyLabels
  BY DEF Labels, BodyLabels
<1>5. lock # t /\ lock' \in Threads \cup {NULL}
  BY <1>2, <1>4 DEF LockHeldInBody, ControlInv
<1> HIDE DEF c
<1> QED
  BY <1>1, <1>2, <1>3, <1>4, <1>5, ThreadControl

\* Every way into a file operation, the refused ioctl included.
LEMMA EnterSomeControl ==
  ASSUME ControlInv, LockHeldInBody, NEW t \in Threads, NEW f \in Files,
         EnterSome(t, f)
  PROVE  ControlInv' /\ LockHeldInBody'
<1>1. CASE SysRead(t, f)
  BY <1>1, NoCallFields, EnterControl DEF SysRead
<1>2. ASSUME NEW w \in Payloads, SysWrite(t, f, w)
      PROVE  ControlInv' /\ LockHeldInBody'
  BY <1>2, NoCallFields, EnterControl DEF SysWrite
<1>3. ASSUME NEW s \in Lseeks, SysLlseek(t, f, s)
      PROVE  ControlInv' /\ LockHeldInBody'
  BY <1>3, NoCallFields, EnterControl DEF SysLlseek
<1>4. ASSUME NEW s \in SeekTos, SysIoctl(t, f, s)
      PROVE  ControlInv' /\ LockHeldInBody'
  BY <1>4, NoCallFields, EnterControl DEF SysIoctl
<1>5. CASE SysIoctlBad(t, f)
  <2>1. PICK err \in {ENOTTY, EFAULT} :
          call' = [call EXCEPT ![t] =
                    [NoCall EXCEPT !.op = "ioctl", !.file = f, !.ret = err]]
    BY <1>5 DEF SysIoctlBad
  <2> DEFINE c == [NoCall EXCEPT !.op = "ioctl", !.file = f, !.ret = err]
  <2>2. DOMAIN c = CallFields /\ c.op = "ioctl" /\ c.file = f
    BY DEF NoCall, CallFields
  <2>3. /\ pc[t] = "user" /\ f_open[f] /\ lock' = lock
        /\ pc' = [pc EXCEPT ![t] = "ret"] /\ UNCHANGED <<loaded, f_open>>
    BY <1>5 DEF SysIoctlBad
  <2>4. "ret" \in Labels /\ "ret" \notin BodyLabels /\ "user" \notin BodyLabels
    BY DEF Labels, BodyLabels
  <2>5. lock # t /\ lock' \in Threads \cup {NULL}
    BY <2>3, <2>4 DEF LockHeldInBody, ControlInv
  <2>6. call' = [call EXCEPT ![t] = c]
    BY <2>1
  <2> HIDE DEF c
  <2> QED
    BY <2>2, <2>3, <2>4, <2>5, <2>6, NoCallFields, ThreadControl
<1> QED
  BY <1>1, <1>2, <1>3, <1>4, <1>5 DEF EnterSome

\* Taking and giving back the mutex, a failed attempt, and the way back.
LEMMA LockControl ==
  ASSUME ControlInv, LockHeldInBody, NEW t \in Threads,
         Lock(t) \/ LockInterrupted(t) \/ Unlock(t) \/ Return(t)
  PROVE  ControlInv' /\ LockHeldInBody'
<1> DEFINE op == call[t].op
<1>0. /\ call = [u \in Threads |-> call[u]] /\ DOMAIN call[t] = CallFields
      /\ UNCHANGED <<loaded, f_open>> /\ pc[t] # "user"
      /\ op \in DOMAIN Body /\ call[t].file \in Files /\ f_open[call[t].file]
      /\ NULL \notin Threads /\ lock \in Threads \cup {NULL}
  BY NULLBytesAssumption DEF ControlInv, CallInv, Lock, LockInterrupted, Unlock, Return
<1>1. CASE Lock(t)
  <2>1. /\ call' = [call EXCEPT ![t] = call[t]] /\ lock' = t /\ lock = NULL
        /\ pc' = [pc EXCEPT ![t] = Body[op]] /\ pc[t] = "lock"
    BY <1>0, <1>1 DEF Lock
  <2>2. Body[op] \in Labels /\ Body[op] \in BodyLabels /\ Body[op] \notin {"fill", "push"}
    BY <1>0, NoCallFields DEF Labels, BodyLabels
  <2>3. op = "write" => call[t].data \in Payloads
    BY <2>1 DEF ControlInv, CallInv
  <2>4. Body[op] = "copyin" => op = "write"
    BY <1>0, NoCallFields
  <2> QED BY <1>0, <2>1, <2>2, <2>3, <2>4, ThreadControl
<1>2. CASE LockInterrupted(t)
  <2> DEFINE c == [call[t] EXCEPT !.ret = ERESTARTSYS]
  <2>1. /\ call' = [call EXCEPT ![t] = c] /\ lock' = lock
        /\ pc' = [pc EXCEPT ![t] = "ret"] /\ pc[t] = "lock"
    BY <1>0, <1>2 DEF LockInterrupted
  <2>2. DOMAIN c = CallFields /\ c.op = op /\ c.file = call[t].file
    BY <1>0 DEF CallFields
  <2>3. "ret" \in Labels /\ "ret" \notin BodyLabels /\ "lock" \notin BodyLabels
    BY DEF Labels, BodyLabels
  <2>4. lock # t
    BY <2>1, <2>3 DEF LockHeldInBody
  <2> HIDE DEF c
  <2> QED BY <1>0, <2>1, <2>2, <2>3, <2>4, ThreadControl
<1>3. CASE Unlock(t)
  <2> DEFINE c == [call[t] EXCEPT !.pos = IF call[t].op = "write" THEN 0 ELSE @]
  <2>1. /\ call' = [call EXCEPT ![t] = c] /\ lock' = NULL
        /\ pc' = [pc EXCEPT ![t] = "ret"] /\ pc[t] = "unlock"
    BY <1>0, <1>3 DEF Unlock
  <2>2. DOMAIN c = CallFields /\ c.op = op /\ c.file = call[t].file
    BY <1>0 DEF CallFields
  <2>3. "ret" \in Labels /\ "ret" \notin BodyLabels /\ "unlock" \in BodyLabels
    BY DEF Labels, BodyLabels
  <2>4. lock = t
    BY <2>1, <2>3 DEF LockHeldInBody
  <2> HIDE DEF c
  <2> QED BY <1>0, <2>1, <2>2, <2>3, <2>4, ThreadControl
<1>4. CASE Return(t)
  <2>1. /\ call' = [call EXCEPT ![t] = NoCall] /\ lock' = lock
        /\ pc' = [pc EXCEPT ![t] = "user"] /\ pc[t] = "ret"
    BY <1>4 DEF Return
  <2>2. "user" \in Labels /\ "user" \notin BodyLabels /\ "ret" \notin BodyLabels
    BY DEF Labels, BodyLabels
  <2>3. lock # t
    BY <2>1, <2>2 DEF LockHeldInBody
  <2> QED BY <1>0, <2>1, <2>2, <2>3, NoCallFields, ThreadControl
<1> QED BY <1>1, <1>2, <1>3, <1>4

\* The steps of a body, on every one of their paths.
BodyStep(t) ==
  \/ ReadFind(t) \/ ReadCopy(t) \/ WriteCopyIn(t) \/ WriteFill(t) \/ WritePush(t)
  \/ LlseekSeek(t) \/ IoctlJump(t)

\* What a body does to the thread's record: only its results change, and only
\* aesd_write keeps its bytes from one step to the next.
BodyStepTo(t, label, c) ==
  /\ Step(t, label, c)
  /\ DOMAIN c = DOMAIN call[t]
  /\ c.op = call[t].op /\ c.file = call[t].file
  /\ label = "fill" => pc[t] = "copyin" /\ c.data = call[t].data
  /\ label = "push" => pc[t] = "fill"
  /\ label # "copyin"

\* Every path through a body takes such steps.
LEMMA BodyIsStep ==
  ASSUME ControlInv, NEW t \in Threads, BodyStep(t)
  PROVE  \E label \in BodyLabels : \E c : BodyStepTo(t, label, c)
<1> USE DEF BodyStepTo
<1>0. DOMAIN call[t] = CallFields
  BY DEF ControlInv, CallInv
<1>1. CASE ReadFind(t)
  <2> DEFINE entry == FindEntry(buffer, call[t].pos)
             label == IF entry = NULL THEN "unlock" ELSE "copy"
             c == [call[t] EXCEPT !.found = entry]
  <2>1. Step(t, label, c)
    BY <1>1 DEF ReadFind
  <2> HIDE DEF entry
  <2>2. DOMAIN c = DOMAIN call[t] /\ c.op = call[t].op /\ c.file = call[t].file
    BY <1>0 DEF CallFields
  <2>3. label \in BodyLabels /\ label \notin {"fill", "push", "copyin"}
    BY DEF BodyLabels
  <2> HIDE DEF label, c
  <2> QED BY <2>1, <2>2, <2>3
<1>2. CASE ReadCopy(t)
  <2>1. "unlock" \in BodyLabels
    BY DEF BodyLabels
  <2> DEFINE e == buffer.entry[call[t].found.ind]
             from == call[t].found.offset
             n == e.size - from
             d == SubSeq(heap[e.buffptr], from + 1, e.size)
             c == [call[t] EXCEPT !.ret = n, !.pos = @ + n, !.found = NULL, !.data = d]
             f == [call[t] EXCEPT !.ret = EFAULT]
  <2>2. Step(t, "unlock", c) \/ Step(t, "unlock", f)
    BY <1>2 DEF ReadCopy
  <2> HIDE DEF n, d
  <2>3. DOMAIN c = DOMAIN call[t] /\ c.op = call[t].op /\ c.file = call[t].file
    BY <1>0 DEF CallFields
  <2>4. DOMAIN f = DOMAIN call[t] /\ f.op = call[t].op /\ f.file = call[t].file
    BY <1>0 DEF CallFields
  <2> HIDE DEF c, f
  <2> QED BY <2>1, <2>2, <2>3, <2>4
<1>3. CASE WriteCopyIn(t)
  <2>1. "unlock" \in BodyLabels /\ "fill" \in BodyLabels /\ pc[t] = "copyin"
    BY <1>3 DEF BodyLabels, WriteCopyIn
  <2> DEFINE c == [call[t] EXCEPT !.ret = EFAULT, !.data = << >>]
  <2>2. Step(t, "fill", call[t]) \/ Step(t, "unlock", c)
    BY <1>3 DEF WriteCopyIn
  <2>3. DOMAIN c = DOMAIN call[t] /\ c.op = call[t].op /\ c.file = call[t].file
    BY <1>0 DEF CallFields
  <2> HIDE DEF c
  <2> QED BY <2>1, <2>2, <2>3
<1>4. CASE WriteFill(t)
  <2>1. "push" \in BodyLabels /\ pc[t] = "fill"
    BY <1>4 DEF BodyLabels, WriteFill
  <2> DEFINE n == LastTaken(call[t].data)
             c == [call[t] EXCEPT !.ret = n, !.data = << >>]
  <2>2. Step(t, "push", c)
    BY <1>4 DEF WriteFill
  <2> HIDE DEF n
  <2>3. DOMAIN c = DOMAIN call[t] /\ c.op = call[t].op /\ c.file = call[t].file
    BY <1>0 DEF CallFields
  <2> HIDE DEF c
  <2> QED BY <2>1, <2>2, <2>3, <1>4
<1>5. CASE WritePush(t)
  <2>1. "unlock" \in BodyLabels /\ Step(t, "unlock", call[t])
    BY <1>5 DEF BodyLabels, WritePush
  <2> QED BY <2>1
<1>6. CASE LlseekSeek(t)
  <2>1. PICK r : Step(t, "unlock", [call[t] EXCEPT !.ret = r])
    BY <1>6 DEF LlseekSeek
  <2> DEFINE c == [call[t] EXCEPT !.ret = r]
  <2>2. DOMAIN c = DOMAIN call[t] /\ c.op = call[t].op /\ c.file = call[t].file
    BY <1>0 DEF CallFields
  <2>3. "unlock" \in BodyLabels /\ Step(t, "unlock", c)
    BY <2>1 DEF BodyLabels
  <2> HIDE DEF c
  <2> QED BY <2>2, <2>3
<1>7. CASE IoctlJump(t)
  <2>1. PICK r : Step(t, "unlock", [call[t] EXCEPT !.ret = r])
    BY <1>7 DEF IoctlJump
  <2> DEFINE c == [call[t] EXCEPT !.ret = r]
  <2>2. DOMAIN c = DOMAIN call[t] /\ c.op = call[t].op /\ c.file = call[t].file
    BY <1>0 DEF CallFields
  <2>3. "unlock" \in BodyLabels /\ Step(t, "unlock", c)
    BY <2>1 DEF BodyLabels
  <2> HIDE DEF c
  <2> QED BY <2>2, <2>3
<1> QED BY <1>1, <1>2, <1>3, <1>4, <1>5, <1>6, <1>7 DEF BodyStep

\* The bodies keep the mutex until their unlock label, on error paths too.
LEMMA BodyControl ==
  ASSUME ControlInv, LockHeldInBody, NEW t \in Threads, BodyStep(t)
  PROVE  ControlInv' /\ LockHeldInBody'
<1>1. PICK label \in BodyLabels : \E c : BodyStepTo(t, label, c)
  BY BodyIsStep
<1>c. PICK c : BodyStepTo(t, label, c)
  BY <1>1
<1>2. pc[t] \in BodyLabels
  BY DEF BodyStep, ReadFind, ReadCopy, WriteCopyIn, WriteFill, WritePush, LlseekSeek,
         IoctlJump, BodyLabels
<1>3. DOMAIN call[t] = CallFields
  BY DEF ControlInv, CallInv
<1>4. label \in {"copyin", "fill", "push"} => c.op = "write"
  BY <1>c DEF BodyStepTo, ControlInv, CallInv
<1>5. label \in {"copyin", "fill"} => c.data \in Payloads
  BY <1>c DEF BodyStepTo, ControlInv, CallInv
<1> QED BY <1>c, <1>2, <1>3, <1>4, <1>5, StepControl DEF BodyStepTo

\* insmod and rmmod run while no file is open, hence no call is in progress.
LEMMA ModuleControl ==
  ASSUME ControlInv, LockHeldInBody, LoadModule \/ UnloadModule
  PROVE  ControlInv' /\ LockHeldInBody'
<1>1. \A f \in Files : ~f_open[f]
  BY DEF ControlInv, LoadModule, UnloadModule
<1>2. \A t \in Threads : pc[t] = "user"
  BY <1>1 DEF ControlInv, CallInv
<1>3. /\ UNCHANGED <<f_open, pc, call>> /\ loaded' \in BOOLEAN
      /\ lock' \in {NULL, lock}
  BY DEF LoadModule, UnloadModule
<1>4. ControlInv'
  <2>1. \A t \in Threads : CallInv(t)'
    BY <1>3 DEF ControlInv, CallInv
  <2> QED BY <1>1, <1>3, <2>1 DEF ControlInv
<1>5. LockHeldInBody'
  <2>1. \A t \in Threads : lock # t /\ NULL # t /\ pc'[t] \notin BodyLabels
    BY <1>2, <1>3, NULLBytesAssumption DEF LockHeldInBody, BodyLabels
  <2> QED BY <1>3, <2>1 DEF LockHeldInBody
<1> QED BY <1>4, <1>5

\* open and the last close: a file in use by a call stays open.
LEMMA FileControl ==
  ASSUME ControlInv, LockHeldInBody, NEW f \in Files, Open(f) \/ Release(f)
  PROVE  ControlInv' /\ LockHeldInBody'
<1>1. /\ UNCHANGED <<lock, loaded, pc, call>>
      /\ f_open' \in [Files -> BOOLEAN]
      /\ \A g \in Files \ {f} : f_open'[g] = f_open[g]
      /\ f_open'[f] => loaded
      /\ ~f_open'[f] => \A t \in Threads : call[t].file # f
  BY DEF ControlInv, Open, Release
<1>2. \A t \in Threads : CallInv(t)'
  BY <1>1 DEF ControlInv, CallInv
<1>3. ControlInv'
  BY <1>1, <1>2 DEF ControlInv
<1>4. LockHeldInBody'
  BY <1>1 DEF LockHeldInBody
<1> QED BY <1>3, <1>4

\* Control and lock discipline are kept by every step, whatever the device holds.
LEMMA NextControl ==
  ASSUME ControlInv, LockHeldInBody, [Next]_vars
  PROVE  ControlInv' /\ LockHeldInBody'
<1>1. CASE UNCHANGED vars
  <2>1. \A t \in Threads : CallInv(t)'
    BY <1>1 DEF ControlInv, CallInv, vars
  <2> QED BY <1>1, <2>1 DEF vars, ControlInv, LockHeldInBody
<1>2. CASE LoadModule \/ UnloadModule
  BY <1>2, ModuleControl
<1>3. CASE \E f \in Files : Open(f) \/ Release(f)
  BY <1>3, FileControl
<1>4. ASSUME NEW t \in Threads, Lock(t) \/ LockInterrupted(t) \/ Proceed(t)
      PROVE  ControlInv' /\ LockHeldInBody'
  BY <1>4, LockControl, BodyControl DEF Proceed, BodyStep
<1>5. ASSUME NEW t \in Threads, NEW f \in Files, EnterSome(t, f)
      PROVE  ControlInv' /\ LockHeldInBody'
  BY <1>5, EnterSomeControl
<1> QED BY <1>1, <1>2, <1>3, <1>4, <1>5 DEF Next

(***************************************************************************)
(* A thread is between mutex_lock and mutex_unlock of a file operation     *)
(* exactly while it owns dev->lock, for any number of threads and files    *)
(* and on every error path of aesd_read, aesd_write, aesd_llseek and       *)
(* aesd_unlocked_ioctl.                                                    *)
(***************************************************************************)
THEOREM DriverLocks == Spec => []LockHeldInBody
<1>1. Init => ControlInv /\ LockHeldInBody
  BY InitControl
<1>2. ControlInv /\ LockHeldInBody /\ [Next]_vars => (ControlInv /\ LockHeldInBody)'
  BY NextControl
<1> QED BY <1>1, <1>2, PTL DEF Spec
-----------------------------------------------------------------------------
(* What aesd_write takes of its bytes *)

\* find_char cuts a write after its first newline: what is taken is not empty
\* and has a newline at its end or nowhere.
LEMMA TakenIsChunk ==
  ASSUME NEW w \in Seq(Byte) \ {<< >>}
  PROVE  /\ LastTaken(w) \in Nat \ {0}
         /\ Taken(w) \in Seq(Byte) /\ Len(Taken(w)) = LastTaken(w)
         /\ \A i \in 1..(LastTaken(w) - 1) : Taken(w)[i] # NL
<1> DEFINE I == {i \in 1..Len(w) : w[i] = NL}
           nl == Min(I)
           n == LastTaken(w)
<1>1. Len(w) \in Nat \ {0} /\ w \in [1..Len(w) -> Byte]
  BY EmptySeq, LenProperties
<1>2. I # {} => nl \in 1..Len(w) /\ \A i \in 1..(nl - 1) : w[i] # NL
  BY FirstPosition
<1>3. n = IF (IF I # {} THEN nl ELSE 0) = 0 THEN Len(w) ELSE (IF I # {} THEN nl ELSE 0)
  BY DEF LastTaken, SelectInSeq
<1> HIDE DEF n, nl
<1>4. I = {} => \A i \in 1..Len(w) : w[i] # NL
  OBVIOUS
<1> HIDE DEF I
<1>5. n \in 1..Len(w) /\ \A i \in 1..(n - 1) : w[i] # NL
  <2>1. CASE I = {}
    BY <1>1, <1>3, <1>4, <2>1
  <2>2. CASE I # {}
    BY <1>1, <1>2, <1>3, <2>2
  <2> QED BY <2>1, <2>2
<1>6. \A i \in 1..n : w[i] \in Byte
  BY <1>1, <1>5
<1>7. /\ SubSeq(w, 1, n) \in Seq(Byte) /\ Len(SubSeq(w, 1, n)) = n
      /\ \A i \in 1..n : SubSeq(w, 1, n)[i] = w[i]
  BY <1>1, <1>5, <1>6, SubSeqProperties
<1>8. Taken(w) = SubSeq(w, 1, n)
  BY DEF Taken, n
<1>9. \A i \in 1..(n - 1) : Taken(w)[i] # NL
  BY <1>1, <1>5, <1>7, <1>8
<1> QED BY <1>1, <1>5, <1>7, <1>8, <1>9 DEF n

\* Appending a chunk to an unfinished command leaves it unfinished or one line.
LEMMA AppendChunk ==
  ASSUME NEW old \in Seq(Byte), NoNewline(old), NEW c \in Seq(Byte), Len(c) # 0,
         \A i \in 1..(Len(c) - 1) : c[i] # NL
  PROVE  /\ old \o c \in Seq(Byte) /\ Len(old \o c) = Len(old) + Len(c)
         /\ NoNewline(old \o c) \/ OneLine(old \o c)
<1> DEFINE s == old \o c
<1>1. Len(old) \in Nat /\ Len(c) \in Nat
  BY LenProperties
<1>2. /\ s \in Seq(Byte) /\ Len(s) = Len(old) + Len(c)
      /\ \A i \in 1..(Len(old) + Len(c)) :
           s[i] = IF i <= Len(old) THEN old[i] ELSE c[i - Len(old)]
  BY ConcatProperties
<1> HIDE DEF s
<1>3. \A i \in 1..(Len(s) - 1) : s[i] # NL
  <2> SUFFICES ASSUME NEW i \in 1..(Len(s) - 1) PROVE s[i] # NL
    OBVIOUS
  <2>1. CASE i <= Len(old)
    BY <1>1, <1>2, <2>1 DEF NoNewline
  <2>2. CASE ~(i <= Len(old))
    <3>1. i - Len(old) \in 1..(Len(c) - 1) /\ s[i] = c[i - Len(old)]
      BY <1>1, <1>2, <2>2
    <3> QED BY <3>1
  <2> QED BY <2>1, <2>2
<1>4. NoNewline(s) \/ OneLine(s)
  BY <1>1, <1>2, <1>3 DEF NoNewline, OneLine
<1> QED BY <1>2, <1>4 DEF s

-----------------------------------------------------------------------------
(* The device *)

\* The exactness of a loaded device's memory, as a relation of its parts.
SlotsOf(b, a) == {i \in Slots : b.entry[i].buffptr = a}
Exact(b, h, tmp, n) ==
  \A a \in Addrs :
    IF a = tmp THEN h[a] # NULL /\ Len(h[a]) = n /\ SlotsOf(b, a) = {}
    ELSE IF h[a] = NULL THEN SlotsOf(b, a) = {}
    ELSE \E i \in Slots : SlotsOf(b, a) = {i} /\ b.entry[i].size = Len(h[a])
Lines(b, h) ==
  \A i \in Slots : b.entry[i].buffptr # NULL => OneLine(h[b.entry[i].buffptr])

\* The relation above is the property of the specification.
LEMMA ExactIsExact ==
  MemoryExact <=> IF loaded THEN Exact(buffer, heap, tmpbuf, tmpbuf_size)
                  ELSE \A a \in Addrs : heap[a] = NULL
BY DEF MemoryExact, Exact, SlotsOf, EntryOf

\* The pointers of a well-formed buffer, and the one add_entry hands back.
LEMMA Pointers ==
  ASSUME NEW b, WellFormed(b)
  PROVE  /\ b.in_offs \in Slots
         /\ \A i \in Slots : b.entry[i].buffptr \in Addrs \cup {NULL}
         /\ AddEntryOldBuf(b) = b.entry[b.in_offs].buffptr
<1>1. /\ b.in_offs \in Slots /\ b.full \in BOOLEAN
      /\ b.entry \in [Slots -> Entry \cup {NoEntry}]
  BY DEF WellFormed, BufferType
<1>2. \A i \in Slots : b.entry[i].buffptr \in Addrs \cup {NULL}
  BY <1>1 DEF Entry, NoEntry
<1>3. ~b.full => b.entry[b.in_offs].buffptr = NULL
  <2> SUFFICES ASSUME ~b.full PROVE b.entry[b.in_offs].buffptr = NULL
    OBVIOUS
  <2>1. b.entry[b.in_offs] \notin Entry
    BY <1>1 DEF WellFormed, Slots
  <2> QED BY <1>1, <2>1 DEF NoEntry
<1> QED BY <1>1, <1>2, <1>3 DEF AddEntryOldBuf

\* krealloc, in place or to a free block, keeps the memory exact.
LEMMA FillExact ==
  ASSUME NEW b, WellFormed(b), NEW h, NEW tmp \in Addrs \cup {NULL}, NEW n,
         Exact(b, h, tmp, n), Lines(b, h),
         NEW a \in Addrs, a = tmp \/ h[a] = NULL,
         NEW s, s # NULL, NEW g,
         g = [x \in Addrs |-> IF x = a THEN s ELSE IF x = tmp THEN NULL ELSE h[x]]
  PROVE  Exact(b, g, a, Len(s)) /\ Lines(b, g)
<1>1. SlotsOf(b, a) = {} /\ (tmp \in Addrs => SlotsOf(b, tmp) = {})
  BY DEF Exact
<1>2. Exact(b, g, a, Len(s))
  <2> SUFFICES ASSUME NEW x \in Addrs
               PROVE  IF x = a THEN g[x] # NULL /\ Len(g[x]) = Len(s) /\ SlotsOf(b, x) = {}
                      ELSE IF g[x] = NULL THEN SlotsOf(b, x) = {}
                      ELSE \E i \in Slots : SlotsOf(b, x) = {i}
                                            /\ b.entry[i].size = Len(g[x])
    BY DEF Exact
  <2>1. CASE x = a
    BY <1>1, <2>1
  <2>2. CASE x # a /\ x = tmp
    BY <1>1, <2>2
  <2>3. CASE x # a /\ x # tmp
    <3>1. g[x] = h[x]
      BY <2>3
    <3> QED BY <2>3, <3>1 DEF Exact
  <2> QED BY <2>1, <2>2, <2>3
<1>3. Lines(b, g)
  <2> SUFFICES ASSUME NEW i \in Slots, b.entry[i].buffptr # NULL
               PROVE  OneLine(g[b.entry[i].buffptr])
    BY DEF Lines
  <2> DEFINE p == b.entry[i].buffptr
  <2>1. p \in Addrs /\ i \in SlotsOf(b, p)
    BY Pointers DEF SlotsOf
  <2>2. g[p] = h[p]
    BY <1>1, <2>1
  <2> QED BY <2>2 DEF Lines
<1> QED BY <1>2, <1>3

\* Pushing the finished command and freeing the one it replaces does as well.
LEMMA PushExact ==
  ASSUME NEW b, WellFormed(b), NEW h, NEW tmp \in Addrs, NEW n,
         Exact(b, h, tmp, n), Lines(b, h), OneLine(h[tmp]),
         NEW c, c = AddEntry(b, [buffptr |-> tmp, size |-> n]), NEW g,
         g = [x \in Addrs |-> IF x = AddEntryOldBuf(b) THEN NULL ELSE h[x]]
  PROVE  Exact(c, g, NULL, 0) /\ Lines(c, g)
<1> DEFINE j == b.in_offs
           old == b.entry[j].buffptr
<1>1. /\ j \in Slots /\ old = AddEntryOldBuf(b)
      /\ \A i \in Slots : b.entry[i].buffptr \in Addrs \cup {NULL}
  BY Pointers
<1>2. b.entry \in [Slots -> Entry \cup {NoEntry}]
  BY DEF WellFormed, BufferType
<1>3. /\ c.entry[j] = [buffptr |-> tmp, size |-> n]
      /\ \A i \in Slots \ {j} : c.entry[i] = b.entry[i]
  BY <1>1, <1>2 DEF AddEntry
<1>4. SlotsOf(b, tmp) = {} /\ h[tmp] # NULL /\ Len(h[tmp]) = n
  BY DEF Exact
<1>5. \A x \in Addrs : g[x] = IF x = old THEN NULL ELSE h[x]
  BY <1>1
<1> HIDE DEF j
<1>6. tmp # old /\ g[tmp] = h[tmp]
  BY <1>1, <1>4, <1>5 DEF SlotsOf
<1>7. Exact(c, g, NULL, 0)
  <2> SUFFICES ASSUME NEW x \in Addrs
               PROVE  IF g[x] = NULL THEN SlotsOf(c, x) = {}
                      ELSE \E i \in Slots : SlotsOf(c, x) = {i}
                                            /\ c.entry[i].size = Len(g[x])
    BY NULLAssumption DEF Exact
  <2>1. CASE x = tmp
    <3>1. SlotsOf(c, x) = {j} /\ c.entry[j].size = n
      BY <1>1, <1>3, <1>4, <2>1 DEF SlotsOf
    <3> QED BY <1>1, <1>4, <1>6, <2>1, <3>1
  <2>2. CASE x # tmp /\ x = old
    <3>1. j \in SlotsOf(b, x)
      BY <1>1, <2>2 DEF SlotsOf
    <3>2. SlotsOf(b, x) = {j}
      BY <2>2, <3>1 DEF Exact
    <3>3. SlotsOf(c, x) = {}
      BY <1>3, <2>2, <3>2 DEF SlotsOf
    <3> QED BY <1>5, <2>2, <3>3
  <2>3. CASE x # tmp /\ x # old
    <3>1. SlotsOf(c, x) = SlotsOf(b, x) /\ j \notin SlotsOf(b, x)
      BY <1>1, <1>3, <2>3 DEF SlotsOf
    <3>2. g[x] = h[x]
      BY <1>5, <2>3
    <3>3. IF h[x] = NULL THEN SlotsOf(b, x) = {}
          ELSE \E i \in Slots : SlotsOf(b, x) = {i} /\ b.entry[i].size = Len(h[x])
      BY <2>3 DEF Exact
    <3> QED BY <1>3, <3>1, <3>2, <3>3
  <2> QED BY <2>1, <2>2, <2>3
<1>8. Lines(c, g)
  <2> SUFFICES ASSUME NEW i \in Slots, c.entry[i].buffptr # NULL
               PROVE  OneLine(g[c.entry[i].buffptr])
    BY DEF Lines
  <2>1. CASE i = j
    BY <1>3, <1>6, <2>1
  <2>2. CASE i # j
    <3> DEFINE p == b.entry[i].buffptr
    <3>1. c.entry[i].buffptr = p /\ p \in Addrs /\ OneLine(h[p])
      BY <1>1, <1>3, <2>2 DEF Lines
    <3>2. p # old
      <4> SUFFICES ASSUME p = old PROVE FALSE
        OBVIOUS
      <4>1. i \in SlotsOf(b, p) /\ j \in SlotsOf(b, p)
        BY <1>1 DEF SlotsOf
      <4>2. \E k \in Slots : SlotsOf(b, p) = {k}
        BY <3>1, <4>1 DEF Exact
      <4> QED BY <2>2, <4>1, <4>2
    <3> QED BY <1>5, <3>1, <3>2
  <2> QED BY <2>1, <2>2
<1> QED BY <1>7, <1>8

\* Before insmod the heap is empty.
LEMMA InitDevice == Init => DeviceInv
<1> SUFFICES ASSUME Init PROVE DeviceInv
  OBVIOUS
<1>1. /\ buffer = EmptyBuffer /\ tmpbuf = NULL /\ tmpbuf_size = 0 /\ ~loaded
      /\ heap = [a \in Addrs |-> NULL] /\ \A t \in Threads : pc[t] = "user"
  BY DEF Init
<1>2. WellFormed(buffer)
  BY <1>1, EmptyBufferWellFormed
<1>3. MemoryExact /\ CommandsAreLines
  BY <1>1 DEF MemoryExact, CommandsAreLines
<1> QED BY <1>1, <1>2, <1>3 DEF DeviceInv

\* A step that leaves the device alone and no thread at, or out of, the push.
LEMMA DeviceAlone ==
  ASSUME DeviceInv, UNCHANGED <<device, loaded>>,
         \A t \in Threads : pc'[t] = "push" <=> pc[t] = "push"
  PROVE  DeviceInv'
<1>1. /\ buffer' = buffer /\ heap' = heap /\ tmpbuf' = tmpbuf
      /\ tmpbuf_size' = tmpbuf_size /\ loaded' = loaded
  BY DEF device
<1>2. MemoryExact'
  BY <1>1 DEF DeviceInv, MemoryExact, EntryOf
<1>3. CommandsAreLines'
  BY <1>1 DEF DeviceInv, CommandsAreLines, Partial
<1> QED BY <1>1, <1>2, <1>3 DEF DeviceInv

\* insmod starts from an empty heap.
LEMMA LoadDevice ==
  ASSUME ControlInv, DeviceInv, LoadModule
  PROVE  DeviceInv'
<1>1. /\ ~loaded /\ loaded' /\ buffer' = EmptyBuffer /\ tmpbuf' = NULL
      /\ tmpbuf_size' = 0 /\ heap' = heap /\ pc' = pc
  BY DEF LoadModule
<1>2. WellFormed(buffer')
  BY <1>1, EmptyBufferWellFormed
<1>3. \A t \in Threads : pc'[t] # "push"
  BY <1>1, BusyIsLoaded
<1>4. \A i \in Slots : buffer'.entry[i].buffptr = NULL
  BY <1>1 DEF EmptyBuffer, NoEntry
<1>5. MemoryExact'
  <2>1. \A a \in Addrs : heap'[a] = NULL /\ a # NULL
    BY <1>1, NULLAssumption DEF DeviceInv, MemoryExact
  <2>2. \A a \in Addrs : EntryOf(a)' = {}
    BY <1>4, <2>1 DEF EntryOf
  <2> QED BY <1>1, <2>1, <2>2 DEF MemoryExact
<1>6. CommandsAreLines'
  <2>1. NoNewline(Partial)'
    <3>1. Partial' = << >>
      BY <1>1 DEF Partial
    <3> QED BY <3>1 DEF NoNewline
  <2> QED BY <1>4, <2>1 DEF CommandsAreLines
<1> QED BY <1>1, <1>2, <1>3, <1>5, <1>6 DEF DeviceInv

\* rmmod frees every block, as each is an entry's or tmpbuf.
LEMMA UnloadDevice ==
  ASSUME ControlInv, DeviceInv, UnloadModule
  PROVE  DeviceInv'
<1>1. /\ loaded /\ ~loaded' /\ buffer' = buffer /\ tmpbuf' = tmpbuf
      /\ tmpbuf_size' = tmpbuf_size /\ pc' = pc
      /\ heap' = [a \in Addrs |-> IF a \in Reachable(buffer, tmpbuf) THEN NULL
                                  ELSE heap[a]]
  BY DEF UnloadModule
<1>2. \A t \in Threads : pc'[t] # "push"
  <2>1. \A f \in Files : ~f_open[f]
    BY DEF UnloadModule
  <2> QED BY <1>1, <2>1 DEF ControlInv, CallInv
<1>3. \A a \in Addrs : heap'[a] = NULL
  <2> SUFFICES ASSUME NEW a \in Addrs, a \notin Reachable(buffer, tmpbuf)
               PROVE  heap[a] = NULL
    BY <1>1
  <2>1. a # tmpbuf /\ EntryOf(a) = {}
    BY DEF Reachable, EntryOf
  <2> QED BY <1>1, <2>1 DEF DeviceInv, MemoryExact
<1>4. heap' \in [Addrs -> Seq(Byte) \cup {NULL}]
  BY <1>1 DEF DeviceInv
<1>5. MemoryExact' /\ CommandsAreLines'
  BY <1>1, <1>3 DEF MemoryExact, CommandsAreLines
<1> QED BY <1>1, <1>2, <1>4, <1>5 DEF DeviceInv

\* While a thread is in a body no other thread is about to push.
LEMMA AloneInBody ==
  ASSUME LockHeldInBody, NEW t \in Threads, pc[t] \in BodyLabels,
         NEW u \in Threads, u # t
  PROVE  pc[u] # "push"
BY DEF LockHeldInBody, BodyLabels

\* The copying loop of aesd_write extends an unfinished command by one chunk.
LEMMA WriteFillDevice ==
  ASSUME ControlInv, LockHeldInBody, DeviceInv, NEW t \in Threads, WriteFill(t)
  PROVE  DeviceInv'
<1> DEFINE w == call[t].data
           old == IF tmpbuf = NULL THEN << >> ELSE heap[tmpbuf]
           s == old \o Taken(w)
<1>1. /\ pc[t] = "fill" /\ buffer' = buffer /\ loaded' = loaded
      /\ pc' = [pc EXCEPT ![t] = "push"]
  BY DEF WriteFill, Step
<1>2. PICK a \in Free \cup ({tmpbuf} \ {NULL}) :
        /\ tmpbuf' = a
        /\ heap' = [x \in Addrs |-> IF x = a THEN s ELSE IF x = tmpbuf THEN NULL ELSE heap[x]]
        /\ tmpbuf_size' = tmpbuf_size + LastTaken(w)
  BY DEF WriteFill
<1>3. loaded /\ w \in Seq(Byte) \ {<< >>}
  BY <1>1, BusyIsLoaded, PayloadsAssumption DEF ControlInv, CallInv
<1>4. /\ WellFormed(buffer) /\ tmpbuf \in Addrs \cup {NULL} /\ tmpbuf_size \in Nat
      /\ heap \in [Addrs -> Seq(Byte) \cup {NULL}]
      /\ Exact(buffer, heap, tmpbuf, tmpbuf_size) /\ Lines(buffer, heap)
  BY <1>3, ExactIsExact DEF DeviceInv, CommandsAreLines, Lines
<1>5. a \in Addrs /\ (a = tmpbuf \/ heap[a] = NULL)
  BY <1>2, <1>4 DEF Free
<1>6. NoNewline(old)
  <2>1. \A u \in Threads : pc[u] # "push"
    <3>1. pc[t] \in BodyLabels
      BY <1>1 DEF BodyLabels
    <3> QED BY <1>1, <3>1, AloneInBody
  <2> QED BY <1>3, <2>1 DEF DeviceInv, CommandsAreLines, Partial
<1>7. old \in Seq(Byte) /\ Len(old) = tmpbuf_size
  <2>1. CASE tmpbuf = NULL
    BY <2>1, EmptySeq DEF DeviceInv
  <2>2. CASE tmpbuf # NULL
    BY <1>4, <2>2 DEF Exact
  <2> QED BY <2>1, <2>2
<1> HIDE DEF old, w
<1>8. /\ LastTaken(w) \in Nat \ {0} /\ Taken(w) \in Seq(Byte)
      /\ Len(Taken(w)) = LastTaken(w)
      /\ \A i \in 1..(LastTaken(w) - 1) : Taken(w)[i] # NL
  BY <1>3, TakenIsChunk
<1>9. /\ s \in Seq(Byte) /\ Len(s) = Len(old) + Len(Taken(w))
      /\ NoNewline(s) \/ OneLine(s)
  BY <1>6, <1>7, <1>8, AppendChunk
<1> HIDE DEF s
<1>10. Len(s) = tmpbuf_size' /\ tmpbuf_size' \in Nat /\ tmpbuf_size' # 0 /\ s # NULL
  <2>1. s # NULL
    BY <1>9, NULLBytesAssumption
  <2> QED BY <1>2, <1>4, <1>7, <1>8, <1>9, <2>1
<1>11. Exact(buffer, heap', a, Len(s)) /\ Lines(buffer, heap')
  BY <1>2, <1>4, <1>5, <1>10, FillExact
<1>12. heap' \in [Addrs -> Seq(Byte) \cup {NULL}]
  BY <1>2, <1>4, <1>9
<1>13. tmpbuf' # NULL /\ tmpbuf' \in Addrs /\ heap'[tmpbuf'] = s
  BY <1>2, <1>5, NULLAssumption
<1>14. MemoryExact'
  <2>1. Exact(buffer', heap', tmpbuf', tmpbuf_size')
    BY <1>1, <1>2, <1>10, <1>11
  <2> QED BY <1>1, <1>3, <2>1 DEF MemoryExact, Exact, SlotsOf, EntryOf
<1>15. CommandsAreLines'
  <2>1. Partial' = s /\ pc'[t] = "push"
    BY <1>1, <1>13 DEF Partial, ControlInv
  <2>2. NoNewline(Partial)' \/ OneLine(Partial)'
    BY <1>9, <2>1 DEF NoNewline, OneLine
  <2> QED BY <1>1, <1>11, <2>1, <2>2 DEF CommandsAreLines, Lines
<1> QED BY <1>1, <1>3, <1>4, <1>10, <1>12, <1>13, <1>14, <1>15 DEF DeviceInv

\* aesd_write pushes a finished command, or leaves an unfinished one.
LEMMA WritePushDevice ==
  ASSUME ControlInv, LockHeldInBody, DeviceInv, NEW t \in Threads, WritePush(t)
  PROVE  DeviceInv'
<1> DEFINE s == heap[tmpbuf]
           e == [buffptr |-> tmpbuf, size |-> tmpbuf_size]
<1>1. /\ pc[t] = "push" /\ loaded' = loaded /\ pc' = [pc EXCEPT ![t] = "unlock"]
  BY DEF WritePush, Step
<1>2. /\ loaded /\ tmpbuf \in Addrs /\ tmpbuf # NULL /\ tmpbuf_size \in Nat \ {0}
      /\ WellFormed(buffer) /\ heap \in [Addrs -> Seq(Byte) \cup {NULL}]
  BY <1>1 DEF DeviceInv
<1>3. Exact(buffer, heap, tmpbuf, tmpbuf_size) /\ Lines(buffer, heap)
  BY <1>2, ExactIsExact DEF DeviceInv, CommandsAreLines, Lines
<1>4. s \in Seq(Byte) /\ Len(s) = tmpbuf_size
  BY <1>2, <1>3 DEF Exact
<1>5. NoNewline(s) \/ OneLine(s)
  BY <1>2 DEF DeviceInv, CommandsAreLines, Partial
<1>6. \A u \in Threads : pc'[u] # "push"
  <2>1. pc[t] \in BodyLabels
    BY <1>1 DEF BodyLabels
  <2> QED BY <1>1, <2>1, AloneInBody DEF ControlInv
<1>7. CASE s[tmpbuf_size] = NL
  <2>1. /\ buffer' = AddEntry(buffer, e) /\ tmpbuf' = NULL /\ tmpbuf_size' = 0
        /\ heap' = [a \in Addrs |-> IF a = AddEntryOldBuf(buffer) THEN NULL ELSE heap[a]]
    BY <1>7 DEF WritePush
  <2>2. OneLine(s)
    BY <1>2, <1>4, <1>5, <1>7 DEF NoNewline
  <2>3. WellFormed(buffer')
    <3>1. e \in Entry
      BY <1>2 DEF Entry
    <3> QED BY <1>2, <2>1, <3>1, AddEntryWellFormed
  <2>4. Exact(buffer', heap', NULL, 0) /\ Lines(buffer', heap')
    BY <1>2, <1>3, <2>1, <2>2, PushExact
  <2>5. heap' \in [Addrs -> Seq(Byte) \cup {NULL}]
    BY <1>2, <2>1
  <2>6. MemoryExact'
    BY <1>1, <1>2, <2>1, <2>4 DEF MemoryExact, Exact, SlotsOf, EntryOf
  <2>7. CommandsAreLines'
    <3>1. NoNewline(Partial)'
      <4>1. Partial' = << >>
        BY <2>1 DEF Partial
      <4> QED BY <4>1 DEF NoNewline
    <3> QED BY <2>4, <3>1 DEF CommandsAreLines, Lines
  <2> QED BY <1>6, <2>1, <2>3, <2>5, <2>6, <2>7 DEF DeviceInv
<1>8. CASE s[tmpbuf_size] # NL
  <2>1. /\ buffer' = buffer /\ tmpbuf' = tmpbuf /\ tmpbuf_size' = tmpbuf_size
        /\ heap' = heap
    BY <1>8 DEF WritePush, device
  <2>2. NoNewline(s)
    BY <1>2, <1>4, <1>5, <1>8 DEF OneLine
  <2>3. MemoryExact'
    BY <1>1, <2>1 DEF DeviceInv, MemoryExact, EntryOf
  <2>4. CommandsAreLines'
    <3>1. NoNewline(Partial)'
      BY <1>2, <2>1, <2>2 DEF Partial, NoNewline
    <3> QED BY <1>3, <2>1, <3>1 DEF CommandsAreLines, Lines
  <2> QED BY <1>2, <1>6, <2>1, <2>3, <2>4 DEF DeviceInv
<1> QED BY <1>7, <1>8

\* Every other step of a thread, and open and close, leave the device alone.
LEMMA OtherDevice ==
  ASSUME ControlInv, DeviceInv, NEW t \in Threads,
         \/ ReadFind(t) \/ ReadCopy(t) \/ WriteCopyIn(t) \/ LlseekSeek(t)
         \/ IoctlJump(t) \/ Unlock(t) \/ Return(t) \/ Lock(t) \/ LockInterrupted(t)
         \/ \E f \in Files : EnterSome(t, f)
  PROVE  DeviceInv'
<1>1. UNCHANGED <<device, loaded>>
  BY Zenon DEF ReadFind, ReadCopy, WriteCopyIn, LlseekSeek, IoctlJump, Unlock, Return, Lock,
         LockInterrupted, EnterSome, SysRead, SysWrite, SysLlseek, SysIoctl,
         SysIoctlBad, Enter, Step, device
<1>2. pc[t] # "push" /\ \E label \in Labels \ {"push"} : pc' = [pc EXCEPT ![t] = label]
  <2>1. CASE ReadFind(t)
    BY <2>1 DEF ReadFind, Step, Labels, BodyLabels
  <2>2. CASE ReadCopy(t)
    BY <2>2 DEF ReadCopy, Step, Labels, BodyLabels
  <2>3. CASE WriteCopyIn(t)
    BY <2>3 DEF WriteCopyIn, Step, Labels, BodyLabels
  <2>4. CASE LlseekSeek(t)
    BY <2>4 DEF LlseekSeek, Step, Labels, BodyLabels
  <2>5. CASE IoctlJump(t)
    BY <2>5 DEF IoctlJump, Step, Labels, BodyLabels
  <2>6. CASE Unlock(t) \/ Return(t) \/ LockInterrupted(t)
    BY <2>6 DEF Unlock, Return, LockInterrupted, Labels
  <2>7. CASE Lock(t)
    <3>1. call[t].op \in DOMAIN Body
      BY <2>7 DEF Lock, ControlInv, CallInv
    <3>2. Body[call[t].op] \in Labels \ {"push"}
      BY <3>1, NoCallFields DEF Labels, BodyLabels
    <3> QED BY <2>7, <3>2, Zenon DEF Lock
  <2>8. CASE \E f \in Files : EnterSome(t, f)
    BY <2>8, Zenon DEF EnterSome, SysRead, SysWrite, SysLlseek, SysIoctl, SysIoctlBad, Enter,
       Labels
  <2> QED BY <2>1, <2>2, <2>3, <2>4, <2>5, <2>6, <2>7, <2>8
<1>3. \A u \in Threads : pc'[u] = "push" <=> pc[u] = "push"
  <2>1. PICK label \in Labels \ {"push"} : pc' = [pc EXCEPT ![t] = label]
    BY <1>2
  <2>2. \A u \in Threads : pc'[u] = IF u = t THEN label ELSE pc[u]
    BY <2>1 DEF ControlInv
  <2> QED BY <1>2, <2>1, <2>2
<1> QED BY <1>1, <1>3, DeviceAlone

\* Every step keeps the device's invariant.
LEMMA NextDevice ==
  ASSUME ControlInv, LockHeldInBody, DeviceInv, [Next]_vars
  PROVE  DeviceInv'
<1>1. CASE UNCHANGED vars
  <2>1. UNCHANGED <<device, loaded>> /\ pc' = pc
    BY <1>1 DEF vars, device
  <2> QED BY <2>1, DeviceAlone
<1>2. CASE LoadModule \/ UnloadModule
  BY <1>2, LoadDevice, UnloadDevice
<1>3. CASE \E f \in Files : Open(f) \/ Release(f)
  <2>1. UNCHANGED <<device, loaded>> /\ pc' = pc
    BY <1>3 DEF Open, Release
  <2> QED BY <2>1, DeviceAlone
<1>4. ASSUME NEW t \in Threads,
             Lock(t) \/ LockInterrupted(t) \/ Proceed(t) \/ \E f \in Files : EnterSome(t, f)
      PROVE  DeviceInv'
  BY <1>4, OtherDevice, WriteFillDevice, WritePushDevice DEF Proceed
<1> QED BY <1>1, <1>2, <1>3, <1>4 DEF Next

\* The inductive invariant of the driver.
THEOREM DriverInvariant == Spec => []DriverInv
<1>1. Init => DriverInv
  BY InitControl, InitDevice DEF DriverInv
<1>2. DriverInv /\ [Next]_vars => DriverInv'
  BY NextControl, NextDevice DEF DriverInv
<1> QED BY <1>1, <1>2, PTL DEF Spec

(***************************************************************************)
(* Nothing aesd_write, krealloc, the eviction of the oldest command or     *)
(* rmmod does loses a block, frees one twice or leaves a dangling pointer, *)
(* for any number of writers, slots and blocks.                            *)
(***************************************************************************)
THEOREM DriverMemoryExact == Spec => []MemoryExact
<1>1. DriverInv => MemoryExact
  BY DEF DriverInv, DeviceInv
<1> QED BY <1>1, DriverInvariant, PTL

(***************************************************************************)
(* Each command the driver keeps is one line, however its bytes were       *)
(* spread over the write() calls of several threads; the unfinished        *)
(* command never holds a newline that has been left behind.                *)
(***************************************************************************)
THEOREM DriverCommandsAreLines == Spec => []CommandsAreLines
<1>1. DriverInv => CommandsAreLines
  BY DEF DriverInv, DeviceInv
<1> QED BY <1>1, DriverInvariant, PTL

-----------------------------------------------------------------------------
(* The driver implements CommandDevice *)

\* A sequence, each of its items replaced by what the heap holds at its pointer.
Strings(h, s) == [k \in 1..Len(s) |-> h[s[k].buffptr]]

\* Replacing items commutes with adding one to a bounded history.
LEMMA PushStrings ==
  ASSUME NEW S, NEW s \in Seq(S), NEW e \in S, NEW h, Len(s) <= MaxEntries
  PROVE  Strings(h, History!Push(s, e)) = Device!Push(Strings(h, s), h[e.buffptr])
<1> DEFINE m == Strings(h, s)
           d == h[e.buffptr]
           T == {h[x.buffptr] : x \in S}
<1>0. Len(s) \in Nat /\ MaxEntries \in 1..128
  BY LenProperties, MaxEntriesAssumption
<1>1. s \in [1..Len(s) -> S]
  BY LenProperties
<1>2. m \in Seq(T) /\ Len(m) = Len(s) /\ \A k \in 1..Len(s) : m[k] = h[s[k].buffptr]
  BY <1>0, <1>1 DEF Strings
<1>3. d \in T
  OBVIOUS
<1> HIDE DEF m, d, T
<1>4. CASE Len(s) < MaxEntries
  <2>1. History!Push(s, e) = Append(s, e) /\ Device!Push(m, d) = Append(m, d)
    BY <1>2, <1>4 DEF History!Push, Device!Push
  <2>2. /\ Append(s, e) \in Seq(S) /\ Len(Append(s, e)) = Len(s) + 1
        /\ \A k \in 1..(Len(s) + 1) : Append(s, e)[k] = IF k = Len(s) + 1 THEN e ELSE s[k]
    BY AppendElements, AppendProperties
  <2>3. /\ Append(m, d) \in [1..(Len(s) + 1) -> T]
        /\ \A k \in 1..(Len(s) + 1) : Append(m, d)[k] = IF k = Len(s) + 1 THEN d ELSE m[k]
    BY <1>2, <1>3, AppendElements
  <2>4. ASSUME NEW k \in 1..(Len(s) + 1)
        PROVE  h[Append(s, e)[k].buffptr] = Append(m, d)[k]
    <3>1. CASE k = Len(s) + 1
      BY <2>2, <2>3, <3>1 DEF d
    <3>2. CASE k # Len(s) + 1
      <4>1. k \in 1..Len(s)
        BY <1>0, <3>2
      <4> QED BY <1>2, <2>2, <2>3, <3>2, <4>1
    <3> QED BY <3>1, <3>2
  <2>5. Append(m, d) = [k \in 1..(Len(s) + 1) |-> Append(m, d)[k]]
    BY <2>3
  <2>6. Strings(h, Append(s, e)) = [k \in 1..(Len(s) + 1) |-> h[Append(s, e)[k].buffptr]]
    BY <2>2 DEF Strings
  <2> QED BY <2>1, <2>4, <2>5, <2>6 DEF m, d
<1>5. CASE Len(s) = MaxEntries
  <2>0. s # << >> /\ m # << >>
    BY <1>0, <1>2, <1>5, EmptySeq
  <2>1. History!Push(s, e) = Append(Tail(s), e) /\ Device!Push(m, d) = Append(Tail(m), d)
    BY <1>0, <1>2, <1>5 DEF History!Push, Device!Push
  <2>2. /\ Append(Tail(s), e) \in [1..Len(s) -> S]
        /\ \A k \in 1..Len(s) : Append(Tail(s), e)[k] = IF k = Len(s) THEN e ELSE s[k + 1]
    BY <2>0, AppendTailElements
  <2>3. /\ Append(Tail(m), d) \in [1..Len(s) -> T]
        /\ \A k \in 1..Len(s) : Append(Tail(m), d)[k] = IF k = Len(s) THEN d ELSE m[k + 1]
    BY <1>2, <1>3, <2>0, AppendTailElements
  <2>4. ASSUME NEW k \in 1..Len(s)
        PROVE  h[Append(Tail(s), e)[k].buffptr] = Append(Tail(m), d)[k]
    <3>1. CASE k = Len(s)
      BY <2>2, <2>3, <3>1 DEF d
    <3>2. CASE k # Len(s)
      <4>1. k + 1 \in 1..Len(s)
        BY <1>0, <3>2
      <4>2. m[k + 1] = h[s[k + 1].buffptr]
        BY <1>2, <4>1
      <4>3. Append(Tail(s), e)[k] = s[k + 1] /\ Append(Tail(m), d)[k] = m[k + 1]
        BY <2>2, <2>3, <3>2
      <4> QED BY <4>2, <4>3
    <3> QED BY <3>1, <3>2
  <2>5. Append(Tail(m), d) = [k \in 1..Len(s) |-> Append(Tail(m), d)[k]]
    BY <2>3
  <2>6. Len(Append(Tail(s), e)) = Len(s)
    <3>1. Tail(s) \in Seq(S) /\ Len(Tail(s)) = Len(s) - 1
      BY <2>0, HeadTailProperties
    <3>2. Len(Append(Tail(s), e)) = Len(Tail(s)) + 1
      BY <3>1, AppendProperties
    <3> QED BY <1>0, <3>1, <3>2
  <2>7. Strings(h, Append(Tail(s), e)) = [k \in 1..Len(s) |-> h[Append(Tail(s), e)[k].buffptr]]
    BY <2>6 DEF Strings
  <2> QED BY <2>1, <2>4, <2>5, <2>7 DEF m, d
<1> QED BY <1>0, <1>4, <1>5

\* What the abstract device sees.
Kept == IF loaded THEN Commands ELSE << >>
Unfinished == IF loaded THEN Partial ELSE << >>

\* The commands kept, as the strings of the ring's contents.
LEMMA CommandsAreStrings ==
  ASSUME WellFormed(buffer)
  PROVE  Commands = Strings(heap, Contents(buffer))
BY ContentsAreEntries DEF Commands, Strings

\* A heap that agrees on the blocks of the entries holds the same commands.
LEMMA SameStrings ==
  ASSUME NEW b, WellFormed(b), NEW h, NEW g,
         \A i \in Slots : b.entry[i].buffptr \in Addrs => g[b.entry[i].buffptr] = h[b.entry[i].buffptr]
  PROVE  Strings(g, Contents(b)) = Strings(h, Contents(b))
<1> DEFINE s == Contents(b)
<1>1. /\ s \in Seq(Entry) /\ Len(s) = Count(b) /\ Count(b) \in Nat
      /\ \A k \in 1..Count(b) : \E i \in Slots : s[k] = b.entry[i]
  BY ContentsAreEntries
<1>2. \A k \in 1..Len(s) : s[k] \in Entry
  BY <1>1
<1>3. \A k \in 1..Len(s) : g[s[k].buffptr] = h[s[k].buffptr]
  BY <1>1, <1>2 DEF Entry
<1> HIDE DEF s
<1>4. Strings(g, s) = Strings(h, s)
  BY <1>3 DEF Strings
<1> QED BY <1>4 DEF s

\* The copying loop of aesd_write is the acceptance of one chunk.
LEMMA FillAccepts ==
  ASSUME ControlInv, LockHeldInBody, DeviceInv, NEW t \in Threads, WriteFill(t)
  PROVE  \E w \in Payloads : Device!Accept(Taken(w))
<1> DEFINE w == call[t].data
           old == IF tmpbuf = NULL THEN << >> ELSE heap[tmpbuf]
           s == old \o Taken(w)
<1>1. pc[t] = "fill" /\ buffer' = buffer /\ loaded' = loaded
  BY DEF WriteFill, Step
<1>2. PICK a \in Free \cup ({tmpbuf} \ {NULL}) :
        /\ tmpbuf' = a
        /\ heap' = [x \in Addrs |-> IF x = a THEN s ELSE IF x = tmpbuf THEN NULL ELSE heap[x]]
  BY DEF WriteFill
<1>3. loaded /\ w \in Payloads
  BY <1>1, BusyIsLoaded DEF ControlInv, CallInv
<1>4. /\ WellFormed(buffer) /\ tmpbuf \in Addrs \cup {NULL}
      /\ heap \in [Addrs -> Seq(Byte) \cup {NULL}]
      /\ Exact(buffer, heap, tmpbuf, tmpbuf_size)
  BY <1>3, ExactIsExact DEF DeviceInv
<1>5. a \in Addrs /\ (a = tmpbuf \/ heap[a] = NULL) /\ a # NULL
  BY <1>2, <1>4, NULLAssumption DEF Free
<1>6. NoNewline(old) /\ old \in Seq(Byte)
  <2>1. \A u \in Threads : pc[u] # "push"
    <3>1. pc[t] \in BodyLabels
      BY <1>1 DEF BodyLabels
    <3> QED BY <1>1, <3>1, AloneInBody
  <2>2. NoNewline(old)
    BY <1>3, <2>1 DEF DeviceInv, CommandsAreLines, Partial
  <2>3. CASE tmpbuf = NULL
    BY <2>2, <2>3
  <2>4. CASE tmpbuf # NULL
    BY <1>4, <2>2, <2>4 DEF Exact
  <2> QED BY <2>3, <2>4
<1>7. Unfinished = old
  BY <1>3 DEF Unfinished, Partial
<1>8. Unfinished' = s
  BY <1>1, <1>2, <1>3, <1>5 DEF Unfinished, Partial
<1>9. Kept' = Kept
  <2>1. \A i \in Slots : buffer.entry[i].buffptr \in Addrs =>
          heap'[buffer.entry[i].buffptr] = heap[buffer.entry[i].buffptr]
    <3> SUFFICES ASSUME NEW i \in Slots, NEW p \in Addrs, p = buffer.entry[i].buffptr
                 PROVE  heap'[p] = heap[p]
      OBVIOUS
    <3>1. i \in SlotsOf(buffer, p)
      BY DEF SlotsOf
    <3>2. p # tmpbuf /\ heap[p] # NULL
      BY <1>4, <3>1 DEF Exact
    <3> QED BY <1>2, <1>5, <3>2
  <2>2. Strings(heap', Contents(buffer)) = Strings(heap, Contents(buffer))
    BY <1>4, <2>1, SameStrings
  <2>3. Commands' = Strings(heap', Contents(buffer))
    BY <1>1, <1>4, ContentsAreEntries DEF Commands, Strings
  <2>4. Commands = Strings(heap, Contents(buffer))
    BY <1>4, CommandsAreStrings
  <2> QED BY <1>1, <1>3, <2>2, <2>3, <2>4 DEF Kept
<1> HIDE DEF w
<1>10. ~Device!Finished(old)
  <2>1. old # << >> => Len(old) \in 1..Len(old)
    BY <1>6, EmptySeq, LenProperties
  <2> QED BY <1>6, <2>1 DEF NoNewline, Device!Finished
<1> HIDE DEF old
<1>11. Device!Accept(Taken(w))
  BY <1>1, <1>3, <1>7, <1>8, <1>9, <1>10 DEF Device!Accept, Kept, Unfinished
<1> QED BY <1>3, <1>11

\* The push of a finished command is its commit to the history.
LEMMA PushCommits ==
  ASSUME DeviceInv, NEW t \in Threads, WritePush(t), heap[tmpbuf][tmpbuf_size] = NL
  PROVE  Device!Commit
<1> DEFINE s == heap[tmpbuf]
           e == [buffptr |-> tmpbuf, size |-> tmpbuf_size]
           h == Contents(buffer)
<1>1. /\ pc[t] = "push" /\ loaded' = loaded
      /\ buffer' = AddEntry(buffer, e) /\ tmpbuf' = NULL
      /\ heap' = [a \in Addrs |-> IF a = AddEntryOldBuf(buffer) THEN NULL ELSE heap[a]]
  BY DEF WritePush, Step
<1>2. /\ loaded /\ tmpbuf \in Addrs /\ tmpbuf # NULL /\ tmpbuf_size \in Nat \ {0}
      /\ WellFormed(buffer) /\ heap \in [Addrs -> Seq(Byte) \cup {NULL}]
  BY <1>1 DEF DeviceInv
<1>3. Exact(buffer, heap, tmpbuf, tmpbuf_size)
  BY <1>2, ExactIsExact DEF DeviceInv
<1>4. s \in Seq(Byte) /\ Len(s) = tmpbuf_size
  BY <1>2, <1>3 DEF Exact
<1>5. e \in Entry /\ WellFormed(AddEntry(buffer, e))
  <2>1. e \in Entry
    BY <1>2 DEF Entry
  <2> QED BY <1>2, <2>1, AddEntryWellFormed
<1>6. Unfinished = s /\ Unfinished' = << >>
  BY <1>1, <1>2 DEF Unfinished, Partial
<1>7. Device!Finished(s)
  BY <1>2, <1>4, EmptySeq DEF Device!Finished
<1>8. \A i \in Slots : buffer'.entry[i].buffptr \in Addrs =>
        heap'[buffer'.entry[i].buffptr] = heap[buffer'.entry[i].buffptr]
  <2> DEFINE j == buffer.in_offs
             old == AddEntryOldBuf(buffer)
  <2>1. /\ j \in Slots /\ old = buffer.entry[j].buffptr
        /\ buffer.entry \in [Slots -> Entry \cup {NoEntry}]
    BY <1>2, Pointers DEF WellFormed, BufferType
  <2>2. /\ buffer'.entry[j].buffptr = tmpbuf
        /\ \A i \in Slots \ {j} : buffer'.entry[i] = buffer.entry[i]
    BY <1>1, <2>1 DEF AddEntry
  <2> HIDE DEF j, old
  <2> SUFFICES ASSUME NEW i \in Slots, NEW p \in Addrs, p = buffer'.entry[i].buffptr, p = old
               PROVE  FALSE
    BY <1>1 DEF old
  <2>3. j \in SlotsOf(buffer, p)
    BY <2>1 DEF SlotsOf
  <2>4. p # tmpbuf
    BY <1>3, <2>3 DEF Exact
  <2>5. i # j
    BY <2>2, <2>4
  <2>6. i \in SlotsOf(buffer, p)
    BY <2>2, <2>5 DEF SlotsOf
  <2>7. \E k \in Slots : SlotsOf(buffer, p) = {k}
    BY <1>3, <2>3, <2>4 DEF Exact
  <2> QED BY <2>3, <2>5, <2>6, <2>7
<1>9. Commands' = Strings(heap, Contents(buffer'))
  <2>1. WellFormed(buffer')
    BY <1>1, <1>5
  <2>2. Strings(heap', Contents(buffer')) = Strings(heap, Contents(buffer'))
    BY <1>8, <2>1, SameStrings
  <2>3. Commands' = Strings(heap', Contents(buffer'))
    BY <2>1, ContentsAreEntries DEF Commands, Strings
  <2> QED BY <2>2, <2>3
<1>10. Contents(buffer') = History!Push(h, e)
  BY <1>1, <1>2, <1>5, AddEntryPushes
<1>11. h \in Seq(Entry) /\ Len(h) <= MaxEntries
  BY <1>2, ContentsAreEntries, MaxEntriesAssumption
<1>12. Commands = Strings(heap, h)
  BY <1>2, CommandsAreStrings
<1> HIDE DEF h
<1>13. Strings(heap, History!Push(h, e)) = Device!Push(Strings(heap, h), heap[e.buffptr])
  BY <1>5, <1>11, PushStrings
<1>14. Kept' = Device!Push(Kept, s)
  BY <1>1, <1>2, <1>9, <1>10, <1>12, <1>13 DEF Kept
<1> QED BY <1>1, <1>2, <1>6, <1>7, <1>14 DEF Device!Commit, Kept, Unfinished

\* insmod and rmmod leave a device without commands.
LEMMA ModuleResets ==
  ASSUME LoadModule \/ UnloadModule
  PROVE  Device!LoadOrUnload
<1>1. CASE LoadModule
  <2>1. ~loaded /\ loaded' = TRUE /\ buffer' = EmptyBuffer /\ tmpbuf' = NULL
    BY <1>1 DEF LoadModule
  <2>2. Commands' = << >> /\ Partial' = << >>
    BY <2>1 DEF Commands, Partial, Count, EmptyBuffer
  <2> QED BY <2>1, <2>2 DEF Device!LoadOrUnload
<1>2. CASE UnloadModule
  BY <1>2 DEF UnloadModule, Device!LoadOrUnload
<1> QED BY <1>1, <1>2

\* Every other step leaves the abstract device alone.
LEMMA OtherStutters ==
  ASSUME UNCHANGED <<device, loaded>>
  PROVE  Kept' = Kept /\ Unfinished' = Unfinished /\ loaded' = loaded
BY DEF device, Kept, Unfinished, Commands, Partial

\* Every step of the driver is a step of the abstract device, or none.
LEMMA NextIsDevice ==
  ASSUME ControlInv, LockHeldInBody, DeviceInv, [Next]_vars
  PROVE  [Device!DNext]_<<Kept, Unfinished, loaded>>
<1>1. CASE LoadModule \/ UnloadModule
  BY <1>1, ModuleResets DEF Device!DNext
<1>2. ASSUME NEW t \in Threads, WriteFill(t)
      PROVE  Device!DNext
  BY <1>2, FillAccepts DEF Device!DNext
<1>3. ASSUME NEW t \in Threads, WritePush(t), heap[tmpbuf][tmpbuf_size] = NL
      PROVE  Device!DNext
  BY <1>3, PushCommits DEF Device!DNext
<1>4. CASE /\ ~LoadModule /\ ~UnloadModule
           /\ \A t \in Threads : /\ ~WriteFill(t)
                                 /\ ~(WritePush(t) /\ heap[tmpbuf][tmpbuf_size] = NL)
  <2>1. ASSUME NEW t \in Threads, WritePush(t) PROVE UNCHANGED <<device, loaded>>
    BY <1>4, <2>1, Zenon DEF WritePush, Step
  <2>2. ASSUME NEW t \in Threads,
               \/ ReadFind(t) \/ ReadCopy(t) \/ WriteCopyIn(t) \/ LlseekSeek(t)
               \/ IoctlJump(t) \/ Unlock(t) \/ Return(t) \/ Lock(t) \/ LockInterrupted(t)
               \/ \E f \in Files : EnterSome(t, f)
        PROVE  UNCHANGED <<device, loaded>>
    BY <2>2, Zenon DEF ReadFind, ReadCopy, WriteCopyIn, LlseekSeek, IoctlJump, Unlock, Return, Lock,
       LockInterrupted, EnterSome, SysRead, SysWrite, SysLlseek, SysIoctl, SysIoctlBad, Enter,
       Step, device
  <2>3. CASE (\E f \in Files : Open(f) \/ Release(f)) \/ UNCHANGED vars
    <3>1. UNCHANGED <<device, loaded>>
      BY <2>3 DEF Open, Release, vars, device
    <3> QED BY <3>1, OtherStutters
  <2>4. CASE UNCHANGED <<device, loaded>>
    BY <2>4, OtherStutters
  <2> QED BY <1>4, <2>1, <2>2, <2>3, <2>4 DEF Next, Proceed
<1> QED BY <1>1, <1>2, <1>3, <1>4

(***************************************************************************)
(* For any number of threads, files, slots and blocks the driver           *)
(* implements the abstract device: bytes that were accepted are neither    *)
(* lost nor reordered nor torn apart by another writer, and the commands   *)
(* kept are the latest ones, oldest first.                                 *)
(***************************************************************************)
THEOREM DriverImplementsDevice == Spec => DriverIsDevice
<1>1. Init => Device!DInit
  BY DEF Init, Device!DInit
<1>2. DriverInv /\ [Next]_vars => [Device!DNext]_<<Kept, Unfinished, loaded>>
  BY NextIsDevice DEF DriverInv
<1> QED
  BY <1>1, <1>2, DriverInvariant, PTL
     DEF Spec, DriverIsDevice, Device!DSpec, Kept, Unfinished


-----------------------------------------------------------------------------
(* Positions *)

(***************************************************************************)
(* What a call c at a label carries besides what CallInv says: its         *)
(* argument until it is used, a position, and, while aesd_read is about to *)
(* copy, an entry that was found in the buffer b as it still is.           *)
(***************************************************************************)
PosOK(c, label, b) ==
  /\ c.op \in {"none"} \cup DOMAIN Body /\ c.file \in Files \cup {NULL}
  /\ c.pos \in Nat /\ c.ret \in Int
  /\ c.op = "llseek" => c.arg \in Lseeks
  /\ c.op = "ioctl" /\ label # "ret" => c.arg \in SeekTos
  /\ label = "seek" => c.op = "llseek"
  /\ label = "jump" => c.op = "ioctl"
  /\ label = "copy" => c.found = FindEntry(b, c.pos) /\ c.found # NULL

PositionInv ==
  /\ f_pos \in [Files -> Nat]
  /\ \A t \in Threads : PosOK(call[t], pc[t], buffer)

\* Outside any call.
LEMMA NoCallPosOK ==
  /\ NoCall.file = NULL /\ NoCall.pos = 0 /\ NoCall.ret = 0
  /\ \A b : PosOK(NoCall, "user", b)
BY NoCallFields DEF NoCall, PosOK

\* A step of one thread: nobody else is about to copy if it changes the buffer.
LEMMA ThreadPosition ==
  ASSUME ControlInv, PositionInv, NEW t \in Threads, NEW label, NEW c,
         pc' = [pc EXCEPT ![t] = label], call' = [call EXCEPT ![t] = c],
         f_pos' \in [Files -> Nat], PosOK(c, label, buffer'),
         \A u \in Threads \ {t} : pc[u] = "copy" => buffer' = buffer
  PROVE  PositionInv'
<1>1. /\ pc'[t] = label /\ call'[t] = c
      /\ \A u \in Threads \ {t} : pc'[u] = pc[u] /\ call'[u] = call[u]
  BY DEF ControlInv
<1>2. PosOK(call'[t], pc'[t], buffer')
  BY <1>1
<1>3. ASSUME NEW u \in Threads \ {t} PROVE PosOK(call'[u], pc'[u], buffer')
  <2>1. PosOK(call[u], pc[u], buffer)
    BY DEF PositionInv
  <2>2. CASE pc[u] = "copy"
    BY <1>1, <2>1, <2>2
  <2>3. CASE pc[u] # "copy"
    <3>1. PosOK(call[u], pc[u], buffer')
      BY <2>1, <2>3, Zenon DEF PosOK
    <3> QED BY <1>1, <3>1
  <2> QED BY <2>2, <2>3
<1> QED BY <1>2, <1>3 DEF PositionInv

\* The ways into a file operation.
LEMMA EnterPosition ==
  ASSUME ControlInv, PositionInv, NEW t \in Threads, NEW f \in Files, EnterSome(t, f)
  PROVE  PositionInv'
<1>1. ASSUME NEW op \in DOMAIN Body, NEW arg, NEW data, NEW pos \in Nat,
             op = "llseek" => arg \in Lseeks, op = "ioctl" => arg \in SeekTos,
             Enter(t, f, op, arg, data, pos)
      PROVE  PositionInv'
  <2> DEFINE c == [NoCall EXCEPT !.op = op, !.file = f, !.arg = arg, !.data = data,
                                 !.pos = pos]
  <2>1. c.op = op /\ c.file = f /\ c.pos = pos /\ c.ret = 0 /\ c.arg = arg
    BY DEF NoCall
  <2>2. /\ call' = [call EXCEPT ![t] = c] /\ pc' = [pc EXCEPT ![t] = "lock"]
        /\ f_pos' = f_pos /\ buffer' = buffer
    BY <1>1 DEF Enter, device
  <2> HIDE DEF c
  <2>3. PosOK(c, "lock", buffer')
    BY <1>1, <2>1 DEF PosOK
  <2> QED BY <2>2, <2>3, ThreadPosition DEF PositionInv
<1>2. CASE SysRead(t, f)
  <2>1. f_pos[f] \in Nat
    BY DEF PositionInv
  <2> QED BY <1>1, <1>2, <2>1, NoCallFields DEF SysRead
<1>3. ASSUME NEW w \in Payloads, SysWrite(t, f, w) PROVE PositionInv'
  <2>1. f_pos[f] \in Nat
    BY DEF PositionInv
  <2> QED BY <1>1, <1>3, <2>1, NoCallFields DEF SysWrite
<1>4. ASSUME NEW s \in Lseeks, SysLlseek(t, f, s) PROVE PositionInv'
  BY <1>1, <1>4, NoCallFields DEF SysLlseek
<1>5. ASSUME NEW s \in SeekTos, SysIoctl(t, f, s) PROVE PositionInv'
  BY <1>1, <1>5, NoCallFields DEF SysIoctl
<1>6. CASE SysIoctlBad(t, f)
  <2>1. PICK err \in {ENOTTY, EFAULT} :
          call' = [call EXCEPT ![t] =
                    [NoCall EXCEPT !.op = "ioctl", !.file = f, !.ret = err]]
    BY <1>6 DEF SysIoctlBad
  <2> DEFINE c == [NoCall EXCEPT !.op = "ioctl", !.file = f, !.ret = err]
  <2>2. c.op = "ioctl" /\ c.file = f /\ c.pos = 0 /\ c.ret = err
    BY DEF NoCall
  <2>3. /\ call' = [call EXCEPT ![t] = c] /\ pc' = [pc EXCEPT ![t] = "ret"]
        /\ f_pos' = f_pos /\ buffer' = buffer
    BY <1>6, <2>1 DEF SysIoctlBad, device
  <2> HIDE DEF c
  <2>4. PosOK(c, "ret", buffer')
    BY <2>2, NoCallFields DEF PosOK, ENOTTY, EFAULT
  <2> QED BY <2>3, <2>4, ThreadPosition DEF PositionInv
<1> QED BY <1>2, <1>3, <1>4, <1>5, <1>6 DEF EnterSome

\* Taking and giving back the mutex, a failed attempt, and the way back.
LEMMA LockPosition ==
  ASSUME ControlInv, PositionInv, NEW t \in Threads,
         Lock(t) \/ LockInterrupted(t) \/ Unlock(t) \/ Return(t)
  PROVE  PositionInv'
<1>1. /\ call = [u \in Threads |-> call[u]] /\ DOMAIN call[t] = CallFields
      /\ PosOK(call[t], pc[t], buffer) /\ f_pos \in [Files -> Nat]
      /\ pc[t] # "user" => call[t].file \in Files /\ call[t].op \in DOMAIN Body
  BY DEF ControlInv, CallInv, PositionInv
<1>2. CASE Lock(t)
  <2> DEFINE label == Body[call[t].op]
  <2>1. /\ call' = [call EXCEPT ![t] = call[t]] /\ pc' = [pc EXCEPT ![t] = label]
        /\ f_pos' = f_pos /\ buffer' = buffer /\ pc[t] = "lock"
    BY <1>1, <1>2 DEF Lock, device
  <2>2. /\ label # "copy" /\ (label = "seek" => call[t].op = "llseek")
        /\ (label = "jump" => call[t].op = "ioctl")
    BY <1>1, <2>1 DEF Body
  <2>3. PosOK(call[t], label, buffer')
    BY <1>1, <2>1, <2>2 DEF PosOK
  <2> QED BY <1>1, <2>1, <2>3, ThreadPosition
<1>3. CASE LockInterrupted(t)
  <2> DEFINE c == [call[t] EXCEPT !.ret = ERESTARTSYS]
  <2>1. /\ call' = [call EXCEPT ![t] = c] /\ pc' = [pc EXCEPT ![t] = "ret"]
        /\ f_pos' = f_pos /\ buffer' = buffer
    BY <1>1, <1>3 DEF LockInterrupted, device
  <2>2. /\ c.op = call[t].op /\ c.file = call[t].file /\ c.arg = call[t].arg
        /\ c.pos = call[t].pos /\ c.ret \in Int
    BY <1>1 DEF CallFields, ERESTARTSYS
  <2> HIDE DEF c
  <2>3. PosOK(c, "ret", buffer')
    BY <1>1, <2>2 DEF PosOK
  <2> QED BY <1>1, <2>1, <2>3, ThreadPosition
<1>4. CASE Unlock(t)
  <2> DEFINE c == [call[t] EXCEPT !.pos = IF call[t].op = "write" THEN 0 ELSE @]
  <2>1. /\ call' = [call EXCEPT ![t] = c] /\ pc' = [pc EXCEPT ![t] = "ret"]
        /\ f_pos' = f_pos /\ buffer' = buffer
    BY <1>1, <1>4 DEF Unlock, device
  <2>2. /\ c.op = call[t].op /\ c.file = call[t].file /\ c.arg = call[t].arg
        /\ c.pos \in {0, call[t].pos} /\ c.ret = call[t].ret
    BY <1>1 DEF CallFields
  <2> HIDE DEF c
  <2>3. PosOK(c, "ret", buffer')
    BY <1>1, <2>2 DEF PosOK
  <2> QED BY <1>1, <2>1, <2>3, ThreadPosition
<1>5. CASE Return(t)
  <2>1. /\ call' = [call EXCEPT ![t] = NoCall] /\ pc' = [pc EXCEPT ![t] = "user"]
        /\ buffer' = buffer /\ pc[t] = "ret"
        /\ f_pos' \in {f_pos, [f_pos EXCEPT ![call[t].file] = call[t].pos]}
    BY <1>5 DEF Return, device
  <2>2. call[t].file \in Files /\ call[t].pos \in Nat
    BY <1>1, <2>1 DEF PosOK
  <2>3. f_pos' \in [Files -> Nat]
    BY <1>1, <2>1, <2>2
  <2>4. PosOK(NoCall, "user", buffer')
    BY NoCallPosOK
  <2> QED BY <2>1, <2>3, <2>4, ThreadPosition
<1> QED BY <1>2, <1>3, <1>4, <1>5


\* A step of a body to its unlock label that leaves the buffer alone.
LEMMA UnlockingPosition ==
  ASSUME ControlInv, PositionInv, NEW t \in Threads, NEW c,
         Step(t, "unlock", c), f_pos' \in [Files -> Nat], buffer' = buffer,
         c.op = call[t].op, c.file = call[t].file, c.arg = call[t].arg,
         c.pos \in Nat, c.ret \in Int, pc[t] # "ret"
  PROVE  PositionInv'
<1>1. PosOK(call[t], pc[t], buffer)
  BY DEF PositionInv
<1>2. PosOK(c, "unlock", buffer')
  BY <1>1 DEF PosOK
<1> QED BY <1>2, ThreadPosition DEF Step

\* aesd_read: the position stays one, because the byte found is in its entry.
LEMMA ReadPosition ==
  ASSUME DriverInv, PositionInv, NEW t \in Threads, ReadFind(t) \/ ReadCopy(t)
  PROVE  PositionInv'
<1>1. /\ ControlInv /\ DOMAIN call[t] = CallFields /\ PosOK(call[t], pc[t], buffer)
      /\ f_pos' = f_pos /\ f_pos \in [Files -> Nat] /\ buffer' = buffer
      /\ WellFormed(buffer)
  BY DEF DriverInv, DeviceInv, ControlInv, CallInv, PositionInv, ReadFind, ReadCopy, device
<1>2. /\ call[t].pos \in Nat /\ call[t].ret \in Int
  BY <1>1 DEF PosOK
<1>3. CASE ReadFind(t)
  <2> DEFINE entry == FindEntry(buffer, call[t].pos)
             label == IF entry = NULL THEN "unlock" ELSE "copy"
             c == [call[t] EXCEPT !.found = entry]
  <2>1. Step(t, label, c) /\ pc[t] = "find"
    BY <1>3 DEF ReadFind
  <2> HIDE DEF entry
  <2>2. /\ c.op = call[t].op /\ c.file = call[t].file /\ c.arg = call[t].arg
        /\ c.pos = call[t].pos /\ c.ret = call[t].ret /\ c.found = entry
    BY <1>1 DEF CallFields
  <2> HIDE DEF c
  <2>3. label = "copy" => c.found = FindEntry(buffer', c.pos) /\ c.found # NULL
    BY <1>1, <2>2 DEF entry
  <2>4. label # "seek" /\ label # "jump" /\ label # "ret"
    OBVIOUS
  <2> HIDE DEF label
  <2>5. PosOK(c, label, buffer')
    BY <1>1, <2>1, <2>2, <2>3, <2>4 DEF PosOK
  <2> QED BY <1>1, <2>1, <2>5, ThreadPosition DEF Step
<1>4. CASE ReadCopy(t)
  <2> DEFINE e == buffer.entry[call[t].found.ind]
             from == call[t].found.offset
             n == e.size - from
             d == SubSeq(heap[e.buffptr], from + 1, e.size)
             p == call[t].pos + n
             c == [call[t] EXCEPT !.ret = n, !.pos = @ + n, !.found = NULL, !.data = d]
             f == [call[t] EXCEPT !.ret = EFAULT]
  <2>1. (Step(t, "unlock", c) \/ Step(t, "unlock", f)) /\ pc[t] = "copy"
    BY <1>4 DEF ReadCopy
  <2>2. call[t].found = FindEntry(buffer, call[t].pos) /\ call[t].found # NULL
    BY <1>1, <2>1 DEF PosOK
  <2>3. PICK k \in 1..Count(buffer) : LocatedIn(buffer, call[t].pos, k)
    BY <1>1, <1>2, <2>2, FoundIsLocated
  <2>4. from \in Nat /\ e.size \in Nat /\ from < e.size
    BY <2>2, <2>3 DEF LocatedIn
  <2> HIDE DEF e, from
  <2>5. n \in Nat /\ p \in Nat
    BY <1>2, <2>4
  <2> HIDE DEF n, d
  <2>6. /\ c.op = call[t].op /\ c.file = call[t].file /\ c.arg = call[t].arg
        /\ c.pos = p /\ c.ret = n
    BY <1>1 DEF CallFields
  <2>7. /\ f.op = call[t].op /\ f.file = call[t].file /\ f.arg = call[t].arg
        /\ f.pos = call[t].pos /\ f.ret \in Int
    BY <1>1 DEF CallFields, EFAULT
  <2> HIDE DEF c, f, p
  <2>8. n \in Int
    BY <2>5
  <2> QED BY <1>1, <1>2, <2>1, <2>5, <2>6, <2>7, <2>8, UnlockingPosition
<1> QED BY <1>3, <1>4

\* aesd_write: nobody else is in a body when it pushes its command.
LEMMA WritePosition ==
  ASSUME DriverInv, PositionInv, NEW t \in Threads,
         WriteCopyIn(t) \/ WriteFill(t) \/ WritePush(t)
  PROVE  PositionInv'
<1>1. /\ ControlInv /\ LockHeldInBody /\ DOMAIN call[t] = CallFields
      /\ PosOK(call[t], pc[t], buffer) /\ f_pos' = f_pos /\ f_pos \in [Files -> Nat]
      /\ pc[t] \in {"copyin", "fill", "push"}
  BY DEF DriverInv, ControlInv, CallInv, PositionInv, WriteCopyIn, WriteFill, WritePush
<1>2. /\ call[t].data \in Payloads \/ pc[t] = "push"
      /\ call[t].op = "write" /\ call[t].file \in Files
  BY <1>1 DEF ControlInv, CallInv
<1>3. \A u \in Threads \ {t} : pc[u] # "copy"
  <2>1. pc[t] \in BodyLabels /\ "copy" \in BodyLabels
    BY <1>1 DEF BodyLabels
  <2> QED BY <1>1, <2>1 DEF LockHeldInBody
<1>4. ASSUME NEW label \in {"fill", "push", "unlock"}, NEW c, Step(t, label, c),
             c.op = call[t].op, c.file = call[t].file, c.pos = call[t].pos, c.ret \in Int
      PROVE  PositionInv'
  <2>1. PosOK(c, label, buffer')
    BY <1>1, <1>2, <1>4 DEF PosOK
  <2> QED BY <1>1, <1>3, <1>4, <2>1, ThreadPosition DEF Step
<1>5. call[t].ret \in Int
  BY <1>1 DEF PosOK
<1>6. CASE WriteCopyIn(t)
  <2> DEFINE c == [call[t] EXCEPT !.ret = EFAULT, !.data = << >>]
  <2>1. Step(t, "fill", call[t]) \/ Step(t, "unlock", c)
    BY <1>6 DEF WriteCopyIn
  <2>2. c.op = call[t].op /\ c.file = call[t].file /\ c.pos = call[t].pos /\ c.ret \in Int
    BY <1>1 DEF CallFields, EFAULT
  <2> HIDE DEF c
  <2> QED BY <1>4, <1>5, <2>1, <2>2
<1>7. CASE WriteFill(t)
  <2> DEFINE n == LastTaken(call[t].data)
             c == [call[t] EXCEPT !.ret = n, !.data = << >>]
  <2>1. Step(t, "push", c) /\ pc[t] = "fill"
    BY <1>7 DEF WriteFill
  <2>2. n \in Int
    <3>1. call[t].data \in Seq(Byte) \ {<< >>}
      BY <1>2, <2>1, PayloadsAssumption
    <3> QED BY <3>1, TakenIsChunk
  <2> HIDE DEF n
  <2>3. c.op = call[t].op /\ c.file = call[t].file /\ c.pos = call[t].pos /\ c.ret \in Int
    BY <1>1, <2>2 DEF CallFields
  <2> HIDE DEF c
  <2> QED BY <1>4, <2>1, <2>3
<1>8. CASE WritePush(t)
  <2>1. Step(t, "unlock", call[t])
    BY <1>8 DEF WritePush
  <2> QED BY <1>4, <1>5, <2>1
<1> QED BY <1>6, <1>7, <1>8

\* aesd_llseek and the ioctl store a position only inside the device.
LEMMA SeekPosition ==
  ASSUME DriverInv, PositionInv, NEW t \in Threads, LlseekSeek(t) \/ IoctlJump(t)
  PROVE  PositionInv'
<1> DEFINE s == call[t].arg
           f == call[t].file
<1>1. /\ ControlInv /\ DOMAIN call[t] = CallFields /\ PosOK(call[t], pc[t], buffer)
      /\ f_pos \in [Files -> Nat] /\ buffer' = buffer
      /\ WellFormed(buffer) /\ pc[t] \in {"seek", "jump"}
  BY DEF DriverInv, DeviceInv, ControlInv, CallInv, PositionInv, LlseekSeek, IoctlJump, device
<1>2. call[t].pos \in Nat /\ f \in Files
  BY <1>1 DEF PosOK, ControlInv, CallInv
<1>3. ASSUME NEW r \in Int, Step(t, "unlock", [call[t] EXCEPT !.ret = r]),
             f_pos' \in [Files -> Nat]
      PROVE  PositionInv'
  <2> DEFINE c == [call[t] EXCEPT !.ret = r]
  <2>1. /\ c.op = call[t].op /\ c.file = call[t].file /\ c.arg = call[t].arg
        /\ c.pos = call[t].pos /\ c.ret = r
    BY <1>1 DEF CallFields
  <2>2. Step(t, "unlock", c)
    BY <1>3
  <2> HIDE DEF c
  <2> QED BY <1>1, <1>2, <1>3, <2>1, <2>2, UnlockingPosition
<1>4. CASE LlseekSeek(t)
  <2> DEFINE base == CASE s.whence = "SET" -> 0
                       [] s.whence = "CUR" -> f_pos[f]
                       [] s.whence = "END" -> buffer.size
             target == s.offset + base
             ok == target \in 0..buffer.size \/ (s.whence = "CUR" /\ s.offset = 0)
  <2>1. /\ pc[t] = "seek"
        /\ f_pos' = IF ok THEN [f_pos EXCEPT ![f] = target] ELSE f_pos
        /\ Step(t, "unlock", [call[t] EXCEPT !.ret = IF ok THEN target ELSE EINVAL])
    BY <1>4, Zenon DEF LlseekSeek
  <2>2. s \in Lseeks
    BY <1>1, <2>1 DEF PosOK
  <2>3. s.whence \in {"SET", "CUR", "END"} /\ s.offset \in Int
    BY <2>2, SeeksAssumption
  <2>4. buffer.size \in Int /\ f_pos[f] \in Nat
    BY <1>1, <1>2 DEF WellFormed, BufferType
  <2>5. base \in Int /\ (s.whence = "CUR" => base = f_pos[f])
    BY <2>3, <2>4
  <2> HIDE DEF base, s, f
  <2>6. target \in Int /\ (ok => target \in Nat)
    BY <2>3, <2>4, <2>5
  <2> HIDE DEF target, ok
  <2>7. (IF ok THEN target ELSE EINVAL) \in Int /\ f_pos' \in [Files -> Nat]
    BY <1>1, <1>2, <2>1, <2>6 DEF EINVAL
  <2> QED BY <1>3, <2>1, <2>7
<1>5. CASE IoctlJump(t)
  <2> DEFINE pos == JmpEntryOffset(buffer, s.write_cmd % 256, s.write_cmd_offset)
  <2>1. /\ pc[t] = "jump"
        /\ f_pos' = IF pos < 0 THEN f_pos ELSE [f_pos EXCEPT ![f] = pos]
        /\ Step(t, "unlock", [call[t] EXCEPT !.ret = IF pos < 0 THEN pos ELSE 0])
    BY <1>5, Zenon DEF IoctlJump
  <2>2. s \in SeekTos
    BY <1>1, <2>1 DEF PosOK
  <2>3. s.write_cmd_offset \in Nat
    BY <2>2, SeeksAssumption DEF SeekTo
  <2>4. pos \in Nat \cup {EINVAL}
    BY <1>1, <2>3, JumpIsPosition
  <2> HIDE DEF pos, s, f
  <2>5. (IF pos < 0 THEN pos ELSE 0) \in Int /\ (~(pos < 0) => pos \in Nat)
    BY <2>4 DEF EINVAL
  <2>6. f_pos' \in [Files -> Nat]
    BY <1>1, <1>2, <2>1, <2>5
  <2> QED BY <1>3, <2>1, <2>5, <2>6
<1> QED BY <1>4, <1>5

\* Positions stay positions on every step.
LEMMA NextPosition ==
  ASSUME DriverInv, PositionInv, [Next]_vars
  PROVE  PositionInv'
<1>0. ControlInv
  BY DEF DriverInv
<1>1. CASE UNCHANGED vars
  BY <1>1 DEF vars, PositionInv
<1>2. CASE LoadModule \/ UnloadModule
  <2>1. UNCHANGED <<f_pos, pc, call>>
    BY <1>2 DEF LoadModule, UnloadModule
  <2>2. ASSUME NEW t \in Threads PROVE PosOK(call[t], pc[t], buffer')
    <3>1. pc[t] = "user"
      BY <1>0, <1>2 DEF ControlInv, CallInv, LoadModule, UnloadModule
    <3>2. PosOK(call[t], pc[t], buffer)
      BY DEF PositionInv
    <3> QED BY <3>1, <3>2, Zenon DEF PosOK
  <2> QED BY <2>1, <2>2 DEF PositionInv
<1>3. CASE \E f \in Files : Open(f) \/ Release(f)
  <2>1. UNCHANGED <<buffer, pc, call>>
    BY <1>3 DEF Open, Release, device
  <2>2. f_pos' \in [Files -> Nat]
    BY <1>3 DEF Open, Release, PositionInv
  <2> QED BY <2>1, <2>2 DEF PositionInv
<1>4. ASSUME NEW t \in Threads, Lock(t) \/ LockInterrupted(t) \/ Proceed(t)
      PROVE  PositionInv'
  BY <1>0, <1>4, LockPosition, ReadPosition, WritePosition, SeekPosition DEF Proceed
<1>5. ASSUME NEW t \in Threads, NEW f \in Files, EnterSome(t, f)
      PROVE  PositionInv'
  BY <1>0, <1>5, EnterPosition
<1> QED BY <1>1, <1>2, <1>3, <1>4, <1>5 DEF Next

\* The inductive invariant of the driver with its positions.
THEOREM DriverPositions == Spec => []PositionInv
<1>1. Init => PositionInv
  BY NoCallPosOK DEF Init, PositionInv
<1>2. DriverInv /\ PositionInv /\ [Next]_vars => PositionInv'
  BY NextPosition
<1> QED BY <1>1, <1>2, DriverInvariant, PTL DEF Spec

(***************************************************************************)
(* Types: in particular a position in a file or a call is never negative,  *)
(* whichever of read, llseek and ioctl computed it.                        *)
(***************************************************************************)
THEOREM DriverTypeOK == Spec => []TypeOK
<1>1. DriverInv /\ PositionInv => TypeOK
  <2> SUFFICES ASSUME DriverInv, PositionInv PROVE TypeOK
    OBVIOUS
  <2>1. /\ buffer \in BufferType
        /\ \A a \in Addrs : heap[a] = NULL \/ heap[a] \in Seq(Byte)
        /\ tmpbuf \in Addrs \cup {NULL} /\ tmpbuf_size \in Nat
    BY DEF DriverInv, DeviceInv, WellFormed
  <2>2. /\ lock \in Threads \cup {NULL} /\ loaded \in BOOLEAN
        /\ f_open \in [Files -> BOOLEAN] /\ pc \in [Threads -> BodyLabels \cup {"user", "lock", "ret"}]
    BY DEF DriverInv, ControlInv, Labels
  <2>3. /\ f_pos \in [Files -> Nat]
        /\ \A t \in Threads :
             /\ call[t].op \in {"none"} \cup DOMAIN Body
             /\ call[t].file \in Files \cup {NULL}
             /\ call[t].pos \in Nat /\ call[t].ret \in Int
    BY DEF PositionInv, PosOK
  <2> QED BY <2>1, <2>2, <2>3 DEF TypeOK
<1> QED BY <1>1, DriverInvariant, DriverPositions, PTL


-----------------------------------------------------------------------------
(* The device as a file *)

\* A command of the ring, as the heap holds it.
LEMMA CommandOfEntry ==
  ASSUME DeviceInv, loaded, NEW k \in 1..Count(buffer)
  PROVE  /\ Commands[k] = heap[Contents(buffer)[k].buffptr]
         /\ Commands[k] \in Seq(Byte) /\ Len(Commands[k]) = Contents(buffer)[k].size
         /\ OneLine(Commands[k])
<1> DEFINE e == Contents(buffer)[k]
           p == e.buffptr
<1>1. /\ WellFormed(buffer) /\ heap \in [Addrs -> Seq(Byte) \cup {NULL}]
      /\ Exact(buffer, heap, tmpbuf, tmpbuf_size)
      /\ \A i \in Slots : buffer.entry[i].buffptr # NULL => OneLine(heap[buffer.entry[i].buffptr])
  BY ExactIsExact DEF DeviceInv, CommandsAreLines
<1>2. Commands[k] = heap[p]
  BY DEF Commands
<1>3. e \in Entry
  BY <1>1, ContentsAreEntries, ElementOfSeq
<1>4. PICK i \in Slots : e = buffer.entry[i]
  BY <1>1, ContentsAreEntries
<1>5. p \in Addrs /\ p # NULL
  BY <1>3, NULLAssumption DEF Entry
<1>6. i \in SlotsOf(buffer, p)
  BY <1>4 DEF SlotsOf
<1>7. p # tmpbuf /\ heap[p] # NULL
  BY <1>1, <1>5, <1>6 DEF Exact
<1>8. PICK j \in Slots : SlotsOf(buffer, p) = {j} /\ buffer.entry[j].size = Len(heap[p])
  BY <1>1, <1>5, <1>7 DEF Exact
<1>9. Len(heap[p]) = e.size
  BY <1>4, <1>6, <1>8
<1>10. OneLine(heap[p]) /\ heap[p] \in Seq(Byte)
  BY <1>1, <1>4, <1>5, <1>7
<1> QED BY <1>2, <1>9, <1>10

\* The stream is the commands end to end, each where PrefixSize puts it.
LEMMA StreamBytes ==
  ASSUME DeviceInv, loaded
  PROVE  /\ Stream \in Seq(Byte)
         /\ Len(Stream) = PrefixSize(buffer, Count(buffer))
         /\ \A k \in 1..Count(buffer) : \A j \in 1..Contents(buffer)[k].size :
              Stream[PrefixSize(buffer, k - 1) + j] = Commands[k][j]
<1> DEFINE n == Count(buffer)
           g == [k \in 0..n |-> PrefixSize(buffer, k)]
           s == Commands
<1>1. WellFormed(buffer)
  BY DEF DeviceInv
<1>2. n \in Nat
  BY <1>1, ContentsAreEntries, MaxEntriesAssumption
<1>3. \A k \in 1..n : s[k] \in Seq(Byte) /\ Len(s[k]) = Contents(buffer)[k].size
  BY CommandOfEntry
<1>4. s \in Seq(Seq(Byte)) /\ Len(s) = n
  <2>1. s = [k \in 1..n |-> s[k]]
    BY DEF Commands
  <2> HIDE DEF s, n
  <2> QED BY <1>2, <1>3, <2>1
<1>5. g \in [0..n -> Nat] /\ g[0] = 0
  BY <1>1, <1>2, PrefixGrows, PrefixSizes
<1>6. ASSUME NEW k \in 1..n PROVE g[k] = g[k - 1] + Len(s[k])
  <2>1. k \in 0..n /\ k - 1 \in 0..n
    BY <1>2
  <2>2. PrefixSize(buffer, k) = PrefixSize(buffer, k - 1) + Contents(buffer)[k].size
    BY <1>1, PrefixSizes
  <2> QED BY <1>3, <2>1, <2>2
<1>7. \A k \in 1..n : g[k - 1] = PrefixSize(buffer, k - 1)
  BY <1>2
<1>8. g[n] = PrefixSize(buffer, n)
  BY <1>2
<1> HIDE DEF g, s, n
<1>9. FlattenSeq(s) \in Seq(Byte) /\ Flattens(s, g, n, FlattenSeq(s))
  BY <1>4, <1>5, <1>6, FlattenElements
<1>10. Stream = FlattenSeq(s)
  BY DEF Stream, s
<1>11. Len(Stream) = g[n] /\ \A k \in 1..n : \A j \in 1..Len(s[k]) : Stream[g[k - 1] + j] = s[k][j]
  BY <1>9, <1>10 DEF Flattens
<1>12. \A k \in 1..n : \A j \in 1..Contents(buffer)[k].size :
         Stream[PrefixSize(buffer, k - 1) + j] = s[k][j]
  BY <1>3, <1>7, <1>11
<1> QED BY <1>8, <1>9, <1>10, <1>11, <1>12 DEF s, n

\* What a read of n bytes at position pos should get.
ReadsAt(pos, got, n) ==
  /\ Len(got) = n /\ got # << >>
  /\ got = SubSeq(Stream, pos + 1, pos + Len(got))
  /\ got[Len(got)] = NL

\* It is the rest of the k-th command, from the byte at position pos on.
LEMMA RestOfCommand ==
  ASSUME DeviceInv, loaded, NEW pos \in Nat, NEW k \in 1..Count(buffer),
         NEW from \in Nat, NEW size, size = Contents(buffer)[k].size, size \in Nat, from < size,
         PrefixSize(buffer, k - 1) \in Nat, from = pos - PrefixSize(buffer, k - 1)
  PROVE  ReadsAt(pos, SubSeq(Commands[k], from + 1, size), size - from)
<1> DEFINE w == Commands[k]
           base == PrefixSize(buffer, k - 1)
           n == size - from
           got == SubSeq(w, from + 1, size)
           part == SubSeq(Stream, pos + 1, pos + n)
<1>1. w \in Seq(Byte) /\ Len(w) = size /\ OneLine(w)
  BY CommandOfEntry
<1>2. \A j \in 1..size : Stream[base + j] = w[j] /\ w[j] \in Byte
  <2>1. \A j \in 1..size : w[j] \in Byte
    BY <1>1, ElementOfSeq
  <2> QED BY <2>1, StreamBytes
<1> HIDE DEF w, base
<1>3. n \in Nat /\ n # 0 /\ pos = base + from /\ base \in Nat
  BY DEF base
<1>4. \A i \in 1..n : from + i \in 1..size /\ (from + 1) + i - 1 = from + i
  OBVIOUS
<1>5. /\ got \in Seq(Byte) /\ Len(got) = n
      /\ \A i \in 1..n : got[i] = w[from + i]
  <2>1. \A i \in (from + 1)..size : w[i] \in Byte
    BY <1>2
  <2>2. /\ got \in Seq(Byte)
        /\ Len(got) = IF from + 1 <= size THEN size - (from + 1) + 1 ELSE 0
        /\ \A i \in 1..(size - (from + 1) + 1) : got[i] = w[(from + 1) + i - 1]
    BY <2>1, SubSeqProperties
  <2>3. from + 1 <= size /\ size - (from + 1) + 1 = n
    OBVIOUS
  <2> HIDE DEF got, n
  <2> QED BY <1>4, <2>2, <2>3
<1>6. /\ part \in Seq(Byte) /\ Len(part) = n
      /\ \A i \in 1..n : part[i] = w[from + i]
  <2>1. \A i \in 1..n : (pos + 1) + i - 1 = base + (from + i)
    BY <1>3
  <2>2. \A i \in (pos + 1)..(pos + n) : Stream[i] \in Byte
    <3> SUFFICES ASSUME NEW i \in (pos + 1)..(pos + n) PROVE Stream[i] \in Byte
      OBVIOUS
    <3>1. i - base \in 1..size /\ base + (i - base) = i
      BY <1>3
    <3> QED BY <1>2, <3>1
  <2>3. pos + 1 \in Int /\ pos + n \in Int
    BY <1>3
  <2>4. /\ part \in Seq(Byte)
        /\ Len(part) = IF pos + 1 <= pos + n THEN (pos + n) - (pos + 1) + 1 ELSE 0
        /\ \A i \in 1..((pos + n) - (pos + 1) + 1) : part[i] = Stream[(pos + 1) + i - 1]
    BY <2>2, <2>3, SubSeqProperties
  <2>5. pos + 1 <= pos + n /\ (pos + n) - (pos + 1) + 1 = n
    BY <1>3
  <2> HIDE DEF part, n
  <2>6. \A i \in 1..n : part[i] = Stream[base + (from + i)]
    BY <2>1, <2>4, <2>5
  <2>7. \A i \in 1..n : Stream[base + (from + i)] = w[from + i]
    BY <1>2, <1>4
  <2> QED BY <2>4, <2>5, <2>6, <2>7
<1> HIDE DEF got, part, n
<1>7. got = part
  <2>1. got \in [1..n -> Byte] /\ part \in [1..n -> Byte]
    BY <1>5, <1>6, LenProperties
  <2>2. got = [i \in 1..n |-> got[i]] /\ part = [i \in 1..n |-> part[i]]
    BY <2>1
  <2>3. \A i \in 1..n : got[i] = part[i]
    BY <1>5, <1>6
  <2> QED BY <2>2, <2>3, Zenon
<1>8. got[n] = NL
  <2>1. n \in 1..n /\ from + n = size /\ size \in 1..size
    BY <1>3 DEF n
  <2>2. got[n] = w[size]
    BY <1>5, <2>1
  <2> QED BY <1>1, <2>1, <2>2 DEF OneLine
<1>9. got # << >>
  BY <1>3, <1>5, EmptySeq
<1>10. ReadsAt(pos, got, n)
  BY <1>5, <1>7, <1>8, <1>9 DEF ReadsAt, part
<1> QED BY <1>10 DEF w, got, n

\* A thread leaves the labels of aesd_read by its own steps only.
LEMMA OwnReadStep ==
  ASSUME ControlInv, [Next]_vars, NEW t \in Threads, pc'[t] # pc[t]
  PROVE  /\ pc[t] = "find" => ReadFind(t)
         /\ pc[t] = "copy" => ReadCopy(t)
<1>1. CASE LoadModule \/ UnloadModule \/ (\E f \in Files : Open(f) \/ Release(f)) \/ UNCHANGED vars
  BY <1>1 DEF LoadModule, UnloadModule, Open, Release, vars
<1>2. ASSUME NEW u \in Threads, u # t, NEW label, pc' = [pc EXCEPT ![u] = label]
      PROVE  FALSE
  BY <1>2 DEF ControlInv
<1>3. ASSUME NEW u \in Threads,
             Lock(u) \/ LockInterrupted(u) \/ Proceed(u) \/ \E f \in Files : EnterSome(u, f)
      PROVE  \E label : pc' = [pc EXCEPT ![u] = label]
  BY <1>3, ZenonT(60) DEF Lock, LockInterrupted, Proceed, EnterSome, ReadFind, ReadCopy, WriteCopyIn,
     WriteFill, WritePush, LlseekSeek, IoctlJump, Unlock, Return, SysRead, SysWrite,
     SysLlseek, SysIoctl, SysIoctlBad, Enter, Step
<1>4. CASE Lock(t) \/ LockInterrupted(t) \/ Proceed(t) \/ \E f \in Files : EnterSome(t, f)
  BY <1>4, ZenonT(60) DEF Lock, LockInterrupted, Proceed, EnterSome, ReadFind, ReadCopy, WriteCopyIn,
     WriteFill, WritePush, LlseekSeek, IoctlJump, Unlock, Return, SysRead, SysWrite,
     SysLlseek, SysIoctl, SysIoctlBad, Enter
<1> QED BY <1>1, <1>2, <1>3, <1>4 DEF Next

(***************************************************************************)
(* aesd_read returns the bytes of the device's stream at the caller's      *)
(* position, to the end of one command, and 0 only at the end of the       *)
(* stream, whatever other threads wrote between its calls.                 *)
(***************************************************************************)
THEOREM DriverReadsStream == Spec => ReadsStream
<1> DEFINE Reads(t) ==
      LET pos == call[t].pos
          got == call'[t].data
      IN  /\ pc[t] = "copy" /\ pc'[t] # "copy" /\ call'[t].ret # EFAULT =>
               /\ call'[t].ret = Len(got) /\ got # << >>
               /\ got = SubSeq(Stream, pos + 1, pos + Len(got))
               /\ got[Len(got)] = NL
          /\ pc[t] = "find" /\ pc'[t] = "unlock" => pos >= Len(Stream)
<1>1. ASSUME DriverInv, PositionInv, [Next]_vars, NEW t \in Threads
      PROVE  Reads(t)
  <2> DEFINE pos == call[t].pos
  <2>1. /\ ControlInv /\ DeviceInv /\ WellFormed(buffer) /\ DOMAIN call[t] = CallFields
        /\ PosOK(call[t], pc[t], buffer) /\ call = [u \in Threads |-> call[u]]
    BY <1>1 DEF DriverInv, DeviceInv, ControlInv, CallInv, PositionInv
  <2>2. pos \in Nat
    BY <2>1 DEF PosOK
  <2>3. ASSUME pc[t] = "copy", pc'[t] # "copy", call'[t].ret # EFAULT
        PROVE  LET got == call'[t].data
               IN  /\ call'[t].ret = Len(got) /\ got # << >>
                   /\ got = SubSeq(Stream, pos + 1, pos + Len(got))
                   /\ got[Len(got)] = NL
    <3> DEFINE e == buffer.entry[call[t].found.ind]
               from == call[t].found.offset
               n == e.size - from
               d == SubSeq(heap[e.buffptr], from + 1, e.size)
               c == [call[t] EXCEPT !.ret = n, !.pos = @ + n, !.found = NULL, !.data = d]
               f == [call[t] EXCEPT !.ret = EFAULT]
    <3>1. ReadCopy(t) /\ loaded
      BY <1>1, <2>1, <2>3, OwnReadStep, BusyIsLoaded
    <3>2. Step(t, "unlock", c) \/ Step(t, "unlock", f)
      BY <3>1 DEF ReadCopy
    <3>3. call'[t] = c \/ call'[t] = f
      BY <2>1, <3>2 DEF Step
    <3>4. call[t].found = FindEntry(buffer, pos) /\ call[t].found # NULL
      BY <2>1, <2>3 DEF PosOK
    <3>5. PICK k \in 1..Count(buffer) : LocatedIn(buffer, pos, k)
      BY <2>1, <2>2, <3>4, FoundIsLocated
    <3>6. /\ e = Contents(buffer)[k] /\ from = pos - PrefixSize(buffer, k - 1)
          /\ from \in Nat /\ e.size \in Nat /\ from < e.size
          /\ PrefixSize(buffer, k - 1) \in Nat
      BY <3>4, <3>5 DEF LocatedIn
    <3>7. heap[e.buffptr] = Commands[k]
      BY <2>1, <3>1, <3>6, CommandOfEntry
    <3> HIDE DEF e, from, pos
    <3>8. d = SubSeq(Commands[k], from + 1, e.size)
      BY <3>7
    <3>9. /\ Len(d) = n /\ d # << >>
          /\ d = SubSeq(Stream, pos + 1, pos + Len(d))
          /\ d[Len(d)] = NL
      <4> DEFINE size == e.size
                 got == SubSeq(Commands[k], from + 1, size)
      <4>1. size = Contents(buffer)[k].size /\ size \in Nat /\ from < size
        BY <3>6
      <4> HIDE DEF size
      <4>2. ReadsAt(pos, got, size - from)
        <5>1. DeviceInv /\ loaded
          BY <2>1, <3>1
        <5>2. /\ PrefixSize(buffer, k - 1) \in Nat /\ from \in Nat
              /\ from = pos - PrefixSize(buffer, k - 1)
          BY <3>6
        <5> HIDE DEF n, d, c, f
        <5> QED BY <2>2, <4>1, <5>1, <5>2, RestOfCommand
      <4>3. d = got
        BY <3>8 DEF size
      <4> HIDE DEF got, d
      <4>4. n = size - from
        BY DEF size
      <4> QED BY <4>2, <4>3, <4>4 DEF ReadsAt
    <3> HIDE DEF n, d
    <3>10. c.ret = n /\ c.data = d /\ f.ret = EFAULT
      BY <2>1 DEF CallFields
    <3> HIDE DEF c, f
    <3>11. call'[t].ret = n /\ call'[t].data = d
      BY <2>3, <3>3, <3>10
    <3> QED BY <3>9, <3>11 DEF pos
  <2>4. ASSUME pc[t] = "find", pc'[t] = "unlock"
        PROVE  pos >= Len(Stream)
    <3>1. ReadFind(t) /\ loaded
      BY <1>1, <2>1, <2>4, OwnReadStep, BusyIsLoaded
    <3> DEFINE entry == FindEntry(buffer, pos)
    <3>2. pc' = [pc EXCEPT ![t] = IF entry = NULL THEN "unlock" ELSE "copy"]
      BY <3>1 DEF ReadFind, Step
    <3>3. entry = NULL
      <4> HIDE DEF entry
      <4> QED BY <2>1, <2>4, <3>2 DEF ControlInv
    <3>4. pos >= PrefixSize(buffer, Count(buffer))
      <4> SUFFICES ASSUME ~(pos >= PrefixSize(buffer, Count(buffer))) PROVE FALSE
        OBVIOUS
      <4>1. PICK k \in 1..Count(buffer) :
              /\ PrefixSize(buffer, k - 1) <= pos
              /\ NULL = [ind |-> PointerCast(buffer.out_offs + k - 1),
                         offset |-> pos - PrefixSize(buffer, k - 1)]
        BY <2>1, <2>2, <3>3, FindEntryFinds DEF FoundAt
      <4>2. Count(buffer) \in Nat /\ buffer.out_offs \in Nat
        BY <2>1, BoundaryIsEnd, MaxEntriesAssumption DEF Slots
      <4>3. buffer.out_offs + k - 1 \in Nat /\ k - 1 \in 0..Count(buffer)
        BY <4>2
      <4>4. PointerCast(buffer.out_offs + k - 1) \in Nat
        BY <2>1, <4>3, BlockLens
      <4>5. PrefixSize(buffer, k - 1) \in Nat
        BY <2>1, <4>3, PrefixGrows
      <4>6. pos - PrefixSize(buffer, k - 1) \in Nat
        BY <2>2, <4>1, <4>5
      <4> QED BY <4>1, <4>4, <4>6, NULLAssumption
    <3>5. Len(Stream) = PrefixSize(buffer, Count(buffer))
      BY <2>1, <3>1, StreamBytes
    <3> QED BY <3>4, <3>5
  <2> HIDE DEF pos
  <2>5. Reads(t)
    BY <2>3, <2>4 DEF pos
  <2> QED BY <2>5
<1>2. DriverInv /\ PositionInv /\ [Next]_vars => [\A t \in Threads : Reads(t)]_vars
  BY <1>1
<1> QED BY <1>2, DriverInvariant, DriverPositions, PTL DEF Spec, ReadsStream
=============================================================================
