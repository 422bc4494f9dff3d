# Formal models of the AESD character device and socket server

TLA+ specifications of the programs of this repository: the kernel module
behind `/dev/aesdchar` (`aesd-char-driver/`), the socket server `aesdsocket`
(`server/`), and the `systemcalls` and `threading` examples. TLC checks them on
small instances; TLAPS proves the theorems listed below for every value of the
constants. `PROJECT.json` maps every definition to the source lines it models.

## 1. The system

| Part | State | Operations | Concurrency |
|---|---|---|---|
| circular buffer (`aesd-circular-buffer.[ch]`) | ten `{buffptr, size}` slots, `in_offs`, `out_offs`, `full`, total `size` | init, add an entry, find the entry at a byte position, position of a byte of the n-th entry | none; the caller locks |
| char driver (`main.c`, `aesdchar.h`, `aesd_ioctl.h`) | the ring, the unfinished command `tmpbuf`, one mutex, a position per open file | load, unload, open, release, read, write, llseek, ioctl | any number of threads; the mutex attempt can be interrupted |
| server threads (`aesdsocket.[ch]`, list macros of `queue.h`) | list of threads, mutex, stop flag, timer | accept, receive, append, answer, clean up, timestamp, shutdown | main, a thread per connection, timer threads, a signal handler on top of main, cancellation |
| data file (`datafile.[ch]`) | a file on disk, or the char device | open, seek, append, remove, parse a seek command | shared by all threads under the server's mutex |
| receive buffer (`aesdsocket.c`, `append_string`) | a growing C string, its computed length and capacity | one iteration per `recv()` | one thread |
| systemcalls example (`systemcalls.c`) | the caller's children and descriptors | `do_system`, `do_exec`, `do_exec_redirect` | `fork`, `execv`, `wait` |
| threading example (`threading.[ch]`) | one mutex, an argument block per thread | start a thread that sleeps, locks, sleeps, unlocks | threads and the program that joins them |
| finder app, scripts, autotest example | | command line tools | none |

The server uses the driver through `open`, `write`, `read` and
`ioctl(AESDCHAR_IOCSEEKTO)`; built with `USE_AESD_CHAR_DEVICE=0` it uses a file
in `/var/tmp` instead, and only then does it have the timer.

What makes each part correct, and what is hard about it:

* ring: the three index fields move together when it wraps; lookups agree with
  the concatenation of the commands. Hard: boundaries, `uint8_t` indices.
* driver: no command or block is lost, freed twice or read after it was freed;
  every path gives the mutex back; reads return the stream. Hard: concurrent
  callers, error paths, evictions between two calls.
* server: an answer is a snapshot; the mutex is released on every path;
  shutdown ends; nothing is used after it was freed. Hard: cancellation at any
  blocking call, a handler that interrupts main, timer threads nobody joins.
* receive buffer: no overflow, no byte lost however the stream is split.
* a connection as a whole: the device keeps the latest lines of all clients and
  a seek command is answered from the byte it names. Hard: lines and seek
  commands in pieces, text that is almost a seek command, NUL bytes, a short
  count of `write()` that nobody looks at.
* systemcalls: the result is that of the command; children and descriptors are
  accounted for. Hard: each of six calls may fail, `wait()` takes any child.
* threading: the flag a thread leaves is true, its block is freed once, nobody
  waits for ever. Hard: a failure with the mutex held.

`hazards` in `PROJECT.json` lists these at their lines.

## 2. Modules

| Module | Models | Kind |
|---|---|---|
| `CommandHistory` | the most recent items, oldest first | abstract specification |
| `CircularBuffer` | `aesd-circular-buffer.[ch]` | component |
| `CommandDevice` | what the device promises about writes | abstract specification |
| `CharDriver` | `main.c`, extends `CircularBuffer` | component |
| `Server` | `aesdsocket.c`, `datafile.c`, both build modes | component |
| `Framing` | receive buffer of a connection, `append_string` | component |
| `Session` | one connection: `Framing`, `parse_seekto_cmd`, `append_datafile`, the ring, `send_response` | composition |
| `SystemCalls` | `systemcalls.c` | component |
| `Threading` | `threading.c`, `threading.h` | component |
| `CircularBuffer_proofs`, `CharDriver_proofs`, `Framing_proofs`, `Session_proofs`, `Server_proofs`, `SystemCalls_proofs`, `Threading_proofs` | | theorems and lemmas |
| `NatLemmas` | | lemmas about naturals, recursion and flattened sequences |
| `MCCircularBuffer`, `MCCharDriver`, `MCServer`, `MCSession` | | instances for TLC |

An operator whose comment begins with "Mutant:" is a variant of the definition
after it with a plausible bug; `PROJECT.json` names the property that notices.

**CircularBuffer.** The functions take the structure as a parameter, as in C.
`FindEntry` is the loop of `..._find_entry_offset_for_fpos`: `walk[i][off]` is what
it returns from slot index i on, with off bytes left. `JmpEntryOffset` is the
loop that adds up sizes (`pos[i]`, from i on) and keeps the comparison of an
unreduced loop index with a reduced one. `AddEntry`
and `AddEntryOldBuf` are the structure and the pointer that `..._add_entry`
leaves and returns. Alone, the module is a ring to which a caller adds entries.

**CharDriver.** A call is `user -> lock -> body -> unlock -> ret -> user`; each
label is a point where threads interleave. `heap` holds the contents of every
allocated block; `krealloc` may keep the block or move it. `Enter` and `Return`
are the kernel's system call layer: for read and write it copies the position
of the open file before the call and stores it back afterwards (a character
device has no lock on the position). The bodies follow `aesd_read`,
`aesd_write`, `aesd_llseek`, `aesd_unlocked_ioctl`; `write_cmd % 256` is the
conversion to `uint8_t`. Failing `copy_to_user`, `copy_from_user`, lock
attempts and argument checks are alternatives of their steps. The block into
which a `write()` copies its bytes, and which it frees before it returns, is not
part of `heap`: `call[t].data` is its contents. `rmmod` frees what the ring and
`tmpbuf` point to; `CommandDevice` forgets its commands only there. A failing `insmod` leaves nothing behind.

**Server.** `mpc`, `hpc`, `cpc[c]`, `tpc[k]` are the program counters of main,
of the handler that interrupts it, of the connection threads and of the timer
threads. Every blocking or file system call is a step; `accept()`,
`pthread_create` and the list insertion are three, and a signal may arrive before
each. A step at a cancellation point is taken only without a pending request; `Cancelled` is
what happens otherwise: inside the loop `connection_cleanup` runs, inside a
cleanup that runs at the end of the loop the thread ends, because
`pthread_cleanup_pop` has unregistered it. A line is one cell of the data
file, written at the position of its descriptor (file) or added to a bounded
history (device: the promise of `CommandDevice`, proved of the ring). Contents
are kept per inode, since a removed file may still be open. `Faults` names the
calls that may fail in a run, `SignalPoints` where main may be when a signal
arrives. Linux delivers a process signal to the main thread when it can. The
two signals mask themselves, not each other, so that at most two handlers are
active: `resume` is where the first was when the second interrupted it. `shutdown()` of the closed socket fails, so
that a handler that gets there second (`Retrying`) calls it for ever.
The mutex behaves as glibc's: `pthread_mutex_lock` is two steps, the look at the
kind of the mutex, which refuses a destroyed one, and obtaining it;
`pthread_mutex_destroy` returns EBUSY when somebody owns it and does not see who
waits for it, so that a waiter obtains a destroyed mutex; the unlock of that
one is refused. The walk
of main on an item that the handler has freed is undefined: it ends the walk or
the process. `Leftovers` is what an earlier server left: a file after a crash,
or the commands the device still has.

**Framing.** One action per `recv()`. `text` is the C string in the buffer,
`buflen` and `maxbuflen` what the code computes, `room` the space left in the
block when a line was completed, `received` what the client sent.

**Session.** `Deliver` is `Receive` followed, at the end of a line, by
`append_datafile` and `send_response`. It is one step because the server's
mutex covers it (`MutexGuardsFile`, `ReplyIsSnapshot`). The prefix
`AESDCHAR_IOCSEEKTO:` is one symbol and a digit is its value. `Strtoul` reads the
digits, refuses a number above `ULongMax` (`ULONG_MAX`) and cuts the others to
`UIntMod` (2^32), as the assignment to a `uint32_t` does; signs are left out.
`ParseSeekTo` is the set of results the parser can
have: exactly one for a well formed command, any value of `Garbage` where the
code reads an uninitialised variable. `DeviceWrite` takes the bytes up to the
first newline, as `aesd_write` does; an entry's `buffptr` is the contents of its
block, so that the functions of `CircularBuffer` are used as they are.
`Response` is the loop of reads, each to the end of one command. `OtherLine` is
a line of another connection. `log` is the history: the lines of the raw
streams, cut by the specification and not by the code.

**SystemCalls.** The n-th call, its child and its output descriptor are named
n. `log` keeps every call with its result, the children that were unreaped when
it began (`strays`) and whether its `wait()` was interrupted. `ForkFails` is the
missing `break`: the caller becomes the command or exits. The command, and
children the program starts by itself, are the environment.

**Threading.** One action per call of `threadfunc`; every call may fail. The
program that starts and joins the threads, frees their blocks and uses the same
mutex is the environment; its part is what the comments of `threading.h` say.

## 3. Runs

| Run | Checks | Bounds |
|---|---|---|
| `ring` | the ring is well formed, its total is right, lookups agree with concatenation, seeks before the wrap land, it implements `CommandHistory` | the code's ten slots; entry sizes 1 and 2, enough to tell every boundary apart |
| `driver` | lock discipline, exact memory, commands are lines, reads return the stream, `CommandDevice` is implemented, every call returns | one slot, so that every command but the first overwrites one; two threads on one shared open file, one block more than the device can refer to, strings of one or two characters, so that commands have up to three bytes; no symmetry. Streams of several commands are the subject of `ring` and `session`; the safety properties are proved for any number of slots, threads and blocks |
| `server_device` | an answer is a snapshot that contains the client's line; the list walk is safe; no thread ends with the mutex; no deadlock | two connections, two pieces each, device of two lines, so that lines are evicted |
| `server_signal` | on a data file: answers are snapshots, the file is only used under the mutex, argument blocks outlive their threads, and the handler destroys a mutex that is free or held by a thread it cannot know of, whatever point of main the signal interrupts | one piece per connection, one timer expiration, a file that may already exist |
| `server_shutdown` | on a data file: shutdown completes, after all connection threads, and leaves no data file unless a timer thread has created it anew | one or two signals, also during the handler, while main initialises or waits in `accept()`, so that no connection is on its way into the list; two connections, one piece each, one timer expiration |
| `session` | no overflow, nothing lost, writes are lines, the device keeps the latest lines, answers start where the seek says | three `recv()`: all strings of up to three over {a, newline, NUL}, and pieces of seek commands (good, split, without comma, numbers around the limits, text before the match); `ULongMax` = 600 and `UIntMod` = 512 stand for 2^64 - 1 and 2^32, which TLC's integers do not reach, so that 601 is refused, 512 and 513 wrap to 0 and 1, and 256 is cut by the driver; two lines of others; a ring of two slots, so that it wraps; a block of four bytes, so that it grows |
| `threading` | the mutex is held between lock and unlock, the flag is true, blocks are freed once, threads end | three threads, every call may fail |
| `systemcalls` | results, children, descriptors; a call that has forked returns | three calls, one child of the program's own, every call may fail: enough for an interrupted wait whose child ends in the next call |

`Idle` in `Server` lets a server without work wait, so that TLC's deadlock
check finds threads that wait for each other. `Session` and `SystemCalls` may
stop, when their bounded streams and calls do; so may `Threading`, when all
threads are joined or wait for a mutex that was left locked.

Bounds by name: `MaxSize` (entry sizes of the ring alone), `MaxPartial` (no
write without a newline starts beyond it), `MaxRecv`, `MaxRecvs`, `MaxOthers`,
`MaxCalls`, `MaxSignals`. Symmetry is used in safety runs only.

### Fairness

`CharDriver`: a thread inside the driver keeps running (weak fairness), and the
kernel's mutex, which hands itself to its first waiter, is strongly fair.
`Server`: every thread that can run does (weak fairness), `accept()` fails once
the socket is shut down. Nothing is assumed of clients: `Recv`, `RecvEnds` and
`ConnSends` need never happen, so `ShutdownCompletes` holds for clients that
never read. It is checked for signals that arrive while main waits in
`accept()` or initialises, and without failing `send()`. A signal between
`pthread_create` and the insertion breaks it: the thread that was missed may keep
the mutex while it waits for its client, and the handler joins a thread that
waits for the mutex. With one signal the server terminates; a second one may
end in the loop around `shutdown()`. Signals arrive between the calls of main or
while one blocks. The handler calls `syslog`, `free` and functions of pthreads,
which are not async-signal-safe: a signal inside `malloc` or `syslog` of main, or
a second one inside `syslog` of the handler, may deadlock in the C library, which
the model leaves out.
`SystemCalls`: the caller and its children run and commands end (an assumption
about the commands: `wait()` has no time limit). That `fork()` or `wait()` fails
is not counted on. `Threading`: sleeps end, threads run, the caller unlocks what
it locked; a mutex that is released again and again is obtained in the end
(strong fairness of `Obtain`). A failing lock is not counted on.

### Disagreements with the repository's comments

Each is a run that ends in a counterexample (`findings` quotes the comments).

* `seek_wrapped`: after the ring has wrapped, a seek to a command stored before
  `out_offs` goes to the total size plus the offset.
* `stale_append`: on a data file the end is looked up before the mutex is
  taken; a line overwrites one appended meanwhile.
* `cancel_in_cleanup`: after a failed `send()`, a cancellation inside the
  cleanup leaves the mutex locked for ever; a second thread that waits for it
  then keeps the handler's join from returning.
* `fork_fails`: without a `break` after the case of a failed `fork()` the caller
  runs the command itself or exits; the comment says the call returns false.

Some behaviour is stated as it is, as the exception in a property that holds:

* a signal between the return of `accept()` and the list insertion is handled
  without the new connection: main then starts the thread, or has started it,
  and exits while it runs, and on a data file the thread may create the removed
  file again. `ExitAfterThreads` and `NoFileLeft` are claimed without a signal in
  this window; TLC refutes both when `SignalPoints` has create or insert;
* command 256 is command 0, and 2^32 is 0 in both numbers (`SeekAnswers` takes
  X and Y modulo `UIntMod`, then X modulo 256);
* a timer thread in flight, or a connection thread that main has not put in the
  list yet, may hold the mutex at its destruction (`DestroyMeetsUntracked`); the
  timer thread, also one that waited for the mutex when it was destroyed, may
  create the data file anew (`NoFileLeft`);
* after a second signal the handler may never return (`ShutdownCompletes`);
* of two lines in one write the device takes the first (`LinesAreCommands` asks
  for one line per `recv()` and no NUL);
* a call whose `wait()` was interrupted, or that began with other children,
  is not held to the result of its command, because `wait()` takes whichever
  child has ended (`ResultIsOwn`); with count 0 the output file stays open
  (`OutputClosed`);
* a thread that fails with the mutex held leaves it locked for the others
  (`ThreadsEnd`).

Three more are listed under `hazards` and no property claims their absence: a
signal that interrupts main's list walk lets the handler free the item main
stands on; of the descriptors of the data file a connection opens, one per
`recv()`, only the last is closed; a start that fails removes the data file.

## 4. Proofs

Every theorem holds for all values of the constants that satisfy the named
assumptions of the modules.

* **Ring** (`CircularBuffer_proofs`), for every `MaxEntries` in 1..128, the range
  in which the `uint8_t` loop bounds do not overflow. `RingWellFormed`:
  `WellFormed` is inductive: a ring that is not full has `out_offs = 0` and its
  slots filled from 0; a full one has equal indices. `RingImplementsHistory`:
  `AddEntryPushes` shows that the contents after adding are those of `Push`, in
  three cases (room left, the last slot, full). `RingSizeIsTotal`: `AddEntryTotal`
  compares the sums over the old and the new contents (`PrefixSizes`).
  `RingFindIsConcatenation`: `FindEntryFinds` is an induction along the walk, from
  its end back to `out_offs`: what the walk finds from slot i on is what
  `PrefixSize` says of the entries from i on. `RingSeekLands`: the sum that
  `jmp_entry_offset` adds up equals `PrefixSize` as long as the loop meets the
  index it compares with (`SumFromOldest`), which is the condition
  `out_offs + n < MaxEntries`; the run `seek_wrapped` shows that it is needed.
* **Driver** (`CharDriver_proofs`), for any sets of threads, files and blocks, any
  ring of up to 128 slots and all non-empty payloads. `DriverLocks`,
  `DriverMemoryExact` and `DriverCommandsAreLines` have two layers. `ControlInv`
  says what a call carries at each label and that a file in use is open, hence
  the module loaded; with `LockHeldInBody` it is inductive without looking at the
  device. On top of it `DeviceInv` adds that the ring is well formed, that a
  thread about to push has a non-empty `tmpbuf`, and that while no thread is
  about to push the unfinished command has no newline. Only `WriteFill`,
  `WritePush`, insmod and rmmod touch it (`DeviceAlone` is the rest).
  `FillExact` and `PushExact` are the memory argument: a reallocated block
  belongs to no entry, and the pointer `add_entry` hands back is the one entry
  that pointed there. `DriverImplementsDevice` is the refinement of
  `CommandDevice`: filling `tmpbuf` maps to accepting bytes, pushing it to
  `Commit` (`PushStrings`: dereferencing the pointers and pushing commute), insmod
  and rmmod to `LoadOrUnload`, all else to stuttering. `PositionInv` adds that a
  position is a natural number and that the entry found by a `read()` stays the
  right one until it is copied, because nobody changes the ring under the mutex;
  `DriverTypeOK` and `DriverReadsStream` follow, the latter with `StreamBytes`
  (the stream at the position of an entry is the block of that entry).
  Assumed: no address is `NULL`, `NULL` is no string, thread, file or result of
  a lookup; lseek takes any offset, a seek command two naturals.
* **Receive buffer** (`Framing_proofs`), for every `BufferSize` and all streams.
  `ReceiveBufferFits`: `BufferFits` with the types is inductive: the string is at
  most `buflen` long and `buflen + 1` fits; `GrownSuffices` is what
  `append_string` guarantees. `ReceiveLosesNothing`: the two parts of a `recv()`
  concatenate to it (`PartsConcatenate`), and without NUL bytes `strncat` copies
  both whole (`ReceivePlain`). `ReceiveCutsLines`: the first part has its newline
  at its end (`LinePartNewlines`), the second has none if the `recv()` brings only
  one (`RestPartNewlines`), and the buffer had none before.
* **Connection** (`Session_proofs`): a step of the composition is a `recv()` of
  `Framing` or leaves the receive buffer alone (`SessionStep`), so that
  `SessionImplementsFraming` carries the three theorems above over, for every
  ring, every set of streams and any number of other lines. Two theorems are
  about the composition itself, for all pieces in which a line may arrive:
    * `SessionKeepsLines` (`LinesAreCommands`). `StreamInv`: what has been passed to
      `append_datafile` so far is empty or ends with a newline. With it
      `CompletedLine` shows that the string written is the last line of the raw
      stream. `ParsedCommand` gives what the parser makes of that line:
      `ParseNoSeek` and `ParseSeek` show that there is exactly one result when it
      has no seek or a well-formed one, so that no uninitialised value is used.
      `LogInv`: the device holds the latest of the commands of the history, exactly
      (every size is the length of its block), and no unfinished line. It is kept
      by a stored line (`DeviceWriteLine`, `LatestAfterAdd`) and by a seek, which is
      not in `Commands`.
    * `SessionAnswersSeeks` (`SeekAnswers`). `ResponseIsRest`: by induction on the
      bytes left, the loop of reads sends the stream from its position to its end
      (`ReadsRest`: one read is the rest of the entry that `FindEntryFinds` gives).
      `SeekAnswered` adds where the position is, from `JumpLands`: the sum of the
      sizes before the command plus the offset, or 0 when the seek is refused.
      `AnswerInv` is the property together with the exactness of the ring. It needs
      neither whole lines nor well-formed seeks elsewhere in the stream.

  Both suppose `Addrs = Seq(Byte)`: an entry's `buffptr` is the contents of its
  block in this module. The run has that value; it is a hypothesis of the
  theorems and no assumption of the module because TLC cannot compare the two
  infinite sets. `OtherLinesAssumption`: other connections write whole lines that
  are stored, since their seeks change nothing here.
* **Server** (`Server_proofs`), for any sets of connections and timer expirations,
  any number of pieces and signals, on a file and on the device. `ServerInv`
  (`ServerTypeOK`) is types and descriptors: what a thread has read lies inside
  its file. `LockInv` (`ServerMutexGuardsFile`) adds that before the timer is
  created there are no threads, so that `pthread_mutex_init` finds the mutex
  unowned. A connection that `accept()` has returned has no thread yet
  (`CreateInv`). Both hold whatever fails and wherever signals arrive, and so do
  `ServerFreesAfterUse`, and `ServerReplyIsSnapshot` from `ReplyInv`: a thread that
  answers has sent a prefix of the file, up to its position; nobody else can
  write while it owns the mutex. The others hold under the condition they state:
    * `ServerReleasesMutex` (no failing `send()`, or no signals; the run
      `cancel_in_cleanup` shows that it is needed). `OwnerInv`: until the mutex is
      destroyed, an owner is at a label from which it releases, and in the cleanup
      only if it is being cancelled already.
    * `ServerWalkStaysOnList` (no signal during the walk): `WalkInv`.
    * `ServerDestroyMeetsUntracked` (no failing `send()`, signals anywhere).
      `ListInv`: a running thread is in the list or about to be inserted, and
      none is in it twice; `HandlerInv`: the handler joins from the head until the
      list is empty, and a handler interrupted after the socket was closed never
      goes on.
    * `ServerExitsAfterThreads` (no signal between the return of `accept()` and the
      insertion, the labels create and insert): `ExitInv` says that a handler that has joined its threads
      leaves none.
    * `ServerLeavesNoFile` (the same, and no signal at the label open, where main
      creates the file after the handler has removed it): `FileInv` says that once
      the file is removed only a timer thread, on the new inode, brings it back:
      connection threads have ended, and main is past its own `open`.
* **Systemcalls** (`SystemCalls_proofs`), for any number of calls and any finite
  set of other children. `CallsInv` (`CallsReturnOwnResult`, `CallsCloseOutput`):
  only the last call is without a result; a call that began without children
  has at most its own to wait for; the output file is open only until the fork.
  `CountInv` (`CallsReapOne`) counts: while a call waits there is one unreaped
  child more than between calls.
* **Threading** (`Threading_proofs`), for any number of threads: `ThreadingInv`
  relates each thread's label, its status and its turn with the mutex
  (`ThreadsHoldMutex`, `ThreadsReportTruth`, `ThreadBlocksFreedOnce`).

`NatLemmas` holds what the proofs share. Its root is that a non-empty set of
naturals has a minimum, from well-foundedness. From it follow induction for sets
of naturals, and that a first value and a step determine a function
(`RecursionExists`, `LoopExists`, `FoldExists`). A recursive function of the models
is a `CHOOSE`; these lemmas show that it exists, so that its equation can be used:
for the walks and sums of the ring, for the numbers and commands of `Session`, and
for `FlattenSeq` (`FlattenAppend`, `FlattenElements`).

Only model-checked: liveness (`CallsReturn`, `ShutdownCompletes`,
`ForkedCallsReturn`, `ThreadsEnd`), which is out of the prover's reach. Every other
property that a passing run checks is stated by a theorem.

## 5. Not modelled

* Undefined behaviour of the kernel module: `write()` with count 0 (`Session`
  leaves out the one stream that leads to it, a line that begins with NUL),
  failed allocations, `find_char` reading past its block, which does not change
  its result.
* The `count` of a `read()`, which `aesd_read` ignores: a command longer than the
  caller's buffer (100 KB in `send_response`) is written past its end.
* Signals inside functions of the C library that are not async-signal-safe, and
  inside the three statements with which main removes a joined thread from the
  list.
* Failed allocations of the server and the examples, which they do not check; a
  seek line longer than `digits[1024]`; a second server beside the first.
* Durations: the sleeps of `threading.c` end at some time, so that the
  wraparound of `ms * 1000` is not visible; the timer fires at some time.
* `autotest-validate.c` (two constants), the finder app (`writer.c` writes one
  file, sequentially) and the shell scripts: no state between calls, nothing
  concurrent, I/O only.
