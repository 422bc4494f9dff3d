----------------------------- MODULE Threading ------------------------------
(***************************************************************************)
(* examples/threading: threads that sleep, take a mutex, sleep and release *)
(* it, and the program that starts, joins and shares the mutex with them   *)
(* (Caller, not in the repository).  How long a thread sleeps is left open. *)
(***************************************************************************)
EXTENDS Naturals, FiniteSets

CONSTANTS Threads, NULL, Caller,
          Faults   \* the calls that may fail: subset of FaultKinds

FaultKinds == {"create", "sleep", "lock", "unlock"}

ASSUME ThreadingAssumption ==
  /\ Faults \subseteq FaultKinds
  /\ Caller # NULL /\ {Caller, NULL} \cap Threads = {}

VARIABLES pc,      \* where each thread is; "none" until it is started
          status,  \* its local variable
          success, \* thread_complete_success of its block, NULL until it is set
          frees,   \* how many times its block was freed
          mutex,   \* its owner, or NULL
          turns    \* the threads that have obtained the mutex, for the properties

vars == <<pc, status, success, frees, mutex, turns>>

May(call) == call \in Faults
Step(t, from, to) == pc[t] = from /\ pc' = [pc EXCEPT ![t] = to]

-----------------------------------------------------------------------------
(* start_thread_obtaining_mutex and threadfunc *)

\* Mutant: the block is freed although the thread has it.
StartFreesAlways(t) ==
  /\ Step(t, "none", "sleep")
  /\ frees' = [frees EXCEPT ![t] = @ + 1]
  /\ UNCHANGED <<status, success, mutex, turns>>

Start(t) ==
  /\ \/ Step(t, "none", "sleep") /\ UNCHANGED frees
     \/ May("create") /\ Step(t, "none", "refused") /\ frees' = [frees EXCEPT ![t] = @ + 1]
  /\ UNCHANGED <<status, success, mutex, turns>>

\* usleep(wait_to_obtain_ms)
WaitToObtain(t) ==
  /\ Step(t, "sleep", "lock") \/ (May("sleep") /\ Step(t, "sleep", "store"))
  /\ UNCHANGED <<status, success, frees, mutex, turns>>

\* Mutant: the result of pthread_mutex_lock is not looked at.
ObtainUnchecked(t) ==
  /\ Step(t, "lock", "hold")
  /\ mutex' = IF mutex = NULL THEN t ELSE mutex
  /\ turns' = turns \cup {t}
  /\ UNCHANGED <<status, success, frees>>

\* pthread_mutex_lock
Obtain(t) ==
  /\ mutex = NULL /\ Step(t, "lock", "hold")
  /\ mutex' = t /\ turns' = turns \cup {t}
  /\ UNCHANGED <<status, success, frees>>

ObtainFails(t) ==
  /\ May("lock") /\ Step(t, "lock", "store")
  /\ UNCHANGED <<status, success, frees, mutex, turns>>

\* usleep(wait_to_release_ms); when it fails the mutex stays locked
WaitToRelease(t) ==
  /\ Step(t, "hold", "unlock") \/ (May("sleep") /\ Step(t, "hold", "store"))
  /\ UNCHANGED <<status, success, frees, mutex, turns>>

\* Mutant: status does not depend on the result of pthread_mutex_unlock.
ReleaseUnchecked(t) ==
  /\ Step(t, "unlock", "store")
  /\ mutex' = NULL \/ (May("unlock") /\ UNCHANGED mutex)
  /\ status' = [status EXCEPT ![t] = TRUE]
  /\ UNCHANGED <<success, frees, turns>>

\* Mutant: the unlock is forgotten.
ReleaseNothing(t) ==
  /\ Step(t, "unlock", "store")
  /\ status' = [status EXCEPT ![t] = TRUE]
  /\ UNCHANGED <<success, frees, mutex, turns>>

Release(t) ==
  /\ Step(t, "unlock", "store")
  /\ \/ mutex' = NULL /\ status' = [status EXCEPT ![t] = TRUE]
     \/ May("unlock") /\ UNCHANGED <<mutex, status>>
  /\ UNCHANGED <<success, frees, turns>>

\* The result goes to the block, and the thread returns it.
Store(t) ==
  /\ Step(t, "store", "done")
  /\ success' = [success EXCEPT ![t] = status[t]]
  /\ UNCHANGED <<status, frees, mutex, turns>>

-----------------------------------------------------------------------------
(* The program around it *)

\* pthread_join; the block the thread returned is freed
Join(t) ==
  /\ Step(t, "done", "joined")
  /\ frees' = [frees EXCEPT ![t] = @ + 1]
  /\ UNCHANGED <<status, success, mutex, turns>>

CallerLocks == mutex = NULL /\ mutex' = Caller /\ UNCHANGED <<pc, status, success, frees, turns>>
CallerUnlocks == mutex = Caller /\ mutex' = NULL /\ UNCHANGED <<pc, status, success, frees, turns>>

Init ==
  /\ pc = [t \in Threads |-> "none"]
  /\ status = [t \in Threads |-> FALSE] /\ success = [t \in Threads |-> NULL]
  /\ frees = [t \in Threads |-> 0]
  /\ mutex = NULL /\ turns = {}

\* What a thread does by itself; a failure of its lock is not counted on.
Runs(t) ==
  WaitToObtain(t) \/ Obtain(t) \/ WaitToRelease(t) \/ Release(t) \/ Store(t)

Next ==
  \/ \E t \in Threads : Start(t) \/ Runs(t) \/ ObtainFails(t) \/ Join(t)
  \/ CallerLocks \/ CallerUnlocks

(***************************************************************************)
(* Sleeps end, threads that can run do, and a mutex that keeps being       *)
(* released is obtained in the end.  The caller releases it too; nothing   *)
(* else is assumed of the caller.                                          *)
(***************************************************************************)
Fairness ==
  /\ \A t \in Threads : WF_vars(Runs(t)) /\ SF_vars(Obtain(t))
  /\ WF_vars(CallerUnlocks)

Spec == Init /\ [][Next]_vars /\ Fairness

-----------------------------------------------------------------------------
(* Properties *)

Running == {"sleep", "lock", "hold", "unlock", "store"}

(***************************************************************************)
(* Between its two mutex calls a thread holds the mutex alone, whichever   *)
(* calls fail in the others: "then obtains the mutex, then holds for       *)
(* wait_to_release_ms milliseconds, then releases" (threading.h).          *)
(***************************************************************************)
HoldsMutex == \A t \in Threads : pc[t] \in {"hold", "unlock"} => mutex = t

(***************************************************************************)
(* The flag the joiner reads tells the truth: a thread reports success     *)
(* exactly when it had the mutex and has given it back.  In particular a   *)
(* thread that left the mutex locked reports failure.                      *)
(***************************************************************************)
SuccessIsTrue ==
  \A t \in Threads :
    pc[t] \in {"done", "joined"} => success[t] = (t \in turns /\ mutex # t)

(***************************************************************************)
(* A thread's block is there as long as the thread runs, and is freed      *)
(* once: by the joiner, or by start_thread_obtaining_mutex itself when no  *)
(* thread was started.                                                     *)
(***************************************************************************)
BlockFreedOnce ==
  \A t \in Threads : frees[t] = IF pc[t] \in {"joined", "refused"} THEN 1 ELSE 0

(***************************************************************************)
(* A started thread ends, unless one that reported failure has ended with  *)
(* the mutex locked: nobody else waits for ever.                           *)
(***************************************************************************)
MutexAbandoned == \E t \in Threads : mutex = t /\ success[t] = FALSE

ThreadsEnd ==
  \A t \in Threads : pc[t] \in Running ~> pc[t] \notin Running \/ MutexAbandoned
=============================================================================
