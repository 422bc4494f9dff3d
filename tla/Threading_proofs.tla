-------------------------- MODULE Threading_proofs --------------------------
(***************************************************************************)
(* The threads of the threading example, for any number of threads and     *)
(* whichever calls fail.                                                   *)
(***************************************************************************)
EXTENDS Threading, TLAPS

Labels == {"none", "refused", "sleep", "lock", "hold", "unlock", "store", "done", "joined"}

ThreadingType ==
  /\ pc \in [Threads -> Labels]
  /\ status \in [Threads -> BOOLEAN]
  /\ success \in [Threads -> BOOLEAN \cup {NULL}]
  /\ frees \in [Threads -> Nat]
  /\ mutex \in Threads \cup {Caller, NULL}
  /\ turns \subseteq Threads

(***************************************************************************)
(* What status and the history of the mutex say of a thread at each label: *)
(* it has had the mutex since its lock, it has not before; status is set   *)
(* when the mutex has been given back, and success is a copy of status.    *)
(***************************************************************************)
StatusInv ==
  \A t \in Threads :
    /\ pc[t] \in {"none", "refused", "sleep", "lock"} => t \notin turns /\ mutex # t
    /\ pc[t] \in {"hold", "unlock"} => t \in turns
    /\ pc[t] \notin {"store", "done", "joined"} => ~status[t]
    /\ pc[t] \in {"store", "done", "joined"} => status[t] = (t \in turns /\ mutex # t)
    /\ pc[t] \in {"done", "joined"} => success[t] = status[t]

ThreadingInv == ThreadingType /\ HoldsMutex /\ StatusInv /\ BlockFreedOnce

-----------------------------------------------------------------------------
\* Before any thread is started the invariant holds.
LEMMA InitThreading == Init => ThreadingInv
BY ThreadingAssumption
   DEF Init, ThreadingInv, ThreadingType, Labels, HoldsMutex, StatusInv, BlockFreedOnce

\* Each step of a thread, of its joiner and of the caller keeps it.
LEMMA NextThreading == ThreadingInv /\ [Next]_vars => ThreadingInv'
<1> SUFFICES ASSUME ThreadingInv, [Next]_vars PROVE ThreadingInv'
  OBVIOUS
<1> USE ThreadingAssumption
    DEF ThreadingInv, ThreadingType, Labels, HoldsMutex, StatusInv, BlockFreedOnce, Step
<1>1. ASSUME NEW t \in Threads, Start(t) PROVE ThreadingInv'
  BY <1>1 DEF Start
<1>2. ASSUME NEW t \in Threads, WaitToObtain(t) PROVE ThreadingInv'
  BY <1>2 DEF WaitToObtain
<1>3. ASSUME NEW t \in Threads, Obtain(t) PROVE ThreadingInv'
  BY <1>3 DEF Obtain
<1>4. ASSUME NEW t \in Threads, ObtainFails(t) PROVE ThreadingInv'
  BY <1>4 DEF ObtainFails
<1>5. ASSUME NEW t \in Threads, WaitToRelease(t) PROVE ThreadingInv'
  BY <1>5 DEF WaitToRelease
<1>6. ASSUME NEW t \in Threads, Release(t) PROVE ThreadingInv'
  BY <1>6, ZenonT(60) DEF Release
<1>7. ASSUME NEW t \in Threads, Store(t) PROVE ThreadingInv'
  BY <1>7 DEF Store
<1>8. ASSUME NEW t \in Threads, Join(t) PROVE ThreadingInv'
  BY <1>8 DEF Join
<1>9. CASE CallerLocks \/ CallerUnlocks
  BY <1>9 DEF CallerLocks, CallerUnlocks
<1>10. CASE UNCHANGED vars
  BY <1>10 DEF vars
<1> QED
  BY <1>1, <1>2, <1>3, <1>4, <1>5, <1>6, <1>7, <1>8, <1>9, <1>10 DEF Next, Runs

\* The inductive invariant holds in every behaviour of the threads.
THEOREM ThreadingInvariant == Spec => []ThreadingInv
BY InitThreading, NextThreading, PTL DEF Spec

(***************************************************************************)
(* Between pthread_mutex_lock and pthread_mutex_unlock a thread holds the  *)
(* mutex, for any number of threads and any failures in the others.        *)
(***************************************************************************)
THEOREM ThreadsHoldMutex == Spec => []HoldsMutex
<1>1. ThreadingInv => HoldsMutex
  BY DEF ThreadingInv
<1> QED
  BY <1>1, ThreadingInvariant, PTL

(***************************************************************************)
(* thread_complete_success, once a thread has stored it, is true exactly   *)
(* when the thread had the mutex and does not hold it any more.            *)
(***************************************************************************)
THEOREM ThreadsReportTruth == Spec => []SuccessIsTrue
<1>1. ThreadingInv => SuccessIsTrue
  BY DEF ThreadingInv, StatusInv, SuccessIsTrue
<1> QED
  BY <1>1, ThreadingInvariant, PTL

(***************************************************************************)
(* The block of a thread is freed once, after the thread, or by            *)
(* start_thread_obtaining_mutex when pthread_create failed.                *)
(***************************************************************************)
THEOREM ThreadBlocksFreedOnce == Spec => []BlockFreedOnce
<1>1. ThreadingInv => BlockFreedOnce
  BY DEF ThreadingInv
<1> QED
  BY <1>1, ThreadingInvariant, PTL
=============================================================================
