---------------------------- MODULE SystemCalls -----------------------------
(***************************************************************************)
(* examples/systemcalls: a program calls do_system, do_exec and            *)
(* do_exec_redirect one after the other; do_exec and do_exec_redirect      *)
(* fork, the child runs a command, the caller waits for a child.  wait()   *)
(* takes whatever child has ended: the program may have others.  The n-th  *)
(* call, its child and the descriptor of its output file are named n.      *)
(***************************************************************************)
EXTENDS Naturals, Sequences, FiniteSets

CONSTANTS MaxCalls, \* bound: the calls the program makes
          Others,   \* children the program may have started by itself
          NULL,
          Faults    \* the calls that may fail: subset of FaultKinds

FaultKinds == {"open", "fork", "dup2", "execv", "wait"}
Statuses == {"success", "failure", "killed"}

ASSUME SystemCallsAssumption ==
  /\ MaxCalls \in Nat /\ IsFiniteSet(Others) /\ Others \cap (0..MaxCalls) = {}
  /\ Faults \subseteq FaultKinds /\ NULL \notin BOOLEAN /\ NULL \notin Statuses

VARIABLES pc,    \* the caller: "idle" between calls, or where it is in one
          log,   \* the calls, the last one may be in progress
          fds,   \* the output files the caller has open
          child  \* every process the caller may fork

vars == <<pc, log, fds, child>>

Children == (1..MaxCalls) \cup Others
NoChild == [state |-> "none", stdout |-> 0, fds |-> {}, status |-> NULL]

May(call) == call \in Faults
this == Len(log)   \* the call in progress

\* Children that ended or will end, and that nobody has waited for.
Unreaped == {p \in Children : child[p].state \in {"forked", "running", "ended"}}

-----------------------------------------------------------------------------
(* The three functions up to fork() *)

Call(fn, count, result) == [fn |-> fn, count |-> count, strays |-> Unreaped,
                            interrupted |-> FALSE, result |-> result]

\* A call begins, and returns at once unless its result is open.
Calls(call) ==
  /\ pc = "idle" /\ Len(log) < MaxCalls
  /\ log' = Append(log, call)
  /\ pc' = IF call.result = NULL THEN "fork" ELSE "idle"
  /\ UNCHANGED child

\* system() forks, waits for its own child and returns the status, -1 on errors
DoSystem ==
  /\ \/ Calls(Call("system", 0, FALSE))
     \/ \E ret \in Statuses \cup {NULL} : Calls(Call("system", 1, ret = "success"))
  /\ UNCHANGED fds

DoExec(count) ==
  /\ Calls(Call("exec", count, IF count > 0 THEN NULL ELSE TRUE))
  /\ UNCHANGED fds

DoExecRedirect(count) ==
  \/ /\ Calls(Call("redirect", count, IF count > 0 THEN NULL ELSE TRUE))
     /\ fds' = fds \cup {this + 1}
  \/ /\ May("open") /\ Calls(Call("redirect", count, FALSE))
     /\ UNCHANGED fds

-----------------------------------------------------------------------------
(* fork(), the child and wait() *)

\* Mutant: the caller does not wait.
ForkOnly ==
  /\ pc = "fork" /\ pc' = "idle"
  /\ child' = [child EXCEPT ![this] = [NoChild EXCEPT !.state = "forked", !.fds = fds]]
  /\ fds' = fds \ {this}
  /\ log' = [log EXCEPT ![this].result = TRUE]

\* Mutant: the caller keeps its descriptor of the output file.
ForkKeepsOutput ==
  /\ pc = "fork" /\ pc' = "wait"
  /\ child' = [child EXCEPT ![this] = [NoChild EXCEPT !.state = "forked", !.fds = fds]]
  /\ UNCHANGED <<log, fds>>

\* The child gets a copy of the descriptors, the caller closes its own.
Fork ==
  /\ pc = "fork" /\ pc' = "wait"
  /\ child' = [child EXCEPT ![this] = [NoChild EXCEPT !.state = "forked", !.fds = fds]]
  /\ fds' = fds \ {this}
  /\ UNCHANGED log

(***************************************************************************)
(* fork() fails, and without a break the caller goes on as if it were the  *)
(* child: it runs the command itself, or exits when execv fails.  With an  *)
(* output file, closed just before, dup2 fails and it exits.               *)
(***************************************************************************)
ForkFails ==
  /\ May("fork") /\ pc = "fork"
  /\ \/ log[this].fn = "exec" /\ pc' = "replaced"
     \/ (log[this].fn = "redirect" \/ May("execv")) /\ pc' = "exited"
  /\ fds' = fds \ {this}
  /\ UNCHANGED <<log, child>>

\* Mutant: a child whose execv failed does not exit.
ChildRunsOn(p) ==
  /\ child[p].state = "forked"
  /\ \/ child' = [child EXCEPT ![p].state = "running"]
     \/ May("execv") /\ child' = [child EXCEPT ![p].state = "lost"]
  /\ UNCHANGED <<pc, log, fds>>

\* The child makes the output file its stdout and becomes the command.
ChildRuns(p) ==
  /\ child[p].state = "forked"
  /\ \/ child' = [child EXCEPT ![p].state = "running",
                               ![p].stdout = IF p \in child[p].fds THEN p ELSE 0,
                               ![p].fds = @ \ {p}]
     \/ /\ May("execv") \/ (p \in child[p].fds /\ May("dup2"))
        /\ child' = [child EXCEPT ![p].state = "ended", ![p].status = "failure"]
  /\ UNCHANGED <<pc, log, fds>>

\* The command ends, by itself or by a signal.
CommandEnds(p) ==
  /\ child[p].state = "running"
  /\ \E status \in Statuses :
       child' = [child EXCEPT ![p].state = "ended", ![p].status = status]
  /\ UNCHANGED <<pc, log, fds>>

\* Mutant: WEXITSTATUS is read without WIFEXITED; it is 0 for a killed command.
WaitReturnsUnchecked(p) ==
  /\ pc = "wait" /\ child[p].state = "ended" /\ pc' = "idle"
  /\ child' = [child EXCEPT ![p].state = "reaped"]
  /\ log' = [log EXCEPT ![this].result = child[p].status \in {"success", "killed"}]
  /\ UNCHANGED fds

\* wait() returns the status of some child that ended
WaitReturns(p) ==
  /\ pc = "wait" /\ child[p].state = "ended" /\ pc' = "idle"
  /\ child' = [child EXCEPT ![p].state = "reaped"]
  /\ log' = [log EXCEPT ![this].result = child[p].status = "success"]
  /\ UNCHANGED fds

\* wait() is interrupted
WaitFails ==
  /\ May("wait") /\ pc = "wait" /\ pc' = "idle"
  /\ log' = [log EXCEPT ![this].result = FALSE, ![this].interrupted = TRUE]
  /\ UNCHANGED <<fds, child>>

\* The program starts a child of its own.
OtherStarts(p) ==
  /\ pc = "idle" /\ child[p].state = "none"
  /\ child' = [child EXCEPT ![p].state = "running"]
  /\ UNCHANGED <<pc, log, fds>>

-----------------------------------------------------------------------------
Init ==
  /\ pc = "idle" /\ log = << >> /\ fds = {}
  /\ child = [p \in Children |-> NoChild]

Next ==
  \/ DoSystem \/ (\E count \in 0..1 : DoExec(count) \/ DoExecRedirect(count))
  \/ Fork \/ ForkFails \/ WaitFails
  \/ \E p \in Children : ChildRuns(p) \/ CommandEnds(p) \/ WaitReturns(p)
  \/ \E p \in Others : OtherStarts(p)

(***************************************************************************)
(* The caller and its children run, and commands end.  That fork() or      *)
(* wait() fails is not counted on.                                         *)
(***************************************************************************)
Fairness ==
  /\ WF_vars(Fork) /\ WF_vars(\E p \in Children : WaitReturns(p))
  /\ \A p \in Children : WF_vars(ChildRuns(p)) /\ WF_vars(CommandEnds(p))

Spec == Init /\ [][Next]_vars /\ Fairness

-----------------------------------------------------------------------------
(* Properties *)

(***************************************************************************)
(* "true if the command ... executed successfully", "false if an error     *)
(* occurred ... or if a non-zero return value was returned"                *)
(* (systemcalls.c): of a command that was started when the program had no  *)
(* other child to wait for, the result is true exactly when it exited with *)
(* 0, or false because wait() was interrupted.                             *)
(***************************************************************************)
ResultIsOwn ==
  \A i \in 1..this :
    LET call == log[i]
    IN  call.fn # "system" /\ call.count > 0 /\ call.result # NULL /\ call.strays = {} =>
          \/ call.result = (child[i].status = "success")
          \/ call.interrupted /\ ~call.result

(***************************************************************************)
(* Every call that forked has taken one child off the list: between calls  *)
(* the program has as many unreaped children as it started itself and      *)
(* waits were interrupted, whichever of them wait() returned.              *)
(***************************************************************************)
OneReapedPerCall ==
  pc = "idle" =>
    Cardinality(Unreaped) = Cardinality({p \in Others : child[p].state # "none"})
                            + Cardinality({i \in 1..this : log[i].interrupted})

(***************************************************************************)
(* "This file will be closed at completion of the function call": when a   *)
(* call with a command has returned or the caller has become the command,  *)
(* no output file is open in it, and a running command has its output file *)
(* as stdout only.  Without a command (count 0) the file stays open.       *)
(***************************************************************************)
OutputClosed ==
  /\ pc # "fork" => \A i \in fds : log[i].count = 0
  /\ \A p \in 1..this : child[p].state = "running" =>
       /\ p \notin child[p].fds
       /\ child[p].stdout = IF log[p].fn = "redirect" THEN p ELSE 0

(***************************************************************************)
(* A call that has forked returns to its caller: the child ends also when  *)
(* dup2 or execv fail in it, and there is always a child to wait for,      *)
(* although earlier calls may have taken this one's or left theirs.        *)
(***************************************************************************)
ForkedCallsReturn == pc = "wait" ~> pc = "idle"

(***************************************************************************)
(* "@return ... false if an error occurred, either in invocation of the    *)
(* fork, waitpid, or execv() command" (systemcalls.c): every call returns  *)
(* to its caller, also when one of these fails.                            *)
(***************************************************************************)
EveryCallReturns == pc \in {"fork", "wait"} ~> pc = "idle"
=============================================================================
