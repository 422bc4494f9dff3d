------------------------- MODULE SystemCalls_proofs -------------------------
(***************************************************************************)
(* The systemcalls example, for any number of calls, any children of the   *)
(* program's own and whichever calls fail.                                 *)
(*                                                                         *)
(* CallsInv relates the call in progress to the children: with it the      *)
(* three properties are invariants of every step.                          *)
(***************************************************************************)
EXTENDS SystemCalls, FiniteSetTheorems, SequenceTheorems, TLAPS

CallRecord == [fn : {"system", "exec", "redirect"}, count : 0..1,
               strays : SUBSET Children, interrupted : BOOLEAN,
               result : BOOLEAN \cup {NULL}]
ChildRecord == [state : {"none", "forked", "running", "ended", "reaped"},
                stdout : Nat, fds : SUBSET Nat, status : Statuses \cup {NULL}]

CallsType ==
  /\ pc \in {"idle", "fork", "wait", "replaced", "exited"}
  /\ log \in Seq(CallRecord) /\ Len(log) <= MaxCalls
  /\ fds \subseteq 1..Len(log)
  /\ child \in [Children -> ChildRecord]

Waited(p) == child[p].state \in {"forked", "running", "ended"}

\* The call in progress has no result yet; it has forked when it waits.
ProgressInv ==
  /\ pc # "idle" => /\ Len(log) > 0 /\ log[Len(log)].result = NULL
                    /\ log[Len(log)].fn # "system" /\ log[Len(log)].count > 0
  /\ \A i \in 1..Len(log) :
       log[i].result = NULL => /\ i = Len(log) /\ pc # "idle" /\ ~log[i].interrupted
  /\ pc = "fork" => child[Len(log)] = NoChild
  /\ \A i \in 1..MaxCalls : i > Len(log) => child[i] = NoChild

\* A call that began without children to wait for has at most its own.
OwnChildInv ==
  pc \in {"fork", "wait"} /\ log[Len(log)].strays = {} =>
    \A p \in Children : Waited(p) => p = Len(log)

\* The result of a call that returned: its file could not be opened, its child
\* was reaped, or its wait() was interrupted.
ResultOf(call, own) ==
  call.fn # "system" /\ call.count > 0 /\ call.result # NULL /\ call.strays = {} =>
    \/ own = NoChild /\ call.result = FALSE
    \/ own.state = "reaped" /\ call.result = (own.status = "success")
    \/ call.interrupted /\ call.result = FALSE

ResultInv == \A i \in 1..Len(log) : ResultOf(log[i], child[i])

\* The output file of the call in progress is the only open one that a command
\* may get, and the child that is to run it has a copy.
OutputInv ==
  /\ \A i \in fds : log[i].count = 0 \/ (pc = "fork" /\ i = Len(log))
  /\ pc = "fork" => (Len(log) \in fds <=> log[Len(log)].fn = "redirect")
  /\ \A p \in Others : child[p].state # "forked"
  /\ \A p \in 1..Len(log) :
       /\ child[p].state = "forked" =>
            /\ p \in child[p].fds <=> log[p].fn = "redirect"
            /\ child[p].stdout = 0
       /\ child[p].state = "running" =>
            /\ p \notin child[p].fds
            /\ child[p].stdout = IF log[p].fn = "redirect" THEN p ELSE 0

CallsInv == CallsType /\ ProgressInv /\ OwnChildInv /\ ResultInv /\ OutputInv

-----------------------------------------------------------------------------
\* Before the first call there are no children and no files.
LEMMA InitCalls == Init => CallsInv
<1> SUFFICES ASSUME Init PROVE CallsInv
  OBVIOUS
<1>1. log = << >> /\ Len(log) = 0 /\ log \in Seq(CallRecord)
  BY DEF Init
<1>2. NoChild \in ChildRecord /\ NoChild.state = "none"
  BY DEF NoChild, ChildRecord
<1>3. CallsType
  BY <1>1, <1>2, SystemCallsAssumption DEF Init, CallsType
<1>4. ProgressInv /\ OwnChildInv /\ ResultInv /\ OutputInv
  BY <1>1, <1>2, SystemCallsAssumption
     DEF Init, ProgressInv, OwnChildInv, ResultInv, OutputInv, Children
<1> QED
  BY <1>3, <1>4 DEF CallsInv

(***************************************************************************)
(* A call begins.  It goes on to fork(), with its output file open when it *)
(* redirects; or it returns at once, because there is no command, because  *)
(* it is do_system, or because the file could not be opened.               *)
(***************************************************************************)
LEMMA CallsBegin ==
  ASSUME CallsInv, NEW new \in CallRecord, Calls(new),
         new.strays = Unreaped, new.interrupted = FALSE,
         \/ new.result = NULL /\ new.count = 1 /\ new.fn = "exec" /\ fds' = fds
         \/ new.result = NULL /\ new.count = 1 /\ new.fn = "redirect" /\ fds' = fds \cup {this + 1}
         \/ new.result # NULL /\ new.count = 0 /\ (fds' = fds \/ fds' = fds \cup {this + 1})
         \/ new.result # NULL /\ new.result = FALSE /\ fds' = fds
         \/ new.result # NULL /\ new.fn = "system" /\ fds' = fds
  PROVE  CallsInv'
<1> DEFINE n == Len(log)
<1>1. /\ n \in Nat /\ n < MaxCalls /\ MaxCalls \in Nat /\ NULL \notin BOOLEAN
      /\ log' = Append(log, new) /\ child' = child /\ pc = "idle"
      /\ pc' = IF new.result = NULL THEN "fork" ELSE "idle"
  BY SystemCallsAssumption DEF Calls, CallsInv, CallsType
<1>3. /\ log' \in Seq(CallRecord) /\ Len(log') = n + 1
      /\ \A i \in 1..n : log'[i] = log[i]
      /\ log'[n + 1] = new
  BY <1>1, AppendProperties DEF CallsInv, CallsType
<1> HIDE DEF n
<1>4. CallsType'
  <2>1. fds' \subseteq fds \cup {n + 1} /\ fds \subseteq 1..n
    BY DEF CallsInv, CallsType, this, n
  <2>2. fds' \subseteq 1..(n + 1)
    BY <1>1, <2>1
  <2> QED
    BY <1>1, <1>3, <2>2 DEF CallsInv, CallsType
<1>5. ProgressInv'
  <2>1. new.result = NULL => new.fn # "system" /\ new.count > 0
    BY <1>1
  <2>2. \A i \in 1..n : log[i].result # NULL
    BY <1>1 DEF CallsInv, ProgressInv, n
  <2>3. \A i \in 1..MaxCalls : i > n => child[i] = NoChild
    BY DEF CallsInv, ProgressInv, n
  <2> QED
    BY <1>1, <1>3, <2>1, <2>2, <2>3 DEF ProgressInv
<1>6. OwnChildInv'
  BY <1>1, <1>3 DEF CallsInv, OwnChildInv, Waited, Unreaped
<1>7. ResultInv'
  <2>1. child[n + 1] = NoChild
    BY <1>1 DEF CallsInv, ProgressInv, n
  <2>2. ResultOf(new, child[n + 1])
    BY <2>1 DEF ResultOf
  <2>3. \A i \in 1..(n + 1) : i = n + 1 \/ i \in 1..n
    BY <1>1
  <2>4. \A i \in 1..n : ResultOf(log'[i], child[i])
    BY <1>3 DEF CallsInv, ResultInv, n
  <2> QED
    BY <1>1, <1>3, <2>2, <2>3, <2>4 DEF ResultInv
<1>8. OutputInv'
  <2>1. \A i \in fds : i \in 1..n /\ log[i].count = 0
    BY <1>1 DEF CallsInv, CallsType, OutputInv, n
  <2>2. \A i \in fds' : log'[i].count = 0 \/ (pc' = "fork" /\ i = n + 1)
    <3> SUFFICES ASSUME NEW i \in fds' PROVE log'[i].count = 0 \/ (pc' = "fork" /\ i = n + 1)
      OBVIOUS
    <3>1. CASE i \in fds
      BY <3>1, <2>1, <1>3
    <3>2. CASE i \notin fds
      BY <3>2, <1>1, <1>3 DEF this, n
    <3> QED
      BY <3>1, <3>2
  <2>3. pc' = "fork" => (n + 1 \in fds' <=> log'[n + 1].fn = "redirect")
    <3>1. n + 1 \notin fds
      BY <2>1, <1>1
    <3> QED
      BY <3>1, <1>1, <1>3 DEF this, n
  <2>4. child[n + 1].state = "none"
    BY <1>1 DEF CallsInv, ProgressInv, NoChild, n
  <2>5. ASSUME NEW p \in 1..(n + 1)
        PROVE  /\ child'[p].state = "forked" =>
                    /\ p \in child'[p].fds <=> log'[p].fn = "redirect"
                    /\ child'[p].stdout = 0
               /\ child'[p].state = "running" =>
                    /\ p \notin child'[p].fds
                    /\ child'[p].stdout = IF log'[p].fn = "redirect" THEN p ELSE 0
    <3>1. CASE p = n + 1
      BY <3>1, <2>4, <1>1
    <3>2. CASE p \in 1..n
      BY <3>2, <1>1, <1>3 DEF CallsInv, OutputInv, n
    <3>3. p = n + 1 \/ p \in 1..n
      BY <1>1
    <3> QED
      BY <3>1, <3>2, <3>3
  <2>6. \A p \in Others : child'[p].state # "forked"
    BY <1>1 DEF CallsInv, OutputInv
  <2> QED
    BY <2>2, <2>3, <2>5, <2>6, <1>3 DEF OutputInv
<1> QED
  BY <1>4, <1>5, <1>6, <1>7, <1>8 DEF CallsInv

\* do_system: the call returns what system() does.
LEMMA SystemKeepsCalls ==
  ASSUME CallsInv, DoSystem
  PROVE  CallsInv'
<1>1. UNCHANGED fds
  BY DEF DoSystem
<1>2. CASE Calls(Call("system", 0, FALSE))
  <2> DEFINE new == Call("system", 0, FALSE)
  <2>1. new.strays = Unreaped /\ new.fn = "system"
    BY DEF Call
  <2>2. new.interrupted = FALSE
    BY DEF Call
  <2>3. new.result # NULL
    BY SystemCallsAssumption DEF Call
  <2>4. new \in CallRecord
    BY DEF Call, CallRecord, Unreaped
  <2> HIDE DEF new
  <2> QED
    BY <1>1, <1>2, <2>1, <2>2, <2>3, <2>4, CallsBegin DEF new
<1>3. ASSUME NEW ret \in Statuses \cup {NULL}, Calls(Call("system", 1, ret = "success"))
      PROVE  CallsInv'
  <2> DEFINE new == Call("system", 1, ret = "success")
  <2>1. new.strays = Unreaped /\ new.fn = "system"
    BY DEF Call
  <2>2. new.interrupted = FALSE
    BY DEF Call
  <2>3. new.result \in BOOLEAN
    BY DEF Call
  <2>4. new.result # NULL
    BY <2>3, SystemCallsAssumption
  <2>5. new \in CallRecord
    BY DEF Call, CallRecord, Unreaped
  <2> HIDE DEF new
  <2> QED
    BY <1>1, <1>3, <2>1, <2>2, <2>4, <2>5, CallsBegin DEF new
<1> QED
  BY <1>2, <1>3 DEF DoSystem

\* do_exec and do_exec_redirect up to fork(), their file opened.
LEMMA ExecKeepsCalls ==
  ASSUME CallsInv, NEW count \in 0..1, NEW fn \in {"exec", "redirect"},
         Calls(Call(fn, count, IF count > 0 THEN NULL ELSE TRUE)),
         fds' = IF fn = "redirect" THEN fds \cup {this + 1} ELSE fds
  PROVE  CallsInv'
<1> DEFINE new == Call(fn, count, IF count > 0 THEN NULL ELSE TRUE)
<1>1. new.strays = Unreaped /\ new.fn = fn /\ new.count = count
  BY DEF Call
<1>2. new.interrupted = FALSE
  BY DEF Call
<1>3. count = 1 => new.result = NULL
  BY DEF Call
<1>4. count = 0 => new.result \in BOOLEAN
  BY DEF Call
<1>5. count = 0 => new.result # NULL
  BY <1>4, SystemCallsAssumption
<1>6. new \in CallRecord
  BY DEF Call, CallRecord, Unreaped
<1>7. Calls(new)
  OBVIOUS
<1> HIDE DEF new
<1>8. CASE count = 0
  BY <1>8, <1>1, <1>2, <1>5, <1>6, <1>7, CallsBegin
<1>9. CASE count = 1
  BY <1>9, <1>1, <1>2, <1>3, <1>6, <1>7, CallsBegin
<1> QED
  BY <1>8, <1>9

\* do_exec_redirect whose file cannot be opened.
LEMMA OpenFailsKeepsCalls ==
  ASSUME CallsInv, NEW count \in 0..1, Calls(Call("redirect", count, FALSE)), UNCHANGED fds
  PROVE  CallsInv'
<1> DEFINE new == Call("redirect", count, FALSE)
<1>1. new.strays = Unreaped
  BY DEF Call
<1>2. new.interrupted = FALSE
  BY DEF Call
<1>3. new.result = FALSE
  BY DEF Call
<1>4. new.result # NULL
  BY SystemCallsAssumption DEF Call
<1>5. new \in CallRecord
  BY DEF Call, CallRecord, Unreaped
<1> HIDE DEF new
<1> QED
  BY <1>1, <1>2, <1>3, <1>4, <1>5, CallsBegin DEF new

\* The three functions up to fork().
LEMMA BeginKeepsCalls ==
  ASSUME CallsInv, DoSystem \/ (\E count \in 0..1 : DoExec(count) \/ DoExecRedirect(count))
  PROVE  CallsInv'
<1>1. ASSUME NEW count \in 0..1, DoExec(count) PROVE CallsInv'
  BY <1>1, ExecKeepsCalls DEF DoExec
<1>2. ASSUME NEW count \in 0..1, DoExecRedirect(count) PROVE CallsInv'
  BY <1>2, ExecKeepsCalls, OpenFailsKeepsCalls DEF DoExecRedirect
<1> QED
  BY <1>1, <1>2, SystemKeepsCalls

-----------------------------------------------------------------------------
(* fork(), the child and wait() *)

\* What every step may rely on.
LEMMA CallsTypes ==
  ASSUME CallsInv
  PROVE  /\ Len(log) \in Nat /\ Len(log) <= MaxCalls /\ MaxCalls \in Nat
         /\ \A i \in 1..Len(log) : log[i] \in CallRecord /\ i \in Children /\ i \notin Others
         /\ pc # "idle" => Len(log) \in 1..Len(log)
BY SystemCallsAssumption, ElementOfSeq
   DEF CallsInv, CallsType, ProgressInv, Children

\* fork(), or its failure: the caller's descriptor is closed.
LEMMA ForkKeepsCalls ==
  ASSUME CallsInv, Fork \/ ForkFails
  PROVE  CallsInv'
<1> USE CallsTypes DEF CallsInv
<1>1. CASE ForkFails
  BY <1>1 DEF ForkFails, CallsType, ProgressInv, OwnChildInv, ResultInv, OutputInv, this
<1>2. CASE Fork
  <2> DEFINE n == Len(log)
  <2>1. /\ pc = "fork" /\ pc' = "wait" /\ log' = log /\ fds' = fds \ {n} /\ n \in 1..n
        /\ n \in Children /\ n \notin Others
    BY <1>2 DEF Fork, this
  <2> DEFINE new == [NoChild EXCEPT !.state = "forked", !.fds = fds]
  <2>a. fds \subseteq Nat
    BY DEF CallsType
  <2>b. /\ new \in ChildRecord /\ new.state = "forked" /\ new.stdout = 0 /\ new.fds = fds
        /\ new.status = NULL
    BY <2>a DEF NoChild, ChildRecord
  <2>c. child' = [child EXCEPT ![n] = new]
    BY <1>2 DEF Fork, this
  <2> HIDE DEF new
  <2>2. /\ child'[n] = new /\ child' \in [Children -> ChildRecord]
        /\ \A p \in Children : p # n => child'[p] = child[p]
    BY <2>b, <2>c, <2>1 DEF CallsType
  <2> HIDE DEF n
  <2>3. CallsType'
    BY <2>1, <2>2, <2>b DEF CallsType
  <2>4. ProgressInv'
    BY <2>1, <2>2, <2>b DEF ProgressInv, n, Children
  <2>5. OwnChildInv'
    BY <2>1, <2>2, <2>b DEF OwnChildInv, Waited, n
  <2>6. ResultInv'
    <3>1. log[n].result = NULL
      BY <2>1 DEF ProgressInv, n
    <3>2. ResultOf(log[n], new)
      BY <3>1 DEF ResultOf
    <3> QED
      BY <2>1, <2>2, <3>2 DEF ResultInv, n
  <2>7. OutputInv'
    <3>1. \A i \in fds' : log[i].count = 0
      BY <2>1 DEF OutputInv, n
    <3>2. \A p \in Others : child'[p].state # "forked"
      BY <2>1, <2>2 DEF OutputInv, Children
    <3>3. new.state = "forked" /\ (n \in new.fds <=> log[n].fn = "redirect") /\ new.stdout = 0
      BY <2>1, <2>b DEF OutputInv, n
    <3>4. \A p \in 1..Len(log) : p # n => child'[p] = child[p]
      BY <2>2 DEF Children
    <3> QED
      BY <2>1, <2>2, <3>1, <3>2, <3>3, <3>4 DEF OutputInv, n
  <2> QED
    BY <2>3, <2>4, <2>5, <2>6, <2>7
<1> QED
  BY <1>1, <1>2

\* A step of a child, from forked to running or ended, or from running to ended.
LEMMA ChildKeepsCalls ==
  ASSUME CallsInv, NEW p \in Children, ChildRuns(p) \/ CommandEnds(p)
  PROVE  CallsInv'
<1> USE CallsTypes DEF CallsInv
<1>1. UNCHANGED <<pc, log, fds>>
  BY DEF ChildRuns, CommandEnds
<1>2. child[p] \in ChildRecord /\ child \in [Children -> ChildRecord]
  BY DEF CallsType
<1>3. PICK new \in ChildRecord :
        /\ child' = [child EXCEPT ![p] = new]
        /\ \/ new.state = "ended" /\ child[p].state \in {"forked", "running"}
           \/ /\ child[p].state = "forked" /\ new.state = "running"
              /\ p \notin new.fds
              /\ new.stdout = IF p \in child[p].fds THEN p ELSE 0
  <2>1. CASE ChildRuns(p)
    <3>1. CASE child' = [child EXCEPT ![p].state = "ended", ![p].status = "failure"]
      <4> DEFINE new == [child[p] EXCEPT !.state = "ended", !.status = "failure"]
      <4>1. new \in ChildRecord /\ new.state = "ended"
        BY <1>2 DEF ChildRecord, Statuses
      <4>2. child' = [child EXCEPT ![p] = new]
        BY <3>1, <1>2
      <4> QED
        BY <4>1, <4>2, <2>1 DEF ChildRuns
    <3>2. CASE child' = [child EXCEPT ![p].state = "running",
                                      ![p].stdout = IF p \in child[p].fds THEN p ELSE 0,
                                      ![p].fds = @ \ {p}]
      <4> DEFINE new == [child[p] EXCEPT !.state = "running",
                                         !.stdout = IF p \in child[p].fds THEN p ELSE 0,
                                         !.fds = @ \ {p}]
      <4>1. /\ new \in ChildRecord /\ new.state = "running" /\ new.fds = child[p].fds \ {p}
            /\ new.stdout = IF p \in child[p].fds THEN p ELSE 0
        BY <1>2 DEF ChildRecord
      <4>2. child' = [child EXCEPT ![p] = new]
        BY <3>2, <1>2
      <4> QED
        BY <4>1, <4>2, <2>1 DEF ChildRuns
    <3> QED
      BY <2>1, <3>1, <3>2 DEF ChildRuns
  <2>2. CASE CommandEnds(p)
    <3>1. PICK status \in Statuses :
            child' = [child EXCEPT ![p].state = "ended", ![p].status = status]
      BY <2>2 DEF CommandEnds
    <3> DEFINE new == [child[p] EXCEPT !.state = "ended", !.status = status]
    <3>2. new \in ChildRecord /\ new.state = "ended"
      BY <1>2 DEF ChildRecord
    <3>3. child' = [child EXCEPT ![p] = new]
      BY <3>1, <1>2
    <3> QED
      BY <3>2, <3>3, <2>2 DEF CommandEnds
  <2> QED
    BY <2>1, <2>2
<1>4. /\ child'[p] = new /\ child' \in [Children -> ChildRecord]
      /\ \A q \in Children : q # p => child'[q] = child[q]
  BY <1>2, <1>3
<1>5. child[p] # NoChild
  BY <1>3 DEF NoChild
<1>6. CallsType'
  BY <1>1, <1>4 DEF CallsType
<1>7. ProgressInv'
  BY <1>1, <1>4, <1>5 DEF ProgressInv, Children
<1>8. OwnChildInv'
  BY <1>1, <1>3, <1>4 DEF OwnChildInv, Waited
<1>9. ResultInv'
  <2>1. \A call : ResultOf(call, child[p]) => ResultOf(call, new)
    BY <1>3, <1>5 DEF ResultOf
  <2> QED
    BY <1>1, <1>4, <2>1 DEF ResultInv
<1>10. OutputInv'
  BY <1>1, <1>3, <1>4 DEF OutputInv, Children
<1> QED
  BY <1>6, <1>7, <1>8, <1>9, <1>10

\* wait() returns, with or without a child: the call in progress has its result.
LEMMA WaitKeepsCalls ==
  ASSUME CallsInv, WaitFails \/ \E p \in Children : WaitReturns(p)
  PROVE  CallsInv'
<1> USE CallsTypes DEF CallsInv
<1> DEFINE n == Len(log)
<1>1. /\ pc = "wait" /\ pc' = "idle" /\ fds' = fds /\ n \in 1..n /\ n \in Children
      /\ log \in Seq(CallRecord) /\ log[n] \in CallRecord
  BY DEF WaitFails, WaitReturns, CallsType
<1>2. ASSUME NEW new \in CallRecord, log' = [log EXCEPT ![n] = new],
             new.fn = log[n].fn, new.count = log[n].count, new.strays = log[n].strays,
             new.result # NULL,
             \/ UNCHANGED child /\ new.interrupted /\ new.result = FALSE
             \/ \E p \in Children :
                  /\ child[p].state = "ended"
                  /\ child' = [child EXCEPT ![p].state = "reaped"]
                  /\ new.result = (child[p].status = "success")
      PROVE  CallsInv'
  <2>1. /\ log' \in Seq(CallRecord) /\ Len(log') = n /\ log'[n] = new
        /\ \A i \in 1..n : i # n => log'[i] = log[i]
    BY <1>1, <1>2, ExceptSeq
  <2>2. child' \in [Children -> ChildRecord]
    BY <1>2, ZenonT(60) DEF CallsType, ChildRecord
  <2>3. \A q \in Children :
          \/ child'[q] = child[q]
          \/ child[q].state = "ended" /\ child'[q].state = "reaped"
    BY <1>2 DEF CallsType, ChildRecord
  <2> HIDE DEF n
  <2>4. CallsType'
    BY <1>1, <2>1, <2>2 DEF CallsType, n
  <2>5. ProgressInv'
    <3>1. \A i \in 1..n : log'[i].result # NULL
      BY <1>1, <1>2, <2>1 DEF ProgressInv, n
    <3>a. NoChild.state = "none"
      BY DEF NoChild
    <3>2. \A i \in 1..MaxCalls : i > n => child'[i] = NoChild
      <4> SUFFICES ASSUME NEW i \in 1..MaxCalls, i > n PROVE child'[i] = NoChild
        OBVIOUS
      <4>1. child[i] = NoChild /\ i \in Children
        BY DEF ProgressInv, Children, n
      <4> QED
        BY <2>3, <3>a, <4>1
    <3> QED
      BY <1>1, <2>1, <3>1, <3>2 DEF ProgressInv
  <2>6. OwnChildInv'
    BY <1>1 DEF OwnChildInv
  <2>7. ResultInv'
    <3>1. CASE UNCHANGED child /\ new.interrupted /\ new.result = FALSE
      <4>1. ResultOf(new, child[n])
        BY <3>1 DEF ResultOf
      <4> QED
        BY <3>1, <4>1, <2>1 DEF ResultInv, n
    <3>2. ASSUME NEW p \in Children, child[p].state = "ended",
                 child' = [child EXCEPT ![p].state = "reaped"],
                 new.result = (child[p].status = "success")
          PROVE  ResultInv'
      <4>1. /\ child'[p].state = "reaped" /\ child'[p].status = child[p].status
            /\ \A q \in Children : q # p => child'[q] = child[q]
        BY <3>2 DEF CallsType, ChildRecord
      <4>2. ResultOf(new, child'[n])
        <5>1. new.strays = {} => p = n
          BY <1>1, <1>2, <3>2 DEF OwnChildInv, Waited, n
        <5>2. CASE p = n
          BY <5>2, <3>2, <4>1 DEF ResultOf
        <5>3. CASE p # n
          BY <5>1, <5>3 DEF ResultOf
        <5> QED
          BY <5>2, <5>3
      <4>3. \A call : ResultOf(call, child[p]) => ResultOf(call, child'[p])
        BY <3>2 DEF ResultOf, NoChild
      <4> QED
        BY <2>1, <4>1, <4>2, <4>3 DEF ResultInv, n
    <3> QED
      BY <1>2, <3>1, <3>2
  <2>8. OutputInv'
    <3>1. \A i \in 1..n : log'[i].count = log[i].count /\ log'[i].fn = log[i].fn
      BY <1>2, <2>1
    <3>2. \A i \in fds' : log'[i].count = 0
      BY <1>1, <3>1 DEF OutputInv, CallsType, n
    <3>3. \A p \in Others : child'[p].state # "forked"
      BY <2>3 DEF OutputInv, Children
    <3>4. ASSUME NEW p \in 1..n
          PROVE  /\ child'[p].state = "forked" =>
                      /\ p \in child'[p].fds <=> log'[p].fn = "redirect"
                      /\ child'[p].stdout = 0
                 /\ child'[p].state = "running" =>
                      /\ p \notin child'[p].fds
                      /\ child'[p].stdout = IF log'[p].fn = "redirect" THEN p ELSE 0
      <4>1. p \in Children
        BY DEF n
      <4> QED
        BY <2>3, <3>1, <4>1 DEF OutputInv, n
    <3> QED
      BY <1>1, <2>1, <3>2, <3>3, <3>4 DEF OutputInv
  <2> QED
    BY <2>4, <2>5, <2>6, <2>7, <2>8
<1>3. CASE WaitFails
  <2> DEFINE new == [log[n] EXCEPT !.result = FALSE, !.interrupted = TRUE]
  <2>1. /\ new \in CallRecord
        /\ new.fn = log[n].fn /\ new.count = log[n].count /\ new.strays = log[n].strays
    BY <1>1 DEF CallRecord
  <2>2. new.result = FALSE
    BY <1>1 DEF CallRecord
  <2>3. new.interrupted
    BY <1>1 DEF CallRecord
  <2>4. new.result # NULL
    BY <2>2, SystemCallsAssumption
  <2>5. log' = [log EXCEPT ![n] = new] /\ UNCHANGED child
    BY <1>1, <1>3 DEF WaitFails, this
  <2> HIDE DEF n, new
  <2> QED
    BY <1>2, <2>1, <2>2, <2>3, <2>4, <2>5
<1>4. ASSUME NEW p \in Children, WaitReturns(p) PROVE CallsInv'
  <2> DEFINE ok == child[p].status = "success"
             new == [log[n] EXCEPT !.result = ok]
  <2>1. /\ new \in CallRecord
        /\ new.fn = log[n].fn /\ new.count = log[n].count /\ new.strays = log[n].strays
    BY <1>1 DEF CallRecord
  <2>2. new.result = ok
    BY <1>1 DEF CallRecord
  <2>3. new.result \in BOOLEAN
    BY <2>2
  <2>4. new.result # NULL
    BY <2>3, SystemCallsAssumption
  <2>5. log' = [log EXCEPT ![n] = new]
    BY <1>1, <1>4 DEF WaitReturns, this
  <2>6. child[p].state = "ended" /\ child' = [child EXCEPT ![p].state = "reaped"]
    BY <1>4 DEF WaitReturns
  <2> HIDE DEF n, new
  <2> QED
    BY <1>2, <2>1, <2>2, <2>4, <2>5, <2>6
<1> QED
  BY <1>3, <1>4

\* The program starts a child of its own.
LEMMA OtherKeepsCalls ==
  ASSUME CallsInv, NEW p \in Others, OtherStarts(p)
  PROVE  CallsInv'
<1> USE CallsTypes DEF CallsInv
<1>1. /\ pc = "idle" /\ pc' = "idle" /\ log' = log /\ fds' = fds
      /\ p \in Children /\ p \notin 1..MaxCalls /\ p \notin 1..Len(log)
  BY SystemCallsAssumption DEF OtherStarts, Children
<1>2. /\ child' \in [Children -> ChildRecord] /\ child'[p].state = "running"
      /\ \A q \in Children : q # p => child'[q] = child[q]
  BY <1>1 DEF OtherStarts, CallsType, ChildRecord
<1>3. CallsType'
  BY <1>1, <1>2 DEF CallsType
<1>4. ProgressInv'
  BY <1>1, <1>2 DEF ProgressInv, Children
<1>5. OwnChildInv'
  BY <1>1 DEF OwnChildInv
<1>6. ResultInv'
  BY <1>1, <1>2 DEF ResultInv
<1>7. OutputInv'
  BY <1>1, <1>2 DEF OutputInv, Children
<1> QED
  BY <1>3, <1>4, <1>5, <1>6, <1>7

\* Every step keeps the invariant.
LEMMA NextCalls == CallsInv /\ [Next]_vars => CallsInv'
<1> SUFFICES ASSUME CallsInv, [Next]_vars PROVE CallsInv'
  OBVIOUS
<1>1. CASE UNCHANGED vars
  BY <1>1 DEF vars, CallsInv, CallsType, ProgressInv, OwnChildInv, ResultInv, OutputInv,
              Waited
<1>2. CASE Next
  BY <1>2, BeginKeepsCalls, ForkKeepsCalls, ChildKeepsCalls, WaitKeepsCalls, OtherKeepsCalls
     DEF Next
<1> QED
  BY <1>1, <1>2

\* The invariant of every behaviour.
THEOREM CallsInvariant == Spec => []CallsInv
BY InitCalls, NextCalls, PTL DEF Spec

(***************************************************************************)
(* The result of do_exec and do_exec_redirect is that of their command,    *)
(* when the program had no other child to wait for.                        *)
(***************************************************************************)
THEOREM CallsReturnOwnResult == Spec => []ResultIsOwn
<1>1. CallsInv => ResultIsOwn
  <2> SUFFICES ASSUME CallsInv, NEW i \in 1..Len(log),
                      log[i].fn # "system", log[i].count > 0, log[i].result # NULL,
                      log[i].strays = {}
               PROVE  \/ log[i].result = (child[i].status = "success")
                      \/ log[i].interrupted /\ ~log[i].result
    BY DEF ResultIsOwn, this
  <2>1. ResultOf(log[i], child[i])
    BY DEF CallsInv, ResultInv
  <2>2. child[i] = NoChild => ~(child[i].status = "success")
    BY SystemCallsAssumption DEF NoChild, Statuses
  <2> QED
    BY <2>1, <2>2 DEF ResultOf
<1> QED
  BY <1>1, CallsInvariant, PTL

(***************************************************************************)
(* After a call with a command no output file is open in the caller, and a *)
(* running command has its output file as stdout only.                     *)
(***************************************************************************)
THEOREM CallsCloseOutput == Spec => []OutputClosed
<1>1. CallsInv => OutputClosed
  BY DEF CallsInv, OutputInv, OutputClosed, this
<1> QED
  BY <1>1, CallsInvariant, PTL

-----------------------------------------------------------------------------
(* Counting the children *)

Started == {p \in Others : child[p].state # "none"}
Interrupted == {i \in 1..Len(log) : log[i].interrupted}

(***************************************************************************)
(* The unreaped children are counted by the program's own and by the waits *)
(* that were interrupted; a call that waits has one more.                  *)
(***************************************************************************)
CountInv ==
  /\ pc \in {"idle", "fork"} =>
       Cardinality(Unreaped) = Cardinality(Started) + Cardinality(Interrupted)
  /\ pc = "wait" =>
       Cardinality(Unreaped) = Cardinality(Started) + Cardinality(Interrupted) + 1

\* The three sets are finite.
LEMMA CountedFinite ==
  ASSUME CallsInv
  PROVE  /\ IsFiniteSet(Unreaped) /\ Cardinality(Unreaped) \in Nat
         /\ IsFiniteSet(Started) /\ Cardinality(Started) \in Nat
         /\ IsFiniteSet(Interrupted) /\ Cardinality(Interrupted) \in Nat
<1>1. IsFiniteSet(1..MaxCalls) /\ IsFiniteSet(1..Len(log)) /\ IsFiniteSet(Others)
  BY CallsTypes, FS_Interval, SystemCallsAssumption
<1>2. IsFiniteSet(Children)
  BY <1>1, FS_Union DEF Children
<1>3. IsFiniteSet(Unreaped) /\ IsFiniteSet(Started) /\ IsFiniteSet(Interrupted)
  BY <1>1, <1>2, FS_Subset DEF Unreaped, Started, Interrupted
<1> QED
  BY <1>3, FS_CardinalityType

\* Steps that change none of the three sets.
LEMMA SameSetsKeepCount ==
  ASSUME CountInv, Unreaped' = Unreaped, Started' = Started, Interrupted' = Interrupted,
         \/ pc \in {"idle", "fork"} /\ pc' # "wait"
         \/ pc' = pc
         \/ pc' \in {"replaced", "exited"}
  PROVE  CountInv'
BY DEF CountInv

\* A call begins.
LEMMA BeginKeepsCount ==
  ASSUME CallsInv, CountInv, NEW new, Calls(new), new.interrupted = FALSE
  PROVE  CountInv'
<1> DEFINE n == Len(log)
<1>1. n \in Nat /\ log \in Seq(CallRecord) /\ pc = "idle" /\ pc' # "wait" /\ child' = child
  BY DEF Calls, CallsInv, CallsType
<1>2. Len(log') = n + 1 /\ log'[n + 1] = new /\ \A i \in 1..n : log'[i] = log[i]
  BY DEF Calls, CallsInv, CallsType
<1>3. Unreaped' = Unreaped /\ Started' = Started
  BY <1>1 DEF Unreaped, Started
<1>4. Interrupted' = Interrupted
  <2> HIDE DEF n
  <2>1. \A i : i \in 1..(n + 1) <=> i = n + 1 \/ i \in 1..n
    BY <1>1
  <2>2. ~log'[n + 1].interrupted
    BY <1>2
  <2>3. \A i : i \in Interrupted' <=> i \in Interrupted
    BY <1>2, <2>1, <2>2 DEF Interrupted, n
  <2> QED
    BY <2>3
<1> QED
  BY <1>1, <1>3, <1>4, SameSetsKeepCount

LEMMA NextCount == CallsInv /\ CallsInv' /\ CountInv /\ [Next]_vars => CountInv'
<1> SUFFICES ASSUME CallsInv, CallsInv', CountInv, [Next]_vars PROVE CountInv'
  OBVIOUS
<1>t. /\ child \in [Children -> ChildRecord] /\ Others \subseteq Children
      /\ log \in Seq(CallRecord)
  BY DEF CallsInv, CallsType, Children
<1>1. CASE UNCHANGED vars
  BY <1>1 DEF vars, CountInv, Unreaped, Started, Interrupted
<1>2. CASE DoSystem \/ (\E count \in 0..1 : DoExec(count) \/ DoExecRedirect(count))
  <2>1. PICK fn, count, result : Calls(Call(fn, count, result))
    BY <1>2 DEF DoSystem, DoExec, DoExecRedirect
  <2>2. Call(fn, count, result).interrupted = FALSE
    BY DEF Call
  <2> QED
    BY <2>1, <2>2, BeginKeepsCount
<1>3. CASE Fork
  <2> DEFINE n == Len(log)
  <2>1. n \in Children /\ n \notin Others /\ pc = "fork" /\ pc' = "wait" /\ log' = log
    BY <1>3, CallsTypes DEF Fork
  <2>2. child[n].state = "none"
    BY <2>1 DEF CallsInv, ProgressInv, NoChild
  <2>3. child'[n].state = "forked" /\ \A q \in Children : q # n => child'[q] = child[q]
    BY <1>3, <1>t, <2>1 DEF Fork, this, NoChild
  <2> HIDE DEF n
  <2>4. n \notin Unreaped /\ Unreaped' = Unreaped \cup {n}
    BY <2>1, <2>2, <2>3 DEF Unreaped
  <2>5. Started' = Started /\ Interrupted' = Interrupted
    BY <1>t, <2>1, <2>3 DEF Started, Interrupted
  <2>6. Cardinality(Unreaped') = Cardinality(Unreaped) + 1
    BY <2>4, CountedFinite, FS_AddElement
  <2> QED
    BY <2>1, <2>5, <2>6, CountedFinite DEF CountInv
<1>4. CASE ForkFails
  BY <1>4, SameSetsKeepCount DEF ForkFails, Unreaped, Started, Interrupted
<1>5. CASE WaitFails
  <2> DEFINE n == Len(log)
  <2>1. /\ n \in 1..n /\ pc = "wait" /\ pc' = "idle" /\ child' = child
        /\ log[n] \in CallRecord
    BY <1>5, CallsTypes DEF WaitFails
  <2>2. ~log[n].interrupted
    BY <2>1 DEF CallsInv, ProgressInv
  <2> DEFINE new == [log[n] EXCEPT !.result = FALSE, !.interrupted = TRUE]
  <2>3. log' = [log EXCEPT ![n] = new]
    BY <1>5, <2>1 DEF WaitFails, this
  <2>4. new.interrupted /\ new \in CallRecord
    BY <2>1 DEF CallRecord
  <2> HIDE DEF new
  <2>5. Len(log') = n /\ log'[n] = new /\ \A i \in 1..n : i # n => log'[i] = log[i]
    BY <1>t, <2>1, <2>3, <2>4, ExceptSeq
  <2> HIDE DEF n
  <2>6. n \notin Interrupted
    BY <2>2 DEF Interrupted
  <2>7. Interrupted' = Interrupted \cup {n}
    <3>1. \A i : i \in Interrupted' <=> i \in Interrupted \cup {n}
      BY <2>1, <2>4, <2>5 DEF Interrupted, n
    <3> QED
      BY <3>1
  <2>8. Cardinality(Interrupted') = Cardinality(Interrupted) + 1
    BY <2>6, <2>7, CountedFinite, FS_AddElement
  <2>9. Unreaped' = Unreaped /\ Started' = Started
    BY <2>1 DEF Unreaped, Started
  <2> QED
    BY <2>1, <2>8, <2>9, CountedFinite DEF CountInv
<1>6. ASSUME NEW p \in Children, ChildRuns(p) \/ CommandEnds(p) PROVE CountInv'
  <2>1. UNCHANGED <<pc, log>>
    BY <1>6 DEF ChildRuns, CommandEnds
  <2>2. /\ \A q \in Children : q # p => child'[q] = child[q]
        /\ child[p].state \in {"forked", "running"}
        /\ child'[p].state \in {"running", "ended"}
    BY <1>6, <1>t DEF ChildRuns, CommandEnds, ChildRecord
  <2>3. Unreaped' = Unreaped /\ Started' = Started
    BY <1>t, <2>2 DEF Unreaped, Started
  <2> QED
    BY <2>1, <2>3, SameSetsKeepCount DEF Interrupted
<1>7. ASSUME NEW p \in Children, WaitReturns(p) PROVE CountInv'
  <2> DEFINE n == Len(log)
  <2>1. /\ n \in 1..n /\ pc = "wait" /\ pc' = "idle" /\ child[p].state = "ended"
        /\ log[n] \in CallRecord
    BY <1>7, CallsTypes DEF WaitReturns
  <2>2. /\ \A q \in Children : q # p => child'[q] = child[q]
        /\ child'[p].state = "reaped"
    BY <1>7, <1>t DEF WaitReturns, ChildRecord
  <2> DEFINE ok == child[p].status = "success"
             new == [log[n] EXCEPT !.result = ok]
  <2>3. log' = [log EXCEPT ![n] = new]
    BY <1>7, <2>1 DEF WaitReturns, this
  <2>4. new.interrupted = log[n].interrupted
    BY <2>1 DEF CallRecord
  <2>a. new \in CallRecord
    BY <2>1 DEF CallRecord
  <2> HIDE DEF new
  <2>5. Len(log') = n /\ log'[n] = new /\ \A i \in 1..n : i # n => log'[i] = log[i]
    BY <1>t, <2>1, <2>3, <2>a, ExceptSeq
  <2> HIDE DEF n
  <2>6. Interrupted' = Interrupted
    <3>1. \A i : i \in Interrupted' <=> i \in Interrupted
      BY <2>1, <2>4, <2>5 DEF Interrupted, n
    <3> QED
      BY <3>1
  <2>7. p \in Unreaped /\ Unreaped' = Unreaped \ {p}
    BY <2>1, <2>2 DEF Unreaped
  <2>8. Started' = Started
    BY <1>t, <2>1, <2>2 DEF Started
  <2>9. Cardinality(Unreaped') = Cardinality(Unreaped) - 1
    BY <2>7, CountedFinite, FS_RemoveElement
  <2> QED
    BY <2>1, <2>6, <2>8, <2>9, CountedFinite DEF CountInv
<1>8. ASSUME NEW p \in Others, OtherStarts(p) PROVE CountInv'
  <2>1. /\ UNCHANGED <<pc, log>> /\ child[p].state = "none"
        /\ \A q \in Children : q # p => child'[q] = child[q]
        /\ child'[p].state = "running"
    BY <1>8, <1>t DEF OtherStarts, ChildRecord
  <2>2. p \notin Unreaped /\ Unreaped' = Unreaped \cup {p}
    BY <1>t, <2>1 DEF Unreaped
  <2>3. p \notin Started /\ Started' = Started \cup {p}
    BY <1>t, <2>1 DEF Started
  <2>4. /\ Cardinality(Unreaped') = Cardinality(Unreaped) + 1
        /\ Cardinality(Started') = Cardinality(Started) + 1
    BY <2>2, <2>3, CountedFinite, FS_AddElement
  <2>5. Interrupted' = Interrupted
    BY <2>1 DEF Interrupted
  <2> QED
    BY <2>1, <2>4, <2>5, CountedFinite DEF CountInv
<1> QED
  BY <1>1, <1>2, <1>3, <1>4, <1>5, <1>6, <1>7, <1>8 DEF Next

(***************************************************************************)
(* Every call that forked takes one child off the list, whichever child    *)
(* its wait() returned.                                                    *)
(***************************************************************************)
THEOREM CallsReapOne == Spec => []OneReapedPerCall
<1>1. Init => CountInv
  <2> SUFFICES ASSUME Init PROVE CountInv
    OBVIOUS
  <2>1. Unreaped = {} /\ Started = {} /\ Interrupted = {}
    BY DEF Init, Unreaped, Started, Interrupted, NoChild, Children
  <2> QED
    BY <2>1, FS_EmptySet DEF Init, CountInv
<1>2. CountInv => OneReapedPerCall
  BY DEF CountInv, OneReapedPerCall, Started, Interrupted, this
<1> QED
  BY <1>1, <1>2, NextCount, CallsInvariant, PTL DEF Spec
=============================================================================
