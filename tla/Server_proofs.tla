--------------------------- MODULE Server_proofs ----------------------------
(***************************************************************************)
(* The threads of aesdsocket, for any number of connections, timer         *)
(* expirations, received pieces and signals, on a file or on the device.   *)
(*                                                                         *)
(* ServerInv (types and descriptors) and LockInv (who owns the mutex) hold *)
(* whatever fails and wherever the signal arrives.  On them rest the       *)
(* answers (ReplyInv), the list of threads (ListInv), and the invariants   *)
(* that need a condition on the faults or on the point of the signal,      *)
(* which each theorem states.                                              *)
(***************************************************************************)
EXTENDS Server, SequenceTheorems, NatLemmas, TLAPS

HandlerLabels == {"none", "shutdown", "cancel", "join", "destroy", "remove"}
ConnLabels == {"none", "refused", "recv", "open", "seek", "lock", "wait", "append", "read",
               "send", "unlock", "close_client", "close_data", "release", "done"}
TimerLabels == {"idle", "lock", "wait", "open", "append", "unlock", "done"}

ConnRecord == [data_fd : [ino : Inodes \cup {NULL}, pos : Int], fds : Nat,
               recvs : 0..MaxRecv, has_nl : BOOLEAN, dying : BOOLEAN, sent : Seq(Lines)]
MutexType == [owner : Conns \cup Expiries \cup {NULL}, up : BOOLEAN]
FileType == [exists : BOOLEAN, ino : Inodes, data : [Inodes -> Seq(Lines)]]

MainType ==
  /\ mpc \in MainLabels \cup {"exited", "killed"}
  /\ hpc \in HandlerLabels /\ resume \in HandlerLabels
  /\ signals \in 0..MaxSignals /\ stopApp \in BOOLEAN /\ listening \in BOOLEAN
  /\ timer \in {"none", "armed", "deleted"}
  /\ connections \in Seq(Conns) /\ freed \subseteq Conns
  /\ item \in Conns \cup {NULL} /\ hitem \in Conns \cup {NULL}
  /\ mpc \in {"create", "insert"} => item \in Conns

ThreadType ==
  /\ mutex \in MutexType /\ file \in FileType
  /\ cpc \in [Conns -> ConnLabels] /\ conn \in [Conns -> ConnRecord] /\ cancel \subseteq Conns
  /\ tpc \in [Expiries -> TimerLabels] /\ tfd \in [Expiries -> Inodes]

(***************************************************************************)
(* data_fd of a thread that is past open(): -1, or an open file.  In       *)
(* send_response something was read.  At most one descriptor is open per   *)
(* recv(), and the last one is, until connection_cleanup.                  *)
(***************************************************************************)
DescriptorInv(data, pc, own) ==
  /\ pc \in {"seek", "lock", "wait", "append", "read", "send", "unlock"} =>
       own.data_fd = BadFd \/ (own.data_fd.ino \in Inodes /\ own.data_fd.pos \in Nat)
  /\ pc = "send" => /\ own.data_fd.ino \in Inodes
                    /\ own.data_fd.pos \in 1..Len(data[own.data_fd.ino])
  /\ own.fds <= own.recvs /\ (pc = "open" => own.fds < own.recvs)
  /\ own.data_fd.ino \in Inodes /\ pc \notin {"release", "done"} => own.fds > 0

\* The connection accept() returned has no thread yet.
CreateInv == mpc = "create" => cpc[item] = "none"

ServerInv ==
  /\ MainType /\ ThreadType /\ CreateInv
  /\ \A c \in Conns : DescriptorInv(file.data, cpc[c], conn[c])

\* Before create_timer there are no threads; then the mutex guards the file.
LockInv ==
  /\ mpc \in {"start", "register", "open", "init", "timer"} =>
       /\ mutex.owner = NULL /\ timer = "none"
       /\ \A c \in Conns : cpc[c] = "none"
       /\ \A k \in Expiries : tpc[k] = "idle"
  /\ MutexGuardsFile

(***************************************************************************)
(* What a thread that answers has sent is what it has read, from the start *)
(* of the file on.                                                         *)
(***************************************************************************)
Answered(c, data, pc, own) ==
  LET fd == own.data_fd
  IN  pc \in {"read", "send", "unlock"} /\ fd # BadFd =>
        /\ pc = "read" => /\ fd.pos \in 0..Len(data[fd.ino])
                         /\ own.sent = SubSeq(data[fd.ino], 1, fd.pos)
        /\ pc = "send" => own.sent = SubSeq(data[fd.ino], 1, fd.pos - 1)
        /\ pc = "unlock" => own.sent = data[fd.ino]
        /\ ~May("write") => Contains(data[fd.ino], <<c, own.recvs>>)

ReplyInv == \A c \in Conns : Answered(c, file.data, cpc[c], conn[c])

\* Until the mutex is destroyed, its owner is on its way to release it.
Releasing == {"append", "read", "send", "unlock", "close_client", "close_data", "release"}
OwnerInv ==
  /\ \A c \in Conns : mutex.up /\ mutex.owner = c =>
       /\ cpc[c] \in Releasing
       /\ cpc[c] \in {"close_client", "close_data"} /\ Alive => conn[c].dying \/ SignalPoints = {}
  /\ \A k \in Expiries : mutex.up /\ mutex.owner = k => tpc[k] \in {"open", "append", "unlock"}
  /\ SignalPoints = {} => cancel = {} /\ hpc = "none"

\* A signal does not meet main in its walk.
WalkInv ==
  mpc = "reap" => hpc = "none" /\ (item # NULL => Contains(connections, item))

Ended(c) == cpc[c] \in {"none", "done", "refused"}

(***************************************************************************)
(* Every running thread is in the list, or it is the one main is about to  *)
(* put there; no thread is twice in the list.                              *)
(***************************************************************************)
NoTwice(list) == \A i, j \in 1..Len(list) : list[i] = list[j] => i = j

ListInv ==
  /\ Alive => \A c \in Conns :
       ~Ended(c) => Contains(connections, c) \/ (mpc = "insert" /\ item = c)
  /\ NoTwice(connections)
  /\ \A c \in Conns : Contains(connections, c) => cpc[c] \notin {"none", "refused"}
  /\ mpc = "insert" => cpc[item] \notin {"none", "refused"} /\ ~Contains(connections, item)

(***************************************************************************)
(* The handler joins from the head of the list, until the list is empty; a *)
(* handler that is interrupted once the listening socket is closed never   *)
(* goes on.  Only a handler destroys the mutex, when it is done with the   *)
(* threads.                                                                *)
(***************************************************************************)
HandlerInv ==
  /\ hpc = "join" => hitem = ListFirst(connections)
  /\ hpc \in {"destroy", "remove"} => connections = << >>
  /\ hpc # "none" => mpc \notin {"start", "register"} /\ stopApp
  /\ mpc \in {"start", "register"} => ~stopApp
  /\ hpc \in {"cancel", "join", "destroy", "remove"} =>
       ~listening /\ resume \in {"none", "shutdown"}
  /\ resume \in {"cancel", "join", "destroy", "remove"} => hpc = "shutdown" /\ ~listening
  /\ hpc = "none" => resume = "none"
  /\ mpc \in {"timer", "loop", "accept", "create", "insert", "reap"} /\ ~mutex.up =>
       ~listening /\ hpc \notin {"cancel", "join", "destroy"}

\* A handler that has returned leaves no thread.
ExitInv ==
  /\ mpc \in {"create", "insert"} => ~stopApp
  /\ mpc \in {"create", "insert", "exited"} => hpc = "none"
  /\ stopApp /\ hpc = "none" => ~listening /\ \A c \in Conns : Ended(c)
  /\ mpc = "exited" => \A c \in Conns : Ended(c)

(***************************************************************************)
(* And no file.  From the first open_datafile on the file is there until   *)
(* the handler removes it; what is opened afterwards is another inode.     *)
(***************************************************************************)
FileInv ==
  /\ mpc \in {"start", "register", "open"} => ~stopApp
  /\ mpc \in {"init", "timer", "loop", "accept", "create", "insert", "reap"} =>
       file.exists \/ file.ino = 1
  /\ \A k \in Expiries : tfd[k] = 1 => file.ino = 1
  /\ stopApp /\ hpc = "none" /\ file.exists =>
       UseCharDevice \/ \E k \in Expiries : tfd[k] = 1

-----------------------------------------------------------------------------
(* The list of threads and the contents of the data file *)

\* r is the list s without its item at f, which is the first that holds e.
RemovedAt(s, e, f, r) ==
  /\ s[f] = e
  /\ \A i \in 1..(f - 1) : s[i] # e
  /\ \A i \in 1..(Len(s) - 1) : r[i] = IF i < f THEN s[i] ELSE s[i + 1]

\* SLIST_REMOVE takes the first item that holds e off the list.
LEMMA RemoveFirstProperties ==
  ASSUME NEW S, NEW s \in Seq(S), NEW e, Contains(s, e)
  PROVE  /\ RemoveFirst(s, e) \in Seq(S)
         /\ Len(RemoveFirst(s, e)) = Len(s) - 1
         /\ \E f \in 1..Len(s) : RemovedAt(s, e, f, RemoveFirst(s, e))
<1> DEFINE I == {i \in 1..Len(s) : s[i] = e}
           f == Min(I)
           t == SubSeq(s, 1, f - 1)
           u == SubSeq(s, f + 1, Len(s))
<1>1. I # {} /\ Len(s) \in Nat
  BY LenProperties DEF Contains
<1>2. f \in 1..Len(s) /\ s[f] = e /\ \A i \in 1..(f - 1) : s[i] # e
  BY <1>1, FirstPosition
<1>3. RemoveFirst(s, e) = t \o u
  BY <1>1 DEF RemoveFirst, RemoveAt, SelectInSeq, Contains
<1> HIDE DEF f
<1>4. \A i \in 1..Len(s) : s[i] \in S
  BY ElementOfSeq
<1>5. /\ t \in Seq(S) /\ Len(t) = f - 1
      /\ \A i \in 1..(f - 1) : t[i] = s[i]
  <2>1. \A i \in 1..(f - 1) : i \in 1..Len(s)
    BY <1>1, <1>2
  <2> QED
    BY <1>1, <1>2, <1>4, <2>1, SubSeqProperties
<1>6. /\ u \in Seq(S) /\ Len(u) = Len(s) - f
      /\ \A i \in 1..(Len(s) - f) : u[i] = s[f + i]
  <2>1. \A i \in (f + 1)..Len(s) : i \in 1..Len(s)
    BY <1>1, <1>2
  <2>2. f + 1 \in Int /\ Len(s) \in Int /\ \A i \in (f + 1)..Len(s) : s[i] \in S
    BY <1>1, <1>2, <1>4, <2>1
  <2>3. /\ u \in Seq(S) /\ Len(u) = IF f + 1 <= Len(s) THEN Len(s) - (f + 1) + 1 ELSE 0
        /\ \A i \in 1..(Len(s) - (f + 1) + 1) : u[i] = s[f + 1 + i - 1]
    BY <2>2, SubSeqProperties
  <2> QED
    BY <2>3, <1>1, <1>2
<1> HIDE DEF t, u
<1>7. /\ t \o u \in Seq(S) /\ Len(t \o u) = Len(s) - 1
      /\ \A i \in 1..(Len(s) - 1) : (t \o u)[i] = IF i <= f - 1 THEN t[i] ELSE u[i - (f - 1)]
  <2>1. /\ t \o u \in Seq(S) /\ Len(t \o u) = Len(t) + Len(u)
        /\ \A i \in 1..(Len(t) + Len(u)) : (t \o u)[i] =
             IF i <= Len(t) THEN t[i] ELSE u[i - Len(t)]
    BY <1>5, <1>6, ConcatProperties
  <2>2. Len(t) + Len(u) = Len(s) - 1
    BY <1>1, <1>2, <1>5, <1>6
  <2> QED
    BY <1>5, <2>1, <2>2
<1>8. \A i \in 1..(Len(s) - 1) : (t \o u)[i] = IF i < f THEN s[i] ELSE s[i + 1]
  BY <1>1, <1>2, <1>5, <1>6, <1>7
<1> QED
  BY <1>2, <1>3, <1>7, <1>8 DEF RemovedAt

\* The list stays one of connections.
LEMMA RemoveFirstType ==
  ASSUME NEW S, NEW s \in Seq(S), NEW e
  PROVE  RemoveFirst(s, e) \in Seq(S)
<1>1. CASE Contains(s, e)
  BY <1>1, RemoveFirstProperties
<1>2. CASE ~Contains(s, e)
  BY <1>2 DEF RemoveFirst, Contains
<1> QED
  BY <1>1, <1>2

\* SLIST_NEXT and SLIST_FIRST give a connection of the list or NULL.
LEMMA ListNextProperties ==
  ASSUME connections \in Seq(Conns), NEW c
  PROVE  \/ /\ ListNext(c) = NULL
            /\ \A i \in 1..Len(connections) : i > 1 => connections[i - 1] # c
         \/ /\ ListNext(c) \in Conns
            /\ \E i \in 1..Len(connections) :
                 i > 1 /\ connections[i - 1] = c /\ ListNext(c) = connections[i]
<1> DEFINE rest == {i \in 1..Len(connections) : i > 1 /\ connections[i - 1] = c}
<1>1. ListNext(c) = IF rest = {} THEN NULL ELSE connections[CHOOSE i \in rest : TRUE]
  BY DEF ListNext
<1>2. CASE rest = {}
  BY <1>1, <1>2
<1>3. CASE rest # {}
  <2>1. PICK i \in rest : i = CHOOSE j \in rest : TRUE
    BY <1>3
  <2>2. ListNext(c) = connections[i]
    BY <1>1, <1>3, <2>1
  <2> QED
    BY <2>1, <2>2, ElementOfSeq
<1> QED
  BY <1>2, <1>3

LEMMA ListFirstType ==
  ASSUME NEW list \in Seq(Conns)
  PROVE  ListFirst(list) \in Conns \cup {NULL}
BY DEF ListFirst

\* A write keeps the length or adds to it, and the line is in the file.
LEMMA WrittenProperties ==
  ASSUME NEW ino \in Inodes, NEW fd, fd.ino = ino, fd.pos \in Nat, NEW line \in Lines,
         file.data[ino] \in Seq(Lines)
  PROVE  /\ Written(fd, line) \in Seq(Lines)
         /\ Len(Written(fd, line)) >= Len(file.data[ino])
         /\ Contains(Written(fd, line), line)
<1> DEFINE d == file.data[ino]
<1>1. d \in Seq(Lines) /\ Len(d) \in Nat
  OBVIOUS
<1>2. Written(fd, line) = IF UseCharDevice
                         THEN IF Len(d) < Capacity THEN Append(d, line)
                              ELSE Append(Tail(d), line)
                         ELSE IF fd.pos < Len(d) THEN [d EXCEPT ![fd.pos + 1] = line]
                              ELSE Append(d, line)
  BY DEF Written
<1> HIDE DEF d
<1>3. \A s \in Seq(Lines) : /\ Append(s, line) \in Seq(Lines)
                            /\ Len(Append(s, line)) = Len(s) + 1
                            /\ Contains(Append(s, line), line)
  BY AppendProperties, LenProperties DEF Contains
<1>4. CASE Written(fd, line) = Append(d, line)
  BY <1>1, <1>3, <1>4 DEF d
<1>5. CASE Written(fd, line) = Append(Tail(d), line) /\ ~(Len(d) < Capacity)
  <2>1. d # << >>
    BY <1>1, <1>5, ServerAssumption
  <2>2. Tail(d) \in Seq(Lines) /\ Len(Tail(d)) = Len(d) - 1
    BY <1>1, <2>1, HeadTailProperties
  <2> DEFINE w == Append(Tail(d), line)
  <2>3. w \in Seq(Lines) /\ Len(w) = Len(Tail(d)) + 1 /\ Contains(w, line)
    BY <1>3, <2>2
  <2>4. Written(fd, line) = w
    BY <1>5
  <2> HIDE DEF w
  <2> QED
    BY <1>1, <2>2, <2>3, <2>4 DEF d
<1>6. CASE Written(fd, line) = [d EXCEPT ![fd.pos + 1] = line] /\ fd.pos < Len(d)
  <2>1. fd.pos + 1 \in 1..Len(d)
    BY <1>1, <1>6
  <2> DEFINE w == [d EXCEPT ![fd.pos + 1] = line]
  <2>2. w \in Seq(Lines) /\ Len(w) = Len(d) /\ w[fd.pos + 1] = line
    BY <1>1, <2>1, ExceptSeq
  <2> HIDE DEF w
  <2>3. Contains(w, line)
    BY <2>1, <2>2 DEF Contains
  <2> QED
    BY <1>1, <1>6, <2>2, <2>3 DEF d, w
<1> QED
  BY <1>2, <1>4, <1>5, <1>6

-----------------------------------------------------------------------------
(* Types and descriptors *)

\* The server before its first step, with a file that an earlier one left.
LEMMA InitServer == Init => ServerInv
<1> SUFFICES ASSUME Init PROVE ServerInv
  OBVIOUS
<1>a. signals \in 0..MaxSignals
  BY ServerAssumption DEF Init
<1>1. MainType
  <2>1. connections \in Seq(Conns) /\ freed \subseteq Conns
    BY EmptySeq DEF Init
  <2> QED
    BY <1>a, <2>1 DEF Init, MainType, MainLabels, HandlerLabels
<1>2. << >> \in Seq(Lines)
  BY EmptySeq
<1>3. NoFd \in [ino : Inodes \cup {NULL}, pos : Int]
  BY DEF NoFd
<1>4. NewConn \in ConnRecord
  BY <1>2, <1>3, ServerAssumption DEF NewConn, ConnRecord
<1>5. file \in FileType
  <2>1. PICK old \in Leftovers :
          file = [exists |-> old # << >>, ino |-> 0,
                  data |-> [i \in Inodes |-> IF i = 0 THEN old ELSE << >>]]
    BY DEF Init
  <2>2. <<NULL, 0>> \in Lines
    BY DEF Lines
  <2>3. old \in Seq(Lines)
    BY <2>2, SeqMonotonic, ServerAssumption, SMTT(30)
  <2>4. [i \in Inodes |-> IF i = 0 THEN old ELSE << >>] \in [Inodes -> Seq(Lines)]
    BY <1>2, <2>3
  <2> QED
    BY <2>1, <2>4 DEF FileType, Inodes
<1>6. ThreadType
  BY <1>4, <1>5 DEF Init, ThreadType, MutexType, ConnLabels, TimerLabels, Inodes
<1>7. DescriptorInv(file.data, "none", NewConn)
  BY ServerAssumption DEF DescriptorInv, NewConn, NoFd, Inodes
<1> QED
  BY <1>1, <1>6, <1>7 DEF ServerInv, CreateInv, Init

\* open_datafile and destroy_datafile leave the contents.
LEMMA FileKept ==
  ASSUME file \in FileType, OpenDatafile \/ DestroyDatafile \/ UNCHANGED file
  PROVE  file' \in FileType /\ file'.data = file.data
BY SMTT(30) DEF FileType, OpenDatafile, DestroyDatafile, Inodes

ThreadBegins(c) == cpc[c] = "none" /\ cpc'[c] \in {"recv", "refused"}

\* Main and the handler leave the threads' descriptors and the contents alone.
LEMMA MainStepKeepsServer ==
  ASSUME ServerInv, MainType', ThreadType', CreateInv', conn' = conn, file'.data = file.data,
         \A c \in Conns : cpc'[c] = cpc[c] \/ ThreadBegins(c)
  PROVE  ServerInv'
<1>1. \A c \in Conns : DescriptorInv(file.data, cpc[c], conn[c])
  BY DEF ServerInv
<1>2. \A c \in Conns : DescriptorInv(file.data, cpc'[c], conn[c])
  <2> TAKE c \in Conns
  <2>1. CASE cpc'[c] = cpc[c]
    BY <1>1, <2>1
  <2>2. CASE ThreadBegins(c)
    BY <1>1, <2>2 DEF ThreadBegins, DescriptorInv
  <2> QED
    BY <2>1, <2>2
<1> QED
  BY <1>2 DEF ServerInv

\* Main: the start, the loop, accept() and the walk.
LEMMA MainKeepsServer ==
  ASSUME ServerInv, MainRuns \/ MainAccepts
  PROVE  ServerInv'
<1> USE DEF handler, threads, timers, MainAt
<1>t. MainType /\ ThreadType /\ CreateInv
  BY DEF ServerInv
<1>1. CASE StartServer
  <2>1. file' \in FileType /\ file'.data = file.data
    BY <1>t, <1>1, FileKept DEF StartServer, MakeDaemonFails, ThreadType
  <2>2. MainType'
    BY <1>t, <1>1 DEF StartServer, MakeDaemonFails, MainType, MainLabels
  <2>3. ThreadType' /\ conn' = conn /\ cpc' = cpc
    BY <1>t, <1>1, <2>1 DEF StartServer, ThreadType
  <2>4. CreateInv'
    BY <1>1 DEF StartServer, MakeDaemonFails, CreateInv
  <2> QED
    BY <2>1, <2>2, <2>3, <2>4, MainStepKeepsServer
<1>2. CASE RegisterSighandlers \/ MainLoop
  <2>1. MainType'
    BY <1>t, <1>2 DEF RegisterSighandlers, MainLoop, MainType, MainLabels
  <2>2. ThreadType' /\ conn' = conn /\ cpc' = cpc /\ file' = file
    BY <1>t, <1>2 DEF RegisterSighandlers, MainLoop, ThreadType
  <2>3. CreateInv'
    BY <1>2 DEF RegisterSighandlers, MainLoop, CreateInv
  <2> QED
    BY <2>1, <2>2, <2>3, MainStepKeepsServer
<1>3. CASE MainOpensFile
  <2>1. file' \in FileType /\ file'.data = file.data
    BY <1>t, <1>3, FileKept DEF MainOpensFile, ThreadType
  <2>2. MainType'
    BY <1>t, <1>3 DEF MainOpensFile, MainType, MainLabels
  <2>3. ThreadType' /\ conn' = conn /\ cpc' = cpc
    BY <1>t, <1>3, <2>1 DEF MainOpensFile, ThreadType
  <2>4. CreateInv'
    BY <1>3 DEF MainOpensFile, CreateInv
  <2> QED
    BY <2>1, <2>2, <2>3, <2>4, MainStepKeepsServer
<1>4. CASE MainInit
  <2>1. MainType'
    BY <1>t, <1>4 DEF MainInit, MainType, MainLabels
  <2>2. ThreadType' /\ conn' = conn /\ cpc' = cpc /\ file' = file
    BY <1>t, <1>4 DEF MainInit, ThreadType, MutexType
  <2>3. CreateInv'
    BY <1>4 DEF MainInit, CreateInv
  <2> QED
    BY <2>1, <2>2, <2>3, MainStepKeepsServer
<1>5. CASE MainCreatesTimer
  <2>1. MainType'
    BY <1>t, <1>5 DEF MainCreatesTimer, MainType, MainLabels
  <2>2. ThreadType' /\ CreateInv' /\ conn' = conn /\ cpc' = cpc /\ file' = file
    BY <1>t, <1>5 DEF MainCreatesTimer, ThreadType, CreateInv
  <2> QED
    BY <2>1, <2>2, MainStepKeepsServer
<1>6. CASE InsertConn
  <2>1. item \in Conns /\ connections \in Seq(Conns)
    BY <1>t, <1>6 DEF InsertConn, MainType
  <2>2. <<item>> \o connections \in Seq(Conns)
    BY <2>1, ConcatProperties
  <2>3. MainType'
    BY <1>t, <1>6, <2>2 DEF InsertConn, MainType, MainLabels
  <2>4. ThreadType' /\ conn' = conn /\ cpc' = cpc /\ file' = file
    BY <1>t, <1>6 DEF InsertConn, ThreadType
  <2>5. CreateInv'
    BY <1>6 DEF InsertConn, CreateInv
  <2> QED
    BY <2>3, <2>4, <2>5, MainStepKeepsServer
<1>7. CASE TryJoin
  <2>1. connections \in Seq(Conns)
    BY <1>t DEF MainType
  <2>2. /\ ListNext(item) \in Conns \cup {NULL}
        /\ RemoveFirst(connections, item) \in Seq(Conns)
    BY <2>1, ListNextProperties, RemoveFirstType
  <2>3. MainType'
    BY <1>t, <1>7, <2>2 DEF TryJoin, MainType, MainLabels
  <2>4. ThreadType' /\ conn' = conn /\ cpc' = cpc /\ file' = file
    BY <1>t, <1>7 DEF TryJoin, ThreadType
  <2>5. CreateInv'
    BY <1>7 DEF TryJoin, CreateInv
  <2> QED
    BY <2>3, <2>4, <2>5, MainStepKeepsServer
<1>8. ASSUME NEW c \in Conns, Accept(c) PROVE ServerInv'
  <2>1. MainType'
    BY <1>t, <1>8 DEF Accept, MainType, MainLabels
  <2>2. ThreadType' /\ CreateInv'
    BY <1>t, <1>8 DEF Accept, ThreadType, CreateInv
  <2>3. conn' = conn /\ file' = file /\ cpc' = cpc
    BY <1>8 DEF Accept
  <2> QED
    BY <2>1, <2>2, <2>3, MainStepKeepsServer
<1>9. CASE AcceptFails
  <2>1. MainType'
    BY <1>t, <1>9 DEF AcceptFails, MainType, MainLabels
  <2>2. ThreadType' /\ CreateInv'
    BY <1>t, <1>9 DEF AcceptFails, ThreadType, CreateInv
  <2>3. conn' = conn /\ file' = file /\ cpc' = cpc
    BY <1>9 DEF AcceptFails
  <2> QED
    BY <2>1, <2>2, <2>3, MainStepKeepsServer
<1>10. CASE CreateThread \/ CreateFails
  <2>1. item \in Conns /\ cpc[item] = "none"
    BY <1>t, <1>10 DEF CreateThread, CreateFails, MainType, CreateInv
  <2>2. MainType'
    BY <1>t, <1>10, <2>1 DEF CreateThread, CreateFails, MainType, MainLabels
  <2>3. ThreadType' /\ CreateInv'
    BY <1>t, <1>10 DEF CreateThread, CreateFails, ThreadType, CreateInv, ConnLabels
  <2>4. /\ conn' = conn /\ file' = file
        /\ \A d \in Conns : cpc'[d] = cpc[d] \/ ThreadBegins(d)
    BY <1>t, <1>10, <2>1 DEF ThreadBegins, CreateThread, CreateFails, ThreadType
  <2> QED
    BY <2>2, <2>3, <2>4, MainStepKeepsServer
<1> QED
  BY <1>1, <1>2, <1>3, <1>4, <1>5, <1>6, <1>7, <1>8, <1>9, <1>10 DEF MainRuns, MainAccepts

\* The signal and its handler.
LEMMA HandlerKeepsServer ==
  ASSUME ServerInv, Signal \/ HandlerRuns
  PROVE  ServerInv'
<1> USE DEF handler, threads, timers, HandlerAt
<1>t. MainType /\ ThreadType /\ connections \in Seq(Conns)
  BY DEF ServerInv, MainType
<1>f. /\ ListNext(hitem) \in Conns \cup {NULL} /\ ListFirst(connections) \in Conns \cup {NULL}
      /\ RemoveFirst(connections, hitem) \in Seq(Conns)
  BY <1>t, ListNextProperties, ListFirstType, RemoveFirstType
<1>c. CreateInv'
  <2>1. mpc' \in {mpc, "killed"} /\ item' = item /\ cpc' = cpc
    BY DEF Signal, HandlerRuns, HandlerShutsDown, HandlerCancels, HandlerJoins,
       HandlerDestroysMutex, HandlerRemovesFile
  <2> QED
    BY <2>1 DEF ServerInv, CreateInv
<1>1. CASE Signal
  <2>a. signals' \in 0..MaxSignals
    BY <1>t, <1>1, ServerAssumption DEF Signal, MainType
  <2>1. MainType'
    BY <1>t, <1>1, <2>a, ZenonT(60) DEF Signal, MainType, MainLabels, HandlerLabels
  <2>2. ThreadType' /\ conn' = conn /\ cpc' = cpc /\ file' = file
    BY <1>t, <1>1 DEF Signal, ThreadType
  <2> QED
    BY <2>1, <2>2, <1>c, MainStepKeepsServer
<1>2. CASE HandlerShutsDown
  <2>1. MainType'
    BY <1>t, <1>f, <1>2 DEF HandlerShutsDown, MainType, HandlerLabels
  <2>2. ThreadType' /\ conn' = conn /\ cpc' = cpc /\ file' = file
    BY <1>t, <1>2 DEF HandlerShutsDown, ThreadType
  <2> QED
    BY <2>1, <2>2, <1>c, MainStepKeepsServer
<1>3. CASE HandlerCancels
  <2>1. MainType'
    BY <1>t, <1>f, <1>3 DEF HandlerCancels, MainType, HandlerLabels
  <2>2. ThreadType'
    BY <1>t, <1>3 DEF HandlerCancels, ThreadType, MainType
  <2>3. conn' = conn /\ cpc' = cpc /\ file' = file
    BY <1>3 DEF HandlerCancels
  <2> QED
    BY <2>1, <2>2, <2>3, <1>c, MainStepKeepsServer
<1>4. CASE HandlerJoins
  <2>1. MainType'
    BY <1>t, <1>f, <1>4 DEF HandlerJoins, MainType, HandlerLabels
  <2>2. ThreadType' /\ conn' = conn /\ cpc' = cpc /\ file' = file
    BY <1>t, <1>4 DEF HandlerJoins, ThreadType
  <2> QED
    BY <2>1, <2>2, <1>c, MainStepKeepsServer
<1>5. CASE HandlerDestroysMutex
  <2>1. MainType'
    BY <1>t, <1>5 DEF HandlerDestroysMutex, MainType, HandlerLabels
  <2>2. ThreadType' /\ conn' = conn /\ cpc' = cpc /\ file' = file
    BY <1>t, <1>5 DEF HandlerDestroysMutex, ThreadType, MutexType
  <2> QED
    BY <2>1, <2>2, <1>c, MainStepKeepsServer
<1>6. CASE HandlerRemovesFile
  <2>1. file' \in FileType /\ file'.data = file.data
    BY <1>t, <1>6, FileKept DEF HandlerRemovesFile, ThreadType
  <2>2. MainType'
    BY <1>t, <1>6 DEF HandlerRemovesFile, MainType, HandlerLabels
  <2>3. ThreadType' /\ conn' = conn /\ cpc' = cpc
    BY <1>t, <1>6, <2>1 DEF HandlerRemovesFile, ThreadType
  <2> QED
    BY <2>1, <2>2, <2>3, <1>c, MainStepKeepsServer
<1> QED
  BY <1>1, <1>2, <1>3, <1>4, <1>5, <1>6 DEF HandlerRuns

(***************************************************************************)
(* A step of one connection thread, which changes its own locals and leaves *)
(* or lengthens the file: what the step has to establish.                  *)
(***************************************************************************)
LEMMA ThreadStepKeepsServer ==
  ASSUME ServerInv, NEW c \in Conns, NEW to \in ConnLabels, NEW own \in ConnRecord,
         cpc' = [cpc EXCEPT ![c] = to], conn' = [conn EXCEPT ![c] = own],
         UNCHANGED <<cancel, timers, handler, listening, timer, connections, item, hitem, freed>>,
         mpc' = mpc \/ mpc' = "killed", mutex' \in MutexType, file' \in FileType,
         cpc[c] # "none", \A i \in Inodes : Len(file'.data[i]) >= Len(file.data[i]),
         DescriptorInv(file'.data, to, own)
  PROVE  ServerInv'
<1>t. MainType /\ ThreadType
  BY DEF ServerInv
<1>1. MainType'
  BY <1>t DEF MainType, handler
<1>2. ThreadType'
  BY <1>t DEF ThreadType, timers
<1>3. ASSUME NEW d \in Conns PROVE DescriptorInv(file'.data, cpc'[d], conn'[d])
  <2>1. CASE d = c
    BY <1>t, <2>1 DEF ThreadType
  <2>2. CASE d # c
    <3>1. cpc'[d] = cpc[d] /\ conn'[d] = conn[d]
      BY <1>t, <2>2 DEF ThreadType
    <3>2. DescriptorInv(file.data, cpc[d], conn[d])
      BY DEF ServerInv
    <3>3. \A i \in Inodes : Len(file'.data[i]) \in Nat /\ Len(file.data[i]) \in Nat
      BY <1>t DEF ThreadType, FileType
    <3>4. conn[d].data_fd.pos \in Int
      BY <1>t DEF ThreadType, ConnRecord
    <3>5. cpc[d] = "send" => conn[d].data_fd.pos \in 1..Len(file'.data[conn[d].data_fd.ino])
      BY <3>2, <3>3, <3>4 DEF DescriptorInv
    <3> QED
      BY <3>1, <3>2, <3>5 DEF DescriptorInv
  <2> QED
    BY <2>1, <2>2
<1>4. CreateInv'
  BY <1>t DEF ServerInv, MainType, ThreadType, CreateInv
<1> QED
  BY <1>1, <1>2, <1>3, <1>4 DEF ServerInv

\* Steps that leave the thread's locals and the file alone.
LEMMA SameLocalsKeepServer ==
  ASSUME ServerInv, NEW c \in Conns, NEW from, NEW to \in ConnLabels, ConnStep(c, from, to),
         conn' = conn, file' = file, mpc' = mpc \/ mpc' = "killed", mutex' \in MutexType,
         to \in {"lock", "wait", "append", "unlock"} => from \in {"seek", "lock", "wait", "read"},
         to \notin {"seek", "read", "send", "open"}, from \notin {"release", "done"} \/ to = "done",
         from # "none"
  PROVE  ServerInv'
<1>t. MainType /\ ThreadType
  BY DEF ServerInv
<1>1. conn[c] \in ConnRecord /\ cpc[c] = from
  BY <1>t DEF ThreadType, ConnStep
<1>2. DescriptorInv(file.data, from, conn[c])
  BY <1>1 DEF ServerInv
<1>3. DescriptorInv(file'.data, to, conn[c])
  BY <1>2 DEF DescriptorInv
<1>4. conn' = [conn EXCEPT ![c] = conn[c]]
  BY <1>t DEF ThreadType
<1>5. file' \in FileType /\ \A i \in Inodes : Len(file'.data[i]) >= Len(file.data[i])
  BY <1>t DEF ThreadType, FileType
<1> QED
  BY <1>1, <1>3, <1>4, <1>5, ThreadStepKeepsServer DEF ConnStep

\* recv(), and open_datafile on the piece it brought.
LEMMA ReceivingKeepsServer ==
  ASSUME ServerInv, NEW c \in Conns, Recv(c) \/ ConnOpens(c)
  PROVE  ServerInv'
<1>t. MainType /\ ThreadType /\ conn[c] \in ConnRecord
  BY DEF ServerInv, ThreadType
<1>d. DescriptorInv(file.data, cpc[c], conn[c])
  BY DEF ServerInv
<1>n. mutex \in MutexType /\ file \in FileType /\ MaxRecv \in Nat
      /\ \A i \in Inodes : Len(file.data[i]) >= Len(file.data[i])
  BY <1>t, ServerAssumption DEF ThreadType, FileType
<1>l. "open" \in ConnLabels /\ "seek" \in ConnLabels
  BY DEF ConnLabels
<1>1. CASE Recv(c)
  <2>1. PICK b \in BOOLEAN : conn' = [conn EXCEPT ![c].recvs = @ + 1, ![c].has_nl = b]
    BY <1>1 DEF Recv
  <2> DEFINE own == [conn[c] EXCEPT !.recvs = @ + 1, !.has_nl = b]
  <2>2. conn' = [conn EXCEPT ![c] = own]
    BY <1>t, <2>1 DEF ThreadType
  <2>3. /\ own.data_fd = conn[c].data_fd /\ own.fds = conn[c].fds
        /\ own.recvs = conn[c].recvs + 1 /\ own.sent = conn[c].sent
    BY <1>t DEF ConnRecord
  <2>4. own.recvs \in 0..MaxRecv
    BY <1>1, <1>t, <1>n, <2>3 DEF Recv, ConnRecord
  <2>5. own \in ConnRecord
    BY <1>t, <2>3, <2>4 DEF ConnRecord
  <2> HIDE DEF own
  <2>6. cpc[c] = "recv" /\ conn[c].fds \in Nat /\ conn[c].recvs \in Nat
    BY <1>1, <1>t DEF Recv, ConnStep, ConnRecord
  <2>7. DescriptorInv(file.data, "open", own)
    BY <1>d, <2>3, <2>6 DEF DescriptorInv
  <2>8. /\ cpc' = [cpc EXCEPT ![c] = "open"] /\ mpc' = mpc /\ mutex' = mutex /\ file' = file
        /\ UNCHANGED <<cancel, timers, handler, listening, timer, connections, item, hitem, freed>>
    BY <1>1 DEF Recv, ConnStep
  <2> QED
    BY <1>n, <1>l, <2>2, <2>5, <2>6, <2>7, <2>8, ThreadStepKeepsServer
<1>2. CASE ConnOpens(c)
  <2>1. /\ cpc' = [cpc EXCEPT ![c] = "seek"] /\ mpc' = mpc /\ mutex' = mutex /\ cpc[c] = "open"
        /\ UNCHANGED <<cancel, timers, handler, listening, timer, connections, item, hitem, freed>>
    BY <1>2 DEF ConnOpens, ConnStep
  <2>2. file' \in FileType /\ file'.data = file.data
    BY <1>2, <1>n, FileKept DEF ConnOpens
  <2>3. PICK own : /\ own \in ConnRecord /\ conn' = [conn EXCEPT ![c] = own]
                   /\ own.recvs = conn[c].recvs
                   /\ \/ /\ own.data_fd.ino \in Inodes /\ own.data_fd.pos = 0
                         /\ own.fds = conn[c].fds + 1
                      \/ own.data_fd = BadFd /\ own.fds = conn[c].fds
    <3>1. CASE conn' = [conn EXCEPT ![c].data_fd = Fd(file.ino, 0), ![c].fds = @ + 1]
      <4> DEFINE own == [conn[c] EXCEPT !.data_fd = Fd(file.ino, 0), !.fds = @ + 1]
      <4>1. conn' = [conn EXCEPT ![c] = own]
        BY <1>t, <3>1 DEF ThreadType
      <4>2. file.ino \in Inodes
        BY <1>n DEF FileType
      <4>3. /\ Fd(file.ino, 0) \in [ino : Inodes \cup {NULL}, pos : Int]
            /\ Fd(file.ino, 0).ino \in Inodes /\ Fd(file.ino, 0).pos = 0
        BY <4>2 DEF Fd
      <4>4. own \in ConnRecord
        <5>1. conn[c].fds + 1 \in Nat
          BY <1>t DEF ConnRecord
        <5> QED
          BY <1>t, <4>3, <5>1 DEF ConnRecord
      <4>5. own.data_fd = Fd(file.ino, 0) /\ own.fds = conn[c].fds + 1 /\ own.recvs = conn[c].recvs
        BY <1>t DEF ConnRecord
      <4> QED
        BY <4>1, <4>3, <4>4, <4>5
    <3>2. CASE conn' = [conn EXCEPT ![c].data_fd = BadFd]
      <4> DEFINE own == [conn[c] EXCEPT !.data_fd = BadFd]
      <4>1. conn' = [conn EXCEPT ![c] = own]
        BY <1>t, <3>2 DEF ThreadType
      <4>2. BadFd \in [ino : Inodes \cup {NULL}, pos : Int]
        BY DEF BadFd
      <4>3. own \in ConnRecord
        BY <1>t, <4>2 DEF ConnRecord
      <4>4. own.data_fd = BadFd /\ own.fds = conn[c].fds /\ own.recvs = conn[c].recvs
        BY <1>t DEF ConnRecord
      <4> QED
        BY <4>1, <4>3, <4>4
    <3> QED
      BY <1>2, <3>1, <3>2 DEF ConnOpens
  <2>4. conn[c].fds \in Nat /\ conn[c].recvs \in Nat /\ BadFd.ino \notin Inodes
    BY <1>t, ServerAssumption DEF ConnRecord, BadFd, Inodes
  <2>5. DescriptorInv(file.data, "seek", own)
    BY <1>d, <2>1, <2>3, <2>4 DEF DescriptorInv
  <2> QED
    BY <1>n, <1>l, <2>1, <2>2, <2>3, <2>5, ThreadStepKeepsServer
<1> QED
  BY <1>1, <1>2

\* adjust_datafile_pos to the end of the file.
LEMMA SeekEndKeepsServer ==
  ASSUME ServerInv, NEW c \in Conns, SeekEnd(c)
  PROVE  ServerInv'
<1> DEFINE fd == conn[c].data_fd
           rest == IF conn[c].has_nl THEN "lock" ELSE "recv"
<1>t. MainType /\ ThreadType /\ conn[c] \in ConnRecord /\ mutex \in MutexType /\ file \in FileType
  BY DEF ServerInv, ThreadType
<1>d. DescriptorInv(file.data, cpc[c], conn[c])
  BY DEF ServerInv
<1>1. CASE conn' = conn /\ (ConnStep(c, "seek", rest) \/ ConnStep(c, "seek", Break))
  <2>1. mpc' = mpc /\ mutex' = mutex /\ file' = file
    BY DEF SeekEnd
  <2>2. CASE ConnStep(c, "seek", "lock")
    BY <1>1, <1>t, <2>1, <2>2, SameLocalsKeepServer DEF ConnLabels
  <2>3. CASE ConnStep(c, "seek", "recv")
    BY <1>1, <1>t, <2>1, <2>3, SameLocalsKeepServer DEF ConnLabels
  <2>4. CASE ConnStep(c, "seek", "close_client")
    BY <1>1, <1>t, <2>1, <2>4, SameLocalsKeepServer DEF ConnLabels
  <2> QED
    BY <1>1, <2>2, <2>3, <2>4 DEF Break
<1>2. CASE /\ fd # BadFd /\ ConnStep(c, "seek", rest)
           /\ conn' = [conn EXCEPT ![c].data_fd.pos = Len(file.data[fd.ino])]
  <2>1. /\ cpc[c] = "seek" /\ cpc' = [cpc EXCEPT ![c] = rest] /\ mpc' = mpc /\ mutex' = mutex
        /\ file' = file
        /\ UNCHANGED <<cancel, timers, handler, listening, timer, connections, item, hitem, freed>>
    BY <1>2 DEF SeekEnd, ConnStep
  <2>2. fd.ino \in Inodes
    BY <1>d, <1>2, <2>1 DEF DescriptorInv
  <2> DEFINE own == [conn[c] EXCEPT !.data_fd.pos = Len(file.data[fd.ino])]
  <2>3. conn' = [conn EXCEPT ![c] = own]
    BY <1>2, <1>t DEF ThreadType
  <2>4. \A i \in Inodes : Len(file.data[i]) \in Nat
    BY <1>t DEF FileType
  <2>5. own \in ConnRecord
    BY <1>t, <2>2, <2>4 DEF ConnRecord
  <2>6. /\ own.data_fd.ino = fd.ino /\ own.data_fd.pos \in Nat
        /\ own.fds = conn[c].fds /\ own.recvs = conn[c].recvs
    BY <1>t, <2>2, <2>4 DEF ConnRecord
  <2> HIDE DEF own
  <2>7. DescriptorInv(file.data, rest, own)
    BY <1>d, <2>1, <2>2, <2>6 DEF DescriptorInv
  <2>8. rest \in ConnLabels
    BY DEF ConnLabels
  <2>9. \A i \in Inodes : Len(file'.data[i]) >= Len(file.data[i])
    BY <2>1, <2>4
  <2> HIDE DEF rest
  <2> QED
    BY <1>t, <2>1, <2>3, <2>5, <2>7, <2>8, <2>9, ThreadStepKeepsServer
<1> QED
  BY <1>1, <1>2 DEF SeekEnd

\* A write leaves the other inode and no file shorter.
LEMMA WriteKeepsFile ==
  ASSUME file \in FileType, NEW ino \in Inodes, NEW fd, fd.ino = ino, fd.pos \in Nat,
         NEW line \in Lines, Write(fd, line)
  PROVE  /\ file' \in FileType /\ file'.exists = file.exists /\ file'.ino = file.ino
         /\ file'.data[ino] = Written(fd, line)
         /\ \A i \in Inodes : i # ino => file'.data[i] = file.data[i]
         /\ \A i \in Inodes : Len(file'.data[i]) >= Len(file.data[i])
<1> DEFINE w == Written(fd, line)
           data == [file.data EXCEPT ![ino] = w]
<1>1. file.data \in [Inodes -> Seq(Lines)]
  BY DEF FileType
<1>2. w \in Seq(Lines) /\ Len(w) >= Len(file.data[ino])
  BY <1>1, WrittenProperties
<1>3. file' = [file EXCEPT !.data = data]
  BY DEF Write, FileType
<1> HIDE DEF w
<1>4. /\ data \in [Inodes -> Seq(Lines)] /\ data[ino] = w
      /\ \A i \in Inodes : i # ino => data[i] = file.data[i]
  BY <1>1, <1>2
<1>5. \A i \in Inodes : Len(data[i]) >= Len(file.data[i])
  BY <1>1, <1>2, <1>4
<1> HIDE DEF data
<1>6. /\ file' \in FileType /\ file'.data = data
      /\ file'.exists = file.exists /\ file'.ino = file.ino
  BY <1>3, <1>4 DEF FileType
<1> QED
  BY <1>4, <1>5, <1>6 DEF w

\* append_datafile, read() and send() of the answer.
LEMMA AnsweringKeepsServer ==
  ASSUME ServerInv, NEW c \in Conns, ConnAppends(c) \/ ConnReads(c) \/ ConnSends(c)
  PROVE  ServerInv'
<1> DEFINE fd == conn[c].data_fd
<1>t. /\ MainType /\ ThreadType /\ conn[c] \in ConnRecord /\ mutex \in MutexType
      /\ file \in FileType
  BY DEF ServerInv, ThreadType
<1>d. DescriptorInv(file.data, cpc[c], conn[c])
  BY DEF ServerInv
<1>n. \A i \in Inodes : /\ file.data[i] \in Seq(Lines) /\ Len(file.data[i]) \in Nat
                        /\ Len(file.data[i]) >= Len(file.data[i])
  BY <1>t DEF FileType
<1>l. "read" \in ConnLabels /\ "send" \in ConnLabels /\ "unlock" \in ConnLabels
  BY DEF ConnLabels
<1>b. BadFd.ino \notin Inodes
  BY ServerAssumption DEF BadFd, Inodes
<1>1. CASE ConnAppends(c)
  <2>1. /\ cpc[c] = "append" /\ cpc' = [cpc EXCEPT ![c] = "read"] /\ mpc' = mpc /\ mutex' = mutex
        /\ UNCHANGED <<cancel, timers, handler, listening, timer, connections, item, hitem, freed>>
    BY <1>1 DEF ConnAppends, ConnStep
  <2>2. fd # BadFd => fd.ino \in Inodes /\ fd.pos \in Nat
    BY <1>d, <2>1 DEF DescriptorInv
  <2>3. <<c, conn[c].recvs>> \in Lines
    BY <1>t DEF ConnRecord, Lines
  <2>4. file' \in FileType /\ \A i \in Inodes : Len(file'.data[i]) >= Len(file.data[i])
    <3>1. CASE fd # BadFd /\ Write(fd, <<c, conn[c].recvs>>)
      BY <1>t, <2>2, <2>3, <3>1, WriteKeepsFile
    <3>2. CASE UNCHANGED file
      BY <1>t, <1>n, <3>2
    <3> QED
      BY <1>1, <3>1, <3>2 DEF ConnAppends
  <2> DEFINE pos == IF fd = BadFd THEN fd.pos ELSE 0
             own == [conn[c] EXCEPT !.data_fd.pos = pos, !.sent = << >>]
  <2>5. conn' = [conn EXCEPT ![c] = own]
    BY <1>1, <1>t DEF ConnAppends, ThreadType, ConnRecord
  <2>6. pos \in Int /\ << >> \in Seq(Lines) /\ (fd # BadFd => pos = 0) /\ (fd = BadFd => pos = fd.pos)
    BY <1>t, EmptySeq DEF ConnRecord
  <2> HIDE DEF pos
  <2>7. own \in ConnRecord
    BY <1>t, <2>6 DEF ConnRecord
  <2>8. /\ own.data_fd.ino = fd.ino /\ own.data_fd.pos = pos /\ own.fds = conn[c].fds
        /\ own.recvs = conn[c].recvs
    BY <1>t DEF ConnRecord
  <2>9. fd = BadFd => own.data_fd = fd
    BY <1>t, <2>6 DEF ConnRecord
  <2> HIDE DEF own
  <2>10. DescriptorInv(file'.data, "read", own)
    BY <1>d, <1>b, <2>1, <2>2, <2>6, <2>8, <2>9 DEF DescriptorInv
  <2> QED
    BY <1>t, <1>l, <2>1, <2>4, <2>5, <2>7, <2>10, ThreadStepKeepsServer
<1>2. CASE ConnReads(c)
  <2>1. mpc' = mpc /\ mutex' = mutex /\ file' = file
    BY <1>2 DEF ConnReads
  <2>2. CASE ConnStep(c, "read", "unlock") /\ UNCHANGED conn
    BY <1>t, <1>l, <2>1, <2>2, SameLocalsKeepServer
  <2>3. CASE /\ fd # BadFd /\ fd.pos < Len(file.data[fd.ino]) /\ ConnStep(c, "read", "send")
             /\ conn' = [conn EXCEPT ![c].data_fd.pos = @ + 1]
    <3>1. /\ cpc[c] = "read" /\ cpc' = [cpc EXCEPT ![c] = "send"]
          /\ UNCHANGED <<cancel, timers, handler, listening, timer, connections, item, hitem, freed>>
      BY <2>3 DEF ConnStep
    <3>2. fd.ino \in Inodes /\ fd.pos \in Nat
      BY <1>d, <2>3, <3>1 DEF DescriptorInv
    <3> DEFINE own == [conn[c] EXCEPT !.data_fd.pos = @ + 1]
    <3>3. conn' = [conn EXCEPT ![c] = own]
      BY <2>3, <1>t DEF ThreadType
    <3>4. own \in ConnRecord
      BY <1>t, <3>2 DEF ConnRecord
    <3>5. /\ own.data_fd.ino = fd.ino /\ own.data_fd.pos = fd.pos + 1 /\ own.fds = conn[c].fds
          /\ own.recvs = conn[c].recvs
      BY <1>t DEF ConnRecord
    <3> HIDE DEF own
    <3>6. fd.pos + 1 \in 1..Len(file.data[fd.ino]) /\ fd.pos + 1 \in Nat
      BY <1>n, <2>3, <3>2
    <3>7. DescriptorInv(file'.data, "send", own)
      BY <1>d, <2>1, <3>1, <3>2, <3>5, <3>6 DEF DescriptorInv
    <3> QED
      BY <1>t, <1>n, <1>l, <2>1, <3>1, <3>3, <3>4, <3>7, ThreadStepKeepsServer
  <2> QED
    BY <1>2, <2>2, <2>3 DEF ConnReads
<1>3. CASE ConnSends(c)
  <2>1. /\ cpc[c] = "send" /\ cpc' = [cpc EXCEPT ![c] = "read"] /\ mpc' = mpc /\ mutex' = mutex
        /\ file' = file
        /\ UNCHANGED <<cancel, timers, handler, listening, timer, connections, item, hitem, freed>>
    BY <1>3 DEF ConnSends, ConnStep
  <2> DEFINE cell == file.data[fd.ino][fd.pos]
             sent == Append(conn[c].sent, cell)
             own == [conn[c] EXCEPT !.sent = sent]
  <2>2. conn' = [conn EXCEPT ![c] = own]
    BY <1>3, <1>t DEF ConnSends, ThreadType
  <2>3. cell \in Lines
    BY <1>d, <1>n, <2>1, ElementOfSeq DEF DescriptorInv
  <2> HIDE DEF cell
  <2>4. sent \in Seq(Lines)
    BY <1>t, <2>3, AppendProperties DEF ConnRecord
  <2> HIDE DEF sent
  <2>5. own \in ConnRecord
    BY <1>t, <2>4 DEF ConnRecord
  <2>6. own.data_fd = fd /\ own.fds = conn[c].fds /\ own.recvs = conn[c].recvs
    BY <1>t DEF ConnRecord
  <2> HIDE DEF own
  <2>7. DescriptorInv(file'.data, "read", own)
    BY <1>d, <2>1, <2>6 DEF DescriptorInv
  <2> QED
    BY <1>t, <1>n, <1>l, <2>1, <2>2, <2>5, <2>7, ThreadStepKeepsServer
<1> QED
  BY <1>1, <1>2, <1>3

\* connection_cleanup closes data_fd, and a thread acts on its cancellation.
LEMMA ClosingKeepsServer ==
  ASSUME ServerInv, NEW c \in Conns, CloseData(c) \/ Cancelled(c)
  PROVE  ServerInv'
<1>t. /\ MainType /\ ThreadType /\ conn[c] \in ConnRecord /\ mutex \in MutexType
      /\ file \in FileType
  BY DEF ServerInv, ThreadType
<1>d. DescriptorInv(file.data, cpc[c], conn[c])
  BY DEF ServerInv
<1>n. \A i \in Inodes : Len(file.data[i]) >= Len(file.data[i])
  BY <1>t DEF FileType
<1>l. "release" \in ConnLabels /\ "close_client" \in ConnLabels /\ "done" \in ConnLabels
  BY DEF ConnLabels
<1>1. CASE CloseData(c)
  <2>1. /\ cpc[c] = "close_data" /\ cpc' = [cpc EXCEPT ![c] = "release"] /\ mpc' = mpc
        /\ mutex' = mutex /\ file' = file
        /\ UNCHANGED <<cancel, timers, handler, listening, timer, connections, item, hitem, freed>>
    BY <1>1 DEF CloseData, ConnStep
  <2> DEFINE n == IF conn[c].data_fd.ino = NULL THEN conn[c].fds ELSE conn[c].fds - 1
             own == [conn[c] EXCEPT !.fds = n]
  <2>2. conn' = [conn EXCEPT ![c] = own]
    BY <1>1, <1>t DEF CloseData, ThreadType
  <2>3. n \in Nat /\ n <= conn[c].recvs
    BY <1>t, <1>d, <2>1 DEF DescriptorInv, ConnRecord
  <2> HIDE DEF n
  <2>4. own \in ConnRecord
    BY <1>t, <2>3 DEF ConnRecord
  <2>5. own.data_fd = conn[c].data_fd /\ own.fds = n /\ own.recvs = conn[c].recvs
    BY <1>t DEF ConnRecord
  <2> HIDE DEF own
  <2>6. DescriptorInv(file'.data, "release", own)
    BY <1>d, <2>1, <2>3, <2>5 DEF DescriptorInv
  <2> QED
    BY <1>t, <1>n, <1>l, <2>1, <2>2, <2>4, <2>6, ThreadStepKeepsServer
<1>2. CASE Cancelled(c)
  <2>1. /\ mpc' = mpc /\ mutex' = mutex /\ file' = file
        /\ UNCHANGED <<cancel, timers, handler, listening, timer, connections, item, hitem, freed>>
    BY <1>2 DEF Cancelled, main, handler
  <2>2. CASE /\ cpc[c] \in {"recv", "open", "append", "read", "send"}
             /\ cpc' = [cpc EXCEPT ![c] = "close_client"]
             /\ conn' = [conn EXCEPT ![c].dying = TRUE]
    <3> DEFINE own == [conn[c] EXCEPT !.dying = TRUE]
    <3>1. conn' = [conn EXCEPT ![c] = own]
      BY <1>t, <2>2 DEF ThreadType
    <3>2. own \in ConnRecord
      BY <1>t DEF ConnRecord
    <3>3. own.data_fd = conn[c].data_fd /\ own.fds = conn[c].fds /\ own.recvs = conn[c].recvs
      BY <1>t DEF ConnRecord
    <3> HIDE DEF own
    <3>4. DescriptorInv(file'.data, "close_client", own)
      BY <1>d, <2>1, <2>2, <3>3 DEF DescriptorInv
    <3> QED
      BY <1>t, <1>n, <1>l, <2>1, <2>2, <3>1, <3>2, <3>4, ThreadStepKeepsServer
  <2>3. CASE /\ cpc[c] \in {"close_client", "close_data"}
             /\ cpc' = [cpc EXCEPT ![c] = "done"] /\ UNCHANGED conn
    <3>1. conn' = [conn EXCEPT ![c] = conn[c]]
      BY <1>t, <2>3 DEF ThreadType
    <3>2. DescriptorInv(file'.data, "done", conn[c])
      BY <1>d, <2>1, <2>3 DEF DescriptorInv
    <3> QED
      BY <1>t, <1>n, <1>l, <2>1, <2>3, <3>1, <3>2, ThreadStepKeepsServer
  <2> QED
    BY <1>2, <2>2, <2>3 DEF Cancelled
<1> QED
  BY <1>1, <1>2

\* The other steps of a connection thread, on the mutex and out of the loop.
LEMMA MovingKeepsServer ==
  ASSUME ServerInv, NEW c \in Conns,
         RecvEnds(c) \/ ConnLocks(c) \/ ConnObtains(c) \/ ConnSendFails(c) \/ ConnUnlocks(c)
           \/ CloseClient(c) \/ Release(c)
  PROVE  ServerInv'
<1>t. mutex \in MutexType
  BY DEF ServerInv, ThreadType
<1>m. /\ [mutex EXCEPT !.owner = c] \in MutexType
      /\ [mutex EXCEPT !.owner = NULL] \in MutexType
  BY <1>t DEF MutexType
<1>l. {"recv", "wait", "append", "close_client", "close_data", "done"} \subseteq ConnLabels
  BY DEF ConnLabels
<1> USE SameLocalsKeepServer, <1>t, <1>m, <1>l DEF Break
<1>1. CASE RecvEnds(c)
  BY <1>1 DEF RecvEnds
<1>2. CASE ConnLocks(c) \/ ConnObtains(c)
  BY <1>2 DEF ConnLocks, ConnObtains
<1>3. CASE ConnSendFails(c)
  BY <1>3 DEF ConnSendFails
<1>4. CASE ConnUnlocks(c)
  BY <1>4 DEF ConnUnlocks, Unlock
<1>5. CASE CloseClient(c)
  BY <1>5 DEF CloseClient
<1>6. CASE Release(c)
  <2>1. CASE mutex.owner = c
    BY <1>6, <2>1 DEF Release, Unlock
  <2>2. CASE mutex.owner # c
    BY <1>6, <2>2 DEF Release
  <2> QED
    BY <2>1, <2>2
<1> QED
  BY <1>1, <1>2, <1>3, <1>4, <1>5, <1>6

\* The timer threads.
LEMMA TimerKeepsServer ==
  ASSUME ServerInv, NEW k \in Expiries, TimerFires(k) \/ TimerRuns(k)
  PROVE  ServerInv'
<1>t. /\ MainType /\ ThreadType /\ mutex \in MutexType /\ file \in FileType
      /\ tpc \in [Expiries -> TimerLabels] /\ tfd \in [Expiries -> Inodes]
  BY DEF ServerInv, ThreadType
<1>1. /\ UNCHANGED <<main, threads>>
      /\ \E to \in TimerLabels : tpc' = [tpc EXCEPT ![k] = to]
  BY DEF TimerFires, TimerRuns, TimerLocks, TimerObtains, TimerOpens, TimerAppends, TimerUnlocks,
     TimerStep,
         TimerLabels
<1>2. tpc' \in [Expiries -> TimerLabels]
  BY <1>t, <1>1
<1>3. mutex' \in MutexType
  BY <1>t DEF TimerFires, TimerRuns, TimerLocks, TimerObtains, TimerOpens, TimerAppends,
     TimerUnlocks, Unlock, MutexType
<1>4. file.ino \in Inodes
  BY <1>t DEF FileType
<1>5. tfd' \in [Expiries -> Inodes]
  BY <1>t, <1>4 DEF TimerFires, TimerRuns, TimerLocks, TimerObtains, TimerOpens, TimerAppends,
     TimerUnlocks
<1>6. file' \in FileType /\ \A i \in Inodes : Len(file'.data[i]) >= Len(file.data[i])
  <2>1. CASE OpenDatafile \/ UNCHANGED file
    <3>1. file' \in FileType /\ file'.data = file.data
      BY <1>t, <2>1, FileKept
    <3> QED
      BY <1>t, <3>1 DEF FileType
  <2>2. CASE Write(Fd(tfd[k], Len(file.data[tfd[k]])), <<k, 1>>)
    <3> DEFINE fd == Fd(tfd[k], Len(file.data[tfd[k]]))
    <3>1. tfd[k] \in Inodes /\ fd.ino = tfd[k] /\ fd.pos \in Nat /\ <<k, 1>> \in Lines
      BY <1>t DEF Fd, FileType, Lines
    <3> HIDE DEF fd
    <3> QED
      BY <1>t, <2>2, <3>1, WriteKeepsFile DEF fd
  <2> QED
    BY <2>1, <2>2
       DEF TimerFires, TimerRuns, TimerLocks, TimerObtains, TimerOpens, TimerAppends, TimerUnlocks
<1>7. MainType' /\ ThreadType' /\ CreateInv'
  BY <1>t, <1>1, <1>2, <1>3, <1>5, <1>6
     DEF ServerInv, MainType, ThreadType, CreateInv, main, handler, threads
<1>8. ASSUME NEW c \in Conns PROVE DescriptorInv(file'.data, cpc'[c], conn'[c])
  <2>1. DescriptorInv(file.data, cpc[c], conn[c]) /\ cpc' = cpc /\ conn' = conn
    BY <1>1 DEF ServerInv, threads
  <2>2. \A i \in Inodes : Len(file'.data[i]) \in Nat /\ Len(file.data[i]) \in Nat
    BY <1>t, <1>6 DEF FileType
  <2>3. conn[c].data_fd.pos \in Int
    BY <1>t DEF ThreadType, ConnRecord
  <2>4. cpc[c] = "send" => conn[c].data_fd.pos \in 1..Len(file'.data[conn[c].data_fd.ino])
    BY <1>6, <2>1, <2>2, <2>3 DEF DescriptorInv
  <2> QED
    BY <2>1, <2>4 DEF DescriptorInv
<1> QED
  BY <1>7, <1>8 DEF ServerInv

\* Every step keeps the types and the descriptors.
LEMMA NextServer == ServerInv /\ [Next]_vars => ServerInv'
<1> SUFFICES ASSUME ServerInv, [Next]_vars PROVE ServerInv'
  OBVIOUS
<1>1. CASE UNCHANGED vars
  BY <1>1 DEF vars, main, handler, threads, timers, ServerInv, MainType, ThreadType, CreateInv
<1>2. ASSUME NEW c \in Conns, ConnRuns(c) \/ ConnWaits(c) PROVE ServerInv'
  BY <1>2, ReceivingKeepsServer, SeekEndKeepsServer, AnsweringKeepsServer, ClosingKeepsServer,
     MovingKeepsServer DEF ConnRuns, ConnWaits
<1>3. CASE Idle
  BY <1>1, <1>3 DEF Idle
<1>4. CASE MainRuns \/ MainAccepts \/ Signal \/ HandlerRuns
  BY <1>4, MainKeepsServer, HandlerKeepsServer
<1>5. ASSUME NEW k \in Expiries, TimerFires(k) \/ TimerRuns(k) PROVE ServerInv'
  BY <1>5, TimerKeepsServer
<1> QED
  BY <1>1, <1>2, <1>3, <1>4, <1>5 DEF Next

\* The types and the descriptors of every behaviour.
THEOREM ServerInvariant == Spec => []ServerInv
BY InitServer, NextServer, PTL DEF Spec

(***************************************************************************)
(* The server keeps its types: at most one descriptor of the data file is  *)
(* open per recv(), none is closed that is not open, and what is sent are  *)
(* lines of the file.                                                      *)
(***************************************************************************)
THEOREM ServerTypeOK == Spec => []TypeOK
<1>1. ServerInv => TypeOK
  <2> SUFFICES ASSUME ServerInv PROVE TypeOK
    OBVIOUS
  <2>t. MainType /\ ThreadType
    BY DEF ServerInv
  <2>1. ASSUME NEW c \in Conns
        PROVE  /\ conn[c].data_fd.ino \in Inodes \cup {NULL}
               /\ conn[c].fds \in 0..MaxRecv /\ conn[c].recvs \in 0..MaxRecv
               /\ conn[c].sent \in Seq(Lines)
    <3>1. conn[c] \in ConnRecord /\ conn[c].fds <= conn[c].recvs
      BY <2>t DEF ServerInv, DescriptorInv, ThreadType
    <3> QED
      BY <3>1, ServerAssumption DEF ConnRecord
  <2>2. mutex.owner \in Conns \cup Expiries \cup {NULL} /\ mutex.up \in BOOLEAN
    BY <2>t DEF ThreadType, MutexType
  <2>3. file.ino \in Inodes /\ \A i \in Inodes : file.data[i] \in Seq(Lines)
    BY <2>t DEF ThreadType, FileType
  <2> QED
    BY <2>t, <2>1, <2>2, <2>3 DEF TypeOK, MainType, ThreadType, HandlerLabels
<1> QED
  BY <1>1, ServerInvariant, PTL

-----------------------------------------------------------------------------
(* The mutex *)

\* Main and the handler: no thread that works on the file loses the mutex.
LEMMA MainKeepsLock ==
  ASSUME ServerInv, LockInv, MainRuns \/ MainAccepts \/ Signal \/ HandlerRuns
  PROVE  LockInv'
<1> USE DEF handler, threads, timers, LockInv, MutexGuardsFile
<1>t. cpc \in [Conns -> ConnLabels] /\ mutex \in MutexType
  BY DEF ServerInv, ThreadType
<1>1. CASE StartServer
  BY <1>1 DEF StartServer, MakeDaemonFails, MainAt
<1>2. CASE RegisterSighandlers \/ MainOpensFile \/ MainLoop
  BY <1>2 DEF RegisterSighandlers, MainOpensFile, MainLoop, MainAt
<1>3. CASE MainInit \/ MainCreatesTimer
  BY <1>3 DEF MainInit, MainCreatesTimer, MainAt
<1>4. CASE InsertConn \/ TryJoin
  BY <1>4 DEF InsertConn, TryJoin, MainAt
<1>5. CASE AcceptFails \/ \E c \in Conns : Accept(c)
  BY <1>5 DEF Accept, AcceptFails, MainAt
<1>6. CASE CreateThread \/ CreateFails
  BY <1>6, <1>t DEF CreateThread, CreateFails, MainAt
<1>7. CASE Signal
  BY <1>7 DEF Signal
<1>8. CASE HandlerShutsDown
  BY <1>8 DEF HandlerShutsDown
<1>9. CASE HandlerCancels
  BY <1>9 DEF HandlerCancels
<1>10. CASE HandlerJoins \/ HandlerRemovesFile
  BY <1>10 DEF HandlerJoins, HandlerRemovesFile
<1>11. CASE HandlerDestroysMutex
  <2>1. mutex'.owner = mutex.owner
    BY <1>11, <1>t DEF HandlerDestroysMutex, MutexType
  <2> QED
    BY <1>11, <2>1 DEF HandlerDestroysMutex
<1> QED
  BY <1>1, <1>2, <1>3, <1>4, <1>5, <1>6, <1>7, <1>8, <1>9, <1>10, <1>11
     DEF MainRuns, MainAccepts, HandlerRuns

\* A connection thread takes the mutex before it works on the file.
LEMMA ConnKeepsLock ==
  ASSUME ServerInv, LockInv, NEW c \in Conns, ConnRuns(c) \/ ConnWaits(c)
  PROVE  LockInv'
<1> USE DEF handler, timers, LockInv, MutexGuardsFile
<1>t. cpc \in [Conns -> ConnLabels] /\ mutex \in MutexType
  BY DEF ServerInv, ThreadType
<1>n. NULL \notin Conns /\ NULL \notin Expiries /\ Conns \cap Expiries = {}
  BY ServerAssumption
<1>0. cpc[c] \notin {"none", "refused", "done"}
  BY DEF ConnRuns, ConnWaits, ConnOpens, SeekEnd, ConnLocks, ConnObtains, ConnAppends, ConnReads,
     ConnUnlocks,
         CloseClient, CloseData, Release, Cancelled, Recv, RecvEnds, ConnSends, ConnSendFails,
         ConnStep, Break
<1>1. CASE Recv(c) \/ RecvEnds(c) \/ ConnOpens(c) \/ SeekEnd(c)
  BY <1>0, <1>1, <1>t DEF Recv, RecvEnds, ConnOpens, SeekEnd, ConnStep, Break
<1>2. CASE ConnLocks(c)
  BY <1>0, <1>2, <1>t DEF ConnLocks, ConnStep, Break
<1>3. CASE ConnObtains(c)
  <2>1. mutex.owner = NULL /\ mutex'.owner = c
    BY <1>3, <1>t DEF ConnObtains, MutexType
  <2> QED
    BY <1>0, <1>3, <1>n, <1>t, <2>1 DEF ConnObtains, ConnStep
<1>4. CASE ConnAppends(c) \/ ConnReads(c) \/ ConnSends(c) \/ ConnSendFails(c)
  BY <1>0, <1>4, <1>t DEF ConnAppends, ConnReads, ConnSends, ConnSendFails, ConnStep, Break
<1>5. CASE ConnUnlocks(c)
  <2>1. mutex.owner = c /\ mutex'.owner \in {NULL, c}
    BY <1>5, <1>t DEF ConnUnlocks, ConnStep, Unlock, MutexType
  <2> QED
    BY <1>0, <1>5, <1>n, <1>t, <2>1 DEF ConnUnlocks, ConnStep, Break
<1>6. CASE CloseClient(c) \/ CloseData(c)
  BY <1>0, <1>6, <1>t DEF CloseClient, CloseData, ConnStep
<1>7. CASE Release(c)
  <2>1. mutex'.owner = mutex.owner \/ (mutex.owner = c /\ mutex'.owner = NULL)
    BY <1>7, <1>t DEF Release, Unlock, MutexType
  <2> QED
    BY <1>0, <1>7, <1>n, <1>t, <2>1 DEF Release, ConnStep
<1>8. CASE Cancelled(c)
  BY <1>0, <1>8, <1>t DEF Cancelled, main
<1> QED
  BY <1>1, <1>2, <1>3, <1>4, <1>5, <1>6, <1>7, <1>8 DEF ConnRuns, ConnWaits

\* So does a timer thread.
LEMMA TimerKeepsLock ==
  ASSUME ServerInv, LockInv, NEW k \in Expiries, TimerFires(k) \/ TimerRuns(k)
  PROVE  LockInv'
<1> USE DEF main, threads, LockInv, MutexGuardsFile, TimerStep
<1>t. tpc \in [Expiries -> TimerLabels] /\ mutex \in MutexType
  BY DEF ServerInv, ThreadType
<1>n. NULL \notin Conns /\ NULL \notin Expiries /\ Conns \cap Expiries = {}
  BY ServerAssumption
<1>1. CASE TimerFires(k)
  BY <1>1, <1>t DEF TimerFires
<1>2. CASE TimerLocks(k)
  BY <1>2, <1>t DEF TimerLocks
<1>3. CASE TimerObtains(k)
  <2>1. mutex.owner = NULL /\ mutex'.owner = k
    BY <1>3, <1>t DEF TimerObtains, MutexType
  <2> QED
    BY <1>3, <2>1, <1>t, <1>n DEF TimerObtains
<1>4. CASE TimerOpens(k) \/ TimerAppends(k)
  BY <1>4, <1>t DEF TimerOpens, TimerAppends
<1>5. CASE TimerUnlocks(k)
  <2>1. mutex.owner = k /\ mutex'.owner \in {NULL, k}
    BY <1>5, <1>t DEF TimerUnlocks, Unlock, MutexType
  <2> QED
    BY <1>5, <2>1, <1>t, <1>n DEF TimerUnlocks
<1> QED
  BY <1>1, <1>2, <1>3, <1>4, <1>5 DEF TimerRuns

\* Every step keeps the mutex where it belongs.
LEMMA NextLock == ServerInv /\ LockInv /\ [Next]_vars => LockInv'
<1> SUFFICES ASSUME ServerInv, LockInv, [Next]_vars PROVE LockInv'
  OBVIOUS
<1>1. CASE UNCHANGED vars
  BY <1>1 DEF vars, main, threads, timers, LockInv, MutexGuardsFile
<1> QED
  BY <1>1, MainKeepsLock, ConnKeepsLock, TimerKeepsLock DEF Next, Idle

LEMMA InitLock == Init => LockInv
BY DEF Init, LockInv, MutexGuardsFile

\* Types and mutex of every behaviour.
THEOREM ServerLocks == Spec => [](ServerInv /\ LockInv)
BY InitServer, NextServer, InitLock, NextLock, PTL DEF Spec

(***************************************************************************)
(* The data file is written and read back only under the mutex, wherever   *)
(* threads are cancelled and whatever calls fail.                          *)
(***************************************************************************)
THEOREM ServerMutexGuardsFile == Spec => []MutexGuardsFile
<1>1. LockInv => MutexGuardsFile
  BY DEF LockInv
<1> QED
  BY <1>1, ServerLocks, PTL

-----------------------------------------------------------------------------
(* What is freed, and what is answered *)

\* A thread that ended takes no further step.
LEMMA EndedStays ==
  ASSUME ServerInv, [Next]_vars, NEW c \in Conns, cpc[c] \in {"done", "refused"}
  PROVE  cpc'[c] = cpc[c]
<1>t. cpc \in [Conns -> ConnLabels] /\ CreateInv
  BY DEF ServerInv, ThreadType
<1>1. CASE (MainRuns /\ ~CreateThread) \/ Signal \/ HandlerRuns \/ Idle
  BY <1>1 DEF MainRuns, HandlerRuns, StartServer, RegisterSighandlers, MainOpensFile, MainInit,
     MainCreatesTimer, MainLoop, InsertConn, TryJoin, Signal, HandlerShutsDown, HandlerCancels,
     HandlerJoins, HandlerDestroysMutex, HandlerRemovesFile, threads, Idle, vars
<1>2. CASE MainAccepts \/ CreateThread
  BY <1>2, <1>t
     DEF MainAccepts, AcceptFails, Accept, CreateThread, CreateFails, CreateInv, MainAt, threads
<1>3. ASSUME NEW d \in Conns, ConnRuns(d) \/ ConnWaits(d) PROVE cpc'[c] = cpc[c]
  <2>1. cpc[d] \notin {"none", "refused", "done"}
    BY <1>3 DEF ConnRuns, ConnWaits, ConnOpens, SeekEnd, ConnLocks, ConnObtains, ConnAppends,
       ConnReads,
       ConnUnlocks, CloseClient, CloseData, Release, Cancelled, Recv, RecvEnds, ConnSends,
       ConnSendFails, ConnStep, Break
  <2>2. \E to : cpc' = [cpc EXCEPT ![d] = to]
    BY <1>3 DEF ConnRuns, ConnWaits, ConnOpens, SeekEnd, ConnLocks, ConnObtains, ConnAppends,
       ConnReads,
       ConnUnlocks, CloseClient, CloseData, Release, Cancelled, Recv, RecvEnds, ConnSends,
       ConnSendFails, ConnStep, Break
  <2> QED
    BY <1>t, <2>1, <2>2
<1>4. ASSUME NEW k \in Expiries, TimerFires(k) \/ TimerRuns(k) PROVE cpc'[c] = cpc[c]
  BY <1>4 DEF TimerFires, TimerRuns, TimerLocks, TimerObtains, TimerOpens, TimerAppends,
     TimerUnlocks,
     TimerStep, threads
<1>5. CASE UNCHANGED vars
  BY <1>5 DEF vars, threads
<1> QED
  BY <1>1, <1>2, <1>3, <1>4, <1>5 DEF Next

\* What a step frees belongs to a thread that ended or was never created.
LEMMA FreesEnded ==
  ASSUME ServerInv, [Next]_vars, NEW c \in freed', c \notin freed
  PROVE  c \in Conns /\ (cpc[c] = "done" \/ cpc'[c] = "refused")
<1>t. /\ cpc \in [Conns -> ConnLabels] /\ item \in Conns \cup {NULL} /\ hitem \in Conns \cup {NULL}
      /\ mpc = "create" => item \in Conns
  BY DEF ServerInv, ThreadType, MainType
<1>1. CASE StartServer \/ RegisterSighandlers \/ MainOpensFile \/ MainInit \/ MainCreatesTimer
             \/ MainLoop \/ CreateThread \/ InsertConn
  BY <1>1 DEF StartServer, RegisterSighandlers, MainOpensFile, MainInit, MainCreatesTimer, MainLoop,
     CreateThread, InsertConn
<1>2. CASE TryJoin
  BY <1>2, <1>t DEF TryJoin
<1>3. CASE MainAccepts
  BY <1>3, <1>t DEF MainAccepts, AcceptFails, Accept, CreateFails, MainAt
<1>4. CASE Signal \/ HandlerShutsDown \/ HandlerCancels \/ HandlerDestroysMutex \/ HandlerRemovesFile
  BY <1>4 DEF Signal, HandlerShutsDown, HandlerCancels, HandlerDestroysMutex, HandlerRemovesFile
<1>5. CASE HandlerJoins
  BY <1>5, <1>t DEF HandlerJoins
<1>6. ASSUME NEW d \in Conns, ConnRuns(d) \/ ConnWaits(d) PROVE freed' = freed
  BY <1>6 DEF ConnRuns, ConnWaits, ConnOpens, SeekEnd, ConnLocks, ConnObtains, ConnAppends,
     ConnReads,
     ConnUnlocks, CloseClient, CloseData, Release, Cancelled, Recv, RecvEnds, ConnSends,
     ConnSendFails, ConnStep, main
<1>7. ASSUME NEW k \in Expiries, TimerFires(k) \/ TimerRuns(k) PROVE freed' = freed
  BY <1>7 DEF TimerFires, TimerRuns, TimerLocks, TimerObtains, TimerOpens, TimerAppends,
     TimerUnlocks,
     TimerStep, main
<1>8. CASE UNCHANGED vars
  BY <1>8 DEF vars, main
<1> QED
  BY <1>1, <1>2, <1>3, <1>4, <1>5, <1>6, <1>7, <1>8 DEF Next, MainRuns, HandlerRuns, Idle

(***************************************************************************)
(* cleanup_term_conn and accept_conn free the argument block of no thread  *)
(* that may still use it.                                                  *)
(***************************************************************************)
THEOREM ServerFreesAfterUse == Spec => []FreedAfterUse
<1>1. Init => FreedAfterUse
  BY DEF Init, FreedAfterUse
<1>2. ServerInv /\ FreedAfterUse /\ [Next]_vars => FreedAfterUse'
  <2> SUFFICES ASSUME ServerInv, FreedAfterUse, [Next]_vars, NEW c \in freed'
               PROVE  cpc'[c] \in {"done", "refused"}
    BY DEF FreedAfterUse
  <2>1. CASE c \in freed
    BY <2>1, EndedStays DEF FreedAfterUse, ServerInv, MainType
  <2>2. CASE c \notin freed
    BY <2>2, FreesEnded, EndedStays
  <2> QED
    BY <2>1, <2>2
<1> QED
  BY <1>1, <1>2, ServerInvariant, PTL DEF Spec

(***************************************************************************)
(* A thread that answers is left alone: while it has the mutex no other    *)
(* thread writes to the file, and only its own steps change its locals.    *)
(***************************************************************************)
LEMMA AnswersAlone ==
  ASSUME ServerInv, LockInv, [Next]_vars, NEW c \in Conns,
         cpc'[c] \in {"read", "send", "unlock"}
  PROVE  \/ cpc'[c] = cpc[c] /\ conn'[c] = conn[c] /\ file'.data = file.data
         \/ ConnAppends(c) \/ ConnReads(c) \/ ConnSends(c)
<1> DEFINE Goal == \/ cpc'[c] = cpc[c] /\ conn'[c] = conn[c] /\ file'.data = file.data
                   \/ ConnAppends(c) \/ ConnReads(c) \/ ConnSends(c)
<1>t. cpc \in [Conns -> ConnLabels] /\ conn \in [Conns -> ConnRecord] /\ file \in FileType
  BY DEF ServerInv, ThreadType
<1>n. Conns \cap Expiries = {}
  BY ServerAssumption
<1>1. CASE (MainRuns /\ ~CreateThread) \/ Signal \/ HandlerRuns \/ Idle \/ UNCHANGED vars
  <2>1. cpc' = cpc /\ conn' = conn
    BY <1>1 DEF MainRuns, HandlerRuns, StartServer, RegisterSighandlers, MainOpensFile, MainInit,
       MainCreatesTimer,
       MainLoop, InsertConn, TryJoin, Signal, HandlerShutsDown, HandlerCancels, HandlerJoins,
       HandlerDestroysMutex, HandlerRemovesFile, threads, Idle, vars
  <2>2. OpenDatafile \/ DestroyDatafile \/ UNCHANGED file
    BY <1>1 DEF MainRuns, HandlerRuns, StartServer, MakeDaemonFails, RegisterSighandlers,
       MainOpensFile, MainInit, MainCreatesTimer, MainLoop, InsertConn, TryJoin, Signal,
       HandlerShutsDown,
       HandlerCancels, HandlerJoins, HandlerDestroysMutex, HandlerRemovesFile, Idle, vars
  <2> QED
    BY <1>t, <2>1, <2>2, FileKept
<1>2. CASE MainAccepts \/ CreateThread
  BY <1>2, <1>t DEF MainAccepts, AcceptFails, Accept, CreateThread, CreateFails, threads
<1>3. ASSUME NEW d \in Conns, ConnRuns(d) \/ ConnWaits(d) PROVE Goal
  <2>1. CASE d = c
    <3>1. Recv(c) \/ RecvEnds(c) \/ ConnOpens(c) \/ SeekEnd(c) \/ ConnLocks(c) \/ ConnObtains(c)
            \/ ConnSendFails(c)
            \/ ConnUnlocks(c) \/ CloseClient(c) \/ CloseData(c) \/ Release(c) \/ Cancelled(c)
          => cpc'[c] \notin {"read", "send", "unlock"}
      BY <1>t DEF Recv, RecvEnds, ConnOpens, SeekEnd, ConnLocks, ConnObtains, ConnSendFails,
         ConnUnlocks,
         CloseClient, CloseData, Release, Cancelled, ConnStep, Break
    <3> QED
      BY <1>3, <2>1, <3>1 DEF ConnRuns, ConnWaits
  <2>2. CASE d # c
    <3>1. cpc'[c] = cpc[c]
      <4>1. \E to : cpc' = [cpc EXCEPT ![d] = to]
        BY <1>3 DEF ConnRuns, ConnWaits, ConnOpens, SeekEnd, ConnLocks, ConnObtains, ConnAppends,
           ConnReads,
           ConnUnlocks, CloseClient, CloseData, Release, Cancelled, Recv, RecvEnds, ConnSends,
           ConnSendFails, ConnStep, Break
      <4> QED
        BY <1>t, <2>2, <4>1
    <3>2. conn'[c] = conn[c]
      BY <1>3, <1>t, <2>2 DEF ConnRuns, ConnWaits, ConnOpens, SeekEnd, ConnLocks, ConnObtains,
         ConnAppends,
         ConnReads, ConnUnlocks, CloseClient, CloseData, Release, Cancelled, Recv, RecvEnds,
         ConnSends, ConnSendFails
    <3>3. mutex.owner = c
      BY <3>1 DEF LockInv, MutexGuardsFile
    <3>4. ~ConnAppends(d)
      BY <2>2, <3>3 DEF ConnAppends, ConnStep, LockInv, MutexGuardsFile
    <3>5. OpenDatafile \/ UNCHANGED file
      BY <1>3, <3>4 DEF ConnRuns, ConnWaits, ConnOpens, SeekEnd, ConnLocks, ConnObtains, ConnReads,
         ConnUnlocks,
         CloseClient, CloseData, Release, Cancelled, Recv, RecvEnds, ConnSends, ConnSendFails
    <3> QED
      BY <1>t, <3>1, <3>2, <3>5, FileKept
  <2> QED
    BY <2>1, <2>2
<1>4. ASSUME NEW k \in Expiries, TimerFires(k) \/ TimerRuns(k) PROVE Goal
  <2>1. cpc' = cpc /\ conn' = conn
    BY <1>4 DEF TimerFires, TimerRuns, TimerLocks, TimerObtains, TimerOpens, TimerAppends,
       TimerUnlocks,
       TimerStep, threads
  <2>2. mutex.owner = c
    BY <2>1 DEF LockInv, MutexGuardsFile
  <2>3. ~TimerAppends(k)
    BY <2>2, <1>n DEF TimerAppends, TimerStep, LockInv, MutexGuardsFile
  <2>4. OpenDatafile \/ UNCHANGED file
    BY <1>4, <2>3 DEF TimerFires, TimerRuns, TimerLocks, TimerObtains, TimerOpens, TimerUnlocks
  <2> QED
    BY <1>t, <2>1, <2>4, FileKept
<1> QED
  BY <1>1, <1>2, <1>3, <1>4 DEF Next

\* The answer so far, after each of the thread's own steps.
LEMMA AnswerGrows ==
  ASSUME ServerInv, LockInv, ReplyInv, NEW c \in Conns,
         ConnAppends(c) \/ ConnReads(c) \/ ConnSends(c)
  PROVE  Answered(c, file'.data, cpc'[c], conn'[c])
<1> DEFINE fd == conn[c].data_fd
           d == file.data[fd.ino]
<1>t. /\ cpc \in [Conns -> ConnLabels] /\ conn \in [Conns -> ConnRecord] /\ file \in FileType
      /\ conn[c] \in ConnRecord
  BY DEF ServerInv, ThreadType
<1>d. DescriptorInv(file.data, cpc[c], conn[c]) /\ Answered(c, file.data, cpc[c], conn[c])
  BY DEF ServerInv, ReplyInv
<1>s. fd.ino \in Inodes => d \in Seq(Lines) /\ Len(d) \in Nat
  BY <1>t DEF FileType
<1>1. CASE ConnAppends(c)
  <2>1. /\ cpc[c] = "append" /\ cpc'[c] = "read"
        /\ conn'[c].sent = << >> /\ conn'[c].recvs = conn[c].recvs
        /\ conn'[c].data_fd = [fd EXCEPT !.pos = IF fd = BadFd THEN @ ELSE 0]
    BY <1>1, <1>t DEF ConnAppends, ConnStep, ConnRecord
  <2>2. CASE fd = BadFd
    <3>1. conn'[c].data_fd = BadFd
      BY <2>1, <2>2 DEF BadFd
    <3> QED
      BY <3>1 DEF Answered
  <2>3. CASE fd # BadFd
    <3>1. fd.ino \in Inodes /\ fd.pos \in Nat /\ <<c, conn[c].recvs>> \in Lines
      BY <1>d, <1>t, <2>1, <2>3 DEF DescriptorInv, ConnRecord, Lines
    <3>2. conn'[c].data_fd.ino = fd.ino /\ conn'[c].data_fd.pos = 0
      BY <1>t, <2>1, <2>3 DEF ConnRecord
    <3>3. ~May("write") => Contains(file'.data[fd.ino], <<c, conn[c].recvs>>)
      <4> SUFFICES ASSUME ~May("write")
                   PROVE  Contains(file'.data[fd.ino], <<c, conn[c].recvs>>)
        OBVIOUS
      <4>1. Write(fd, <<c, conn[c].recvs>>)
        BY <1>1, <2>3 DEF ConnAppends
      <4>2. file'.data[fd.ino] = Written(fd, <<c, conn[c].recvs>>)
        BY <1>t, <3>1, <4>1, WriteKeepsFile
      <4>3. Contains(Written(fd, <<c, conn[c].recvs>>), <<c, conn[c].recvs>>)
        BY <1>s, <3>1, WrittenProperties
      <4> QED
        BY <4>2, <4>3
    <3>4. file'.data[fd.ino] \in Seq(Lines)
      <4>1. CASE Write(fd, <<c, conn[c].recvs>>)
        BY <1>t, <3>1, <4>1, WriteKeepsFile DEF FileType
      <4>2. CASE UNCHANGED file
        BY <1>s, <3>1, <4>2
      <4> QED
        BY <1>1, <4>1, <4>2 DEF ConnAppends
    <3>5. 0 \in 0..Len(file'.data[fd.ino]) /\ << >> = SubSeq(file'.data[fd.ino], 1, 0)
      BY <3>4, LenProperties, SubSeqEmpty
    <3> QED
      BY <2>1, <3>2, <3>3, <3>5 DEF Answered
  <2> QED
    BY <2>2, <2>3
<1>2. CASE ConnReads(c)
  <2>1. cpc[c] = "read" /\ file' = file
    BY <1>2 DEF ConnReads
  <2>2. CASE /\ fd # BadFd /\ fd.pos < Len(d) /\ ConnStep(c, "read", "send")
             /\ conn' = [conn EXCEPT ![c].data_fd.pos = @ + 1]
    <3>1. /\ cpc'[c] = "send" /\ conn'[c].sent = conn[c].sent /\ conn'[c].recvs = conn[c].recvs
          /\ conn'[c].data_fd.ino = fd.ino /\ conn'[c].data_fd.pos = fd.pos + 1
      BY <2>2, <1>t DEF ConnStep, ConnRecord
    <3>2. fd.pos \in Nat
      BY <1>d, <2>1, <2>2 DEF DescriptorInv
    <3>3. (fd.pos + 1) - 1 = fd.pos
      BY <3>2
    <3> QED
      BY <1>d, <2>1, <2>2, <3>1, <3>3 DEF Answered
  <2>3. CASE /\ ~(fd # BadFd /\ fd.pos < Len(d))
             /\ ConnStep(c, "read", "unlock") /\ UNCHANGED conn
    <3>1. cpc'[c] = "unlock" /\ conn' = conn
      BY <2>3, <1>t DEF ConnStep
    <3>2. fd # BadFd => conn[c].sent = d
      <4> SUFFICES ASSUME fd # BadFd PROVE conn[c].sent = d
        OBVIOUS
      <4>1. fd.ino \in Inodes
        BY <1>d, <2>1 DEF DescriptorInv
      <4>2. fd.pos \in 0..Len(d) /\ conn[c].sent = SubSeq(d, 1, fd.pos)
        BY <1>d, <2>1 DEF Answered
      <4>3. fd.pos = Len(d)
        BY <1>s, <2>3, <4>1, <4>2
      <4> QED
        BY <1>s, <4>1, <4>2, <4>3, SubSeqFull
    <3> QED
      BY <1>d, <2>1, <3>1, <3>2 DEF Answered
  <2> QED
    BY <1>2, <2>2, <2>3 DEF ConnReads
<1>3. CASE ConnSends(c)
  <2>1. /\ cpc[c] = "send" /\ cpc'[c] = "read" /\ file' = file
        /\ conn'[c].sent = Append(conn[c].sent, d[fd.pos])
        /\ conn'[c].recvs = conn[c].recvs /\ conn'[c].data_fd = fd
    BY <1>3, <1>t DEF ConnSends, ConnStep, ConnRecord
  <2>2. fd.ino \in Inodes /\ fd.pos \in 1..Len(d)
    BY <1>d, <2>1 DEF DescriptorInv
  <2>3. fd # BadFd
    BY <2>2, ServerAssumption DEF BadFd, Inodes
  <2>4. conn[c].sent = SubSeq(d, 1, fd.pos - 1)
    <3>1. cpc[c] = "send"
      BY <2>1, SMTT(30)
    <3> QED
      BY <1>d, <2>3, <3>1 DEF Answered
  <2>5. Append(conn[c].sent, d[fd.pos]) = SubSeq(d, 1, fd.pos)
    <3> DEFINE e == d n == fd.pos
    <3>1. e \in Seq(Lines) /\ n \in 1..Len(e) /\ 1 \in 1..Len(e)
      BY <1>s, <2>2
    <3> HIDE DEF e, n
    <3>2. SubSeq(e, 1, n) = SubSeq(e, 1, n - 1) \o <<e[n]>>
      BY <3>1, SubSeqRecursiveSecond
    <3>3. e[n] \in Lines
      BY <3>1, ElementOfSeq
    <3>4. SubSeq(e, 1, n - 1) \in Seq(Lines)
      <4>1. \A i \in 1..(n - 1) : i \in 1..Len(e)
        BY <3>1, LenProperties
      <4> QED
        BY <3>1, <4>1, ElementOfSeq, SubSeqProperties
    <3>5. Append(SubSeq(e, 1, n - 1), e[n]) = SubSeq(e, 1, n - 1) \o <<e[n]>>
      BY <3>3, <3>4, AppendIsConcat
    <3> QED
      BY <2>4, <3>2, <3>5 DEF e, n
  <2>6. fd.pos \in 0..Len(d)
    BY <1>s, <2>2
  <2> QED
    BY <1>d, <2>1, <2>3, <2>5, <2>6 DEF Answered
<1> QED
  BY <1>1, <1>2, <1>3

(***************************************************************************)
(* The answer to a line is a snapshot of the whole data file with the line *)
(* in it, for any interleaving of threads, timers and signals.             *)
(***************************************************************************)
THEOREM ServerReplyIsSnapshot == Spec => []ReplyIsSnapshot
<1>1. Init => ReplyInv
  BY DEF Init, ReplyInv, Answered
<1>2. ServerInv /\ LockInv /\ ReplyInv /\ [Next]_vars => ReplyInv'
  <2> SUFFICES ASSUME ServerInv, LockInv, ReplyInv, [Next]_vars, NEW c \in Conns
               PROVE  Answered(c, file'.data, cpc'[c], conn'[c])
    BY DEF ReplyInv
  <2>1. CASE cpc'[c] \notin {"read", "send", "unlock"}
    BY <2>1 DEF Answered
  <2>2. CASE cpc'[c] \in {"read", "send", "unlock"}
    BY <2>2, AnswersAlone, AnswerGrows DEF ReplyInv
  <2> QED
    BY <2>1, <2>2
<1>3. ReplyInv => ReplyIsSnapshot
  BY DEF ReplyInv, Answered, ReplyIsSnapshot
<1> QED
  BY <1>1, <1>2, <1>3, ServerLocks, PTL DEF Spec

-----------------------------------------------------------------------------
(* Every owner releases the mutex *)

\* Main and the handler.
LEMMA MainKeepsOwner ==
  ASSUME ServerInv, LockInv, OwnerInv, MainRuns \/ MainAccepts \/ Signal \/ HandlerRuns
  PROVE  OwnerInv'
<1> USE DEF handler, threads, timers, OwnerInv, Releasing
<1>t. cpc \in [Conns -> ConnLabels] /\ mutex \in MutexType
  BY DEF ServerInv, ThreadType
<1>n. NULL \notin Conns /\ NULL \notin Expiries
  BY ServerAssumption
<1>a. Alive' => Alive
  BY DEF Alive, MainRuns, MainAccepts, StartServer, RegisterSighandlers, MainOpensFile, MainInit,
     MainCreatesTimer, MainLoop, CreateThread, InsertConn, TryJoin, Accept, AcceptFails, CreateFails,
     Signal, HandlerRuns, HandlerShutsDown, HandlerCancels, HandlerJoins, HandlerDestroysMutex,
     HandlerRemovesFile, MainAt
<1>1. CASE StartServer \/ RegisterSighandlers \/ MainOpensFile \/ MainCreatesTimer \/ MainLoop
             \/ InsertConn \/ TryJoin
  BY <1>1, <1>a DEF StartServer, RegisterSighandlers, MainOpensFile, MainCreatesTimer, MainLoop,
     InsertConn, TryJoin
<1>2. CASE MainInit
  BY <1>2, <1>n DEF MainInit
<1>3. CASE AcceptFails \/ \E c \in Conns : Accept(c)
  BY <1>3, <1>a DEF Accept, AcceptFails
<1>4. CASE CreateThread \/ CreateFails
  <2>1. cpc[item] = "none" /\ \A c \in Conns : cpc[c] # "none" => cpc'[c] = cpc[c]
    BY <1>4, <1>t DEF CreateThread, CreateFails, MainAt, ServerInv, CreateInv
  <2> QED
    BY <1>4, <1>a, <2>1 DEF CreateThread, CreateFails
<1>5. CASE Signal
  BY <1>5, <1>a DEF Signal
<1>6. CASE HandlerShutsDown \/ HandlerJoins \/ HandlerRemovesFile
  BY <1>6, <1>a DEF HandlerShutsDown, HandlerJoins, HandlerRemovesFile, HandlerAt
<1>7. CASE HandlerCancels
  BY <1>7, <1>a DEF HandlerCancels, HandlerAt
<1>8. CASE HandlerDestroysMutex
  <2>1. mutex'.owner = mutex.owner /\ (mutex'.up => mutex.up)
    BY <1>8, <1>t DEF HandlerDestroysMutex, MutexType
  <2> QED
    BY <1>8, <1>a, <2>1 DEF HandlerDestroysMutex, HandlerAt
<1> QED
  BY <1>1, <1>2, <1>3, <1>4, <1>5, <1>6, <1>7, <1>8 DEF MainRuns, MainAccepts, HandlerRuns

(***************************************************************************)
(* A connection thread: it leaves the loop with the mutex only when it is  *)
(* cancelled, for it is not send() that fails, or when nothing is ever     *)
(* cancelled.                                                              *)
(***************************************************************************)
LEMMA ConnKeepsOwner ==
  ASSUME "send" \notin Faults \/ SignalPoints = {},
         ServerInv, LockInv, OwnerInv, NEW c \in Conns, ConnRuns(c) \/ ConnWaits(c)
  PROVE  OwnerInv'
<1> USE DEF handler, timers, OwnerInv, Releasing
<1>t. /\ cpc \in [Conns -> ConnLabels] /\ mutex \in MutexType /\ conn \in [Conns -> ConnRecord]
      /\ conn[c] \in ConnRecord
  BY DEF ServerInv, ThreadType
<1>n. NULL \notin Conns /\ NULL \notin Expiries /\ Conns \cap Expiries = {}
  BY ServerAssumption
<1>a. Alive
  BY DEF ConnRuns, ConnWaits, ConnOpens, SeekEnd, ConnLocks, ConnObtains, ConnAppends, ConnReads,
     ConnUnlocks,
         CloseClient, CloseData, Release, Cancelled, Recv, RecvEnds, ConnSends, ConnSendFails,
         ConnStep
<1>1. CASE Recv(c) \/ RecvEnds(c) \/ ConnOpens(c) \/ SeekEnd(c)
  <2>1. ~(mutex.up /\ mutex.owner = c)
    BY <1>1 DEF Recv, RecvEnds, ConnOpens, SeekEnd, ConnStep
  <2> QED
    BY <1>1, <1>a, <1>t, <2>1 DEF Recv, RecvEnds, ConnOpens, SeekEnd, ConnStep, Alive
<1>2. CASE ConnLocks(c)
  <2>1. ~(mutex.up /\ mutex.owner = c)
    BY <1>2 DEF ConnLocks, ConnStep
  <2> QED
    BY <1>2, <1>a, <1>t, <2>1 DEF ConnLocks, ConnStep, Alive
<1>3. CASE ConnObtains(c)
  <2>1. mutex.owner = NULL /\ mutex'.owner = c
    BY <1>3, <1>t DEF ConnObtains, MutexType
  <2> QED
    BY <1>3, <1>n, <1>t, <2>1 DEF ConnObtains, ConnStep
<1>4. CASE ConnAppends(c) \/ ConnReads(c) \/ ConnSends(c)
  <2>1. \A x \in Conns : x # c => cpc'[x] = cpc[x] /\ conn'[x] = conn[x]
    BY <1>4, <1>t DEF ConnAppends, ConnReads, ConnSends, ConnStep
  <2> QED
    BY <1>4, <1>a, <1>t, <2>1 DEF ConnAppends, ConnReads, ConnSends, ConnStep, Alive
<1>5. CASE ConnSendFails(c)
  <2>1. SignalPoints = {} \/ mpc' = "killed"
    BY <1>5 DEF ConnSendFails, May
  <2> QED
    BY <1>5, <1>a, <1>t, <2>1 DEF ConnSendFails, ConnStep, Alive, Break
<1>6. CASE ConnUnlocks(c)
  <2>1. ~mutex'.up \/ mutex'.owner = NULL
    BY <1>6, <1>t DEF ConnUnlocks, Unlock, MutexType
  <2> QED
    BY <1>6, <1>n, <1>t, <2>1 DEF ConnUnlocks, ConnStep
<1>7. CASE CloseClient(c)
  BY <1>7, <1>a, <1>t DEF CloseClient, ConnStep, Alive
<1>8. CASE CloseData(c)
  <2>1. \A x \in Conns : x # c => cpc'[x] = cpc[x] /\ conn'[x] = conn[x]
    BY <1>8, <1>t DEF CloseData, ConnStep
  <2>2. cpc'[c] = "release"
    BY <1>8, <1>t DEF CloseData, ConnStep
  <2> QED
    BY <1>8, <1>a, <1>t, <2>1, <2>2 DEF CloseData, ConnStep, Alive
<1>9. CASE Release(c)
  <2>1. ~mutex'.up \/ mutex'.owner = NULL \/ (mutex.owner # c /\ mutex' = mutex)
    BY <1>9, <1>t DEF Release, Unlock, MutexType
  <2> QED
    BY <1>9, <1>a, <1>n, <1>t, <2>1 DEF Release, ConnStep, Alive
<1>10. CASE Cancelled(c)
  <2>1. /\ mutex' = mutex /\ cancel' = cancel /\ tpc' = tpc /\ mpc' = mpc /\ hpc' = hpc
        /\ c \in cancel
    BY <1>10 DEF Cancelled, main
  <2>2. SignalPoints # {}
    BY <2>1
  <2>3. CASE /\ cpc' = [cpc EXCEPT ![c] = "close_client"]
             /\ conn' = [conn EXCEPT ![c].dying = TRUE]
    <3>1. cpc'[c] = "close_client" /\ \A x \in Conns : x # c => cpc'[x] = cpc[x] /\ conn'[x] = conn[x]
      BY <1>t, <2>3
    <3>2. conn'[c].dying
      BY <1>t, <2>3 DEF ConnRecord
    <3> QED
      BY <1>a, <2>1, <3>1, <3>2 DEF Alive
  <2>4. CASE /\ cpc[c] \in {"close_client", "close_data"} /\ ~conn[c].dying
             /\ cpc' = [cpc EXCEPT ![c] = "done"] /\ UNCHANGED conn
    <3>1. ~(mutex.up /\ mutex.owner = c)
      BY <1>a, <2>2, <2>4
    <3> QED
      BY <1>a, <1>t, <2>1, <2>4, <3>1 DEF Alive
  <2> QED
    BY <1>10, <2>3, <2>4 DEF Cancelled
<1> QED
  BY <1>1, <1>2, <1>3, <1>4, <1>5, <1>6, <1>7, <1>8, <1>9, <1>10 DEF ConnRuns, ConnWaits

\* A timer thread has one way through.
LEMMA TimerKeepsOwner ==
  ASSUME ServerInv, LockInv, OwnerInv, NEW k \in Expiries, TimerFires(k) \/ TimerRuns(k)
  PROVE  OwnerInv'
<1> USE DEF main, handler, threads, OwnerInv, Releasing, TimerStep
<1>t. tpc \in [Expiries -> TimerLabels] /\ mutex \in MutexType
  BY DEF ServerInv, ThreadType
<1>n. NULL \notin Conns /\ NULL \notin Expiries /\ Conns \cap Expiries = {}
  BY ServerAssumption
<1>1. CASE TimerFires(k)
  BY <1>1, <1>t DEF TimerFires, Alive
<1>2. CASE TimerLocks(k)
  BY <1>2, <1>t DEF TimerLocks, Alive
<1>3. CASE TimerObtains(k)
  <2>1. mutex.owner = NULL /\ mutex'.owner = k
    BY <1>3, <1>t DEF TimerObtains, MutexType
  <2> QED
    BY <1>3, <2>1, <1>t, <1>n DEF TimerObtains
<1>4. CASE TimerOpens(k) \/ TimerAppends(k)
  BY <1>4, <1>t DEF TimerOpens, TimerAppends, Alive
<1>5. CASE TimerUnlocks(k)
  <2>1. ~mutex'.up \/ mutex'.owner = NULL
    BY <1>5, <1>t DEF TimerUnlocks, Unlock, MutexType
  <2> QED
    BY <1>5, <2>1, <1>t, <1>n DEF TimerUnlocks
<1> QED
  BY <1>1, <1>2, <1>3, <1>4, <1>5 DEF TimerRuns

\* Every step keeps the owner on its way.
LEMMA NextOwner ==
  ASSUME "send" \notin Faults \/ SignalPoints = {}
  PROVE  ServerInv /\ LockInv /\ OwnerInv /\ [Next]_vars => OwnerInv'
<1> SUFFICES ASSUME ServerInv, LockInv, OwnerInv, [Next]_vars PROVE OwnerInv'
  OBVIOUS
<1>1. CASE UNCHANGED vars
  BY <1>1 DEF vars, main, handler, threads, timers, OwnerInv, Alive
<1> QED
  BY <1>1, MainKeepsOwner, ConnKeepsOwner, TimerKeepsOwner DEF Next, Idle

LEMMA InitOwner == Init => OwnerInv
BY ServerAssumption DEF Init, OwnerInv

(***************************************************************************)
(* No thread ends with the mutex before it is destroyed: whatever else     *)
(* fails, when send() does not fail or no signal arrives.  With both, the  *)
(* property is false: see the run cancel_in_cleanup.                       *)
(***************************************************************************)
THEOREM ServerReleasesMutex ==
  ASSUME "send" \notin Faults \/ SignalPoints = {}
  PROVE  Spec => []NoAbandonedMutex
<1>1. OwnerInv => NoAbandonedMutex
  BY ServerAssumption DEF OwnerInv, Releasing, NoAbandonedMutex
<1>2. ServerInv /\ LockInv /\ OwnerInv /\ [Next]_vars => OwnerInv'
  BY NextOwner
<1> QED
  BY <1>1, <1>2, InitOwner, ServerLocks, PTL DEF Spec

-----------------------------------------------------------------------------
(* The list of threads *)

\* Removing an item leaves the ones behind its first occurrence.
LEMMA RemoveKeepsLater ==
  ASSUME NEW s \in Seq(Conns), NEW e, NEW i \in 1..Len(s), i > 1, s[i - 1] = e
  PROVE  Contains(RemoveFirst(s, e), s[i])
<1> DEFINE r == RemoveFirst(s, e)
<1>1. Len(s) \in Nat /\ i - 1 \in 1..Len(s)
  BY LenProperties
<1>2. Contains(s, e)
  BY <1>1 DEF Contains
<1>3. PICK f \in 1..Len(s) : RemovedAt(s, e, f, r)
  BY <1>2, RemoveFirstProperties
<1>4. Len(r) = Len(s) - 1
  BY <1>2, RemoveFirstProperties
<1> HIDE DEF r
<1>5. ~(i - 1 < f)
  BY <1>1, <1>3 DEF RemovedAt
<1>6. i - 1 \in 1..Len(r) /\ (i - 1) + 1 = i
  BY <1>1, <1>4
<1>7. r[i - 1] = s[i]
  BY <1>3, <1>4, <1>5, <1>6 DEF RemovedAt
<1>8. Contains(r, s[i])
  BY <1>6, <1>7 DEF Contains
<1> QED
  BY <1>8 DEF r

\* The walk goes from item to item of the list.
LEMMA NextWalk ==
  ASSUME "reap" \notin SignalPoints, ServerInv, WalkInv, [Next]_vars
  PROVE  WalkInv'
<1> USE DEF handler, WalkInv
<1>t. connections \in Seq(Conns) /\ (mpc = "insert" => item \in Conns)
  BY DEF ServerInv, MainType
<1>1. CASE StartServer \/ RegisterSighandlers \/ MainOpensFile \/ MainInit \/ MainCreatesTimer
             \/ MainLoop \/ CreateThread
  BY <1>1 DEF StartServer, MakeDaemonFails, RegisterSighandlers, MainOpensFile, MainInit,
     MainCreatesTimer, MainLoop, CreateThread
<1>2. CASE MainAccepts
  BY <1>2 DEF MainAccepts, Accept, AcceptFails, CreateFails
<1>3. CASE InsertConn
  <2>1. item \in Conns /\ <<item>> \in Seq(Conns) /\ Len(<<item>>) = 1 /\ <<item>>[1] = item
    BY <1>t, <1>3 DEF InsertConn, MainAt
  <2> DEFINE new == <<item>> \o connections
  <2>2. Len(connections) \in Nat
    BY <1>t, LenProperties
  <2>3. Len(new) = 1 + Len(connections) /\ new[1] = item
    BY <1>t, <2>1, <2>2, ConcatProperties
  <2>4. connections' = new /\ item' = item /\ hpc' = hpc /\ hpc = "none"
    BY <1>3 DEF InsertConn, MainAt
  <2> HIDE DEF new
  <2>5. Contains(new, item)
    BY <2>2, <2>3 DEF Contains
  <2> QED
    BY <2>4, <2>5
<1>4. CASE TryJoin
  <2>1. hpc = "none" /\ hpc' = hpc /\ mpc = "reap"
    BY <1>4 DEF TryJoin, MainAt
  <2>2. CASE mpc' # "reap"
    BY <2>2
  <2>3. CASE mpc' = "reap"
    <3>1. /\ item # NULL /\ Contains(connections, item) /\ item' = ListNext(item)
          /\ \/ connections' = connections
             \/ connections' = RemoveFirst(connections, item)
      BY <1>4, <2>1, <2>3 DEF TryJoin
    <3>2. CASE ListNext(item) = NULL
      BY <2>1, <3>1, <3>2
    <3>3. CASE ListNext(item) # NULL
      <4>1. PICK i \in 1..Len(connections) :
              i > 1 /\ connections[i - 1] = item /\ ListNext(item) = connections[i]
        BY <1>t, <3>3, ListNextProperties
      <4>2. /\ Contains(connections, connections[i])
            /\ Contains(RemoveFirst(connections, item), connections[i])
        BY <1>t, <4>1, RemoveKeepsLater DEF Contains
      <4>3. Contains(connections', item')
        BY <3>1, <4>1, <4>2
      <4> QED
        BY <2>1, <4>3
    <3> QED
      BY <3>2, <3>3
  <2> QED
    BY <2>2, <2>3
<1>5. CASE Signal
  BY <1>5 DEF Signal
<1>6. CASE HandlerRuns
  BY <1>6 DEF HandlerRuns, HandlerShutsDown, HandlerCancels, HandlerJoins, HandlerDestroysMutex,
     HandlerRemovesFile, HandlerAt
<1>7. ASSUME NEW c \in Conns, ConnRuns(c) \/ ConnWaits(c) PROVE WalkInv'
  BY <1>7 DEF ConnRuns, ConnWaits, ConnOpens, SeekEnd, ConnLocks, ConnObtains, ConnAppends,
     ConnReads,
     ConnUnlocks, CloseClient, CloseData, Release, Cancelled, Recv, RecvEnds, ConnSends,
     ConnSendFails, ConnStep, main
<1>8. ASSUME NEW k \in Expiries, TimerFires(k) \/ TimerRuns(k) PROVE WalkInv'
  BY <1>8 DEF TimerFires, TimerRuns, TimerLocks, TimerObtains, TimerOpens, TimerAppends,
     TimerUnlocks,
     TimerStep, main
<1>9. CASE UNCHANGED vars
  BY <1>9 DEF vars, main
<1> QED
  BY <1>1, <1>2, <1>3, <1>4, <1>5, <1>6, <1>7, <1>8, <1>9 DEF Next, MainRuns, Idle

(***************************************************************************)
(* The walk of cleanup_term_conn(0) never stands on an item that has left  *)
(* the list, unless the handler empties the list in the middle of it.      *)
(***************************************************************************)
THEOREM ServerWalkStaysOnList ==
  ASSUME "reap" \notin SignalPoints
  PROVE  Spec => []WalkStaysOnList
<1>1. Init => WalkInv
  BY DEF Init, WalkInv
<1>2. ServerInv /\ WalkInv /\ [Next]_vars => WalkInv'
  BY NextWalk
<1>3. WalkInv => WalkStaysOnList
  BY DEF WalkInv, WalkStaysOnList, MainAt
<1> QED
  BY <1>1, <1>2, <1>3, ServerInvariant, PTL DEF Spec

\* SLIST_INSERT_HEAD of an item that is not in the list.
LEMMA InsertProperties ==
  ASSUME NEW s \in Seq(Conns), NEW x \in Conns, NoTwice(s), ~Contains(s, x)
  PROVE  /\ NoTwice(<<x>> \o s)
         /\ \A y : Contains(<<x>> \o s, y) <=> y = x \/ Contains(s, y)
<1> DEFINE new == <<x>> \o s
<1>1. Len(s) \in Nat /\ <<x>> \in Seq(Conns) /\ Len(<<x>>) = 1 /\ <<x>>[1] = x
  BY LenProperties
<1>2. /\ Len(new) = 1 + Len(s)
      /\ \A i \in 1..(1 + Len(s)) : new[i] = IF i <= 1 THEN <<x>>[i] ELSE s[i - 1]
  BY <1>1, ConcatProperties
<1> HIDE DEF new
<1>3. new[1] = x /\ \A i \in 1..Len(new) : i # 1 => i - 1 \in 1..Len(s) /\ new[i] = s[i - 1]
  BY <1>1, <1>2
<1>4. \A i \in 1..Len(s) : i + 1 \in 1..Len(new) /\ new[i + 1] = s[i]
  BY <1>1, <1>2
<1>5. NoTwice(new)
  <2> SUFFICES ASSUME NEW i \in 1..Len(new), NEW j \in 1..Len(new), new[i] = new[j]
               PROVE  i = j
    BY DEF NoTwice
  <2>1. CASE i = 1 \/ j = 1
    BY <2>1, <1>3 DEF Contains
  <2>2. CASE i # 1 /\ j # 1
    <3>1. i - 1 = j - 1
      BY <2>2, <1>3 DEF NoTwice
    <3> QED
      BY <3>1, <1>1, <1>2
  <2> QED
    BY <2>1, <2>2
<1>6. ASSUME NEW y PROVE Contains(new, y) <=> y = x \/ Contains(s, y)
  <2>1. Contains(new, y) => y = x \/ Contains(s, y)
    BY <1>3 DEF Contains
  <2>2. Contains(s, y) => Contains(new, y)
    BY <1>4 DEF Contains
  <2>3. 1 \in 1..Len(new)
    BY <1>1, <1>2
  <2>4. Contains(new, x)
    BY <1>3, <2>3 DEF Contains
  <2> QED
    BY <2>1, <2>2, <2>4
<1> QED
  BY <1>5, <1>6 DEF new

\* SLIST_REMOVE of an item leaves the other items, each once.
LEMMA RemoveKeepsOthers ==
  ASSUME NEW s \in Seq(Conns), NEW e, NoTwice(s)
  PROVE  /\ NoTwice(RemoveFirst(s, e))
         /\ \A y : Contains(RemoveFirst(s, e), y) => Contains(s, y)
         /\ \A y : Contains(s, y) /\ y # e => Contains(RemoveFirst(s, e), y)
<1> DEFINE r == RemoveFirst(s, e)
<1>0. Len(s) \in Nat
  BY LenProperties
<1>1. CASE ~Contains(s, e)
  <2>1. r = s
    BY <1>1 DEF RemoveFirst, Contains
  <2> QED
    BY <2>1
<1>2. CASE Contains(s, e)
  <2>1. Len(r) = Len(s) - 1
    BY <1>2, RemoveFirstProperties
  <2>a. PICK f \in 1..Len(s) : RemovedAt(s, e, f, r)
    BY <1>2, RemoveFirstProperties
  <2>2. /\ f \in 1..Len(s) /\ s[f] = e
        /\ \A j \in 1..(Len(s) - 1) : r[j] = IF j < f THEN s[j] ELSE s[j + 1]
    BY <2>a DEF RemovedAt
  <2> HIDE DEF r
  <2> DEFINE at(j) == IF j < f THEN j ELSE j + 1
  <2>3. \A j \in 1..Len(r) : at(j) \in 1..Len(s) /\ r[j] = s[at(j)]
    BY <1>0, <2>1, <2>2
  <2>4. \A i, j \in 1..Len(r) : at(i) = at(j) => i = j
    BY <1>0, <2>1
  <2>5. \A i \in 1..Len(s) : i # f => \E j \in 1..Len(r) : at(j) = i
    <3> SUFFICES ASSUME NEW i \in 1..Len(s), i # f PROVE \E j \in 1..Len(r) : at(j) = i
      OBVIOUS
    <3>1. CASE i < f
      BY <3>1, <1>0, <2>1
    <3>2. CASE ~(i < f)
      <4>1. i - 1 \in 1..Len(r) /\ at(i - 1) = i
        BY <3>2, <1>0, <2>1
      <4> QED
        BY <4>1
    <3> QED
      BY <3>1, <3>2
  <2> HIDE DEF at
  <2>6. NoTwice(r)
    BY <2>3, <2>4 DEF NoTwice
  <2>7. \A y : Contains(r, y) => Contains(s, y)
    BY <2>3 DEF Contains
  <2>8. \A y : Contains(s, y) /\ y # e => Contains(r, y)
    <3> SUFFICES ASSUME NEW i \in 1..Len(s), s[i] # e PROVE Contains(r, s[i])
      BY DEF Contains
    <3>1. PICK j \in 1..Len(r) : at(j) = i
      BY <2>2, <2>5
    <3>2. r[j] = s[i]
      BY <2>3, <3>1
    <3> QED
      BY <3>2 DEF Contains
  <2> QED
    BY <2>6, <2>7, <2>8 DEF r
<1> QED
  BY <1>1, <1>2

\* SLIST_FOREACH_SAFE, when every item is removed: the next item is the head.
LEMMA RemoveHead ==
  ASSUME connections \in Seq(Conns), NoTwice(connections), connections # << >>
  PROVE  ListNext(connections[1]) = ListFirst(RemoveFirst(connections, connections[1]))
<1> DEFINE e == connections[1]
           r == RemoveFirst(connections, e)
           n == Len(connections)
<1>1. n \in Nat /\ n > 0
  BY EmptySeq, LenProperties
<1>2. Contains(connections, e) /\ 1 \in 1..n
  BY <1>1 DEF Contains
<1>3. r \in Seq(Conns) /\ Len(r) = n - 1
  BY <1>2, RemoveFirstProperties
<1>a. PICK f \in 1..n : RemovedAt(connections, e, f, r)
  BY <1>2, RemoveFirstProperties
<1>4. /\ f \in 1..n /\ connections[f] = e
      /\ \A j \in 1..(n - 1) : r[j] = IF j < f THEN connections[j] ELSE connections[j + 1]
  BY <1>a DEF RemovedAt
<1>5. f = 1
  BY <1>2, <1>4 DEF NoTwice
<1> HIDE DEF r
<1>6. ASSUME n = 1 PROVE ListNext(e) = ListFirst(r)
  <2>1. \A i \in 1..n : ~(i > 1)
    BY <1>6
  <2>2. ListNext(e) = NULL
    BY <2>1, ListNextProperties
  <2>3. r = << >>
    BY <1>3, <1>6, EmptySeq
  <2> QED
    BY <2>2, <2>3 DEF ListFirst
<1>7. ASSUME n > 1 PROVE ListNext(e) = ListFirst(r)
  <2>1. r[1] = connections[2] /\ r # << >>
    <3>1. 1 \in 1..(n - 1) /\ ~(1 < f)
      BY <1>1, <1>5, <1>7
    <3>2. r[1] = connections[2]
      BY <1>4, <3>1
    <3> QED
      BY <1>1, <1>3, <1>7, <3>2, EmptySeq
  <2>2. 2 \in 1..n /\ 2 - 1 = 1
    BY <1>1, <1>7
  <2>3. PICK i \in 1..n : i > 1 /\ connections[i - 1] = e /\ ListNext(e) = connections[i]
    <3>1. ~(\A i \in 1..n : i > 1 => connections[i - 1] # e)
      BY <2>2
    <3> QED
      BY <3>1, ListNextProperties
  <2>4. i - 1 \in 1..n /\ i - 1 = 1
    <3>1. i - 1 \in 1..n
      BY <1>1, <2>3
    <3> QED
      BY <1>2, <2>3, <3>1 DEF NoTwice
  <2>5. i = 2
    BY <2>3, <2>4
  <2> QED
    BY <2>1, <2>3, <2>5 DEF ListFirst
<1> HIDE DEF n
<1>8. n = 1 \/ n > 1
  BY <1>1
<1> QED
  BY <1>6, <1>7, <1>8 DEF r

\* A connection thread runs until it is done, and creates no other.
LEMMA ThreadRuns ==
  ASSUME ServerInv, NEW d \in Conns, ConnRuns(d) \/ ConnWaits(d)
  PROVE  /\ UNCHANGED <<handler, listening, connections, item, hitem, freed, timer>>
         /\ mpc' = mpc \/ mpc' = "killed"
         /\ Alive /\ cpc[d] \notin {"none", "refused", "done"}
         /\ cpc'[d] \notin {"none", "refused"}
         /\ \A c \in Conns : c # d => cpc'[c] = cpc[c]
         /\ mutex'.up = mutex.up
<1>t. cpc \in [Conns -> ConnLabels] /\ mutex \in MutexType
  BY DEF ServerInv, ThreadType
<1>1. CASE Cancelled(d)
  BY <1>1, <1>t DEF Cancelled, main
<1>2. CASE ~Cancelled(d)
  <2>1. \E from, to \in ConnLabels : ConnStep(d, from, to) /\ from \notin {"none", "refused", "done"}
                                      /\ to \notin {"none", "refused"}
    BY <1>2 DEF ConnRuns, ConnWaits, ConnOpens, SeekEnd, ConnLocks, ConnObtains, ConnAppends,
       ConnReads,
       ConnUnlocks, CloseClient, CloseData, Release, Recv, RecvEnds, ConnSends, ConnSendFails,
       Break, ConnLabels
  <2>2. mpc' = mpc \/ mpc' = "killed"
    BY <1>2 DEF ConnRuns, ConnWaits, ConnOpens, SeekEnd, ConnLocks, ConnObtains, ConnAppends,
       ConnReads,
       ConnUnlocks, CloseClient, CloseData, Release, Recv, RecvEnds, ConnSends, ConnSendFails
  <2>3. mutex'.up = mutex.up
    BY <1>2, <1>t DEF ConnRuns, ConnWaits, ConnOpens, SeekEnd, ConnLocks, ConnObtains, ConnAppends,
       ConnReads, ConnUnlocks, CloseClient, CloseData, Release, Unlock, Recv, RecvEnds, ConnSends,
       ConnSendFails, MutexType
  <2> QED
    BY <1>t, <2>1, <2>2, <2>3 DEF ConnStep
<1> QED
  BY <1>1, <1>2

\* Main and the handler, which add to the list and take from it.
LEMMA MainKeepsList ==
  ASSUME ServerInv, LockInv, ListInv, MainRuns \/ MainAccepts \/ Signal \/ HandlerRuns
  PROVE  ListInv'
<1> USE DEF handler, threads
<1>t. /\ connections \in Seq(Conns) /\ cpc \in [Conns -> ConnLabels]
      /\ (mpc \in {"create", "insert"} => item \in Conns) /\ hitem \in Conns \cup {NULL}
      /\ CreateInv
  BY DEF ServerInv, MainType, ThreadType
<1>1. CASE StartServer \/ RegisterSighandlers \/ MainOpensFile \/ MainCreatesTimer \/ MainLoop
  BY <1>1 DEF StartServer, MakeDaemonFails, RegisterSighandlers, MainOpensFile, MainCreatesTimer,
     MainLoop, MainAt, ListInv, Ended, Alive
<1>2. CASE MainInit
  <2>1. \A c \in Conns : cpc[c] = "none"
    BY <1>2 DEF MainInit, MainAt, LockInv
  <2>2. /\ connections' = << >> /\ Len(<< >>) = 0 /\ mpc' = "timer" /\ cpc' = cpc
    BY <1>2 DEF MainInit
  <2> QED
    BY <2>1, <2>2 DEF ListInv, Ended, NoTwice, Contains
<1>3. CASE InsertConn
  <2>1. /\ mpc = "insert" /\ mpc' = "reap" /\ cpc' = cpc /\ item \in Conns
        /\ connections' = <<item>> \o connections
    BY <1>3, <1>t DEF InsertConn, MainAt
  <2>2. /\ NoTwice(connections')
        /\ \A y : Contains(connections', y) <=> y = item \/ Contains(connections, y)
    BY <1>t, <2>1, InsertProperties DEF ListInv
  <2> QED
    BY <2>1, <2>2 DEF ListInv, Ended, Alive
<1>4. CASE TryJoin
  <2>1. /\ mpc = "reap" /\ mpc' \in {"reap", "loop", "killed"} /\ cpc' = cpc
        /\ \/ connections' = connections
           \/ cpc[item] = "done" /\ connections' = RemoveFirst(connections, item)
    BY <1>4 DEF TryJoin, MainAt
  <2>2. CASE connections' = connections
    BY <2>1, <2>2 DEF ListInv, Ended, Alive
  <2>3. CASE cpc[item] = "done" /\ connections' = RemoveFirst(connections, item)
    <3>1. /\ NoTwice(connections')
          /\ \A y : Contains(connections', y) => Contains(connections, y)
          /\ \A y : Contains(connections, y) /\ y # item => Contains(connections', y)
      BY <1>t, <2>3, RemoveKeepsOthers DEF ListInv
    <3> QED
      BY <2>1, <2>3, <3>1 DEF ListInv, Ended, Alive
  <2> QED
    BY <2>1, <2>2, <2>3
<1>5. CASE AcceptFails \/ \E c \in Conns : Accept(c)
  BY <1>5 DEF Accept, AcceptFails, MainAt, ListInv, Ended, Alive
<1>6. CASE CreateThread \/ CreateFails
  <2>1. /\ mpc = "create" /\ item \in Conns /\ cpc[item] = "none" /\ item' = item
        /\ connections' = connections /\ \A d \in Conns : d # item => cpc'[d] = cpc[d]
    BY <1>6, <1>t DEF CreateThread, CreateFails, MainAt, CreateInv
  <2>2. ~Contains(connections, item)
    BY <2>1 DEF ListInv
  <2>3. CASE mpc' = "insert" /\ cpc'[item] = "recv"
    BY <2>1, <2>2, <2>3 DEF ListInv, Ended, Alive
  <2>4. CASE mpc' = "loop" /\ cpc'[item] = "refused"
    BY <2>1, <2>2, <2>4 DEF ListInv, Ended, Alive
  <2> QED
    BY <1>6, <1>t, <2>1, <2>3, <2>4 DEF CreateThread, CreateFails
<1>7. CASE Signal
  BY <1>7 DEF Signal, ListInv, Ended, Alive
<1>8. CASE HandlerShutsDown \/ HandlerCancels \/ HandlerDestroysMutex \/ HandlerRemovesFile
  BY <1>8 DEF HandlerShutsDown, HandlerCancels, HandlerDestroysMutex, HandlerRemovesFile, ListInv,
     Ended, Alive
<1>9. CASE HandlerJoins
  <2>1. /\ mpc' = mpc /\ item' = item /\ cpc' = cpc
        /\ \/ connections' = connections
           \/ /\ cpc[hitem] = "done" /\ hitem \in Conns
              /\ connections' = RemoveFirst(connections, hitem)
    BY <1>9, <1>t DEF HandlerJoins
  <2>2. CASE connections' = connections
    BY <2>1, <2>2 DEF ListInv, Ended, Alive
  <2>3. CASE cpc[hitem] = "done" /\ connections' = RemoveFirst(connections, hitem)
    <3>1. /\ NoTwice(connections')
          /\ \A y : Contains(connections', y) => Contains(connections, y)
          /\ \A y : Contains(connections, y) /\ y # hitem => Contains(connections', y)
      BY <1>t, <2>3, RemoveKeepsOthers DEF ListInv
    <3> QED
      BY <2>1, <2>3, <3>1 DEF ListInv, Ended, Alive
  <2> QED
    BY <2>1, <2>2, <2>3
<1> QED
  BY <1>1, <1>2, <1>3, <1>4, <1>5, <1>6, <1>7, <1>8, <1>9 DEF MainRuns, MainAccepts, HandlerRuns

\* Every step keeps the running threads in the list.
LEMMA NextList == ServerInv /\ LockInv /\ ListInv /\ [Next]_vars => ListInv'
<1> SUFFICES ASSUME ServerInv, LockInv, ListInv, [Next]_vars PROVE ListInv'
  OBVIOUS
<1>1. CASE UNCHANGED vars
  BY <1>1 DEF vars, main, threads, ListInv, Ended, Alive
<1>2. ASSUME NEW d \in Conns, ConnRuns(d) \/ ConnWaits(d) PROVE ListInv'
  <2>1. /\ connections' = connections /\ item' = item /\ (mpc' = mpc \/ mpc' = "killed")
        /\ Alive /\ cpc[d] \notin {"none", "refused", "done"}
        /\ cpc'[d] \notin {"none", "refused"}
        /\ \A c \in Conns : c # d => cpc'[c] = cpc[c]
    BY <1>2, ThreadRuns
  <2>2. mpc = "insert" => item \in Conns
    BY DEF ServerInv, MainType
  <2> QED
    BY <2>1, <2>2 DEF ListInv, Ended, Alive
<1>3. ASSUME NEW k \in Expiries, TimerFires(k) \/ TimerRuns(k) PROVE ListInv'
  <2>1. UNCHANGED <<main, threads>>
    BY <1>3 DEF TimerFires, TimerRuns, TimerLocks, TimerObtains, TimerOpens, TimerAppends,
       TimerUnlocks, TimerStep
  <2> QED
    BY <2>1 DEF main, threads, ListInv, Ended, Alive
<1> QED
  BY <1>1, <1>2, <1>3, MainKeepsList DEF Next, Idle

LEMMA InitList == Init => ListInv
<1> SUFFICES ASSUME Init PROVE ListInv
  OBVIOUS
<1>1. connections = << >> /\ Len(<< >>) = 0 /\ mpc = "start" /\ \A c \in Conns : cpc[c] = "none"
  BY DEF Init
<1> QED
  BY <1>1 DEF ListInv, Ended, NoTwice, Contains

-----------------------------------------------------------------------------
(* The shutdown *)

\* A timer thread leaves everything to main but the file and the mutex.
LEMMA TimerThreadRuns ==
  ASSUME ServerInv, NEW k \in Expiries, TimerFires(k) \/ TimerRuns(k)
  PROVE  UNCHANGED <<main, threads>> /\ mutex'.up = mutex.up
<1>1. mutex \in MutexType
  BY DEF ServerInv, ThreadType
<1> QED
  BY <1>1 DEF TimerFires, TimerRuns, TimerLocks, TimerObtains, TimerOpens, TimerAppends,
     TimerUnlocks, Unlock, TimerStep, MutexType

\* Every step keeps the order of the handler's steps.
LEMMA NextHandler == ServerInv /\ ListInv /\ HandlerInv /\ [Next]_vars => HandlerInv'
<1> SUFFICES ASSUME ServerInv, ListInv, HandlerInv, [Next]_vars PROVE HandlerInv'
  OBVIOUS
<1> USE DEF handler
<1>t. /\ connections \in Seq(Conns) /\ hpc \in HandlerLabels /\ resume \in HandlerLabels
      /\ NULL \notin Conns /\ mutex \in MutexType
  BY ServerAssumption DEF ServerInv, MainType, ThreadType
<1>1. CASE MainRuns \/ MainAccepts
  BY <1>1, <1>t DEF MainRuns, MainAccepts, StartServer, MakeDaemonFails, RegisterSighandlers,
     MainOpensFile, MainInit, MainCreatesTimer, MainLoop, CreateThread, InsertConn, TryJoin, Accept,
     AcceptFails, CreateFails, MainAt, HandlerInv
<1>2. CASE Signal
  BY <1>2, <1>t DEF Signal, HandlerInv, HandlerLabels
<1>3. CASE HandlerShutsDown
  BY <1>3, <1>t DEF HandlerShutsDown, HandlerAt, HandlerInv, HandlerLabels
<1>4. CASE HandlerCancels
  BY <1>4 DEF HandlerCancels, HandlerAt, HandlerInv
<1>5. CASE HandlerJoins
  <2>1. hpc = "join" /\ hitem = ListFirst(connections)
    BY <1>5 DEF HandlerJoins, HandlerAt, HandlerInv
  <2>2. CASE hitem = NULL
    <3>1. connections = << >>
      BY <1>t, <2>1, <2>2, ElementOfSeq, EmptySeq DEF ListFirst
    <3> QED
      BY <1>5, <2>1, <2>2, <3>1 DEF HandlerJoins, HandlerAt, HandlerInv
  <2>3. CASE hitem # NULL
    <3>1. connections # << >> /\ hitem = connections[1]
      BY <2>1, <2>3 DEF ListFirst
    <3>2. ListNext(hitem) = ListFirst(RemoveFirst(connections, hitem))
      BY <1>t, <3>1, RemoveHead DEF ListInv
    <3>3. hpc' = hpc /\ hitem' = ListFirst(connections')
      BY <1>5, <2>3, <3>2 DEF HandlerJoins
    <3> QED
      BY <1>5, <2>1, <3>3 DEF HandlerJoins, HandlerInv
  <2> QED
    BY <2>2, <2>3
<1>6. CASE HandlerDestroysMutex
  BY <1>6, <1>t DEF HandlerDestroysMutex, HandlerAt, HandlerInv
<1>7. CASE HandlerRemovesFile
  BY <1>7, <1>t DEF HandlerRemovesFile, HandlerAt, HandlerInv
<1>8. ASSUME NEW d \in Conns, ConnRuns(d) \/ ConnWaits(d) PROVE HandlerInv'
  BY <1>8, ThreadRuns DEF HandlerInv
<1>9. ASSUME NEW k \in Expiries, TimerFires(k) \/ TimerRuns(k) PROVE HandlerInv'
  BY <1>9, TimerThreadRuns DEF main, HandlerInv
<1>10. CASE UNCHANGED vars
  BY <1>10 DEF vars, main, HandlerInv
<1> QED
  BY <1>1, <1>2, <1>3, <1>4, <1>5, <1>6, <1>7, <1>8, <1>9, <1>10
     DEF Next, MainRuns, HandlerRuns, Idle

LEMMA InitHandler == Init => HandlerInv
BY DEF Init, HandlerInv

\* List and handler of every behaviour.
THEOREM ServerLists == Spec => [](ServerInv /\ LockInv /\ ListInv /\ HandlerInv)
BY InitServer, NextServer, InitLock, NextLock, InitList, NextList, InitHandler, NextHandler, PTL
   DEF Spec

(***************************************************************************)
(* When the handler destroys the mutex, no thread that it has joined holds *)
(* it, provided that send() does not fail: only a thread that main has not *)
(* yet put in the list, or a timer_action, can make the destruction fail.  *)
(***************************************************************************)
THEOREM ServerDestroyMeetsUntracked ==
  ASSUME "send" \notin Faults
  PROVE  Spec => DestroyMeetsUntracked
<1>1. ServerInv /\ LockInv /\ OwnerInv /\ [Next]_vars => OwnerInv'
  BY NextOwner
<1>2. ServerInv /\ LockInv /\ OwnerInv /\ ListInv /\ HandlerInv /\ [Next]_vars =>
        [hpc = "destroy" /\ hpc' = "remove" => mutex.owner \in Untracked \cup {NULL}]_vars
  <2> SUFFICES ASSUME ServerInv, LockInv, OwnerInv, ListInv, HandlerInv, [Next]_vars,
                      hpc = "destroy", hpc' = "remove", mutex.owner \notin Expiries \cup {NULL}
               PROVE  mpc = "insert" /\ mutex.owner = item
    BY DEF Untracked
  <2>1. mutex.owner \in Conns
    BY DEF ServerInv, ThreadType, MutexType
  <2>2. connections = << >>
    BY DEF HandlerInv
  <2>3. ~Contains(connections, mutex.owner)
    BY <2>2 DEF Contains
  <2>4. HandlerDestroysMutex /\ Alive
    <3>1. ~(MainRuns \/ MainAccepts)
      BY DEF MainRuns, MainAccepts, StartServer, RegisterSighandlers, MainOpensFile, MainInit,
         MainCreatesTimer, MainLoop, CreateThread, InsertConn, TryJoin, Accept, AcceptFails,
         CreateFails, MainAt
    <3>2. ~(\E c \in Conns : ConnRuns(c) \/ ConnWaits(c))
      BY ThreadRuns DEF handler
    <3>3. ~(\E k \in Expiries : TimerFires(k) \/ TimerRuns(k))
      BY TimerThreadRuns DEF main, handler
    <3>4. ~(Signal \/ Idle \/ UNCHANGED vars)
      BY DEF Signal, Idle, vars, main, handler
    <3> QED
      BY <3>1, <3>2, <3>3, <3>4 DEF Next, HandlerRuns, HandlerShutsDown, HandlerCancels,
         HandlerJoins, HandlerDestroysMutex, HandlerRemovesFile, HandlerAt
  <2>5. mutex.up
    <3>1. mpc \notin {"start", "register", "open", "init"}
      BY DEF LockInv
    <3>2. mpc \in {"timer", "loop", "accept", "create", "insert", "reap"}
      BY <2>4, <3>1 DEF Alive, ServerInv, MainType, MainLabels
    <3> QED
      BY <3>2 DEF HandlerInv
  <2>6. ~Ended(mutex.owner)
    BY <2>1, <2>5 DEF OwnerInv, Releasing, Ended
  <2> QED
    BY <2>1, <2>3, <2>4, <2>6 DEF ListInv
<1> QED
  BY <1>1, <1>2, InitOwner, ServerLists, PTL DEF Spec, DestroyMeetsUntracked

\* Main and the handler.
LEMMA MainKeepsExit ==
  ASSUME SignalPoints \cap {"create", "insert"} = {},
         ServerInv, LockInv, ListInv, HandlerInv, ExitInv,
         MainRuns \/ MainAccepts \/ Signal \/ HandlerRuns
  PROVE  ExitInv'
<1> USE DEF handler, threads
<1>t. cpc \in [Conns -> ConnLabels] /\ CreateInv
  BY DEF ServerInv, ThreadType
<1>1. CASE StartServer \/ RegisterSighandlers \/ MainOpensFile
  <2>1. hpc = "none" /\ \A c \in Conns : cpc[c] = "none"
    BY <1>1 DEF StartServer, RegisterSighandlers, MainOpensFile, MainAt, LockInv
  <2>2. cpc' = cpc /\ stopApp' = stopApp /\ hpc' = hpc /\ mpc' \notin {"create", "insert"}
    BY <1>1 DEF StartServer, MakeDaemonFails, RegisterSighandlers, MainOpensFile
  <2>3. stopApp => ~listening'
    BY <1>1 DEF StartServer, RegisterSighandlers, MainOpensFile, MainAt, HandlerInv, ExitInv
  <2> QED
    BY <2>1, <2>2, <2>3 DEF ExitInv, Ended
<1>2. CASE MainInit \/ MainCreatesTimer \/ MainLoop \/ InsertConn \/ TryJoin \/ AcceptFails
  BY <1>2 DEF MainInit, MainCreatesTimer, MainLoop, InsertConn, TryJoin, AcceptFails, MainAt,
     ExitInv,
     Ended
<1>3. ASSUME NEW c \in Conns, Accept(c) PROVE ExitInv'
  <2>1. ~stopApp
    BY <1>3 DEF Accept, MainAt, ExitInv
  <2> QED
    BY <1>3, <2>1 DEF Accept, MainAt, ExitInv
<1>4. CASE CreateThread \/ CreateFails
  <2>1. ~stopApp /\ hpc = "none"
    BY <1>4 DEF CreateThread, CreateFails, MainAt, ExitInv
  <2> QED
    BY <1>4, <2>1 DEF CreateThread, CreateFails, ExitInv
<1>5. CASE Signal
  <2>1. mpc \notin {"create", "insert", "exited"} /\ (mpc \in {"start", "register"} => ~stopApp)
    BY <1>5 DEF Signal, Alive, HandlerInv
  <2> QED
    BY <1>5, <2>1 DEF Signal, ExitInv, Ended
<1>6. CASE HandlerShutsDown \/ HandlerCancels \/ HandlerJoins \/ HandlerDestroysMutex
  BY <1>6 DEF HandlerShutsDown, HandlerCancels, HandlerJoins, HandlerDestroysMutex, HandlerAt,
     ExitInv,
     Ended
<1>7. CASE HandlerRemovesFile
  <2>1. /\ hpc = "remove" /\ Alive /\ mpc' = mpc /\ cpc' = cpc /\ listening' = listening
    BY <1>7 DEF HandlerRemovesFile, HandlerAt
  <2>2. ~listening /\ connections = << >> /\ mpc \notin {"create", "insert", "exited"}
    BY <2>1 DEF HandlerInv, ExitInv, Alive
  <2>3. \A c \in Conns : ~Contains(connections, c)
    BY <2>2 DEF Contains
  <2>4. \A c \in Conns : Ended(c)
    BY <2>1, <2>2, <2>3 DEF ListInv
  <2> QED
    BY <2>1, <2>2, <2>4 DEF ExitInv, Ended
<1> QED
  BY <1>1, <1>2, <1>3, <1>4, <1>5, <1>6, <1>7 DEF MainRuns, MainAccepts, HandlerRuns

\* A thread that runs shows that no handler has returned.
LEMMA RunningBeforeExit ==
  ASSUME ServerInv, ExitInv, NEW d \in Conns, ConnRuns(d) \/ ConnWaits(d)
  PROVE  /\ ~(stopApp /\ hpc = "none") /\ mpc # "exited"
         /\ hpc' = hpc /\ stopApp' = stopApp /\ (mpc' = mpc \/ mpc' = "killed")
<1>1. /\ hpc' = hpc /\ stopApp' = stopApp /\ (mpc' = mpc \/ mpc' = "killed") /\ Alive
      /\ cpc[d] \notin {"none", "refused", "done"}
  BY ThreadRuns DEF handler
<1> QED
  BY <1>1 DEF ExitInv, Ended, Alive

\* Every step, when no signal meets main between accept() and the list.
LEMMA NextExit ==
  ASSUME SignalPoints \cap {"create", "insert"} = {}
  PROVE  ServerInv /\ LockInv /\ ListInv /\ HandlerInv /\ ExitInv /\ [Next]_vars => ExitInv'
<1> SUFFICES ASSUME ServerInv, LockInv, ListInv, HandlerInv, ExitInv, [Next]_vars
             PROVE  ExitInv'
  OBVIOUS
<1>1. CASE UNCHANGED vars
  BY <1>1 DEF vars, main, handler, threads, ExitInv, Ended
<1>2. ASSUME NEW d \in Conns, ConnRuns(d) \/ ConnWaits(d) PROVE ExitInv'
  BY <1>2, RunningBeforeExit DEF ExitInv
<1>3. ASSUME NEW k \in Expiries, TimerFires(k) \/ TimerRuns(k) PROVE ExitInv'
  BY <1>3, TimerThreadRuns DEF main, handler, threads, ExitInv, Ended
<1> QED
  BY <1>1, <1>2, <1>3, MainKeepsExit DEF Next, Idle

LEMMA InitExit == Init => ExitInv
BY DEF Init, ExitInv

\* The invariant behind the next two theorems.
LEMMA ServerExits ==
  ASSUME SignalPoints \cap {"create", "insert"} = {}
  PROVE  Spec => []ExitInv
<1>1. ServerInv /\ LockInv /\ ListInv /\ HandlerInv /\ ExitInv /\ [Next]_vars => ExitInv'
  BY NextExit
<1> QED
  BY <1>1, InitExit, ServerLists, PTL DEF Spec

(***************************************************************************)
(* A server that exits has no connection thread left, unless a signal met  *)
(* main between the return of accept() and SLIST_INSERT_HEAD, where the    *)
(* handler does not know of the connection and main starts its thread.     *)
(***************************************************************************)
THEOREM ServerExitsAfterThreads ==
  ASSUME SignalPoints \cap {"create", "insert"} = {}
  PROVE  Spec => []ExitAfterThreads
<1>1. ExitInv => ExitAfterThreads
  BY DEF ExitInv, ExitAfterThreads, Ended
<1> QED
  BY <1>1, ServerExits, PTL

\* Main and the handler: the handler removes the file that main opened before.
LEMMA MainKeepsFile ==
  ASSUME "open" \notin SignalPoints, ServerInv, LockInv, HandlerInv, FileInv,
         MainRuns \/ MainAccepts \/ Signal \/ HandlerRuns
  PROVE  FileInv'
<1> USE DEF handler, timers
<1>t. file \in FileType
  BY DEF ServerInv, ThreadType
<1>1. CASE StartServer
  <2>1. ~stopApp /\ stopApp' = stopApp /\ tfd' = tfd /\ mpc' \in {"register", "exited"}
    BY <1>1 DEF StartServer, MakeDaemonFails, MainAt, FileInv
  <2>2. file'.ino = file.ino \/ file'.ino = 1
    BY <1>t, <1>1 DEF StartServer, MakeDaemonFails, DestroyDatafile, FileType
  <2> QED
    BY <2>1, <2>2 DEF FileInv
<1>2. CASE RegisterSighandlers
  BY <1>2 DEF RegisterSighandlers, MainAt, FileInv
<1>3. CASE MainOpensFile
  <2>1. ~stopApp /\ stopApp' = stopApp /\ tfd' = tfd /\ mpc' \in {"init", "exited"}
    BY <1>3 DEF MainOpensFile, MainAt, FileInv
  <2>2. file'.ino = file.ino /\ (mpc' = "init" => file'.exists)
    BY <1>t, <1>3 DEF MainOpensFile, OpenDatafile, FileType
  <2> QED
    BY <2>1, <2>2 DEF FileInv
<1>4. CASE MainInit \/ MainCreatesTimer \/ MainLoop \/ CreateThread \/ InsertConn \/ TryJoin
             \/ MainAccepts
  BY <1>4 DEF MainInit, MainCreatesTimer, MainLoop, CreateThread, InsertConn, TryJoin, MainAccepts,
     Accept, AcceptFails, CreateFails, MainAt, FileInv
<1>5. CASE Signal
  BY <1>5 DEF Signal, HandlerInv, FileInv
<1>6. CASE HandlerShutsDown \/ HandlerCancels \/ HandlerJoins \/ HandlerDestroysMutex
  BY <1>6 DEF HandlerShutsDown, HandlerCancels, HandlerJoins, HandlerDestroysMutex, HandlerAt,
     FileInv
<1>7. CASE HandlerRemovesFile
  <2>1. stopApp' = stopApp /\ tfd' = tfd /\ mpc' = mpc
    BY <1>7 DEF HandlerRemovesFile
  <2>2. CASE UseCharDevice \/ ~file.exists
    BY <1>7, <2>1, <2>2 DEF HandlerRemovesFile, DestroyDatafile, FileInv
  <2>3. CASE ~(UseCharDevice \/ ~file.exists)
    <3>1. ~file'.exists /\ file'.ino = 1
      BY <1>t, <1>7, <2>3 DEF HandlerRemovesFile, DestroyDatafile, FileType
    <3> QED
      BY <2>1, <3>1 DEF FileInv
  <2> QED
    BY <2>2, <2>3
<1> QED
  BY <1>1, <1>2, <1>3, <1>4, <1>5, <1>6, <1>7 DEF MainRuns, HandlerRuns

\* A timer_action that opens the file once it is removed opens another inode.
LEMMA TimerKeepsFile ==
  ASSUME ServerInv, LockInv, FileInv, NEW k \in Expiries, TimerFires(k) \/ TimerRuns(k)
  PROVE  FileInv'
<1>t. file \in FileType /\ tfd \in [Expiries -> Inodes]
  BY DEF ServerInv, ThreadType
<1>1. UNCHANGED <<mpc, hpc, stopApp>>
  BY TimerThreadRuns DEF main, handler
<1>2. CASE OpenDatafile /\ tfd' = [tfd EXCEPT ![k] = file.ino] /\ TimerStep(k, "open", "append")
  <2>1. file'.exists /\ file'.ino = file.ino
    BY <1>t, <1>2 DEF OpenDatafile, FileType
  <2>2. tfd'[k] = file.ino /\ \A x \in Expiries : x # k => tfd'[x] = tfd[x]
    BY <1>t, <1>2
  <2>3. mpc \in {"loop", "accept", "create", "insert", "reap"}
    BY <1>2 DEF TimerStep, Alive, LockInv, ServerInv, MainType, MainLabels
  <2>4. \A x \in Expiries : tfd[x] = 1 => tfd'[x] = 1
    BY <2>2 DEF FileInv
  <2>5. ~file.exists => tfd'[k] = 1
    BY <2>2, <2>3 DEF FileInv
  <2> QED
    BY <1>1, <2>1, <2>2, <2>4, <2>5 DEF FileInv
<1>3. CASE tfd' = tfd /\ UNCHANGED file
  BY <1>1, <1>3 DEF FileInv
<1>4. CASE tfd' = tfd /\ \E fd, line : Write(fd, line)
  <2>1. file'.exists = file.exists /\ file'.ino = file.ino
    BY <1>t, <1>4 DEF Write, FileType
  <2> QED
    BY <1>1, <1>4, <2>1 DEF FileInv
<1> QED
  BY <1>2, <1>3, <1>4
     DEF TimerFires, TimerRuns, TimerLocks, TimerObtains, TimerOpens, TimerAppends, TimerUnlocks

\* Every step, when moreover no signal comes before main has opened the file.
LEMMA NextFile ==
  ASSUME "open" \notin SignalPoints
  PROVE  ServerInv /\ LockInv /\ HandlerInv /\ ExitInv /\ FileInv /\ [Next]_vars => FileInv'
<1> SUFFICES ASSUME ServerInv, LockInv, HandlerInv, ExitInv, FileInv, [Next]_vars
             PROVE  FileInv'
  OBVIOUS
<1>1. CASE UNCHANGED vars
  BY <1>1 DEF vars, main, handler, timers, FileInv
<1>2. ASSUME NEW d \in Conns, ConnRuns(d) \/ ConnWaits(d) PROVE FileInv'
  <2>t. file \in FileType
    BY DEF ServerInv, ThreadType
  <2>1. /\ ~(stopApp /\ hpc = "none") /\ hpc' = hpc /\ stopApp' = stopApp
        /\ mpc' = mpc \/ mpc' = "killed"
    BY <1>2, RunningBeforeExit
  <2>2. tfd' = tfd
    BY <1>2 DEF ConnRuns, ConnWaits, ConnOpens, SeekEnd, ConnLocks, ConnObtains, ConnAppends,
       ConnReads, ConnUnlocks, CloseClient, CloseData, Release, Cancelled, Recv, RecvEnds, ConnSends,
       ConnSendFails, ConnStep, timers
  <2>3. OpenDatafile \/ UNCHANGED file \/ \E fd, line : Write(fd, line)
    BY <1>2 DEF ConnRuns, ConnWaits, ConnOpens, SeekEnd, ConnLocks, ConnObtains, ConnAppends,
       ConnReads, ConnUnlocks, CloseClient, CloseData, Release, Cancelled, Recv, RecvEnds, ConnSends,
       ConnSendFails
  <2>4. file'.ino = file.ino /\ (file.exists => file'.exists)
    BY <2>t, <2>3 DEF OpenDatafile, Write, FileType
  <2> QED
    BY <2>1, <2>2, <2>4 DEF FileInv
<1>3. ASSUME NEW k \in Expiries, TimerFires(k) \/ TimerRuns(k) PROVE FileInv'
  BY <1>3, TimerKeepsFile
<1> QED
  BY <1>1, <1>2, <1>3, MainKeepsFile DEF Next, Idle

LEMMA InitFile == Init => FileInv
BY ServerAssumption DEF Init, FileInv

(***************************************************************************)
(* A server that was told to stop leaves no data file but one that a       *)
(* timer_action in flight created, unless a signal met main between the    *)
(* return of accept() and SLIST_INSERT_HEAD (the late thread may open the  *)
(* file) or before main itself opened it (main creates it after the        *)
(* handler has removed it).                                                *)
(***************************************************************************)
THEOREM ServerLeavesNoFile ==
  ASSUME SignalPoints \cap {"create", "insert", "open"} = {}
  PROVE  Spec => []NoFileLeft
<1>1. "open" \notin SignalPoints /\ SignalPoints \cap {"create", "insert"} = {}
  OBVIOUS
<1>2. ServerInv /\ LockInv /\ HandlerInv /\ ExitInv /\ FileInv /\ [Next]_vars => FileInv'
  BY <1>1, NextFile
<1>3. HandlerInv /\ ExitInv /\ FileInv => NoFileLeft
  BY DEF HandlerInv, ExitInv, FileInv, NoFileLeft
<1>4. Spec => []ExitInv
  BY <1>1, ServerExits
<1> QED
  BY <1>2, <1>3, <1>4, InitFile, ServerLists, PTL DEF Spec
=============================================================================
