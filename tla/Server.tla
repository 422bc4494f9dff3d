------------------------------- MODULE Server -------------------------------
(***************************************************************************)
(* server/aesdsocket.c with server/datafile.c: the threads of aesdsocket   *)
(* and what they share.                                                    *)
(*                                                                         *)
(*   main thread         accepts, starts a thread per connection, keeps    *)
(*                       the threads in a list and joins finished ones     *)
(*   connection threads  receive lines; each line is appended to the data  *)
(*                       file and answered with the whole file, under the  *)
(*                       mutex                                             *)
(*   timer threads       (data file on disk only) append a timestamp under *)
(*                       the mutex                                         *)
(*   signal handler      on the main thread: cancels and joins the         *)
(*                       connection threads, destroys mutex and file       *)
(*                                                                         *)
(* Every blocking or file system call is a step of its own.  A line is one *)
(* cell of the data file, named by the thread that wrote it and a counter; *)
(* a recv() brings a piece of a line or the end of one.  Lines that are    *)
(* seek commands are not among them.                                       *)
(***************************************************************************)
EXTENDS Integers, SequencesExt

CONSTANTS Conns,          \* connections that clients make
          Expiries,       \* expirations of the timer, each with its thread
          NULL,
          UseCharDevice,  \* USE_AESD_CHAR_DEVICE: the data file is /dev/aesdchar
          Capacity,       \* how many lines the device keeps
          MaxRecv,        \* bound: pieces received on one connection
          Faults,         \* the calls that may fail: subset of FaultKinds
          SignalPoints,   \* where main may be when SIGTERM or SIGINT arrives
          MaxSignals,     \* bound: how many of them arrive
          Leftovers       \* what an earlier server may have left in the data file

FaultKinds == {"start", "accept", "create", "open", "write", "send", "sigpipe"}
MainLabels == {"start", "register", "open", "init", "timer", "loop", "accept", "create",
               "insert", "reap"}

ASSUME ServerAssumption ==
  /\ UseCharDevice \in BOOLEAN /\ MaxRecv \in Nat /\ Capacity \in Nat \ {0}
  /\ Faults \subseteq FaultKinds /\ SignalPoints \subseteq MainLabels
  /\ Conns \cap Expiries = {} /\ NULL \notin Conns \cup Expiries \cup (0..1)
  /\ MaxSignals \in Nat /\ Leftovers \subseteq Seq({<<NULL, 0>>}) /\ Leftovers # {}

VARIABLES
  mpc,         \* where the main thread is in main() and accept_conn()
  hpc,         \* where its signal handler is, "none" outside it
  resume,      \* where the handler was that it interrupted, "none" if it was main
  signals,     \* how many signals arrived
  stopApp, listening, timer,
  connections, \* the list of tracked threads, most recent first
  item,        \* the list cursor of main's cleanup_term_conn(0)
  hitem,       \* the list cursor of the handler
  freed,       \* connections whose argument block was freed
  mutex,       \* [owner, up]: up from pthread_mutex_init until it is destroyed
  cpc,         \* where each connection thread is
  conn,        \* the locals and the argument block of each connection thread
  cancel,      \* threads with a cancellation request
  tpc, tfd,    \* where each timer thread is; the inode it has open
  file         \* [exists, ino, data]: the data file and the contents by inode

handler == <<hpc, resume, signals, stopApp>>
main == <<mpc, handler, listening, timer, connections, item, hitem, freed>>
threads == <<cpc, conn, cancel>>
timers == <<tpc, tfd>>
vars == <<main, mutex, threads, timers, file>>

Inodes == 0..1  \* the data file is removed at most once

\* The values of the C variable data_fd: none yet, -1, or an open file.
NoFd == [ino |-> NULL, pos |-> 0]
BadFd == [ino |-> NULL, pos |-> -1]
Fd(ino, pos) == [ino |-> ino, pos |-> pos]

NewConn == [data_fd |-> NoFd, fds |-> 0, recvs |-> 0, has_nl |-> FALSE,
            dying |-> FALSE, sent |-> << >>]

Alive == mpc \notin {"exited", "killed"}
May(call) == call \in Faults

ListNext(c) == LET rest == {i \in 1..Len(connections) : i > 1 /\ connections[i - 1] = c}
               IN  IF rest = {} THEN NULL ELSE connections[CHOOSE i \in rest : TRUE]
ListFirst(list) == IF list = << >> THEN NULL ELSE list[1]

-----------------------------------------------------------------------------
(* datafile.c *)

\* open_datafile: O_CREAT
OpenDatafile == file' = [file EXCEPT !.exists = TRUE]

\* destroy_datafile
DestroyDatafile ==
  file' = IF UseCharDevice \/ ~file.exists THEN file
          ELSE [file EXCEPT !.exists = FALSE, !.ino = 1]

\* write() of one line at the position of fd; the device appends whatever the
\* position is and forgets its oldest line when it is full
Written(fd, line) ==
  LET d == file.data[fd.ino]
  IN  IF UseCharDevice THEN IF Len(d) < Capacity THEN Append(d, line)
                            ELSE Append(Tail(d), line)
      ELSE IF fd.pos < Len(d) THEN [d EXCEPT ![fd.pos + 1] = line]
      ELSE Append(d, line)

Write(fd, line) == file' = [file EXCEPT !.data[fd.ino] = Written(fd, line)]

-----------------------------------------------------------------------------
(* main, start_server, register_sighandlers, create_timer *)

MainAt(label) == mpc = label /\ hpc = "none"

\* make_daemon: the server goes on in the second child, the others exit; when
\* fork or setsid fails nothing is left that serves, and nothing is cleaned up
MakeDaemonFails == May("start") /\ mpc' = "exited" /\ UNCHANGED <<listening, file>>

\* start_server: on failure cleanup() and exit; the global server_fd is still 0
StartServer ==
  /\ MainAt("start")
  /\ \/ mpc' = "register" /\ listening' = TRUE /\ UNCHANGED file
     \/ May("start") /\ mpc' = "exited" /\ DestroyDatafile /\ UNCHANGED listening
     \/ MakeDaemonFails
  /\ UNCHANGED <<handler, timer, connections, item, hitem, freed, mutex,
                 threads, timers>>

RegisterSighandlers ==
  /\ MainAt("register")
  /\ mpc' = "open" \/ (May("start") /\ mpc' = "exited")
  /\ UNCHANGED <<handler, listening, timer, connections, item, hitem, freed,
                 mutex, threads, timers, file>>

\* open_datafile and close_datafile
MainOpensFile ==
  /\ MainAt("open")
  /\ \/ mpc' = "init" /\ OpenDatafile
     \/ May("open") /\ mpc' = "exited" /\ UNCHANGED file
  /\ UNCHANGED <<handler, listening, timer, connections, item, hitem, freed,
                 mutex, threads, timers>>

\* SLIST_INIT, pthread_mutex_init
MainInit ==
  /\ MainAt("init")
  /\ mpc' = "timer"
  /\ connections' = << >>
  /\ mutex' = [owner |-> NULL, up |-> TRUE]
  /\ UNCHANGED <<handler, listening, timer, item, hitem, freed, threads, timers, file>>

\* create_timer, which is done without when it fails
MainCreatesTimer ==
  /\ MainAt("timer")
  /\ mpc' = "loop"
  /\ \/ ~UseCharDevice /\ timer' = "armed"
     \/ (UseCharDevice \/ May("start")) /\ UNCHANGED timer
  /\ UNCHANGED <<handler, listening, connections, item, hitem, freed, mutex, threads,
                 timers, file>>

\* for( ; stopApp < 1 ; )
MainLoop ==
  /\ MainAt("loop")
  /\ mpc' = IF stopApp THEN "exited" ELSE "accept"
  /\ UNCHANGED <<handler, listening, timer, connections, item, hitem, freed,
                 mutex, threads, timers, file>>

-----------------------------------------------------------------------------
(* accept_conn and cleanup_term_conn(0) *)

\* accept() returns connection c
Accept(c) ==
  /\ MainAt("accept") /\ listening /\ cpc[c] = "none"
  /\ mpc' = "create" /\ item' = c
  /\ UNCHANGED <<handler, listening, timer, connections, hitem, freed, mutex,
                 threads, timers, file>>

\* accept() fails: once the socket is shut down, at the latest
AcceptFails ==
  /\ MainAt("accept")
  /\ ~listening \/ May("accept")
  /\ mpc' = "loop"
  /\ UNCHANGED <<handler, listening, timer, connections, item, hitem, freed, mutex,
                 threads, timers, file>>

\* pthread_create, with the argument block filled before; whether the server
\* is to stop is not looked at
CreateThread ==
  /\ MainAt("create")
  /\ mpc' = "insert"
  /\ cpc' = [cpc EXCEPT ![item] = "recv"]
  /\ UNCHANGED <<handler, listening, timer, connections, item, hitem, freed, mutex,
                 conn, cancel, timers, file>>

\* pthread_create fails; client_fd stays open, unused
CreateFails ==
  /\ MainAt("create") /\ May("create")
  /\ mpc' = "loop"
  /\ cpc' = [cpc EXCEPT ![item] = "refused"]
  /\ freed' = freed \cup {item}
  /\ UNCHANGED <<handler, listening, timer, connections, item, hitem, mutex,
                 conn, cancel, timers, file>>

\* SLIST_INSERT_HEAD
InsertConn ==
  /\ MainAt("insert")
  /\ connections' = <<item>> \o connections
  /\ mpc' = "reap"
  /\ UNCHANGED <<handler, listening, timer, item, hitem, freed, mutex,
                 threads, timers, file>>

\* Mutant: the list is walked without saving the next item.
TryJoinUnsafe ==
  /\ MainAt("reap")
  /\ IF item = NULL
     THEN mpc' = "loop" /\ UNCHANGED <<connections, item, freed>>
     ELSE IF cpc[item] = "done"
     THEN /\ connections' = RemoveFirst(connections, item)
          /\ freed' = freed \cup {item}
          /\ UNCHANGED <<mpc, item>>
     ELSE /\ item' = ListNext(item)
          /\ UNCHANGED <<mpc, connections, freed>>
  /\ UNCHANGED <<handler, listening, timer, hitem, mutex, threads, timers, file>>

\* Mutant: the result of pthread_tryjoin_np is not looked at.
TryJoinUnchecked ==
  /\ MainAt("reap")
  /\ IF item = NULL
     THEN mpc' = "loop" /\ UNCHANGED <<connections, item, freed>>
     ELSE /\ item' = ListNext(item)
          /\ connections' = RemoveFirst(connections, item)
          /\ freed' = freed \cup {item}
          /\ UNCHANGED mpc
  /\ UNCHANGED <<handler, listening, timer, hitem, mutex, threads, timers, file>>

(***************************************************************************)
(* One item of the walk, which began at the item just inserted:            *)
(* pthread_tryjoin_np; a joined thread leaves the list.  An item the       *)
(* handler freed meanwhile is undefined behaviour: it may end the process  *)
(* or the walk.                                                            *)
(***************************************************************************)
TryJoin ==
  /\ MainAt("reap")
  /\ IF item = NULL \/ ~Contains(connections, item)
     THEN /\ mpc' = "loop" \/ (item # NULL /\ mpc' = "killed")
          /\ UNCHANGED <<connections, item, freed>>
     ELSE /\ item' = ListNext(item)
          /\ connections' = IF cpc[item] = "done" THEN RemoveFirst(connections, item)
                            ELSE connections
          /\ freed' = IF cpc[item] = "done" THEN freed \cup {item} ELSE freed
          /\ UNCHANGED mpc
  /\ UNCHANGED <<handler, listening, timer, hitem, mutex, threads, timers, file>>
-----------------------------------------------------------------------------
(* connnection_handler *)

\* A step of thread c from one label to another, unless it is at a
\* cancellation point with a request pending.
ConnStep(c, from, to) ==
  /\ Alive /\ cpc[c] = from
  /\ c \in cancel /\ ~conn[c].dying =>
       from \notin {"recv", "open", "append", "read", "send",
                    "close_client", "close_data"}
  /\ cpc' = [cpc EXCEPT ![c] = to]
  /\ UNCHANGED <<cancel, timers, handler, listening, timer, connections, item,
                 hitem, freed>>

Break == "close_client"  \* out of the loop, into connection_cleanup

\* recv(): a piece without or with a newline; a piece is scanned and appended
\* to the connection's own buffer once the file is open
Recv(c) ==
  /\ ConnStep(c, "recv", "open")
  /\ conn[c].recvs < MaxRecv
  /\ \E has_nl \in BOOLEAN :
       conn' = [conn EXCEPT ![c].recvs = @ + 1, ![c].has_nl = has_nl]
  /\ UNCHANGED <<mpc, mutex, file>>

\* recv() returns 0 or -1
RecvEnds(c) ==
  /\ ConnStep(c, "recv", Break)
  /\ UNCHANGED <<mpc, conn, mutex, file>>

\* open_datafile, on every piece; the previous data_fd is overwritten
ConnOpens(c) ==
  /\ ConnStep(c, "open", "seek")
  /\ \/ /\ OpenDatafile
        /\ conn' = [conn EXCEPT ![c].data_fd = Fd(file.ino, 0), ![c].fds = @ + 1]
     \/ /\ May("open")
        /\ conn' = [conn EXCEPT ![c].data_fd = BadFd]
        /\ UNCHANGED file
  /\ UNCHANGED <<mpc, mutex>>

\* adjust_datafile_pos(data_fd, 0, SEEK_END), before the mutex is taken; on
\* the device it does nothing and reports success
SeekEnd(c) ==
  LET fd == conn[c].data_fd
      rest == IF conn[c].has_nl THEN "lock" ELSE "recv"
  IN  /\ IF UseCharDevice THEN ConnStep(c, "seek", rest) /\ UNCHANGED conn
         ELSE IF fd = BadFd THEN ConnStep(c, "seek", Break) /\ UNCHANGED conn
         ELSE /\ ConnStep(c, "seek", rest)
              /\ conn' = [conn EXCEPT ![c].data_fd.pos = Len(file.data[fd.ino])]
      /\ UNCHANGED <<mpc, mutex, file>>

(***************************************************************************)
(* pthread_mutex_lock, not a cancellation point.  It looks at the mutex    *)
(* and refuses one that was destroyed; a thread that is past this look     *)
(* obtains the mutex when it is free, also one destroyed meanwhile.        *)
(***************************************************************************)
ConnLocks(c) ==
  /\ ConnStep(c, "lock", IF mutex.up THEN "wait" ELSE Break)
  /\ UNCHANGED <<mpc, conn, mutex, file>>

\* Mutant: the thread goes on without the mutex.
ConnObtainsNothing(c) ==
  /\ ConnStep(c, "wait", "append")
  /\ UNCHANGED <<mpc, conn, mutex, file>>

ConnObtains(c) ==
  /\ ConnStep(c, "wait", "append")
  /\ mutex.owner = NULL
  /\ mutex' = [mutex EXCEPT !.owner = c]
  /\ UNCHANGED <<mpc, conn, file>>

\* pthread_mutex_unlock by the owner: refused once the mutex was destroyed
Unlock == mutex' = IF mutex.up THEN [mutex EXCEPT !.owner = NULL] ELSE mutex

\* Mutant: the answer starts where the write ended.
ConnAppendsNoRewind(c) ==
  LET fd == conn[c].data_fd
  IN  /\ ConnStep(c, "append", "read")
      /\ \/ /\ fd # BadFd
            /\ Write(fd, <<c, conn[c].recvs>>)
            /\ conn' = [conn EXCEPT ![c].data_fd.pos = @ + 1, ![c].sent = << >>]
         \/ /\ fd = BadFd \/ May("write")
            /\ conn' = [conn EXCEPT ![c].sent = << >>]
            /\ UNCHANGED file
      /\ UNCHANGED <<mpc, mutex>>

(***************************************************************************)
(* append_datafile: write() the line; a failure is logged only.  Then      *)
(* send_response goes back to the start: lseek on a file; on the device    *)
(* the driver's write has set the position to 0.                           *)
(***************************************************************************)
ConnAppends(c) ==
  LET fd == conn[c].data_fd
  IN  /\ ConnStep(c, "append", "read")
      /\ \/ fd # BadFd /\ Write(fd, <<c, conn[c].recvs>>)
         \/ (fd = BadFd \/ May("write")) /\ UNCHANGED file
      /\ conn' = [conn EXCEPT ![c].data_fd.pos = IF fd = BadFd THEN @ ELSE 0,
                              ![c].sent = << >>]
      /\ UNCHANGED <<mpc, mutex>>

\* send_response: read(); it returns 0 at the end, -1 on a bad descriptor
ConnReads(c) ==
  LET fd == conn[c].data_fd
  IN  /\ cpc[c] = "read"
      /\ IF fd # BadFd /\ fd.pos < Len(file.data[fd.ino])
         THEN /\ ConnStep(c, "read", "send")
              /\ conn' = [conn EXCEPT ![c].data_fd.pos = @ + 1]
         ELSE ConnStep(c, "read", "unlock") /\ UNCHANGED conn
      /\ UNCHANGED <<mpc, mutex, file>>

\* send_response: send(); it waits for a client that does not read
ConnSends(c) ==
  /\ ConnStep(c, "send", "read")
  /\ LET fd == conn[c].data_fd
     IN  conn' = [conn EXCEPT ![c].sent = Append(@, file.data[fd.ino][fd.pos])]
  /\ UNCHANGED <<mpc, mutex, file>>

\* send() fails: out of the loop with the mutex held; or it raises SIGPIPE,
\* which nothing handles
ConnSendFails(c) ==
  /\ \/ May("send") /\ ConnStep(c, "send", Break) /\ UNCHANGED mpc
     \/ May("sigpipe") /\ ConnStep(c, "send", Break) /\ mpc' = "killed"
  /\ UNCHANGED <<conn, mutex, file>>

\* pthread_mutex_unlock, and the bytes after the newline go to the buffer; out
\* of the loop when it fails
ConnUnlocks(c) ==
  /\ ConnStep(c, "unlock", IF mutex.up THEN "recv" ELSE Break)
  /\ Unlock
  /\ UNCHANGED <<mpc, conn, file>>

-----------------------------------------------------------------------------
(* connection_cleanup, at the end of the loop or of a cancelled thread *)

CloseClient(c) ==
  /\ ConnStep(c, "close_client", "close_data")
  /\ UNCHANGED <<mpc, conn, mutex, file>>

\* Mutant: the descriptor is closed whatever its value.
CloseDataAlways(c) ==
  /\ ConnStep(c, "close_data", "release")
  /\ conn' = [conn EXCEPT ![c].fds = @ - 1]
  /\ UNCHANGED <<mpc, mutex, file>>

\* close_datafile(args->data_fd), unless there is none
CloseData(c) ==
  /\ ConnStep(c, "close_data", "release")
  /\ conn' = [conn EXCEPT ![c].fds = IF conn[c].data_fd.ino = NULL THEN @ ELSE @ - 1]
  /\ UNCHANGED <<mpc, mutex, file>>

\* Mutant: the cleanup leaves the mutex alone.
ReleaseKeepsMutex(c) ==
  /\ ConnStep(c, "release", "done")
  /\ UNCHANGED <<mpc, conn, mutex, file>>

\* free the buffer; pthread_mutex_unlock fails quietly when it is not the owner
Release(c) ==
  /\ ConnStep(c, "release", "done")
  /\ IF mutex.owner = c THEN Unlock ELSE UNCHANGED mutex
  /\ UNCHANGED <<mpc, conn, file>>

(***************************************************************************)
(* The thread acts on a cancellation request.  Inside the loop             *)
(* connection_cleanup runs; pthread_cleanup_pop has unregistered it when   *)
(* it runs at the end of the loop, so that a request met by one of its own *)
(* calls ends the thread there.                                            *)
(***************************************************************************)
Cancelled(c) ==
  /\ Alive /\ c \in cancel /\ ~conn[c].dying
  /\ \/ /\ cpc[c] \in {"recv", "open", "append", "read", "send"}
        /\ cpc' = [cpc EXCEPT ![c] = "close_client"]
        /\ conn' = [conn EXCEPT ![c].dying = TRUE]
     \/ /\ cpc[c] \in {"close_client", "close_data"}
        /\ cpc' = [cpc EXCEPT ![c] = "done"]
        /\ UNCHANGED conn
  /\ UNCHANGED <<main, mutex, cancel, timers, file>>

-----------------------------------------------------------------------------
(* timer_action *)

TimerStep(k, from, to) ==
  /\ Alive /\ tpc[k] = from
  /\ tpc' = [tpc EXCEPT ![k] = to]
  /\ UNCHANGED <<main, threads>>

TimerFires(k) ==
  /\ timer = "armed"
  /\ TimerStep(k, "idle", "lock")
  /\ UNCHANGED <<mutex, tfd, file>>

\* pthread_mutex_lock, as in ConnLocks and ConnObtains
TimerLocks(k) ==
  /\ TimerStep(k, "lock", IF mutex.up THEN "wait" ELSE "done")
  /\ UNCHANGED <<mutex, tfd, file>>

TimerObtains(k) ==
  /\ TimerStep(k, "wait", "open")
  /\ mutex.owner = NULL
  /\ mutex' = [mutex EXCEPT !.owner = k]
  /\ UNCHANGED <<tfd, file>>

TimerOpens(k) ==
  /\ \/ TimerStep(k, "open", "append") /\ tfd' = [tfd EXCEPT ![k] = file.ino]
        /\ OpenDatafile
     \/ May("open") /\ TimerStep(k, "open", "unlock") /\ UNCHANGED <<tfd, file>>
  /\ UNCHANGED mutex

\* adjust_datafile_pos to the end, append_datafile, close_datafile
TimerAppends(k) ==
  /\ TimerStep(k, "append", "unlock")
  /\ \/ Write(Fd(tfd[k], Len(file.data[tfd[k]])), <<k, 1>>)
     \/ May("write") /\ UNCHANGED file
  /\ UNCHANGED <<mutex, tfd>>

TimerUnlocks(k) ==
  /\ TimerStep(k, "unlock", "done")
  /\ Unlock
  /\ UNCHANGED <<tfd, file>>
-----------------------------------------------------------------------------
(* signal_handler, on the main thread *)

HandlerAt(label) == Alive /\ hpc = label

(***************************************************************************)
(* SIGINT or SIGTERM: the default action before register_sighandlers,      *)
(* afterwards the handler interrupts main.  While the handler of one runs, *)
(* that of the other may interrupt it; then both signals are blocked.      *)
(***************************************************************************)
Signal ==
  /\ Alive /\ mpc \in SignalPoints /\ resume = "none" /\ signals < MaxSignals
  /\ signals' = signals + 1
  /\ IF mpc \in {"start", "register"}
     THEN mpc' = "killed" /\ UNCHANGED <<hpc, resume, stopApp>>
     ELSE /\ stopApp' = TRUE
          /\ hpc' = "shutdown" /\ resume' = hpc
          /\ UNCHANGED mpc
  /\ UNCHANGED <<listening, timer, connections, item, hitem, freed, mutex, threads,
                 timers, file>>

(***************************************************************************)
(* shutdown() and close() of the listening socket, timer_delete.  Once the *)
(* socket is closed shutdown() fails, and the handler calls it again and   *)
(* again.                                                                  *)
(***************************************************************************)
Retrying == Alive /\ hpc = "shutdown" /\ ~listening

\* Mutant: the handler leaves the connection threads alone.
HandlerSkipsThreads ==
  /\ HandlerAt("shutdown") /\ listening
  /\ listening' = FALSE
  /\ timer' = IF timer = "armed" THEN "deleted" ELSE timer
  /\ hpc' = "destroy"
  /\ UNCHANGED <<mpc, resume, signals, stopApp, connections, item, hitem, freed, mutex,
                 threads, timers, file>>

HandlerShutsDown ==
  /\ HandlerAt("shutdown") /\ listening
  /\ listening' = FALSE
  /\ timer' = IF timer = "armed" THEN "deleted" ELSE timer
  /\ hpc' = "cancel" /\ hitem' = ListFirst(connections)
  /\ UNCHANGED <<mpc, resume, signals, stopApp, connections, item, freed, mutex,
                 threads, timers, file>>

\* Mutant: the threads are joined without having been cancelled.
HandlerCancelsNone ==
  /\ HandlerAt("cancel")
  /\ hpc' = "join" /\ hitem' = ListFirst(connections)
  /\ UNCHANGED <<mpc, resume, signals, stopApp, listening, timer, connections, item, freed, mutex,
                 threads, timers, file>>

\* SLIST_FOREACH: pthread_cancel
HandlerCancels ==
  /\ HandlerAt("cancel")
  /\ IF hitem = NULL
     THEN hpc' = "join" /\ hitem' = ListFirst(connections) /\ UNCHANGED cancel
     ELSE /\ cancel' = cancel \cup {hitem}
          /\ hitem' = ListNext(hitem)
          /\ UNCHANGED hpc
  /\ UNCHANGED <<mpc, resume, signals, stopApp, listening, timer, connections, item, freed, mutex,
                 cpc, conn, timers, file>>

\* Mutant: cleanup_term_conn is told not to wait.
HandlerTriesJoin ==
  /\ HandlerAt("join")
  /\ IF hitem = NULL
     THEN hpc' = "destroy" /\ UNCHANGED <<connections, hitem, freed>>
     ELSE /\ connections' = IF cpc[hitem] = "done" THEN RemoveFirst(connections, hitem)
                            ELSE connections
          /\ freed' = IF cpc[hitem] = "done" THEN freed \cup {hitem} ELSE freed
          /\ hitem' = ListNext(hitem)
          /\ UNCHANGED hpc
  /\ UNCHANGED <<mpc, resume, signals, stopApp, listening, timer, item, mutex, threads, timers, file>>

\* cleanup_term_conn(1): pthread_join waits for the thread
HandlerJoins ==
  /\ HandlerAt("join")
  /\ IF hitem = NULL
     THEN hpc' = "destroy" /\ UNCHANGED <<connections, hitem, freed>>
     ELSE /\ cpc[hitem] = "done"
          /\ connections' = RemoveFirst(connections, hitem)
          /\ freed' = freed \cup {hitem}
          /\ hitem' = ListNext(hitem)
          /\ UNCHANGED hpc
  /\ UNCHANGED <<mpc, resume, signals, stopApp, listening, timer, item, mutex, threads, timers, file>>

\* pthread_mutex_destroy: refused with EBUSY while the mutex is held
HandlerDestroysMutex ==
  /\ HandlerAt("destroy")
  /\ mutex' = IF mutex.owner = NULL THEN [mutex EXCEPT !.up = FALSE] ELSE mutex
  /\ hpc' = "remove"
  /\ UNCHANGED <<mpc, resume, signals, stopApp, listening, timer, connections, item, hitem, freed,
                 threads, timers, file>>

\* destroy_datafile, and what was interrupted goes on
HandlerRemovesFile ==
  /\ HandlerAt("remove")
  /\ DestroyDatafile
  /\ hpc' = resume /\ resume' = "none"
  /\ UNCHANGED <<mpc, signals, stopApp, listening, timer, connections, item, hitem, freed,
                 mutex, threads, timers>>

-----------------------------------------------------------------------------
Init ==
  /\ mpc = "start" /\ hpc = "none" /\ resume = "none" /\ signals = 0
  /\ stopApp = FALSE /\ listening = FALSE /\ timer = "none"
  /\ connections = << >> /\ item = NULL /\ hitem = NULL /\ freed = {}
  /\ mutex = [owner |-> NULL, up |-> FALSE]
  /\ cpc = [c \in Conns |-> "none"]
  /\ conn = [c \in Conns |-> NewConn]
  /\ cancel = {}
  /\ tpc = [k \in Expiries |-> "idle"]
  /\ tfd = [k \in Expiries |-> 0]
  /\ \E old \in Leftovers :
       file = [exists |-> old # << >>, ino |-> 0,
               data |-> [i \in Inodes |-> IF i = 0 THEN old ELSE << >>]]

\* What main does by itself, and what it waits for.
MainRuns ==
  \/ StartServer \/ RegisterSighandlers \/ MainOpensFile \/ MainInit \/ MainCreatesTimer
  \/ MainLoop \/ CreateThread \/ InsertConn \/ TryJoin
MainAccepts == AcceptFails \/ CreateFails \/ \E c \in Conns : Accept(c)

HandlerRuns ==
  \/ HandlerShutsDown \/ HandlerCancels \/ HandlerJoins \/ HandlerDestroysMutex \/ HandlerRemovesFile

\* What a connection thread does by itself, and where it waits for its client.
ConnRuns(c) ==
  \/ ConnOpens(c) \/ SeekEnd(c) \/ ConnLocks(c) \/ ConnObtains(c) \/ ConnAppends(c)
  \/ ConnReads(c) \/ ConnUnlocks(c) \/ CloseClient(c) \/ CloseData(c) \/ Release(c) \/ Cancelled(c)
ConnWaits(c) == Recv(c) \/ RecvEnds(c) \/ ConnSends(c) \/ ConnSendFails(c)

TimerRuns(k) ==
  \/ TimerLocks(k) \/ TimerObtains(k) \/ TimerOpens(k) \/ TimerAppends(k) \/ TimerUnlocks(k)

\* The process is gone, retries shutdown(), or waits for another connection
\* with nothing to do.
Idle ==
  /\ \/ ~Alive \/ Retrying
     \/ /\ MainAt("accept")
        /\ \A c \in Conns : cpc[c] \in {"done", "refused"}
  /\ UNCHANGED vars

Next ==
  \/ MainRuns \/ MainAccepts \/ Signal \/ HandlerRuns
  \/ \E c \in Conns : ConnRuns(c) \/ ConnWaits(c)
  \/ \E k \in Expiries : TimerFires(k) \/ TimerRuns(k)
  \/ Idle

(***************************************************************************)
(* Every thread that can run does.  Nothing is assumed of the clients:     *)
(* they may never send, never read and never close.                        *)
(***************************************************************************)
Fairness ==
  /\ WF_vars(MainRuns) /\ WF_vars(AcceptFails /\ ~listening) /\ WF_vars(HandlerRuns)
  /\ \A c \in Conns : WF_vars(ConnRuns(c))
  /\ \A k \in Expiries : WF_vars(TimerRuns(k))

Spec == Init /\ [][Next]_vars /\ Fairness

-----------------------------------------------------------------------------
(* Properties *)

Lines == (Conns \cup Expiries \cup {NULL}) \X Nat

\* The types of the shared state and of the threads' own.
TypeOK ==
  /\ mpc \in MainLabels \cup {"exited", "killed"}
  /\ {hpc, resume} \subseteq {"none", "shutdown", "cancel", "join", "destroy", "remove"}
  /\ signals \in 0..MaxSignals /\ stopApp \in BOOLEAN /\ listening \in BOOLEAN
  /\ timer \in {"none", "armed", "deleted"}
  /\ connections \in Seq(Conns) /\ freed \subseteq Conns /\ cancel \subseteq Conns
  /\ {item, hitem} \subseteq Conns \cup {NULL}
  /\ mutex.owner \in Conns \cup Expiries \cup {NULL} /\ mutex.up \in BOOLEAN
  /\ \A c \in Conns :
       /\ conn[c].data_fd.ino \in Inodes \cup {NULL}
       /\ conn[c].fds \in 0..MaxRecv /\ conn[c].recvs \in 0..MaxRecv
       /\ conn[c].sent \in Seq(Lines)
  /\ file.ino \in Inodes /\ \A i \in Inodes : file.data[i] \in Seq(Lines)

(***************************************************************************)
(* The data file is written and read back only by the thread that owns the *)
(* mutex, wherever threads are cancelled and whatever calls fail.          *)
(***************************************************************************)
MutexGuardsFile ==
  /\ \A c \in Conns : cpc[c] \in {"append", "read", "send", "unlock"} => mutex.owner = c
  /\ \A k \in Expiries : tpc[k] \in {"open", "append", "unlock"} => mutex.owner = k

(***************************************************************************)
(* Until the mutex is destroyed, a thread that has ended does not own it:  *)
(* every way out of the loop of connnection_handler, those with the mutex  *)
(* held included, goes through the unlock of connection_cleanup.           *)
(***************************************************************************)
NoAbandonedMutex ==
  \A x \in Conns \cup Expiries :
    mutex.up /\ mutex.owner = x => IF x \in Conns THEN cpc[x] # "done" ELSE tpc[x] # "done"

(***************************************************************************)
(* The answer to a line is a snapshot of the whole data file that contains *)
(* the line: the file does not change between the append and the last      *)
(* byte sent, which takes many steps.                                      *)
(***************************************************************************)
ReplyIsSnapshot ==
  \A c \in Conns :
    cpc[c] = "unlock" /\ conn[c].data_fd # BadFd =>
      /\ conn[c].sent = file.data[conn[c].data_fd.ino]
      /\ ~May("write") => Contains(conn[c].sent, <<c, conn[c].recvs>>)

(***************************************************************************)
(* cleanup_term_conn frees the argument block of a connection only when    *)
(* its thread has ended.                                                   *)
(***************************************************************************)
FreedAfterUse == \A c \in freed : cpc[c] \in {"done", "refused"}

(***************************************************************************)
(* "Looping thru LL and cleanup terminated connections and remove them     *)
(* from LL" (aesdsocket.h): the walk of main never stands on an item that  *)
(* has left the list, for it has been freed.                               *)
(***************************************************************************)
WalkStaysOnList ==
  MainAt("reap") /\ item # NULL => Contains(connections, item)

(***************************************************************************)
(* "append to the data file" (aesdsocket.c): a line once in the data file  *)
(* stays where it is.                                                      *)
(***************************************************************************)
AppendsOnly == [][\A i \in Inodes : IsPrefix(file.data[i], file'.data[i])]_vars

(***************************************************************************)
(* "looping thru connections and terminate threads" (aesdsocket.c): when a *)
(* server that was told to stop exits, all its connection threads have     *)
(* ended.  It takes that no connection is between accept() and the list    *)
(* when the signal arrives.                                                *)
(***************************************************************************)
ExitAfterThreads ==
  mpc = "exited" => \A c \in Conns : cpc[c] \in {"none", "done", "refused"}

(***************************************************************************)
(* "unlock mutex to allow successful mutex desctruction later"             *)
(* (aesdsocket.h): no joined thread holds the mutex when the handler       *)
(* destroys it.  Who may: the thread main has just created and not yet put *)
(* in the list, and a timer_action that timer_delete does not wait for.    *)
(***************************************************************************)
Untracked == Expiries \cup (IF mpc = "insert" THEN {item} ELSE {})
DestroyMeetsUntracked ==
  [][hpc = "destroy" /\ hpc' = "remove" => mutex.owner \in Untracked \cup {NULL}]_vars

(***************************************************************************)
(* A server on a data file that stopped on a signal has removed the file,  *)
(* also one an earlier server left.  Only a timer_action in flight, which  *)
(* timer_delete does not wait for, may have opened it once more, which     *)
(* creates it anew: another inode than the one removed.                    *)
(***************************************************************************)
NoFileLeft ==
  mpc = "exited" /\ stopApp /\ ~UseCharDevice /\ file.exists =>
    \E k \in Expiries : tfd[k] = 1

(***************************************************************************)
(* A server that received the signal terminates, although its threads may  *)
(* be waiting for the mutex and for clients that never read.  After a      *)
(* second signal the handler may retry shutdown() for ever.                *)
(***************************************************************************)
ShutdownCompletes == stopApp ~> ~Alive \/ (signals > 1 /\ Retrying)
=============================================================================
