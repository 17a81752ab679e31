--------------------------------- MODULE Node ---------------------------------
(***************************************************************************)
(* One node as a whole, from start-up to the end of its process: the REPL  *)
(* of main.c, the dispatcher it calls and the worker that serves the tasks *)
(* of this node's user beside those of others.                             *)
(*                                                                         *)
(* Worker and Dispatcher are the modules of these names, joined at the     *)
(* connections of the node's own tasks.  The peer table is empty, so that  *)
(* every submitted task goes to the node itself.                           *)
(*                                                                         *)
(* When the process ends its threads stop wherever they are.  Its children *)
(* go on: none was opened close-on-exec, so they keep the clients' sockets *)
(* and the listening socket open until they end.                           *)
(***************************************************************************)
EXTENDS Integers, FiniteSets, Sequences

CONSTANTS
    Conns, MaxTasks, MaxChunks, BadSource,  \* see Worker
    Printers, \* bound: the connections whose children print anything
    Own,      \* the connections that carry the tasks submitted at this node's REPL
    Signals,  \* the signals the process may get, of {"INT", "TERM"}
    Self      \* this node

Remote == Conns \ Own

VARIABLES
    loop, pc, stage, code, active, total, src, writers, bin, orphan, child, buf, client,
    sent, alone,                                             \* of Worker
    step, task, told, target, sentTo, got, shown, rc,        \* of Dispatcher
    repl,     \* where main() stands
    running   \* g_running

workerVars == <<loop, pc, stage, code, active, total, src, writers, bin, orphan, child, buf,
                client, sent, alone>>
dispatchVars == <<step, task, told, target, sentTo, got, shown, rc>>
vars == <<workerVars, dispatchVars, repl, running>>

\* Failing system calls, and clients that leave or send no valid task, are in Worker's runs.
W == INSTANCE Worker WITH Malformed <- {}, Leavers <- {}, Faults <- {}

\* What dispatch() reads from a connection, without the history that Worker adds.
Seen(m) == IF m.type = "OUTPUT" THEN [type |-> "OUTPUT", stage |-> m.stage] ELSE m

\* The dispatcher's connection is over when the worker is done with it, unless
\* dispatch() closed its own end before.
D == INSTANCE Dispatcher WITH
    Peers <- {}, Tasks <- Own, Codes <- W!Codes, MaxOut <- 2 * MaxChunks,
    Reports <- {[load1 |-> 0, cores |-> 1, active |-> 0]},
    NoAnswer <- 1000, Worst <- 10000,
    left <- {}, best <- [score |-> 10000, host |-> "nobody", port |-> "nobody"],
    stream <- [t \in Own |-> [i \in DOMAIN sent[t] |-> Seen(sent[t][i])]],
    closed <- [t \in Own |-> pc[t] \in W!Terminal /\ client[t] = "connected"]

\* A connection is no reserved name of Worker, the node none of Dispatcher.
ASSUME NodeAssumption ==
    /\ Own \subseteq Conns /\ Printers \subseteq Conns
    /\ Signals \subseteq {"INT", "TERM"}
    /\ W!WorkerAssumption /\ D!DispatcherAssumption

Phases == {"settle", "prompt", "dispatch", "bye", "exited"}

Up == repl # "exited"

TypeOK ==
    /\ W!TypeOK /\ D!TypeOK
    /\ repl \in Phases /\ running \in BOOLEAN
    /\ Up => (repl = "dispatch" <=> step # "idle")

\* worker_start, discovery_start and the load responder have been called; main() sleeps.
Init ==
    /\ W!Init /\ D!Init
    /\ repl = "settle" /\ running = TRUE

-------------------------------------------------------------------------------
\* run_repl

\* while (g_running)
LoopTop == IF running THEN "prompt" ELSE "bye"

\* sleep(2) is over, or cut short by a signal.
Settled ==
    /\ repl = "settle" /\ repl' = LoopTop
    /\ UNCHANGED <<workerVars, dispatchVars, running>>

\* A line that starts nothing: empty, `peers`, unknown, or the name of a file that
\* read_file cannot open, finds empty or finds too large.
OtherLine ==
    /\ repl = "prompt" /\ repl' = LoopTop
    /\ UNCHANGED <<workerVars, dispatchVars, running>>

\* `quit` or `exit`, or the end of the input (g_running is not read again).
QuitLine ==
    /\ repl = "prompt" /\ repl' = "bye"
    /\ running' = FALSE
    /\ UNCHANGED <<workerVars, dispatchVars>>

SubmitLine(t) ==
    /\ repl = "prompt" /\ repl' = "dispatch"
    /\ UNCHANGED <<workerVars, running>>
    /\ D!Submit(t)

Line == OtherLine \/ QuitLine \/ \E t \in Own : SubmitLine(t)

\* Altered: dispatch() returns without closing the socket.
HangsNot(t) == UNCHANGED client

\* dispatch() closes the socket before it returns to the loop.
Hangs(t) ==
    client' = IF pc[t] \in W!Terminal THEN client ELSE [client EXCEPT ![t] = "gone"]
KeepsTasks ==
    UNCHANGED <<loop, pc, stage, code, active, total, src, writers, bin, orphan, child, buf,
                sent, alone, running>>

Choose ==
    /\ repl = "dispatch"
    /\ UNCHANGED <<workerVars, repl, running>>
    /\ D!Choose

\* The kernel completes the connection; or tcp_connect fails, for want of a descriptor.
Connect ==
    /\ repl = "dispatch" /\ step = "connect"
    /\ \/ W!ClientConnects(task) /\ step' = "send" /\ UNCHANGED repl
       \/ UNCHANGED workerVars /\ step' = "idle" /\ repl' = LoopTop
    /\ UNCHANGED running
    /\ D!Connect

\* Sending fails only when the worker has closed the connection.
SendTask ==
    /\ repl = "dispatch" /\ step = "send"
    /\ KeepsTasks
    /\ \/ step' = "receive" /\ UNCHANGED <<client, repl>>
       \/ /\ pc[task] \in {"closed", "rejected"}
          /\ step' = "idle" /\ Hangs(task) /\ repl' = LoopTop
    /\ D!SendTask

ReadOutput ==
    /\ repl = "dispatch"
    /\ UNCHANGED <<workerVars, repl, running>>
    /\ D!ReadOutput

ReadDone ==
    /\ repl = "dispatch" /\ step = "receive"
    /\ KeepsTasks /\ Hangs(task) /\ repl' = LoopTop
    /\ D!ReadDone

\* Altered: the end of the connection is not noticed.
ReadEndIgnored == repl = "dispatch" /\ step = "receive" /\ UNCHANGED vars

\* recv_msg fails at the end of the connection, when no process holds it open any more.
ReadEnd ==
    /\ repl = "dispatch" /\ step = "receive"
    /\ got[task] = Len(sent[task]) /\ W!SockClosed(task)
    /\ KeepsTasks /\ Hangs(task) /\ repl' = LoopTop
    /\ D!ReadFails

Repl == Settled \/ Choose \/ Connect \/ SendTask \/ ReadOutput \/ ReadDone \/ ReadEnd
-------------------------------------------------------------------------------
\* The end of the process, and signals

\* Threads, memory and descriptors are gone; files, children and what was sent remain.
\* Connections in the listening socket's queue last as long as that socket.
Dies ==
    /\ repl' = "exited" /\ running' = FALSE /\ loop' = "dead"
    /\ pc' = [c \in Conns |-> IF pc[c] \in {"idle", "queued", "rejected"} THEN pc[c]
                              ELSE "closed"]
    /\ active' = 0 /\ total' = 0 /\ code' = [c \in Conns |-> 0]
    /\ writers' = {} /\ buf' = [c \in Conns |-> 0]
    /\ UNCHANGED <<stage, src, bin, orphan, child, client, sent, alone, dispatchVars>>

\* discovery_send_bye, and main() returns.
Exit == repl = "bye" /\ Dies

\* The web bridge terminates its node, at any time.
Terminate == "TERM" \in Signals /\ Up /\ Dies

\* Altered: the handler leaves the REPL at once.
SigintLeaves ==
    /\ "INT" \in Signals /\ Up /\ running
    /\ running' = FALSE /\ repl' = "bye"
    /\ UNCHANGED <<workerVars, dispatchVars>>

\* on_sigint.  fgets and recv are restarted after the signal, so nothing else happens.
Sigint ==
    /\ "INT" \in Signals /\ Up /\ running
    /\ running' = FALSE
    /\ UNCHANGED <<workerVars, dispatchVars, repl>>
-------------------------------------------------------------------------------
\* The worker, its clients and children

Others == UNCHANGED <<dispatchVars, repl, running>>

\* A child holds the listening socket as well: the port is in use until the last one ends.
Listening == Up \/ \E d \in Conns : W!Live(d) \/ W!Orphaned(d)

RemoteConnects(c) == c \in Remote /\ Listening /\ W!ClientConnects(c) /\ Others

AcceptLoop == Up /\ W!AcceptLoop /\ Others

\* A handler of the node's own task waits in recv_msg until dispatch() has sent it.
Handler(c) ==
    /\ Up
    /\ pc[c] = "recv" /\ c \in Own => sentTo[c] # <<>> \/ client[c] = "gone"
    /\ W!Handler(c) /\ Others

ChildWrites(c) == Up /\ c \in Printers /\ W!ChildWrites(c) /\ Others
ChildEnds(c) == W!ChildEnds(c) /\ Others

Next ==
    \/ Line \/ Repl \/ Exit \/ Terminate \/ Sigint \/ AcceptLoop
    \/ \E c \in Conns : RemoteConnects(c) \/ Handler(c) \/ ChildWrites(c) \/ ChildEnds(c)

Spec == Init /\ [][Next]_vars

\* Orphans inherit the read ends of each other's pipes, and SIGPIPE is ignored in all of
\* them: two that print more than a pipe holds may wait for each other for ever.  One
\* alone has no reader, its writes fail and it goes on to its end.
OrphansBlock == ~ Up /\ Cardinality({c \in Conns : W!Live(c)}) > 1

\* As long as some thread or child can go on the machine does, no one of them promised a
\* turn before the others; children halt; a user who interrupted the node types one more
\* line, and is free to leave it at its prompt otherwise.
Progress ==
    \/ Repl \/ (~ running /\ Line) \/ Exit \/ AcceptLoop
    \/ \E c \in Conns : Handler(c) \/ (~ OrphansBlock /\ ChildEnds(c))

FairSpec == Spec /\ WF_vars(Progress)
-------------------------------------------------------------------------------
\* Properties

\* The composition keeps what Dispatcher assumes and promises: the real worker, with its
\* other clients, children and failures, is a worker as dispatch() expects one.
Implements == D!Spec

\* The exit code dispatch() returns for a task that overlapped no other is that of its own
\* program, and all it printed came from there.
EndToEnd ==
    \A t \in Own : alone[t] /\ rc[t] \in W!Codes =>
        W!OwnOutput(t) /\ W!OwnVerdict(t) /\ rc[t] = child[t].status

\* A line that was read is dealt with, and a node told to stop stops: dispatch() returns
\* whatever the node's other clients do, refused tasks and sockets held open by strangers'
\* children included, and SIGINT ends the process once it has.
Returns == repl = "dispatch" \/ ~ running ~> (repl = "prompt" /\ running) \/ ~ Up

\* A client of this node gets a verdict or sees its connection end, though the node may
\* quit or be killed with the task half done, unless orphans block each other for ever.
Ended(c) == W!SockClosed(c) \/ (pc[c] = "queued" /\ ~ Listening)
RemoteEnds ==
    \A c \in Remote : client[c] = "connected" ~>
        \/ \E i \in DOMAIN sent[c] : sent[c][i].type = "DONE"
        \/ Ended(c) \/ client[c] = "gone"
        \/ []OrphansBlock

\* README.md, Examples: "hello.c is compiled & run on the best peer": whenever dispatch()
\* returns a verdict, it is that of the submitted program, run if it compiles.
Submitted ==
    \A t \in Own : rc[t] \in W!Codes =>
        child[t].image = t /\ (t \notin BadSource => stage[t] = "run")
===============================================================================
