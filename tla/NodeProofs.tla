------------------------------ MODULE NodeProofs ------------------------------
(***************************************************************************)
(* What holds of a whole node for any connections, tasks of its own and    *)
(* capacity: it is a worker as Dispatcher expects one, and dispatch()      *)
(* returns what the worker's processes really ended with.                  *)
(*                                                                         *)
(* WP and DP are the theorems of the composed modules.  To WP the          *)
(* dispatcher's closing its socket is a client that leaves, so the node's  *)
(* own tasks are Leavers.                                                  *)
(***************************************************************************)
EXTENDS Node, TLAPS

WP == INSTANCE WorkerFilesProofs WITH Malformed <- {}, Leavers <- Own, Faults <- {}

\* What Worker assumes is given.
LEMMA Given == WP!WorkerAssumption /\ WP!Reliable /\ Own \subseteq Conns
<1>1. WP!IsFiniteSet(Conns)
  BY NodeAssumption DEF W!WorkerAssumption, W!IsFiniteSet, WP!IsFiniteSet
<1>2. WP!WorkerAssumption
  BY <1>1, NodeAssumption
  DEF W!WorkerAssumption, WP!WorkerAssumption, WP!Absent, WP!Empty, WP!Torn, WP!Unread,
      W!Absent, W!Empty, W!Torn, W!Unread
<1>3. QED
  BY <1>2, NodeAssumption DEF WP!Reliable
-------------------------------------------------------------------------------
\* The worker's part of a step

\* The actions of W are those of WP.
LEMMA SameStart ==
  ASSUME NEW c
  PROVE  /\ W!ClientConnects(c) => WP!ClientConnects(c)
         /\ W!Accept(c) => WP!Accept(c)
         /\ W!Gate(c) => WP!Gate(c)
         /\ W!Receive(c) => WP!Receive(c)
         /\ W!StartActive(c) => WP!StartActive(c)
         /\ W!StartTotal(c) => WP!StartTotal(c)
         /\ W!OpenSource(c) => WP!OpenSource(c)
         /\ W!WriteSource(c) => WP!WriteSource(c)
<1> USE DEF W!Goto, WP!Goto, W!counters, WP!counters, W!files, WP!files, W!UsesFiles,
        WP!UsesFiles, W!Orphaned, WP!Orphaned, W!FilePCs, WP!FilePCs, W!Empty, WP!Empty, W!Torn,
        WP!Torn
<1>1. W!ClientConnects(c) => WP!ClientConnects(c)
  BY DEF W!ClientConnects, WP!ClientConnects
<1>2. W!Accept(c) => WP!Accept(c)
  BY DEF W!Accept, WP!Accept
<1>3. W!Gate(c) => WP!Gate(c)
  BY DEF W!Gate, WP!Gate
<1>4. W!Receive(c) => WP!Receive(c)
  BY DEF W!Receive, WP!Receive
<1>5. W!StartActive(c) => WP!StartActive(c)
  BY DEF W!StartActive, WP!StartActive
<1>6. W!StartTotal(c) => WP!StartTotal(c)
  BY DEF W!StartTotal, WP!StartTotal
<1>7. W!OpenSource(c) => WP!OpenSource(c)
  BY DEF W!OpenSource, WP!OpenSource
<1>8. W!WriteSource(c) => WP!WriteSource(c)
  BY DEF W!WriteSource, WP!WriteSource
<1>9. QED
  BY <1>1, <1>2, <1>3, <1>4, <1>5, <1>6, <1>7, <1>8

LEMMA SameWork ==
  ASSUME NEW c
  PROVE  /\ W!Pipe(c) => WP!Pipe(c)
         /\ W!Fork(c) => WP!Fork(c)
         /\ W!CloseWriteEnd(c) => WP!CloseWriteEnd(c)
         /\ W!Forward(c) => WP!Forward(c)
         /\ W!ForwardFails(c) => WP!ForwardFails(c)
         /\ W!ReadEOF(c) => WP!ReadEOF(c)
         /\ W!Wait(c) => WP!Wait(c)
         /\ W!SendDone(c) => WP!SendDone(c)
         /\ W!UnlinkSource(c) => WP!UnlinkSource(c)
         /\ W!UnlinkBinary(c) => WP!UnlinkBinary(c)
         /\ W!Finish(c) => WP!Finish(c)
         /\ W!CloseConn(c) => WP!CloseConn(c)
<1> USE DEF W!Goto, WP!Goto, W!counters, WP!counters, W!files, WP!files, W!Torn, WP!Torn,
        W!NewChild, WP!NewChild, W!NoChild, WP!NoChild, W!OpenPipes, WP!OpenPipes,
        W!OpenSocks, WP!OpenSocks, W!Unread, WP!Unread, W!Live, WP!Live, W!Exits, WP!Exits,
        W!Compiles, WP!Compiles, W!Killed, WP!Killed, W!PipeClosed, WP!PipeClosed, W!Reaps,
        WP!Reaps, W!Zombie, WP!Zombie, W!NothingToReap, WP!NothingToReap, W!Codes, WP!Codes,
        W!Absent, WP!Absent, W!Orphaned, WP!Orphaned
<1>1. W!Pipe(c) => WP!Pipe(c)
  BY DEF W!Pipe, WP!Pipe
<1>2. W!Fork(c) => WP!Fork(c)
  BY DEF W!Fork, WP!Fork
<1>3. W!CloseWriteEnd(c) => WP!CloseWriteEnd(c)
  BY DEF W!CloseWriteEnd, WP!CloseWriteEnd
<1>4. W!Forward(c) => WP!Forward(c)
  BY DEF W!Forward, WP!Forward
<1>5. W!ForwardFails(c) => WP!ForwardFails(c)
  BY DEF W!ForwardFails, WP!ForwardFails
<1>6. W!ReadEOF(c) => WP!ReadEOF(c)
  BY DEF W!ReadEOF, WP!ReadEOF
<1>7. W!Wait(c) => WP!Wait(c)
  BY DEF W!Wait, WP!Wait
<1>8. W!SendDone(c) => WP!SendDone(c)
  BY DEF W!SendDone, WP!SendDone
<1>9. W!UnlinkSource(c) => WP!UnlinkSource(c)
  BY DEF W!UnlinkSource, WP!UnlinkSource
<1>10. W!UnlinkBinary(c) => WP!UnlinkBinary(c)
  BY DEF W!UnlinkBinary, WP!UnlinkBinary
<1>11. W!Finish(c) => WP!Finish(c)
  BY DEF W!Finish, WP!Finish
<1>12. W!CloseConn(c) => WP!CloseConn(c)
  BY DEF W!CloseConn, WP!CloseConn
<1>13. QED
  BY <1>1, <1>2, <1>3, <1>4, <1>5, <1>6, <1>7, <1>8, <1>9, <1>10, <1>11, <1>12

LEMMA SameChild ==
  ASSUME NEW c
  PROVE  /\ W!GccReads(c) => WP!GccReads(c)
         /\ W!GccExits(c) => WP!GccExits(c)
         /\ W!OrphanEnds(c) => WP!OrphanEnds(c)
         /\ W!Exec(c) => WP!Exec(c)
         /\ W!ProgramExits(c) => WP!ProgramExits(c)
         /\ W!ChildWrites(c) => WP!ChildWrites(c)
<1> USE DEF W!counters, WP!counters, W!files, WP!files, W!Torn, WP!Torn, W!Unread, WP!Unread,
        W!Live, WP!Live, W!Exits, WP!Exits, W!Compiles, WP!Compiles, W!Absent, WP!Absent,
        W!Linking, WP!Linking, W!Orphaned, WP!Orphaned
<1>1. W!GccReads(c) => WP!GccReads(c)
  BY DEF W!GccReads, WP!GccReads
<1>2. W!GccExits(c) => WP!GccExits(c)
  BY DEF W!GccExits, WP!GccExits
<1>3. W!Exec(c) => WP!Exec(c)
  BY DEF W!Exec, WP!Exec
<1>4. W!ProgramExits(c) => WP!ProgramExits(c)
  BY DEF W!ProgramExits, WP!ProgramExits
<1>5. W!ChildWrites(c) => WP!ChildWrites(c)
  BY DEF W!ChildWrites, WP!ChildWrites
<1>6. W!OrphanEnds(c) => WP!OrphanEnds(c)
  BY DEF W!OrphanEnds, WP!OrphanEnds
<1>7. QED
  BY <1>1, <1>2, <1>3, <1>4, <1>5, <1>6

LEMMA SameHandler == ASSUME NEW c, W!Handler(c) PROVE WP!Handler(c)
BY SameStart, SameWork DEF W!Handler, WP!Handler

LEMMA SameEnds == ASSUME NEW c, W!ChildEnds(c) PROVE WP!ChildEnds(c)
BY SameChild DEF W!ChildEnds, WP!ChildEnds
-------------------------------------------------------------------------------
\* The invariant

\* dispatch() and the worker both have the connection open.
InUse(t) == client[t] = "connected" /\ pc[t] \notin WP!Terminal

\* How the three threads stand to each other while the process lives: the only connection of
\* the node's own that is in use is the one dispatch() waits for, and the worker is busy with
\* it only after it was sent the task.
Link ==
  /\ repl \in Phases /\ running \in BOOLEAN /\ DOMAIN sentTo = Own
  /\ step # "idle" => task \in Own
  /\ Up =>
       /\ repl = "dispatch" <=> step # "idle"
       /\ step \in {"send", "receive"} => client[task] = "connected"
       /\ \A t \in Own : InUse(t) => t = task /\ step \in {"send", "receive"}
       /\ \A t \in Own :
            client[t] = "connected" /\ pc[t] \in WP!WorkPCs => sentTo[t] # <<>>

\* The worker keeps its invariants up to the end of the process.
Healthy == Up => WP!TaskInv /\ \A c \in Conns : WP!Measured(c)

\* What was sent stays true beyond it, as the processes left behind have no verdict yet.
Recorded ==
  /\ WP!TypeOK /\ WP!BufferOwned /\ WP!Truthful
  /\ \A c \in Conns : WP!Live(c) => ~ WP!Has(sent[c], WP!DoneMsg)

NodeInv == Link /\ Healthy /\ Recorded

LEMMA HealthyRecorded ==
  ASSUME WP!TaskInv
  PROVE  Recorded
BY Given, WP!NoLiveVerdict DEF WP!TaskInv, WP!BaseInv, Recorded

LEMMA NodeInit == Init => NodeInv
<1> SUFFICES ASSUME Init PROVE NodeInv
  OBVIOUS
<1>1. WP!Init
  BY DEF Init, W!Init, WP!Init, W!Absent, WP!Absent, W!NoChild, WP!NoChild, W!Unread, WP!Unread
<1>2. Healthy /\ Recorded
  BY <1>1, Given, WP!TaskInit, WP!MeasuredInit, HealthyRecorded DEF Healthy
<1>3. Link
  <2>1. repl = "settle" /\ running = TRUE /\ step = "idle" /\ DOMAIN sentTo = Own
    BY DEF Init, D!Init
  <2>2. \A t \in Own : client[t] = "out"
    BY <1>1, Given DEF WP!Init
  <2>3. QED
    BY <2>1, <2>2 DEF Link, InUse, Phases
<1>4. QED
  BY <1>2, <1>3 DEF NodeInv
-------------------------------------------------------------------------------
\* The steps of a node as steps of its worker

\* The steps of the REPL that do not touch the worker.
Talks ==
  \/ Settled \/ OtherLine \/ QuitLine \/ (\E t \in Own : SubmitLine(t)) \/ Choose \/ ReadOutput
  \/ Sigint

\* Those of dispatch() on its connection, once it is made.
Converses == SendTask \/ ReadDone \/ ReadEnd

\* Those of the worker.
Serves(c) == W!Accept(c) \/ W!Gate(c) \/ Handler(c) \/ ChildWrites(c) \/ ChildEnds(c)

LEMMA NextOf ==
  ASSUME Next
  PROVE  \/ Talks \/ Connect \/ Converses \/ Exit \/ Terminate
         \/ \E c \in Conns : RemoteConnects(c) \/ (Serves(c) /\ Others)
BY DEF Next, Line, Repl, Talks, Converses, Serves, AcceptLoop, W!AcceptLoop, W!AcceptFails,
   Handler, ChildWrites, ChildEnds

LEMMA WorkerVars == UNCHANGED workerVars => UNCHANGED WP!vars
BY DEF workerVars, WP!vars, WP!counters, WP!files

LEMMA SameServes == ASSUME NEW c, Serves(c) PROVE WP!Serves(c)
BY SameStart, SameChild, SameHandler, SameEnds
DEF Serves, WP!Serves, Handler, ChildWrites, ChildEnds

LEMMA ServesNext == ASSUME NEW c \in Conns, WP!Serves(c) PROVE WP!Next /\ WP!Step(c)
BY DEF WP!Serves, WP!Step, WP!Next, WP!AcceptLoop

\* To the worker dispatch() is a client that leaves.
LEMMA ClosesAsClient ==
  ASSUME WP!TypeOK, NEW t \in Own, client[t] = "connected", KeepsTasks,
         Hangs(t) \/ UNCHANGED client
  PROVE  [WP!Next]_(WP!vars)
<1>1. W!Terminal = WP!Terminal /\ t \in Conns
  BY Given DEF W!Terminal, WP!Terminal
<1>2. CASE UNCHANGED client
  BY <1>2, WorkerVars DEF KeepsTasks, workerVars
<1>3. CASE pc[t] \notin WP!Terminal /\ Hangs(t)
  <2>1. WP!ClientLeaves(t)
    BY <1>1, <1>3 DEF Hangs, KeepsTasks, WP!ClientLeaves, WP!counters, WP!files
  <2>2. QED
    BY <1>1, <2>1 DEF WP!Next
<1>4. QED
  BY <1>1, <1>2, <1>3 DEF Hangs

LEMMA WorkerStep ==
  ASSUME Link, WP!TypeOK, Up, Next
  PROVE  [WP!Next]_(WP!vars) \/ Dies
<1>1. CASE Talks
  BY <1>1, WorkerVars
  DEF Talks, Settled, OtherLine, QuitLine, SubmitLine, Choose, ReadOutput, Sigint
<1>2. CASE Connect
  <2>1. CASE W!ClientConnects(task)
    <3>1. WP!ClientConnects(task) /\ task \in Conns
      BY <1>2, <2>1, SameStart, Given DEF Connect, Link
    <3>2. QED
      BY <3>1 DEF WP!Next
  <2>2. QED
    BY <1>2, <2>1, WorkerVars DEF Connect
<1>3. CASE Converses
  <2>1. client[task] = "connected" /\ task \in Own
    BY <1>3 DEF Converses, SendTask, ReadDone, ReadEnd, Link
  <2>2. KeepsTasks /\ (Hangs(task) \/ UNCHANGED client)
    BY <1>3 DEF Converses, SendTask, ReadDone, ReadEnd
  <2>3. QED
    BY <2>1, <2>2, ClosesAsClient
<1>4. CASE Exit \/ Terminate
  BY <1>4 DEF Exit, Terminate
<1>5. ASSUME NEW c \in Conns, RemoteConnects(c) PROVE [WP!Next]_(WP!vars)
  <2>1. WP!ClientConnects(c)
    BY <1>5, SameStart DEF RemoteConnects
  <2>2. QED
    BY <2>1 DEF WP!Next
<1>6. ASSUME NEW c \in Conns, Serves(c) PROVE [WP!Next]_(WP!vars)
  BY <1>6, SameServes, ServesNext
<1>7. QED
  BY <1>1, <1>2, <1>3, <1>4, <1>5, <1>6, NextOf
-------------------------------------------------------------------------------
\* The invariant is kept

LEMMA DiesStep ==
  ASSUME Recorded, Dies
  PROVE  Recorded' /\ ~ Up' /\ UNCHANGED dispatchVars
<1>1. WP!TypeOK'
  <2>1. pc' \in [Conns -> WP!PCs]
    BY DEF Dies, Recorded, WP!TypeOK, WP!PCs, WP!Terminal
  <2>2. \A c \in Conns : 0 \in WP!Codes /\ 0 \in 0 .. 1
    BY DEF WP!Codes
  <2>3. QED
    BY <2>1, <2>2 DEF Dies, Recorded, WP!TypeOK
<1>2. WP!BufferOwned'
  BY DEF Dies, WP!BufferOwned
<1>3. UNCHANGED <<sent, child, stage, alone, dispatchVars>> /\ repl' = "exited"
  BY DEF Dies
<1>4. WP!Truthful' /\ \A c \in Conns : WP!Live(c)' => ~ WP!Has(sent'[c], WP!DoneMsg)
  BY <1>3 DEF Recorded, WP!Truthful, WP!OwnMessages, WP!Own, WP!Live, WP!Has
<1>5. QED
  BY <1>1, <1>2, <1>3, <1>4 DEF Recorded, Up

\* A process left behind, or a client in the listening socket's queue, changes no record.
LEMMA DownStep ==
  ASSUME Link, Recorded, ~ Up, Next
  PROVE  /\ Recorded' /\ UNCHANGED <<dispatchVars, repl, running>>
         /\ UNCHANGED sent
         /\ \A t \in Own : pc'[t] = pc[t] /\ client'[t] = client[t]
<1>0. WP!TypeOK /\ WP!BufferOwned /\ WP!Truthful /\ Own \subseteq Conns
  BY Given DEF Recorded
<1>1. \E c \in Conns : RemoteConnects(c) \/ ChildEnds(c)
  BY DEF Next, Up, Line, OtherLine, QuitLine, SubmitLine, Repl, Settled, Choose, Connect,
         SendTask, ReadOutput, ReadDone, ReadEnd, Exit, Terminate, Sigint, AcceptLoop, Handler,
         ChildWrites
<1>2. ASSUME NEW c \in Conns, RemoteConnects(c)
      PROVE  /\ [WP!Next]_(WP!vars) /\ UNCHANGED <<dispatchVars, repl, running>>
             /\ UNCHANGED <<sent, child, stage, alone>>
             /\ \A t \in Own : pc'[t] = pc[t] /\ client'[t] = client[t]
  <2>1. WP!ClientConnects(c) /\ c \notin Own
    BY <1>2, SameStart DEF RemoteConnects, Remote
  <2>2. QED
    BY <1>0, <1>2, <2>1 DEF WP!Next, WP!ClientConnects, WP!Goto, WP!TypeOK, RemoteConnects, Others
<1>3. ASSUME NEW c \in Conns, ChildEnds(c)
      PROVE  /\ [WP!Next]_(WP!vars) /\ UNCHANGED <<dispatchVars, repl, running>>
             /\ WP!Live(c) \/ UNCHANGED child
             /\ UNCHANGED <<pc, stage, client, sent, alone>>
             /\ \A d \in Conns \ {c} : child'[d] = child[d]
  <2>1. WP!ChildEnds(c)
    BY <1>3, SameEnds DEF ChildEnds
  <2>2. QED
    BY <1>0, <1>3, <2>1, Given, WP!EndsOfOne DEF WP!Next, ChildEnds, Others
<1>4. WP!TypeOK' /\ WP!BufferOwned'
  <2>1. [WP!Next]_(WP!vars)
    BY <1>1, <1>2, <1>3
  <2>2. QED
    BY <1>0, <2>1, Given, WP!TypeStep, WP!BufferStep
<1>5. ASSUME NEW c \in Conns
      PROVE  /\ WP!OwnMessages(c) => WP!OwnMessages(c)'
             /\ WP!Live(c)' => ~ WP!Has(sent'[c], WP!DoneMsg)
             /\ UNCHANGED <<sent, alone>>
  <2>1. CASE UNCHANGED <<sent, child, stage, alone>>
    BY <2>1 DEF WP!OwnMessages, WP!Own, WP!Live, WP!Has, Recorded
  <2>2. ASSUME NEW x \in Conns, ChildEnds(x)
        PROVE  /\ WP!OwnMessages(c) => WP!OwnMessages(c)'
               /\ WP!Live(c)' => ~ WP!Has(sent'[c], WP!DoneMsg)
               /\ UNCHANGED <<sent, alone>>
    <3>1. UNCHANGED <<sent, alone, stage>> /\ (WP!Live(x) \/ UNCHANGED child)
      BY <1>3, <2>2
    <3>2. CASE c = x /\ WP!Live(x)
      <4>1. ~ WP!Has(sent[c], WP!DoneMsg)
        BY <3>1, <3>2 DEF Recorded
      <4>2. QED
        BY <1>0, <3>1, <4>1, Given, WP!MessagesKept DEF WP!Has
    <3>3. CASE c # x \/ UNCHANGED child
      <4>1. child'[c] = child[c]
        BY <1>3, <2>2, <3>3
      <4>2. QED
        BY <3>1, <4>1 DEF WP!OwnMessages, WP!Own, WP!Live, WP!Has, Recorded
    <3>4. QED
      BY <3>1, <3>2, <3>3
  <2>3. QED
    BY <1>1, <1>2, <2>1, <2>2
<1>6. QED
  BY <1>0, <1>1, <1>2, <1>3, <1>4, <1>5 DEF Recorded, WP!Truthful

\* The REPL at the top of its loop, between two lines.
LEMMA Idle ==
  ASSUME Link, repl' \in {"prompt", "bye"}, step' = "idle", running' \in BOOLEAN,
         DOMAIN sentTo' = Own,
         \A t \in Own : InUse(t)' => FALSE,
         \A t \in Own : client'[t] = "connected" /\ pc'[t] \in WP!WorkPCs => sentTo'[t] # <<>>
  PROVE  Link'
BY DEF Link, Up, Phases

LEMMA LinkTalks ==
  ASSUME Link, Up, Talks
  PROVE  Link'
<1> USE DEF Link, Up, Phases, InUse, workerVars
<1>1. CASE Settled \/ OtherLine \/ QuitLine
  BY <1>1 DEF Settled, OtherLine, QuitLine, LoopTop, dispatchVars
<1>2. ASSUME NEW t \in Own, SubmitLine(t) PROVE Link'
  BY <1>2 DEF SubmitLine, D!Submit, D!Goto, D!results
<1>3. CASE Choose
  BY <1>3 DEF Choose, D!Choose, D!results
<1>4. CASE ReadOutput
  BY <1>4 DEF ReadOutput, D!ReadOutput
<1>5. CASE Sigint
  BY <1>5 DEF Sigint, dispatchVars
<1>6. QED
  BY <1>1, <1>2, <1>3, <1>4, <1>5 DEF Talks

LEMMA LinkConnect ==
  ASSUME Link, WP!TypeOK, Up, Connect
  PROVE  Link'
<1> USE DEF Link, InUse, WP!TypeOK
<1>0. /\ step = "connect" /\ repl = "dispatch" /\ task \in Own /\ task \in Conns
      /\ UNCHANGED <<sentTo, running>>
  BY Given DEF Connect, D!Connect
<1>1. CASE W!ClientConnects(task) /\ step' = "send" /\ UNCHANGED repl
  <2>1. WP!ClientConnects(task) /\ UNCHANGED task
    BY <1>1, SameStart DEF Connect, D!Connect, D!Goto, D!Return
  <2>2. /\ client' = [client EXCEPT ![task] = "connected"]
        /\ pc' = [pc EXCEPT ![task] = "queued"]
    BY <2>1 DEF WP!ClientConnects, WP!Goto
  <2>3. QED
    BY <1>0, <1>1, <2>1, <2>2, Given DEF WP!WorkPCs, WP!CountedPCs, WP!FilePCs, Up
<1>2. CASE UNCHANGED workerVars /\ step' = "idle" /\ repl' = LoopTop
  BY <1>0, <1>2, Idle DEF workerVars, LoopTop
<1>3. QED
  BY <1>1, <1>2 DEF Connect

LEMMA LinkConverses ==
  ASSUME Link, WP!TypeOK, Up, Converses
  PROVE  Link'
<1>0. /\ repl = "dispatch" /\ task \in Own /\ task \in Conns /\ step \in {"send", "receive"}
      /\ UNCHANGED <<pc, running>> /\ running \in BOOLEAN /\ W!Terminal = WP!Terminal
  BY Given
  DEF Converses, SendTask, ReadDone, ReadEnd, Link, KeepsTasks, W!Terminal, WP!Terminal
<1>1. CASE SendTask /\ step' = "receive" /\ UNCHANGED <<client, repl>>
  <2>1. /\ D!Goto("send", "receive") /\ UNCHANGED task
        /\ sentTo' = [sentTo EXCEPT ![task] = Append(@, target)]
    BY <1>1 DEF SendTask, D!SendTask, D!Goto, D!Return
  <2>2. DOMAIN sentTo' = Own /\ \A t \in Own : sentTo[t] # <<>> => sentTo'[t] # <<>>
    BY <2>1 DEF Link
  <2>3. QED
    BY <1>0, <1>1, <2>1, <2>2 DEF Link, InUse, Up
<1>2. CASE Hangs(task) /\ step' = "idle" /\ repl' = LoopTop /\ UNCHANGED sentTo
  <2>1. \A t \in Own : client'[t] \in {client[t], "gone"}
    BY <1>0, <1>2, Given DEF Hangs, WP!TypeOK
  <2>2. \A t \in Own : InUse(t)' => InUse(t) /\ t # task
    BY <1>0, <1>2, <2>1, Given DEF Hangs, InUse, WP!TypeOK
  <2>3. QED
    BY <1>0, <1>2, <2>1, <2>2, Idle DEF Link, LoopTop
<1>3. CASE SendTask /\ ~ (step' = "receive" /\ UNCHANGED <<client, repl>>)
  <2>1. Hangs(task) /\ step' = "idle" /\ repl' = LoopTop
    BY <1>3 DEF SendTask
  <2>2. UNCHANGED sentTo
    BY <1>3, <2>1 DEF SendTask, D!SendTask, D!Goto
  <2>3. QED
    BY <1>2, <2>1, <2>2
<1>4. CASE ReadDone
  <2>1. step' = "idle" /\ UNCHANGED sentTo
    BY <1>4 DEF ReadDone, D!ReadDone, D!Return
  <2>2. QED
    BY <1>2, <1>4, <2>1 DEF ReadDone
<1>5. CASE ReadEnd
  <2>1. step' = "idle" /\ UNCHANGED sentTo
    BY <1>5 DEF ReadEnd, D!ReadFails, D!Return
  <2>2. QED
    BY <1>2, <1>5, <2>1 DEF ReadEnd
<1>6. QED
  BY <1>1, <1>3, <1>4, <1>5 DEF Converses

LEMMA LinkServes ==
  ASSUME Link, Healthy, Up, NEW c \in Conns, RemoteConnects(c) \/ (Serves(c) /\ Others)
  PROVE  Link'
<1>0. /\ UNCHANGED <<step, task, sentTo, repl, running>> /\ Own \subseteq Conns
      /\ WP!TypeOK /\ WP!BaseInv
  BY Given DEF RemoteConnects, Others, dispatchVars, Healthy, WP!TaskInv, WP!BaseInv
<1>1. CASE RemoteConnects(c)
  <2>1. WP!ClientConnects(c) /\ c \notin Own
    BY <1>1, SameStart DEF RemoteConnects, Remote
  <2>2. \A t \in Own : pc'[t] = pc[t] /\ client'[t] = client[t]
    BY <1>0, <2>1 DEF WP!ClientConnects, WP!Goto, WP!TypeOK
  <2>3. QED
    BY <1>0, <2>2 DEF Link, InUse, Up
<1>2. CASE Serves(c)
  <2>1. WP!Serves(c) /\ WP!Step(c)
    BY <1>2, SameServes, ServesNext
  <2>2. /\ UNCHANGED client
        /\ pc[c] \in WP!Terminal => pc'[c] \in WP!Terminal
        /\ pc'[c] \in WP!WorkPCs => pc[c] \in WP!WorkPCs \/ pc[c] = "recv"
    BY <1>0, <2>1, Given, WP!ServesMoves
  <2>3. \A t \in Own \ {c} : pc'[t] = pc[t]
    BY <1>0, <2>1, Given, WP!OthersKept DEF WP!BaseInv, WP!ForkInv, WP!Same
  <2>4. ASSUME c \in Own, client[c] = "connected", pc'[c] \in WP!WorkPCs PROVE sentTo[c] # <<>>
    <3>1. CASE pc[c] = "recv"
      <4>1. pc'[c] # pc[c]
        BY <2>4, <3>1 DEF WP!WorkPCs, WP!CountedPCs, WP!FilePCs
      <4>2. Handler(c)
        BY <1>0, <2>1, <1>2, <3>1, <4>1, SameStart, SameChild, SameEnds, Given, WP!EndsOfOne
        DEF Serves, WP!Accept, WP!Gate, WP!Goto, ChildWrites, ChildEnds, WP!ChildWrites
      <4>3. QED
        BY <2>4, <3>1, <4>2 DEF Handler
    <3>2. QED
      BY <2>2, <2>4, <3>1 DEF Link
  <2>5. QED
    BY <1>0, <2>2, <2>3, <2>4 DEF Link, InUse, Up
<1>3. QED
  BY <1>1, <1>2

LEMMA NodeStep ==
  ASSUME NodeInv, Next
  PROVE  NodeInv'
<1> USE DEF NodeInv
<1>0. WP!TypeOK
  BY DEF Recorded
<1>1. CASE ~ Up
  <2>1. Recorded' /\ UNCHANGED <<step, task, sentTo, repl, running>>
    BY <1>1, DownStep DEF dispatchVars
  <2>2. QED
    BY <1>1, <2>1 DEF Link, Healthy, Up
<1>2. CASE Dies
  <2>1. Recorded' /\ ~ Up' /\ UNCHANGED <<step, task, sentTo>>
    BY <1>2, DiesStep DEF dispatchVars
  <2>2. Link'
    BY <1>2, <2>1 DEF Dies, Link, Up, Phases
  <2>3. QED
    BY <2>1, <2>2 DEF Healthy
<1>3. CASE Up /\ ~ Dies
  <2>1. WP!TaskInv' /\ \A c \in Conns : WP!Measured(c)'
    <3>1. WP!TaskInv /\ (\A c \in Conns : WP!Measured(c)) /\ WP!BaseInv
      BY <1>3 DEF Healthy, WP!TaskInv
    <3>2. [WP!Next]_(WP!vars)
      BY <1>0, <1>3, WorkerStep
    <3>3. QED
      BY <3>1, <3>2, Given, WP!TaskStep, WP!AllMeasured
  <2>2. Recorded'
    <3>1. ASSUME NEW c \in Conns, WP!Live(c)' PROVE ~ WP!Has(sent'[c], WP!DoneMsg)
      BY <2>1, <3>1
      DEF WP!TaskInv, WP!BaseInv, WP!ForkInv, WP!ChildAwaited, WP!StreamInv, WP!Live,
          WP!Unanswered, WP!Terminal
    <3>2. QED
      BY <2>1, <3>1 DEF WP!TaskInv, WP!BaseInv, Recorded
  <2>3. Link'
    BY <1>0, <1>3, NextOf, LinkTalks, LinkConnect, LinkConverses, LinkServes DEF Exit, Terminate
  <2>4. QED
    BY <2>1, <2>2, <2>3 DEF Healthy
<1>4. QED
  BY <1>1, <1>2, <1>3
-------------------------------------------------------------------------------
\* The worker is the one Dispatcher assumes

\* What the dispatcher's variables stream and closed stand for.
Stream == [t \in Own |-> [i \in DOMAIN sent[t] |-> Seen(sent[t][i])]]
Closed == [t \in Own |-> pc[t] \in W!Terminal /\ client[t] = "connected"]

LEMMA Unseen == UNCHANGED <<dispatchVars, Stream, Closed>> => UNCHANGED D!vars
BY DEF D!vars, D!choice, D!conn, D!results, Stream, Closed, dispatchVars

LEMMA AppendIs ==
  ASSUME NEW T, NEW s \in Seq(T), NEW x \in T
  PROVE  /\ DOMAIN Append(s, x) = 1 .. Len(s) + 1 /\ Append(s, x)[Len(s) + 1] = x
         /\ \A i \in 1 .. Len(s) : Append(s, x)[i] = s[i]
         /\ DOMAIN s = 1 .. Len(s) /\ Len(s) \in Nat
         /\ Append(s, x) = [i \in 1 .. Len(s) + 1 |-> Append(s, x)[i]]
<1> DEFINE t == Append(s, x)
<1>1. t \in Seq(T) /\ Len(t) = Len(s) + 1 /\ DOMAIN s = 1 .. Len(s) /\ Len(s) \in Nat
  OBVIOUS
<1>2. t[Len(s) + 1] = x /\ \A i \in 1 .. Len(s) : t[i] = s[i]
  OBVIOUS
<1> HIDE DEF t
<1>3. t \in [1 .. Len(s) + 1 -> T]
  BY <1>1
<1>4. DOMAIN t = 1 .. Len(s) + 1 /\ t = [i \in 1 .. Len(s) + 1 |-> t[i]]
  BY <1>3
<1>5. QED
  BY <1>1, <1>2, <1>4 DEF t

View(s) == [i \in DOMAIN s |-> Seen(s[i])]

LEMMA ViewAppend ==
  ASSUME NEW s \in Seq(WP!Message), NEW m \in WP!Message
  PROVE  View(Append(s, m)) = Append(View(s), Seen(m))
<1> DEFINE T == {Seen(x) : x \in WP!Message}
           a == Append(s, m)
           b == Append(View(s), Seen(m))
<1>1. /\ DOMAIN a = 1 .. Len(s) + 1 /\ a[Len(s) + 1] = m
      /\ \A i \in 1 .. Len(s) : a[i] = s[i]
      /\ DOMAIN s = 1 .. Len(s) /\ Len(s) \in Nat
  BY AppendIs
<1>2. View(s) \in Seq(T) /\ Len(View(s)) = Len(s)
  <2>1. View(s) \in [1 .. Len(s) -> T]
    BY <1>1 DEF View
  <2>2. QED
    BY <1>1, <2>1
<1>3. Seen(m) \in T
  OBVIOUS
<1> HIDE DEF T
<1>4. /\ DOMAIN b = 1 .. Len(s) + 1 /\ b[Len(s) + 1] = Seen(m)
      /\ \A i \in 1 .. Len(s) : b[i] = View(s)[i]
      /\ b = [i \in 1 .. Len(s) + 1 |-> b[i]]
  BY <1>2, <1>3, AppendIs
<1>5. \A i \in 1 .. Len(s) : View(s)[i] = Seen(s[i])
  BY <1>1 DEF View
<1> HIDE DEF a, b
<1>6. \A i \in 1 .. Len(s) + 1 : Seen(a[i]) = b[i]
  <2>1. \A i \in 1 .. Len(s) + 1 : i = Len(s) + 1 \/ i \in 1 .. Len(s)
    BY <1>1
  <2>2. QED
    BY <1>1, <1>4, <1>5, <2>1
<1>7. View(a) = [i \in 1 .. Len(s) + 1 |-> Seen(a[i])]
  BY <1>1 DEF View
<1>8. View(a) = b
  BY <1>4, <1>6, <1>7
<1>9. QED
  BY <1>8 DEF a, b

\* A message is seen as what it is.
LEMMA SeenKinds ==
  /\ \A m \in WP!DoneMsg : Seen(m) = m /\ m \in D!DoneMsg /\ m.type = "DONE"
  /\ \A m \in WP!OutputMsg : Seen(m) \in D!OutputMsg /\ Seen(m).stage = m.stage
  /\ \A m \in WP!Message : Seen(m) \in D!DoneMsg => m \in WP!DoneMsg
  /\ \A m \in WP!Message : Seen(m) \in D!OutputMsg /\ Seen(m).stage = "run" => m \in WP!RunOutput
<1>1. \A m \in WP!DoneMsg : Seen(m) = m /\ m \in D!DoneMsg /\ m.type = "DONE"
  BY DEF WP!DoneMsg, D!DoneMsg, WP!Codes, W!Codes, Seen
<1>2. \A m \in WP!OutputMsg :
        Seen(m) = [type |-> "OUTPUT", stage |-> m.stage] /\ m.stage \in {"compile", "run"}
  BY DEF WP!OutputMsg, WP!Stages, Seen
<1>3. \A m \in WP!OutputMsg : Seen(m) \in D!OutputMsg /\ Seen(m).stage = m.stage
  BY <1>2 DEF D!OutputMsg
<1>4. \A m \in WP!OutputMsg : Seen(m) \notin D!DoneMsg
  BY <1>2 DEF D!DoneMsg
<1>5. \A m \in WP!DoneMsg : m \notin D!OutputMsg
  BY <1>1 DEF D!OutputMsg
<1>6. QED
  BY <1>1, <1>3, <1>4, <1>5 DEF WP!Message, WP!RunOutput

LEMMA ServeStep ==
  ASSUME WP!TypeOK, NEW t \in Own, t = task, sentTo[t] # <<>>, NEW m \in WP!Message,
         WP!Sends(t, m), UNCHANGED <<dispatchVars, Closed>>
  PROVE  D!Serve(t)
<1>1. t \in Conns /\ sent[t] \in Seq(WP!Message) /\ sent' = [sent EXCEPT ![t] = Append(@, m)]
  BY Given DEF WP!TypeOK, WP!Sends
<1>2. Stream' = [Stream EXCEPT ![t] = Append(@, Seen(m))]
  <2>1. \A d \in Own : sent'[d] = IF d = t THEN Append(sent[t], m) ELSE sent[d]
    BY <1>1, Given DEF WP!TypeOK
  <2>2. \A d \in Own : Stream[d] = View(sent[d]) /\ Stream'[d] = View(sent'[d])
    BY DEF Stream, View
  <2>3. \A d \in Own : Stream'[d] = IF d = t THEN Append(Stream[t], Seen(m)) ELSE Stream[d]
    <3>1. Stream'[t] = Append(Stream[t], Seen(m))
      <4>1. sent'[t] = Append(sent[t], m)
        BY <2>1
      <4>2. View(sent'[t]) = Append(View(sent[t]), Seen(m))
        BY <1>1, <4>1, ViewAppend
      <4>3. QED
        BY <2>2, <4>2
    <3>2. \A d \in Own \ {t} : Stream'[d] = Stream[d]
      BY <2>1, <2>2
    <3>3. QED
      BY <3>1, <3>2
  <2>4. Stream' = [d \in Own |-> Stream'[d]] /\ DOMAIN Stream = Own
    BY DEF Stream
  <2>5. QED
    BY <2>3, <2>4
<1>3. ~ Closed[t]
  BY DEF Closed, WP!Sends, WP!WorkPCs, WP!CountedPCs, WP!FilePCs, W!Terminal
<1>4. /\ \A i \in DOMAIN Stream[t] : Stream[t][i] = Seen(sent[t][i]) /\ sent[t][i] \in WP!Message
      /\ DOMAIN Stream[t] = DOMAIN sent[t]
  BY <1>1 DEF Stream
<1>5. ~ \E i \in DOMAIN Stream[t] : Stream[t][i] \in D!DoneMsg
  BY <1>4, SeenKinds DEF WP!Sends, WP!Has
<1>6. Len(Stream[t]) = Len(sent[t])
  <2>1. DOMAIN sent[t] = 1 .. Len(sent[t]) /\ Len(sent[t]) \in Nat
    BY <1>1
  <2>2. QED
    BY <1>4, <2>1
<1>7. CASE m \in WP!DoneMsg
  <2>1. \E x \in D!DoneMsg : Stream' = [Stream EXCEPT ![t] = Append(@, x)]
    BY <1>2, <1>7, SeenKinds
  <2>2. D!Worker!Answer(t)
    BY <1>3, <1>5, <2>1
    DEF D!Worker!Answer, D!Worker!Deliver, D!Worker!Delivered, Stream, Closed
  <2>3. QED
    BY <2>2 DEF D!Serve, D!choice, D!results, dispatchVars
<1>8. CASE m \in WP!OutputMsg
  <2>1. Len(Stream[t]) < 2 * MaxChunks
    BY <1>6, <1>8 DEF WP!Sends
  <2>2. CASE m.stage = "compile"
    <3>1. ~ \E i \in DOMAIN Stream[t] : Stream[t][i] \in {x \in D!OutputMsg : x.stage = "run"}
      BY <1>4, <1>8, <2>2, SeenKinds DEF WP!Sends, WP!Has
    <3>2. \E x \in {y \in D!OutputMsg : y.stage = "compile"} :
            Stream' = [Stream EXCEPT ![t] = Append(@, x)]
      BY <1>2, <1>8, <2>2, SeenKinds
    <3>3. D!Worker!Compiler(t)
      BY <1>3, <1>5, <3>1, <3>2
      DEF D!Worker!Compiler, D!Worker!Deliver, D!Worker!Delivered, Stream, Closed
    <3>4. QED
      BY <2>1, <3>3 DEF D!Serve, D!choice, D!results, dispatchVars, Stream
  <2>3. CASE m.stage = "run"
    <3>1. \E x \in {y \in D!OutputMsg : y.stage = "run"} :
            Stream' = [Stream EXCEPT ![t] = Append(@, x)]
      BY <1>2, <1>8, <2>3, SeenKinds
    <3>2. D!Worker!Program(t)
      BY <1>3, <1>5, <3>1
      DEF D!Worker!Program, D!Worker!Deliver, D!Worker!Delivered, Stream, Closed
    <3>3. QED
      BY <2>1, <3>2 DEF D!Serve, D!choice, D!results, dispatchVars, Stream
  <2>4. QED
    BY <1>8, <2>2, <2>3 DEF WP!OutputMsg, WP!Stages
<1>9. QED
  BY <1>7, <1>8 DEF WP!Message

\* Whether a connection is closed, as dispatch() sees it.
Over(t) == pc[t] \in WP!Terminal /\ client[t] = "connected"

LEMMA ClosedIs == Closed = [t \in Own |-> Over(t)] /\ Closed' = [t \in Own |-> Over(t)']
BY DEF Closed, Over, W!Terminal, WP!Terminal

LEMMA StreamKept == UNCHANGED sent => UNCHANGED Stream
BY DEF Stream

LEMMA ClosedKept == (\A t \in Own : Over(t)' <=> Over(t)) => UNCHANGED Closed
<1>1. ASSUME \A t \in Own : Over(t)' <=> Over(t)
      PROVE  [t \in Own |-> Over(t)'] = [t \in Own |-> Over(t)]
  <2>1. \A t \in Own : Over(t)' = Over(t)
    BY <1>1 DEF Over
  <2>2. QED
    BY <2>1
<1>2. QED
  BY <1>1, ClosedIs

LEMMA CloseStep ==
  ASSUME NEW t \in Own, t = task, step \in {"send", "receive"}, UNCHANGED <<sent, dispatchVars>>,
         ~ Over(t), Over(t)', \A d \in Own \ {t} : Over(d)' <=> Over(d)
  PROVE  D!HangUp(t)
<1>1. Closed' = [Closed EXCEPT ![t] = TRUE] /\ ~ Closed[t]
  <2>1. \A d \in Own : Over(d)' = IF d = t THEN TRUE ELSE Over(d)
    BY DEF Over
  <2>2. [d \in Own |-> Over(d)'] = [[d \in Own |-> Over(d)] EXCEPT ![t] = TRUE]
    BY <2>1
  <2>3. QED
    BY <2>2, ClosedIs
<1>2. UNCHANGED Stream
  BY StreamKept
<1>3. D!Worker!Close(t)
  BY <1>1, <1>2 DEF D!Worker!Close, Stream, Closed
<1>4. QED
  BY <1>3 DEF D!HangUp, D!choice, D!results, dispatchVars

\* What the worker does is what Dispatcher lets it do, or is not seen.
LEMMA ServesRefines ==
  ASSUME Link, Healthy, Up, NEW c \in Conns, Serves(c), Others
  PROVE  [D!Next]_(D!vars)
<1>1. /\ WP!BaseInv /\ WP!TypeOK /\ WP!Measured(c) /\ WP!ForkInv /\ WP!HasChild
      /\ Own \subseteq Conns /\ UNCHANGED dispatchVars
  BY Given DEF Healthy, WP!TaskInv, WP!BaseInv, WP!ForkInv, Others
<1>2. WP!Serves(c) /\ WP!Step(c)
  BY SameServes, ServesNext
<1>3. /\ UNCHANGED client
      /\ pc[c] \in WP!Terminal => pc'[c] \in WP!Terminal /\ UNCHANGED sent
  BY <1>1, <1>2, Given, WP!ServesMoves
<1>4. \A t \in Own \ {c} : pc'[t] = pc[t] /\ (Over(t)' <=> Over(t))
  BY <1>1, <1>2, <1>3, Given, WP!OthersKept DEF WP!Same, Over
<1>5. UNCHANGED sent \/ \E m \in WP!Message : WP!Sends(c, m)
  BY <1>1, <1>2, Given, WP!ServesSends
<1>6. ASSUME c \notin Own PROVE UNCHANGED D!vars
  <2>1. UNCHANGED Closed
    BY <1>4, <1>6, ClosedKept
  <2>2. UNCHANGED Stream
    <3>1. CASE UNCHANGED sent
      BY <3>1, StreamKept
    <3>2. ASSUME NEW m \in WP!Message, WP!Sends(c, m) PROVE UNCHANGED Stream
      <4>1. \A t \in Own : sent'[t] = sent[t]
        BY <1>1, <1>6, <3>2 DEF WP!Sends, WP!TypeOK
      <4>2. QED
        BY <4>1 DEF Stream
    <3>3. QED
      BY <1>5, <3>1, <3>2
  <2>3. QED
    BY <1>1, <2>1, <2>2, Unseen
<1>7. ASSUME c \in Own, NEW m \in WP!Message, WP!Sends(c, m) PROVE D!Serve(c)
  <2>1. /\ client[c] = "connected" /\ pc[c] \in WP!WorkPCs /\ pc'[c] \in WP!WorkPCs
        /\ pc[c] \notin WP!Terminal /\ pc'[c] \notin WP!Terminal
    BY <1>7 DEF WP!Sends, WP!WorkPCs, WP!CountedPCs, WP!FilePCs, WP!Terminal
  <2>2. c = task /\ sentTo[c] # <<>>
    BY <1>7, <2>1 DEF Link, InUse
  <2>3. UNCHANGED Closed
    BY <1>4, <2>1, ClosedKept DEF Over
  <2>4. QED
    BY <1>1, <1>7, <2>2, <2>3, ServeStep
<1>8. CASE c \in Own /\ UNCHANGED sent /\ (Over(c)' <=> Over(c))
  <2>1. UNCHANGED Closed
    BY <1>4, <1>8, ClosedKept
  <2>2. QED
    BY <1>1, <1>8, <2>1, StreamKept, Unseen
<1>9. ASSUME c \in Own, UNCHANGED sent, ~ (Over(c)' <=> Over(c)) PROVE D!HangUp(c)
  <2>1. ~ Over(c) /\ Over(c)' /\ InUse(c)
    BY <1>3, <1>9 DEF Over, InUse
  <2>2. c = task /\ step \in {"send", "receive"}
    BY <1>9, <2>1 DEF Link
  <2>3. QED
    BY <1>1, <1>4, <1>9, <2>1, <2>2, CloseStep
<1>10. QED
  BY <1>5, <1>6, <1>7, <1>8, <1>9 DEF D!Next

\* The end of the process closes the connection that dispatch() waits for.
LEMMA DiesRefines ==
  ASSUME Link, WP!TypeOK, Up, Dies
  PROVE  [D!Next]_(D!vars)
<1>1. UNCHANGED <<sent, client, dispatchVars>> /\ Own \subseteq Conns
  BY Given DEF Dies
<1>2. \A t \in Own : pc'[t] = IF pc[t] \in {"idle", "queued", "rejected"} THEN pc[t] ELSE "closed"
  BY <1>1 DEF Dies
<1>3. \A t \in Own : ~ (Over(t)' <=> Over(t)) => ~ Over(t) /\ Over(t)' /\ InUse(t)
  BY <1>1, <1>2 DEF Over, InUse, WP!Terminal
<1>4. CASE \A t \in Own : Over(t)' <=> Over(t)
  <2>1. UNCHANGED Closed
    BY <1>4, ClosedKept
  <2>2. QED
    BY <1>1, <2>1, StreamKept, Unseen
<1>5. ASSUME NEW t \in Own, ~ (Over(t)' <=> Over(t)) PROVE D!HangUp(t)
  <2>1. ~ Over(t) /\ Over(t)' /\ t = task /\ step \in {"send", "receive"}
    BY <1>3, <1>5 DEF Link
  <2>2. \A d \in Own \ {t} : Over(d)' <=> Over(d)
    BY <1>3, <2>1 DEF Link
  <2>3. QED
    BY <1>1, <2>1, <2>2, CloseStep
<1>6. QED
  BY <1>4, <1>5 DEF D!Next

LEMMA RefinesStep ==
  ASSUME NodeInv, Next
  PROVE  [D!Next]_(D!vars)
<1>0. Link /\ Healthy /\ Recorded /\ WP!TypeOK /\ Own \subseteq Conns
  BY Given DEF NodeInv, Recorded
<1>1. CASE ~ Up
  <2>1. UNCHANGED <<dispatchVars, sent>> /\ \A t \in Own : Over(t)' <=> Over(t)
    BY <1>0, <1>1, DownStep DEF Over
  <2>2. QED
    BY <2>1, StreamKept, ClosedKept, Unseen
<1>2. CASE UNCHANGED <<workerVars, dispatchVars>>
  <2>1. UNCHANGED <<dispatchVars, sent>> /\ \A t \in Own : Over(t)' <=> Over(t)
    BY <1>2 DEF Over, workerVars
  <2>2. QED
    BY <2>1, StreamKept, ClosedKept, Unseen
<1>3. CASE Talks
  <2>1. CASE Settled \/ OtherLine \/ QuitLine \/ Sigint
    BY <1>2, <2>1 DEF Settled, OtherLine, QuitLine, Sigint
  <2>2. CASE (\E t \in Own : SubmitLine(t)) \/ Choose \/ ReadOutput
    BY <2>2 DEF SubmitLine, Choose, ReadOutput, D!Next, D!Read
  <2>3. QED
    BY <1>3, <2>1, <2>2 DEF Talks
<1>4. CASE Connect \/ Converses
  BY <1>4 DEF Connect, Converses, SendTask, ReadDone, ReadEnd, D!Next, D!Read
<1>5. CASE Exit \/ Terminate
  BY <1>0, <1>1, <1>5, DiesRefines DEF Exit, Terminate
<1>6. ASSUME NEW c \in Conns, RemoteConnects(c) PROVE [D!Next]_(D!vars)
  <2>1. WP!ClientConnects(c) /\ c \notin Own /\ UNCHANGED dispatchVars
    BY <1>6, SameStart DEF RemoteConnects, Remote, Others
  <2>2. UNCHANGED sent /\ \A t \in Own : Over(t)' <=> Over(t)
    BY <1>0, <2>1 DEF WP!ClientConnects, WP!Goto, WP!TypeOK, Over
  <2>3. QED
    BY <2>1, <2>2, StreamKept, ClosedKept, Unseen
<1>7. ASSUME NEW c \in Conns, Serves(c), Others, Up PROVE [D!Next]_(D!vars)
  BY <1>0, <1>7, ServesRefines
<1>8. QED
  BY <1>1, <1>3, <1>4, <1>5, <1>6, <1>7, NextOf

LEMMA Stutter ==
  ASSUME NodeInv, UNCHANGED vars
  PROVE  NodeInv'
<1>1. UNCHANGED workerVars /\ UNCHANGED dispatchVars /\ UNCHANGED <<repl, running>>
  BY DEF vars
<1>2. Link'
  BY <1>1 DEF NodeInv, Link, workerVars, dispatchVars, Up, InUse
<1>3. WP!TypeOK' /\ WP!BufferOwned'
  BY <1>1, Given, WorkerVars, WP!TypeStep, WP!BufferStep DEF NodeInv, Recorded
<1>4. WP!Truthful' /\ \A c \in Conns : WP!Live(c)' => ~ WP!Has(sent'[c], WP!DoneMsg)
  BY <1>1
  DEF NodeInv, Recorded, WP!Truthful, WP!OwnMessages, WP!Own, WP!Live, WP!Has, workerVars
<1>5. Healthy'
  <2>1. ASSUME Up PROVE WP!TaskInv' /\ \A c \in Conns : WP!Measured(c)'
    <3>1. WP!TaskInv /\ WP!BaseInv /\ \A c \in Conns : WP!Measured(c)
      BY <2>1 DEF NodeInv, Healthy, WP!TaskInv
    <3>2. [WP!Next]_(WP!vars)
      BY <1>1, WorkerVars
    <3>3. QED
      BY <3>1, <3>2, Given, WP!TaskStep, WP!AllMeasured
  <2>2. QED
    BY <1>1, <2>1 DEF Healthy, Up
<1>6. QED
  BY <1>2, <1>3, <1>4, <1>5 DEF NodeInv, Recorded

\* A node implements Dispatcher: what the real worker does, with its other clients, its
\* children and the end of its process, is what dispatch() expects of a worker.
THEOREM NodeImplements == Spec => Implements
<1>1. Init => NodeInv /\ D!Init
  BY NodeInit DEF Init
<1>2. NodeInv /\ [Next]_vars => NodeInv'
  BY NodeStep, Stutter
<1>3. NodeInv /\ [Next]_vars => [D!Next]_(D!vars)
  <2>1. UNCHANGED vars => UNCHANGED D!vars
    BY DEF vars, workerVars, dispatchVars, D!vars, D!choice, D!conn, D!results
  <2>2. QED
    BY <2>1, RefinesStep
<1>4. QED
  BY <1>1, <1>2, <1>3, PTL DEF Spec, Implements, D!Spec
-------------------------------------------------------------------------------
\* What Dispatcher promises then holds of the node

DP == INSTANCE DispatcherProofs WITH
    Peers <- {}, Tasks <- Own, Codes <- W!Codes, MaxOut <- 2 * MaxChunks,
    Reports <- {[load1 |-> 0, cores |-> 1, active |-> 0]},
    NoAnswer <- 1000, Worst <- 10000,
    left <- {}, best <- [score |-> 10000, host |-> "nobody", port |-> "nobody"],
    stream <- [t \in Own |-> [i \in DOMAIN sent[t] |-> Seen(sent[t][i])]],
    closed <- [t \in Own |-> pc[t] \in W!Terminal /\ client[t] = "connected"]

LEMMA GivenToDispatcher == DP!DispatcherAssumption
BY NodeAssumption
DEF D!DispatcherAssumption, DP!DispatcherAssumption, D!Garbage, DP!Garbage, D!Nobody, DP!Nobody

\* The actions of D are those of DP.
LEMMA SameDispatch ==
  /\ \A t : /\ D!Submit(t) => DP!Submit(t)
            /\ D!Serve(t) => DP!Serve(t)
            /\ D!HangUp(t) => DP!HangUp(t)
  /\ D!Choose => DP!Choose
  /\ D!Connect => DP!Connect
  /\ D!Fallback => DP!Fallback
  /\ D!SendTask => DP!SendTask
  /\ D!ReadOutput => DP!ReadOutput
  /\ D!ReadDone => DP!ReadDone
  /\ D!ReadFails => DP!ReadFails
  /\ D!Finished => DP!Finished
  /\ D!Init => DP!Init
  /\ UNCHANGED D!vars => UNCHANGED DP!vars
<1> USE DEF D!choice, DP!choice, D!conn, DP!conn, D!results, DP!results, D!Goto, DP!Goto,
            D!Return, DP!Return, D!NoBest, DP!NoBest, D!Nobody, DP!Nobody, D!Pending,
            DP!Pending, D!Failed, DP!Failed, D!vars, DP!vars
<1>1. \A t : D!Submit(t) => DP!Submit(t)
  BY DEF D!Submit, DP!Submit
<1>2. \A t : D!Serve(t) => DP!Serve(t)
  <2>1. D!OutputMsg = DP!OutputMsg /\ D!DoneMsg = DP!DoneMsg
    BY DEF D!OutputMsg, DP!OutputMsg, D!DoneMsg, DP!DoneMsg
  <2> SUFFICES ASSUME NEW t, D!Serve(t) PROVE DP!Serve(t)
    OBVIOUS
  <2>2. D!Worker!Compiler(t) => DP!Worker!Compiler(t)
    BY <2>1
    DEF D!Worker!Compiler, DP!Worker!Compiler, D!Worker!Deliver, DP!Worker!Deliver,
        D!Worker!Delivered, DP!Worker!Delivered
  <2>3. D!Worker!Program(t) => DP!Worker!Program(t)
    BY <2>1
    DEF D!Worker!Program, DP!Worker!Program, D!Worker!Deliver, DP!Worker!Deliver,
        D!Worker!Delivered, DP!Worker!Delivered
  <2>4. D!Worker!Answer(t) => DP!Worker!Answer(t)
    BY <2>1
    DEF D!Worker!Answer, DP!Worker!Answer, D!Worker!Deliver, DP!Worker!Deliver,
        D!Worker!Delivered, DP!Worker!Delivered
  <2>5. QED
    BY <2>1, <2>2, <2>3, <2>4 DEF D!Serve, DP!Serve
<1>3. \A t : D!HangUp(t) => DP!HangUp(t)
  BY DEF D!HangUp, DP!HangUp, D!Worker!Close, DP!Worker!Close
<1>4. D!Choose => DP!Choose
  BY
  DEF D!Choose, DP!Choose, D!Told, DP!Told, D!UsesSelf, DP!UsesSelf, D!Score, DP!Score,
      D!Percent, DP!Percent
<1>5. D!Connect => DP!Connect
  BY DEF D!Connect, DP!Connect
<1>6. D!Fallback => DP!Fallback
  BY DEF D!Fallback, DP!Fallback
<1>7. D!SendTask => DP!SendTask
  BY DEF D!SendTask, DP!SendTask
<1>8. D!ReadOutput => DP!ReadOutput
  BY DEF D!ReadOutput, DP!ReadOutput, D!Message, DP!Message, D!OutputMsg, DP!OutputMsg
<1>9. D!ReadDone => DP!ReadDone
  BY DEF D!ReadDone, DP!ReadDone, D!Message, DP!Message, D!DoneMsg, DP!DoneMsg
<1>10. D!ReadFails => DP!ReadFails
  BY DEF D!ReadFails, DP!ReadFails
<1>11. D!Finished => DP!Finished
  BY DEF D!Finished, DP!Finished
<1>12. D!Init => DP!Init
  <2>1. D!Worker!Init => DP!Worker!Init
    BY DEF D!Worker!Init, DP!Worker!Init
  <2>2. QED
    BY <2>1 DEF D!Init, DP!Init
<1>13. UNCHANGED D!vars => UNCHANGED DP!vars
  OBVIOUS
<1>14. QED
  BY <1>1, <1>2, <1>3, <1>4, <1>5, <1>6, <1>7, <1>8, <1>9, <1>10, <1>11, <1>12, <1>13

LEMMA DispatcherHolds == Spec => []DP!TypeOK /\ []DP!ReturnsVerdict
<1>1. D!Init => DP!Init
  BY SameDispatch
<1>2. [D!Next]_(D!vars) => [DP!Next]_(DP!vars)
  BY SameDispatch DEF D!Next, DP!Next, D!Read, DP!Read
<1>3. DP!Spec => []DP!TypeOK
  BY GivenToDispatcher, DP!TypeCorrect
<1>4. DP!Spec => []DP!ReturnsVerdict
  BY GivenToDispatcher, DP!VerdictReturned
<1>5. QED
  BY <1>1, <1>2, <1>3, <1>4, NodeImplements, PTL DEF Implements, D!Spec, DP!Spec

LEMMA Invariance == Spec => []NodeInv
<1>1. NodeInv /\ [Next]_vars => NodeInv'
  BY NodeStep, Stutter
<1>2. QED
  BY <1>1, NodeInit, PTL DEF Spec

\* The dispatcher's types, of its sets and of what it reads from its connections.
Typed(st, output, done, hosts, nobody, best, codes) ==
    /\ step \in {"idle", "query", "connect", "fallback", "send", "receive"}
    /\ task \in Own \cup {nobody}
    /\ [score |-> 10000, host |-> "nobody", port |-> "nobody"] \in best
    /\ DOMAIN told \subseteq hosts
    /\ \A h \in DOMAIN told : told[h] \in {[load1 |-> 0, cores |-> 1, active |-> 0]}
    /\ target \in hosts \cup {nobody} /\ sentTo \in [Own -> Seq(hosts)]
    /\ st \in [Own -> Seq(output \cup done)]
    /\ [t \in Own |-> pc[t] \in W!Terminal /\ client[t] = "connected"] \in [Own -> BOOLEAN]
    /\ got \in [Own -> Nat] /\ \A t \in Own : got[t] <= Len(st[t])
    /\ shown \in [Own -> Seq(output)]
    /\ rc \in [Own -> codes]

\* Every variable of the node keeps its type, and the REPL waits in dispatch() exactly as
\* long as that has work to do.
THEOREM NodeTyped == Spec => []TypeOK
<1>1. NodeInv => W!TypeOK
  <2>1. W!PCs = WP!PCs
    BY
    DEF WP!PCs, W!PCs, WP!CountedPCs, W!CountedPCs, WP!FilePCs, W!FilePCs, WP!Terminal,
        W!Terminal
  <2>2. W!Stages = WP!Stages /\ W!Codes = WP!Codes /\ W!File = WP!File
    BY
    DEF WP!Stages, W!Stages, WP!Codes, W!Codes, WP!File, W!File, WP!Absent, W!Absent,
        WP!Empty, W!Empty, WP!Torn, W!Torn
  <2>3. W!Process = WP!Process
    BY <2>2 DEF WP!Process, W!Process, WP!Unread, W!Unread
  <2>4. W!Message = WP!Message
    BY <2>2
    DEF WP!Message, W!Message, WP!OutputMsg, W!OutputMsg, WP!DoneMsg, W!DoneMsg
  <2>5. QED
    BY <2>1, <2>2, <2>3, <2>4 DEF NodeInv, Recorded, WP!TypeOK, W!TypeOK
<1>2. DP!TypeOK => D!TypeOK
  <2>1. D!OutputMsg = DP!OutputMsg /\ D!DoneMsg = DP!DoneMsg
    BY DEF DP!OutputMsg, D!OutputMsg, DP!DoneMsg, D!DoneMsg
  <2>2. D!Hosts = DP!Hosts /\ D!Nobody = DP!Nobody /\ D!Garbage = DP!Garbage
    BY DEF D!Hosts, DP!Hosts, D!Nobody, DP!Nobody, D!Garbage, DP!Garbage
  <2>3. D!Best = DP!Best
    BY <2>2 DEF D!Best, DP!Best
  <2>4. D!Pending = DP!Pending /\ D!Failed = DP!Failed
    BY DEF D!Pending, DP!Pending, D!Failed, DP!Failed
  <2>5. PICK st : st = [t \in Own |-> [i \in DOMAIN sent[t] |-> Seen(sent[t][i])]]
    OBVIOUS
  <2>6. D!TypeOK <=> Typed(st, D!OutputMsg, D!DoneMsg, D!Hosts, D!Nobody, D!Best,
                           W!Codes \cup {D!Pending, D!Failed})
    BY <2>5, SMT DEF D!TypeOK, Typed
  <2>7. DP!TypeOK <=> Typed(st, DP!OutputMsg, DP!DoneMsg, DP!Hosts, DP!Nobody, DP!Best,
                            W!Codes \cup {DP!Pending, DP!Failed})
    BY <2>5, SMT DEF DP!TypeOK, Typed
  <2>8. QED
    BY <2>1, <2>2, <2>3, <2>4, <2>6, <2>7
<1>3. NodeInv /\ DP!TypeOK => TypeOK
  BY <1>1, <1>2 DEF NodeInv, Link, TypeOK
<1>4. QED
  BY <1>3, Invariance, DispatcherHolds, PTL

\* The exit code of a task of the node's own that no other overlapped is that of its own
\* program, and all that was printed came from it.
THEOREM OwnTasksFaithful == Spec => []EndToEnd
<1>1. ASSUME NodeInv, DP!ReturnsVerdict, NEW t \in Own, alone[t], rc[t] \in W!Codes
      PROVE  W!OwnOutput(t) /\ W!OwnVerdict(t) /\ rc[t] = child[t].status
  <2>1. WP!TypeOK /\ t \in Conns /\ sent[t] \in Seq(WP!Message)
    BY <1>1, Given DEF NodeInv, Recorded, WP!TypeOK
  <2>2. W!OwnOutput(t) /\ W!OwnVerdict(t)
    <3>1. WP!OwnOutput(t) /\ WP!OwnVerdict(t)
      BY <1>1, <2>1, Given, WP!ToldTruth DEF NodeInv, Recorded, WP!AloneIsFaithful
    <3>2. QED
      BY <3>1 DEF WP!OwnOutput, W!OwnOutput, WP!OwnVerdict, W!OwnVerdict
  <2>3. /\ View(sent[t]) # <<>> /\ View(sent[t])[Len(View(sent[t]))].type = "DONE"
        /\ rc[t] = View(sent[t])[Len(View(sent[t]))].code
    BY <1>1 DEF DP!ReturnsVerdict, DP!IsDone, View
  <2>4. Len(View(sent[t])) = Len(sent[t]) /\ Len(sent[t]) \in DOMAIN sent[t]
    <3>1. DOMAIN sent[t] = 1 .. Len(sent[t]) /\ Len(sent[t]) \in Nat
      BY <2>1
    <3>2. Len(View(sent[t])) = Len(sent[t])
      BY <3>1 DEF View
    <3>3. Len(sent[t]) # 0
      <4>1. ASSUME Len(sent[t]) = 0 PROVE FALSE
        <5>1. sent[t] = <<>>
          BY <2>1, <4>1
        <5>2. View(sent[t]) = <<>>
          BY <5>1 DEF View
        <5>3. QED
          BY <2>3, <5>2
      <4>2. QED
        BY <4>1
    <3>4. QED
      BY <3>1, <3>2, <3>3
  <2>5. PICK m \in WP!Message : m = sent[t][Len(sent[t])] /\ View(sent[t])[Len(sent[t])] = Seen(m)
    BY <2>1, <2>4 DEF View
  <2>6. m \in WP!DoneMsg
    <3>1. ASSUME m \in WP!OutputMsg PROVE Seen(m).type = "OUTPUT"
      BY <3>1 DEF WP!OutputMsg, Seen
    <3>2. QED
      BY <2>3, <2>4, <2>5, <3>1 DEF WP!Message
  <2>7. Seen(m) = m /\ m.type = "DONE"
    BY <2>6, SeenKinds
  <2>8. rc[t] = sent[t][Len(sent[t])].code /\ sent[t][Len(sent[t])].type = "DONE"
    BY <2>3, <2>4, <2>5, <2>7
  <2>9. QED
    BY <2>2, <2>4, <2>8 DEF W!OwnVerdict
<1>2. NodeInv /\ DP!ReturnsVerdict => EndToEnd
  BY <1>1 DEF EndToEnd
<1>3. QED
  BY <1>2, Invariance, DispatcherHolds, PTL
===============================================================================
