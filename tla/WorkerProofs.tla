----------------------------- MODULE WorkerProofs -----------------------------
(***************************************************************************)
(* What holds of Worker for any number of connections, any capacity and    *)
(* any of the faults in FaultKinds.                                        *)
(***************************************************************************)
EXTENDS Worker, FiniteSetTheorems, TLAPS

-------------------------------------------------------------------------------
\* The updates of a process keep it a process: it ends, it is reaped and loses its
\* descriptors, it is forked and inherits some.
LEMMA ProcessUpdates ==
  ASSUME NEW p \in Process, NEW s \in Codes, NEW P \in SUBSET Conns, NEW S \in SUBSET Conns
  PROVE  /\ [p EXCEPT !.state = "zombie", !.status = s] \in Process
         /\ [p EXCEPT !.state = "reaped", !.pipes = {}, !.socks = {}] \in Process
         /\ [p EXCEPT !.state = "live", !.pipes = P, !.socks = S] \in Process
BY DEF Process

\* A child that ends is still a process of the model.
LEMMA ExitsTyped ==
  ASSUME child \in [Conns -> Process], NEW c \in Conns, NEW s \in Codes, Exits(c, s)
  PROVE  child' \in [Conns -> Process]
<1>1. [child[c] EXCEPT !.state = "zombie", !.status = s] \in Process
  BY ProcessUpdates
<1>2. child' = [child EXCEPT ![c] = [child[c] EXCEPT !.state = "zombie", !.status = s]]
  BY DEF Exits
<1>3. QED
  BY <1>1, <1>2

\* A child that is given its program to read or run is still a process of the model.
LEMMA LoadsTyped ==
  ASSUME child \in [Conns -> Process], NEW c \in Conns, NEW f \in File,
         child' = [child EXCEPT ![c].image = f]
  PROVE  child' \in [Conns -> Process]
BY DEF Process

\* A child that writes stays within its bound.
LEMMA WritesTyped ==
  ASSUME child \in [Conns -> Process], NEW c \in Conns, child[c].wrote < MaxChunks,
         child' = [child EXCEPT ![c].wrote = @ + 1]
  PROVE  child' \in [Conns -> Process]
BY WorkerAssumption DEF Process

\* A child that is reaped keeps no descriptor and is still a process of the model.
LEMMA ReapedTyped ==
  ASSUME child \in [Conns -> Process], NEW d \in Conns,
         child' = [child EXCEPT ![d].state = "reaped", ![d].pipes = {}, ![d].socks = {}]
  PROVE  child' \in [Conns -> Process]
<1>1. [child[d] EXCEPT !.state = "reaped", !.pipes = {}, !.socks = {}] \in Process
  <2>1. child[d] \in Process /\ 0 \in Codes
    BY DEF Codes
  <2>2. QED
    BY <2>1, ProcessUpdates
<1>2. child' = [child EXCEPT ![d] =
                  [child[d] EXCEPT !.state = "reaped", !.pipes = {}, !.socks = {}]]
  OBVIOUS
<1>3. QED
  BY <1>1, <1>2

\* So is a child that was just forked, and the absence of one.
LEMMA ForkedTyped ==
  NoChild \in Process /\ NewChild \in Process
<1>1. NoChild \in Process
  BY WorkerAssumption DEF NoChild, Process, Codes
<1>2. OpenPipes \subseteq Conns /\ OpenSocks \subseteq Conns
  BY DEF OpenPipes, OpenSocks
<1>3. NewChild \in Process
  <2>1. 0 \in Codes
    BY DEF Codes
  <2>2. QED
    BY <1>1, <1>2, <2>1, ProcessUpdates DEF NewChild
<1>4. QED
  BY <1>1, <1>3

-------------------------------------------------------------------------------
\* A buffer waits in a pipe only while the handler may read it, and its writer has read
\* or started its program: what is forwarded always has an author.
BufferOwned ==
  \A c \in Conns : buf[c] > 0 => pc[c] \in {"closew", "read"} /\ child[c].image # Unread

\* One step keeps the types.
LEMMA TypeStep ==
  ASSUME TypeOK, BufferOwned, [Next]_vars
  PROVE  TypeOK'
<1> USE WorkerAssumption DEF TypeOK
<1>1. CASE AcceptFails
  BY <1>1 DEF AcceptFails, counters, files
<1>2. ASSUME NEW c \in Conns, ClientConnects(c) PROVE TypeOK'
  BY <1>2 DEF ClientConnects, Goto, counters, files, PCs
<1>3. ASSUME NEW c \in Conns, ClientLeaves(c) PROVE TypeOK'
  BY <1>3 DEF ClientLeaves, counters, files
<1>4. ASSUME NEW c \in Conns, Accept(c) PROVE TypeOK'
  BY <1>4 DEF Accept, Goto, counters, files, PCs
<1>5. ASSUME NEW c \in Conns, Gate(c) PROVE TypeOK'
  BY <1>5 DEF Gate, Goto, counters, files, PCs, Terminal
<1>6. ASSUME NEW c \in Conns, Receive(c) PROVE TypeOK'
  BY <1>6 DEF Receive, Goto, counters, files, PCs
<1>7. ASSUME NEW c \in Conns, StartActive(c) PROVE TypeOK'
  BY <1>7 DEF StartActive, Goto, files, PCs, CountedPCs
<1>8. ASSUME NEW c \in Conns, StartTotal(c) PROVE TypeOK'
  BY <1>8 DEF StartTotal, Goto, files, PCs, CountedPCs
<1>9. ASSUME NEW c \in Conns, OpenSource(c) PROVE TypeOK'
  BY <1>9 DEF OpenSource, UsesFiles, Goto, counters, PCs, CountedPCs, FilePCs, File
<1>10. ASSUME NEW c \in Conns, WriteSource(c) PROVE TypeOK'
  BY <1>10 DEF WriteSource, Goto, counters, PCs, CountedPCs, FilePCs, File
<1>11. ASSUME NEW c \in Conns, Pipe(c) PROVE TypeOK'
  BY <1>11 DEF Pipe, Goto, counters, files, PCs, CountedPCs, FilePCs, Stages
<1>12. ASSUME NEW c \in Conns, Fork(c) PROVE TypeOK'
  <2>1. child' \in [Conns -> Process]
    <3>1. \E k \in Process : child' = [child EXCEPT ![c] = k]
      BY <1>12, ForkedTyped DEF Fork
    <3>2. QED
      BY <3>1
  <2>2. QED
    BY <1>12, <2>1 DEF Fork, Goto, counters, files, PCs, CountedPCs, FilePCs
<1>13. ASSUME NEW c \in Conns, CloseWriteEnd(c) PROVE TypeOK'
  BY <1>13 DEF CloseWriteEnd, Goto, counters, files, PCs, CountedPCs, FilePCs
<1>14. ASSUME NEW c \in Conns, Forward(c) PROVE TypeOK'
  <2>1. [type |-> "OUTPUT", stage |-> stage[c], by |-> child[c].image] \in Message
    BY <1>14, WorkerAssumption DEF Forward, BufferOwned, Message, OutputMsg, Process
  <2>2. sent' \in [Conns -> Seq(Message)]
    BY <1>14, <2>1 DEF Forward
  <2>3. QED
    BY <1>14, <2>2 DEF Forward, counters, files
<1>15. ASSUME NEW c \in Conns, ForwardFails(c) PROVE TypeOK'
  <2>1. child' \in [Conns -> Process]
    BY <1>15, ExitsTyped DEF ForwardFails, Killed, Codes
  <2>2. bin' \in File
    BY <1>15 DEF ForwardFails, Compiles, File
  <2>3. pc' \in [Conns -> PCs] /\ buf' \in [Conns -> 0 .. 1]
    BY <1>15 DEF ForwardFails, Goto, PCs, CountedPCs, FilePCs
  <2>4. QED
    BY <1>15, <2>1, <2>2, <2>3 DEF ForwardFails, counters
<1>16. ASSUME NEW c \in Conns, ReadEOF(c) PROVE TypeOK'
  BY <1>16 DEF ReadEOF, Goto, counters, files, PCs, CountedPCs, FilePCs
<1>17. ASSUME NEW c \in Conns, Wait(c) PROVE TypeOK'
  <2>1. child' \in [Conns -> Process]
    BY <1>17, ReapedTyped DEF Wait
  <2>2. code' \in [Conns -> Codes]
    <3>1. \A d \in Conns : child[d].status \in Codes
      BY DEF Process
    <3>2. \E k \in Codes : code' = [code EXCEPT ![c] = k]
      BY <1>17, <3>1 DEF Wait
    <3>3. QED
      BY <3>2
  <2>3. pc' \in [Conns -> PCs] /\ stage' \in [Conns -> Stages]
    <3>1. {"pipe", "done"} \subseteq PCs /\ "run" \in Stages
      BY DEF PCs, CountedPCs, FilePCs, Stages
    <3>2. /\ \E k \in {"pipe", "done"} : pc' = [pc EXCEPT ![c] = k]
          /\ stage' = stage \/ stage' = [stage EXCEPT ![c] = "run"]
      BY <1>17 DEF Wait, Goto
    <3>3. pc' \in [Conns -> PCs]
      <4>1. PICK k \in {"pipe", "done"} : pc' = [pc EXCEPT ![c] = k]
        BY <3>2
      <4>2. k \in PCs
        BY <3>1, <4>1
      <4>3. QED
        BY <4>1, <4>2
    <3>4. stage' \in [Conns -> Stages]
      <4>1. [stage EXCEPT ![c] = "run"] \in [Conns -> Stages]
        BY <3>1
      <4>2. QED
        BY <3>2, <4>1
    <3>5. QED
      BY <3>3, <3>4
  <2>4. QED
    BY <1>17, <2>1, <2>2, <2>3 DEF Wait, counters, files
<1>18. ASSUME NEW c \in Conns, SendDone(c) PROVE TypeOK'
  BY <1>18 DEF SendDone, Goto, counters, files, PCs, CountedPCs, FilePCs, Message, DoneMsg
<1>19. ASSUME NEW c \in Conns, UnlinkSource(c) PROVE TypeOK'
  BY <1>19 DEF UnlinkSource, Goto, counters, PCs, CountedPCs, FilePCs, File
<1>20. ASSUME NEW c \in Conns, UnlinkBinary(c) PROVE TypeOK'
  BY <1>20 DEF UnlinkBinary, Goto, counters, PCs, CountedPCs, FilePCs, File
<1>21. ASSUME NEW c \in Conns, Finish(c) PROVE TypeOK'
  BY <1>21 DEF Finish, Goto, files, PCs
<1>22. ASSUME NEW c \in Conns, CloseConn(c) PROVE TypeOK'
  BY <1>22 DEF CloseConn, Goto, counters, files, PCs, Terminal
<1>23. ASSUME NEW c \in Conns, GccReads(c) PROVE TypeOK'
  <2>1. child' \in [Conns -> Process]
    BY <1>23, LoadsTyped DEF GccReads
  <2>2. QED
    BY <1>23, <2>1 DEF GccReads, counters, files
<1>24. ASSUME NEW c \in Conns, GccExits(c) PROVE TypeOK'
  <2>1. child' \in [Conns -> Process]
    BY <1>24, ExitsTyped DEF GccExits, Codes
  <2>2. bin' \in File
    BY <1>24 DEF GccExits, Compiles, File
  <2>3. QED
    BY <1>24, <2>1, <2>2 DEF GccExits, counters
<1>25. ASSUME NEW c \in Conns, Exec(c) PROVE TypeOK'
  <2>1. child' \in [Conns -> Process]
    BY <1>25, ExitsTyped, LoadsTyped DEF Exec, Codes
  <2>2. QED
    BY <1>25, <2>1 DEF Exec, counters, files
<1>26. ASSUME NEW c \in Conns, ChildWrites(c) PROVE TypeOK'
  <2>1. child' \in [Conns -> Process]
    BY <1>26, WritesTyped DEF ChildWrites
  <2>2. QED
    BY <1>26, <2>1 DEF ChildWrites, counters, files
<1>27. ASSUME NEW c \in Conns, ProgramExits(c) PROVE TypeOK'
  <2>1. child' \in [Conns -> Process]
    BY <1>27, ExitsTyped DEF ProgramExits, Codes
  <2>2. QED
    BY <1>27, <2>1 DEF ProgramExits, counters, files
<1>28. ASSUME NEW c \in Conns, OrphanEnds(c) PROVE TypeOK'
  <2>1. PICK p \in Process : orphan' = [orphan EXCEPT ![c] = p]
    <3>1. orphan[c] \in Process /\ 0 \in Codes
      BY DEF Codes
    <3>2. [orphan[c] EXCEPT !.state = "reaped", !.pipes = {}, !.socks = {}] \in Process
      BY <3>1, ProcessUpdates
    <3>3. orphan' = [orphan EXCEPT ![c] =
                       [orphan[c] EXCEPT !.state = "reaped", !.pipes = {}, !.socks = {}]]
      BY <1>28 DEF OrphanEnds
    <3>4. QED
      BY <3>2, <3>3
  <2>2. orphan' \in [Conns -> Process]
    BY <2>1
  <2>3. bin' \in File
    BY <1>28 DEF OrphanEnds, Compiles, File
  <2>4. QED
    BY <1>28, <2>2, <2>3 DEF OrphanEnds, counters
<1>29. CASE UNCHANGED vars
  BY <1>29 DEF vars, counters, files
<1>30. QED
  BY <1>1, <1>2, <1>3, <1>4, <1>5, <1>6, <1>7, <1>8, <1>9, <1>10, <1>11, <1>12, <1>13,
     <1>14, <1>15, <1>16, <1>17, <1>18, <1>19, <1>20, <1>21, <1>22, <1>23, <1>24,
     <1>25, <1>26, <1>27, <1>28, <1>29
     DEF Next, AcceptLoop, Handler, ChildEnds, Quiet

\* The end of a child does not change what it ran.
LEMMA ExitsImage ==
  ASSUME child \in [Conns -> Process], NEW c \in Conns, NEW s \in Codes, Exits(c, s)
  PROVE  \A d \in Conns : child'[d].image = child[d].image
BY DEF Process, Exits

\* Reaping a child does not change what it ran.
LEMMA ReapedImage ==
  ASSUME child \in [Conns -> Process], NEW e \in Conns,
         child' = [child EXCEPT ![e].state = "reaped", ![e].pipes = {}, ![e].socks = {}]
  PROVE  \A d \in Conns : child'[d].image = child[d].image
BY DEF Process

\* One step keeps the authorship of waiting buffers.
LEMMA BufferStep ==
  ASSUME TypeOK, BufferOwned, [Next]_vars
  PROVE  BufferOwned'
<1> USE DEF TypeOK, BufferOwned
<1>1. CASE AcceptFails
  BY <1>1 DEF AcceptFails
<1>2. ASSUME NEW c \in Conns, ClientConnects(c) PROVE BufferOwned'
  BY <1>2, WorkerAssumption DEF ClientConnects, Goto
<1>3. ASSUME NEW c \in Conns, ClientLeaves(c) PROVE BufferOwned'
  BY <1>3, WorkerAssumption DEF ClientLeaves
<1>4. ASSUME NEW c \in Conns, Accept(c) PROVE BufferOwned'
  BY <1>4, WorkerAssumption DEF Accept, Goto
<1>5. ASSUME NEW c \in Conns, Gate(c) PROVE BufferOwned'
  BY <1>5, WorkerAssumption DEF Gate, Goto
<1>6. ASSUME NEW c \in Conns, Receive(c) PROVE BufferOwned'
  BY <1>6, WorkerAssumption DEF Receive, Goto
<1>7. ASSUME NEW c \in Conns, StartActive(c) PROVE BufferOwned'
  BY <1>7, WorkerAssumption DEF StartActive, Goto
<1>8. ASSUME NEW c \in Conns, StartTotal(c) PROVE BufferOwned'
  BY <1>8, WorkerAssumption DEF StartTotal, Goto
<1>9. ASSUME NEW c \in Conns, OpenSource(c) PROVE BufferOwned'
  BY <1>9, WorkerAssumption DEF OpenSource, Goto
<1>10. ASSUME NEW c \in Conns, WriteSource(c) PROVE BufferOwned'
  BY <1>10, WorkerAssumption DEF WriteSource, Goto
<1>11. ASSUME NEW c \in Conns, Pipe(c) PROVE BufferOwned'
  BY <1>11, WorkerAssumption DEF Pipe, Goto
<1>12. ASSUME NEW c \in Conns, Fork(c) PROVE BufferOwned'
  BY <1>12, WorkerAssumption DEF Fork, Goto
<1>13. ASSUME NEW c \in Conns, CloseWriteEnd(c) PROVE BufferOwned'
  BY <1>13, WorkerAssumption DEF CloseWriteEnd, Goto
<1>14. ASSUME NEW c \in Conns, Forward(c) PROVE BufferOwned'
  BY <1>14, WorkerAssumption DEF Forward
<1>15. ASSUME NEW c \in Conns, ForwardFails(c) PROVE BufferOwned'
  BY <1>15, WorkerAssumption DEF ForwardFails, Goto, Exits
<1>16. ASSUME NEW c \in Conns, ReadEOF(c) PROVE BufferOwned'
  BY <1>16, WorkerAssumption DEF ReadEOF, Goto
<1>17. ASSUME NEW c \in Conns, Wait(c) PROVE BufferOwned'
  <2>1. \A d \in Conns : child'[d].image = child[d].image
    BY <1>17, ReapedImage DEF Wait
  <2>2. \A d \in Conns : pc'[d] # pc[d] => pc[d] = "wait"
    BY <1>17 DEF Wait, Goto
  <2>3. QED
    BY <1>17, <2>1, <2>2 DEF Wait
<1>18. ASSUME NEW c \in Conns, SendDone(c) PROVE BufferOwned'
  BY <1>18, WorkerAssumption DEF SendDone, Goto
<1>19. ASSUME NEW c \in Conns, UnlinkSource(c) PROVE BufferOwned'
  BY <1>19, WorkerAssumption DEF UnlinkSource, Goto
<1>20. ASSUME NEW c \in Conns, UnlinkBinary(c) PROVE BufferOwned'
  BY <1>20, WorkerAssumption DEF UnlinkBinary, Goto
<1>21. ASSUME NEW c \in Conns, Finish(c) PROVE BufferOwned'
  BY <1>21, WorkerAssumption DEF Finish, Goto
<1>22. ASSUME NEW c \in Conns, CloseConn(c) PROVE BufferOwned'
  BY <1>22, WorkerAssumption DEF CloseConn, Goto
<1>23. ASSUME NEW c \in Conns, GccReads(c) PROVE BufferOwned'
  BY <1>23, WorkerAssumption DEF GccReads, File
<1>24. ASSUME NEW c \in Conns, GccExits(c) PROVE BufferOwned'
  <2>1. \A d \in Conns : child'[d].image = child[d].image
    BY <1>24, ExitsImage DEF GccExits, Codes
  <2>2. QED
    BY <1>24, <2>1 DEF GccExits
<1>25. ASSUME NEW c \in Conns, Exec(c) PROVE BufferOwned'
  BY <1>25, WorkerAssumption DEF Exec, Exits, File
<1>26. ASSUME NEW c \in Conns, ChildWrites(c) PROVE BufferOwned'
  BY <1>26, WorkerAssumption DEF ChildWrites
<1>27. ASSUME NEW c \in Conns, ProgramExits(c) PROVE BufferOwned'
  BY <1>27, WorkerAssumption DEF ProgramExits, Exits
<1>28. ASSUME NEW c \in Conns, OrphanEnds(c) PROVE BufferOwned'
  BY <1>28 DEF OrphanEnds
<1>29. CASE UNCHANGED vars
  BY <1>29 DEF vars
<1>30. QED
  BY <1>1, <1>2, <1>3, <1>4, <1>5, <1>6, <1>7, <1>8, <1>9, <1>10, <1>11, <1>12, <1>13, <1>14, <1>15, <1>16, <1>17, <1>18, <1>19, <1>20, <1>21, <1>22, <1>23, <1>24, <1>25, <1>26, <1>27, <1>28, <1>29
     DEF Next, AcceptLoop, Handler, ChildEnds, Quiet

\* Every variable keeps its type, whatever the handlers, children and clients do.
THEOREM TypeCorrect == Spec => []TypeOK
<1>1. Init => TypeOK /\ BufferOwned
  BY WorkerAssumption
     DEF Init, TypeOK, BufferOwned, PCs, Stages, Codes, File, Process, NoChild
<1>2. TypeOK /\ BufferOwned /\ [Next]_vars => (TypeOK /\ BufferOwned)'
  BY TypeStep, BufferStep
<1>3. QED
  BY <1>1, <1>2, PTL DEF Spec
-------------------------------------------------------------------------------
\* Only load_task_start and load_task_done change who is counted, each by one handler.
LEMMA CountedStep ==
  ASSUME TypeOK, [Next]_vars
  PROVE  \/ active' = active /\ \A d \in Conns : Counted(d)' <=> Counted(d)
         \/ \E c \in Conns : StartActive(c) \/ Finish(c)
<1> DEFINE Kept == active' = active /\ \A d \in Conns : Counted(d)' <=> Counted(d)
<1> SUFFICES ASSUME ~ \E c \in Conns : StartActive(c) \/ Finish(c) PROVE Kept
  OBVIOUS
<1>1. ASSUME AcceptFails PROVE Kept
  BY <1>1 DEF AcceptFails, TypeOK, Counted, CountedPCs, FilePCs, counters
<1>2. ASSUME NEW c \in Conns, ClientConnects(c) PROVE Kept
  BY <1>2 DEF ClientConnects, Goto, TypeOK, Counted, CountedPCs, FilePCs, counters
<1>3. ASSUME NEW c \in Conns, ClientLeaves(c) PROVE Kept
  BY <1>3 DEF ClientLeaves, TypeOK, Counted, CountedPCs, FilePCs, counters
<1>4. ASSUME NEW c \in Conns, Accept(c) PROVE Kept
  BY <1>4 DEF Accept, Goto, TypeOK, Counted, CountedPCs, FilePCs, counters
<1>5. ASSUME NEW c \in Conns, Gate(c) PROVE Kept
  BY <1>5 DEF Gate, Goto, Terminal, TypeOK, Counted, CountedPCs, FilePCs, counters
<1>6. ASSUME NEW c \in Conns, Receive(c) PROVE Kept
  BY <1>6 DEF Receive, Goto, TypeOK, Counted, CountedPCs, FilePCs, counters
<1>7. ASSUME NEW c \in Conns, StartActive(c) PROVE Kept
  BY <1>7
<1>8. ASSUME NEW c \in Conns, StartTotal(c) PROVE Kept
  BY <1>8 DEF StartTotal, Goto, TypeOK, Counted, CountedPCs, FilePCs, counters
<1>9. ASSUME NEW c \in Conns, OpenSource(c) PROVE Kept
  BY <1>9 DEF OpenSource, Goto, TypeOK, Counted, CountedPCs, FilePCs, counters
<1>10. ASSUME NEW c \in Conns, WriteSource(c) PROVE Kept
  BY <1>10 DEF WriteSource, Goto, TypeOK, Counted, CountedPCs, FilePCs, counters
<1>11. ASSUME NEW c \in Conns, Pipe(c) PROVE Kept
  BY <1>11 DEF Pipe, Goto, TypeOK, Counted, CountedPCs, FilePCs, counters
<1>12. ASSUME NEW c \in Conns, Fork(c) PROVE Kept
  BY <1>12 DEF Fork, Goto, TypeOK, Counted, CountedPCs, FilePCs, counters
<1>13. ASSUME NEW c \in Conns, CloseWriteEnd(c) PROVE Kept
  BY <1>13 DEF CloseWriteEnd, Goto, TypeOK, Counted, CountedPCs, FilePCs, counters
<1>14. ASSUME NEW c \in Conns, Forward(c) PROVE Kept
  BY <1>14 DEF Forward, TypeOK, Counted, CountedPCs, FilePCs, counters
<1>15. ASSUME NEW c \in Conns, ForwardFails(c) PROVE Kept
  BY <1>15 DEF ForwardFails, Goto, TypeOK, Counted, CountedPCs, FilePCs, counters
<1>16. ASSUME NEW c \in Conns, ReadEOF(c) PROVE Kept
  BY <1>16 DEF ReadEOF, Goto, TypeOK, Counted, CountedPCs, FilePCs, counters
<1>17. ASSUME NEW c \in Conns, Wait(c) PROVE Kept
  BY <1>17 DEF Wait, Goto, TypeOK, Counted, CountedPCs, FilePCs, counters
<1>18. ASSUME NEW c \in Conns, SendDone(c) PROVE Kept
  BY <1>18 DEF SendDone, Goto, TypeOK, Counted, CountedPCs, FilePCs, counters
<1>19. ASSUME NEW c \in Conns, UnlinkSource(c) PROVE Kept
  BY <1>19 DEF UnlinkSource, Goto, TypeOK, Counted, CountedPCs, FilePCs, counters
<1>20. ASSUME NEW c \in Conns, UnlinkBinary(c) PROVE Kept
  BY <1>20 DEF UnlinkBinary, Goto, TypeOK, Counted, CountedPCs, FilePCs, counters
<1>21. ASSUME NEW c \in Conns, Finish(c) PROVE Kept
  BY <1>21
<1>22. ASSUME NEW c \in Conns, CloseConn(c) PROVE Kept
  BY <1>22 DEF CloseConn, Goto, Terminal, TypeOK, Counted, CountedPCs, FilePCs, counters
<1>23. ASSUME NEW c \in Conns, GccReads(c) PROVE Kept
  BY <1>23 DEF GccReads, TypeOK, Counted, CountedPCs, FilePCs, counters
<1>24. ASSUME NEW c \in Conns, GccExits(c) PROVE Kept
  BY <1>24 DEF GccExits, TypeOK, Counted, CountedPCs, FilePCs, counters
<1>25. ASSUME NEW c \in Conns, Exec(c) PROVE Kept
  BY <1>25 DEF Exec, TypeOK, Counted, CountedPCs, FilePCs, counters
<1>26. ASSUME NEW c \in Conns, ChildWrites(c) PROVE Kept
  BY <1>26 DEF ChildWrites, TypeOK, Counted, CountedPCs, FilePCs, counters
<1>27. ASSUME NEW c \in Conns, ProgramExits(c) PROVE Kept
  BY <1>27 DEF ProgramExits, TypeOK, Counted, CountedPCs, FilePCs, counters
<1>28. ASSUME NEW c \in Conns, OrphanEnds(c) PROVE Kept
  BY <1>28 DEF OrphanEnds, TypeOK, Counted, CountedPCs, FilePCs, counters
<1>29. ASSUME UNCHANGED vars PROVE Kept
  BY <1>29 DEF vars, TypeOK, Counted, CountedPCs, FilePCs, counters
<1>30. QED
  BY <1>1, <1>2, <1>3, <1>4, <1>5, <1>6, <1>7, <1>8, <1>9, <1>10, <1>11, <1>12, <1>13,
     <1>14, <1>15, <1>16, <1>17, <1>18, <1>19, <1>20, <1>21, <1>22, <1>23, <1>24, <1>25, <1>26, <1>27, <1>28, <1>29
     DEF Next, AcceptLoop, Handler, ChildEnds, Quiet

\* g_active_tasks counts exactly the handlers between load_task_start and load_task_done.
THEOREM CounterExact == Spec => []ActiveExact
<1> DEFINE S == {c \in Conns : Counted(c)}
<1>0. IsFiniteSet(S) /\ IsFiniteSet(S')
  BY WorkerAssumption, FS_Subset
<1>1. Init => ActiveExact
  <2> SUFFICES ASSUME Init PROVE S = {}
    BY FS_EmptySet DEF Init, ActiveExact
  <2> QED
    BY DEF Init, Counted, CountedPCs, FilePCs
<1>2. ASSUME TypeOK, ActiveExact, [Next]_vars PROVE ActiveExact'
  <2>1. CASE active' = active /\ \A d \in Conns : Counted(d)' <=> Counted(d)
    <3>1. S' = S
      BY <2>1
    <3>2. QED
      BY <1>2, <2>1, <3>1 DEF ActiveExact
  <2>2. ASSUME NEW c \in Conns, StartActive(c) PROVE ActiveExact'
    <3>1. c \notin S
      BY <2>2 DEF StartActive, Goto, Counted, CountedPCs, FilePCs
    <3>2. S' = S \cup {c}
      BY <1>2, <2>2 DEF StartActive, Goto, Counted, CountedPCs, FilePCs, TypeOK
    <3>3. Cardinality(S') = Cardinality(S) + 1
      BY <1>0, <3>1, <3>2, FS_AddElement
    <3>4. QED
      BY <1>2, <2>2, <3>3 DEF ActiveExact, StartActive
  <2>3. ASSUME NEW c \in Conns, Finish(c) PROVE ActiveExact'
    <3>1. c \in S
      BY <2>3 DEF Finish, Goto, Counted, CountedPCs, FilePCs
    <3>2. S' = S \ {c}
      BY <1>2, <2>3 DEF Finish, Goto, Counted, CountedPCs, FilePCs, TypeOK
    <3>3. Cardinality(S') = Cardinality(S) - 1
      BY <1>0, <3>1, <3>2, FS_RemoveElement
    <3>4. QED
      BY <1>2, <2>3, <3>3 DEF ActiveExact, Finish
  <2>4. QED
    BY <1>2, <2>1, <2>2, <2>3, CountedStep
<1>3. QED
  BY <1>1, <1>2, TypeCorrect, PTL DEF Spec
-------------------------------------------------------------------------------
\* A handler has a child to wait for only between fork() and the end of waitpid().
ChildAwaited ==
  \A c \in Conns :
    pc[c] \notin {"closew", "read", "wait"} => child[c].state \in {"none", "reaped"}

\* Reaping changes the state of the one child that is reaped.
LEMMA ReapedState ==
  ASSUME child \in [Conns -> Process], NEW d \in Conns,
         child' = [child EXCEPT ![d].state = "reaped", ![d].pipes = {}, ![d].socks = {}]
  PROVE  \A e \in Conns : child'[e].state = IF e = d THEN "reaped" ELSE child[e].state
BY DEF Process

\* One step keeps every child awaited.
LEMMA AwaitedStep ==
  ASSUME TypeOK, ChildAwaited, [Next]_vars
  PROVE  ChildAwaited'
<1> USE DEF TypeOK, ChildAwaited
<1>1. CASE AcceptFails
  BY <1>1 DEF AcceptFails
<1>2. ASSUME NEW c \in Conns, ClientConnects(c) PROVE ChildAwaited'
  BY <1>2 DEF ClientConnects, Goto
<1>3. ASSUME NEW c \in Conns, ClientLeaves(c) PROVE ChildAwaited'
  BY <1>3 DEF ClientLeaves
<1>4. ASSUME NEW c \in Conns, Accept(c) PROVE ChildAwaited'
  BY <1>4 DEF Accept, Goto
<1>5. ASSUME NEW c \in Conns, Gate(c) PROVE ChildAwaited'
  BY <1>5 DEF Gate, Goto
<1>6. ASSUME NEW c \in Conns, Receive(c) PROVE ChildAwaited'
  BY <1>6 DEF Receive, Goto
<1>7. ASSUME NEW c \in Conns, StartActive(c) PROVE ChildAwaited'
  BY <1>7 DEF StartActive, Goto
<1>8. ASSUME NEW c \in Conns, StartTotal(c) PROVE ChildAwaited'
  BY <1>8 DEF StartTotal, Goto
<1>9. ASSUME NEW c \in Conns, OpenSource(c) PROVE ChildAwaited'
  BY <1>9 DEF OpenSource, Goto
<1>10. ASSUME NEW c \in Conns, WriteSource(c) PROVE ChildAwaited'
  BY <1>10 DEF WriteSource, Goto
<1>11. ASSUME NEW c \in Conns, Pipe(c) PROVE ChildAwaited'
  BY <1>11 DEF Pipe, Goto
<1>12. ASSUME NEW c \in Conns, Fork(c) PROVE ChildAwaited'
  BY <1>12 DEF Fork, Goto, NewChild, NoChild
<1>13. ASSUME NEW c \in Conns, CloseWriteEnd(c) PROVE ChildAwaited'
  BY <1>13 DEF CloseWriteEnd, Goto
<1>14. ASSUME NEW c \in Conns, Forward(c) PROVE ChildAwaited'
  BY <1>14 DEF Forward
<1>15. ASSUME NEW c \in Conns, ForwardFails(c) PROVE ChildAwaited'
  BY <1>15 DEF ForwardFails, Goto, Exits
<1>16. ASSUME NEW c \in Conns, ReadEOF(c) PROVE ChildAwaited'
  BY <1>16 DEF ReadEOF, Goto
<1>17. ASSUME NEW c \in Conns, Wait(c) PROVE ChildAwaited'
  <2>1. CASE child' = child /\ NothingToReap(c)
    BY <1>17, <2>1 DEF Wait, Goto, NothingToReap
  <2>2. ASSUME NEW d \in Conns, Reaps(c, d),
               child' = [child EXCEPT ![d].state = "reaped", ![d].pipes = {}, ![d].socks = {}]
        PROVE  ChildAwaited'
    <3>1. \A e \in Conns : child'[e].state = IF e = d THEN "reaped" ELSE child[e].state
      BY <2>2, ReapedState
    <3>2. child'[c].state \in {"none", "reaped"}
      BY <2>2, <3>1 DEF Reaps
    <3>3. QED
      BY <1>17, <3>1, <3>2 DEF Wait, Goto
  <2>3. QED
    BY <1>17, <2>1, <2>2 DEF Wait
<1>18. ASSUME NEW c \in Conns, SendDone(c) PROVE ChildAwaited'
  BY <1>18 DEF SendDone, Goto
<1>19. ASSUME NEW c \in Conns, UnlinkSource(c) PROVE ChildAwaited'
  BY <1>19 DEF UnlinkSource, Goto
<1>20. ASSUME NEW c \in Conns, UnlinkBinary(c) PROVE ChildAwaited'
  BY <1>20 DEF UnlinkBinary, Goto
<1>21. ASSUME NEW c \in Conns, Finish(c) PROVE ChildAwaited'
  BY <1>21 DEF Finish, Goto
<1>22. ASSUME NEW c \in Conns, CloseConn(c) PROVE ChildAwaited'
  BY <1>22 DEF CloseConn, Goto
<1>23. ASSUME NEW c \in Conns, GccReads(c) PROVE ChildAwaited'
  BY <1>23 DEF GccReads, Live
<1>24. ASSUME NEW c \in Conns, GccExits(c) PROVE ChildAwaited'
  BY <1>24 DEF GccExits, Exits, Live
<1>25. ASSUME NEW c \in Conns, Exec(c) PROVE ChildAwaited'
  BY <1>25 DEF Exec, Exits, Live
<1>26. ASSUME NEW c \in Conns, ChildWrites(c) PROVE ChildAwaited'
  BY <1>26 DEF ChildWrites, Live
<1>27. ASSUME NEW c \in Conns, ProgramExits(c) PROVE ChildAwaited'
  BY <1>27 DEF ProgramExits, Exits, Live
<1>28. ASSUME NEW c \in Conns, OrphanEnds(c) PROVE ChildAwaited'
  BY <1>28 DEF OrphanEnds
<1>29. CASE UNCHANGED vars
  BY <1>29 DEF vars
<1>30. QED
  BY <1>1, <1>2, <1>3, <1>4, <1>5, <1>6, <1>7, <1>8, <1>9, <1>10, <1>11, <1>12, <1>13,
     <1>14, <1>15, <1>16, <1>17, <1>18, <1>19, <1>20, <1>21, <1>22, <1>23, <1>24, <1>25, <1>26, <1>27, <1>28, <1>29
     DEF Next, AcceptLoop, Handler, ChildEnds, Quiet

\* Every handler that ends has reaped its child, whichever of the modelled faults happen.
THEOREM NoOrphans == Spec => []ChildrenReaped
<1>1. Init => ChildAwaited
  BY DEF Init, ChildAwaited, NoChild
<1>2. TypeOK /\ ChildAwaited /\ [Next]_vars => ChildAwaited'
  BY AwaitedStep
<1>3. ChildAwaited => ChildrenReaped
  BY DEF ChildAwaited, ChildrenReaped, Terminal
<1>4. QED
  BY <1>1, <1>2, <1>3, TypeCorrect, PTL DEF Spec
-------------------------------------------------------------------------------
\* The connections' streams.

RunOutput == {m \in OutputMsg : m.stage = "run"}
Has(s, kind) == \E i \in DOMAIN s : s[i] \in kind

\* A message appended to a stream is the only kind the stream gains.
LEMMA AppendHas ==
  ASSUME NEW s \in Seq(Message), NEW m \in Message, NEW k
  PROVE  Has(Append(s, m), k) => Has(s, k) \/ m \in k
<1> DEFINE t == Append(s, m)
<1>1. DOMAIN t = 1 .. Len(s) + 1 /\ DOMAIN s = 1 .. Len(s) /\ Len(s) \in Nat
  OBVIOUS
<1>2. t[Len(s) + 1] = m /\ \A i \in 1 .. Len(s) : t[i] = s[i]
  OBVIOUS
<1>3. SUFFICES ASSUME NEW i \in DOMAIN t, t[i] \in k PROVE Has(s, k) \/ m \in k
  BY DEF Has
<1>4. CASE i = Len(s) + 1
  BY <1>2, <1>3, <1>4
<1>5. CASE i \in 1 .. Len(s)
  BY <1>1, <1>2, <1>3, <1>5 DEF Has
<1>6. QED
  BY <1>1, <1>4, <1>5

\* No verdict has been sent before the handler reaches the point of sending it, and no
\* output of the program while the compiler is still at work.
Unanswered(c) == pc[c] \notin {"unlinksrc", "unlinkbin", "finish", "close"} \cup Terminal
CompileOnly(c) == stage[c] = "compile"
StreamInv ==
  \A c \in Conns : /\ Unanswered(c) => ~ Has(sent[c], DoneMsg)
                   /\ CompileOnly(c) => ~ Has(sent[c], RunOutput)

\* A step that sends nothing keeps the order of the streams if no handler moves back.
LEMMA StreamKept ==
  ASSUME StreamInv, sent' = sent,
         \A d \in Conns : /\ Unanswered(d)' => Unanswered(d)
                          /\ CompileOnly(d)' => CompileOnly(d)
  PROVE  StreamInv'
BY DEF StreamInv

\* One step keeps the order of every stream.
LEMMA StreamStep ==
  ASSUME TypeOK, BufferOwned, StreamInv, [Next]_vars
  PROVE  StreamInv'
<1> USE DEF TypeOK
<1>1. CASE AcceptFails
  BY <1>1, StreamKept DEF AcceptFails, Unanswered, CompileOnly, Terminal
<1>2. ASSUME NEW c \in Conns, ClientConnects(c) PROVE StreamInv'
  BY <1>2, StreamKept DEF ClientConnects, Goto, Unanswered, CompileOnly, Terminal
<1>3. ASSUME NEW c \in Conns, ClientLeaves(c) PROVE StreamInv'
  BY <1>3, StreamKept DEF ClientLeaves, Unanswered, CompileOnly, Terminal
<1>4. ASSUME NEW c \in Conns, Accept(c) PROVE StreamInv'
  BY <1>4, StreamKept DEF Accept, Goto, Unanswered, CompileOnly, Terminal
<1>5. ASSUME NEW c \in Conns, Gate(c) PROVE StreamInv'
  BY <1>5, StreamKept DEF Gate, Goto, Unanswered, CompileOnly, Terminal
<1>6. ASSUME NEW c \in Conns, Receive(c) PROVE StreamInv'
  BY <1>6, StreamKept DEF Receive, Goto, Unanswered, CompileOnly, Terminal
<1>7. ASSUME NEW c \in Conns, StartActive(c) PROVE StreamInv'
  BY <1>7, StreamKept DEF StartActive, Goto, Unanswered, CompileOnly, Terminal
<1>8. ASSUME NEW c \in Conns, StartTotal(c) PROVE StreamInv'
  BY <1>8, StreamKept DEF StartTotal, Goto, Unanswered, CompileOnly, Terminal
<1>9. ASSUME NEW c \in Conns, OpenSource(c) PROVE StreamInv'
  BY <1>9, StreamKept DEF OpenSource, Goto, Unanswered, CompileOnly, Terminal
<1>10. ASSUME NEW c \in Conns, WriteSource(c) PROVE StreamInv'
  BY <1>10, StreamKept DEF WriteSource, Goto, Unanswered, CompileOnly, Terminal
<1>11. ASSUME NEW c \in Conns, Pipe(c) PROVE StreamInv'
  BY <1>11, StreamKept DEF Pipe, Goto, Unanswered, CompileOnly, Terminal
<1>12. ASSUME NEW c \in Conns, Fork(c) PROVE StreamInv'
  BY <1>12, StreamKept DEF Fork, Goto, Unanswered, CompileOnly, Terminal
<1>13. ASSUME NEW c \in Conns, CloseWriteEnd(c) PROVE StreamInv'
  BY <1>13, StreamKept DEF CloseWriteEnd, Goto, Unanswered, CompileOnly, Terminal
<1>14. ASSUME NEW c \in Conns, Forward(c) PROVE StreamInv'
  <2>1. CASE client[c] # "connected"
    BY <1>14, <2>1, StreamKept DEF Forward, Unanswered, CompileOnly
  <2>2. CASE client[c] = "connected"
    <3> DEFINE m == [type |-> "OUTPUT", stage |-> stage[c], by |-> child[c].image]
    <3>1. m \in OutputMsg /\ m \notin DoneMsg /\ m \in Message
      BY <1>14, WorkerAssumption DEF Forward, BufferOwned, OutputMsg, DoneMsg, Message, Process
    <3>2. sent' = [sent EXCEPT ![c] = Append(sent[c], m)]
      BY <1>14, <2>2 DEF Forward
    <3>3. \A k : Has(sent'[c], k) => Has(sent[c], k) \/ m \in k
      BY <3>1, <3>2, AppendHas
    <3> HIDE DEF m
    <3>4. stage[c] = "compile" => m \notin RunOutput
      BY DEF m, RunOutput
    <3>5. pc' = pc /\ stage' = stage /\ pc[c] = "read"
      BY <1>14 DEF Forward
    <3>6. ~ Has(sent'[c], DoneMsg)
      BY <3>1, <3>3, <3>5 DEF StreamInv, Unanswered, Terminal
    <3>7. CompileOnly(c) => ~ Has(sent'[c], RunOutput)
      BY <3>3, <3>4 DEF StreamInv, CompileOnly
    <3>8. \A d \in Conns \ {c} : sent'[d] = sent[d]
      BY <3>2
    <3>9. QED
      BY <3>5, <3>6, <3>7, <3>8 DEF StreamInv, Unanswered, CompileOnly
  <2>3. QED
    BY <2>1, <2>2
<1>15. ASSUME NEW c \in Conns, ForwardFails(c) PROVE StreamInv'
  BY <1>15, StreamKept DEF ForwardFails, Goto, Unanswered, CompileOnly, Terminal
<1>16. ASSUME NEW c \in Conns, ReadEOF(c) PROVE StreamInv'
  BY <1>16, StreamKept DEF ReadEOF, Goto, Unanswered, CompileOnly, Terminal
<1>17. ASSUME NEW c \in Conns, Wait(c) PROVE StreamInv'
  BY <1>17, StreamKept DEF Wait, Goto, Unanswered, CompileOnly, Terminal
<1>18. ASSUME NEW c \in Conns, SendDone(c) PROVE StreamInv'
  <2>1. CASE client[c] # "connected"
    BY <1>18, <2>1, StreamKept DEF SendDone, Goto, Unanswered, CompileOnly, Terminal
  <2>2. CASE client[c] = "connected"
    <3> DEFINE m == [type |-> "DONE", code |-> code[c]]
    <3>1. m \in DoneMsg /\ m \in Message /\ m \notin RunOutput
      BY DEF DoneMsg, Message, RunOutput, OutputMsg
    <3>2. sent' = [sent EXCEPT ![c] = Append(sent[c], m)]
      BY <1>18, <2>2 DEF SendDone
    <3>3. \A k : Has(sent'[c], k) => Has(sent[c], k) \/ m \in k
      BY <3>1, <3>2, AppendHas
    <3> HIDE DEF m
    <3>4. QED
      BY <1>18, <3>1, <3>2, <3>3
         DEF SendDone, Goto, StreamInv, Unanswered, CompileOnly, Terminal
  <2>3. QED
    BY <2>1, <2>2
<1>19. ASSUME NEW c \in Conns, UnlinkSource(c) PROVE StreamInv'
  BY <1>19, StreamKept DEF UnlinkSource, Goto, Unanswered, CompileOnly, Terminal
<1>20. ASSUME NEW c \in Conns, UnlinkBinary(c) PROVE StreamInv'
  BY <1>20, StreamKept DEF UnlinkBinary, Goto, Unanswered, CompileOnly, Terminal
<1>21. ASSUME NEW c \in Conns, Finish(c) PROVE StreamInv'
  BY <1>21, StreamKept DEF Finish, Goto, Unanswered, CompileOnly, Terminal
<1>22. ASSUME NEW c \in Conns, CloseConn(c) PROVE StreamInv'
  BY <1>22, StreamKept DEF CloseConn, Goto, Unanswered, CompileOnly, Terminal
<1>23. ASSUME NEW c \in Conns, GccReads(c) PROVE StreamInv'
  BY <1>23, StreamKept DEF GccReads, Unanswered, CompileOnly, Terminal
<1>24. ASSUME NEW c \in Conns, GccExits(c) PROVE StreamInv'
  BY <1>24, StreamKept DEF GccExits, Unanswered, CompileOnly, Terminal
<1>25. ASSUME NEW c \in Conns, Exec(c) PROVE StreamInv'
  BY <1>25, StreamKept DEF Exec, Unanswered, CompileOnly, Terminal
<1>26. ASSUME NEW c \in Conns, ChildWrites(c) PROVE StreamInv'
  BY <1>26, StreamKept DEF ChildWrites, Unanswered, CompileOnly, Terminal
<1>27. ASSUME NEW c \in Conns, ProgramExits(c) PROVE StreamInv'
  BY <1>27, StreamKept DEF ProgramExits, Unanswered, CompileOnly, Terminal
<1>28. ASSUME NEW c \in Conns, OrphanEnds(c) PROVE StreamInv'
  BY <1>28, StreamKept DEF OrphanEnds, Unanswered, CompileOnly, Terminal
<1>29. CASE UNCHANGED vars
  BY <1>29, StreamKept DEF vars, Unanswered, CompileOnly
<1>30. QED
  BY <1>1, <1>2, <1>3, <1>4, <1>5, <1>6, <1>7, <1>8, <1>9, <1>10, <1>11, <1>12, <1>13,
     <1>14, <1>15, <1>16, <1>17, <1>18, <1>19, <1>20, <1>21, <1>22, <1>23, <1>24, <1>25, <1>26, <1>27, <1>28, <1>29
     DEF Next, AcceptLoop, Handler, ChildEnds, Quiet

\* What Session!closed stands for.
ClosedConns == [c \in Conns |-> pc[c] \in Terminal]
SessionNext == Session!Next \/ UNCHANGED <<sent, ClosedConns>>

\* Every step of a worker is a step of the sessions or leaves them as they are.
LEMMA SessionStep ==
  ASSUME TypeOK, BufferOwned, StreamInv, [Next]_vars
  PROVE  SessionNext
<1> USE DEF SessionNext
<1> DEFINE Same == sent' = sent /\ ClosedConns' = ClosedConns
<1> USE DEF TypeOK, ClosedConns
<1>0. Same => UNCHANGED <<sent, ClosedConns>>
  OBVIOUS
<1>1. CASE AcceptFails
  BY <1>1 DEF AcceptFails
<1>2. ASSUME NEW c \in Conns, ClientConnects(c) PROVE SessionNext
  BY <1>2 DEF ClientConnects, Goto, Terminal
<1>3. ASSUME NEW c \in Conns, ClientLeaves(c) PROVE SessionNext
  BY <1>3 DEF ClientLeaves, Terminal
<1>4. ASSUME NEW c \in Conns, Accept(c) PROVE SessionNext
  BY <1>4 DEF Accept, Goto, Terminal
<1>5. ASSUME NEW c \in Conns, Gate(c) PROVE SessionNext
  <2>1. CASE pc'[c] = "recv"
    BY <1>5, <2>1 DEF Gate, Goto, Terminal
  <2>2. CASE pc'[c] # "recv"
    <3>1. Session!Close(c)
      BY <1>5, <2>2 DEF Gate, Goto, Terminal, Session!Close
    <3>2. QED
      BY <3>1 DEF Session!Next
  <2>3. QED
    BY <2>1, <2>2
<1>6. ASSUME NEW c \in Conns, Receive(c) PROVE SessionNext
  BY <1>6 DEF Receive, Goto, Terminal
<1>7. ASSUME NEW c \in Conns, StartActive(c) PROVE SessionNext
  BY <1>7 DEF StartActive, Goto, Terminal
<1>8. ASSUME NEW c \in Conns, StartTotal(c) PROVE SessionNext
  BY <1>8 DEF StartTotal, Goto, Terminal
<1>9. ASSUME NEW c \in Conns, OpenSource(c) PROVE SessionNext
  BY <1>9 DEF OpenSource, Goto, Terminal
<1>10. ASSUME NEW c \in Conns, WriteSource(c) PROVE SessionNext
  BY <1>10 DEF WriteSource, Goto, Terminal
<1>11. ASSUME NEW c \in Conns, Pipe(c) PROVE SessionNext
  BY <1>11 DEF Pipe, Goto, Terminal
<1>12. ASSUME NEW c \in Conns, Fork(c) PROVE SessionNext
  BY <1>12 DEF Fork, Goto, Terminal
<1>13. ASSUME NEW c \in Conns, CloseWriteEnd(c) PROVE SessionNext
  BY <1>13 DEF CloseWriteEnd, Goto, Terminal
<1>14. ASSUME NEW c \in Conns, Forward(c) PROVE SessionNext
  <2>1. CASE client[c] # "connected"
    BY <1>14, <2>1 DEF Forward
  <2>2. CASE client[c] = "connected"
    <3> DEFINE m == [type |-> "OUTPUT", stage |-> stage[c], by |-> child[c].image]
    <3>1. /\ m \in OutputMsg
          /\ m.stage = stage[c]
      BY <1>14, WorkerAssumption DEF Forward, BufferOwned, OutputMsg, Process
    <3>2. sent' = [sent EXCEPT ![c] = Append(sent[c], m)] /\ ClosedConns' = ClosedConns
      BY <1>14, <2>2 DEF Forward
    <3>3. ~ ClosedConns[c] /\ ~ Has(sent[c], DoneMsg)
      BY <1>14 DEF Forward, StreamInv, Unanswered, Terminal
    <3> HIDE DEF m
    <3>4. CASE stage[c] = "compile"
      <4>1. ~ Has(sent[c], RunOutput)
        BY <3>4 DEF StreamInv, CompileOnly
      <4>2. Session!Compiler(c)
        BY <3>1, <3>2, <3>3, <3>4, <4>1
           DEF Session!Compiler, Session!Deliver, Session!Delivered, Has, RunOutput
      <4>3. QED
        BY <4>2 DEF Session!Next
    <3>5. CASE stage[c] = "run"
      <4>1. Session!Program(c)
        BY <3>1, <3>2, <3>3, <3>5 DEF Session!Program, Session!Deliver, Session!Delivered, Has
      <4>2. QED
        BY <4>1 DEF Session!Next
    <3>6. QED
      BY <3>4, <3>5 DEF Stages
  <2>3. QED
    BY <2>1, <2>2
<1>15. ASSUME NEW c \in Conns, ForwardFails(c) PROVE SessionNext
  BY <1>15 DEF ForwardFails, Goto, Terminal
<1>16. ASSUME NEW c \in Conns, ReadEOF(c) PROVE SessionNext
  BY <1>16 DEF ReadEOF, Goto, Terminal
<1>17. ASSUME NEW c \in Conns, Wait(c) PROVE SessionNext
  <2>1. pc' = [pc EXCEPT ![c] = "pipe"] \/ pc' = [pc EXCEPT ![c] = "done"]
    BY <1>17 DEF Wait, Goto
  <2>2. pc[c] = "wait" /\ sent' = sent
    BY <1>17 DEF Wait
  <2>3. ClosedConns' = ClosedConns
    BY <2>1, <2>2 DEF Terminal
  <2>4. QED
    BY <2>2, <2>3
<1>18. ASSUME NEW c \in Conns, SendDone(c) PROVE SessionNext
  <2>0. ClosedConns' = ClosedConns
    BY <1>18 DEF SendDone, Goto, Terminal
  <2>1. CASE client[c] # "connected"
    BY <1>18, <2>0, <2>1 DEF SendDone
  <2>2. CASE client[c] = "connected"
    <3> DEFINE m == [type |-> "DONE", code |-> code[c]]
    <3>1. m \in DoneMsg
      BY DEF DoneMsg
    <3>2. sent' = [sent EXCEPT ![c] = Append(sent[c], m)]
      BY <1>18, <2>2 DEF SendDone
    <3>3. ~ ClosedConns[c] /\ ~ Has(sent[c], DoneMsg)
      BY <1>18 DEF SendDone, Goto, StreamInv, Unanswered, Terminal
    <3> HIDE DEF m
    <3>4. Session!Answer(c)
      BY <2>0, <3>1, <3>2, <3>3 DEF Session!Answer, Session!Deliver, Session!Delivered, Has
    <3>5. QED
      BY <3>4 DEF Session!Next
  <2>3. QED
    BY <2>1, <2>2
<1>19. ASSUME NEW c \in Conns, UnlinkSource(c) PROVE SessionNext
  BY <1>19 DEF UnlinkSource, Goto, Terminal
<1>20. ASSUME NEW c \in Conns, UnlinkBinary(c) PROVE SessionNext
  BY <1>20 DEF UnlinkBinary, Goto, Terminal
<1>21. ASSUME NEW c \in Conns, Finish(c) PROVE SessionNext
  BY <1>21 DEF Finish, Goto, Terminal
<1>22. ASSUME NEW c \in Conns, CloseConn(c) PROVE SessionNext
  <2>1. Session!Close(c)
    BY <1>22 DEF CloseConn, Goto, Terminal, Session!Close
  <2>2. QED
    BY <2>1 DEF Session!Next
<1>23. ASSUME NEW c \in Conns, GccReads(c) PROVE SessionNext
  BY <1>23 DEF GccReads, Terminal
<1>24. ASSUME NEW c \in Conns, GccExits(c) PROVE SessionNext
  BY <1>24 DEF GccExits, Terminal
<1>25. ASSUME NEW c \in Conns, Exec(c) PROVE SessionNext
  BY <1>25 DEF Exec, Terminal
<1>26. ASSUME NEW c \in Conns, ChildWrites(c) PROVE SessionNext
  BY <1>26 DEF ChildWrites, Terminal
<1>27. ASSUME NEW c \in Conns, ProgramExits(c) PROVE SessionNext
  BY <1>27 DEF ProgramExits, Terminal
<1>28. ASSUME NEW c \in Conns, OrphanEnds(c) PROVE SessionNext
  BY <1>28 DEF OrphanEnds, Terminal
<1>29. CASE UNCHANGED vars
  BY <1>29 DEF vars
<1>30. QED
  BY <1>1, <1>2, <1>3, <1>4, <1>5, <1>6, <1>7, <1>8, <1>9, <1>10, <1>11, <1>12, <1>13,
     <1>14, <1>15, <1>16, <1>17, <1>18, <1>19, <1>20, <1>21, <1>22, <1>23, <1>24, <1>25, <1>26, <1>27, <1>28, <1>29
     DEF Next, AcceptLoop, Handler, ChildEnds, Quiet

\* The worker's connections behave as TaskSession promises them to the dispatcher.
THEOREM Refinement == Spec => SessionSpec
<1>1. Init => TypeOK /\ BufferOwned /\ StreamInv
  <2>1. Init => TypeOK /\ BufferOwned
    BY WorkerAssumption
       DEF Init, TypeOK, BufferOwned, PCs, Stages, Codes, File, Process, NoChild
  <2>2. Init => StreamInv
    BY DEF Init, StreamInv, Has
  <2>3. QED
    BY <2>1, <2>2
<1>2. TypeOK /\ BufferOwned /\ StreamInv /\ [Next]_vars => (TypeOK /\ BufferOwned /\ StreamInv)'
  BY TypeStep, BufferStep, StreamStep
<1>3. Init => Session!Init
  <2>1. ASSUME Init PROVE \A c \in Conns : (pc[c] \in Terminal) = FALSE
    BY <2>1 DEF Init, Terminal
  <2>2. Init => [c \in Conns |-> pc[c] \in Terminal] = [c \in Conns |-> FALSE]
    BY <2>1
  <2>3. Init => sent = [c \in Conns |-> <<>>]
    BY DEF Init
  <2>4. QED
    BY <2>2, <2>3, Zenon DEF Session!Init
<1>4. TypeOK /\ BufferOwned /\ StreamInv /\ [Next]_vars
        => [Session!Next]_<<sent, [c \in Conns |-> pc[c] \in Terminal]>>
  BY SessionStep DEF SessionNext, ClosedConns
<1>5. QED
  BY <1>1, <1>2, <1>3, <1>4, PTL DEF Spec, SessionSpec, Session!Spec
===============================================================================
