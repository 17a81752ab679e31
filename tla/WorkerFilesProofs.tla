--------------------------- MODULE WorkerFilesProofs ---------------------------
(***************************************************************************)
(* What holds of the two files in /tmp that all the handlers of Worker     *)
(* share, and of a task that no other overlaps, for any number of          *)
(* connections and any capacity.  The last two sections prepare Node: how  *)
(* much a client is sent, and which steps of the server it can see.        *)
(***************************************************************************)
EXTENDS WorkerProofs

\* What the threads and processes of one connection do.
Step(c) ==
  \/ Accept(c) \/ Gate(c) \/ ClientConnects(c) \/ ClientLeaves(c)
  \/ Handler(c) \/ ChildEnds(c) \/ ChildWrites(c)

LEMMA StepOfOne == [Next]_vars => AcceptFails \/ (\E c \in Conns : Step(c)) \/ UNCHANGED vars
BY DEF Next, AcceptLoop, Step, Quiet
-------------------------------------------------------------------------------
\* The source file

\* The source is there only while a handler that will unlink it is at work, and a FILE is
\* open on it only between a handler's fopen and fclose.
SourceHeld ==
  /\ src # Absent => \E d \in Conns : pc[d] \in FilePCs \ {"unlinkbin"}
  /\ \A d \in writers : pc[d] = "write"

\* A handler that goes on as it should keeps the source held.
LEMMA HeldByMove ==
  ASSUME TypeOK, SourceHeld, UNCHANGED <<src, writers>>, NEW c \in Conns, NEW to,
         pc' = [pc EXCEPT ![c] = to], pc[c] # "write",
         pc[c] \in FilePCs \ {"unlinkbin"} => to \in FilePCs \ {"unlinkbin"}
  PROVE  SourceHeld'
BY DEF TypeOK, SourceHeld

LEMMA SourceStep ==
  ASSUME TypeOK, SourceHeld, [Next]_vars
  PROVE  SourceHeld'
<1>1. CASE UNCHANGED <<src, writers, pc>>
  BY <1>1 DEF SourceHeld
<1>2. ASSUME NEW c \in Conns,
             \/ ClientConnects(c) \/ Accept(c) \/ Receive(c) \/ StartActive(c) \/ StartTotal(c)
             \/ CloseWriteEnd(c) \/ ReadEOF(c) \/ SendDone(c) \/ UnlinkBinary(c)
             \/ Finish(c) \/ CloseConn(c)
      PROVE  SourceHeld'
  BY <1>2, HeldByMove
  DEF ClientConnects, Accept, Receive, StartActive, StartTotal, CloseWriteEnd, ReadEOF, SendDone,
      UnlinkBinary, Finish, CloseConn, Goto, files, FilePCs
<1>3. ASSUME NEW c \in Conns, Gate(c) PROVE SourceHeld'
  BY <1>3, HeldByMove DEF Gate, Goto, files, FilePCs
<1>4. ASSUME NEW c \in Conns, Pipe(c) \/ Fork(c) PROVE SourceHeld'
  BY <1>1, <1>4, HeldByMove DEF Pipe, Fork, Goto, files, FilePCs
<1>5. ASSUME NEW c \in Conns, ForwardFails(c) \/ Wait(c) PROVE SourceHeld'
  BY <1>5, HeldByMove DEF ForwardFails, Wait, Goto, files, FilePCs
<1>6. ASSUME NEW c \in Conns, OpenSource(c) PROVE SourceHeld'
  <2>1. CASE pc' = [pc EXCEPT ![c] = "finish"] /\ UNCHANGED <<src, writers>>
    BY <1>6, <2>1, HeldByMove DEF OpenSource, Goto, FilePCs
  <2>2. CASE pc' = [pc EXCEPT ![c] = "write"] /\ writers' = writers \cup {c}
    BY <2>2 DEF SourceHeld, TypeOK, FilePCs
  <2>3. QED
    BY <1>6, <2>1, <2>2 DEF OpenSource, Goto
<1>7. ASSUME NEW c \in Conns, WriteSource(c) PROVE SourceHeld'
  BY <1>7 DEF WriteSource, Goto, SourceHeld, TypeOK, FilePCs
<1>8. ASSUME NEW c \in Conns, UnlinkSource(c) PROVE SourceHeld'
  BY <1>8 DEF UnlinkSource, SourceHeld
<1>9. ASSUME NEW c \in Conns, ClientLeaves(c) \/ Forward(c) \/ ChildEnds(c) \/ ChildWrites(c)
      PROVE  SourceHeld'
  BY <1>1, <1>9
  DEF ClientLeaves, Forward, ChildEnds, GccReads, GccExits, Exec, OrphanEnds, ChildWrites,
      ProgramExits, files
<1>10. QED
  BY <1>1, <1>2, <1>3, <1>4, <1>5, <1>6, <1>7, <1>8, <1>9, StepOfOne
  DEF Step, Handler, AcceptFails, vars, files
-------------------------------------------------------------------------------
\* The child processes

\* A process that ends, one that gets its image, one that writes and one that is reaped are
\* what they were otherwise.
LEMMA ExitsOf ==
  ASSUME child \in [Conns -> Process], NEW c \in Conns, NEW s, Exits(c, s)
  PROVE  /\ \A d \in Conns \ {c} : child'[d] = child[d]
         /\ child'[c].state = "zombie" /\ child'[c].status = s
         /\ child'[c].image = child[c].image
BY DEF Exits, Process

LEMMA LoadsOf ==
  ASSUME child \in [Conns -> Process], NEW c \in Conns, NEW f,
         child' = [child EXCEPT ![c].image = f]
  PROVE  /\ \A d \in Conns \ {c} : child'[d] = child[d]
         /\ child'[c].state = child[c].state /\ child'[c].status = child[c].status
         /\ child'[c].image = f
BY DEF Process

LEMMA WritesOf ==
  ASSUME child \in [Conns -> Process], NEW c \in Conns,
         child' = [child EXCEPT ![c].wrote = @ + 1]
  PROVE  /\ \A d \in Conns \ {c} : child'[d] = child[d]
         /\ child'[c].state = child[c].state /\ child'[c].status = child[c].status
         /\ child'[c].image = child[c].image
BY DEF Process

LEMMA ReapedOf ==
  ASSUME child \in [Conns -> Process], NEW c \in Conns,
         child' = [child EXCEPT ![c].state = "reaped", ![c].pipes = {}, ![c].socks = {}]
  PROVE  /\ \A d \in Conns \ {c} : child'[d] = child[d]
         /\ child'[c].state = "reaped" /\ child'[c].status = child[c].status
         /\ child'[c].image = child[c].image
BY DEF Process

LEMMA ForkedOf ==
  NewChild.state = "live" /\ NewChild.image = Unread
BY DEF NewChild, NoChild
-------------------------------------------------------------------------------
\* The binary

\* Unless fork() fails, a handler that waits has a child of its own to wait for, so that no
\* handler takes another's exit status.
HasChild ==
  \A c \in Conns : pc[c] \in {"closew", "read", "wait"} => child[c].state \in {"live", "zombie"}
ForkInv == ChildAwaited /\ HasChild

LEMMA HasChildStep ==
  ASSUME TypeOK, HasChild, "fork" \notin Faults, [Next]_vars
  PROVE  HasChild'
<1> USE DEF TypeOK, HasChild
<1>1. CASE UNCHANGED <<pc, child>>
  BY <1>1
<1>2. ASSUME NEW c \in Conns,
             \/ ClientConnects(c) \/ Accept(c) \/ Gate(c) \/ Receive(c) \/ StartActive(c)
             \/ StartTotal(c) \/ OpenSource(c) \/ WriteSource(c) \/ Pipe(c) \/ CloseWriteEnd(c)
             \/ ReadEOF(c) \/ SendDone(c) \/ UnlinkSource(c) \/ UnlinkBinary(c) \/ Finish(c)
             \/ CloseConn(c)
      PROVE  HasChild'
  <2>1. /\ child' = child /\ \A d \in Conns \ {c} : pc'[d] = pc[d]
        /\ pc'[c] \in {"closew", "read", "wait"} => pc[c] \in {"closew", "read", "wait"}
    BY <1>2
    DEF ClientConnects, Accept, Gate, Receive, StartActive, StartTotal, OpenSource, WriteSource,
        Pipe, CloseWriteEnd, ReadEOF, SendDone, UnlinkSource, UnlinkBinary, Finish, CloseConn,
        Goto
  <2>2. QED
    BY <2>1
<1>3. ASSUME NEW c \in Conns, Fork(c) PROVE HasChild'
  <2>1. child'[c].state = "live" /\ \A d \in Conns \ {c} : pc'[d] = pc[d] /\ child'[d] = child[d]
    BY <1>3, ForkedOf DEF Fork, Goto
  <2>2. QED
    BY <2>1
<1>4. ASSUME NEW c \in Conns, NEW s, Exits(c, s),
             pc' = pc \/ (pc[c] = "read" /\ pc' = [pc EXCEPT ![c] = "wait"])
      PROVE  HasChild'
  BY <1>4, ExitsOf
<1>5. ASSUME NEW c \in Conns, ForwardFails(c) PROVE HasChild'
  <2>1. CASE Exits(c, Killed)
    BY <1>4, <1>5, <2>1 DEF ForwardFails, Goto
  <2>2. CASE UNCHANGED child
    BY <1>5, <2>2 DEF ForwardFails, Goto
  <2>3. QED
    BY <1>5, <2>1, <2>2 DEF ForwardFails
<1>6. ASSUME NEW c \in Conns, Wait(c) PROVE HasChild'
  <2>1. pc[c] = "wait" /\ pc'[c] \in {"pipe", "done"} /\ \A d \in Conns \ {c} : pc'[d] = pc[d]
    BY <1>6 DEF Wait, Goto
  <2>2. \A d \in Conns \ {c} : child'[d] = child[d]
    BY <1>6, <2>1, ReapedOf DEF Wait, Reaps
  <2>3. QED
    BY <2>1, <2>2
<1>7. ASSUME NEW c \in Conns, GccReads(c) \/ ChildWrites(c) PROVE HasChild'
  <2>1. UNCHANGED pc /\ \A d \in Conns : child'[d].state = child[d].state
    <3>1. CASE GccReads(c)
      BY <3>1, LoadsOf DEF GccReads
    <3>2. CASE ChildWrites(c)
      BY <3>2, WritesOf DEF ChildWrites
    <3>3. QED
      BY <1>7, <3>1, <3>2 DEF GccReads, ChildWrites
  <2>2. QED
    BY <2>1
<1>8. ASSUME NEW c \in Conns, GccExits(c) \/ ProgramExits(c) PROVE HasChild'
  BY <1>4, <1>8 DEF GccExits, ProgramExits
<1>9. ASSUME NEW c \in Conns, Exec(c) PROVE HasChild'
  <2>1. CASE Exits(c, 127)
    BY <1>4, <1>9, <2>1 DEF Exec
  <2>2. CASE child' = [child EXCEPT ![c].image = bin]
    BY <1>9, <2>2, LoadsOf DEF Exec
  <2>3. QED
    BY <1>9, <2>1, <2>2 DEF Exec
<1>10. QED
  BY <1>1, <1>2, <1>3, <1>5, <1>6, <1>7, <1>8, <1>9, StepOfOne
  DEF Step, Handler, ChildEnds, OrphanEnds, AcceptFails, ClientLeaves, Forward, vars

\* A step of one connection is none of another's, except that waitpid takes another's child
\* when there is no own one.
Same(d) == UNCHANGED <<pc[d], stage[d], code[d], child[d], buf[d], client[d], sent[d]>>

LEMMA OthersUnlessTaken ==
  ASSUME TypeOK, NEW c \in Conns, NEW d \in Conns \ {c}, Step(c),
         Wait(c) => child[c].state # "none"
  PROVE  Same(d)
<1> USE DEF TypeOK, Same
<1>1. CASE \/ ClientConnects(c) \/ ClientLeaves(c) \/ Accept(c) \/ Gate(c) \/ Receive(c)
           \/ StartActive(c) \/ StartTotal(c) \/ OpenSource(c) \/ WriteSource(c)
  BY <1>1
  DEF ClientConnects, ClientLeaves, Accept, Gate, Receive, StartActive, StartTotal, OpenSource,
      WriteSource, Goto
<1>2. CASE \/ Pipe(c) \/ Fork(c) \/ CloseWriteEnd(c) \/ Forward(c) \/ ReadEOF(c) \/ SendDone(c)
           \/ UnlinkSource(c) \/ UnlinkBinary(c) \/ Finish(c) \/ CloseConn(c)
  BY <1>2
  DEF Pipe, Fork, CloseWriteEnd, Forward, ReadEOF, SendDone, UnlinkSource, UnlinkBinary, Finish,
      CloseConn, Goto
<1>3. CASE ForwardFails(c)
  <2>1. child'[d] = child[d]
    BY <1>3, ExitsOf DEF ForwardFails
  <2>2. QED
    BY <1>3, <2>1 DEF ForwardFails, Goto
<1>4. CASE Wait(c)
  <2>1. child'[d] = child[d]
    BY <1>4, ReapedOf DEF Wait, Reaps
  <2>2. QED
    BY <1>4, <2>1 DEF Wait, Goto
<1>5. CASE GccReads(c) \/ Exec(c) \/ ChildWrites(c)
  <2>1. child'[d] = child[d]
    BY <1>5, ExitsOf, LoadsOf, WritesOf DEF GccReads, Exec, ChildWrites
  <2>2. QED
    BY <1>5, <2>1 DEF GccReads, Exec, ChildWrites
<1>6. CASE GccExits(c) \/ OrphanEnds(c) \/ ProgramExits(c)
  <2>1. child'[d] = child[d]
    BY <1>6, ExitsOf DEF GccExits, OrphanEnds, ProgramExits
  <2>2. QED
    BY <1>6, <2>1 DEF GccExits, OrphanEnds, ProgramExits
<1>7. QED
  BY <1>1, <1>2, <1>3, <1>4, <1>5, <1>6 DEF Step, Handler, ChildEnds

LEMMA OthersKept ==
  ASSUME TypeOK, HasChild, NEW c \in Conns, NEW d \in Conns \ {c}, Step(c)
  PROVE  Same(d)
<1>1. Wait(c) => child[c].state # "none"
  BY DEF Wait, HasChild
<1>2. QED
  BY <1>1, OthersUnlessTaken

\* An orphan is left by a handler that uses the files; it ends, but is not forgotten.
LEMMA OrphanStep ==
  ASSUME TypeOK, NEW c \in Conns, Step(c)
  PROVE  /\ \A d \in Conns \ {c} : orphan'[d] = orphan[d]
         /\ orphan[c].state # "none" => orphan'[c].state # "none"
         /\ Orphaned(c)' => Orphaned(c) \/ UsesFiles(c)
<1> USE DEF TypeOK, Orphaned
<1>1. CASE ForwardFails(c)
  <2>1. UsesFiles(c)
    BY <1>1 DEF ForwardFails, Goto, UsesFiles, FilePCs
  <2>2. CASE UNCHANGED orphan
    BY <2>2
  <2>3. CASE Live(c) /\ orphan' = [orphan EXCEPT ![c] = child[c]]
    BY <2>1, <2>3 DEF Live
  <2>4. QED
    BY <1>1, <2>2, <2>3 DEF ForwardFails
<1>2. CASE OrphanEnds(c)
  <2>1. orphan[c] \in Process
        /\ orphan' = [orphan EXCEPT ![c] =
                        [orphan[c] EXCEPT !.state = "reaped", !.pipes = {}, !.socks = {}]]
    BY <1>2 DEF OrphanEnds
  <2>2. orphan'[c].state = "reaped"
    BY <2>1 DEF Process
  <2>3. QED
    BY <2>1, <2>2
<1>3. ASSUME UNCHANGED orphan
      PROVE  /\ \A d \in Conns \ {c} : orphan'[d] = orphan[d]
             /\ orphan[c].state # "none" => orphan'[c].state # "none"
             /\ Orphaned(c)' => Orphaned(c) \/ UsesFiles(c)
  BY <1>3
<1>4. ForwardFails(c) \/ OrphanEnds(c) \/ UNCHANGED orphan
  BY DEF Step, Handler, ChildEnds, Accept, Gate, ClientConnects, ClientLeaves, Receive,
      StartActive, StartTotal, OpenSource, WriteSource, Pipe, Fork, CloseWriteEnd, Forward,
      ReadEOF, Wait, SendDone, UnlinkSource, UnlinkBinary, Finish, CloseConn, GccReads,
      GccExits, Exec, ProgramExits, ChildWrites, files
<1>5. QED
  BY <1>1, <1>2, <1>3, <1>4

\* A handler will unlink the binary if it has got to the program or will, because its
\* compiler has succeeded; it may not if its compiler was killed and went on.
Unlinks(c) ==
  \/ UsesFiles(c) /\ stage[c] = "run"
  \/ UsesFiles(c) /\ stage[c] = "compile" /\ Zombie(c) /\ child[c].status = 0
Owes(c) == orphan[c].state # "none" \/ Unlinks(c)
BinaryOwed == bin # Absent => \E c \in Conns : Owes(c)

\* What a handler is to do it does, unless the binary is unlinked.
LEMMA UnlinksKept ==
  ASSUME TypeOK, ChildAwaited, NEW c \in Conns, Step(c), Unlinks(c), bin' # Absent
  PROVE  Unlinks(c)'
<1> USE DEF TypeOK, Unlinks, UsesFiles, FilePCs
<1>0. pc[c] \notin {"closew", "read", "wait"} => ~ Zombie(c)
  BY DEF ChildAwaited, Zombie
<1>1. CASE \/ ClientConnects(c) \/ ClientLeaves(c) \/ Accept(c) \/ Gate(c) \/ Receive(c)
           \/ StartActive(c) \/ StartTotal(c) \/ OpenSource(c) \/ WriteSource(c)
  BY <1>1
  DEF ClientConnects, ClientLeaves, Accept, Gate, Receive, StartActive, StartTotal, OpenSource,
      WriteSource, Goto, Zombie
<1>2. CASE Pipe(c) \/ CloseWriteEnd(c) \/ Forward(c) \/ ReadEOF(c)
  BY <1>2 DEF Pipe, CloseWriteEnd, Forward, ReadEOF, Goto, Zombie
<1>3. CASE SendDone(c) \/ UnlinkSource(c) \/ UnlinkBinary(c) \/ Finish(c) \/ CloseConn(c)
  BY <1>0, <1>3 DEF SendDone, UnlinkSource, UnlinkBinary, Finish, CloseConn, Goto
<1>4. CASE Fork(c)
  BY <1>0, <1>4 DEF Fork, Goto
<1>5. CASE ForwardFails(c)
  <2>1. CASE Live(c)
    BY <1>5, <2>1 DEF ForwardFails, Goto, Live, Zombie
  <2>2. CASE ~ Live(c)
    BY <1>5, <2>2 DEF ForwardFails, Goto, Zombie
  <2>3. QED
    BY <2>1, <2>2
<1>6. CASE Wait(c)
  <2>1. CASE stage'[c] = "run"
    <3>1. pc'[c] \in {"pipe", "done"}
      BY <1>6 DEF Wait, Goto
    <3>2. QED
      BY <2>1, <3>1
  <2>2. CASE stage'[c] # "run"
    <3>1. stage[c] = "compile" /\ code'[c] # 0
      BY <1>6, <2>2 DEF Wait, Goto, Stages
    <3>2. Zombie(c) /\ child[c].status = 0
      BY <3>1
    <3>3. ~ NothingToReap(c)
      BY <3>2 DEF NothingToReap, Zombie
    <3>4. code'[c] = child[c].status
      BY <1>6, <3>2, <3>3 DEF Wait, Reaps, Zombie
    <3>5. QED
      BY <3>1, <3>2, <3>4
  <2>3. QED
    BY <2>1, <2>2
<1>7. CASE GccReads(c) \/ GccExits(c) \/ Exec(c) \/ ProgramExits(c)
  BY <1>7 DEF GccReads, GccExits, Exec, ProgramExits, Live, Zombie
<1>8. CASE ChildWrites(c) \/ OrphanEnds(c)
  BY <1>8 DEF ChildWrites, OrphanEnds, Live, Zombie
<1>9. QED
  BY <1>1, <1>2, <1>3, <1>4, <1>5, <1>6, <1>7, <1>8 DEF Step, Handler, ChildEnds

\* A handler that takes the exit status of another's compiler takes over what that is to
\* do: it sees a compilation that succeeded and goes on to the program, or is there already.
LEMMA UnlinksTaken ==
  ASSUME TypeOK, NEW c \in Conns, NEW d \in Conns \ {c}, Wait(c), Unlinks(d)
  PROVE  Unlinks(c)' \/ Unlinks(d)'
<1> USE DEF TypeOK, Unlinks, UsesFiles
<1>1. pc[c] = "wait" /\ pc'[d] = pc[d] /\ stage'[d] = stage[d]
  BY DEF Wait, Goto
<1>2. CASE child'[d] = child[d]
  BY <1>1, <1>2 DEF Zombie
<1>3. CASE child'[d] # child[d]
  <2>1. PICK e \in Conns :
          /\ child' = [child EXCEPT ![e].state = "reaped", ![e].pipes = {}, ![e].socks = {}]
          /\ code' = [code EXCEPT ![c] = child[e].status]
    BY <1>3 DEF Wait
  <2>2. e = d
    BY <1>3, <2>1, ReapedOf
  <2>3. code'[c] = child[d].status
    BY <2>1, <2>2
  <2>4. CASE child[d].status = 0
    <3>1. stage[c] = "compile" => pc'[c] = "pipe" /\ stage'[c] = "run"
      BY <2>3, <2>4 DEF Wait, Goto
    <3>2. stage[c] # "compile" => pc'[c] = "done" /\ stage'[c] = "run"
      BY DEF Wait, Goto, Stages
    <3>3. QED
      BY <3>1, <3>2 DEF FilePCs
  <2>5. CASE child[d].status # 0
    BY <1>1, <2>5
  <2>6. QED
    BY <2>4, <2>5
<1>4. QED
  BY <1>2, <1>3

\* Only a compiler writes the binary: one that succeeds, or the orphan of one.
LEMMA OwesNew ==
  ASSUME TypeOK, ChildAwaited, NEW c \in Conns, Step(c), bin' \notin {bin, Absent}
  PROVE  Owes(c)'
<1> USE DEF TypeOK, Owes, Unlinks
<1>1. CASE GccExits(c)
  <2>1. Exits(c, 0) /\ stage[c] = "compile" /\ Live(c)
    BY <1>1 DEF GccExits
  <2>2. child'[c].state = "zombie" /\ child'[c].status = 0
    BY <2>1, ExitsOf
  <2>3. pc[c] \in {"closew", "read", "wait"}
    BY <2>1 DEF ChildAwaited, Live
  <2>4. QED
    BY <1>1, <2>1, <2>2, <2>3 DEF GccExits, UsesFiles, FilePCs, Zombie
<1>2. CASE OrphanEnds(c)
  BY <1>2, OrphanStep DEF OrphanEnds, Orphaned
<1>3. QED
  BY <1>1, <1>2
  DEF Step, Handler, ChildEnds, Accept, Gate, ClientConnects, ClientLeaves, Receive, StartActive,
      StartTotal, OpenSource, WriteSource, Pipe, Fork, CloseWriteEnd, Forward, ForwardFails,
      ReadEOF, Wait, SendDone, UnlinkSource, UnlinkBinary, Finish, CloseConn, GccReads, Exec,
      ProgramExits, ChildWrites, files

LEMMA BinaryStep ==
  ASSUME TypeOK, ChildAwaited, BinaryOwed, [Next]_vars
  PROVE  BinaryOwed'
<1>1. CASE AcceptFails \/ UNCHANGED vars
  BY <1>1 DEF AcceptFails, vars, files, BinaryOwed, Owes, Unlinks, UsesFiles, Zombie
<1>2. ASSUME NEW c \in Conns, Step(c), bin' # Absent PROVE \E d \in Conns : Owes(d)'
  <2>1. CASE bin' = bin
    <3>1. PICK d \in Conns : Owes(d)
      BY <1>2, <2>1 DEF BinaryOwed
    <3>2. CASE orphan[d].state # "none"
      BY <1>2, <3>2, OrphanStep DEF Owes
    <3>3. CASE Unlinks(d) /\ d = c
      BY <1>2, <3>3, UnlinksKept DEF Owes
    <3>4. CASE Unlinks(d) /\ d # c
      <4>1. CASE Wait(c)
        BY <3>4, <4>1, UnlinksTaken DEF Owes
      <4>2. CASE ~ Wait(c)
        <5>1. Same(d)
          BY <1>2, <3>4, <4>2, OthersUnlessTaken
        <5>2. QED
          BY <3>4, <5>1 DEF Same, Owes, Unlinks, UsesFiles, Zombie
      <4>3. QED
        BY <4>1, <4>2
    <3>5. QED
      BY <3>1, <3>2, <3>3, <3>4 DEF Owes
  <2>2. CASE bin' # bin
    BY <1>2, <2>2, OwesNew
  <2>3. QED
    BY <2>1, <2>2
<1>3. QED
  BY <1>1, <1>2, StepOfOne DEF BinaryOwed

\* No task leaves a file behind, whichever of the modelled faults happen, but for the binary
\* of a compilation that went on when it was killed because its client had left.
THEOREM NothingLeft == Spec => []CleanTmp
<1> DEFINE Inv == TypeOK /\ BufferOwned /\ ChildAwaited /\ SourceHeld /\ BinaryOwed
<1>1. Init => Inv
  <2>1. Init => TypeOK /\ BufferOwned
    BY WorkerAssumption
    DEF Init, TypeOK, BufferOwned, PCs, Stages, Codes, File, Process, NoChild
  <2>2. Init => ChildAwaited /\ SourceHeld /\ BinaryOwed
    BY DEF Init, ChildAwaited, NoChild, SourceHeld, BinaryOwed
  <2>3. QED
    BY <2>1, <2>2
<1>2. Inv /\ [Next]_vars => Inv'
  BY TypeStep, BufferStep, AwaitedStep, SourceStep, BinaryStep
<1>3. Inv => CleanTmp
  BY DEF SourceHeld, BinaryOwed, Owes, Unlinks, UsesFiles, CleanTmp
<1>4. QED
  BY <1>1, <1>2, <1>3, PTL DEF Spec
-------------------------------------------------------------------------------
\* A task that no other overlaps

\* What holds of tasks that do overlap, as far as it is needed of one that does not.
BaseInv == TypeOK /\ BufferOwned /\ ForkInv /\ StreamInv
LEMMA BaseInit == Init => BaseInv
<1>1. Init => TypeOK /\ BufferOwned
  BY WorkerAssumption
  DEF Init, TypeOK, BufferOwned, PCs, Stages, Codes, File, Process, NoChild
<1>2. Init => ForkInv /\ StreamInv
  BY DEF Init, ForkInv, ChildAwaited, HasChild, NoChild, StreamInv, Has
<1>3. QED
  BY <1>1, <1>2 DEF BaseInv

LEMMA BaseStep ==
  ASSUME BaseInv, "fork" \notin Faults, [Next]_vars
  PROVE  BaseInv'
BY TypeStep, BufferStep, AwaitedStep, HasChildStep, StreamStep DEF BaseInv, ForkInv

\* While no other task uses the files, they hold what this one put there, and its processes
\* read nothing else; its program is run only if the compiler succeeded.
BuildPCs == {"pipe", "fork", "closew", "read", "wait"}
Ended(c) == child[c].state \in {"zombie", "reaped"}
NoOther(c) == UsesFiles(c) => \A d \in Conns \ {c} : ~ UsesFiles(d) /\ ~ Orphaned(d)
OwnFiles(c) ==
  /\ pc[c] = "write" => src = Empty /\ writers = {c} /\ stage[c] = "compile"
  /\ pc[c] \in BuildPCs => IF stage[c] = "compile" THEN src = c ELSE bin = c
OwnProcess(c) ==
  /\ child[c].image \in {c, Unread}
  /\ stage[c] = "run" => c \notin BadSource
  /\ Ended(c) /\ child[c].status = 0 => child[c].image = c
  /\ stage[c] = "compile" /\ Zombie(c) /\ child[c].status = 0 => bin = c /\ c \notin BadSource
  /\ pc[c] = "done" => /\ child[c].state = "reaped" /\ code[c] = child[c].status
                       /\ code[c] = 0 => stage[c] = "run"
Faithful(c) == alone[c] => NoOther(c) /\ OwnFiles(c) /\ OwnProcess(c)
Reliable == {"pipe", "fork"} \cap Faults = {}

\* Before its handler opens the source a task has no child, and no orphan.
EarlyPCs == {"idle", "queued", "accepted", "recv", "start", "count", "open"}
Fresh(c) ==
  pc[c] \in EarlyPCs =>
    /\ stage[c] = "compile" /\ child[c].state = "none" /\ child[c].image = Unread
    /\ orphan[c].state = "none"

\* A compiler outlives only a child that was killed, so its task ends without a program.
EndPCs == {"wait", "done", "unlinksrc", "finish", "close", "closed"}
Outlived(c) ==
  orphan[c].state # "none" => /\ pc[c] \in EndPCs /\ stage[c] = "compile"
                              /\ Ended(c) /\ child[c].status # 0

\* A handler at work does not go back there.
LEMMA NeverEarlyAgain ==
  ASSUME TypeOK, NEW c \in Conns,
         \/ Pipe(c) \/ Fork(c) \/ CloseWriteEnd(c) \/ Forward(c) \/ ForwardFails(c)
         \/ ReadEOF(c) \/ Wait(c) \/ SendDone(c)
  PROVE  pc'[c] \notin EarlyPCs
<1> USE DEF TypeOK, EarlyPCs
<1>1. CASE Pipe(c)
  BY <1>1 DEF Pipe, Goto
<1>2. CASE Fork(c) \/ CloseWriteEnd(c)
  BY <1>2 DEF Fork, CloseWriteEnd, Goto
<1>3. CASE Forward(c) \/ ReadEOF(c) \/ SendDone(c)
  BY <1>3 DEF Forward, ReadEOF, SendDone, Goto
<1>4. CASE ForwardFails(c)
  BY <1>4 DEF ForwardFails, Goto
<1>5. CASE Wait(c)
  <2>1. Goto(c, "wait", "pipe") \/ Goto(c, "wait", "done")
    BY <1>5 DEF Wait
  <2>2. QED
    BY <2>1 DEF Goto
<1>6. QED
  BY <1>1, <1>2, <1>3, <1>4, <1>5

LEMMA FreshStep ==
  ASSUME BaseInv, NEW c \in Conns, Fresh(c), Step(c)
  PROVE  Fresh(c)'
<1> USE DEF Fresh, EarlyPCs, BaseInv, TypeOK
<1>1. CASE \/ ClientConnects(c) \/ ClientLeaves(c) \/ Accept(c) \/ Gate(c) \/ Receive(c)
           \/ StartActive(c) \/ StartTotal(c) \/ OpenSource(c) \/ WriteSource(c)
  BY <1>1
  DEF ClientConnects, ClientLeaves, Accept, Gate, Receive, StartActive, StartTotal, OpenSource,
      WriteSource, Goto, files
<1>2. CASE \/ Pipe(c) \/ Fork(c) \/ CloseWriteEnd(c) \/ Forward(c) \/ ForwardFails(c)
           \/ ReadEOF(c) \/ Wait(c) \/ SendDone(c)
  BY <1>2, NeverEarlyAgain
<1>3. CASE UnlinkSource(c) \/ UnlinkBinary(c) \/ Finish(c) \/ CloseConn(c)
  BY <1>3 DEF UnlinkSource, UnlinkBinary, Finish, CloseConn, Goto
<1>4. CASE \/ GccReads(c) \/ GccExits(c) \/ OrphanEnds(c) \/ Exec(c) \/ ProgramExits(c)
           \/ ChildWrites(c)
  BY <1>4 DEF GccReads, GccExits, OrphanEnds, Exec, ProgramExits, ChildWrites, Live, Orphaned
<1>5. QED
  BY <1>1, <1>2, <1>3, <1>4 DEF Step, Handler, ChildEnds

LEMMA OutlivedStep ==
  ASSUME BaseInv, NEW c \in Conns, Outlived(c), Step(c)
  PROVE  Outlived(c)'
<1> USE DEF Outlived, EndPCs, Ended, BaseInv, TypeOK
<1>1. CASE orphan[c].state = "none" /\ ~ ForwardFails(c)
  <2>1. orphan'[c].state = "none"
    BY <1>1
    DEF Step, Handler, ChildEnds, OrphanEnds, Orphaned, Accept, Gate, ClientConnects,
        ClientLeaves, Receive, StartActive, StartTotal, OpenSource, WriteSource, Pipe, Fork,
        CloseWriteEnd, Forward, ReadEOF, Wait, SendDone, UnlinkSource, UnlinkBinary, Finish,
        CloseConn, GccReads, GccExits, Exec, ProgramExits, ChildWrites, files
  <2>2. QED
    BY <2>1
<1>2. CASE ForwardFails(c)
  <2>1. pc[c] = "read" /\ pc'[c] = "wait" /\ UNCHANGED stage
    BY <1>2 DEF ForwardFails, Goto
  <2>2. CASE UNCHANGED orphan
    BY <2>1, <2>2
  <2>3. CASE stage[c] = "compile" /\ Exits(c, Killed)
    <3>1. child'[c].state = "zombie" /\ child'[c].status # 0
      BY <2>3, ExitsOf DEF Killed
    <3>2. QED
      BY <2>1, <2>3, <3>1
  <2>4. QED
    BY <1>2, <2>2, <2>3 DEF ForwardFails
<1>3. CASE orphan[c].state # "none" /\ ~ ForwardFails(c)
  <2>0. /\ pc[c] \in EndPCs /\ stage[c] = "compile" /\ ~ Live(c)
        /\ Ended(c) /\ child[c].status # 0
        /\ pc[c] = "wait" => child[c].state = "zombie"
    BY <1>3 DEF Live, ForkInv, HasChild
  <2>1. CASE Wait(c)
    <3>1. /\ child' = [child EXCEPT ![c].state = "reaped", ![c].pipes = {}, ![c].socks = {}]
          /\ code' = [code EXCEPT ![c] = child[c].status]
      BY <2>0, <2>1 DEF Wait, Reaps, NothingToReap
    <3>2. child'[c].state = "reaped" /\ child'[c].status = child[c].status /\ code'[c] # 0
      BY <2>0, <3>1, ReapedOf
    <3>3. Goto(c, "wait", "done") /\ UNCHANGED stage
      BY <2>1, <3>2 DEF Wait
    <3>4. QED
      BY <2>0, <3>2, <3>3 DEF Goto
  <2>2. CASE ~ Wait(c)
    <3>1. UNCHANGED <<stage, child>> /\ pc'[c] \in EndPCs
      BY <1>3, <2>0, <2>2
      DEF Step, Handler, ChildEnds, OrphanEnds, Accept, Gate, ClientConnects,
          ClientLeaves, Receive, StartActive, StartTotal, OpenSource, WriteSource, Pipe, Fork,
          CloseWriteEnd, Forward, ReadEOF, SendDone, UnlinkSource, UnlinkBinary, Finish,
          CloseConn, GccReads, GccExits, Exec, ProgramExits, ChildWrites, Goto
    <3>2. QED
      BY <2>0, <3>1
  <2>3. QED
    BY <2>1, <2>2
<1>4. QED
  BY <1>1, <1>2, <1>3

\* A handler begins to use the files, and changes who is alone, by fopen; one that does not
\* use them leaves them as they are.
Opens(c) == OpenSource(c) /\ pc'[c] = "write"

LEMMA Entering ==
  ASSUME BaseInv, NEW c \in Conns, Step(c)
  PROVE  /\ UNCHANGED alone \/ Opens(c)
         /\ ~ UsesFiles(c) /\ UsesFiles(c)' => Opens(c)
         /\ ~ UsesFiles(c) /\ ~ UsesFiles(c)' /\ ~ Orphaned(c) =>
              UNCHANGED <<src, writers, bin>>
<1> USE DEF BaseInv, TypeOK, UsesFiles, FilePCs
<1>1. CASE \/ ClientConnects(c) \/ ClientLeaves(c) \/ Accept(c) \/ Gate(c) \/ Receive(c)
           \/ StartActive(c) \/ StartTotal(c) \/ Finish(c) \/ CloseConn(c)
  BY <1>1
  DEF ClientConnects, ClientLeaves, Accept, Gate, Receive, StartActive, StartTotal, Finish,
      CloseConn, Goto, files, Terminal
<1>2. CASE OpenSource(c)
  BY <1>2 DEF OpenSource, Opens, Goto
<1>3. CASE \/ WriteSource(c) \/ Pipe(c) \/ Fork(c) \/ CloseWriteEnd(c) \/ Forward(c)
           \/ ForwardFails(c) \/ ReadEOF(c) \/ Wait(c) \/ SendDone(c) \/ UnlinkSource(c)
           \/ UnlinkBinary(c)
  <2>1. UNCHANGED alone /\ UsesFiles(c)
    BY <1>3
    DEF WriteSource, Pipe, Fork, CloseWriteEnd, Forward, ForwardFails, ReadEOF, Wait, SendDone,
        UnlinkSource, UnlinkBinary, Goto
  <2>2. QED
    BY <2>1
<1>4. CASE GccReads(c) \/ GccExits(c) \/ Exec(c) \/ ProgramExits(c) \/ ChildWrites(c)
  <2>1. UNCHANGED <<pc, alone>> /\ Live(c)
    BY <1>4 DEF GccReads, GccExits, Exec, ProgramExits, ChildWrites
  <2>2. UsesFiles(c)
    BY <2>1 DEF ForkInv, ChildAwaited, Live
  <2>3. QED
    BY <2>1, <2>2
<1>5. CASE OrphanEnds(c)
  BY <1>5 DEF OrphanEnds
<1>6. QED
  BY <1>1, <1>2, <1>3, <1>4, <1>5 DEF Step, Handler, ChildEnds

\* A task is alone after another's step only if it was before.
LEMMA NotReopened ==
  ASSUME BaseInv, NEW x \in Conns, Step(x), NEW c \in Conns \ {x}, alone'[c]
  PROVE  alone[c]
<1>1. CASE UNCHANGED alone
  BY <1>1
<1>2. CASE Opens(x)
  BY <1>2 DEF Opens, OpenSource, Goto, BaseInv, TypeOK
<1>3. QED
  BY <1>1, <1>2, Entering

\* As long as a task is alone no other uses the files.
LEMMA NoOtherStep ==
  ASSUME BaseInv, NEW x \in Conns, Step(x), NEW c \in Conns, alone'[c], alone[c] => NoOther(c)
  PROVE  NoOther(c)'
<1>0. /\ \A d \in Conns \ {x} : Orphaned(d)' <=> Orphaned(d)
      /\ Orphaned(x)' => Orphaned(x) \/ UsesFiles(x)
  BY OrphanStep DEF BaseInv, Orphaned
<1>1. \A d \in Conns \ {x} : UsesFiles(d)' <=> UsesFiles(d)
  BY OthersKept DEF BaseInv, ForkInv, Same, UsesFiles
<1>2. CASE Opens(x)
  <2>1. alone'[c] = IF c = x THEN {d \in Conns \ {x} : UsesFiles(d) \/ Orphaned(d)} = {}
                             ELSE alone[c] /\ ~ UsesFiles(c)
    BY <1>2 DEF Opens, OpenSource, Goto, BaseInv, TypeOK
  <2>2. QED
    BY <1>1, <1>0, <2>1 DEF NoOther
<1>3. CASE ~ Opens(x)
  <2>1. alone[c] /\ (UsesFiles(x)' => UsesFiles(x))
    BY <1>3, Entering
  <2>2. /\ \A d \in Conns : UsesFiles(d)' => UsesFiles(d)
        /\ \A d \in Conns : Orphaned(d)' => Orphaned(d) \/ UsesFiles(d)
    BY <1>0, <1>1, <2>1
  <2>3. QED
    BY <2>1, <2>2 DEF NoOther
<1>4. QED
  BY <1>2, <1>3

\* Its own steps, one after the other: the source is its text, the compiler reads it, the
\* binary is its program, and that is what is run.
LEMMA OwnStep ==
  ASSUME BaseInv, SourceHeld, Reliable, NEW c \in Conns, Step(c), Fresh(c), Outlived(c),
         alone[c] => OwnFiles(c) /\ OwnProcess(c), alone'[c]
  PROVE  OwnFiles(c)' /\ OwnProcess(c)'
<1> USE DEF BaseInv, TypeOK
<1>0. /\ c \notin {Absent, Empty, Torn, Unread} /\ Absent # Empty
      /\ pc[c] \notin {"closew", "read", "wait"} => child[c].state \in {"none", "reaped"}
      /\ pc[c] \in {"closew", "read", "wait"} => child[c].state \in {"live", "zombie"}
      /\ stage[c] \in {"compile", "run"}
  BY WorkerAssumption DEF ForkInv, ChildAwaited, HasChild, Stages, Absent, Empty
<1>1. CASE Opens(c)
  <2>1. \A d \in Conns \ {c} : ~ UsesFiles(d)
    BY <1>1 DEF Opens, OpenSource, Goto
  <2>2. writers \subseteq {c}
    BY <2>1 DEF SourceHeld, UsesFiles, FilePCs
  <2>3. src' = Empty /\ writers' = {c} /\ UNCHANGED <<stage, child>> /\ pc[c] = "open"
    BY <1>1, <2>2 DEF Opens, OpenSource, Goto
  <2>4. stage[c] = "compile" /\ child[c].state = "none" /\ child[c].image = Unread
    BY <2>3 DEF Fresh, EarlyPCs
  <2>5. QED
    BY <1>1, <2>3, <2>4 DEF Opens, OwnFiles, OwnProcess, BuildPCs, Ended, Zombie
<1>2. CASE ~ Opens(c)
  <2>0. OwnFiles(c) /\ OwnProcess(c)
    BY <1>2, Entering
  <2> USE DEF OwnFiles, OwnProcess, BuildPCs, Ended, Zombie
  <2>1. CASE \/ ClientConnects(c) \/ ClientLeaves(c) \/ Accept(c) \/ Gate(c) \/ Receive(c)
             \/ StartActive(c) \/ StartTotal(c) \/ OpenSource(c) \/ Finish(c) \/ CloseConn(c)
    <3>1. /\ UNCHANGED <<stage, child, bin>>
          /\ \/ UNCHANGED <<pc, src, writers>>
             \/ pc'[c] \notin {"write", "done"} \cup BuildPCs
      BY <1>2, <2>1
      DEF ClientConnects, ClientLeaves, Accept, Gate, Receive, StartActive, StartTotal,
          OpenSource, Opens, Finish, CloseConn, Goto, files
    <3>2. CASE UNCHANGED <<pc, src, writers>>
      <4>1. UNCHANGED code
        BY <2>1
        DEF ClientConnects, ClientLeaves, Accept, Gate, Receive, StartActive, StartTotal,
            OpenSource, Finish, CloseConn
      <4>2. QED
        BY <2>0, <3>1, <3>2, <4>1
    <3>3. QED
      BY <2>0, <3>1, <3>2
  <2>2. CASE WriteSource(c)
    <3>1. src' = c /\ pc'[c] = "pipe" /\ stage[c] = "compile" /\ UNCHANGED <<stage, child, bin>>
      BY <2>0, <2>2 DEF WriteSource, Goto
    <3>2. QED
      BY <1>0, <2>0, <3>1
  <2>3. CASE Pipe(c) \/ CloseWriteEnd(c) \/ Forward(c) \/ ReadEOF(c)
    <3>1. /\ pc[c] \in BuildPCs /\ pc'[c] \in BuildPCs
          /\ UNCHANGED <<stage, child, src, bin>>
      BY <2>3 DEF Pipe, CloseWriteEnd, Forward, ReadEOF, Goto, files, Reliable
    <3>2. QED
      BY <2>0, <3>1
  <2>4. CASE Fork(c)
    <3>1. /\ pc[c] = "fork" /\ pc'[c] = "closew" /\ child'[c] = NewChild
          /\ UNCHANGED <<stage, src, bin>>
      BY <2>0, <2>4 DEF Fork, Goto, files, Reliable
    <3>2. QED
      BY <2>0, <3>1, ForkedOf
  <2>5. CASE ForwardFails(c)
    <3>1. pc[c] = "read" /\ pc'[c] = "wait" /\ UNCHANGED <<stage, src>>
      BY <2>5 DEF ForwardFails, Goto
    <3>2. CASE Live(c)
      <4>1. Exits(c, Killed) /\ bin' = bin
        BY <2>5, <3>2 DEF ForwardFails
      <4>2. child'[c].status # 0 /\ child'[c].image = child[c].image
        BY <4>1, ExitsOf DEF Killed
      <4>3. QED
        BY <1>0, <2>0, <3>1, <4>1, <4>2
    <3>3. CASE ~ Live(c)
      <4>1. UNCHANGED <<child, bin>>
        BY <2>5, <3>3 DEF ForwardFails
      <4>2. QED
        BY <2>0, <3>1, <4>1
    <3>4. QED
      BY <3>2, <3>3
  <2>6. CASE Wait(c)
    <3>1. pc[c] = "wait" /\ child[c].state \in {"live", "zombie"} /\ UNCHANGED <<src, bin>>
      BY <1>0, <2>6 DEF Wait, files
    <3>2. /\ Zombie(c) /\ code' = [code EXCEPT ![c] = child[c].status]
          /\ child' = [child EXCEPT ![c].state = "reaped", ![c].pipes = {}, ![c].socks = {}]
      BY <2>6, <3>1 DEF Wait, Reaps, NothingToReap
    <3>3. /\ child'[c].state = "reaped" /\ child'[c].status = child[c].status
          /\ child'[c].image = child[c].image /\ code'[c] = child[c].status
      BY <3>2, ReapedOf
    <3>4. IF stage[c] = "compile" /\ code'[c] = 0
          THEN pc'[c] = "pipe" /\ stage'[c] = "run"
          ELSE pc'[c] = "done" /\ stage'[c] = stage[c]
      <4>1. CASE stage[c] = "compile" /\ code'[c] = 0
        <5>1. Goto(c, "wait", "pipe") /\ stage' = [stage EXCEPT ![c] = "run"]
          BY <2>6, <4>1 DEF Wait
        <5>2. QED
          BY <4>1, <5>1 DEF Goto
      <4>2. CASE ~ (stage[c] = "compile" /\ code'[c] = 0)
        <5>1. Goto(c, "wait", "done") /\ UNCHANGED stage
          BY <2>6, <4>2 DEF Wait
        <5>2. QED
          BY <4>2, <5>1 DEF Goto
      <4>3. QED
        BY <4>1, <4>2
    <3>5. QED
      BY <1>0, <2>0, <3>1, <3>2, <3>3, <3>4
  <2>7. CASE SendDone(c) \/ UnlinkSource(c) \/ UnlinkBinary(c)
    <3>1. /\ UNCHANGED <<stage, child>>
          /\ pc[c] \in {"done", "unlinksrc", "unlinkbin"}
          /\ pc'[c] \in {"unlinksrc", "unlinkbin", "finish"}
      BY <2>7 DEF SendDone, UnlinkSource, UnlinkBinary, Goto
    <3>2. QED
      BY <1>0, <2>0, <3>1
  <2>8. CASE GccReads(c)
    <3>1. /\ stage[c] = "compile" /\ child[c].state = "live" /\ UNCHANGED <<pc, stage, files>>
          /\ child' = [child EXCEPT ![c].image = src]
      BY <2>8 DEF GccReads, Live
    <3>2. src = c /\ pc[c] \in {"closew", "read", "wait"}
      BY <1>0, <2>0, <3>1
    <3>3. child'[c].image = c /\ child'[c].state = "live"
      BY <3>1, <3>2, LoadsOf
    <3>4. QED
      BY <2>0, <3>1, <3>2, <3>3 DEF files
  <2>9. CASE GccExits(c)
    <3>1. /\ stage[c] = "compile" /\ child[c].state = "live" /\ child[c].image = c
          /\ UNCHANGED <<pc, stage, src, writers>>
      BY <2>0, <2>9 DEF GccExits, Live
    <3>2. pc[c] \in {"closew", "read", "wait"}
      BY <1>0, <3>1
    <3>3. CASE Compiles(c) /\ bin' = c /\ Exits(c, 0)
      <4>1. c \notin BadSource
        BY <1>0, <3>3 DEF Compiles
      <4>2. child'[c].image = c
        BY <3>1, <3>3, ExitsOf
      <4>3. QED
        BY <2>0, <3>1, <3>2, <3>3, <4>1, <4>2
    <3>4. CASE Exits(c, 1)
      <4>1. child'[c].image = c /\ child'[c].status = 1
        BY <3>1, <3>4, ExitsOf
      <4>2. QED
        BY <2>0, <3>1, <3>2, <4>1
    <3>5. QED
      BY <2>9, <3>1, <3>3, <3>4 DEF GccExits
  <2>10. CASE Exec(c)
    <3>1. /\ stage[c] = "run" /\ child[c].state = "live" /\ UNCHANGED <<pc, stage, files>>
      BY <2>10 DEF Exec, Live
    <3>2. bin = c /\ pc[c] \in {"closew", "read", "wait"}
      BY <1>0, <2>0, <3>1
    <3>3. CASE child' = [child EXCEPT ![c].image = bin]
      <4>1. child'[c].image = c /\ child'[c].state = "live"
        BY <3>1, <3>2, <3>3, LoadsOf
      <4>2. QED
        BY <2>0, <3>1, <3>2, <4>1 DEF files
    <3>4. CASE Exits(c, 127)
      <4>1. child'[c].image = child[c].image /\ child'[c].status = 127
        BY <3>4, ExitsOf
      <4>2. QED
        BY <2>0, <3>1, <3>2, <4>1 DEF files
    <3>5. QED
      BY <2>10, <3>3, <3>4 DEF Exec
  <2>11. CASE ProgramExits(c)
    <3>1. /\ stage[c] = "run" /\ child[c].state = "live" /\ child[c].image = c
          /\ UNCHANGED <<pc, stage, files>>
      BY <2>0, <2>11 DEF ProgramExits, Live
    <3>2. pc[c] \in {"closew", "read", "wait"}
      BY <1>0, <3>1
    <3>3. child'[c].image = c
      BY <2>11, <3>1, ExitsOf DEF ProgramExits
    <3>4. QED
      BY <2>0, <3>1, <3>2, <3>3 DEF files
  <2>12. CASE ChildWrites(c)
    <3>1. /\ child[c].state = "live" /\ UNCHANGED <<pc, stage, files>>
          /\ pc[c] \in {"closew", "read"}
          /\ child'[c].state = child[c].state /\ child'[c].image = child[c].image
      BY <2>12, WritesOf DEF ChildWrites, Live
    <3>2. QED
      BY <2>0, <3>1 DEF files
  <2>13. CASE OrphanEnds(c)
    <3>1. /\ UNCHANGED <<pc, stage, code, src, writers, child>> /\ stage[c] = "compile"
          /\ child[c].status # 0
      BY <2>13 DEF OrphanEnds, Orphaned, Outlived
    <3>2. QED
      BY <2>0, <3>1
  <2>14. QED
    BY <2>1, <2>2, <2>3, <2>4, <2>5, <2>6, <2>7, <2>8, <2>9, <2>10, <2>11, <2>12, <2>13
    DEF Step, Handler, ChildEnds
<1>3. QED
  BY <1>1, <1>2

\* Another's step takes nothing from it.
LEMMA OtherStep ==
  ASSUME BaseInv, NEW x \in Conns, Step(x), NEW c \in Conns \ {x},
         NoOther(c), NoOther(c)', OwnFiles(c), OwnProcess(c)
  PROVE  OwnFiles(c)' /\ OwnProcess(c)'
<1>1. Same(c)
  BY OthersKept DEF BaseInv, ForkInv
<1>2. CASE UsesFiles(c)
  <2>1. ~ UsesFiles(x) /\ ~ UsesFiles(x)' /\ ~ Orphaned(x)
    BY <1>1, <1>2 DEF NoOther, Same, UsesFiles
  <2>2. UNCHANGED <<src, writers, bin>>
    BY <2>1, Entering
  <2>3. QED
    BY <1>1, <2>2 DEF Same, OwnFiles, OwnProcess, Ended, Zombie
<1>3. CASE ~ UsesFiles(c)
  <2>1. /\ pc[c] \notin {"write"} \cup BuildPCs
        /\ ~ Zombie(c)
    BY <1>3 DEF UsesFiles, FilePCs, BuildPCs, BaseInv, ForkInv, ChildAwaited, Zombie
  <2>2. QED
    BY <1>1, <2>1 DEF Same, OwnFiles, OwnProcess, Ended, Zombie
<1>4. QED
  BY <1>2, <1>3

\* Faithful tasks stay faithful.
LEMMA FaithfulStep ==
  ASSUME BaseInv, SourceHeld, Reliable, [Next]_vars,
         \A c \in Conns : Fresh(c) /\ Outlived(c) /\ Faithful(c)
  PROVE  \A c \in Conns : Fresh(c)' /\ Outlived(c)' /\ Faithful(c)'
<1>1. CASE UNCHANGED <<pc, stage, code, files, child, alone>>
  BY <1>1
  DEF Fresh, Outlived, Faithful, NoOther, OwnFiles, OwnProcess, Ended, Zombie, Orphaned,
      UsesFiles, files
<1>2. ASSUME NEW x \in Conns, Step(x), NEW c \in Conns
      PROVE  Fresh(c)' /\ Outlived(c)' /\ Faithful(c)'
  <2>1. Fresh(c)' /\ Outlived(c)'
    <3>1. CASE c = x
      BY <1>2, <3>1, FreshStep, OutlivedStep
    <3>2. CASE c # x
      <4>1. Same(c)
        BY <1>2, <3>2, OthersKept DEF BaseInv, ForkInv
      <4>2. UNCHANGED orphan[c]
        BY <1>2, <3>2, OrphanStep DEF BaseInv
      <4>3. QED
        BY <4>1, <4>2 DEF Same, Fresh, Outlived, Ended
    <3>3. QED
      BY <3>1, <3>2
  <2>2. ASSUME alone'[c] PROVE NoOther(c)' /\ OwnFiles(c)' /\ OwnProcess(c)'
    <3>1. NoOther(c)'
      BY <1>2, <2>2, NoOtherStep DEF Faithful
    <3>2. CASE c = x
      BY <1>2, <2>2, <3>1, <3>2, OwnStep DEF Faithful
    <3>3. CASE c # x
      <4>1. alone[c]
        BY <1>2, <2>2, <3>3, NotReopened
      <4>2. QED
        BY <1>2, <3>1, <3>3, <4>1, OtherStep DEF Faithful
    <3>4. QED
      BY <3>2, <3>3
  <2>3. QED
    BY <2>1, <2>2 DEF Faithful
<1>3. QED
  BY <1>1, <1>2, StepOfOne DEF AcceptFails, vars
-------------------------------------------------------------------------------
\* What the client is sent

\* A message tells the client the truth about its task.
Own(c, m) ==
  IF m.type = "OUTPUT"
  THEN m.by = c /\ (c \in BadSource => m.stage = "compile")
  ELSE /\ m.code = child[c].status
       /\ m.code = 0 => child[c].image = c /\ stage[c] = "run" /\ c \notin BadSource
OwnMessages(c) == \A i \in DOMAIN sent[c] : Own(c, sent[c][i])

LEMMA KindsOf ==
  /\ \A m \in Message : m.type = "OUTPUT" <=> m \in OutputMsg
  /\ \A m \in Message : m.type = "DONE" <=> m \in DoneMsg
BY DEF Message, OutputMsg, DoneMsg

\* What was sent stays true as long as the child is what the verdict was about.
LEMMA MessagesKept ==
  ASSUME TypeOK, NEW c \in Conns, OwnMessages(c), UNCHANGED sent[c],
         ~ Has(sent[c], DoneMsg) \/ UNCHANGED <<stage[c], child[c]>>
  PROVE  OwnMessages(c)'
<1>1. CASE UNCHANGED <<stage[c], child[c]>>
  BY <1>1 DEF OwnMessages, Own
<1>2. CASE ~ Has(sent[c], DoneMsg)
  <2>1. \A i \in DOMAIN sent[c] : sent[c][i] \in Message \ DoneMsg
    BY <1>2 DEF TypeOK, Has
  <2>2. \A i \in DOMAIN sent[c] : sent[c][i].type = "OUTPUT"
    BY <2>1, KindsOf DEF Message
  <2>3. QED
    BY <2>2 DEF OwnMessages, Own
<1>3. QED
  BY <1>1, <1>2

\* One more true message is sent.
LEMMA MessagesGrow ==
  ASSUME TypeOK, NEW c \in Conns, OwnMessages(c), NEW m \in Message, Own(c, m),
         sent' = [sent EXCEPT ![c] = Append(@, m)], UNCHANGED <<stage, child>>
  PROVE  OwnMessages(c)'
<1>1. sent'[c] = Append(sent[c], m) /\ sent[c] \in Seq(Message)
  BY DEF TypeOK
<1>2. /\ DOMAIN sent'[c] = 1 .. Len(sent[c]) + 1 /\ DOMAIN sent[c] = 1 .. Len(sent[c])
      /\ \A i \in 1 .. Len(sent[c]) : sent'[c][i] = sent[c][i]
      /\ sent'[c][Len(sent[c]) + 1] = m /\ Len(sent[c]) \in Nat
  BY <1>1
<1>3. \A i \in DOMAIN sent'[c] : i \in DOMAIN sent[c] \/ sent'[c][i] = m
  BY <1>2
<1>4. \A i \in DOMAIN sent'[c] : Own(c, sent'[c][i])
  BY <1>2, <1>3 DEF OwnMessages
<1>5. QED
  BY <1>4 DEF OwnMessages, Own

\* A handler sends nothing before it opens the source.
Silent(c) == pc[c] \in EarlyPCs => sent[c] = <<>>

LEMMA SilentStep ==
  ASSUME TypeOK, NEW c \in Conns, Silent(c), Step(c)
  PROVE  Silent(c)'
<1> USE DEF Silent, EarlyPCs, TypeOK
<1>1. CASE \/ ClientConnects(c) \/ ClientLeaves(c) \/ Accept(c) \/ Gate(c) \/ Receive(c)
           \/ StartActive(c) \/ StartTotal(c) \/ OpenSource(c) \/ WriteSource(c)
  BY <1>1
  DEF ClientConnects, ClientLeaves, Accept, Gate, Receive, StartActive, StartTotal, OpenSource,
      WriteSource, Goto
<1>2. CASE \/ Pipe(c) \/ Fork(c) \/ CloseWriteEnd(c) \/ Forward(c) \/ ForwardFails(c)
           \/ ReadEOF(c) \/ Wait(c) \/ SendDone(c)
  BY <1>2, NeverEarlyAgain
<1>3. CASE UnlinkSource(c) \/ UnlinkBinary(c) \/ Finish(c) \/ CloseConn(c)
  BY <1>3 DEF UnlinkSource, UnlinkBinary, Finish, CloseConn, Goto
<1>4. CASE \/ GccReads(c) \/ GccExits(c) \/ OrphanEnds(c) \/ Exec(c) \/ ProgramExits(c)
           \/ ChildWrites(c)
  BY <1>4 DEF GccReads, GccExits, OrphanEnds, Exec, ProgramExits, ChildWrites
<1>5. QED
  BY <1>1, <1>2, <1>3, <1>4 DEF Step, Handler, ChildEnds

\* A child that runs has no verdict yet.
LEMMA NoLiveVerdict == ASSUME BaseInv, NEW c \in Conns, Live(c) PROVE ~ Has(sent[c], DoneMsg)
BY DEF BaseInv, ForkInv, ChildAwaited, StreamInv, Live, Unanswered, Terminal

\* What the handler of a faithful task sends is true.
LEMMA MessagesStep ==
  ASSUME BaseInv, NEW c \in Conns, Step(c), Silent(c), Faithful(c),
         alone[c] => OwnMessages(c), alone'[c]
  PROVE  OwnMessages(c)'
<1> USE DEF BaseInv, TypeOK
<1>1. CASE Opens(c)
  <2>1. sent[c] = <<>> /\ UNCHANGED sent
    BY <1>1 DEF Opens, OpenSource, Goto, Silent, EarlyPCs
  <2>2. QED
    BY <2>1 DEF OwnMessages
<1>2. CASE ~ Opens(c)
  <2>0. OwnMessages(c) /\ OwnProcess(c)
    BY <1>2, Entering DEF Faithful
  <2>1. CASE Forward(c)
    <3>1. CASE client[c] = "connected"
      <4> DEFINE m == [type |-> "OUTPUT", stage |-> stage[c], by |-> child[c].image]
      <4>1. child[c].image = c
        BY <2>0, <2>1 DEF Forward, BufferOwned, OwnProcess
      <4>2. m \in Message
        BY <4>1 DEF Message, OutputMsg, File
      <4>3. Own(c, m)
        BY <2>0, <4>1 DEF Own, OwnProcess, Stages
      <4>4. sent' = [sent EXCEPT ![c] = Append(@, m)] /\ UNCHANGED <<stage, child>>
        BY <2>1, <3>1 DEF Forward
      <4> HIDE DEF m
      <4>5. QED
        BY <2>0, <4>2, <4>3, <4>4, MessagesGrow
    <3>2. CASE client[c] # "connected"
      <4>1. UNCHANGED <<sent, stage, child>>
        BY <2>1, <3>2 DEF Forward
      <4>2. QED
        BY <2>0, <4>1, MessagesKept
    <3>3. QED
      BY <3>1, <3>2
  <2>2. CASE SendDone(c)
    <3>1. CASE client[c] = "connected"
      <4> DEFINE m == [type |-> "DONE", code |-> code[c]]
      <4>1. m \in Message
        BY DEF Message, DoneMsg
      <4>2. pc[c] = "done"
        BY <2>2 DEF SendDone, Goto
      <4>3. Own(c, m)
        BY <2>0, <4>2 DEF Own, OwnProcess, Ended
      <4>4. sent' = [sent EXCEPT ![c] = Append(@, m)] /\ UNCHANGED <<stage, child>>
        BY <2>2, <3>1 DEF SendDone
      <4> HIDE DEF m
      <4>5. QED
        BY <2>0, <4>1, <4>3, <4>4, MessagesGrow
    <3>2. CASE client[c] # "connected"
      <4>1. UNCHANGED <<sent, stage, child>>
        BY <2>2, <3>2 DEF SendDone
      <4>2. QED
        BY <2>0, <4>1, MessagesKept
    <3>3. QED
      BY <3>1, <3>2
  <2>3. CASE \/ ClientConnects(c) \/ ClientLeaves(c) \/ Accept(c) \/ Gate(c) \/ Receive(c)
             \/ StartActive(c) \/ StartTotal(c) \/ OpenSource(c) \/ WriteSource(c)
             \/ CloseWriteEnd(c) \/ ReadEOF(c) \/ UnlinkSource(c) \/ UnlinkBinary(c)
             \/ Finish(c) \/ CloseConn(c) \/ OrphanEnds(c)
    <3>1. UNCHANGED <<sent, stage, child>>
      BY <2>3
      DEF ClientConnects, ClientLeaves, Accept, Gate, Receive, StartActive, StartTotal,
          OpenSource, WriteSource, CloseWriteEnd, ReadEOF, UnlinkSource, UnlinkBinary, Finish,
          CloseConn, OrphanEnds
    <3>2. QED
      BY <2>0, <3>1, MessagesKept
  <2>4. CASE Pipe(c) \/ Fork(c) \/ ForwardFails(c) \/ Wait(c)
    <3>1. UNCHANGED sent /\ Unanswered(c)
      BY <2>4 DEF Pipe, Fork, ForwardFails, Wait, Goto, Unanswered, Terminal
    <3>2. QED
      BY <2>0, <3>1, MessagesKept DEF StreamInv
  <2>5. CASE GccReads(c) \/ GccExits(c) \/ Exec(c) \/ ProgramExits(c) \/ ChildWrites(c)
    <3>1. UNCHANGED sent /\ Live(c)
      BY <2>5 DEF GccReads, GccExits, Exec, ProgramExits, ChildWrites
    <3>2. ~ Has(sent[c], DoneMsg)
      BY <3>1, NoLiveVerdict
    <3>3. QED
      BY <2>0, <3>1, <3>2, MessagesKept
  <2>6. QED
    BY <2>1, <2>2, <2>3, <2>4, <2>5 DEF Step, Handler, ChildEnds
<1>3. QED
  BY <1>1, <1>2

\* The invariant of tasks that no other overlaps.
Truthful == \A c \in Conns : alone[c] => OwnMessages(c)
TaskInv ==
  /\ BaseInv /\ SourceHeld /\ Truthful
  /\ \A c \in Conns : Fresh(c) /\ Outlived(c) /\ Faithful(c) /\ Silent(c)

LEMMA TaskInit == Init => TaskInv
<1>1. ASSUME Init, NEW c \in Conns
      PROVE  Fresh(c) /\ Outlived(c) /\ Faithful(c) /\ Silent(c) /\ OwnMessages(c)
  BY <1>1
  DEF Init, Fresh, Outlived, Faithful, Silent, OwnMessages, NoOther, OwnFiles, OwnProcess, BuildPCs,
      Ended, Zombie, UsesFiles, FilePCs, NoChild
<1>2. Init => SourceHeld
  BY DEF Init, SourceHeld
<1>3. QED
  BY <1>1, <1>2, BaseInit DEF TaskInv, Truthful

LEMMA TaskStep ==
  ASSUME Reliable, TaskInv, [Next]_vars
  PROVE  TaskInv'
<1>0. "fork" \notin Faults
  BY DEF Reliable
<1>1. BaseInv' /\ SourceHeld'
  BY <1>0, BaseStep, SourceStep DEF TaskInv, BaseInv
<1>2. \A c \in Conns : Fresh(c)' /\ Outlived(c)' /\ Faithful(c)'
  BY FaithfulStep DEF TaskInv
<1>3. ASSUME NEW c \in Conns PROVE Silent(c)' /\ (alone'[c] => OwnMessages(c)')
  <2>0. BaseInv /\ Silent(c) /\ Faithful(c) /\ (alone[c] => OwnMessages(c))
    BY DEF TaskInv, Truthful
  <2>1. CASE UNCHANGED <<pc, stage, child, sent, alone>>
    BY <2>0, <2>1 DEF Silent, OwnMessages, Own
  <2>2. ASSUME NEW x \in Conns, Step(x) PROVE Silent(c)' /\ (alone'[c] => OwnMessages(c)')
    <3>1. CASE c = x
      BY <2>0, <2>2, <3>1, SilentStep, MessagesStep DEF BaseInv
    <3>2. CASE c # x
      <4>1. Same(c)
        BY <2>0, <2>2, <3>2, OthersKept DEF BaseInv, ForkInv
      <4>2. alone'[c] => alone[c]
        BY <2>0, <2>2, <3>2, NotReopened
      <4>3. QED
        BY <2>0, <4>1, <4>2 DEF Same, Silent, OwnMessages, Own
    <3>3. QED
      BY <3>1, <3>2
  <2>3. QED
    BY <2>1, <2>2, StepOfOne DEF AcceptFails, vars
<1>4. QED
  BY <1>1, <1>2, <1>3 DEF TaskInv, Truthful

\* What was sent for a task that no other overlapped is what was promised.
LEMMA ToldTruth ==
  ASSUME TypeOK, Truthful
  PROVE  AloneIsFaithful
<1>1. ASSUME NEW c \in Conns, alone[c] PROVE OwnOutput(c) /\ OwnVerdict(c)
  <2>1. \A i \in DOMAIN sent[c] : sent[c][i] \in Message /\ Own(c, sent[c][i])
    BY <1>1 DEF Truthful, OwnMessages, TypeOK
  <2>2. QED
    BY <2>1 DEF Own, OwnOutput, OwnVerdict
<1>2. QED
  BY <1>1 DEF AloneIsFaithful

\* Unless pipe() or fork() fails, a task that no other overlaps is executed as submitted: its
\* output is its own program's, its verdict that program's status.
THEOREM AloneFaithful == ASSUME Reliable PROVE Spec => []AloneIsFaithful
<1>1. TaskInv => AloneIsFaithful
  BY ToldTruth DEF TaskInv, BaseInv
<1>2. TaskInv /\ [Next]_vars => TaskInv'
  BY TaskStep
<1>3. QED
  BY <1>1, <1>2, TaskInit, PTL DEF Spec
-------------------------------------------------------------------------------
\* How much a client is sent

\* A handler has sent, or has waiting, no more than the compiler's buffers and what its
\* program has written so far.
Volume(c) == Len(sent[c]) + buf[c]
Before(c) == IF stage[c] = "run" THEN MaxChunks ELSE 0
Measured(c) ==
  /\ pc[c] \in {"closew", "read", "wait"} => Volume(c) <= Before(c) + child[c].wrote
  /\ pc[c] \in EarlyPCs \cup {"write", "pipe", "fork"} => Volume(c) <= Before(c)

LEMMA MeasuredInit == ASSUME Init, NEW c \in Conns PROVE Measured(c)
BY WorkerAssumption DEF Init, Measured, Volume, Before, EarlyPCs

LEMMA WroteTyped ==
  ASSUME TypeOK, NEW c \in Conns
  PROVE  /\ child[c].wrote \in 0 .. MaxChunks /\ buf[c] \in 0 .. 1 /\ Len(sent[c]) \in Nat
         /\ stage[c] \in {"compile", "run"} /\ MaxChunks \in Nat
BY WorkerAssumption DEF TypeOK, Process, Stages

LEMMA MeasuredStep ==
  ASSUME Reliable, BaseInv, NEW c \in Conns, Measured(c), Step(c)
  PROVE  Measured(c)'
<1> USE DEF BaseInv, TypeOK, Measured, Volume, Before, EarlyPCs
<1>0. /\ child[c].wrote \in 0 .. MaxChunks /\ buf[c] \in 0 .. 1 /\ Len(sent[c]) \in Nat
      /\ stage[c] \in {"compile", "run"} /\ MaxChunks \in Nat
  BY WroteTyped
<1>1. CASE \/ ClientConnects(c) \/ ClientLeaves(c) \/ Accept(c) \/ Gate(c) \/ Receive(c)
           \/ StartActive(c) \/ StartTotal(c) \/ OpenSource(c) \/ WriteSource(c)
           \/ UnlinkSource(c) \/ UnlinkBinary(c) \/ Finish(c) \/ CloseConn(c)
           \/ OrphanEnds(c)
  <2>1. /\ UNCHANGED <<stage, child, buf, sent>>
        /\ \/ pc' = pc
           \/ /\ pc'[c] \in EarlyPCs \cup {"write", "pipe"}
              /\ pc[c] \in EarlyPCs \cup {"write"}
           \/ pc'[c] \in {"unlinkbin", "finish", "close"} \cup Terminal
    BY <1>1
    DEF ClientConnects, ClientLeaves, Accept, Gate, Receive, StartActive, StartTotal,
        OpenSource, WriteSource, UnlinkSource, UnlinkBinary, Finish, CloseConn, OrphanEnds, Goto,
        Terminal
  <2>2. QED
    BY <2>1 DEF Terminal
<1>2. CASE Pipe(c)
  <2>1. pc[c] = "pipe" /\ pc'[c] = "fork" /\ UNCHANGED <<stage, child, buf, sent>>
    BY <1>2 DEF Pipe, Goto, Reliable
  <2>2. QED
    BY <2>1
<1>3. CASE Fork(c)
  <2>1. /\ pc[c] = "fork" /\ pc'[c] = "closew" /\ child'[c] = NewChild
        /\ UNCHANGED <<stage, buf, sent>>
    BY <1>3 DEF Fork, Goto, Reliable
  <2>2. child'[c].wrote = 0
    BY <2>1 DEF NewChild, NoChild
  <2>3. QED
    BY <1>0, <2>1, <2>2
<1>4. CASE CloseWriteEnd(c) \/ ReadEOF(c)
  <2>1. /\ pc[c] \in {"closew", "read"} /\ pc'[c] \in {"read", "wait"}
        /\ UNCHANGED <<stage, child, buf, sent>>
    BY <1>4 DEF CloseWriteEnd, ReadEOF, Goto
  <2>2. QED
    BY <2>1
<1>5. CASE Forward(c)
  <2>1. /\ pc[c] = "read" /\ buf[c] = 1 /\ buf'[c] = 0 /\ UNCHANGED <<pc, stage, child>>
    BY <1>0, <1>5 DEF Forward
  <2>2. Len(sent'[c]) \in {Len(sent[c]), Len(sent[c]) + 1}
    <3> DEFINE m == [type |-> "OUTPUT", stage |-> stage[c], by |-> child[c].image]
    <3>1. sent'[c] = sent[c] \/ sent'[c] = Append(sent[c], m)
      BY <1>5 DEF Forward
    <3> HIDE DEF m
    <3>2. QED
      BY <3>1
  <2>3. QED
    BY <1>0, <2>1, <2>2
<1>6. CASE ForwardFails(c)
  <2>1. /\ pc[c] = "read" /\ pc'[c] = "wait" /\ buf'[c] = 0 /\ UNCHANGED <<stage, sent>>
    BY <1>6 DEF ForwardFails, Goto
  <2>2. child'[c].wrote = child[c].wrote
    BY <1>6 DEF ForwardFails, Exits, Process
  <2>3. QED
    BY <1>0, <2>1, <2>2
<1>7. CASE Wait(c)
  <2>1. pc[c] = "wait" /\ UNCHANGED <<buf, sent>>
    BY <1>7 DEF Wait
  <2>2. pc'[c] = "done" \/ (pc'[c] = "pipe" /\ stage[c] = "compile" /\ stage'[c] = "run")
    <3>1. \/ Goto(c, "wait", "done")
          \/ /\ Goto(c, "wait", "pipe") /\ stage[c] = "compile"
             /\ stage' = [stage EXCEPT ![c] = "run"]
      BY <1>7 DEF Wait
    <3>2. QED
      BY <3>1 DEF Goto
  <2>3. QED
    BY <1>0, <2>1, <2>2
<1>8. CASE SendDone(c)
  BY <1>8 DEF SendDone, Goto
<1>9. CASE GccReads(c) \/ GccExits(c) \/ Exec(c) \/ ProgramExits(c)
  <2>1. UNCHANGED <<pc, stage, buf, sent>> /\ child'[c].wrote = child[c].wrote
    BY <1>9 DEF GccReads, GccExits, Exec, ProgramExits, Exits, Process
  <2>2. QED
    BY <2>1
<1>10. CASE ChildWrites(c)
  <2>1. /\ UNCHANGED <<pc, stage, sent>> /\ buf[c] = 0 /\ buf'[c] = 1
        /\ pc[c] \in {"closew", "read"} /\ child'[c].wrote = child[c].wrote + 1
    BY <1>10 DEF ChildWrites, Process
  <2>2. QED
    BY <1>0, <2>1
<1>11. QED
  BY <1>1, <1>2, <1>3, <1>4, <1>5, <1>6, <1>7, <1>8, <1>9, <1>10 DEF Step, Handler, ChildEnds

\* Another's step leaves it as it is.
LEMMA AllMeasured ==
  ASSUME Reliable, BaseInv, \A c \in Conns : Measured(c), [Next]_vars
  PROVE  \A c \in Conns : Measured(c)'
<1>1. CASE UNCHANGED <<pc, stage, child, buf, sent>>
  BY <1>1 DEF Measured, Volume, Before
<1>2. ASSUME NEW x \in Conns, Step(x), NEW c \in Conns PROVE Measured(c)'
  <2>1. CASE c = x
    BY <1>2, <2>1, MeasuredStep
  <2>2. CASE c # x
    <3>1. Same(c)
      BY <1>2, <2>2, OthersKept DEF BaseInv, ForkInv
    <3>2. QED
      BY <3>1 DEF Same, Measured, Volume, Before
  <2>3. QED
    BY <2>1, <2>2
<1>3. QED
  BY <1>1, <1>2, StepOfOne DEF AcceptFails, vars
-------------------------------------------------------------------------------
\* What a client sees of the server's steps

\* The steps of a connection's threads and processes, without those of its client.
Serves(c) == Accept(c) \/ Gate(c) \/ Handler(c) \/ ChildEnds(c) \/ ChildWrites(c)

\* From the receipt of the task to load_task_done.
WorkPCs == {"start"} \cup CountedPCs

LEMMA ServesMoves ==
  ASSUME BaseInv, NEW c \in Conns, Serves(c)
  PROVE  /\ UNCHANGED client
         /\ pc[c] \in Terminal => pc'[c] \in Terminal /\ UNCHANGED sent
         /\ pc'[c] \in WorkPCs => pc[c] \in WorkPCs \/ pc[c] = "recv"
<1> USE DEF BaseInv, TypeOK, Terminal, WorkPCs, CountedPCs, FilePCs
<1>1. CASE \/ Accept(c) \/ Gate(c) \/ Receive(c) \/ StartActive(c) \/ StartTotal(c)
           \/ OpenSource(c) \/ WriteSource(c) \/ Pipe(c) \/ Fork(c)
  BY <1>1
  DEF Accept, Gate, Receive, StartActive, StartTotal, OpenSource, WriteSource, Pipe, Fork, Goto
<1>2. CASE \/ CloseWriteEnd(c) \/ Forward(c) \/ ReadEOF(c) \/ SendDone(c) \/ UnlinkSource(c)
           \/ UnlinkBinary(c) \/ Finish(c) \/ CloseConn(c)
  BY <1>2
  DEF CloseWriteEnd, Forward, ReadEOF, SendDone, UnlinkSource, UnlinkBinary, Finish, CloseConn,
      Goto
<1>3. CASE ForwardFails(c)
  BY <1>3 DEF ForwardFails, Goto
<1>4. CASE Wait(c)
  BY <1>4 DEF Wait
<1>5. CASE \/ GccReads(c) \/ GccExits(c) \/ OrphanEnds(c) \/ Exec(c) \/ ProgramExits(c)
           \/ ChildWrites(c)
  BY <1>5 DEF GccReads, GccExits, OrphanEnds, Exec, ProgramExits, ChildWrites
<1>6. QED
  BY <1>1, <1>2, <1>3, <1>4, <1>5 DEF Serves, Handler, ChildEnds

\* A child that ends, or reads its file, is alive, and changes none of that; nor does an
\* orphan that ends.
LEMMA EndsOfOne ==
  ASSUME TypeOK, NEW c \in Conns, ChildEnds(c)
  PROVE  /\ Live(c) \/ UNCHANGED child
         /\ UNCHANGED <<pc, stage, client, sent, alone>>
         /\ \A d \in Conns \ {c} : child'[d] = child[d]
<1> USE DEF TypeOK
<1>1. CASE GccReads(c) \/ Exec(c)
  BY <1>1, LoadsOf, ExitsOf DEF GccReads, Exec
<1>2. CASE GccExits(c) \/ ProgramExits(c)
  BY <1>2, ExitsOf DEF GccExits, ProgramExits
<1>3. CASE OrphanEnds(c)
  BY <1>3 DEF OrphanEnds
<1>4. QED
  BY <1>1, <1>2, <1>3 DEF ChildEnds

\* It sends nothing or one message, the output before the verdict, the compiler's first, and
\* of both together no more than they may write.
Sends(c, m) ==
  /\ client[c] = "connected" /\ pc[c] \in WorkPCs /\ pc'[c] \in WorkPCs
  /\ sent' = [sent EXCEPT ![c] = Append(@, m)]
  /\ ~ Has(sent[c], DoneMsg)
  /\ m \in OutputMsg => /\ Len(sent[c]) < 2 * MaxChunks
                        /\ m.stage = "compile" => ~ Has(sent[c], RunOutput)

LEMMA ServesSends ==
  ASSUME BaseInv, NEW c \in Conns, Measured(c), Serves(c)
  PROVE  UNCHANGED sent \/ \E m \in Message : Sends(c, m)
<1> USE DEF BaseInv, TypeOK
<1>1. CASE Forward(c) /\ client[c] = "connected"
  <2> DEFINE m == [type |-> "OUTPUT", stage |-> stage[c], by |-> child[c].image]
  <2>1. m \in Message /\ m.stage = stage[c]
    BY <1>1 DEF Forward, BufferOwned, Message, OutputMsg, Process
  <2>2. sent' = [sent EXCEPT ![c] = Append(@, m)] /\ pc[c] = "read" /\ UNCHANGED pc /\ buf[c] > 0
    BY <1>1 DEF Forward
  <2>3. Len(sent[c]) < 2 * MaxChunks
    <3>1. /\ child[c].wrote \in 0 .. MaxChunks /\ buf[c] \in 0 .. 1 /\ Len(sent[c]) \in Nat
          /\ stage[c] \in {"compile", "run"} /\ MaxChunks \in Nat
      BY WroteTyped
    <3>2. Before(c) \in 0 .. MaxChunks /\ Len(sent[c]) + buf[c] <= Before(c) + child[c].wrote
      BY <2>2, <3>1 DEF Measured, Volume, Before
    <3>3. QED
      BY <2>2, <3>1, <3>2
  <2> HIDE DEF m
  <2>4. /\ ~ Has(sent[c], DoneMsg)
        /\ stage[c] = "compile" => ~ Has(sent[c], RunOutput)
    BY <2>2 DEF StreamInv, Unanswered, CompileOnly, Terminal
  <2>5. Sends(c, m)
    BY <1>1, <2>1, <2>2, <2>3, <2>4 DEF Sends, WorkPCs, CountedPCs, FilePCs
  <2>6. QED
    BY <2>1, <2>5
<1>2. CASE SendDone(c) /\ client[c] = "connected"
  <2> DEFINE m == [type |-> "DONE", code |-> code[c]]
  <2>1. m \in DoneMsg /\ m \in Message
    BY DEF DoneMsg, Message
  <2>2. m \notin OutputMsg
    BY DEF OutputMsg
  <2>3. sent' = [sent EXCEPT ![c] = Append(@, m)] /\ pc[c] = "done" /\ pc'[c] = "unlinksrc"
    BY <1>2 DEF SendDone, Goto
  <2> HIDE DEF m
  <2>4. ~ Has(sent[c], DoneMsg)
    BY <2>3 DEF StreamInv, Unanswered, Terminal
  <2>5. Sends(c, m)
    BY <1>2, <2>2, <2>3, <2>4 DEF Sends, WorkPCs, CountedPCs, FilePCs
  <2>6. QED
    BY <2>1, <2>5
<1>3. CASE (Forward(c) \/ SendDone(c)) /\ client[c] # "connected"
  BY <1>3 DEF Forward, SendDone
<1>4. CASE \/ Accept(c) \/ Gate(c) \/ Receive(c) \/ StartActive(c) \/ StartTotal(c)
           \/ OpenSource(c) \/ WriteSource(c) \/ Pipe(c) \/ Fork(c) \/ CloseWriteEnd(c)
  BY <1>4
  DEF Accept, Gate, Receive, StartActive, StartTotal, OpenSource, WriteSource, Pipe, Fork,
      CloseWriteEnd
<1>5. CASE \/ ForwardFails(c) \/ ReadEOF(c) \/ Wait(c) \/ UnlinkSource(c) \/ UnlinkBinary(c)
           \/ Finish(c) \/ CloseConn(c)
  BY <1>5 DEF ForwardFails, ReadEOF, Wait, UnlinkSource, UnlinkBinary, Finish, CloseConn
<1>6. CASE \/ GccReads(c) \/ GccExits(c) \/ OrphanEnds(c) \/ Exec(c) \/ ProgramExits(c)
           \/ ChildWrites(c)
  BY <1>6 DEF GccReads, GccExits, OrphanEnds, Exec, ProgramExits, ChildWrites
<1>7. QED
  BY <1>1, <1>2, <1>3, <1>4, <1>5, <1>6 DEF Serves, Handler, ChildEnds
===============================================================================
