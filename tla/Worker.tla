-------------------------------- MODULE Worker --------------------------------
(***************************************************************************)
(* One node's task server: worker.c with the task counters of              *)
(* load_monitor.c.                                                         *)
(*                                                                         *)
(* accept_loop is one thread.  Every admitted connection gets a detached   *)
(* handle_connection thread, which counts itself in, writes the source to  *)
(* /tmp/p2p_<pid>.c, runs gcc in a child process, then the program in a    *)
(* second child, streams what either prints, answers MSG_TASK_DONE,        *)
(* unlinks the files and counts itself out.  <pid> is the server's, so all *)
(* the handlers use the same two path names.  One action is one system     *)
(* call or atomic operation on state that other threads or processes see.  *)
(*                                                                         *)
(* gcc, the programs and the clients are outside src/: gcc reads the       *)
(* source path once and later replaces the binary path; a program prints   *)
(* at most MaxChunks buffers and halts; a client may leave at any time,    *)
(* which the server is told by the end or a reset of the connection.       *)
(***************************************************************************)
EXTENDS Integers, FiniteSets, Sequences

CONSTANTS
    Conns,      \* the TCP connections made to this node, one task on each
    MaxTasks,   \* MAX_CONCURRENT_TASKS
    MaxChunks,  \* bound: output buffers one child process writes
    BadSource,  \* the connections whose task does not compile
    Malformed,  \* the connections whose first message is no valid MSG_TASK_FILE
    Leavers,    \* the connections whose client may go away early
    Faults      \* the system calls that may fail

\* "pipe" is the first pipe() of a task.  The second is assumed to succeed: it is not
\* checked, and the descriptors closed and read after its failure are uninitialised.
FaultKinds == {"accept", "thread", "fopen", "pipe", "fork"}

\* What a file name can stand for besides the complete text (or program) of a task:
\* nothing, an empty file, or a mixture of several writers' bytes.
Absent == "absent"
Empty  == "empty"
Torn   == "torn"
Unread == "unread"   \* a child that has not yet looked at its file

ASSUME WorkerAssumption ==
    /\ IsFiniteSet(Conns)
    /\ Conns \cap {Absent, Empty, Torn, Unread} = {}
    /\ MaxTasks \in Nat \ {0}
    /\ MaxChunks \in Nat
    /\ BadSource \subseteq Conns /\ Malformed \subseteq Conns /\ Leavers \subseteq Conns
    /\ Faults \subseteq FaultKinds

File  == Conns \cup {Absent, Empty, Torn}
Codes == {0, 1, 127, 137}  \* success, failure, _exit(127), 128 + SIGKILL
Stages == {"compile", "run"}

OutputMsg == [type : {"OUTPUT"}, stage : Stages, by : File]
DoneMsg   == [type : {"DONE"}, code : Codes]
Message   == OutputMsg \cup DoneMsg

VARIABLES
    loop,    \* accept_loop: in accept(), at the capacity check, or ended
    pc,      \* where the connection's handler thread stands
    stage,   \* which of its two child processes the handler is busy with
    code,    \* compile_exit, run_exit
    active,  \* g_active_tasks
    total,   \* g_total_tasks
    src,     \* what /tmp/p2p_<pid>.c holds
    writers, \* the handlers whose open FILE is the one src names
    bin,     \* what /tmp/p2p_<pid>_bin holds
    child,   \* the handler's child process
    orphan,  \* the compiler that went on when the handler's child was killed
    buf,     \* buffers waiting in the handler's pipe
    client,  \* the other end of the connection
    sent,    \* the messages that reached it
    alone    \* history: no other task, or its orphan, used the files while this one did

files == <<src, writers, bin, orphan>>
counters == <<active, total>>
vars == <<loop, pc, stage, code, counters, files, child, buf, client, sent, alone>>

Terminal == {"closed", "rejected", "leaked"}
\* Between a successful fopen and the last unlink.
FilePCs == {"write", "pipe", "fork", "closew", "read", "wait", "done", "unlinksrc",
            "unlinkbin"}
\* Between load_task_start's first statement and load_task_done.
CountedPCs == {"count", "open", "finish"} \cup FilePCs
PCs == {"idle", "queued", "accepted", "recv", "start", "close"} \cup CountedPCs \cup Terminal

\* A process, with the descriptors it inherited: the write ends of handlers' pipes and
\* the sockets of connections.  Nothing in worker.c is opened close-on-exec.
Process == [state : {"none", "live", "zombie", "reaped"}, image : File \cup {Unread},
            wrote : 0 .. MaxChunks, status : Codes,
            pipes : SUBSET Conns, socks : SUBSET Conns]
NoChild == [state |-> "none", image |-> Unread, wrote |-> 0, status |-> 0,
            pipes |-> {}, socks |-> {}]

TypeOK ==
    /\ loop \in {"accept", "gate", "dead"}
    /\ pc \in [Conns -> PCs]
    /\ stage \in [Conns -> Stages]
    /\ code \in [Conns -> Codes]
    /\ active \in Int /\ total \in Nat
    /\ src \in File /\ writers \subseteq Conns /\ bin \in File
    /\ child \in [Conns -> Process] /\ orphan \in [Conns -> Process]
    /\ buf \in [Conns -> 0 .. 1]
    /\ client \in [Conns -> {"out", "connected", "gone"}]
    /\ sent \in [Conns -> Seq(Message)]
    /\ alone \in [Conns -> BOOLEAN]

Init ==
    /\ loop = "accept"
    /\ pc = [c \in Conns |-> "idle"]
    /\ stage = [c \in Conns |-> "compile"]
    /\ code = [c \in Conns |-> 0]
    /\ active = 0 /\ total = 0
    /\ src = Absent /\ writers = {} /\ bin = Absent
    /\ child = [c \in Conns |-> NoChild] /\ orphan = [c \in Conns |-> NoChild]
    /\ buf = [c \in Conns |-> 0]
    /\ client = [c \in Conns |-> "out"]
    /\ sent = [c \in Conns |-> <<>>]
    /\ alone = [c \in Conns |-> TRUE]
-------------------------------------------------------------------------------
\* Helpers

Goto(c, from, to) == pc[c] = from /\ pc' = [pc EXCEPT ![c] = to]

Live(c) == child[c].state = "live"
Zombie(c) == child[c].state = "zombie"
Orphaned(c) == orphan[c].state = "live"

\* pipefd[1] is open in the server between pipe() and close(pipefd[1]).
OpenPipes == {d \in Conns : pc[d] \in {"fork", "closew"}}
\* The connection's socket is open in the server from accept() to close(cfd).
OpenSocks == {d \in Conns : pc[d] \notin {"idle", "queued", "closed", "rejected"}}

\* read() sees end of file: no process still holds the write end of c's pipe.
PipeClosed(c) == \A d \in Conns : /\ Live(d) => c \notin child[d].pipes
                                  /\ Orphaned(d) => c \notin orphan[d].pipes
\* The client sees end of file: no process still holds the connection's socket.
SockClosed(c) == /\ pc[c] \in {"closed", "rejected"}
                 /\ \A d \in Conns : /\ Live(d) => c \notin child[d].socks
                                     /\ Orphaned(d) => c \notin orphan[d].socks

\* A child that a signal ended counts as exit code 128 + the signal, here SIGKILL.
RawSignal == 9
Killed == 128 + 9
Exits(c, status) ==
    child' = [child EXCEPT ![c].state = "zombie", ![c].status = status]
Compiles(image) == image \in (Conns \ BadSource) \cup {Torn}

UsesFiles(c) == pc[c] \in FilePCs
Counted(c) == pc[c] \in CountedPCs
-------------------------------------------------------------------------------
\* The client and the accept loop

\* tcp_connect of some dispatcher: the kernel completes it whatever the server does.
ClientConnects(c) ==
    /\ Goto(c, "idle", "queued")
    /\ client' = [client EXCEPT ![c] = "connected"]
    /\ UNCHANGED <<loop, stage, code, counters, files, child, buf, sent, alone>>

ClientLeaves(c) ==
    /\ c \in Leavers /\ client[c] = "connected" /\ pc[c] \notin Terminal
    /\ client' = [client EXCEPT ![c] = "gone"]
    /\ UNCHANGED <<loop, pc, stage, code, counters, files, child, buf, sent, alone>>

Accept(c) ==
    /\ loop = "accept"
    /\ Goto(c, "queued", "accepted")
    /\ loop' = "gate"
    /\ UNCHANGED <<stage, code, counters, files, child, buf, client, sent, alone>>

\* Any errno but EINTR leaves the loop for good.
AcceptFails ==
    /\ "accept" \in Faults
    /\ loop = "accept" /\ loop' = "dead"
    /\ UNCHANGED <<pc, stage, code, counters, files, child, buf, client, sent, alone>>

\* Altered: a full node drops the connection without closing it.
GateLeaks(c) ==
    /\ loop' = "accept"
    /\ \/ active >= MaxTasks /\ Goto(c, "accepted", "leaked")
       \/ active < MaxTasks /\ Goto(c, "accepted", "recv")
    /\ UNCHANGED <<stage, code, counters, files, child, buf, client, sent, alone>>

\* The check reads the counter that the handlers admitted before have yet to increment.
Gate(c) ==
    /\ loop' = "accept"
    /\ \/ active >= MaxTasks /\ Goto(c, "accepted", "rejected")
       \/ active < MaxTasks /\ Goto(c, "accepted", "recv")
       \/ "thread" \in Faults /\ active < MaxTasks /\ Goto(c, "accepted", "leaked")
    /\ UNCHANGED <<stage, code, counters, files, child, buf, client, sent, alone>>
-------------------------------------------------------------------------------
\* handle_connection, compile_and_stream and stream_and_wait

\* recv_msg and the checks of the payload's layout: a connection that ends early or
\* sends anything but a well-formed MSG_TASK_FILE is closed without an answer.
Receive(c) ==
    /\ \/ c \notin Malformed /\ Goto(c, "recv", "start")
       \/ (c \in Malformed \/ client[c] = "gone") /\ Goto(c, "recv", "close")
    /\ UNCHANGED <<loop, stage, code, counters, files, child, buf, client, sent, alone>>

\* load_task_start is two atomic additions.
StartActive(c) ==
    /\ Goto(c, "start", "count")
    /\ active' = active + 1
    /\ UNCHANGED <<loop, stage, code, total, files, child, buf, client, sent, alone>>

StartTotal(c) ==
    /\ Goto(c, "count", "open")
    /\ total' = total + 1
    /\ UNCHANGED <<loop, stage, code, active, files, child, buf, client, sent, alone>>

\* Altered: the early return after a failed fopen skips load_task_done.
OpenSourceUncounted(c) ==
    /\ Goto(c, "open", "close")
    /\ UNCHANGED <<loop, stage, code, counters, files, child, buf, client, sent, alone>>

\* fopen(src_path, "wb") creates or truncates.  A failure skips everything but
\* load_task_done: the client gets no MSG_TASK_DONE.
OpenSource(c) ==
    /\ \/ /\ Goto(c, "open", "write")
          /\ src' = Empty /\ writers' = writers \cup {c}
          /\ LET others == {d \in Conns \ {c} : UsesFiles(d) \/ Orphaned(d)}
             IN  alone' = [d \in Conns |->
                             IF d = c THEN others = {}
                                      ELSE alone[d] /\ ~ UsesFiles(d)]
       \/ /\ "fopen" \in Faults
          /\ Goto(c, "open", "finish")
          /\ UNCHANGED <<src, writers, alone>>
    /\ UNCHANGED <<loop, stage, code, counters, bin, orphan, child, buf, client, sent>>

\* Altered: no fclose, so the text is still in the FILE's buffer when gcc starts.
WriteSourceUnflushed(c) ==
    /\ Goto(c, "write", "pipe")
    /\ writers' = writers \ {c}
    /\ UNCHANGED <<loop, stage, code, counters, src, bin, orphan, child, buf, client, sent,
                   alone>>

\* fwrite and fclose.  Writers that share the file may leave a mixture; one whose
\* file was unlinked meanwhile changes nothing that the path names.
WriteSource(c) ==
    /\ Goto(c, "write", "pipe")
    /\ IF c \in writers
       THEN src' \in IF src = Empty /\ writers = {c} THEN {c} ELSE {c, Torn}
       ELSE UNCHANGED src
    /\ writers' = writers \ {c}
    /\ UNCHANGED <<loop, stage, code, counters, bin, orphan, child, buf, client, sent, alone>>

\* Altered: a handler that has no pipe returns, and leaves its files.
PipeGivesUp(c) ==
    /\ \/ Goto(c, "pipe", "fork")
       \/ "pipe" \in Faults /\ stage[c] = "compile" /\ Goto(c, "pipe", "finish")
    /\ UNCHANGED <<loop, stage, code, counters, files, child, buf, client, sent, alone>>

\* When the first pipe() fails compiling is skipped.
Pipe(c) ==
    /\ \/ Goto(c, "pipe", "fork") /\ UNCHANGED stage
       \/ /\ "pipe" \in Faults /\ stage[c] = "compile"
          /\ pc[c] = "pipe" /\ stage' = [stage EXCEPT ![c] = "run"] /\ UNCHANGED pc
    /\ UNCHANGED <<loop, code, counters, files, child, buf, client, sent, alone>>

NewChild == [NoChild EXCEPT !.state = "live", !.pipes = OpenPipes, !.socks = OpenSocks]

\* The child inherits every descriptor the server has open at that moment, those of
\* the other handlers too.  A failed fork() is not checked: cpid is -1.
Fork(c) ==
    /\ Goto(c, "fork", "closew")
    /\ \/ child' = [child EXCEPT ![c] = NewChild]
       \/ "fork" \in Faults /\ child' = [child EXCEPT ![c] = NoChild]
    /\ UNCHANGED <<loop, stage, code, counters, files, buf, client, sent, alone>>

CloseWriteEnd(c) ==
    /\ Goto(c, "closew", "read")
    /\ UNCHANGED <<loop, stage, code, counters, files, child, buf, client, sent, alone>>

\* A buffer is forwarded as MSG_OUTPUT.
Forward(c) ==
    /\ pc[c] = "read" /\ buf[c] > 0
    /\ buf' = [buf EXCEPT ![c] = 0]
    /\ sent' = IF client[c] = "connected"
               THEN [sent EXCEPT ![c] = Append(@, [type |-> "OUTPUT", stage |-> stage[c],
                                                   by |-> child[c].image])]
               ELSE sent
    /\ UNCHANGED <<loop, pc, stage, code, counters, files, child, client, alone>>

\* Altered: the handler of a client that left does not wait for its child.
ForwardFailsNoWait(c) ==
    /\ buf[c] > 0 /\ client[c] = "gone"
    /\ Goto(c, "read", "done")
    /\ buf' = [buf EXCEPT ![c] = 0]
    /\ UNCHANGED <<loop, stage, code, counters, files, child, client, sent, alone>>

\* Altered: the handler of a client that left gives the task up at once.
ForwardFailsAbandons(c) ==
    /\ buf[c] > 0 /\ client[c] = "gone"
    /\ Goto(c, "read", "close")
    /\ buf' = [buf EXCEPT ![c] = 0]
    /\ UNCHANGED <<loop, stage, code, counters, files, child, client, sent, alone>>

\* send_msg fails: the child is killed and the rest of its output dropped.  The kill
\* reaches the shell or gcc, not what these have started, which may go on as an orphan.
ForwardFails(c) ==
    /\ buf[c] > 0 /\ client[c] = "gone"
    /\ Goto(c, "read", "wait")
    /\ buf' = [buf EXCEPT ![c] = 0]
    /\ \/ Live(c) /\ Exits(c, Killed) /\ UNCHANGED orphan
       \/ /\ Live(c) /\ stage[c] = "compile" /\ Exits(c, Killed)
          /\ orphan' = [orphan EXCEPT ![c] = child[c]]
       \/ ~ Live(c) /\ UNCHANGED <<child, orphan>>
    /\ UNCHANGED <<loop, stage, code, counters, src, writers, bin, client, sent, alone>>

ReadEOF(c) ==
    /\ buf[c] = 0 /\ PipeClosed(c)
    /\ Goto(c, "read", "wait")
    /\ UNCHANGED <<loop, stage, code, counters, files, child, buf, client, sent, alone>>

\* Altered: wait for whichever child ends first.
ReapsAny(c, d) == Zombie(d)

\* waitpid reports the child of process id cpid, which is any child when fork failed.
\* When there is none to report, status is read uninitialised.
Reaps(c, d) == Zombie(d) /\ (d = c \/ child[c].state = "none")
NothingToReap(c) == \/ child[c].state = "reaped"
                    \/ \A d \in Conns : child[d].state \in {"none", "reaped"}

\* A compiler that did not return 0 ends the task.
Wait(c) ==
    /\ pc[c] = "wait"
    /\ \/ \E d \in Conns :
            /\ Reaps(c, d)
            /\ child' = [child EXCEPT ![d].state = "reaped", ![d].pipes = {}, ![d].socks = {}]
            /\ code' = [code EXCEPT ![c] = child[d].status]
       \/ /\ NothingToReap(c)
          /\ \E garbage \in Codes : code' = [code EXCEPT ![c] = garbage]
          /\ UNCHANGED child
    /\ IF stage[c] = "compile" /\ code'[c] = 0
       THEN Goto(c, "wait", "pipe") /\ stage' = [stage EXCEPT ![c] = "run"]
       ELSE Goto(c, "wait", "done") /\ UNCHANGED stage
    /\ UNCHANGED <<loop, counters, files, buf, client, sent, alone>>

SendDone(c) ==
    /\ Goto(c, "done", "unlinksrc")
    /\ sent' = IF client[c] = "connected"
               THEN [sent EXCEPT ![c] = Append(@, [type |-> "DONE", code |-> code[c]])]
               ELSE sent
    /\ UNCHANGED <<loop, stage, code, counters, files, child, buf, client, alone>>

\* Altered: the early return after a failed compilation skips load_task_done.
UnlinkSourceUncounted(c) ==
    /\ Goto(c, "unlinksrc", IF stage[c] = "compile" THEN "close" ELSE "unlinkbin")
    /\ src' = Absent /\ writers' = {}
    /\ UNCHANGED <<loop, stage, code, counters, bin, orphan, child, buf, client, sent, alone>>

\* Altered: a failed compilation has no early return, and the program is run.
UnlinkSourceNoReturn(c) ==
    /\ Goto(c, "unlinksrc", IF stage[c] = "compile" THEN "pipe" ELSE "unlinkbin")
    /\ stage' = [stage EXCEPT ![c] = "run"]
    /\ src' = Absent /\ writers' = {}
    /\ UNCHANGED <<loop, code, counters, bin, orphan, child, buf, client, sent, alone>>

\* The early return after a failed compilation does not unlink the binary.
UnlinkSource(c) ==
    /\ Goto(c, "unlinksrc", IF stage[c] = "compile" THEN "finish" ELSE "unlinkbin")
    /\ src' = Absent /\ writers' = {}
    /\ UNCHANGED <<loop, stage, code, counters, bin, orphan, child, buf, client, sent, alone>>

\* Altered: the binary is left behind.
UnlinkBinaryKept(c) ==
    /\ Goto(c, "unlinkbin", "finish")
    /\ UNCHANGED <<loop, stage, code, counters, files, child, buf, client, sent, alone>>

UnlinkBinary(c) ==
    /\ Goto(c, "unlinkbin", "finish")
    /\ bin' = Absent
    /\ UNCHANGED <<loop, stage, code, counters, src, writers, orphan, child, buf, client,
                   sent, alone>>

\* load_task_done
Finish(c) ==
    /\ Goto(c, "finish", "close")
    /\ active' = active - 1
    /\ UNCHANGED <<loop, stage, code, total, files, child, buf, client, sent, alone>>

CloseConn(c) ==
    /\ Goto(c, "close", "closed")
    /\ UNCHANGED <<loop, stage, code, counters, files, child, buf, client, sent, alone>>
-------------------------------------------------------------------------------
\* The child processes

GccReads(c) ==
    /\ stage[c] = "compile" /\ Live(c) /\ child[c].image = Unread
    /\ child' = [child EXCEPT ![c].image = src]
    /\ UNCHANGED <<loop, pc, stage, code, counters, files, buf, client, sent, alone>>

\* A compilation that fails leaves the old binary or, failing in the linker, removes it.
GccExits(c) ==
    /\ stage[c] = "compile" /\ Live(c) /\ child[c].image # Unread
    /\ \/ Compiles(child[c].image) /\ bin' = child[c].image /\ Exits(c, 0)
       \/ /\ child[c].image \notin Conns \ BadSource
          /\ bin' \in {bin, Absent} /\ Exits(c, 1)
    /\ UNCHANGED <<loop, pc, stage, code, counters, src, writers, orphan, buf, client, sent,
                   alone>>

\* The orphan of a compiler that was killed ends, and may write the binary, at any time
\* later.  It printed before, so it has read the source.
OrphanEnds(c) ==
    /\ Orphaned(c)
    /\ bin' \in {bin, Absent} \cup {f \in {orphan[c].image} : Compiles(f)}
    /\ orphan' = [orphan EXCEPT ![c].state = "reaped", ![c].pipes = {}, ![c].socks = {}]
    /\ UNCHANGED <<loop, pc, stage, code, counters, src, writers, child, buf, client, sent,
                   alone>>

Linking(c) ==
    \/ stage[c] = "compile" /\ Live(c) /\ child[c].image # Unread
    \/ Orphaned(c)

\* execl(bin_path): 127 when there is no binary, or another compiler is writing it.
Exec(c) ==
    /\ stage[c] = "run" /\ Live(c) /\ child[c].image = Unread
    /\ \/ bin # Absent /\ child' = [child EXCEPT ![c].image = bin]
       \/ (bin = Absent \/ \E d \in Conns : Linking(d)) /\ Exits(c, 127)
    /\ UNCHANGED <<loop, pc, stage, code, counters, files, buf, client, sent, alone>>

ChildWrites(c) ==
    /\ Live(c) /\ child[c].image # Unread /\ child[c].wrote < MaxChunks /\ buf[c] = 0
    /\ pc[c] \in {"closew", "read"}
    /\ child' = [child EXCEPT ![c].wrote = @ + 1]
    /\ buf' = [buf EXCEPT ![c] = 1]
    /\ UNCHANGED <<loop, pc, stage, code, counters, files, client, sent, alone>>

ProgramExits(c) ==
    /\ stage[c] = "run" /\ Live(c) /\ child[c].image # Unread
    /\ \E status \in {0, 1} : Exits(c, status)
    /\ UNCHANGED <<loop, pc, stage, code, counters, files, buf, client, sent, alone>>
-------------------------------------------------------------------------------
AcceptLoop == AcceptFails \/ \E c \in Conns : Accept(c) \/ Gate(c)

Handler(c) ==
    \/ Receive(c) \/ StartActive(c) \/ StartTotal(c) \/ OpenSource(c) \/ WriteSource(c)
    \/ Pipe(c) \/ Fork(c) \/ CloseWriteEnd(c) \/ Forward(c) \/ ForwardFails(c)
    \/ ReadEOF(c) \/ Wait(c) \/ SendDone(c) \/ UnlinkSource(c) \/ UnlinkBinary(c)
    \/ Finish(c) \/ CloseConn(c)

ChildEnds(c) == GccReads(c) \/ GccExits(c) \/ OrphanEnds(c) \/ Exec(c) \/ ProgramExits(c)

\* Every client has been served, or waits for an accept loop that has ended.
Quiet ==
    /\ \A c \in Conns : pc[c] \in Terminal \/ (pc[c] = "queued" /\ loop = "dead")
    /\ UNCHANGED vars

Next ==
    \/ AcceptLoop
    \/ \E c \in Conns : ClientConnects(c) \/ ClientLeaves(c) \/ Handler(c)
                        \/ ChildEnds(c) \/ ChildWrites(c)
    \/ Quiet

Spec == Init /\ [][Next]_vars

\* The scheduler runs some thread or process while any can run, and every child process
\* halts; accept() is not promised to fail, nor a program to print.
Progress == \E c \in Conns : Accept(c) \/ Gate(c) \/ Handler(c) \/ ChildEnds(c)

FairSpec == Spec /\ WF_vars(Progress)
-------------------------------------------------------------------------------
\* Properties

\* g_active_tasks, which gates admission and is reported to every peer, is exactly the
\* number of handlers between load_task_start and load_task_done, on every path
\* through compile_and_stream.
ActiveExact == active = Cardinality({c \in Conns : Counted(c)})

\* When no task is using them, neither /tmp file is left over from an earlier one, but
\* for the binary of a compilation that went on when it was killed because its client had
\* left.
CleanTmp ==
    (\A c \in Conns : ~ UsesFiles(c)) =>
        /\ src = Absent
        /\ bin = Absent \/ \E c \in Conns : orphan[c].state # "none"

\* What the client is sent comes from its own program, and a program that does not
\* compile is never run.
OwnOutput(c) ==
    \A i \in DOMAIN sent[c] :
        sent[c][i].type = "OUTPUT" => /\ sent[c][i].by = c
                                      /\ c \in BadSource => sent[c][i].stage = "compile"

\* Its verdict is the status of its own process, 0 only if that ran the program.
OwnVerdict(c) ==
    \A i \in DOMAIN sent[c] :
        sent[c][i].type = "DONE" => /\ sent[c][i].code = child[c].status
                                    /\ sent[c][i].code = 0 => /\ child[c].image = c
                                                              /\ stage[c] = "run"
                                                              /\ c \notin BadSource

\* A task that no other task, nor the orphan of one, overlaps is executed as submitted,
\* whatever ran before it.
AloneIsFaithful == \A c \in Conns : alone[c] => OwnOutput(c) /\ OwnVerdict(c)

\* No handler ends while its child runs or waits to be reaped, failed forks, stolen
\* exit statuses and clients that left included.
ChildrenReaped ==
    \A c \in Conns : pc[c] \in Terminal => child[c].state \in {"none", "reaped"}

\* Every connection carries a stream as TaskSession promises it to receive_output.
Session == INSTANCE TaskSession WITH
    CompilerOutputs <- {m \in OutputMsg : m.stage = "compile"},
    ProgramOutputs <- {m \in OutputMsg : m.stage = "run"},
    Verdicts <- DoneMsg,
    stream <- sent,
    closed <- [c \in Conns |-> pc[c] \in Terminal]

SessionSpec == Session!Spec

\* A client that stays gets a verdict or sees its connection closed, though other
\* processes may hold the pipe its handler reads or the socket it waits on.
Answered ==
    []<>(\A c \in Conns : client[c] = "connected" =>
             (\E i \in DOMAIN sent[c] : sent[c][i].type = "DONE") \/ SockClosed(c))

\* Every slot a task takes is given back, on each path through the handler.
SlotsReturned == []<>(active = 0)

\* README.md of worker.c: "Enforces `MAX_CONCURRENT_TASKS`".
WithinCapacity == active <= MaxTasks
===============================================================================
