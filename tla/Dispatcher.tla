------------------------------ MODULE Dispatcher ------------------------------
(***************************************************************************)
(* dispatcher.c, called by the REPL for one task after the other: query    *)
(* the peers it knows, choose the least loaded of them and itself, connect *)
(* with a fallback to itself, send the task, print what comes back.        *)
(*                                                                         *)
(* The peers answer load queries as load_responder_thread (main.c) does    *)
(* and their workers keep TaskSession, which Worker implements.  A port is *)
(* written as the node that listens on it, an address likewise.            *)
(***************************************************************************)
EXTENDS Integers, Sequences

CONSTANTS
    Peers,    \* the nodes that may be in the peer list
    Self,     \* this node
    Tasks,    \* the tasks submitted at the REPL
    Reports,  \* what a node may say of itself: [load1, cores, active], load1 in hundredths
    Codes,    \* the exit codes a worker sends
    MaxOut,   \* bound: output messages a worker sends for a task
    NoAnswer, \* 1e9, the score of a peer that does not answer
    Worst     \* 1e10, the score to beat

Garbage == "garbage"   \* an uninitialised port
Nobody  == "nobody"
Pending == -2          \* no exit code yet
Failed  == -1

ASSUME DispatcherAssumption ==
    /\ Self \notin Peers /\ {Garbage, Nobody} \cap (Peers \cup {Self}) = {}
    /\ Nobody \notin Tasks
    /\ Reports \subseteq [load1 : Nat, cores : Nat \ {0}, active : Nat]
    /\ Codes \subseteq 0 .. 255 /\ MaxOut \in Nat
    /\ NoAnswer \in Nat /\ Worst \in Nat /\ NoAnswer < Worst
    /\ \A r \in Reports : 100 + 10 * r.active < NoAnswer

OutputMsg == [type : {"OUTPUT"}, stage : {"compile", "run"}]
DoneMsg   == [type : {"DONE"}, code : Codes]
Hosts     == Peers \cup {Self}
Best      == [score : Nat, host : Peers \cup {Nobody}, port : Hosts \cup {Garbage, Nobody}]

VARIABLES
    step,    \* where dispatch() stands
    task,    \* its argument
    left,    \* the peers of its snapshot still to be queried
    best,    \* best_score, best_ip and best_port
    told,    \* history: what the peers, and the node itself, reported for this choice
    target,  \* target_ip, or the fallback
    sentTo,  \* history: for each task, the host of every send, in order
    stream,  \* what the worker sent on the task's connection
    closed,  \* whether it has closed it
    got,     \* how many messages receive_output has read
    shown,   \* the output printed for each task
    rc       \* what dispatch() returned for it

choice == <<left, best, told, target>>
conn == <<stream, closed>>
results == <<sentTo, got, shown, rc>>
vars == <<step, task, choice, conn, results>>

Worker == INSTANCE TaskSession WITH
    Conns <- Tasks,
    CompilerOutputs <- {m \in OutputMsg : m.stage = "compile"},
    ProgramOutputs <- {m \in OutputMsg : m.stage = "run"},
    Verdicts <- DoneMsg

TypeOK ==
    /\ step \in {"idle", "query", "connect", "fallback", "send", "receive"}
    /\ task \in Tasks \cup {Nobody}
    /\ left \subseteq Peers
    /\ best \in Best
    /\ DOMAIN told \subseteq Hosts /\ \A h \in DOMAIN told : told[h] \in Reports
    /\ target \in Hosts \cup {Nobody}
    /\ sentTo \in [Tasks -> Seq(Hosts)]
    /\ stream \in [Tasks -> Seq(OutputMsg \cup DoneMsg)] /\ closed \in [Tasks -> BOOLEAN]
    /\ got \in [Tasks -> Nat] /\ \A t \in Tasks : got[t] <= Len(stream[t])
    /\ shown \in [Tasks -> Seq(OutputMsg)]
    /\ rc \in [Tasks -> Codes \cup {Pending, Failed}]

NoBest == [score |-> Worst, host |-> Nobody, port |-> Nobody]

Init ==
    /\ step = "idle" /\ task = Nobody
    /\ left = {} /\ best = NoBest /\ told = <<>> /\ target = Nobody
    /\ sentTo = [t \in Tasks |-> <<>>]
    /\ Worker!Init
    /\ got = [t \in Tasks |-> 0]
    /\ shown = [t \in Tasks |-> <<>>]
    /\ rc = [t \in Tasks |-> Pending]
-------------------------------------------------------------------------------
\* load_get_percentage and the score: the one-minute load per core in percent, at most
\* 100, and 10 for every active task.
Percent(r) == IF r.load1 \div r.cores > 100 THEN 100 ELSE r.load1 \div r.cores
Score(r) == Percent(r) + 10 * r.active

Goto(from, to) == step = from /\ step' = to

Return(code) ==
    /\ step' = "idle" /\ task' = Nobody
    /\ rc' = [rc EXCEPT ![task] = code]

\* The REPL calls dispatch(), which copies the peer list.
Submit(t) ==
    /\ Goto("idle", "query") /\ rc[t] = Pending
    /\ task' = t
    /\ left' \in SUBSET Peers
    /\ best' = NoBest /\ told' = <<>> /\ target' = Nobody
    /\ UNCHANGED <<conn, results>>

Told(h, r) == told' = [x \in DOMAIN told \cup {h} |-> IF x = h THEN r ELSE told[x]]

\* Altered: the comparison reversed.
BetterReversed(p, score, port) ==
    best' = IF score > best.score THEN [score |-> score, host |-> p, port |-> port] ELSE best

Better(p, score, port) ==
    best' = IF score < best.score THEN [score |-> score, host |-> p, port |-> port] ELSE best

\* query_peer_load: LOAD_RESP arrives in time.
Answered(p) ==
    /\ step = "query" /\ p \in left
    /\ left' = left \ {p}
    /\ \E r \in Reports : Told(p, r) /\ Better(p, Score(r), p)
    /\ UNCHANGED <<step, task, target, conn, results>>

\* Altered: a query that fails returns -1, or 0.
UnansweredNegative(p) ==
    /\ step = "query" /\ p \in left
    /\ left' = left \ {p}
    /\ \E port \in Hosts \cup {Garbage} : Better(p, -1, port)
    /\ UNCHANGED <<step, task, told, target, conn, results>>

UnansweredZero(p) ==
    /\ step = "query" /\ p \in left
    /\ left' = left \ {p}
    /\ \E port \in Hosts \cup {Garbage} : Better(p, 0, port)
    /\ UNCHANGED <<step, task, told, target, conn, results>>

\* It does not: the peer is gone, a datagram is lost or late, or the request went to the
\* socket of the peer's discovery listener, which shares the port and drops it.  The port
\* is then whatever is on the stack, such as that of the peer queried before.
Unanswered(p) ==
    /\ step = "query" /\ p \in left
    /\ left' = left \ {p}
    /\ \E port \in Hosts \cup {Garbage} : Better(p, NoAnswer, port)
    /\ UNCHANGED <<step, task, told, target, conn, results>>

\* The node compares its own score with the best it was told.
UsesSelf(own) == Score(own) <= best.score
Choose ==
    /\ step = "query" /\ left = {} /\ step' = "connect"
    /\ \E own \in Reports :
          /\ Told(Self, own)
          /\ target' = IF UsesSelf(own) THEN Self ELSE best.host
    /\ UNCHANGED <<task, left, best, conn, results>>

Connect ==
    /\ \/ Goto("connect", "send") /\ UNCHANGED <<task, target, rc>>
       \/ Goto("connect", "fallback") /\ target # Self /\ target' = Self /\ UNCHANGED <<task, rc>>
       \/ step = "connect" /\ target = Self /\ Return(Failed) /\ UNCHANGED target
    /\ told' = <<>>
    /\ UNCHANGED <<left, best, conn, sentTo, got, shown>>

Fallback ==
    /\ \/ Goto("fallback", "send") /\ UNCHANGED <<task, rc>>
       \/ step = "fallback" /\ Return(Failed)
    /\ UNCHANGED <<choice, conn, sentTo, got, shown>>

\* send_task_file; when it fails part of the task may have arrived, which no worker runs.
SendTask ==
    /\ \/ /\ Goto("send", "receive")
          /\ sentTo' = [sentTo EXCEPT ![task] = Append(@, target)]
          /\ UNCHANGED <<task, rc>>
       \/ step = "send" /\ Return(Failed) /\ UNCHANGED sentTo
    /\ UNCHANGED <<choice, conn, got, shown>>

\* receive_output reads the next message.
Message == stream[task][got[task] + 1]
ReadOutput ==
    /\ step = "receive" /\ got[task] < Len(stream[task]) /\ Message \in OutputMsg
    /\ got' = [got EXCEPT ![task] = @ + 1]
    /\ shown' = [shown EXCEPT ![task] = Append(@, Message)]
    /\ UNCHANGED <<step, task, choice, conn, sentTo, rc>>

ReadDone ==
    /\ step = "receive" /\ got[task] < Len(stream[task]) /\ Message \in DoneMsg
    /\ got' = [got EXCEPT ![task] = @ + 1]
    /\ Return(Message.code)
    /\ UNCHANGED <<choice, conn, sentTo, shown>>

\* Altered: the failure is ignored; counted as success; made good by running it here.
ReadFailsIgnored == step = "receive" /\ UNCHANGED vars

ReadFailsZero ==
    /\ step = "receive"
    /\ Return(0)
    /\ UNCHANGED <<choice, conn, sentTo, got, shown>>

ReadFailsRetries ==
    /\ Goto("receive", "fallback")
    /\ target' = Self
    /\ UNCHANGED <<task, left, best, told, conn, results>>

\* recv_msg fails: the connection was closed before a verdict, or it broke.
ReadFails ==
    /\ step = "receive"
    /\ Return(Failed)
    /\ UNCHANGED <<choice, conn, sentTo, got, shown>>
-------------------------------------------------------------------------------
\* The worker at the other end, as TaskSession has it: until dispatch() returns and
\* closes the socket, it answers the task it was sent, and may close the connection, with
\* a verdict or without, from the moment it is made.
Serve(t) ==
    /\ t = task /\ sentTo[t] # <<>>
    /\ \/ Len(stream[t]) < MaxOut /\ (Worker!Compiler(t) \/ Worker!Program(t))
       \/ Worker!Answer(t)
    /\ UNCHANGED <<step, task, choice, results>>

HangUp(t) ==
    /\ t = task /\ step \in {"send", "receive"}
    /\ Worker!Close(t)
    /\ UNCHANGED <<step, task, choice, results>>

Query(p) == Answered(p) \/ Unanswered(p)
Read == ReadOutput \/ ReadDone

\* Every task was submitted and has returned, and its connection is closed.
Finished ==
    /\ step = "idle" /\ \A t \in Tasks : rc[t] # Pending
    /\ UNCHANGED vars

Next ==
    \/ \E t \in Tasks : Submit(t) \/ Serve(t) \/ HangUp(t)
    \/ \E p \in Peers : Query(p)
    \/ Choose \/ Connect \/ Fallback \/ SendTask \/ Read \/ ReadFails
    \/ Finished

Spec == Init /\ [][Next]_vars

\* The REPL's thread runs; a read fails for certain only at the end of a closed
\* connection; a worker closes every connection at last (Worker, Answered).
AtEnd == step = "receive" /\ closed[task] /\ got[task] = Len(stream[task])
Fairness ==
    /\ WF_vars((\E p \in Peers : Query(p)) \/ Choose \/ Connect \/ Fallback \/ SendTask)
    /\ WF_vars(Read)
    /\ WF_vars(AtEnd /\ ReadFails)
    /\ \A t \in Tasks : WF_vars(HangUp(t))

FairSpec == Spec /\ Fairness
-------------------------------------------------------------------------------
\* Properties

Routed == step \in {"connect", "send", "receive"}

\* A task is never sent to a port that no peer announced, though best_port may hold an
\* uninitialised value while the peers are queried: a peer that did not answer is
\* beaten by the node itself.
PortKnown == Routed /\ target # Self => best.host = target /\ best.port = target

\* The task goes to the node with the lowest score of those that answered and the node
\* itself, unless that peer refuses the connection; to the node itself if none answered.
LeastLoaded ==
    step = "connect" =>
        /\ target \in DOMAIN told
        /\ \A h \in DOMAIN told : Score(told[target]) <= Score(told[h])

\* A task is sent at most once, to whatever node, this one included, and whatever fails: a
\* program whose output is lost is not run again.
AtMostOnce == \A t \in Tasks : Len(sentTo[t]) <= 1

\* An exit code is the worker's verdict, after all the output it sent was shown in
\* order; without a verdict the task counts as failed.
IsDone(m) == m.type = "DONE"
ReturnsVerdict ==
    \A t \in Tasks : rc[t] \in Codes =>
        /\ stream[t] # <<>> /\ IsDone(stream[t][Len(stream[t])])
        /\ rc[t] = stream[t][Len(stream[t])].code
        /\ shown[t] = SubSeq(stream[t], 1, Len(stream[t]) - 1)

\* dispatch() comes back to the REPL, if the worker closes the connection at last.
Returns == \A t \in Tasks : task = t ~> rc[t] # Pending
===============================================================================
