------------------------------- MODULE WebBridge -------------------------------
(***************************************************************************)
(* The web interface of a node: web/server.py, which runs p2p_node as its  *)
(* child, and the pages of web/app.js that connect to it.                  *)
(*                                                                         *)
(* The server is one event loop.  Its coroutines are pipe_output, which    *)
(* copies the node's output to all browsers, spawn_p2p, which starts the   *)
(* node while browsers connect already and waits for its end, and one      *)
(* ws_handler per session.  They give way to each other only at an await;  *)
(* the node is another process and gives way to nobody.  A page that       *)
(* reconnects starts another session.                                      *)
(*                                                                         *)
(* The node's REPL is seen through its pipes: it reads a line, reads the   *)
(* file a `submit` names, and prints.  Its n-th buffer of output is n.  A  *)
(* file is written and read piece by piece, in no order of the two.        *)
(***************************************************************************)
EXTENDS Integers, FiniteSets, Sequences, SequencesExt

CONSTANTS
    Sessions,   \* connections of browsers
    Fickle,     \* those whose browser may stop reading, or go away
    Names,      \* file names that browsers upload
    MaxLines,   \* bound: the commands and uploads that browsers send
    Sizes,      \* bound: in how many pieces an upload is written and read
    Backlog,    \* how much of OUTPUT_LOG a new browser is sent, 200
    Room,       \* bound: messages the buffers of a connection hold before a send waits
    PipeRoom    \* bound: buffers of output that wait between the node and the server

Quit == "quit"              \* the line `quit`; others are `submit web_upload_<name>`

ASSUME BridgeAssumption ==
    /\ IsFiniteSet(Sessions) /\ Fickle \subseteq Sessions
    /\ Quit \notin Names /\ MaxLines \in Nat /\ Sizes \subseteq Nat
    /\ Backlog \in Nat /\ Room \in Nat \ {0} /\ PipeRoom \in Nat \ {0}

Nobody == 0                 \* no upload is being written, or read
Upload == 1 .. MaxLines     \* the upload of the k-th line, and each piece of its content
Line == [name : Names \cup {Quit}, size : Nat]

Output(n) == [type |-> "output", n |-> n]
AliveIs(b) == [type |-> "status", alive |-> b]
Done == [type |-> "done"]
Exited == [type |-> "exited"]
With(f, x, v) == [y \in DOMAIN f \cup {x} |-> IF y = x THEN v ELSE f[y]]

IsOutput(m) == m.type = "output"
Message == [type : {"output"}, n : Nat] \cup [type : {"status"}, alive : BOOLEAN]
           \cup {Done, Exited}

VARIABLES
    node,     \* the p2p_node process
    stdin,    \* lines written to it and not read yet, by number
    loading, want, got,  \* read_file: the line it reads for, ftell's size, what fread has
    lines,    \* history: what each line was, Quit or the name of an upload
    file,     \* whose pieces the file web_upload_<name> holds, if there is one
    writing,  \* the upload whose file is open for writing, while the event loop is busy
    ran,      \* history: what the node read and dispatched for each upload
    out,      \* how many buffers the node has printed
    log,      \* how many of them are in OUTPUT_LOG
    reader, pending,    \* pipe_output, and the sends its broadcast still waits for
    waiter, notices,    \* spawn_p2p, likewise
    clients,  \* connected_clients
    handler, first, next, upto,  \* ws_handler, its slice of the backlog and its place there
    link,     \* the connection
    inbox,    \* what was sent to the browser and not read yet
    asked,    \* a status request is on its way to the server
    early,    \* history: it was answered before p2p_proc was assigned
    seen,     \* the messages of output the page shows
    alive     \* the page's status pill

load == <<loading, want, got>>
nodeVars == <<node, stdin, load, ran, out>>
fileVars == <<lines, file, writing>>
castVars == <<log, reader, pending, waiter, notices>>
slice == <<first, next, upto>>
page == <<asked, early, seen, alive>>
vars == <<nodeVars, fileVars, castVars, clients, handler, slice, link, inbox, page>>

TypeOK ==
    /\ node \in {"none", "running", "exited"}
    /\ stdin \in Seq(Upload)
    /\ loading \in Upload \cup {Nobody} /\ want \in Nat /\ got \in Seq(Upload)
    /\ lines \in Seq(Line) /\ Len(lines) <= MaxLines
    /\ DOMAIN file \subseteq Names /\ \A f \in DOMAIN file : file[f] \in Seq(Upload)
    /\ writing \in Upload \cup {Nobody}
    /\ DOMAIN ran \subseteq Upload /\ \A u \in DOMAIN ran : ran[u] \in Seq(Upload)
    /\ out \in Nat /\ log \in 0 .. out /\ out - log <= PipeRoom
    /\ reader \in {"none", "reading", "done"}
    /\ waiter \in {"spawn", "missing", "wait", "told", "done"}
    /\ pending \subseteq Sessions /\ notices \subseteq Sessions
    /\ clients \subseteq Sessions
    /\ handler \in [Sessions -> {"none", "backlog", "loop", "ended"}]
    /\ first \in [Sessions -> Nat] /\ next \in [Sessions -> Nat] /\ upto \in [Sessions -> Nat]
    /\ link \in [Sessions -> {"new", "open", "closed"}]
    /\ inbox \in [Sessions -> Seq(Message)] /\ \A s \in Sessions : Len(inbox[s]) <= Room
    /\ asked \in [Sessions -> BOOLEAN] /\ early \in [Sessions -> BOOLEAN]
    /\ alive \in [Sessions -> BOOLEAN]
    /\ seen \in [Sessions -> Seq(Message)]

\* The WebSocket server listens, p2p_proc is None and spawn_p2p is scheduled.
Init ==
    /\ node = "none" /\ stdin = <<>> /\ ran = <<>> /\ out = 0
    /\ loading = Nobody /\ want = 0 /\ got = <<>>
    /\ lines = <<>> /\ file = <<>> /\ writing = Nobody
    /\ log = 0 /\ reader = "none" /\ pending = {}
    /\ waiter = "spawn" /\ notices = {}
    /\ clients = {} /\ handler = [s \in Sessions |-> "none"]
    /\ first = [s \in Sessions |-> 1] /\ next = first /\ upto = [s \in Sessions |-> 0]
    /\ link = [s \in Sessions |-> "new"]
    /\ inbox = [s \in Sessions |-> <<>>]
    /\ asked = [s \in Sessions |-> FALSE] /\ early = asked /\ alive = asked
    /\ seen = inbox
-------------------------------------------------------------------------------
\* The node

\* The banner, the prompt, the output of a task; the program waits when the pipe is full.
Prints == out - log < PipeRoom /\ out' = out + 1

Starts ==
    /\ node = "running" /\ out = 0
    /\ Prints
    /\ node' \in {"running", "exited"}   \* worker_start may find the port in use
    /\ UNCHANGED <<stdin, load, ran, fileVars, castVars, clients, handler, slice, link, inbox,
                   page>>

\* What web_upload_<name> holds for the line that is being dealt with.
Named(k) == file[lines[k].name]

\* The REPL reads a line.  For a `submit` read_file opens the file and takes its size; one
\* that is empty is refused.
ReadsLine ==
    /\ node = "running" /\ out > 0 /\ stdin # <<>> /\ loading = Nobody
    /\ stdin' = Tail(stdin)
    /\ LET k == Head(stdin)
       IN  \/ lines[k].name = Quit /\ Prints /\ node' = "exited" /\ UNCHANGED load
          \/ /\ lines[k].name # Quit /\ Named(k) = <<>>
             /\ Prints /\ UNCHANGED <<node, load>>
          \/ /\ lines[k].name # Quit /\ Named(k) # <<>>
             /\ loading' = k /\ want' = Len(Named(k)) /\ UNCHANGED <<node, got, out>>
    /\ UNCHANGED <<ran, fileVars, castVars, clients, handler, slice, link, inbox, page>>

\* fread: the next piece of what the file holds by now.
ReadsPiece ==
    /\ loading # Nobody /\ Len(got) < want /\ Len(got) < Len(Named(loading))
    /\ got' = Append(got, Named(loading)[Len(got) + 1])
    /\ UNCHANGED <<node, stdin, loading, want, ran, out, fileVars, castVars, clients, handler,
                   slice, link, inbox, page>>

\* read_file returns: as many bytes as ftell said are dispatched, fewer are given up.
EndsFile ==
    /\ loading # Nobody
    /\ \/ Len(got) = want /\ ran' = With(ran, loading, got)
       \/ Len(got) < want /\ Len(got) >= Len(Named(loading)) /\ UNCHANGED ran
    /\ Prints
    /\ loading' = Nobody /\ want' = 0 /\ got' = <<>>
    /\ UNCHANGED <<node, stdin, fileVars, castVars, clients, handler, slice, link, inbox, page>>
-------------------------------------------------------------------------------
\* broadcast and websocket.send

\* The event loop does nothing else while an upload is written.
Free == writing = Nobody

Put(s, m) == inbox' = [inbox EXCEPT ![s] = Append(@, m)]

\* Altered: a send is not awaited.
SendsUnawaited(s, m) == link[s] # "closed" /\ Put(s, m)

\* A send waits while the browser's buffers are full, and raises once it is gone.
Sends(s, m) == link[s] # "closed" /\ Len(inbox[s]) < Room /\ Put(s, m)
Raises(s) == link[s] = "closed" /\ UNCHANGED inbox

\* What pipe_output broadcasts.
Current == IF reader = "reading" THEN Output(log) ELSE Done

\* Altered: gather() without return_exceptions: one closed connection ends pipe_output.
CastRaises(s) ==
    /\ Free /\ s \in pending
    /\ \/ /\ Sends(s, Current)
          /\ pending' = pending \ {s} /\ UNCHANGED reader
       \/ Raises(s) /\ pending' = {} /\ reader' = "done"
    /\ UNCHANGED <<nodeVars, fileVars, log, waiter, notices, clients, handler, slice,
                   link, page>>

\* One of the sends that gather() waits for.
Cast(s) ==
    /\ Free /\ s \in pending
    /\ \/ Sends(s, Current)
       \/ Raises(s)
    /\ pending' = pending \ {s}
    /\ UNCHANGED <<nodeVars, fileVars, log, reader, waiter, notices, clients, handler,
                   slice, link, page>>

\* Every send of its last broadcast has returned or raised: pipe_output reads on.
Listens == Free /\ reader = "reading" /\ pending = {}

\* Altered: browsers that are still being sent their backlog are passed over.
ReadChunkLate ==
    /\ Listens /\ log < out
    /\ log' = log + 1
    /\ pending' = {s \in clients : handler[s] = "loop"}
    /\ UNCHANGED <<nodeVars, fileVars, reader, waiter, notices, clients, handler, slice, link,
                   inbox, page>>

\* pipe_output: a buffer is read, logged and broadcast to those connected now.
ReadChunk ==
    /\ Listens /\ log < out
    /\ log' = log + 1 /\ pending' = clients
    /\ UNCHANGED <<nodeVars, fileVars, reader, waiter, notices, clients, handler, slice, link,
                   inbox, page>>

ReadEnd ==
    /\ Listens /\ log = out /\ node = "exited"
    /\ reader' = "done" /\ pending' = clients
    /\ UNCHANGED <<nodeVars, fileVars, log, waiter, notices, clients, handler, slice,
                   link, inbox, page>>

\* spawn_p2p: p2p_node is there and create_subprocess_exec starts it ...
Spawn ==
    /\ Free /\ waiter = "spawn" /\ node = "none"
    /\ node' = "running"
    /\ UNCHANGED <<stdin, load, ran, out, fileVars, castVars, clients, handler, slice, link,
                   inbox, page>>

\* ... or it is missing or cannot be run, and p2p_proc stays None.
NoBinary ==
    /\ Free /\ waiter = "spawn" /\ node = "none"
    /\ waiter' = "missing"
    /\ UNCHANGED <<nodeVars, fileVars, log, reader, pending, notices, clients, handler, slice,
                   link, inbox, page>>

\* The await is over: p2p_proc is assigned, pipe_output begins.
Assign ==
    /\ Free /\ waiter = "spawn" /\ node # "none"
    /\ waiter' = "wait" /\ reader' = "reading"
    /\ UNCHANGED <<nodeVars, fileVars, log, pending, notices, clients, handler, slice, link,
                   inbox, page>>

\* returncode is set, wait() returns, "exited" is broadcast.
Reap ==
    /\ Free /\ node = "exited" /\ waiter = "wait"
    /\ waiter' = "told"
    /\ UNCHANGED <<nodeVars, fileVars, log, reader, pending, notices, clients, handler, slice,
                   link, inbox, page>>

Notify ==
    /\ Free /\ waiter = "told"
    /\ waiter' = "done" /\ notices' = clients
    /\ UNCHANGED <<nodeVars, fileVars, log, reader, pending, clients, handler, slice,
                   link, inbox, page>>

Notice(s) ==
    /\ Free /\ s \in notices
    /\ Sends(s, Exited) \/ Raises(s)
    /\ notices' = notices \ {s}
    /\ UNCHANGED <<nodeVars, fileVars, log, reader, pending, waiter, clients, handler,
                   slice, link, page>>
-------------------------------------------------------------------------------
\* ws_handler

\* The handshake: onopen shows "Connected" and asks for the status; the handler adds the
\* browser and takes the end of OUTPUT_LOG, without an await in between.
Join(s) ==
    /\ Free /\ link[s] = "new" /\ link' = [link EXCEPT ![s] = "open"]
    /\ handler' = [handler EXCEPT ![s] = "backlog"]
    /\ clients' = clients \cup {s}
    /\ upto' = [upto EXCEPT ![s] = log]
    /\ first' = [first EXCEPT ![s] = IF log > Backlog THEN log - Backlog + 1 ELSE 1]
    /\ next' = [next EXCEPT ![s] = first'[s]]
    /\ asked' = [asked EXCEPT ![s] = TRUE] /\ alive' = [alive EXCEPT ![s] = TRUE]
    /\ UNCHANGED <<nodeVars, fileVars, castVars, inbox, early, seen>>

SendBacklog(s) ==
    /\ Free /\ handler[s] = "backlog" /\ next[s] <= upto[s]
    /\ Sends(s, Output(next[s]))
    /\ next' = [next EXCEPT ![s] = @ + 1]
    /\ UNCHANGED <<nodeVars, fileVars, castVars, clients, handler, first, upto, link, page>>

\* The coroutine is over, and its slice of the backlog forgotten.
Returns(s) ==
    /\ handler' = [handler EXCEPT ![s] = "ended"]
    /\ first' = [first EXCEPT ![s] = 1] /\ next' = [next EXCEPT ![s] = 1]
    /\ upto' = [upto EXCEPT ![s] = 0]

\* The loop over the backlog stands outside the try whose finally discards the browser.
BacklogRaises(s) ==
    /\ Free /\ handler[s] = "backlog" /\ next[s] <= upto[s] /\ link[s] = "closed"
    /\ Returns(s)
    /\ UNCHANGED <<nodeVars, fileVars, castVars, clients, link, inbox, page>>

BacklogEnds(s) ==
    /\ Free /\ handler[s] = "backlog" /\ next[s] > upto[s]
    /\ handler' = [handler EXCEPT ![s] = "loop"]
    /\ UNCHANGED <<nodeVars, fileVars, castVars, clients, slice, link, inbox, page>>

\* p2p_proc is not None, and its returncode is None.
Assigned == waiter \in {"wait", "told", "done"}
ProcAlive == waiter = "wait"

\* Altered: a process object is taken for a running process.
StatusStale(s) ==
    /\ Free /\ handler[s] = "loop" /\ asked[s]
    /\ Sends(s, AliveIs(Assigned))
    /\ asked' = [asked EXCEPT ![s] = FALSE] /\ early' = [early EXCEPT ![s] = waiter = "spawn"]
    /\ UNCHANGED <<nodeVars, fileVars, castVars, clients, handler, slice, link, seen, alive>>

Status(s) ==
    /\ Free /\ handler[s] = "loop" /\ asked[s]
    /\ Sends(s, AliveIs(ProcAlive))
    /\ asked' = [asked EXCEPT ![s] = FALSE] /\ early' = [early EXCEPT ![s] = waiter = "spawn"]
    /\ UNCHANGED <<nodeVars, fileVars, castVars, clients, handler, slice, link, seen, alive>>

\* `async for` takes the messages in order, and those of a closed connection too.
Handles(s) == Free /\ handler[s] = "loop" /\ ~ asked[s] /\ Len(lines) < MaxLines

\* A line reaches the node if there is one; else it is dropped, or the page told of an error.
ToNode(k) ==
    stdin' = IF Assigned /\ node = "running" THEN Append(stdin, k) ELSE stdin

\* sendCommand("quit"), the only command that changes the node.
QuitCommand(s) ==
    /\ Handles(s) /\ Assigned /\ node = "running"
    /\ lines' = Append(lines, [name |-> Quit, size |-> 0])
    /\ ToNode(Len(lines) + 1)
    /\ UNCHANGED <<node, load, ran, out, file, writing, castVars, clients, handler, slice, link,
                   inbox, page>>

\* file_upload: open(path, "w") truncates the file ...
OpenUpload(s, f) ==
    /\ Handles(s)
    /\ \E n \in Sizes : lines' = Append(lines, [name |-> f, size |-> n])
    /\ writing' = Len(lines) + 1
    /\ file' = With(file, f, <<>>)
    /\ UNCHANGED <<nodeVars, castVars, clients, handler, slice, link, inbox, page>>

\* Altered: the file is not closed, so that text may be left in its buffer.
WrittenUnflushed == TRUE

\* All of the content is in the file.
Written == Len(Named(writing)) = lines[writing].size

\* ... f.write and close write it, a buffer at a time ...
WritePiece ==
    /\ writing # Nobody /\ Len(Named(writing)) < lines[writing].size
    /\ file' = [file EXCEPT ![lines[writing].name] = Append(@, writing)]
    /\ UNCHANGED <<nodeVars, lines, writing, castVars, clients, handler, slice, link, inbox,
                   page>>

\* ... then comes the line.
SubmitUpload ==
    /\ writing # Nobody /\ Written
    /\ writing' = Nobody
    /\ ToNode(writing)
    /\ UNCHANGED <<node, load, ran, out, lines, file, castVars, clients, handler, slice, link,
                   inbox, page>>

\* `async for` ends, or a send raises; the finally clause discards the browser.
Leave(s) ==
    /\ Free /\ handler[s] = "loop" /\ link[s] = "closed"
    /\ Returns(s)
    /\ clients' = clients \ {s}
    /\ UNCHANGED <<nodeVars, fileVars, castVars, link, inbox, page>>
-------------------------------------------------------------------------------
\* The browser and its connection

\* onmessage
Reads(s) ==
    /\ link[s] = "open" /\ inbox[s] # <<>>
    /\ inbox' = [inbox EXCEPT ![s] = Tail(@)]
    /\ seen' = IF IsOutput(Head(inbox[s]))
               THEN [seen EXCEPT ![s] = Append(@, Head(inbox[s]))] ELSE seen
    /\ alive' = [alive EXCEPT ![s] = CASE Head(inbox[s]) = Exited -> FALSE
                                       [] Head(inbox[s]).type = "status" -> Head(inbox[s]).alive
                                       [] OTHER -> @]
    /\ UNCHANGED <<nodeVars, fileVars, castVars, clients, handler, slice, link, asked, early>>

\* The page is gone, and with it what it showed.
Closes(s) ==
    /\ link[s] = "open" /\ link' = [link EXCEPT ![s] = "closed"]
    /\ inbox' = [inbox EXCEPT ![s] = <<>>]
    /\ seen' = [seen EXCEPT ![s] = <<>>]
    /\ asked' = [asked EXCEPT ![s] = FALSE] /\ early' = [early EXCEPT ![s] = FALSE]
    /\ alive' = [alive EXCEPT ![s] = FALSE]
    /\ UNCHANGED <<nodeVars, fileVars, castVars, clients, handler, slice>>

\* Altered: serve() is told to send no pings.
TimesOutNever(s) == FALSE /\ Closes(s)

\* A browser that has stopped reading answers no ping of the library; if that does not end
\* the connection, then its user or the network.
TimesOut(s) == s \in Fickle /\ Len(inbox[s]) = Room /\ Closes(s)

Server(s) ==
    \/ Cast(s) \/ Notice(s) \/ SendBacklog(s) \/ BacklogRaises(s) \/ BacklogEnds(s)
    \/ Status(s) \/ Leave(s)

Progress ==
    \/ Spawn \/ NoBinary \/ Assign \/ Reap \/ Notify \/ ReadChunk \/ ReadEnd
    \/ Starts \/ ReadsLine \/ ReadsPiece \/ EndsFile \/ WritePiece \/ SubmitUpload
    \/ \E s \in Sessions : Server(s) \/ (s \notin Fickle /\ Reads(s)) \/ TimesOut(s)

Next ==
    \/ Progress
    \/ \E s \in Sessions : Join(s) \/ QuitCommand(s) \/ (\E f \in Names : OpenUpload(s, f))
    \/ \E s \in Fickle : Reads(s) \/ Closes(s)

Spec == Init /\ [][Next]_vars

\* The event loop and the node run, pages that are not fickle handle their messages, and a
\* connection whose browser stopped reading is closed in the end.  None of them is promised
\* a turn before the others.
FairSpec == Spec /\ WF_vars(Progress)
-------------------------------------------------------------------------------
\* Properties

\* What was sent to a browser: what its page shows, then what is on the way.
Received(s) == seen[s] \o inbox[s]

\* The last output broadcast to a browser that is connected.
CastTo(s) == IF reader = "reading" /\ s \in pending THEN log - 1 ELSE log

\* A page gets what ws_handler has sent of the backlog and everything broadcast since its
\* session began, and nothing else, although a broadcast may be under way when the browser
\* is added to connected_clients (server.py 78-79, 85-88).
NothingLost(s) ==
    \A n \in 1 .. log :
        (\E i \in DOMAIN Received(s) : Received(s)[i] = Output(n))
            <=> n \in first[s] .. next[s] - 1 \/ n \in upto[s] + 1 .. CastTo(s)

\* Either of the two comes in order, and so without repetition; live output may overtake
\* the backlog.
InOrder(s) ==
    \A i, j \in DOMAIN Received(s) :
        LET a == Received(s)[i]
            b == Received(s)[j]
        IN  (/\ i < j /\ IsOutput(a) /\ IsOutput(b)
             /\ (a.n <= upto[s]) = (b.n <= upto[s])) => a.n < b.n

\* What a page shows is the node's output from its session's begin, each buffer once and
\* before any later one of its kind (backlog or live), however pipe_output's broadcasts,
\* the backlogs and the sessions' ends interleave (server.py 71-80, 84-88).
Transcript == \A s \in Sessions : link[s] = "open" => NothingLost(s) /\ InOrder(s)

\* A page whose messages are all handled shows whether the node runs: no status answer
\* computed before the node ended overwrites the "exited" that was broadcast, and a session
\* begun too late for the broadcast asks late enough (server.py 124-126, 155-157).  Only a
\* page that was answered before p2p_proc was assigned (server.py 146, 169) is told nothing
\* more: it shows the node as stopped, for good.
PageStatus ==
    \A s \in Sessions :
        (/\ handler[s] = "loop" /\ link[s] = "open" /\ inbox[s] = <<>> /\ ~ asked[s]
         /\ waiter # "told" /\ s \notin notices) =>
            alive[s] = (ProcAlive /\ ~ early[s])

\* What the node compiles for an upload is all of what that browser sent, unless a later
\* upload has the same name: then what read_file gets between two writes may be cut short or
\* put together of both.  file_upload writes before it submits, so that nothing older ever
\* runs, nor a part of it (server.py 113-118, main.c 92-101).
Later(u) == {v \in u + 1 .. Len(lines) : lines[v].name = lines[u].name}
IsFresh(u, content) ==
    /\ \A i \in DOMAIN content : content[i] \in {u} \cup Later(u)
    /\ Later(u) = {} => Len(content) = lines[u].size
Fresh == \A u \in DOMAIN ran : IsFresh(u, ran[u])

\* All output comes to every page that goes on reading, whichever other browsers stop
\* reading or close their connections while a broadcast waits for them (server.py 66-67).
CaughtUp(s) == \A n \in upto[s] + 1 .. out : Output(n) \in ToSet(seen[s])
Delivered == []<>(\A s \in clients \ Fickle : CaughtUp(s))

\* The node takes every line written to it or ends: a browser that stops reading holds up
\* the broadcast, that the pipe, and that the node, but only until the connection is
\* given up (server.py 66-67, 74-79).
Taken == []<>(stdin = <<>> \/ node = "exited")
===============================================================================
