# A TLA+ model of the P2P task runner

This directory specifies, model-checks and proves properties of the program in
`src/New_socket_proj`: nodes on a LAN that discover each other by UDP broadcast, and
each of which can send a C source file to the least loaded node, which compiles and
runs it and streams the output back over TCP. Everything below refers to files of that
directory.

## The system

| Component | Source | State | Operations |
|---|---|---|---|
| Worker | `worker.c` | listening socket; per connection a detached thread, a pipe, a child process; `/tmp/p2p_<pid>.c`, `/tmp/p2p_<pid>_bin` | `accept_loop`, `handle_connection`, `compile_and_stream`, `stream_and_wait` |
| Task counters | `load_monitor.c` | `g_active_tasks`, `g_total_tasks` | `load_task_start`, `load_task_done`, `load_get_percentage`, `load_score_local` |
| Dispatcher | `dispatcher.c` | none between calls; `best_score`, `best_ip`, `best_port`, target | `dispatch`, `query_peer_load`, `send_task_file`, `receive_output` |
| Peer table | `peer_list.c` | `g_peers` under a mutex | add, remove, touch, update_load, reap_stale, snapshot |
| Discovery | `discovery.c` | three threads | announcer (HELLO), listener, reaper; `discovery_send_bye` |
| Load responder | `main.c` | a second socket on the UDP port of discovery | answers LOAD_REQ |
| REPL and lifecycle | `main.c` | `g_running` | `submit`, `peers`, `quit`; start-up and shutdown order |
| Wire format and sockets | `net_utils.c`, `common.h` | none | `send_all`, `recv_all`, `send_msg`, `recv_msg`, `tcp_connect` |
| Web bridge | `web/server.py` | a node process, a backlog, a set of browsers, uploaded files | `pipe_output` and `spawn_p2p` broadcast the node's output and exit, `ws_handler` serves one browser |
| Web page | `web/app.js` and others | the terminal, a status, a map of peers built from text output | sends commands, uploads and status requests; display |

**How they interact.** The REPL's thread calls `dispatch()`, which copies the peer
table, asks each peer's load responder by UDP, connects to the chosen node's worker by
TCP and reads its stream until MSG_TASK_DONE or the end of the connection. The
listener, the reaper and `query_peer_load` all write the peer table. Handler threads of
one worker share the task counters with the accept loop and the load responder, the two
files in `/tmp`, and, because nothing is opened close-on-exec, every descriptor that is
open when any of them forks. The web bridge is a second user of the REPL: one event loop
that reads the node's output from a pipe, writes lines to its standard input and serves
any number of browsers, some of them before the node is started.

**What is hard.** Handlers overlap each other and the accept loop (capacity, files,
descriptors, `waitpid(-1)` after a failed fork). `compile_and_stream` has several early
returns, each of which has to undo what was done. Discovery uses unacknowledged
broadcasts that are lost, duplicated and overtaken by others, a reaper that reads the
time before it has the lock, and an announcer that outlives the BYE. The dispatcher
chooses by answers that may not come, reads a port that may be uninitialised, and must
not run a task twice when a call fails. SIGINT only sets a flag, and a process that ends
leaves children behind that hold its sockets. In the bridge a broadcast waits for the
slowest browser, the coroutines interleave at every `await`, and the node reads an
uploaded file while another may be written over it. The `hazards` of `PROJECT.json` list these
places, each with the properties that would notice it going wrong.

**What makes each part correct.**

- Worker: the task count equals the tasks under way, every slot is given back, every
  child is reaped, a client that waits gets a verdict or the end of the connection, a
  task that overlaps no other is run as submitted, no file is left behind.
- Task stream: compiler output, program output, at most one verdict, then nothing.
- Peer table with discovery: an address once, never one's own; the departed forgotten in
  bounded time; a node that keeps announcing itself is present and is not displaced.
- Wire: messages are received whole, in the order they were sent, however the bytes are
  cut up; the close or reset of a connection is noticed, and only after what was sent
  before it; no task within the REPL's limits is refused.
- Dispatcher: the least loaded node that answered or itself, at a port that was
  announced; each task sent at most once; the worker's verdict returned; always returns.
- Node: the user gets the result of the submitted program; the REPL comes back and stops
  when told to; other clients' connections end even if the node does.
- Web bridge: a page shows all output once and, unless it asked before the node was
  started, the true status; an upload never runs something older, nor only a part of
  itself unless a later one has its name; one browser does not stop the others.

## Modules

| Module | What it is |
|---|---|
| `TaskSession` | abstract: what one connection carries, as `receive_output` relies on it |
| `Worker` | one node's task server, with its children, clients and temporary files |
| `Directory` | one node's peer table, with its discovery threads, the other nodes and the network |
| `Dispatcher` | `dispatch()` called for one task after another, against peers and a worker that keeps `TaskSession` |
| `Channel` | abstract: what one direction of a connection delivers of the messages sent |
| `Wire` | `send_msg` and `recv_msg` over a stream of bytes that `send()` and `recv()` cut anywhere |
| `Node` | one process: REPL, signals, start and end; `Worker` and `Dispatcher` joined at the connections of the node's own tasks |
| `WebBridge` | `web/server.py` with the browsers it serves and the node it runs |
| `MCWorker`, `MCDirectory`, `MCDispatcher`, `MCNode`, `MCWebBridge` | model values, LANs and load reports of the checked instances |
| `WorkerProofs`, `DirectoryProofs`, `DispatcherProofs`, `WireProofs`, `WebBridgeProofs` | theorems about the module of that name and their proofs |
| `WorkerFilesProofs` | theorems about the worker's shared files and a task that runs alone |
| `NodeProofs` | theorems about `Node`, which instantiate those about `Worker` and `Dispatcher` |

`Worker` implements `TaskSession` (checked as the property `SessionSpec`, proved as the
theorem `Refinement`) and `Dispatcher` instantiates the same `TaskSession` for the
other end of its connection, so that what the dispatcher assumes of a worker is what
the worker is shown to do. `Wire` implements `Channel` (property `ChannelSpec`, theorem
`Refinement` of `WireProofs`). `Node` takes `Worker` and `Dispatcher` as they are (INSTANCE)
and the joint system still is a `Dispatcher!Spec` (property `Implements`, theorem
`NodeImplements`). That messages arrive whole and in order is what `Worker` and
`Dispatcher` build on.

Definitions whose comment begins with "Altered:" are not part of any specification: each is the
definition after it with a plausible mistake, and some property fails when it is put in
the other's place.

### Worker

`pc[c]` is the program counter of the thread that handles connection `c`; before it is
admitted, `pc[c]` is the connection's place in the listen queue and the accept loop. One
action is one system call or atomic operation whose effect others can see. `stage[c]`
tells the two passes through the pipe/fork/read/wait code, compiling and running, apart;
both are the same actions.

| State | Code |
|---|---|
| `loop` | where `accept_loop` stands: `accept()`, the capacity check, ended |
| `active`, `total` | `g_active_tasks`, `g_total_tasks` |
| `src`, `writers`, `bin` | what the two path names in `/tmp` stand for, and whose open FILE is the one `src` names |
| `child[c]`, `buf[c]` | the child process with the descriptors it inherited, and the pipe |
| `code[c]` | `compile_exit`, `run_exit` |
| `orphan[c]` | what the compiler had started and a kill of it did not reach |
| `client`, `sent` | the other end, and what reached it |
| `alone` | history: no other task, nor an orphan of one, used the files meanwhile |

The content of a file is the connection whose source (or program) it is, or absent,
empty or a mixture. A process carries the pipe ends and sockets that the server had open
when it was forked; `read()` reports end of file, and a client the close, only when no
process holds the other end.

Choices made outside `src/`: gcc reads its input in one step and replaces the binary in
one step at its end (failing in the linker it may remove it); the linker of a killed gcc
may go on and write the binary at any time later, beside another task too
(`OrphanEnds`); a program prints up to `MaxChunks` buffers, exits 0 or 1 and halts; a
client that leaves closes or resets its connection. Abstracted: the listen queue is unordered and unbounded, EINTR is
retried at once, the pipe holds one buffer, every connection carries one task because
`handle_connection` reads one message.

`Faults` names the system calls that may fail. `"pipe"` is the first `pipe()` of a task, whose
failure skips the compilation. The second is not checked (worker.c 120): after a failure
the handler closes and reads uninitialised descriptors, which may be any of the process,
other clients' sockets included. Nothing could be said of any connection then, so the
model assumes that this call succeeds, and every statement about the worker is made under
this assumption.

### Directory

The node `Self` and its table against all nodes. Ages (ticks since) stand for time
stamps, `net` is the set of datagrams on their way to `Self`: receiving one may leave it
there (duplicated), it may be removed (lost), and any may be next (reordered). Each call
of `peer_list.c` holds its mutex throughout and is one action; what happens between two calls
(`peer_list_add` and `peer_list_touch` in the listener, `time()` and the lock in the
reaper, `dispatch()`'s copy of the table, a load query and its reply) is an interleaving
point with its own state (`listener`, `reaper`, `snapshot`, `query`). `Leave` is BYE, `Exit` the end of `main()` or
a crash; between the two the announcer still runs. `timer` is the announcer's sleep.
`Tick` lets time pass unless a thread or datagram is due: no datagram takes more than
`MaxDelay`, no thread is kept longer than `Lag`. These two bounds are assumptions about
the network and the scheduler, and `Forgotten` and `Known` are stated in terms of them.
A load query ends within `MaxDelay`, which stands for its 500 ms timeout.
A node's TCP port is written as the node itself, so that an entry tells which process it
stands for. `Self` does not restart (its table would be empty).

### Dispatcher

`step` is where `dispatch()` stands; `left`, `best` and `target` its local variables;
`told` and `sentTo` are history: the reports it got, and to whom each task was sent, one
entry per send. The score is computed as
`load_score_local` does it, in integers: `load1` in hundredths of a task, per core in percent, at
most 100, plus 10 per active task. 1e9 (a peer that does not answer) and 1e10 (the score
to beat) are the constants `NoAnswer` and `Worst`, of which only the order and that no
real score reaches `NoAnswer` matters (`DispatcherAssumption`). The port of a peer that does not answer
is any port or garbage, since `query_peer_load` leaves it uninitialised. The worker
delivers at most `MaxOut` output messages and stops when `dispatch()` has returned and
closed the socket.

### Wire

One direction of one connection. A byte is written as the message it belongs to and its
place in it; only the lengths carried by header and payload have values. `part` and `at`
tell what `send_all` is sending and how far it is, `line` the bytes in the socket
buffers, `stage` and `got` what `recv_all` is filling, `delivered` what `recv_msg` has
returned. `Transmit` and `Receive` move any number of bytes, as `send()` and `recv()` do.
`Hangup` is `close()`, or the end of the sending process in the middle of a message: what
is in the buffers still arrives. `Break` is a connection that is lost with what was under
way from any byte on: the receiver is told by a reset, or falls into a wait without end
(`"silent"`), because no socket has keepalives or a time-out; a reset may still come later. A header whose length bytes did not all come from one message stands for any
length, so a receiver that loses its place would be noticed.

The limits of `common.h` and the ranges of `uint16_t` and `uint32_t` are constants, related as
`WireAssumption` states (the real ones are). The header has its real 8 bytes. Left out: `malloc`
failing in `recv_msg`, and a receiver that closes while the sender still writes, other
than as a broken connection. UDP messages are datagrams and belong to `Directory` and
`Dispatcher`.

### Node

`repl` is where `main()` stands (the pause after start-up, `fgets`, inside `dispatch()`, BYE, ended),
`running` is `g_running`; the other variables are those of `Worker` and `Dispatcher`. A
connection in `Own` carries a task of this node's user: `dispatch()` at one end, a handler of
the same process at the other. `Dispatcher`'s `stream` and `closed` are what the worker
sent and whether it has closed; the peer table is empty, so every task goes to the node
itself (choice and fallback are `Dispatcher`'s own runs). Other connections belong to
other nodes.

| Action | Code |
|---|---|
| `Settled`, `OtherLine`, `QuitLine`, `SubmitLine` | `sleep(2)`, one iteration of `run_repl` each; end of input is `QuitLine` |
| `Choose` ... `ReadEnd` | the steps of `dispatch()`, each with what it does to the node's own worker |
| `Sigint` | `on_sigint`: nothing but the flag, because `signal()` restarts `fgets` and `recv` |
| `Exit`, `Terminate` | the end of `main()`; SIGTERM, which the web bridge sends |
| `Handler`, `AcceptLoop`, `ChildEnds` | `Worker`'s, threads only while the process lives, children also after it |

When the process ends (`Dies`) its threads stop at any step; its children go on, and with
them every socket they inherited, the listening one included, so other nodes can still
connect to a queue nobody serves (`Listening`). SIGINT is taken to reach the process alone,
not, as from a terminal, its whole group. An orphan's writes are not modelled; instead two or more
orphans may block each other for ever (`OrphansBlock`: SIGPIPE is ignored in all of them
and each may hold the read end of another's pipe), which is more than the code can do.

### WebBridge

One event loop: a coroutine gives way only at an `await`, so each action is what runs
between two of them. An upload's file is written without an `await`, in several steps only
the node can see (`writing`; nothing else of the server moves meanwhile).

| State | Code |
|---|---|
| `node`, `stdin`, `out` | the child process, the lines in its standard input, the buffers it printed (numbered; the pipe holds `PipeRoom`) |
| `loading`, `want`, `got` | `read_file`: for which line, the size `ftell` gave, what `fread` has so far |
| `log`, `reader`, `pending` | `OUTPUT_LOG`, `pipe_output` and the sends its `gather()` still waits for |
| `waiter`, `notices` | `spawn_p2p`: starting the node, returned without one, waiting, `returncode` set, "exited" being broadcast |
| `clients`, `handler[s]` | `connected_clients`, `ws_handler` |
| `first[s]`, `next[s]`, `upto[s]` | its slice `OUTPUT_LOG[-200:]`, and how far it is |
| `link[s]`, `inbox[s]` | the connection and the messages in its buffers, at most `Room` before a send waits |
| `asked[s]`, `seen[s]`, `alive[s]` | the page: its status request, its terminal, its status |
| `early[s]` | history: the status request was answered before `p2p_proc` was assigned |
| `file`, `lines`, `ran` | the uploaded files; history of the lines, and of what the node read and dispatched for each |

**Start-up.** The server listens (server.py 169) before `spawn_p2p` runs, and `p2p_proc` is
`None` until `create_subprocess_exec` has returned (146), or for good when there is no
binary. `Spawn` is the start of the process, `Assign` the end of the await, `NoBinary` the
early return. Browsers may connect, ask and upload at any of these times; an upload that
comes before the assignment is saved and not submitted. A page whose status request is answered
before it is told that the node does not run, and nothing corrects that: `app.js` asks only
when it connects. `PageStatus` therefore excepts these pages (`early`), and says of them
that they show the node as stopped.

**Uploads.** The content of a file is a sequence of pieces, each written as the upload it
belongs to. `OpenUpload` truncates, `WritePiece` is a buffer that reaches the file,
`SubmitUpload` writes the line once all is there (`Written`). `ReadsLine` takes the size,
`ReadsPiece` what the file holds by then, `EndsFile` compares. With two uploads of one name
the node may thus compile a cut or a mixed file; `Fresh` says that this takes a later upload of the
name, that every piece is of the upload itself or of such a later one, and that an upload
without one is compiled whole.

A page that reconnects is a new session. Left out: commands other than `quit`, which only
print; the message that tells a page of a failed write; the text of the output; orphans
of the node that keep the pipe open. A send puts its message into the buffers and then
waits for room, in the model it waits first: when buffers are full the order of two
messages is left open.

## Runs

| Run | What it asks | Instance |
|---|---|---|
| `worker_safety` | counters, files, children and results in every interleaving | 2 connections, capacity 2, one task that does not compile, one client that may leave, accept/pthread_create/fopen may each fail at any time |
| `worker_faults` | counters, files, children and `TaskSession` when system calls fail | 2 connections, capacity 1, accept/pthread_create/fopen/the first pipe()/fork may each fail at any time |
| `worker_live` | every client answered, every slot given back | 2 connections, capacity 1, a task that prints and whose client may leave, one that does not compile, fopen/fork may fail |
| `directory` | the table against one peer that starts, leaves and crashes at will | 2 slots, timers and delays of 1 and 2 ticks, load queries from a copy of the table |
| `directory_full` | a full table | 2 peers, 1 slot, no delays or lags |
| `dispatch` | choice, port, at-most-once, verdict, return | 2 peers, 2 tasks in a row, 3 load reports, 2 exit codes, 2 output messages |
| `wire` | framing, limits, arrival, close and reset of the connection | 2 messages, files up to 2 bytes, names up to 2, output up to 3, 9 bytes of buffer |
| `node` | results, return and shutdown of a whole node | 1 own task that prints, 1 of another node that does not compile, capacity 1, SIGINT and SIGTERM at any time |
| `bridge` | transcripts, status, uploads, a browser that stops reading | 2 browsers of which one may stop or leave, 2 lines of upload (of 0 or 2 pieces) or quit, up to 3 buffers of output, backlog of 1, room of 1, either may connect before the node is started |
| `worker_capacity`, `node_sequence`, `directory_same_host` | statements of the README that the code does not keep | see Findings |

**Why the bounds are enough.** Two connections suffice for each effect one handler has
on another that the properties speak of: the check before the increment, a stolen exit
status, an inherited descriptor, a shared file, a slot taken. The handler has no loop
but that over output. In `directory` the scaled timers keep the order of the real ones
(announcement every 5 s, reaper every 15 s, timeout 30 s): with timeout 2, reaper 1, announcement 1, delay 1 and lag 1 a peer can lose several HELLOs,
be overtaken by its own BYE and restart within one timeout. `since` is capped one tick above
the bounds that the properties compare it with. One peer is
enough for what concerns one address; two and one slot for the full table. In
`dispatch` two peers give every order of answers and silence and a tie, two tasks what
one call leaves for the next; the three reports differ in the order of their scores and
one is capped. In
`worker_live` a failing `pipe()` is left to `worker_faults`: together they are too large. In
`node` one own and one other task are what can meet in a node whose user waits for one
task at a time; what several tasks in a row do is `node_sequence`. In `bridge` three
buffers of output and a backlog of one make the backlog begin after the first, a
broadcast happen before, while and after a session begins, and the node wait for the pipe;
two lines are two uploads of one name, or a quit before or after one; two pieces are the
least that can be cut or mixed, none is an empty file. In `wire` the buffer holds a header and one byte
of what follows: a message is cut at every place, and bytes of two messages lie in the
buffer together; the limits are the least at which the largest task and one that is shorter
exist.

**Fairness.** `Worker!FairSpec`: one weak fairness for all, some thread or process runs while
any can (without `accept()` failing); as each run of the system is finite, no one of
them needs a promise of its own. They are threads and processes that the
kernel schedules; that children end is the assumption that submitted programs and gcc
halt. Without it the worker really does keep the slot of a program that neither prints
nor halts. Clients read what they are sent, so `send()` does not block for good, and one
that goes away closes or resets its connection: the handler of one that falls silent
before its task is complete waits in `recv()` for ever. Faults
of accept and pthread_create are left out of the liveness runs, because a client in
the queue of a dead accept loop does wait for ever (see `hazards`). `Dispatcher!FairSpec`: weak fairness of
the REPL's thread, of a read that has something to read, of the failing read
at the end of a closed connection, and of the worker closing at last, which is what
`Answered` checks of the Worker. `Wire!FairSpec`: weak fairness of `recv()` when there is
something to read or the kernel knows that the connection was closed or reset (`Told`), since the receiver's thread waits for
nothing else; on a silent connection nothing is promised, and the sender owes nothing. `Node!FairSpec`: one weak fairness for the REPL inside a
command, the accept loop, handlers and children, and for the user's next line once the node
was told to stop (a user may leave the prompt alone otherwise, and then SIGINT indeed
has no effect). `WebBridge!FairSpec`: one weak fairness for the event loop, the node and the pages that
read, and for the end of a connection whose browser does not: that is an assumption about
the browser's user, the network and the library's keepalive, which `server.py` leaves at
its default; without it `Taken` fails. `Directory` has no fairness: its properties bound
time instead.

## Findings

- `worker_capacity`: `accept_loop` compares `g_active_tasks` before the handlers it started have
  incremented it, so the limit that the README says it enforces ("Enforces
  `MAX_CONCURRENT_TASKS` and spawns each connection handler in a detached thread") can be
  exceeded.
- `node_sequence`: the temporary files are named after the process id, the same for every
  task, and a handler unlinks them after it has sent MSG_TASK_DONE. The user's next
  `submit` may write its source meanwhile and lose it, even with no other client.
  Overlapping tasks of different clients share the names all the more and receive each
  other's output.
- `directory_same_host`: nodes on one machine ignore each other's broadcasts as their
  own, unlike the README's example with ports 7777 and 7778.

Seen while reading, with no run: the README's formula for the score (load1 plus half the active
tasks) is not the one of `load_score_local`, and its `run` command does not exist in
`run_repl`.

## Proofs

All hold for any value of the constants that the modules' assumptions allow. A theorem that
needs more than its module's assumption says so in its statement:

| Theorem | Condition | Why the code meets it |
|---|---|---|
| `NeverOwnPeer`, `SteadyKnown` | `LocalIp = Ip[Self]` | true where `get_local_ip` finds the address others see; otherwise the listener takes the node's own HELLO for a peer's |
| `SteadyKnown`, `KnownStays` | `HelloInterval + MaxDelay <= PeerTimeout` | 5 s and 30 s: a HELLO may take 25 s |
| `AloneFaithful` | neither `"pipe"` nor `"fork"` in `Faults` | a real limit: the code checks neither call fully, and a failure loses the output or makes a garbage status the verdict; accept, pthread_create and fopen may fail |

The other theorems about `Worker` hold whichever of accept, pthread_create, fopen, the
first `pipe()` of a task and fork fail. None says anything of a second `pipe()` that
fails, `Refinement` in particular: see Worker above.

**Worker.** `TypeCorrect`: `TypeOK` is not inductive alone, because a forwarded buffer is
labelled with its author and must have one; `BufferOwned` (a buffer with data has a child
that has read its file) closes it. `CounterExact`: `ActiveExact` is inductive given
types; each action either leaves the set of counted handlers alone or adds or removes one
element. `NoOrphans`: from `ChildAwaited`, a child that lives or is a zombie has its handler at one of
the steps up to the wait. `Refinement`: with `StreamInv` (before "unlinksrc" no verdict
has been delivered; in the compile stage nothing of the program), each action of a
handler is a step of `TaskSession` or leaves its variables unchanged.

**Worker's files.** `NothingLeft`: the two paths are owned rather than merely present.
`SourceHeld`: the source is there only while some handler that will unlink it is at work, and
an open FILE belongs to a handler in its write step; `BinaryOwed`: likewise the binary, or it is
that of a compilation that outlived its kill (`Outlived`), which no handler unlinks. Every handler that ends passes the
unlinking steps, whichever branch it took. A handler whose fork failed may take the exit status of
another's compiler, and with it what that owed: it sees a success and goes on to the
program and its unlinking (`OwesTaken`), which is why the theorem needs no condition on `Faults`.
`AloneFaithful`: `TaskInv` follows one task that no other overlaps through its steps: the source holds that task's text from `fclose` on, so gcc's
image and the binary are its own, the status is that of its own child, and what is under way
in the pipe was written by it (`Truthful`, `ToldTruth`). What an earlier task left behind does not matter: the first step
of an undisturbed task truncates the source, and gcc replaces the binary or fails.

**Directory.** `TypeCorrect`, by one step per action. `AddressUnique`: `UniqueIp` is
inductive because the free slot an address takes is the first one. `NeverOwnPeer`: every
entry keeps the port and address of a node that is not at `LocalIp`. `GhostsForgotten`:
two facts together bound the time a departed node stays. `FromRecent`: whatever names an
address (a datagram, the listener, an answered query, an entry) is no older than the
end of some node there plus the delays it has had so far. `ReapInv`: no entry is older
than the timeout, the reaper's period and the time its steps may take. Added up they give
`MaxDelay + PeerTimeout + ReapInterval + 4 Lag`.
`KnownStays` and `SteadyKnown` are the other direction. For a node that has lost no HELLO, what
is left of the announcer's sleep and the delay of the datagram under way bound the age
of its entry (`Kept`), so that the reaper, which uses a time taken earlier, never finds it
old; a BYE of its previous run is at least as old as its restart (`OldByes`) and so is gone
before the node counts as steady (`Starting`). That a full table does not turn it away is a pigeonhole argument over the addresses
other than the node's own, by the lemmas on finite sets of the library.

**Dispatcher.** `RouteInv` joins what is known of the best peer so far: a score below `NoAnswer` comes from
a peer in `told`, with that peer's own port, and is least among them (`BestKnown`,
`BestLeast`). A silent peer may take the lead with an unknown port, but with a score that
loses to the node's own, whence `PortAlwaysKnown` and `LeastAlwaysChosen`. `SentOnce`
(a task was sent at most once, and a pending one not before the receiving step) gives `SentAtMostOnce`.
`TypeCorrect` needs both, since the types of `best` and `target` depend on who is known.
`VerdictReturned`: a verdict is the last of a stream (`DoneIsLast`) and what was shown is the
output among the messages read (`ShowsRead`); the message that ends `receive_output` is thus the
last one, and everything before it was printed.

**Wire.** `StreamInv` says where the bytes are: what `recv_msg` has is the beginning of
the message after the last delivered (`GotInv`), the first byte of the stream continues it
(`FrontInv`), the bytes of a message follow one another and its last is followed by the
next one's first (`LineInv`), up to the byte that `send()` would take next while the
connection is open. The stream is described between any two places, not only neighbouring
ones, because one `recv()` takes many bytes and an induction over them is out of the prover's
reach. From it `TypeCorrect`, `TasksAccepted` (with `MessageFits`: no
length field wraps and the limits agree at their boundaries, for all of their values) and `Refinement`: receiving
the last byte of a message is `Deliver`, a failing `recv()` is `GiveUp`, all else stutters.

**Web bridge.** Every safety property is proved. `UploadInv` has three parts. `FilesInv`: a
file holds only pieces of the last upload of its name, all of them unless it is being
written. `LinesInv`: a line that the node has not dealt with has a file that is not being
written for it, and the upload being written belongs to the last line; without it a read
could find no file, so `TypeCorrect` needs it as well. `PartInv`: what `fread` has got so far are
pieces of the upload or of later ones of its name, and the size taken is the upload's
own unless there is a later one. From these `NeverOlder`: a read that comes to the size taken
is fit to be compiled, whatever was written between its steps. `SessionInv`: a session that has not begun is known to no
coroutine, one that goes on is a client, its backlog was broadcast before it began, and
nothing is broadcast before `p2p_proc` is assigned. On
this rest the other two. `StatusInv`: before the server has seen the node's end nothing in a
browser's buffers says so, but an answer given before the assignment; after that answer,
after the broadcast of the end has been put there, or the status answered later than it,
no message behind says otherwise (`StatusTrue`). `TranscriptInv` says of
what a page was sent which numbers it holds and in which order (`Holds`); one lemma for each
way it grows or is read shows that `Holds` is kept (`OutputComplete`).

**Node.** `Node`'s variables are those of `Worker` and `Dispatcher`, and so are its theorems: `WP`
and `DP` instantiate the proof modules of both. The one difference is who closes a connection:
`dispatch()` closing its socket is, to the worker, a client that leaves, so `WP` counts the
node's own tasks among `Leavers`. Steps of handlers, children and the accept loop are steps of `WP`
(`WorkerStep`), until the process ends: then `Healthy` no longer holds (threads
stop anywhere), but `Recorded` does, because a process left behind belongs to a task without a
verdict. `Link` ties the three threads together: the only connection of the node's own that
is in use is the one `dispatch()` waits for, and its handler is past its first read only if the task
was sent. `NodeImplements` takes the worker's actions one by one: seen through `View` (the
messages without the history `by`) a forwarded buffer is `Serve`, the end of a connection
`HangUp`, everything else stutters. The bound `MaxOut` of `Dispatcher` is not free: that a handler
sends at most `2 MaxChunks` buffers is a counting invariant of its own (`Measured`). With
the refinement, `Dispatcher`'s theorems hold in the node: `NodeTyped` combines its types with the
worker's, and `OwnTasksFaithful` joins `ReturnsVerdict` at one end of the connection to
`AloneIsFaithful` at the other.

**Only model-checked.** Liveness (`Answered`, `SlotsReturned`, `Arrives`, `ReceiverReturns`, `RemoteEnds`,
`Delivered`, `Taken`, and `Returns` of `Dispatcher` and of `Node`), which the prover does not
handle under fairness. Every other property of the passing runs is a theorem.

## Not modelled, and the plan

Every component that keeps state is modelled, and the safety properties the runs check are
proved. What is left, in this order:

1. `Node` with failing system calls: it instantiates `Worker` without them.
2. A second `pipe()` that fails, once the code checks it.
3. Several dispatchers and workers with their load reports at once: a peer that reports
   itself idle may be chosen by all of them. Nothing in the code limits this but the
   capacity check, whose race is `worker_capacity`.

Left out for good: text output and its parsing in the page (`web/app.js`: peers, exit
codes), decoding of output cut in the middle of a character, the static HTTP server, the
sample programs, the address selection of `get_local_ip`, options, and the load figures
that are only displayed.
