--------------------------------- MODULE Wire ---------------------------------
(***************************************************************************)
(* One direction of a TCP connection between two nodes: send_msg and       *)
(* recv_msg of net_utils.c, with send_all and recv_all below them, and the *)
(* layout of MSG_TASK_FILE that send_task_file (dispatcher.c) writes and   *)
(* handle_connection (worker.c) reads.                                     *)
(*                                                                         *)
(* send() and recv() move any number of bytes.  A byte is written as the   *)
(* message it belongs to and its place in it; only the lengths that the    *)
(* header and the payload carry have a value.                              *)
(***************************************************************************)
EXTENDS Integers, Sequences

CONSTANTS
    MAX_FILE_SIZE, MAX_FILENAME_LEN, OUTPUT_BUF_SIZE,
    MaxU16, MaxU32, \* the largest uint16_t and uint32_t
    MaxMsgs,        \* bound: messages sent
    LineCap         \* bound: bytes the socket buffers hold

ASSUME WireAssumption ==
    /\ MAX_FILE_SIZE \in Nat \ {0} /\ MAX_FILENAME_LEN \in Nat \ {0, 1}
    /\ OUTPUT_BUF_SIZE \in Nat \ {0} /\ MaxU16 \in Nat /\ MaxU32 \in Nat
    /\ MAX_FILENAME_LEN <= MaxU16
    /\ MAX_FILE_SIZE + MAX_FILENAME_LEN + 8 <= MaxU32
    /\ OUTPUT_BUF_SIZE <= MAX_FILE_SIZE + MAX_FILENAME_LEN + 8
    /\ MaxMsgs \in Nat /\ LineCap \in Nat \ {0}

HeaderLen == 8  \* sizeof(msg_header_t)

\* Altered: the two length fields of the payload are forgotten.
PayloadLimitTight == MAX_FILE_SIZE + MAX_FILENAME_LEN

\* The largest payload recv_msg takes.
PayloadLimit == MAX_FILE_SIZE + MAX_FILENAME_LEN + 8

\* MSG_TASK_FILE: the lengths of name and file in 2 and 4 bytes, each before its text.
U16(n) == n % (MaxU16 + 1)
U32(n) == n % (MaxU32 + 1)
TaskFile(fn, size) ==
    [type |-> "TASK_FILE", fn |-> U16(fn), size |-> size, len |-> U32(2 + U16(fn) + 4 + size)]
Plain(type, len) == [type |-> type, fn |-> 0, size |-> 0, len |-> len]

\* What the REPL lets through, and what a worker sends.
Names == 1 .. MAX_FILENAME_LEN - 1
Sizes == 1 .. MAX_FILE_SIZE
Messages ==
    {TaskFile(fn, size) : fn \in Names, size \in Sizes}
    \cup {Plain("OUTPUT", len) : len \in 1 .. OUTPUT_BUF_SIZE}
    \cup {Plain("TASK_DONE", 4)}

VARIABLES
    offered,   \* the messages send_msg was called with
    part,      \* what send_all is sending of the last one
    at,        \* how many of its bytes are gone
    line,      \* the bytes under way
    link,      \* open; closed by the sender, or by its end; reset; silent: half-open
    stage,     \* what recv_all is receiving, or how recv_msg failed
    got,       \* the bytes recv_msg has of a message
    delivered  \* the messages it has returned, byte by byte

sender == <<offered, part, at>>
receiver == <<stage, got, delivered>>
vars == <<sender, line, link, receiver>>

Byte == [msg : 1 .. MaxMsgs, at : Nat \ {0}]
Broken == {"reset", "silent"}

TypeOK ==
    /\ offered \in Seq(Messages) /\ Len(offered) <= MaxMsgs
    /\ part \in {"idle", "header", "payload", "failed"}
    /\ at \in Nat
    /\ line \in Seq(Byte) /\ Len(line) <= LineCap
    /\ link \in {"open", "closed"} \cup Broken
    /\ stage \in {"header", "payload", "failed", "refused"}
    /\ got \in Seq(Byte)
    /\ Len(got) < HeaderLen + IF stage = "payload" THEN PayloadLimit ELSE 0
    /\ delivered \in Seq(Seq(Byte))

Init ==
    /\ offered = <<>> /\ part = "idle" /\ at = 0
    /\ line = <<>> /\ link = "open"
    /\ stage = "header" /\ got = <<>> /\ delivered = <<>>
-------------------------------------------------------------------------------
\* The sender

BytesOf(n, m) == [i \in 1 .. HeaderLen + m.len |-> [msg |-> n, at |-> i]]
Bytes(n) == BytesOf(n, offered[n])

SendMsg(m) ==
    /\ part = "idle" /\ link = "open" /\ Len(offered) < MaxMsgs
    /\ offered' = Append(offered, m)
    /\ part' = "header" /\ at' = 0
    /\ UNCHANGED <<line, link, receiver>>

Last == offered[Len(offered)]
PartEnd == HeaderLen + IF part = "payload" THEN Last.len ELSE 0
AfterPart == IF part = "header" /\ Last.len > 0 THEN "payload" ELSE "idle"

\* Altered: what one send() did not take is not sent.
TransmitOnce ==
    /\ part \in {"header", "payload"} /\ link = "open"
    /\ \E k \in 1 .. PartEnd - at :
          /\ Len(line) + k <= LineCap
          /\ line' = line \o SubSeq(Bytes(Len(offered)), at + 1, at + k)
    /\ at' = PartEnd
    /\ part' = AfterPart
    /\ UNCHANGED <<offered, link, receiver>>

\* send_all: send() takes some of the bytes.
Transmit ==
    /\ part \in {"header", "payload"} /\ link = "open"
    /\ \E k \in 1 .. PartEnd - at :
          /\ Len(line) + k <= LineCap
          /\ line' = line \o SubSeq(Bytes(Len(offered)), at + 1, at + k)
          /\ at' = at + k
          /\ part' = IF at + k = PartEnd THEN AfterPart ELSE part
    /\ UNCHANGED <<offered, link, receiver>>

SendFails ==
    /\ part \in {"header", "payload"} /\ link \in Broken
    /\ part' = "failed"
    /\ UNCHANGED <<offered, at, line, link, receiver>>

\* close(), or the end of the process in the middle of a message.
Hangup ==
    /\ link = "open" /\ link' = "closed"
    /\ part' = IF part = "idle" THEN part ELSE "failed"
    /\ UNCHANGED <<offered, at, line, receiver>>

\* The connection breaks, with what was under way or some of it: the receiver is told by
\* a reset or, when the sender's host or the network disappears, told nothing; the reset
\* may still come later.
Break ==
    /\ link # "reset" /\ link' \in Broken \ {link}
    /\ \E k \in 0 .. Len(line) : line' = SubSeq(line, 1, k)
    /\ UNCHANGED <<sender, receiver>>
-------------------------------------------------------------------------------
\* The receiver

\* payload_len, bytes 3 to 6 of a header.
IsLength(g) == \A i \in 3 .. 6 : g[i] = [msg |-> g[3].msg, at |-> i]
PayloadLens(g) == IF IsLength(g) THEN {offered[g[3].msg].len} ELSE 0 .. MaxU32

\* recv_all returns.
WholeHeader(g) == stage = "header" /\ Len(g) = HeaderLen
WholePayload(g) == stage = "payload" /\ Len(g) \in {HeaderLen + n : n \in PayloadLens(g)}

\* Altered: each recv() asks for the whole length again.
WantedAgain(g) == stage \in {"header", "payload"}

\* recv() gives no more bytes than recv_all still wants.
Wanted(g) ==
    \/ stage = "header" /\ Len(g) <= HeaderLen
    \/ stage = "payload" /\ \E n \in PayloadLens(got) : Len(g) <= HeaderLen + n

Returned(g) ==
    /\ delivered' = Append(delivered, g)
    /\ stage' = "header" /\ got' = <<>>

Gather(g) ==
    /\ ~ WholeHeader(g) /\ ~ WholePayload(g)
    /\ got' = g
    /\ UNCHANGED <<link, stage, delivered>>

TakeHeader(g) ==
    /\ WholeHeader(g)
    /\ \E n \in PayloadLens(g) :
          IF n > PayloadLimit
          THEN stage' = "refused" /\ got' = <<>> /\ link' = "reset" /\ UNCHANGED delivered
          ELSE IF n = 0 THEN Returned(g) /\ UNCHANGED link
                        ELSE stage' = "payload" /\ got' = g /\ UNCHANGED <<link, delivered>>

TakePayload(g) == WholePayload(g) /\ Returned(g) /\ UNCHANGED link

Receive ==
    /\ \E k \in 1 .. Len(line) :
          LET g == got \o SubSeq(line, 1, k)
          IN  /\ Wanted(g)
              /\ Gather(g) \/ TakeHeader(g) \/ TakePayload(g)
              /\ line' = SubSeq(line, k + 1, Len(line))
    /\ UNCHANGED sender

\* No socket has a time-out or keepalives: recv() waits for ever on a silent link.
Told == link \in {"closed", "reset"}

\* Altered: recv() returning 0 is tried again, as if interrupted.
RecvFailsRetried ==
    /\ stage \in {"header", "payload"} /\ line = <<>> /\ link = "reset"
    /\ stage' = "failed" /\ got' = <<>>
    /\ UNCHANGED <<sender, line, link, delivered>>

\* Altered: the end of the connection is noticed before what was sent is read.
RecvFailsEarly ==
    /\ stage \in {"header", "payload"} /\ Told
    /\ stage' = "failed" /\ got' = <<>>
    /\ UNCHANGED <<sender, line, link, delivered>>

\* recv() returns 0 or an error.
RecvFails ==
    /\ stage \in {"header", "payload"} /\ line = <<>> /\ Told
    /\ stage' = "failed" /\ got' = <<>>
    /\ UNCHANGED <<sender, line, link, delivered>>
-------------------------------------------------------------------------------
Ended ==
    /\ stage \in {"failed", "refused"} /\ part \in {"idle", "failed"}
    /\ UNCHANGED vars

Next ==
    \/ \E m \in Messages : SendMsg(m)
    \/ Transmit \/ SendFails \/ Hangup \/ Break \/ Receive \/ RecvFails
    \/ Ended

Spec == Init /\ [][Next]_vars

\* The receiver's thread runs.
FairSpec == Spec /\ WF_vars(Receive) /\ WF_vars(RecvFails)
-------------------------------------------------------------------------------
\* Properties

\* recv_msg returns the messages of send_msg whole and in order, however send() and
\* recv() cut them up and wherever the connection ends.
Wholes == UNION {{BytesOf(n, m) : m \in Messages} : n \in 1 .. MaxMsgs}
Offered == [n \in DOMAIN offered |-> Bytes(n)]
Over == stage \in {"failed", "refused"}
Messaging == INSTANCE Channel WITH Messages <- Wholes, offered <- Offered, over <- Over
ChannelSpec == Messaging!Spec

\* handle_connection's checks of a MSG_TASK_FILE.
Accepts(m) ==
    /\ m.len >= 6
    /\ m.fn < MAX_FILENAME_LEN /\ 2 + m.fn + 4 <= m.len
    /\ m.size <= MAX_FILE_SIZE /\ 2 + m.fn + 4 + m.size <= m.len

\* Neither recv_msg's limit nor handle_connection's checks turn away what the REPL let
\* through, up to the largest file with the longest name.
TasksFit ==
    /\ stage # "refused"
    /\ \A n \in DOMAIN delivered : offered[n].type = "TASK_FILE" => Accepts(offered[n])

\* A message that send_msg has sent arrives, though the sender closes at once, unless
\* the connection breaks.
Sent(n) == n < Len(offered) \/ (n = Len(offered) /\ part = "idle")
Arrives == \A n \in 1 .. MaxMsgs : Sent(n) ~> Len(delivered) >= n \/ link \in Broken

\* The receiver learns of a close or a reset, in the middle of a message too; it learns
\* nothing of a connection that falls silent.
ReceiverReturns == Told ~> stage \in {"failed", "refused"} \/ link = "silent"
===============================================================================
