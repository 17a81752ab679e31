---------------------------- MODULE WebBridgeProofs ----------------------------
(***************************************************************************)
(* Proofs about WebBridge, for any browsers, file names, bounds and depth  *)
(* of the backlog.                                                         *)
(***************************************************************************)
EXTENDS WebBridge, TLAPS

\* A file holds the last upload of its name, all of it unless that is still being written.
OfLast(f, v) ==
    /\ lines[v].name = f /\ Later(v) = {}
    /\ \A i \in DOMAIN file[f] : file[f][i] = v
    /\ writing # v => Len(file[f]) = lines[v].size
FilesInv == \A f \in DOMAIN file : \E v \in 1 .. Len(lines) : OfLast(f, v)

\* An upload whose line the node has not dealt with has a file that is not being written for
\* it; the one being written has the last line.
Waiting == {stdin[i] : i \in DOMAIN stdin}
Submitted(u) ==
    u \in 1 .. Len(lines) /\ u # writing /\ (lines[u].name # Quit => lines[u].name \in DOMAIN file)
LinesInv ==
    /\ \A u \in Waiting : Submitted(u)
    /\ loading # Nobody => Submitted(loading) /\ lines[loading].name # Quit
    /\ writing # Nobody => /\ writing = Len(lines) /\ lines[writing].name # Quit
                           /\ lines[writing].name \in DOMAIN file
    /\ DOMAIN ran \subseteq 1 .. Len(lines)

\* What the node has got of a file is fit to be compiled, if it comes to the size taken.
PartInv ==
    /\ loading = Nobody => got = <<>>
    /\ loading # Nobody =>
          /\ \A i \in DOMAIN got : got[i] \in {loading} \cup Later(loading)
          /\ Later(loading) = {} => want = lines[loading].size

UploadInv == FilesInv /\ LinesInv /\ PartInv

\* A session that has not begun is known to nobody; one that goes on is among the clients,
\* and its backlog lies before what is broadcast to it.
Begun(s) ==
    /\ link[s] = "new" =>
          /\ handler[s] = "none" /\ s \notin clients \cup pending \cup notices
          /\ inbox[s] = <<>> /\ seen[s] = <<>>
    /\ link[s] = "open" =>
          /\ s \in clients /\ upto[s] <= CastTo(s)
          /\ 1 <= first[s] /\ first[s] <= next[s] /\ next[s] <= upto[s] + 1
SpawnInv == (waiter = "spawn" => reader = "none") /\ (reader = "none" => pending = {})
SessionInv == SpawnInv /\ \A s \in Sessions : Begun(s)

\* What a page will show once it has handled what is on the way.
Up(m) == m = AliveIs(TRUE)
Down(m) == m \in {Exited, AliveIs(FALSE)}
Settles(s) ==
    \/ \E i \in DOMAIN inbox[s] :
          Down(inbox[s][i]) /\ \A j \in DOMAIN inbox[s] : j > i => ~ Up(inbox[s][j])
    \/ ~ alive[s] /\ \A j \in DOMAIN inbox[s] : ~ Up(inbox[s][j])

\* Nothing says that the node has ended before it has, but the answer to a status request
\* that came before p2p_proc was assigned; nothing after that answer says otherwise, nor
\* after the broadcast of the node's end has been put in a browser's buffers, or its status
\* answered later than that.
Told(s) ==
    /\ waiter \in {"spawn", "wait"} /\ ~ early[s] =>
          alive[s] /\ \A i \in DOMAIN inbox[s] : ~ Down(inbox[s][i])
    /\ early[s] => ~ asked[s] /\ Settles(s)
    /\ waiter = "spawn" /\ ~ asked[s] => early[s]
    /\ waiter \in {"missing", "done"} /\ s \notin notices /\ ~ asked[s] => Settles(s)
StatusInv ==
    /\ waiter # "done" => notices = {}
    /\ \A s \in Sessions : link[s] = "new" => ~ early[s]
    /\ \A s \in Sessions : link[s] = "open" => Told(s)

\* r holds exactly the output a .. b - 1 and c + 1 .. d of the e buffers logged, each part in
\* order; c divides the parts.
Holds(r, a, b, c, d, e) ==
    /\ \A i \in DOMAIN r : IsOutput(r[i]) => r[i].n \in 1 .. e
    /\ \A n \in 1 .. e :
          (\E i \in DOMAIN r : r[i] = Output(n)) <=> n \in a .. b - 1 \/ n \in c + 1 .. d
    /\ \A i, j \in DOMAIN r :
          (/\ i < j /\ IsOutput(r[i]) /\ IsOutput(r[j])
           /\ (r[i].n <= c) = (r[j].n <= c)) => r[i].n < r[j].n
HoldsFor(s) == Holds(Received(s), first[s], next[s], upto[s], CastTo(s), log)
TranscriptInv == \A s \in Sessions : link[s] = "open" => HoldsFor(s)
-------------------------------------------------------------------------------
USE DEF Free, load, nodeVars, fileVars, castVars, slice, page, vars

\* Every message that is sent is one.
LEMMA Messages ==
    ASSUME TypeOK
    PROVE  /\ Current \in Message /\ Exited \in Message
           /\ \A n \in Nat : Output(n) \in Message
           /\ \A b \in BOOLEAN : AliveIs(b) \in Message
  BY DEF TypeOK, Current, Message, Output, AliveIs, Done, Exited

\* websocket.send keeps to the buffers' type and size.
LEMMA SendType ==
    ASSUME TypeOK, NEW s \in Sessions, NEW m \in Message, Sends(s, m) \/ Raises(s)
    PROVE  /\ inbox' \in [Sessions -> Seq(Message)]
           /\ \A x \in Sessions : Len(inbox'[x]) <= Room
<1>1. CASE Sends(s, m)
  <2>1. inbox' = [inbox EXCEPT ![s] = Append(@, m)] /\ Len(inbox[s]) < Room
    BY <1>1 DEF Sends, Put
  <2>2. inbox[s] \in Seq(Message) /\ Append(inbox[s], m) \in Seq(Message)
    BY DEF TypeOK
  <2>3. Len(Append(inbox[s], m)) <= Room
    BY <2>1, <2>2, BridgeAssumption
  <2> QED BY <2>1, <2>2, <2>3 DEF TypeOK
<1>2. CASE Raises(s)
  BY <1>2 DEF TypeOK, Raises
<1> QED BY <1>1, <1>2

\* The file of a submitted upload is there.
LEMMA FileThere ==
    ASSUME TypeOK, NEW u, Submitted(u), lines[u].name # Quit
    PROVE  Named(u) \in Seq(Upload) /\ u \in Upload
  BY BridgeAssumption DEF TypeOK, Submitted, Named, Upload

\* No action of the program violates a type, and no read of a missing file is asked for.
LEMMA TypeStep == ASSUME TypeOK, UploadInv, [Next]_vars PROVE TypeOK'
<1> USE BridgeAssumption
<1>0. LinesInv
  BY DEF UploadInv
<1>1. ASSUME Starts PROVE TypeOK'
  BY <1>1 DEF TypeOK, Starts, Prints
<1>2. ASSUME ReadsLine PROVE TypeOK'
  <2> DEFINE k == Head(stdin)
  <2>1. k \in Upload /\ (lines[k].name # Quit => Named(k) \in Seq(Upload))
    <3>1. k \in Waiting
      BY <1>2 DEF TypeOK, ReadsLine, Waiting
    <3>2. k \in Upload
      BY <1>2 DEF TypeOK, ReadsLine
    <3> QED BY <1>0, <3>1, <3>2, FileThere DEF LinesInv
  <2>2. stdin' \in Seq(Upload)
    BY <1>2 DEF TypeOK, ReadsLine
  <2>3. loading' \in Upload \cup {Nobody} /\ want' \in Nat /\ got' \in Seq(Upload)
    <3>1. \/ UNCHANGED load
          \/ lines[k].name # Quit /\ loading' = k /\ want' = Len(Named(k)) /\ UNCHANGED got
      BY <1>2 DEF ReadsLine
    <3> QED BY <2>1, <3>1 DEF TypeOK
  <2>4. node' \in {"running", "exited"} /\ (UNCHANGED out \/ Prints)
    BY <1>2 DEF TypeOK, ReadsLine
  <2>5. out' \in Nat /\ log \in 0 .. out' /\ out' - log <= PipeRoom
    BY <2>4 DEF TypeOK, Prints
  <2>6. UNCHANGED <<ran, fileVars, castVars, clients, handler, slice, link, inbox, page>>
    BY <1>2 DEF ReadsLine
  <2> QED BY <2>2, <2>3, <2>4, <2>5, <2>6 DEF TypeOK
<1>3. ASSUME ReadChunk PROVE TypeOK'
  BY <1>3 DEF TypeOK, ReadChunk, Listens
<1>4. ASSUME ReadEnd PROVE TypeOK'
  BY <1>4 DEF TypeOK, ReadEnd, Listens
<1>5. ASSUME Spawn \/ NoBinary \/ Assign \/ Reap PROVE TypeOK'
  BY <1>5 DEF TypeOK, Spawn, NoBinary, Assign, Reap
<1>6. ASSUME Notify PROVE TypeOK'
  BY <1>6 DEF TypeOK, Notify
<1>7. ASSUME WritePiece PROVE TypeOK'
  <2>1. writing \in Upload /\ lines[writing].name \in DOMAIN file
    BY <1>0, <1>7 DEF TypeOK, LinesInv, WritePiece
  <2>2. DOMAIN file' \subseteq Names /\ \A f \in DOMAIN file' : file'[f] \in Seq(Upload)
    <3>1. Append(file[lines[writing].name], writing) \in Seq(Upload)
      BY <2>1 DEF TypeOK
    <3> QED BY <1>7, <2>1, <3>1 DEF TypeOK, WritePiece
  <2> QED BY <1>7, <2>2 DEF TypeOK, WritePiece
<1>21. ASSUME SubmitUpload PROVE TypeOK'
  <2>1. writing \in Upload /\ stdin \in Seq(Upload)
    BY <1>21 DEF TypeOK, SubmitUpload
  <2>2. stdin' \in Seq(Upload)
    BY <1>21, <2>1 DEF SubmitUpload, ToNode
  <2> QED BY <1>21, <2>2 DEF TypeOK, SubmitUpload
<1>22. ASSUME ReadsPiece PROVE TypeOK'
  <2>1. Named(loading) \in Seq(Upload) /\ got \in Seq(Upload)
    BY <1>0, <1>22, FileThere DEF TypeOK, LinesInv, ReadsPiece
  <2>2. Named(loading)[Len(got) + 1] \in Upload
    BY <1>22, <2>1 DEF ReadsPiece
  <2>3. got' \in Seq(Upload)
    BY <1>22, <2>1, <2>2 DEF ReadsPiece
  <2> QED BY <1>22, <2>3 DEF TypeOK, ReadsPiece
<1>23. ASSUME EndsFile PROVE TypeOK'
  <2>1. loading \in Upload /\ got \in Seq(Upload)
    BY <1>23 DEF TypeOK, EndsFile
  <2>2. DOMAIN ran' \subseteq Upload /\ \A u \in DOMAIN ran' : ran'[u] \in Seq(Upload)
    BY <1>23, <2>1 DEF TypeOK, EndsFile, With
  <2>3. out' \in Nat /\ log \in 0 .. out' /\ out' - log <= PipeRoom
    BY <1>23 DEF TypeOK, EndsFile, Prints
  <2>4. loading' \in Upload \cup {Nobody} /\ want' \in Nat /\ got' \in Seq(Upload)
    BY <1>23 DEF EndsFile
  <2>5. UNCHANGED <<node, stdin, fileVars, castVars, clients, handler, slice, link, inbox, page>>
    BY <1>23 DEF EndsFile
  <2> QED BY <2>2, <2>3, <2>4, <2>5 DEF TypeOK
<1>8. ASSUME NEW s \in Sessions, Cast(s) PROVE TypeOK'
  <2>1. /\ inbox' \in [Sessions -> Seq(Message)]
        /\ \A x \in Sessions : Len(inbox'[x]) <= Room
    BY <1>8, Messages, SendType DEF TypeOK, Cast
  <2> QED BY <1>8, <2>1 DEF TypeOK, Cast
<1>9. ASSUME NEW s \in Sessions, Notice(s) PROVE TypeOK'
  <2>1. /\ inbox' \in [Sessions -> Seq(Message)]
        /\ \A x \in Sessions : Len(inbox'[x]) <= Room
    BY <1>9, Messages, SendType DEF TypeOK, Notice
  <2> QED BY <1>9, <2>1 DEF TypeOK, Notice
<1>10. ASSUME NEW s \in Sessions, SendBacklog(s) PROVE TypeOK'
  <2>1. /\ inbox' \in [Sessions -> Seq(Message)]
        /\ \A x \in Sessions : Len(inbox'[x]) <= Room
    BY <1>10, Messages, SendType DEF TypeOK, SendBacklog
  <2>2. next' \in [Sessions -> Nat]
    BY <1>10 DEF TypeOK, SendBacklog
  <2> QED BY <1>10, <2>1, <2>2 DEF TypeOK, SendBacklog
<1>11. ASSUME NEW s \in Sessions, BacklogRaises(s) PROVE TypeOK'
  BY <1>11 DEF TypeOK, BacklogRaises, Returns
<1>12. ASSUME NEW s \in Sessions, BacklogEnds(s) PROVE TypeOK'
  BY <1>12 DEF TypeOK, BacklogEnds
<1>13. ASSUME NEW s \in Sessions, Status(s) PROVE TypeOK'
  <2>1. /\ inbox' \in [Sessions -> Seq(Message)]
        /\ \A x \in Sessions : Len(inbox'[x]) <= Room
    <3>1. AliveIs(ProcAlive) \in Message
      BY Messages DEF ProcAlive
    <3> QED BY <1>13, <3>1, SendType DEF Status
  <2> QED BY <1>13, <2>1 DEF TypeOK, Status
<1>14. ASSUME NEW s \in Sessions, Leave(s) PROVE TypeOK'
  BY <1>14 DEF TypeOK, Leave, Returns
<1>15. ASSUME NEW s \in Sessions, Reads(s) PROVE TypeOK'
  <2> DEFINE m == Head(inbox[s])
  <2>0. /\ inbox[s] \in Seq(Message) /\ inbox[s] # <<>> /\ Len(inbox[s]) <= Room
        /\ seen \in [Sessions -> Seq(Message)]
        /\ seen' = IF IsOutput(m) THEN [seen EXCEPT ![s] = Append(@, m)] ELSE seen
    BY <1>15 DEF TypeOK, Reads
  <2>1. m \in Message /\ Tail(inbox[s]) \in Seq(Message) /\ Len(Tail(inbox[s])) <= Room
    BY <2>0
  <2>2. seen' \in [Sessions -> Seq(Message)]
    <3>1. Append(seen[s], m) \in Seq(Message)
      BY <2>0, <2>1
    <3> QED BY <2>0, <3>1
  <2>3. m.type = "status" => m.alive \in BOOLEAN
    BY <2>1 DEF Message, Done, Exited
  <2>4. alive' \in [Sessions -> BOOLEAN]
    BY <1>15, <2>3 DEF TypeOK, Reads
  <2>5. /\ inbox' \in [Sessions -> Seq(Message)]
        /\ \A x \in Sessions : Len(inbox'[x]) <= Room
    BY <1>15, <2>1 DEF TypeOK, Reads
  <2> QED BY <1>15, <2>2, <2>4, <2>5 DEF TypeOK, Reads
<1>16. ASSUME NEW s \in Sessions, Join(s) PROVE TypeOK'
  BY <1>16 DEF TypeOK, Join
<1>17. ASSUME NEW s \in Sessions, QuitCommand(s) PROVE TypeOK'
  <2>1. Len(lines) + 1 \in Upload /\ stdin \in Seq(Upload) /\ Len(lines) < MaxLines
    BY <1>17 DEF TypeOK, QuitCommand, Handles, Upload
  <2>2. stdin' \in Seq(Upload)
    BY <1>17, <2>1 DEF QuitCommand, ToNode
  <2>3. [name |-> Quit, size |-> 0] \in Line
    BY DEF Line
  <2>4. lines' \in Seq(Line) /\ Len(lines') <= MaxLines
    BY <1>17, <2>1, <2>3 DEF TypeOK, QuitCommand
  <2> QED BY <1>17, <2>2, <2>4 DEF TypeOK, QuitCommand
<1>18. ASSUME NEW s \in Sessions, Closes(s) PROVE TypeOK'
  BY <1>18 DEF TypeOK, Closes
<1>19. ASSUME NEW s \in Sessions, NEW f \in Names, OpenUpload(s, f) PROVE TypeOK'
  <2>1. DOMAIN file' \subseteq Names /\ \A g \in DOMAIN file' : file'[g] \in Seq(Upload)
    <3>1. DOMAIN file \subseteq Names /\ \A g \in DOMAIN file : file[g] \in Seq(Upload)
      BY DEF TypeOK
    <3>2. file' = With(file, f, <<>>) /\ <<>> \in Seq(Upload)
      BY <1>19 DEF OpenUpload
    <3> QED BY <3>1, <3>2 DEF With
  <2>2. PICK n \in Sizes : lines' = Append(lines, [name |-> f, size |-> n])
    BY <1>19 DEF OpenUpload
  <2>3. [name |-> f, size |-> n] \in Line
    BY DEF Line
  <2>4. /\ lines' \in Seq(Line) /\ Len(lines') <= MaxLines
        /\ writing' \in Upload
    BY <1>19, <2>2, <2>3 DEF TypeOK, OpenUpload, Handles, Upload
  <2> QED BY <1>19, <2>1, <2>4 DEF TypeOK, OpenUpload
<1>20. CASE UNCHANGED vars
  BY <1>20 DEF TypeOK
<1> QED BY <1>1, <1>2, <1>3, <1>4, <1>5, <1>6, <1>7, <1>8, <1>9, <1>10, <1>11, <1>12, <1>13, <1>14, <1>15, <1>16, <1>17, <1>18, <1>19, <1>20, <1>21, <1>22, <1>23
  DEF Next, Progress, Server, TimesOut
-------------------------------------------------------------------------------
LEMMA Appended ==
    ASSUME NEW T, NEW q \in Seq(T), NEW x \in T, NEW r, r = Append(q, x)
    PROVE  /\ Len(r) = Len(q) + 1 /\ r[Len(q) + 1] = x
           /\ \A i \in 1 .. Len(q) : r[i] = q[i]
           /\ {r[i] : i \in DOMAIN r} = {q[i] : i \in DOMAIN q} \cup {x}
<1>1. /\ Len(r) = Len(q) + 1 /\ r[Len(q) + 1] = x
      /\ \A i \in 1 .. Len(q) : r[i] = q[i]
      /\ DOMAIN r = 1 .. Len(q) + 1 /\ DOMAIN q = 1 .. Len(q)
  OBVIOUS
<1> QED BY <1>1

\* Another line leaves the earlier ones what they were, and is a later upload of its name.
LEMMA LinesGrow ==
    ASSUME TypeOK, NEW x \in Line, lines' = Append(lines, x)
    PROVE  /\ Len(lines) \in Nat /\ Len(lines') = Len(lines) + 1 /\ lines'[Len(lines) + 1] = x
           /\ \A v \in 1 .. Len(lines) : lines'[v] = lines[v]
           /\ \A u \in 1 .. Len(lines) :
                 Later(u)' = Later(u) \cup {v \in {Len(lines) + 1} : x.name = lines[u].name}
           /\ \A k : k = Len(lines) + 1 => Later(k)' = {}
<1>1. /\ Len(lines) \in Nat /\ Len(lines') = Len(lines) + 1 /\ lines'[Len(lines) + 1] = x
      /\ \A v \in 1 .. Len(lines) : lines'[v] = lines[v]
  BY Appended DEF TypeOK
<1>2. ASSUME NEW u \in 1 .. Len(lines)
      PROVE  Later(u)' = Later(u) \cup {v \in {Len(lines) + 1} : x.name = lines[u].name}
  <2>1. \A v : v \in u + 1 .. Len(lines') <=> v \in u + 1 .. Len(lines) \/ v = Len(lines) + 1
    BY <1>1
  <2>2. \A v \in u + 1 .. Len(lines) : v \in 1 .. Len(lines)
    BY <1>1
  <2> QED BY <1>1, <2>1, <2>2 DEF Later
<1>3. ASSUME NEW k, k = Len(lines) + 1 PROVE Later(k)' = {}
  BY <1>1, <1>3 DEF Later
<1> QED BY <1>1, <1>2, <1>3

LEMMA FreshGrows ==
    ASSUME TypeOK, NEW x \in Line, lines' = Append(lines, x),
           NEW u \in 1 .. Len(lines), NEW c, IsFresh(u, c)
    PROVE  IsFresh(u, c)'
<1>1. lines'[u] = lines[u] /\ Later(u) \subseteq Later(u)'
  BY LinesGrow
<1> QED BY <1>1 DEF IsFresh

\* What the node finds in the file of a submitted upload.
LEMMA FileFit ==
    ASSUME TypeOK, FilesInv, NEW u, Submitted(u), lines[u].name # Quit
    PROVE  /\ \A i \in DOMAIN Named(u) : Named(u)[i] \in {u} \cup Later(u)
           /\ Later(u) = {} => Len(Named(u)) = lines[u].size
<1>1. /\ u \in 1 .. Len(lines) /\ u # writing /\ lines[u].name \in DOMAIN file
      /\ Len(lines) \in Nat
  BY DEF Submitted, TypeOK
<1>2. PICK v \in 1 .. Len(lines) : OfLast(lines[u].name, v)
  BY <1>1 DEF FilesInv
<1>3. v = u \/ v \in Later(u)
  <2>1. u \notin Later(v) /\ lines[v].name = lines[u].name
    BY <1>2 DEF OfLast
  <2>2. ~ v < u
    BY <1>1, <1>2, <2>1 DEF Later
  <2> QED BY <1>1, <1>2, <2>1, <2>2 DEF Later
<1>4. Later(u) = {} => v = u
  BY <1>3
<1> QED BY <1>1, <1>2, <1>3, <1>4 DEF OfLast, Named

\* A line more, and the files as they are.
LEMMA SubmittedGrows ==
    ASSUME TypeOK, NEW x \in Line, lines' = Append(lines, x), DOMAIN file \subseteq DOMAIN file',
           NEW u, Submitted(u), writing' \in {writing, Len(lines) + 1}
    PROVE  Submitted(u)' /\ lines'[u] = lines[u]
  BY LinesGrow DEF Submitted

LEMMA FilesStep == ASSUME TypeOK, UploadInv, [Next]_vars PROVE FilesInv'
<1> USE BridgeAssumption
<1>0. FilesInv /\ LinesInv
  BY DEF UploadInv
<1>1. CASE UNCHANGED <<lines, file, writing>>
  BY <1>0, <1>1 DEF FilesInv, OfLast, Later
<1>2. ASSUME NEW s \in Sessions, QuitCommand(s) PROVE FilesInv'
  <2> DEFINE x == [name |-> Quit, size |-> 0]
  <2>1. x \in Line /\ lines' = Append(lines, x) /\ UNCHANGED <<file, writing>> /\ x.name = Quit
    BY <1>2 DEF QuitCommand, Line
  <2> HIDE DEF x
  <2> SUFFICES ASSUME NEW f \in DOMAIN file PROVE \E v \in 1 .. Len(lines') : OfLast(f, v)'
    BY <2>1 DEF FilesInv
  <2>2. PICK v \in 1 .. Len(lines) : OfLast(f, v)
    BY <1>0 DEF FilesInv
  <2>3. f # Quit
    BY DEF TypeOK
  <2>4. Later(v)' = {} /\ lines'[v] = lines[v] /\ v \in 1 .. Len(lines')
    BY <2>1, <2>2, <2>3, LinesGrow DEF OfLast
  <2> QED BY <2>1, <2>2, <2>4 DEF OfLast
<1>3. ASSUME NEW s \in Sessions, NEW g \in Names, OpenUpload(s, g) PROVE FilesInv'
  <2>1. PICK n \in Sizes : lines' = Append(lines, [name |-> g, size |-> n])
    BY <1>3 DEF OpenUpload
  <2> DEFINE x == [name |-> g, size |-> n]
  <2>2. /\ x \in Line /\ lines' = Append(lines, x) /\ x.name = g
        /\ writing' = Len(lines) + 1 /\ file' = With(file, g, <<>>)
    BY <1>3, <2>1 DEF OpenUpload, Line
  <2> HIDE DEF x
  <2>3. \A f \in DOMAIN file' : f = g \/ (f \in DOMAIN file /\ file'[f] = file[f])
    BY <2>2 DEF With
  <2>4. file'[g] = <<>>
    BY <2>2 DEF With
  <2> SUFFICES ASSUME NEW f \in DOMAIN file' PROVE \E v \in 1 .. Len(lines') : OfLast(f, v)'
    BY DEF FilesInv
  <2>5. CASE f = g
    <3>1. PICK k : k = Len(lines) + 1
      OBVIOUS
    <3>2. k \in 1 .. Len(lines') /\ lines'[k].name = f /\ Later(k)' = {}
      BY <2>2, <2>5, <3>1, LinesGrow
    <3>3. OfLast(f, k)'
      BY <2>2, <2>4, <2>5, <3>1, <3>2 DEF OfLast
    <3> QED BY <3>2, <3>3
  <2>6. CASE f # g
    <3>1. f \in DOMAIN file /\ file'[f] = file[f]
      BY <2>3, <2>6
    <3>2. PICK v \in 1 .. Len(lines) : OfLast(f, v)
      BY <1>0, <3>1 DEF FilesInv
    <3>3. Later(v)' = {} /\ lines'[v] = lines[v] /\ v \in 1 .. Len(lines')
      BY <2>2, <2>6, <3>2, LinesGrow DEF OfLast
    <3>4. writing = Nobody /\ v # Nobody
      BY <1>3 DEF OpenUpload, Handles, Nobody
    <3> QED BY <3>1, <3>2, <3>3, <3>4 DEF OfLast
  <2> QED BY <2>5, <2>6
<1>4. ASSUME WritePiece PROVE FilesInv'
  <2> DEFINE w == writing
             g == lines[w].name
  <2>1. /\ w = Len(lines) /\ w \in 1 .. Len(lines) /\ g \in DOMAIN file
        /\ file' = [file EXCEPT ![g] = Append(@, w)] /\ UNCHANGED <<lines, writing>>
    BY <1>0, <1>4 DEF WritePiece, TypeOK, LinesInv, Upload, Nobody
  <2>2. Later(w) = {}
    BY <2>1 DEF Later
  <2> SUFFICES ASSUME NEW f \in DOMAIN file PROVE \E v \in 1 .. Len(lines) : OfLast(f, v)'
    BY <2>1 DEF FilesInv
  <2>3. PICK v \in 1 .. Len(lines) : OfLast(f, v)
    BY <1>0 DEF FilesInv
  <2>4. CASE f # g
    BY <2>1, <2>3, <2>4 DEF OfLast, Later
  <2>5. CASE f = g
    <3>1. v = w
      <4>1. lines[v].name = lines[w].name /\ w \notin Later(v)
        BY <2>3, <2>5 DEF OfLast
      <4>2. Len(lines) \in Nat /\ (v = w \/ w \in v + 1 .. Len(lines))
        BY <2>1, <2>3 DEF TypeOK
      <4> QED BY <4>1, <4>2 DEF Later
    <3>2. file[f] \in Seq(Upload) /\ w \in Upload /\ file'[f] = Append(file[f], w)
      BY <2>1, <2>5 DEF TypeOK, Upload
    <3>3. \A i \in DOMAIN file'[f] :
             \/ i \in DOMAIN file[f] /\ file'[f][i] = file[f][i]
             \/ file'[f][i] = w
      BY <3>2
    <3>4. \A i \in DOMAIN file'[f] : file'[f][i] = w
      BY <2>3, <3>1, <3>3 DEF OfLast
    <3> QED BY <2>1, <2>2, <2>3, <2>5, <3>1, <3>4 DEF OfLast, Later
  <2> QED BY <2>4, <2>5
<1>5. ASSUME SubmitUpload PROVE FilesInv'
  <2>1. /\ UNCHANGED <<lines, file>> /\ Len(file[lines[writing].name]) = lines[writing].size
    BY <1>5 DEF SubmitUpload, Written, Named
  <2> SUFFICES ASSUME NEW f \in DOMAIN file PROVE \E v \in 1 .. Len(lines) : OfLast(f, v)'
    BY <2>1 DEF FilesInv
  <2>2. PICK v \in 1 .. Len(lines) : OfLast(f, v)
    BY <1>0 DEF FilesInv
  <2>3. Len(file[f]) = lines[v].size
    BY <2>1, <2>2 DEF OfLast
  <2> QED BY <2>1, <2>2, <2>3 DEF OfLast, Later
<1> QED
  BY <1>1, <1>2, <1>3, <1>4, <1>5
  DEF Next, Progress, Server, TimesOut, Spawn, NoBinary, Assign, Starts, ReadsLine, ReadsPiece,
      EndsFile, ReadChunk, ReadEnd, Reap, Notify, Cast, Notice, SendBacklog, BacklogRaises,
      BacklogEnds, Status, Leave, Reads, Join, Closes

LEMMA LinesStep == ASSUME TypeOK, UploadInv, [Next]_vars PROVE LinesInv'
<1> USE BridgeAssumption
<1>0. FilesInv /\ LinesInv
  BY DEF UploadInv
<1>1. CASE UNCHANGED <<stdin, loading, ran, lines, file, writing>>
  BY <1>0, <1>1 DEF LinesInv, Submitted, Waiting
<1>2. ASSUME ReadsLine PROVE LinesInv'
  <2>1. stdin # <<>> /\ stdin' = Tail(stdin) /\ UNCHANGED <<lines, file, writing, ran>>
    BY <1>2 DEF ReadsLine
  <2>2. Waiting' \subseteq Waiting /\ Head(stdin) \in Waiting
    <3>1. /\ Head(stdin) = stdin[1] /\ 1 \in DOMAIN stdin
          /\ \A i \in DOMAIN stdin' : i + 1 \in DOMAIN stdin /\ stdin'[i] = stdin[i + 1]
      BY <2>1 DEF TypeOK
    <3> QED BY <3>1 DEF Waiting
  <2>3. loading' = loading \/ (loading' = Head(stdin) /\ lines[Head(stdin)].name # Quit)
    BY <1>2 DEF ReadsLine
  <2> QED BY <1>0, <2>1, <2>2, <2>3 DEF LinesInv, Submitted
<1>3. ASSUME EndsFile PROVE LinesInv'
  <2>1. /\ UNCHANGED <<stdin, lines, file, writing>> /\ loading # Nobody /\ loading' = Nobody
        /\ DOMAIN ran' \subseteq DOMAIN ran \cup {loading}
    BY <1>3 DEF EndsFile, With
  <2>2. loading \in 1 .. Len(lines) /\ Waiting' = Waiting
    BY <1>0, <2>1 DEF LinesInv, Submitted, Waiting
  <2> QED BY <1>0, <2>1, <2>2 DEF LinesInv, Submitted
<1>4. ASSUME NEW x \in Line, lines' = Append(lines, x), DOMAIN file \subseteq DOMAIN file',
             UNCHANGED <<loading, ran>>,
             \/ writing' = writing
             \/ writing' = Len(lines) + 1 /\ x.name \in DOMAIN file' \ {Quit},
             writing = Nobody,
             \/ Waiting' \subseteq Waiting
             \/ /\ x.name = Quit /\ writing' = writing
                /\ Waiting' \subseteq Waiting \cup {Len(lines) + 1}
      PROVE  LinesInv'
  <2>1. \A u : Submitted(u) => Submitted(u)' /\ lines'[u] = lines[u]
    BY <1>4, SubmittedGrows
  <2>2. Len(lines) \in Nat /\ Len(lines') = Len(lines) + 1 /\ lines'[Len(lines) + 1] = x
    BY <1>4, LinesGrow
  <2>3. ASSUME NEW k, k = Len(lines) + 1, x.name = Quit, writing' = writing PROVE Submitted(k)'
    BY <1>4, <2>2, <2>3 DEF Submitted, Nobody
  <2>4. \A u \in Waiting' : Submitted(u)'
    BY <1>0, <1>4, <2>1, <2>3 DEF LinesInv
  <2>5. loading' # Nobody => Submitted(loading)' /\ lines'[loading].name # Quit
    BY <1>0, <1>4, <2>1 DEF LinesInv, Submitted
  <2>6. DOMAIN ran' \subseteq 1 .. Len(lines')
    BY <1>0, <1>4, <2>2 DEF LinesInv
  <2> QED BY <1>4, <2>2, <2>4, <2>5, <2>6 DEF LinesInv, Submitted
<1>5. ASSUME NEW s \in Sessions, QuitCommand(s) PROVE LinesInv'
  <2> DEFINE x == [name |-> Quit, size |-> 0]
  <2>1. /\ x \in Line /\ lines' = Append(lines, x) /\ x.name = Quit
        /\ UNCHANGED <<file, writing, loading, ran>> /\ writing = Nobody
        /\ Len(lines) < MaxLines
        /\ stdin' = stdin \/ stdin' = Append(stdin, Len(lines) + 1)
    BY <1>5 DEF QuitCommand, Handles, ToNode, Line
  <2> HIDE DEF x
  <2>2. Waiting' \subseteq Waiting \cup {Len(lines) + 1}
    <3>1. stdin \in Seq(Upload) /\ Len(lines) + 1 \in Upload
      BY <2>1 DEF TypeOK, Upload
    <3>2. CASE stdin' = Append(stdin, Len(lines) + 1)
      BY <3>1, <3>2, Appended DEF Waiting
    <3>3. CASE stdin' = stdin
      BY <3>3 DEF Waiting
    <3> QED BY <2>1, <3>2, <3>3
  <2> QED BY <1>4, <2>1, <2>2
<1>6. ASSUME NEW s \in Sessions, NEW g \in Names, OpenUpload(s, g) PROVE LinesInv'
  <2>1. PICK n \in Sizes : lines' = Append(lines, [name |-> g, size |-> n])
    BY <1>6 DEF OpenUpload
  <2> DEFINE x == [name |-> g, size |-> n]
  <2>2. /\ x \in Line /\ lines' = Append(lines, x) /\ x.name = g /\ g # Quit
        /\ writing = Nobody /\ writing' = Len(lines) + 1 /\ UNCHANGED <<stdin, loading, ran>>
        /\ DOMAIN file' = DOMAIN file \cup {g}
    BY <1>6, <2>1 DEF OpenUpload, Handles, Line, With
  <2> HIDE DEF x
  <2>3. Waiting' = Waiting
    BY <2>2 DEF Waiting
  <2> QED BY <1>4, <2>2, <2>3
<1>7. ASSUME WritePiece PROVE LinesInv'
  <2>1. DOMAIN file' = DOMAIN file /\ UNCHANGED <<stdin, loading, ran, lines, writing>>
    BY <1>7 DEF WritePiece
  <2>2. Waiting' = Waiting
    BY <2>1 DEF Waiting
  <2> QED BY <1>0, <2>1, <2>2 DEF LinesInv, Submitted
<1>8. ASSUME SubmitUpload PROVE LinesInv'
  <2>1. /\ writing \in 1 .. Len(lines) /\ writing \in Upload /\ writing' = Nobody
        /\ lines[writing].name \in DOMAIN file
        /\ stdin' = stdin \/ stdin' = Append(stdin, writing)
        /\ UNCHANGED <<lines, file, loading, ran>>
    BY <1>0, <1>8 DEF SubmitUpload, ToNode, LinesInv, TypeOK, Upload, Nobody
  <2>2. Waiting' \subseteq Waiting \cup {writing}
    <3>1. CASE stdin' = Append(stdin, writing)
      BY <2>1, <3>1, Appended DEF Waiting, TypeOK
    <3>2. CASE stdin' = stdin
      BY <3>2 DEF Waiting
    <3> QED BY <2>1, <3>1, <3>2
  <2>3. \A u : u \in 1 .. Len(lines) => u # writing'
    BY <2>1 DEF Nobody
  <2> QED BY <1>0, <2>1, <2>2, <2>3 DEF LinesInv, Submitted
<1> QED
  BY <1>1, <1>2, <1>3, <1>5, <1>6, <1>7, <1>8
  DEF Next, Progress, Server, TimesOut, Spawn, NoBinary, Assign, Starts, ReadsPiece, ReadChunk,
      ReadEnd, Reap, Notify, Cast, Notice, SendBacklog, BacklogRaises, BacklogEnds, Status, Leave,
      Reads, Join, Closes

LEMMA PartStep == ASSUME TypeOK, UploadInv, [Next]_vars PROVE PartInv'
<1> USE BridgeAssumption
<1>0. FilesInv /\ LinesInv /\ PartInv
  BY DEF UploadInv
<1>1. CASE UNCHANGED <<load, lines>>
  BY <1>0, <1>1 DEF PartInv, Later
<1>2. ASSUME ReadsLine PROVE PartInv'
  <2> DEFINE k == Head(stdin)
  <2>1. CASE UNCHANGED load
    BY <1>1, <1>2, <2>1 DEF ReadsLine
  <2>2. CASE ~ UNCHANGED load
    <3>1. /\ lines[k].name # Quit /\ loading' = k /\ want' = Len(Named(k)) /\ got' = got
          /\ UNCHANGED lines /\ k \in Waiting
      BY <1>2, <2>2 DEF ReadsLine, TypeOK, Waiting
    <3>2. got = <<>> /\ k # Nobody
      BY <1>0, <1>2, <3>1 DEF ReadsLine, PartInv, LinesInv, Submitted, Nobody
    <3>3. Later(k) = {} => want' = lines[k].size
      BY <1>0, <3>1, FileFit DEF LinesInv
    <3> QED BY <3>1, <3>2, <3>3 DEF PartInv, Later
  <2> QED BY <2>1, <2>2
<1>3. ASSUME ReadsPiece PROVE PartInv'
  <2> DEFINE u == loading
             m == Named(u)[Len(got) + 1]
  <2>1. /\ u # Nobody /\ Submitted(u) /\ lines[u].name # Quit /\ got' = Append(got, m)
        /\ Len(got) < Len(Named(u)) /\ UNCHANGED <<loading, want, lines>> /\ got \in Seq(Upload)
    BY <1>0, <1>3 DEF ReadsPiece, LinesInv, TypeOK
  <2>2. Named(u) \in Seq(Upload)
    BY <2>1, FileThere
  <2>3. m \in {u} \cup Later(u) /\ m \in Upload
    <3>1. Len(got) + 1 \in DOMAIN Named(u)
      BY <2>1, <2>2
    <3> QED BY <1>0, <2>1, <2>2, <3>1, FileFit
  <2> HIDE DEF m
  <2>4. \A i \in DOMAIN got' : (i \in DOMAIN got /\ got'[i] = got[i]) \/ got'[i] = m
    BY <2>1, <2>3
  <2> QED BY <1>0, <2>1, <2>3, <2>4 DEF PartInv, Later
<1>4. ASSUME EndsFile PROVE PartInv'
  BY <1>4 DEF EndsFile, PartInv
<1>5. ASSUME NEW x \in Line, lines' = Append(lines, x), UNCHANGED load PROVE PartInv'
  <2>1. loading # Nobody => loading \in 1 .. Len(lines)
    BY <1>0 DEF LinesInv, Submitted
  <2>2. loading # Nobody => Later(loading) \subseteq Later(loading)' /\ lines'[loading] = lines[loading]
    BY <1>5, <2>1, LinesGrow
  <2> QED BY <1>0, <1>5, <2>2 DEF PartInv, Later
<1>6. ASSUME NEW s \in Sessions, QuitCommand(s) PROVE PartInv'
  <2>1. [name |-> Quit, size |-> 0] \in Line
    BY DEF Line
  <2> QED BY <1>5, <1>6, <2>1 DEF QuitCommand
<1>7. ASSUME NEW s \in Sessions, NEW g \in Names, OpenUpload(s, g) PROVE PartInv'
  <2>1. \A n \in Sizes : [name |-> g, size |-> n] \in Line
    BY DEF Line
  <2> QED BY <1>5, <1>7, <2>1 DEF OpenUpload
<1> QED
  BY <1>1, <1>2, <1>3, <1>4, <1>6, <1>7
  DEF Next, Progress, Server, TimesOut, Spawn, NoBinary, Assign, Starts, ReadChunk, ReadEnd, Reap,
      Notify, Cast, Notice, SendBacklog, BacklogRaises, BacklogEnds, Status, Leave, Reads, Join,
      Closes, WritePiece, SubmitUpload

LEMMA UploadStep == ASSUME TypeOK, UploadInv, [Next]_vars PROVE UploadInv'
BY FilesStep, LinesStep, PartStep DEF UploadInv

\* What the node has read stays what it was sent, or something later.
LEMMA FreshStep == ASSUME TypeOK, UploadInv, Fresh, [Next]_vars PROVE Fresh'
<1> USE BridgeAssumption
<1>0. LinesInv /\ PartInv
  BY DEF UploadInv
<1>1. CASE UNCHANGED <<ran, lines>>
  BY <1>1 DEF Fresh, IsFresh, Later
<1>2. ASSUME EndsFile PROVE Fresh'
  <2>1. CASE UNCHANGED ran
    BY <1>1, <1>2, <2>1 DEF EndsFile
  <2>2. CASE Len(got) = want /\ ran' = With(ran, loading, got)
    <3>1. IsFresh(loading, got) /\ UNCHANGED lines
      BY <1>0, <1>2, <2>2 DEF EndsFile, PartInv, IsFresh
    <3>2. \A u \in DOMAIN ran' : IsFresh(u, ran'[u])
      BY <2>2, <3>1 DEF Fresh, With
    <3> QED BY <3>1, <3>2 DEF Fresh, IsFresh, Later
  <2> QED BY <1>2, <2>1, <2>2 DEF EndsFile
<1>3. ASSUME NEW x \in Line, lines' = Append(lines, x), UNCHANGED ran PROVE Fresh'
  <2> SUFFICES ASSUME NEW u \in DOMAIN ran PROVE IsFresh(u, ran[u])'
    BY <1>3 DEF Fresh
  <2>1. PICK c : c = ran[u]
    OBVIOUS
  <2>2. IsFresh(u, c)'
    BY <1>0, <1>3, <2>1, FreshGrows DEF Fresh, LinesInv
  <2> QED BY <1>3, <2>1, <2>2 DEF IsFresh
<1>4. ASSUME NEW s \in Sessions, QuitCommand(s) PROVE Fresh'
  <2>1. [name |-> Quit, size |-> 0] \in Line
    BY DEF Line
  <2> QED BY <1>3, <1>4, <2>1 DEF QuitCommand
<1>5. ASSUME NEW s \in Sessions, NEW g \in Names, OpenUpload(s, g) PROVE Fresh'
  <2>1. \A n \in Sizes : [name |-> g, size |-> n] \in Line
    BY DEF Line
  <2> QED BY <1>3, <1>5, <2>1 DEF OpenUpload
<1> QED
  BY <1>1, <1>2, <1>4, <1>5
  DEF Next, Progress, Server, TimesOut, Spawn, NoBinary, Assign, Starts, ReadsLine, ReadsPiece,
      ReadChunk, ReadEnd, Reap, Notify, Cast, Notice, SendBacklog, BacklogRaises, BacklogEnds,
      Status, Leave, Reads, Join, Closes, WritePiece, SubmitUpload

LEMMA InitHolds == ASSUME Init PROVE TypeOK /\ UploadInv /\ Fresh
<1>1. TypeOK
  BY BridgeAssumption DEF Init, TypeOK, Nobody
<1>2. UploadInv
  BY DEF Init, UploadInv, FilesInv, LinesInv, PartInv, Waiting
<1>3. Fresh
  BY DEF Init, Fresh
<1> QED BY <1>1, <1>2, <1>3

\* Every variable keeps its type, and no connection's buffers hold more than they can: each
\* send is awaited.
THEOREM TypeCorrect == Spec => []TypeOK
<1>1. TypeOK /\ UploadInv /\ [Next]_vars => (TypeOK /\ UploadInv)'
  BY TypeStep, UploadStep
<1> QED BY <1>1, InitHolds, PTL DEF Spec

\* A submission runs all of its upload, or else pieces of it and of what came later under the
\* same name, never anything older, however the server's writes and the node's reads of the
\* file interleave.
THEOREM NeverOlder == Spec => []Fresh
<1>1. TypeOK /\ UploadInv /\ Fresh /\ [Next]_vars => (TypeOK /\ UploadInv /\ Fresh)'
  BY TypeStep, UploadStep, FreshStep
<1> QED BY <1>1, InitHolds, PTL DEF Spec

-------------------------------------------------------------------------------
\* A session is known to the server's coroutines from its begin on, and its backlog is
\* what was logged before.
LEMMA SessionStep == ASSUME TypeOK, SessionInv, [Next]_vars PROVE SessionInv'
<1> USE BridgeAssumption
<1>a. SpawnInv'
  <2>0. SpawnInv
    BY DEF SessionInv
  <2>1. CASE UNCHANGED <<waiter, reader, pending>>
    BY <2>0, <2>1 DEF SpawnInv
  <2>2. ASSUME NoBinary \/ Assign \/ Reap \/ Notify PROVE SpawnInv'
    BY <2>0, <2>2 DEF SpawnInv, NoBinary, Assign, Reap, Notify
  <2>3. ASSUME ReadChunk \/ ReadEnd PROVE SpawnInv'
    BY <2>0, <2>3 DEF SpawnInv, ReadChunk, ReadEnd, Listens
  <2>4. ASSUME NEW s \in Sessions, Cast(s) PROVE SpawnInv'
    BY <2>0, <2>4 DEF SpawnInv, Cast
  <2> QED
    BY <2>1, <2>2, <2>3, <2>4
    DEF Next, Progress, Server, TimesOut, Spawn, Starts, ReadsLine, ReadsPiece, EndsFile, Notice,
        SendBacklog, BacklogRaises, BacklogEnds, Status, Leave, Reads, Join, Closes, WritePiece,
        SubmitUpload, QuitCommand, OpenUpload
<1> SUFFICES ASSUME NEW x \in Sessions PROVE Begun(x)'
  BY <1>a DEF SessionInv
<1>0. Begun(x) /\ SpawnInv
  BY DEF SessionInv
<1>1. CASE UNCHANGED <<log, reader, pending, notices, clients, handler, slice, link, inbox, seen>>
  BY <1>1, <1>0 DEF Begun, CastTo
<1>2. ASSUME ReadChunk PROVE Begun(x)'
  BY <1>2, <1>0 DEF TypeOK, Begun, CastTo, ReadChunk, Listens
<1>3. ASSUME ReadEnd PROVE Begun(x)'
  BY <1>3, <1>0 DEF TypeOK, Begun, CastTo, ReadEnd, Listens
<1>4. ASSUME Notify PROVE Begun(x)'
  BY <1>4, <1>0 DEF TypeOK, Begun, CastTo, Notify
<1>5. ASSUME NEW s \in Sessions, Cast(s) PROVE Begun(x)'
  <2>1. /\ s \in pending /\ pending' = pending \ {s}
        /\ UNCHANGED <<log, reader, notices, clients, handler, slice, link, seen>>
    BY <1>5 DEF Cast
  <2>2. CASE x = s
    BY <1>0, <2>1, <2>2 DEF TypeOK, Begun, CastTo
  <2>3. CASE x # s
    <3>1. inbox'[x] = inbox[x]
      BY <1>5, <2>3 DEF TypeOK, Cast, Sends, Raises, Put
    <3> QED BY <1>0, <2>1, <2>3, <3>1 DEF Begun, CastTo
  <2> QED BY <2>2, <2>3
<1>6. ASSUME NEW s \in Sessions, Notice(s) PROVE Begun(x)'
  BY <1>6, <1>0 DEF TypeOK, Begun, CastTo, Notice, Sends, Raises, Put
<1>7. ASSUME NEW s \in Sessions, SendBacklog(s) PROVE Begun(x)'
  <2>1. CASE x = s
    <3>1. /\ next'[x] = next[x] + 1 /\ next[x] <= upto[x] /\ link[x] # "closed"
          /\ next[x] \in Nat /\ upto[x] \in Nat /\ first[x] \in Nat
      BY <1>7, <2>1 DEF TypeOK, SendBacklog, Sends
    <3>2. link[x] # "new"
      BY <1>0, <1>7, <2>1 DEF SendBacklog, Begun
    <3> QED BY <1>7, <1>0, <3>1, <3>2 DEF Begun, CastTo, SendBacklog
  <2>2. CASE x # s
    <3>1. next'[x] = next[x] /\ inbox'[x] = inbox[x]
      BY <1>7, <2>2 DEF TypeOK, SendBacklog, Sends, Put
    <3> QED BY <1>7, <1>0, <3>1 DEF Begun, CastTo, SendBacklog
  <2> QED BY <2>1, <2>2
<1>8. ASSUME NEW s \in Sessions, BacklogRaises(s) PROVE Begun(x)'
  BY <1>8, <1>0 DEF TypeOK, Begun, CastTo, BacklogRaises, Returns
<1>9. ASSUME NEW s \in Sessions, BacklogEnds(s) PROVE Begun(x)'
  BY <1>9, <1>0 DEF TypeOK, Begun, CastTo, BacklogEnds
<1>10. ASSUME NEW s \in Sessions, Status(s) PROVE Begun(x)'
  BY <1>10, <1>0 DEF TypeOK, Begun, CastTo, Status, Sends, Put
<1>11. ASSUME NEW s \in Sessions, Leave(s) PROVE Begun(x)'
  BY <1>11, <1>0 DEF TypeOK, Begun, CastTo, Leave, Returns
<1>12. ASSUME NEW s \in Sessions, Reads(s) PROVE Begun(x)'
  BY <1>12, <1>0 DEF TypeOK, Begun, CastTo, Reads
<1>13. ASSUME NEW s \in Sessions, Join(s) PROVE Begun(x)'
  BY <1>13, <1>0 DEF TypeOK, Begun, CastTo, Join
<1>14. ASSUME NEW s \in Sessions, Closes(s) PROVE Begun(x)'
  BY <1>14, <1>0 DEF TypeOK, Begun, CastTo, Closes
<1>15. ASSUME Assign PROVE Begun(x)'
  BY <1>15, <1>0 DEF SpawnInv, Begun, CastTo, Assign
<1> QED
  BY <1>1, <1>2, <1>3, <1>4, <1>5, <1>6, <1>7, <1>8, <1>9, <1>10, <1>11, <1>12, <1>13, <1>14, <1>15
  DEF Next, Progress, Server, TimesOut, Spawn, NoBinary, Starts, ReadsLine, ReadsPiece, EndsFile,
      Reap, WritePiece, SubmitUpload, QuitCommand, OpenUpload

\* Messages differ in what they say of the node.
LEMMA Sayings ==
    /\ \A n : ~ Up(Output(n)) /\ ~ Down(Output(n))
    /\ ~ Up(Done) /\ ~ Down(Done) /\ ~ Up(Exited) /\ Down(Exited)
    /\ Up(AliveIs(TRUE)) /\ ~ Down(AliveIs(TRUE))
    /\ ~ Up(AliveIs(FALSE)) /\ Down(AliveIs(FALSE))
  BY DEF Up, Down, Output, AliveIs, Done, Exited

\* A message sent after the news leaves it in force, or is the news.
LEMMA SettlesSent ==
    ASSUME TypeOK, NEW s \in Sessions, NEW m \in Message,
           inbox' = [inbox EXCEPT ![s] = Append(@, m)], alive' = alive,
           Down(m) \/ Settles(s), ~ Up(m)
    PROVE  Settles(s)'
<1> DEFINE q == inbox[s]
<1>1. q \in Seq(Message) /\ inbox'[s] = Append(q, m)
  BY DEF TypeOK
<1>2. /\ Len(inbox'[s]) = Len(q) + 1 /\ inbox'[s][Len(q) + 1] = m
      /\ \A i \in 1 .. Len(q) : inbox'[s][i] = q[i]
      /\ DOMAIN inbox'[s] = 1 .. Len(q) + 1 /\ DOMAIN q = 1 .. Len(q)
      /\ Len(q) \in Nat
  BY <1>1
<1> HIDE DEF q
<1>3. CASE Down(m)
  BY <1>2, <1>3 DEF Settles
<1>4. CASE Settles(s)
  <2>1. \A j \in DOMAIN inbox'[s] : j \in DOMAIN q \/ inbox'[s][j] = m
    BY <1>2
  <2> QED BY <1>2, <1>4, <2>1 DEF Settles, q
<1> QED BY <1>3, <1>4

\* onmessage takes the messages in order.
LEMMA SettlesRead == ASSUME TypeOK, NEW s \in Sessions, Reads(s), Settles(s) PROVE Settles(s)'
<1> DEFINE q == inbox[s]
           m == Head(q)
<1>1. /\ q \in Seq(Message) /\ q # <<>> /\ inbox'[s] = Tail(q)
      /\ alive'[s] = CASE m = Exited -> FALSE [] m.type = "status" -> m.alive
                       [] OTHER -> alive[s]
  BY DEF TypeOK, Reads
<1>2. /\ m = q[1] /\ m \in Message /\ Len(q) \in Nat \ {0}
      /\ DOMAIN q = 1 .. Len(q) /\ DOMAIN inbox'[s] = 1 .. Len(q) - 1
      /\ \A i \in 1 .. Len(q) - 1 : inbox'[s][i] = q[i + 1]
  BY <1>1
<1> HIDE DEF q, m
<1>3. /\ Down(m) => alive'[s] = FALSE
      /\ ~ Up(m) /\ alive[s] = FALSE => alive'[s] = FALSE
  <2>1. CASE Down(m)
    <3>1. CASE m = Exited
      <4>1. m.type # "status"
        BY <3>1 DEF Exited
      <4> QED BY <1>1, <3>1, <4>1
    <3>2. CASE m = AliveIs(FALSE)
      <4>1. m # Exited /\ m.type = "status" /\ m.alive = FALSE
        BY <3>2 DEF AliveIs, Exited
      <4> QED BY <1>1, <4>1
    <3> QED BY <2>1, <3>1, <3>2 DEF Down
  <2>2. CASE ~ Down(m) /\ ~ Up(m)
    <3>1. m # Exited
      BY <2>2 DEF Down
    <3>2. m.type = "status" => m.alive \in BOOLEAN /\ m = AliveIs(m.alive)
      BY <1>2 DEF Message, AliveIs, Done, Exited
    <3>3. m.type # "status"
      BY <2>2, <3>2 DEF Up, Down
    <3> QED BY <1>1, <2>2, <3>1, <3>3
  <2> QED BY <2>1, <2>2
<1>4. \A j \in DOMAIN inbox'[s] : j + 1 \in DOMAIN q /\ inbox'[s][j] = q[j + 1]
  BY <1>2
<1>5. alive[s] \in BOOLEAN /\ 1 \in DOMAIN q
  BY <1>2 DEF TypeOK
<1>6. CASE ~ alive[s] /\ \A j \in DOMAIN q : ~ Up(q[j])
  BY <1>2, <1>3, <1>4, <1>5, <1>6 DEF Settles
<1>7. CASE \E i \in DOMAIN q : Down(q[i]) /\ \A j \in DOMAIN q : j > i => ~ Up(q[j])
  <2>1. PICK i \in DOMAIN q : Down(q[i]) /\ \A j \in DOMAIN q : j > i => ~ Up(q[j])
    BY <1>7
  <2>2. CASE i = 1
    <3>1. \A j \in DOMAIN inbox'[s] : ~ Up(inbox'[s][j])
      BY <1>2, <1>4, <2>1, <2>2
    <3>2. ~ alive'[s]
      BY <1>2, <1>3, <2>1, <2>2
    <3> QED BY <3>1, <3>2 DEF Settles
  <2>3. CASE i # 1
    <3>1. i - 1 \in DOMAIN inbox'[s] /\ inbox'[s][i - 1] = q[i]
      BY <1>2, <2>3
    <3>2. \A j \in DOMAIN inbox'[s] : j > i - 1 => ~ Up(inbox'[s][j])
      BY <1>2, <1>4, <2>1
    <3> QED BY <2>1, <3>1, <3>2 DEF Settles
  <2> QED BY <2>2, <2>3
<1> QED BY <1>6, <1>7 DEF Settles, q

\* A send that says nothing of the node, or that it has ended once all are told so, is in
\* order; so is the answer to a status request.
LEMMA StatusSent ==
    ASSUME TypeOK, StatusInv, NEW s \in Sessions, NEW m \in Message, Sends(s, m),
           UNCHANGED <<waiter, link, alive>>,
           waiter # "done" => notices' = {},
           \A x \in Sessions \ {s} :
              (x \in notices) = (x \in notices') /\ UNCHANGED <<asked[x], early[x]>>,
           \/ /\ UNCHANGED <<asked, early>> /\ ~ Up(m) /\ (Down(m) => waiter = "done")
              /\ notices' = notices \/ Down(m)
           \/ /\ link[s] = "open" /\ ~ early[s] /\ ~ asked'[s] /\ (early'[s] <=> waiter = "spawn")
              /\ (Up(m) <=> waiter = "wait") /\ (Down(m) <=> waiter # "wait")
    PROVE  StatusInv'
<1>1. inbox' = [inbox EXCEPT ![s] = Append(@, m)] /\ inbox \in [Sessions -> Seq(Message)]
  BY DEF Sends, Put, TypeOK
<1>2. \A x \in Sessions : link'[x] = "new" => ~ early'[x]
  BY DEF StatusInv
<1> SUFFICES ASSUME NEW x \in Sessions, link'[x] = "open" PROVE Told(x)'
  BY <1>2 DEF StatusInv
<1>3. CASE x # s
  BY <1>1, <1>3 DEF StatusInv, Told, Settles
<1>4. CASE x = s
  <2>0. Told(s)
    BY <1>4 DEF StatusInv
  <2>1. waiter \in {"spawn", "wait"} /\ ~ early'[s] =>
           alive'[s] /\ \A i \in DOMAIN inbox'[s] : ~ Down(inbox'[s][i])
    <3>1. inbox[s] \in Seq(Message) /\ inbox'[s] = Append(inbox[s], m)
      BY <1>1
    <3>2. \A i \in DOMAIN inbox'[s] :
             \/ i \in DOMAIN inbox[s] /\ inbox'[s][i] = inbox[s][i]
             \/ inbox'[s][i] = m
      BY <3>1
    <3> QED BY <2>0, <3>2 DEF Told
  <2>2. ~ Up(m) /\ (Down(m) \/ Settles(s)) => Settles(s)'
    BY <1>1, SettlesSent
  <2>3. early'[s] => ~ asked'[s] /\ Settles(s)'
    BY <2>0, <2>2 DEF Told
  <2>4. waiter = "spawn" /\ ~ asked'[s] => early'[s]
    BY <2>0 DEF Told
  <2>5. waiter \in {"missing", "done"} /\ s \notin notices' /\ ~ asked'[s] => Settles(s)'
    BY <2>0, <2>2 DEF Told
  <2> QED BY <1>4, <2>1, <2>3, <2>4, <2>5 DEF Told
<1> QED BY <1>3, <1>4

\* The news that the node has ended reaches each page, or the page asks late enough.
LEMMA StatusStep == ASSUME TypeOK, SessionInv, StatusInv, [Next]_vars PROVE StatusInv'
<1> USE BridgeAssumption
<1>1. CASE UNCHANGED <<waiter, notices, link, inbox, alive, asked, early>>
  BY <1>1 DEF StatusInv, Told, Settles
<1>2. ASSUME NoBinary \/ Assign \/ Reap PROVE StatusInv'
  BY <1>2 DEF StatusInv, Told, Settles, NoBinary, Assign, Reap
<1>3. ASSUME Notify PROVE StatusInv'
  BY <1>3 DEF StatusInv, SessionInv, Begun, Told, Settles, Notify
<1>4. ASSUME NEW s \in Sessions, Raises(s), UNCHANGED <<waiter, link, alive, asked, early>>,
             notices' \in {notices, notices \ {s}}
      PROVE  StatusInv'
  BY <1>4 DEF StatusInv, Told, Settles, Raises
<1>5. ASSUME NEW s \in Sessions, Cast(s) PROVE StatusInv'
  <2>1. CASE Sends(s, Current)
    <3>1. Current \in Message /\ ~ Up(Current) /\ ~ Down(Current)
      BY Messages, Sayings DEF Current
    <3> QED BY <1>5, <2>1, <3>1, StatusSent DEF Cast, StatusInv
  <2>2. CASE Raises(s)
    BY <1>5, <2>2, <1>4 DEF Cast
  <2> QED BY <1>5, <2>1, <2>2 DEF Cast
<1>6. ASSUME NEW s \in Sessions, Notice(s) PROVE StatusInv'
  <2>1. /\ waiter = "done" /\ notices' = notices \ {s}
        /\ UNCHANGED <<waiter, link, alive, asked, early>>
    BY <1>6 DEF Notice, StatusInv
  <2>2. CASE Sends(s, Exited)
    <3>1. Exited \in Message /\ ~ Up(Exited) /\ Down(Exited)
      BY Messages, Sayings
    <3> QED BY <2>1, <2>2, <3>1, StatusSent
  <2>3. CASE Raises(s)
    BY <2>1, <2>3, <1>4
  <2> QED BY <1>6, <2>2, <2>3 DEF Notice
<1>7. ASSUME NEW s \in Sessions, SendBacklog(s) PROVE StatusInv'
  <2>1. Output(next[s]) \in Message /\ ~ Up(Output(next[s])) /\ ~ Down(Output(next[s]))
    BY Messages, Sayings DEF TypeOK
  <2> QED BY <1>7, <2>1, StatusSent DEF SendBacklog, StatusInv
<1>8. ASSUME NEW s \in Sessions, Status(s) PROVE StatusInv'
  <2>1. PICK m : m = AliveIs(ProcAlive)
    OBVIOUS
  <2>2. m \in Message /\ (Up(m) <=> waiter = "wait") /\ (Down(m) <=> waiter # "wait")
    <3>1. CASE waiter = "wait"
      <4>1. m = AliveIs(TRUE)
        BY <2>1, <3>1 DEF ProcAlive
      <4> QED BY <3>1, <4>1, Messages, Sayings
    <3>2. CASE waiter # "wait"
      <4>1. m = AliveIs(FALSE)
        BY <2>1, <3>2 DEF ProcAlive
      <4> QED BY <3>2, <4>1, Messages, Sayings
    <3> QED BY <3>1, <3>2
  <2>3. /\ Sends(s, m) /\ UNCHANGED <<waiter, link, alive, notices>> /\ asked[s]
        /\ asked' = [asked EXCEPT ![s] = FALSE] /\ asked \in [Sessions -> BOOLEAN]
        /\ early' = [early EXCEPT ![s] = waiter = "spawn"] /\ early \in [Sessions -> BOOLEAN]
    BY <1>8, <2>1 DEF Status, TypeOK
  <2>4. /\ \A x \in Sessions \ {s} : asked'[x] = asked[x] /\ early'[x] = early[x]
        /\ ~ asked'[s] /\ (early'[s] <=> waiter = "spawn")
    BY <2>3
  <2>5. waiter # "done" => notices' = {}
    BY <2>3 DEF StatusInv
  <2>6. link[s] = "open"
    BY <1>8, <2>3 DEF Status, Sends, SessionInv, Begun, TypeOK
  <2>7. ~ early[s]
    BY <2>3, <2>6 DEF StatusInv, Told
  <2> QED BY <2>2, <2>3, <2>4, <2>5, <2>6, <2>7, StatusSent
<1>9. ASSUME NEW s \in Sessions, Reads(s) PROVE StatusInv'
  <2>1. UNCHANGED <<waiter, notices, link, asked, early>> /\ link[s] = "open"
    BY <1>9 DEF Reads
  <2>2. \A x \in Sessions \ {s} : alive'[x] = alive[x] /\ inbox'[x] = inbox[x]
    BY <1>9 DEF Reads, TypeOK
  <2>3. Settles(s) => Settles(s)'
    BY <1>9, SettlesRead
  <2>4. ASSUME waiter \in {"spawn", "wait"}, ~ early[s]
        PROVE  alive'[s] /\ \A i \in DOMAIN inbox'[s] : ~ Down(inbox'[s][i])
    <3> DEFINE q == inbox[s]
               m == Head(q)
    <3>1. /\ q \in Seq(Message) /\ q # <<>> /\ inbox'[s] = Tail(q)
          /\ alive'[s] = CASE m = Exited -> FALSE [] m.type = "status" -> m.alive
                           [] OTHER -> alive[s]
      BY <1>9 DEF TypeOK, Reads
    <3>2. /\ m = q[1] /\ m \in Message /\ 1 \in DOMAIN q
          /\ \A i \in DOMAIN inbox'[s] : i + 1 \in DOMAIN q /\ inbox'[s][i] = q[i + 1]
      BY <3>1
    <3>3. alive[s] /\ \A i \in DOMAIN q : ~ Down(q[i])
      BY <2>1, <2>4 DEF StatusInv, Told
    <3>4. ~ Down(m)
      BY <3>2, <3>3
    <3> HIDE DEF q, m
    <3>5. alive'[s]
      BY <3>1, <3>2, <3>3, <3>4 DEF Down, Message, AliveIs, Done, Exited
    <3> QED BY <3>2, <3>3, <3>5
  <2>5. Told(s) => Told(s)'
    BY <2>1, <2>3, <2>4 DEF Told
  <2>6. \A x \in Sessions \ {s} : Told(x) => Told(x)'
    BY <2>1, <2>2 DEF Told, Settles
  <2> QED BY <2>1, <2>5, <2>6 DEF StatusInv
<1>10. ASSUME NEW s \in Sessions, Join(s) PROVE StatusInv'
  <2>1. inbox[s] = <<>> /\ ~ early[s]
    BY <1>10 DEF Join, SessionInv, Begun, StatusInv
  <2>2. /\ asked'[s] /\ alive'[s] /\ UNCHANGED <<waiter, notices, inbox, early>>
        /\ link'[s] = "open" /\ \A x \in Sessions \ {s} : UNCHANGED <<link[x], asked[x], alive[x]>>
    BY <1>10 DEF Join, TypeOK
  <2>3. ASSUME NEW x \in Sessions \ {s} PROVE Settles(x)' <=> Settles(x)
    BY <2>2 DEF Settles
  <2>4. DOMAIN inbox'[s] = {}
    BY <2>1, <2>2
  <2>5. Told(s)'
    BY <2>1, <2>2, <2>4 DEF Told
  <2>6. \A x \in Sessions \ {s} : Told(x) => Told(x)'
    BY <2>2, <2>3 DEF Told
  <2> QED BY <2>2, <2>5, <2>6 DEF StatusInv
<1>11. ASSUME NEW s \in Sessions, Closes(s) PROVE StatusInv'
  <2>1. /\ link'[s] = "closed" /\ UNCHANGED <<waiter, notices>>
        /\ \A x \in Sessions \ {s} :
              UNCHANGED <<link[x], asked[x], alive[x], inbox[x], early[x]>>
    BY <1>11 DEF Closes, TypeOK
  <2>2. ASSUME NEW x \in Sessions \ {s} PROVE Settles(x)' <=> Settles(x)
    BY <2>1 DEF Settles
  <2> QED BY <2>1, <2>2 DEF StatusInv, Told
<1> QED
  BY <1>1, <1>2, <1>3, <1>5, <1>6, <1>7, <1>8, <1>9, <1>10, <1>11
  DEF Next, Progress, Server, TimesOut, Spawn, Starts, ReadsLine, ReadsPiece, EndsFile, ReadChunk,
      ReadEnd, WritePiece, SubmitUpload, BacklogRaises, BacklogEnds, Leave, QuitCommand, OpenUpload

\* Once everything sent to it is handled, a page shows whether p2p_proc runs as far as the
\* server knows, unless it was answered before p2p_proc was assigned: then it shows the node
\* as stopped, whatever happens later.
THEOREM StatusTrue == Spec => []PageStatus
<1>1. Init => SessionInv /\ StatusInv
  BY DEF Init, SessionInv, SpawnInv, Begun, StatusInv
<1>2. /\ TypeOK /\ UploadInv /\ SessionInv /\ StatusInv /\ [Next]_vars
      => (TypeOK /\ UploadInv /\ SessionInv /\ StatusInv)'
  BY TypeStep, UploadStep, SessionStep, StatusStep
<1>3. TypeOK /\ StatusInv => PageStatus
  <2> SUFFICES ASSUME TypeOK, StatusInv, NEW s \in Sessions, link[s] = "open", inbox[s] = <<>>,
                      ~ asked[s], waiter # "told", s \notin notices
               PROVE  alive[s] = (ProcAlive /\ ~ early[s])
    BY DEF PageStatus
  <2>1. /\ DOMAIN inbox[s] = {} /\ alive[s] \in BOOLEAN /\ Told(s)
        /\ waiter \in {"spawn", "missing", "wait", "done"}
    BY DEF TypeOK, StatusInv
  <2>2. Settles(s) => ~ alive[s]
    BY <2>1 DEF Settles
  <2>3. alive[s] <=> waiter = "wait" /\ ~ early[s]
    BY <2>1, <2>2 DEF Told
  <2> QED BY <2>1, <2>3 DEF ProcAlive
<1> QED BY <1>1, <1>2, <1>3, InitHolds, PTL DEF Spec
-------------------------------------------------------------------------------
LEMMA Outputs ==
    /\ \A m \in Message : IsOutput(m) => m.n \in Nat /\ m = Output(m.n)
    /\ \A n : IsOutput(Output(n)) /\ Output(n).n = n
    /\ ~ IsOutput(Done) /\ ~ IsOutput(Exited) /\ \A b : ~ IsOutput(AliveIs(b))
  BY DEF Message, IsOutput, Output, AliveIs, Done, Exited

\* Messages that are no output take no part in what is held.
LEMMA HoldsOther ==
    ASSUME NEW r \in Seq(Message), NEW m \in Message, ~ IsOutput(m),
           NEW a, NEW b, NEW c, NEW d, NEW e, Holds(r, a, b, c, d, e), NEW q, q = Append(r, m)
    PROVE  Holds(q, a, b, c, d, e)
<1>1. /\ DOMAIN r = 1 .. Len(r) /\ DOMAIN q = 1 .. Len(r) + 1 /\ Len(r) \in Nat
      /\ q[Len(r) + 1] = m /\ \A i \in DOMAIN r : q[i] = r[i]
  OBVIOUS
<1>2. \A i \in DOMAIN q : IsOutput(q[i]) => i \in DOMAIN r /\ q[i] = r[i]
  BY <1>1
<1>3. \A n : (\E i \in DOMAIN q : q[i] = Output(n)) <=> (\E i \in DOMAIN r : r[i] = Output(n))
  BY <1>1, <1>2, Outputs
<1> QED BY <1>2, <1>3 DEF Holds

\* A live buffer comes after all that was broadcast to the browser before.
LEMMA HoldsCast ==
    ASSUME NEW r \in Seq(Message), NEW a \in Nat, NEW b \in Nat, NEW c \in Nat, NEW e \in Nat,
           b <= c + 1, c <= e - 1, Holds(r, a, b, c, e - 1, e), NEW q, q = Append(r, Output(e))
    PROVE  Holds(q, a, b, c, e, e)
<1>1. /\ DOMAIN r = 1 .. Len(r) /\ DOMAIN q = 1 .. Len(r) + 1 /\ Len(r) \in Nat
      /\ q[Len(r) + 1] = Output(e) /\ \A i \in DOMAIN r : q[i] = r[i]
      /\ \A i \in DOMAIN r : r[i] \in Message
  OBVIOUS
<1>2. \A i \in DOMAIN q : i \in DOMAIN r \/ i = Len(r) + 1
  BY <1>1
<1>3. \A i \in DOMAIN q : IsOutput(q[i]) => q[i].n \in 1 .. e
  BY <1>1, <1>2, Outputs DEF Holds
<1>4. ASSUME NEW n \in 1 .. e
      PROVE  (\E i \in DOMAIN q : q[i] = Output(n)) <=> n \in a .. b - 1 \/ n \in c + 1 .. e
  <2>1. CASE n = e
    BY <1>1, <2>1
  <2>2. CASE n # e
    <3>1. Output(n) # Output(e)
      BY <2>2, Outputs
    <3>2. (\E i \in DOMAIN q : q[i] = Output(n)) <=> (\E i \in DOMAIN r : r[i] = Output(n))
      BY <1>1, <1>2, <3>1
    <3>3. n \in c + 1 .. e <=> n \in c + 1 .. e - 1
      BY <2>2
    <3> QED BY <3>2, <3>3 DEF Holds
  <2> QED BY <2>1, <2>2
<1>5. ASSUME NEW i \in DOMAIN r, IsOutput(r[i]), ~ r[i].n <= c PROVE r[i].n < e
  <2>1. r[i].n \in 1 .. e /\ r[i] = Output(r[i].n)
    BY <1>1, <1>5, Outputs DEF Holds
  <2>2. r[i].n \in a .. b - 1 \/ r[i].n \in c + 1 .. e - 1
    BY <2>1 DEF Holds
  <2> QED BY <1>5, <2>1, <2>2
<1>6. ASSUME NEW i \in DOMAIN q, NEW j \in DOMAIN q, i < j, IsOutput(q[i]), IsOutput(q[j]),
             (q[i].n <= c) = (q[j].n <= c)
      PROVE  q[i].n < q[j].n
  <2>1. i \in DOMAIN r
    BY <1>1, <1>6
  <2>2. CASE j \in DOMAIN r
    BY <1>1, <1>6, <2>1, <2>2 DEF Holds
  <2>3. CASE j = Len(r) + 1
    <3>1. q[j].n = e /\ ~ q[j].n <= c
      BY <1>1, <2>3, Outputs
    <3> QED BY <1>1, <1>5, <1>6, <2>1, <3>1
  <2> QED BY <1>2, <2>2, <2>3
<1> QED BY <1>3, <1>4, <1>6 DEF Holds

\* A buffer of the backlog comes after those of the backlog sent before.
LEMMA HoldsBacklog ==
    ASSUME NEW r \in Seq(Message), NEW a \in Nat, NEW b \in Nat, NEW c \in Nat, NEW d \in Nat,
           NEW e \in Nat, 1 <= a, a <= b, b <= c, c <= d, d <= e, Holds(r, a, b, c, d, e),
           NEW q, q = Append(r, Output(b))
    PROVE  Holds(q, a, b + 1, c, d, e)
<1>1. /\ DOMAIN r = 1 .. Len(r) /\ DOMAIN q = 1 .. Len(r) + 1 /\ Len(r) \in Nat
      /\ q[Len(r) + 1] = Output(b) /\ \A i \in DOMAIN r : q[i] = r[i]
      /\ \A i \in DOMAIN r : r[i] \in Message
  OBVIOUS
<1>2. \A i \in DOMAIN q : i \in DOMAIN r \/ i = Len(r) + 1
  BY <1>1
<1>3. \A i \in DOMAIN q : IsOutput(q[i]) => q[i].n \in 1 .. e
  BY <1>1, <1>2, Outputs DEF Holds
<1>4. ASSUME NEW n \in 1 .. e
      PROVE  (\E i \in DOMAIN q : q[i] = Output(n)) <=> n \in a .. b \/ n \in c + 1 .. d
  <2>1. CASE n = b
    BY <1>1, <2>1
  <2>2. CASE n # b
    <3>1. Output(n) # Output(b)
      BY <2>2, Outputs
    <3>2. (\E i \in DOMAIN q : q[i] = Output(n)) <=> (\E i \in DOMAIN r : r[i] = Output(n))
      BY <1>1, <1>2, <3>1
    <3>3. n \in a .. b <=> n \in a .. b - 1
      BY <2>2
    <3> QED BY <3>2, <3>3 DEF Holds
  <2> QED BY <2>1, <2>2
<1>5. ASSUME NEW i \in DOMAIN r, IsOutput(r[i]), r[i].n <= c PROVE r[i].n < b
  <2>1. r[i].n \in 1 .. e /\ r[i] = Output(r[i].n)
    BY <1>1, <1>5, Outputs DEF Holds
  <2>2. r[i].n \in a .. b - 1 \/ r[i].n \in c + 1 .. d
    BY <2>1 DEF Holds
  <2> QED BY <1>5, <2>1, <2>2
<1>6. ASSUME NEW i \in DOMAIN q, NEW j \in DOMAIN q, i < j, IsOutput(q[i]), IsOutput(q[j]),
             (q[i].n <= c) = (q[j].n <= c)
      PROVE  q[i].n < q[j].n
  <2>1. i \in DOMAIN r
    BY <1>1, <1>6
  <2>2. CASE j \in DOMAIN r
    BY <1>1, <1>6, <2>1, <2>2 DEF Holds
  <2>3. CASE j = Len(r) + 1
    <3>1. q[j].n = b /\ q[j].n <= c
      BY <1>1, <2>3, Outputs
    <3> QED BY <1>1, <1>5, <1>6, <2>1, <3>1
  <2> QED BY <1>2, <2>2, <2>3
<1>7. \A n \in 1 .. e : n \in a .. b + 1 - 1 <=> n \in a .. b
  OBVIOUS
<1>8. \A n \in 1 .. e : (\E i \in DOMAIN q : q[i] = Output(n))
                          <=> n \in a .. b + 1 - 1 \/ n \in c + 1 .. d
  BY <1>4, <1>7
<1> QED BY <1>3, <1>6, <1>8 DEF Holds

\* A page that handles a message moves output to what it shows and drops the others.
LEMMA HoldsRead ==
    ASSUME NEW p \in Seq(Message), NEW q \in Seq(Message), q # <<>>,
           NEW a, NEW b, NEW c, NEW d, NEW e, Holds(p \o q, a, b, c, d, e),
           NEW t, t = (IF IsOutput(Head(q)) THEN Append(p, Head(q)) ELSE p) \o Tail(q)
    PROVE  Holds(t, a, b, c, d, e)
<1> DEFINE r == p \o q
           k == Len(p) + 1
<1>1. /\ k \in Nat /\ Len(q) \in Nat \ {0} /\ DOMAIN r = 1 .. Len(p) + Len(q)
      /\ k \in DOMAIN r /\ r[k] = Head(q)
  OBVIOUS
<1>2. CASE IsOutput(Head(q))
  <2>1. t = Append(p, Head(q)) \o Tail(q)
    BY <1>2
  <2>2. Append(p, Head(q)) \o Tail(q) = p \o q
    OBVIOUS
  <2> QED BY <2>1, <2>2
<1>3. CASE ~ IsOutput(Head(q))
  <2>1. /\ t = p \o Tail(q) /\ DOMAIN t = 1 .. Len(p) + Len(q) - 1
        /\ \A i \in DOMAIN t : t[i] = IF i < k THEN r[i] ELSE r[i + 1]
    <3>1. Tail(q) \in Seq(Message) /\ Len(Tail(q)) = Len(q) - 1
      OBVIOUS
    <3>2. \A i \in 1 .. Len(q) - 1 : Tail(q)[i] = q[i + 1]
      OBVIOUS
    <3>3. t = p \o Tail(q)
      BY <1>3
    <3>4. /\ DOMAIN t = 1 .. Len(p) + Len(q) - 1
          /\ \A i \in DOMAIN t :
                t[i] = IF i <= Len(p) THEN p[i] ELSE Tail(q)[i - Len(p)]
      <4>1. Len(p) \in Nat /\ Len(Tail(q)) = Len(q) - 1
        BY <3>1
      <4>2. QED
        BY <3>1, <3>3, <4>1
    <3>5. ASSUME NEW i \in DOMAIN t PROVE t[i] = IF i < k THEN r[i] ELSE r[i + 1]
      <4>1. Len(p) \in Nat /\ Len(q) \in Nat /\ i \in Nat /\ i <= Len(p) + Len(q) - 1
        BY <1>1, <3>4
      <4> HIDE DEF r
      <4>2. CASE i < k
        <5>1. i \in 1 .. Len(p)
          BY <3>4, <4>1, <4>2
        <5>2. QED
          BY <3>4, <4>1, <4>2, <5>1 DEF r
      <4>3. CASE ~ i < k
        <5>1. /\ i - Len(p) \in 1 .. Len(q) - 1 /\ ~ i <= Len(p)
              /\ i + 1 \in Len(p) + 1 .. Len(p) + Len(q) /\ i + 1 - Len(p) = i - Len(p) + 1
          BY <4>1, <4>3
        <5>2. t[i] = q[i - Len(p) + 1]
          BY <3>2, <3>4, <5>1
        <5>3. r[i + 1] = q[i + 1 - Len(p)]
          BY <5>1 DEF r
        <5>4. QED
          BY <4>3, <5>1, <5>2, <5>3
      <4>4. QED
        BY <4>2, <4>3
    <3>6. QED
      BY <3>3, <3>4, <3>5
  <2> HIDE DEF r, k
  <2>2. \A i \in DOMAIN t : i \in DOMAIN r /\ i + 1 \in DOMAIN r
    BY <1>1, <2>1
  <2>3. \A i \in DOMAIN r : IsOutput(r[i]) =>
           \/ i < k /\ i \in DOMAIN t /\ t[i] = r[i]
           \/ i > k /\ i - 1 \in DOMAIN t /\ t[i - 1] = r[i]
    <3>1. Len(p) \in Nat /\ Len(q) \in Nat \ {0} /\ k = Len(p) + 1
      BY <1>1 DEF k
    <3> SUFFICES ASSUME NEW i \in DOMAIN r, IsOutput(r[i])
                 PROVE  \/ i < k /\ i \in DOMAIN t /\ t[i] = r[i]
                        \/ i > k /\ i - 1 \in DOMAIN t /\ t[i - 1] = r[i]
      OBVIOUS
    <3>2. i \in 1 .. Len(p) + Len(q) /\ i # k
      BY <1>1, <1>3
    <3>3. CASE i < k
      <4>1. i \in DOMAIN t
        BY <2>1, <3>1, <3>2, <3>3
      <4> QED BY <2>1, <3>3, <4>1
    <3>4. CASE i > k
      <4>1. i - 1 \in DOMAIN t /\ ~ i - 1 < k /\ i - 1 + 1 = i
        BY <2>1, <3>1, <3>2, <3>4
      <4> QED BY <2>1, <3>4, <4>1
    <3> QED BY <3>1, <3>2, <3>3, <3>4
  <2>4. \A n : (\E i \in DOMAIN t : t[i] = Output(n)) <=> (\E i \in DOMAIN r : r[i] = Output(n))
    BY <2>1, <2>2, <2>3, Outputs
  <2>5. \A i \in DOMAIN t : IsOutput(t[i]) => t[i].n \in 1 .. e
    BY <2>1, <2>2 DEF Holds, r
  <2>6. ASSUME NEW i \in DOMAIN t, NEW j \in DOMAIN t, i < j, IsOutput(t[i]), IsOutput(t[j]),
               (t[i].n <= c) = (t[j].n <= c)
        PROVE  t[i].n < t[j].n
    <3>1. PICK x \in {i, i + 1}, y \in {j, j + 1} :
             x \in DOMAIN r /\ y \in DOMAIN r /\ x < y /\ t[i] = r[x] /\ t[j] = r[y]
      <4>1. i \in Nat /\ j \in Nat /\ k \in Nat
        BY <1>1, <2>1
      <4>2. PICK x \in {i, i + 1} : t[i] = r[x] /\ (x = i <=> i < k)
        <5>1. CASE i < k
          BY <2>1, <5>1
        <5>2. CASE ~ i < k
          <6>1. t[i] = r[i + 1] /\ i + 1 # i
            BY <2>1, <4>1, <5>2
          <6> QED BY <5>2, <6>1
        <5> QED BY <5>1, <5>2
      <4>3. PICK y \in {j, j + 1} : t[j] = r[y] /\ (y = j <=> j < k)
        <5>1. CASE j < k
          BY <2>1, <5>1
        <5>2. CASE ~ j < k
          <6>1. t[j] = r[j + 1] /\ j + 1 # j
            BY <2>1, <4>1, <5>2
          <6> QED BY <5>2, <6>1
        <5> QED BY <5>1, <5>2
      <4>4. x < y
        BY <2>6, <4>1, <4>2, <4>3
      <4> QED BY <2>2, <4>2, <4>3, <4>4
    <3> QED BY <2>6, <3>1 DEF Holds, r
  <2> QED BY <2>4, <2>5, <2>6 DEF Holds, r
<1> QED BY <1>2, <1>3

\* Another buffer is logged, and on its way to the browser.
LEMMA HoldsChunk ==
    ASSUME NEW r, NEW a \in Nat, NEW b \in Nat, NEW c \in Nat, NEW e \in Nat,
           b <= c + 1, c <= e, Holds(r, a, b, c, e, e), r \in Seq(Message)
    PROVE  Holds(r, a, b, c, e, e + 1)
<1>1. \A i \in DOMAIN r : IsOutput(r[i]) => r[i].n \in 1 .. e
  BY DEF Holds
<1>2. \A i \in DOMAIN r : IsOutput(r[i]) => r[i].n \in 1 .. e + 1
  BY <1>1
<1>3. ASSUME NEW n \in 1 .. e + 1
      PROVE  (\E i \in DOMAIN r : r[i] = Output(n)) <=> n \in a .. b - 1 \/ n \in c + 1 .. e
  <2>1. CASE n \in 1 .. e
    BY <2>1 DEF Holds
  <2>2. CASE n = e + 1
    <3>1. ~ \E i \in DOMAIN r : r[i] = Output(n)
      BY <1>1, <2>2, Outputs
    <3> QED BY <2>2, <3>1
  <2> QED BY <2>1, <2>2
<1> QED BY <1>2, <1>3 DEF Holds

\* A send that does not raise is put behind what the browser was sent before.
LEMMA ReceivedSent ==
    ASSUME TypeOK, NEW s \in Sessions, NEW m \in Message, Sends(s, m), UNCHANGED seen
    PROVE  /\ Received(s) \in Seq(Message) /\ Received(s)' = Append(Received(s), m)
           /\ \A x \in Sessions \ {s} : Received(x)' = Received(x)
<1>1. /\ seen[s] \in Seq(Message) /\ inbox[s] \in Seq(Message)
      /\ inbox'[s] = Append(inbox[s], m) /\ \A x \in Sessions \ {s} : inbox'[x] = inbox[x]
  BY DEF TypeOK, Sends, Put
<1>2. ASSUME NEW p \in Seq(Message), NEW q \in Seq(Message)
      PROVE  p \o q \in Seq(Message) /\ p \o Append(q, m) = Append(p \o q, m)
  OBVIOUS
<1>3. Received(s) \in Seq(Message) /\ Received(s)' = Append(Received(s), m)
  BY <1>1, <1>2 DEF Received
<1>4. \A x \in Sessions \ {s} : Received(x)' = Received(x)
  BY <1>1 DEF Received
<1> QED BY <1>3, <1>4

\* What a page was sent stays the output from its session's begin, each part in order.
LEMMA TranscriptStep ==
    ASSUME TypeOK, SessionInv, TranscriptInv, [Next]_vars PROVE TranscriptInv'
<1> USE BridgeAssumption
<1> DEFINE Same(x) == UNCHANGED <<Received(x), first[x], next[x], upto[x], CastTo(x), log>>
<1>1. ASSUME NEW x \in Sessions, link[x] = "open", Same(x) PROVE HoldsFor(x)'
  BY <1>1 DEF TranscriptInv, HoldsFor
<1>2. CASE UNCHANGED <<log, reader, pending, slice, link, inbox, seen>>
  BY <1>2 DEF TranscriptInv, HoldsFor, Received, CastTo
<1> HIDE DEF Same
<1>3. ASSUME NEW s \in Sessions, UNCHANGED <<log, reader, pending>>,
             link'[s] # "open",
             \A x \in Sessions \ {s} :
                /\ UNCHANGED <<link[x], first[x], next[x], upto[x], inbox[x], seen[x]>>
      PROVE  TranscriptInv'
  BY <1>1, <1>3 DEF TranscriptInv, Same, Received, CastTo
<1>4. ASSUME ReadChunk PROVE TranscriptInv'
  <2> SUFFICES ASSUME NEW x \in Sessions, link'[x] = "open" PROVE HoldsFor(x)'
    BY DEF TranscriptInv
  <2>1. /\ log' = log + 1 /\ x \in pending' /\ reader = "reading" /\ reader' = reader
        /\ pending = {} /\ UNCHANGED <<inbox, seen, slice>> /\ Begun(x) /\ HoldsFor(x)
        /\ link[x] = "open"
    BY <1>4 DEF ReadChunk, Listens, SessionInv, Begun, TranscriptInv
  <2>2. CastTo(x) = log /\ CastTo(x)' = log /\ Received(x)' = Received(x)
    BY <2>1 DEF CastTo, Received, TypeOK
  <2>3. Received(x) \in Seq(Message)
    BY DEF Received, TypeOK
  <2>4. Holds(Received(x), first[x], next[x], upto[x], log, log + 1)
    <3>1. first[x] \in Nat /\ next[x] \in Nat /\ upto[x] \in Nat /\ log \in Nat
      BY DEF TypeOK
    <3>2. next[x] <= upto[x] + 1 /\ upto[x] <= log
      BY <2>1, <2>2 DEF Begun
    <3>3. Holds(Received(x), first[x], next[x], upto[x], log, log)
      BY <2>1, <2>2 DEF HoldsFor
    <3> QED BY <2>3, <3>1, <3>2, <3>3, HoldsChunk
  <2> QED BY <2>1, <2>2, <2>4 DEF HoldsFor
<1>5. ASSUME ReadEnd PROVE TranscriptInv'
  <2>1. \A x \in Sessions : Same(x) /\ UNCHANGED link
    BY <1>5 DEF ReadEnd, Listens, Same, Received, CastTo
  <2> QED BY <1>1, <2>1 DEF TranscriptInv
<1>6. ASSUME NEW s \in Sessions, NEW m \in Message, Sends(s, m), ~ IsOutput(m),
             UNCHANGED <<log, slice, link, seen>>,
             \A x \in Sessions : UNCHANGED CastTo(x)
      PROVE  TranscriptInv'
  <2>1. \A x \in Sessions \ {s} : Same(x)
    BY <1>6, ReceivedSent DEF Same
  <2>2. ASSUME link[s] = "open" PROVE HoldsFor(s)'
    <3>1. Holds(Received(s)', first[s], next[s], upto[s], CastTo(s), log)
      BY <1>6, <2>2, ReceivedSent, HoldsOther DEF TranscriptInv, HoldsFor
    <3> QED BY <1>6, <3>1 DEF HoldsFor
  <2> QED BY <1>1, <1>6, <2>1, <2>2 DEF TranscriptInv
<1>7. ASSUME NEW s \in Sessions, Cast(s) PROVE TranscriptInv'
  <2>1. /\ s \in pending /\ pending' = pending \ {s}
        /\ UNCHANGED <<log, reader, slice, link, seen>>
    BY <1>7 DEF Cast
  <2>2. \A x \in Sessions \ {s} : UNCHANGED CastTo(x)
    BY <2>1 DEF CastTo
  <2>3. CASE Raises(s)
    <3>1. link'[s] # "open" /\ \A x \in Sessions \ {s} : Same(x)
      BY <2>1, <2>2, <2>3 DEF Raises, Same, Received
    <3> QED BY <1>1, <2>1, <3>1 DEF TranscriptInv
  <2>4. CASE Sends(s, Current) /\ reader = "done"
    <3>1. Current = Done /\ UNCHANGED CastTo(s)
      BY <2>1, <2>4 DEF Current, CastTo
    <3> QED BY <1>6, <2>1, <2>2, <2>4, <3>1, Messages, Outputs
  <2>5. CASE Sends(s, Current) /\ reader = "reading"
    <3>1. /\ Current = Output(log) /\ Output(log) \in Message
          /\ CastTo(s) = log - 1 /\ CastTo(s)' = log
      BY <2>1, <2>5, Messages DEF Current, CastTo, TypeOK
    <3>2. \A x \in Sessions \ {s} : Same(x)
      BY <2>1, <2>2, <2>5, <3>1, ReceivedSent DEF Same
    <3>3. ASSUME link[s] = "open" PROVE HoldsFor(s)'
      <4>1. /\ next[s] <= upto[s] + 1 /\ upto[s] <= log - 1
            /\ Holds(Received(s), first[s], next[s], upto[s], log - 1, log)
        BY <3>1, <3>3 DEF SessionInv, Begun, TranscriptInv, HoldsFor
      <4>2. Received(s) \in Seq(Message) /\ Received(s)' = Append(Received(s), Output(log))
        BY <2>1, <2>5, <3>1, ReceivedSent
      <4>3. Holds(Received(s)', first[s], next[s], upto[s], log, log)
        <5>1. first[s] \in Nat /\ next[s] \in Nat /\ upto[s] \in Nat /\ log \in Nat
          BY DEF TypeOK
        <5> QED BY <4>1, <4>2, <5>1, HoldsCast
      <4> QED BY <2>1, <3>1, <4>3 DEF HoldsFor
    <3> QED BY <1>1, <2>1, <3>2, <3>3 DEF TranscriptInv
  <2>6. reader # "none"
    BY <2>1 DEF SessionInv, SpawnInv
  <2> QED BY <1>7, <2>3, <2>4, <2>5, <2>6 DEF Cast, TypeOK
<1>8. ASSUME NEW s \in Sessions, Notice(s) PROVE TranscriptInv'
  <2>1. CASE Sends(s, Exited)
    BY <1>6, <1>8, <2>1, Messages, Outputs DEF Notice, CastTo
  <2>2. CASE Raises(s)
    BY <1>2, <1>8, <2>2 DEF Notice, Raises
  <2> QED BY <1>8, <2>1, <2>2 DEF Notice
<1>9. ASSUME NEW s \in Sessions, SendBacklog(s) PROVE TranscriptInv'
  <2>1. /\ Sends(s, Output(next[s])) /\ next' = [next EXCEPT ![s] = @ + 1]
        /\ next[s] <= upto[s] /\ Output(next[s]) \in Message
        /\ UNCHANGED <<log, reader, pending, first, upto, link, seen>>
    BY <1>9, Messages DEF SendBacklog, TypeOK
  <2>2. \A x \in Sessions \ {s} : Same(x)
    BY <2>1, ReceivedSent DEF Same, CastTo, TypeOK
  <2>3. ASSUME link[s] = "open" PROVE HoldsFor(s)'
    <3>1. /\ 1 <= first[s] /\ first[s] <= next[s] /\ upto[s] <= CastTo(s)
          /\ CastTo(s) \in Nat /\ CastTo(s) <= log /\ CastTo(s)' = CastTo(s)
      BY <2>1, <2>3 DEF SessionInv, Begun, CastTo, TypeOK
    <3>2. Received(s) \in Seq(Message) /\ Received(s)' = Append(Received(s), Output(next[s]))
      BY <2>1, ReceivedSent
    <3>3. Holds(Received(s)', first[s], next[s] + 1, upto[s], CastTo(s), log)
      <4>1. first[s] \in Nat /\ next[s] \in Nat /\ upto[s] \in Nat /\ log \in Nat
        BY DEF TypeOK
      <4>2. Holds(Received(s), first[s], next[s], upto[s], CastTo(s), log)
        BY <2>3 DEF TranscriptInv, HoldsFor
      <4> QED BY <2>1, <3>1, <3>2, <4>1, <4>2, HoldsBacklog
    <3>4. next'[s] = next[s] + 1
      BY <2>1 DEF TypeOK
    <3> QED BY <2>1, <3>1, <3>3, <3>4 DEF HoldsFor
  <2> QED BY <1>1, <2>1, <2>2, <2>3 DEF TranscriptInv
<1>10. ASSUME NEW s \in Sessions, BacklogRaises(s) \/ Leave(s) PROVE TranscriptInv'
  BY <1>3, <1>10 DEF BacklogRaises, Leave, Returns, TypeOK
<1>11. ASSUME NEW s \in Sessions, Status(s) PROVE TranscriptInv'
  <2>1. AliveIs(ProcAlive) \in Message /\ ~ IsOutput(AliveIs(ProcAlive))
    BY Messages, Outputs DEF ProcAlive
  <2> QED BY <1>6, <1>11, <2>1 DEF Status, CastTo
<1>12. ASSUME NEW s \in Sessions, Reads(s) PROVE TranscriptInv'
  <2> DEFINE q == inbox[s]
             m == Head(q)
  <2>1. /\ q \in Seq(Message) /\ q # <<>> /\ seen[s] \in Seq(Message)
        /\ inbox'[s] = Tail(q)
        /\ seen'[s] = IF IsOutput(m) THEN Append(seen[s], m) ELSE seen[s]
        /\ UNCHANGED <<log, reader, pending, slice, link>>
        /\ \A x \in Sessions \ {s} : UNCHANGED <<inbox[x], seen[x]>>
    BY <1>12 DEF Reads, TypeOK
  <2>2. \A x \in Sessions \ {s} : Same(x)
    BY <2>1 DEF Same, CastTo, Received
  <2>3. ASSUME link[s] = "open" PROVE HoldsFor(s)'
    <3>1. Received(s)' = (IF IsOutput(m) THEN Append(seen[s], m) ELSE seen[s]) \o Tail(q)
      BY <2>1 DEF Received
    <3>2. Holds(seen[s] \o q, first[s], next[s], upto[s], CastTo(s), log)
      BY <2>3 DEF TranscriptInv, HoldsFor, Received
    <3>3. Holds(Received(s)', first[s], next[s], upto[s], CastTo(s), log)
      BY <2>1, <3>1, <3>2, HoldsRead
    <3> QED BY <2>1, <3>3 DEF HoldsFor, CastTo
  <2> QED BY <1>1, <2>1, <2>2, <2>3 DEF TranscriptInv
<1>13. ASSUME NEW s \in Sessions, Join(s) PROVE TranscriptInv'
  <2>1. /\ inbox[s] = <<>> /\ seen[s] = <<>> /\ s \notin pending
        /\ UNCHANGED <<log, reader, pending, inbox, seen>>
        /\ upto'[s] = log /\ next'[s] = first'[s] /\ first'[s] \in Nat
    BY <1>13 DEF Join, SessionInv, Begun, TypeOK
  <2>2. \A x \in Sessions \ {s} : Same(x) /\ link'[x] = link[x]
    BY <1>13 DEF Join, Same, CastTo, Received, TypeOK
  <2>3. Received(s)' = <<>> /\ CastTo(s)' = log
    BY <2>1 DEF Received, CastTo
  <2>4. Holds(<<>>, first'[s], first'[s], log, log, log)
    BY <2>1 DEF Holds, TypeOK
  <2> QED BY <1>1, <2>1, <2>2, <2>3, <2>4 DEF TranscriptInv, HoldsFor
<1>14. ASSUME NEW s \in Sessions, Closes(s) PROVE TranscriptInv'
  BY <1>3, <1>14 DEF Closes, TypeOK
<1>15. ASSUME Assign PROVE TranscriptInv'
  <2>1. \A x \in Sessions : Same(x) /\ UNCHANGED link
    BY <1>15 DEF Assign, SessionInv, SpawnInv, Same, Received, CastTo
  <2> QED BY <1>1, <2>1 DEF TranscriptInv
<1> QED
  BY <1>2, <1>4, <1>5, <1>7, <1>8, <1>9, <1>10, <1>11, <1>12, <1>13, <1>14, <1>15
  DEF Next, Progress, Server, TimesOut, Spawn, NoBinary, Starts, ReadsLine, ReadsPiece, EndsFile,
      Reap, Notify, WritePiece, SubmitUpload, BacklogEnds, QuitCommand, OpenUpload

\* A page shows the node's output from its session's begin without loss, repetition or
\* disorder, although the broadcasts interleave with its backlog.
THEOREM OutputComplete == Spec => []Transcript
<1>1. Init => SessionInv /\ TranscriptInv
  BY DEF Init, SessionInv, SpawnInv, Begun, TranscriptInv
<1>2. /\ TypeOK /\ UploadInv /\ SessionInv /\ TranscriptInv /\ [Next]_vars
      => (TypeOK /\ UploadInv /\ SessionInv /\ TranscriptInv)'
  BY TypeStep, UploadStep, SessionStep, TranscriptStep
<1>3. TranscriptInv => Transcript
  BY DEF TranscriptInv, HoldsFor, Holds, Transcript, NothingLost, InOrder
<1> QED BY <1>1, <1>2, <1>3, InitHolds, PTL DEF Spec
===============================================================================
