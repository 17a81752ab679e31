---------------------------- MODULE DirectoryProofs ----------------------------
(***************************************************************************)
(* What holds of Directory for any nodes, addresses, delays and timeouts.  *)
(***************************************************************************)
EXTENDS Directory, FiniteSetTheorems, WellFoundedInduction, TLAPS

-------------------------------------------------------------------------------
\* Types

LEMMA NoneIsNoEntry == \A e \in Entry : e # None
  BY DEF Entry, None

\* A step that changes the table adds an address that is not the node's own, removes one,
\* refreshes the entry of one, drops stale entries, or only lets the entries age.
LEMMA TableChange ==
  ASSUME TypeOK, [Next]_vars
  PROVE  \/ UNCHANGED table
         \/ \E n \in Nodes : Ip[n] # LocalIp /\ Add(Ip[n], n)
         \/ \E ip \in Ips : Remove(ip) \/ Refresh(ip)
         \/ table' = [s \in Slots |-> IF Stale(s) THEN None ELSE table[s]]
         \/ table' = [s \in Slots |-> Older(table[s])]
<1>1. ASSUME NEW n \in Nodes, Start(n) \/ Announce(n) \/ Leave(n) \/ Exit(n) \/ Reply(n)
      PROVE  UNCHANGED table
  BY <1>1 DEF Start, Announce, Leave, Exit, Reply
<1>2. ASSUME NEW m \in net, Lose(m) PROVE UNCHANGED table
  BY <1>2 DEF Lose
<1>3. ASSUME NEW m \in net, Receive(m)
      PROVE  \/ UNCHANGED table
             \/ \E n \in Nodes : Ip[n] # LocalIp /\ Add(Ip[n], n)
             \/ \E ip \in Ips : Remove(ip)
  <2>1. m.from \in Nodes /\ Ip[m.from] \in Ips
    BY DEF TypeOK, Datagram, Ips
  <2>2. QED
    BY <1>3, <2>1 DEF Receive, Own
<1>4. ASSUME NEW ip \in snapshot, Ask(ip) PROVE UNCHANGED table
  BY <1>4 DEF Ask
<1>5. CASE Touch
  BY <1>5 DEF Touch, TypeOK
<1>6. CASE Conclude
  BY <1>6 DEF Conclude, TypeOK
<1>7. CASE Wake \/ Dispatch \/ UNCHANGED vars
  BY <1>7 DEF Wake, Dispatch, vars
<1>8. CASE Scan
  BY <1>8 DEF Scan
<1>9. CASE Tick
  BY <1>9 DEF Tick
<1>10. QED
  BY <1>1, <1>2, <1>3, <1>4, <1>5, <1>6, <1>7, <1>8, <1>9 DEF Next

\* The reaper's record is not the mark of an absent one.
LEMMA ReaperIsThere ==
  ASSUME TypeOK
  PROVE  reaper # None
<1>1. DOMAIN reaper = {"pc", "age"}
  BY DEF TypeOK
<1>2. DOMAIN None = {"none"}
  BY DEF None
<1>3. QED
  BY <1>1, <1>2

\* Every change leaves an entry or None in each slot.
LEMMA TableTyped ==
  ASSUME TypeOK, [Next]_vars
  PROVE  table' \in [Slots -> Entry \cup {None}]
<1>1. table \in [Slots -> Entry \cup {None}]
  BY DEF TypeOK
<1>2. ASSUME NEW n \in Nodes, Add(Ip[n], n) PROVE table' \in [Slots -> Entry \cup {None}]
  BY <1>1, <1>2 DEF Add, Entry, Ips
<1>3. ASSUME NEW ip, Remove(ip) PROVE table' \in [Slots -> Entry \cup {None}]
  BY <1>1, <1>3 DEF Remove
<1>4. ASSUME NEW ip, Refresh(ip) PROVE table' \in [Slots -> Entry \cup {None}]
  <2>1. ASSUME NEW s \in Slots, Holds(s, ip) PROVE [table[s] EXCEPT !.age = 0] \in Entry
    BY <1>1, <2>1 DEF Holds, Entry
  <2>2. QED
    BY <1>1, <1>4, <2>1 DEF Refresh
<1>5. ASSUME table' = [s \in Slots |-> Older(table[s])]
      PROVE  table' \in [Slots -> Entry \cup {None}]
  <2>1. ASSUME NEW s \in Slots PROVE Older(table[s]) \in Entry \cup {None}
    BY <1>1 DEF Older, Entry
  <2>2. QED
    BY <1>5, <2>1
<1>6. QED
  BY <1>1, <1>2, <1>3, <1>4, <1>5, TableChange
-------------------------------------------------------------------------------
LEMMA TypeStep ==
  ASSUME TypeOK, [Next]_vars
  PROVE  TypeOK'
<1>0. table' \in [Slots -> Entry \cup {None}]
  BY TableTyped
<1>1. ASSUME NEW n \in Nodes, Start(n) PROVE TypeOK'
  BY <1>0, <1>1, DirectoryAssumption DEF Start, TypeOK, Horizon, Forgotten, Known
<1>2. ASSUME NEW n \in Nodes, Announce(n) PROVE TypeOK'
  BY <1>0, <1>2, DirectoryAssumption DEF Announce, Send, TypeOK, Horizon, Datagram
<1>3. ASSUME NEW n \in Nodes, Leave(n) PROVE TypeOK'
  BY <1>0, <1>3, DirectoryAssumption DEF Leave, Send, TypeOK, Horizon, Datagram, clocks
<1>4. ASSUME NEW n \in Nodes, Exit(n) PROVE TypeOK'
  BY <1>0, <1>4, DirectoryAssumption DEF Exit, TypeOK, Horizon, Forgotten, Known
<1>5. ASSUME NEW n \in Nodes, Reply(n) PROVE TypeOK'
  BY <1>0, <1>5 DEF Reply, TypeOK, Horizon, clocks
<1>6. ASSUME NEW m \in net, Lose(m) PROVE TypeOK'
  BY <1>0, <1>6 DEF Lose, TypeOK, Horizon, clocks, Datagram
<1>7. ASSUME NEW m \in net, Receive(m) PROVE TypeOK'
  BY <1>0, <1>7, DirectoryAssumption DEF Receive, TypeOK, Horizon, clocks, Datagram, Ips
<1>8. ASSUME NEW ip \in snapshot, Ask(ip) PROVE TypeOK'
  BY <1>0, <1>8, DirectoryAssumption DEF Ask, TypeOK, Horizon, clocks
<1>9. CASE Touch
  BY <1>0, <1>9 DEF Touch, TypeOK, Horizon, clocks
<1>10. CASE Conclude
  BY <1>0, <1>10 DEF Conclude, TypeOK, Horizon, clocks
<1>11. CASE Wake \/ Dispatch
  BY <1>0, <1>11, DirectoryAssumption DEF Wake, Dispatch, TypeOK, Horizon, clocks, Used, Entry
<1>12. CASE Scan
  BY <1>0, <1>12, DirectoryAssumption DEF Scan, TypeOK, Horizon, clocks
<1>13. CASE Tick
  <2>1. /\ node' \in [Nodes -> {"down", "up", "leaving"}] /\ lost' \in [Nodes -> BOOLEAN]
        /\ timer' \in [Nodes -> 0 .. HelloInterval]
    BY <1>13, DirectoryAssumption DEF Tick, TypeOK
  <2>2. since' \in [Nodes -> Nat] /\ \A n \in Nodes : since'[n] <= Horizon(n)'
    <3>1. \A n \in Nodes : Horizon(n) \in Nat
      BY DirectoryAssumption DEF Horizon, Forgotten, Known
    <3>2. \A n \in Nodes : Horizon(n)' = Horizon(n)
      BY <1>13 DEF Tick, Horizon
    <3>3. QED
      BY <1>13, <3>1, <3>2 DEF Tick, TypeOK
  <2>3. net' \subseteq Datagram
    BY <1>13, DirectoryAssumption DEF Tick, TypeOK, Datagram
  <2>4. listener' \in [ip : Ips, age : 0 .. Lag] \cup {None}
    BY <1>13, DirectoryAssumption DEF Tick, TypeOK, Older
  <2>5. query' \in [ip : Ips, replied : BOOLEAN, age : 0 .. MaxDelay] \cup {None}
    BY <1>13, DirectoryAssumption DEF Tick, TypeOK, Older
  <2>6. reaper' \in [pc : {"sleep", "scan"}, age : 0 .. ReapInterval + Lag]
    <3>1. reaper # None
      BY ReaperIsThere
    <3>2. QED
      BY <1>13, <3>1, DirectoryAssumption DEF Tick, TypeOK, Older
  <2>7. snapshot' \subseteq Ips
    BY <1>13 DEF Tick, TypeOK
  <2>8. QED
    BY <1>0, <2>1, <2>2, <2>3, <2>4, <2>5, <2>6, <2>7 DEF TypeOK
<1>14. CASE UNCHANGED vars
  BY <1>14 DEF vars, clocks, TypeOK, Horizon
<1>15. QED
  BY <1>1, <1>2, <1>3, <1>4, <1>5, <1>6, <1>7, <1>8, <1>9, <1>10, <1>11, <1>12, <1>13, <1>14
  DEF Next

\* Every variable keeps its type.
THEOREM TypeCorrect == Spec => []TypeOK
<1>1. Init => TypeOK
  BY DirectoryAssumption DEF Init, TypeOK, Horizon, Forgotten, Known
<1>2. QED
  BY <1>1, TypeStep, PTL DEF Spec
-------------------------------------------------------------------------------
\* Addresses

LEMMA UniqueStep ==
  ASSUME TypeOK, UniqueIp, [Next]_vars
  PROVE  UniqueIp'
<1>1. /\ table \in [Slots -> Entry \cup {None}] /\ None \notin Entry
      /\ \A s, t \in Slots :
            table[s] # None /\ table[t] # None /\ table[s].ip = table[t].ip => s = t
  BY NoneIsNoEntry DEF TypeOK, UniqueIp, Used
<1> DEFINE UniqueNext ==
      \A s, t \in Slots :
        table'[s] # None /\ table'[t] # None /\ table'[s].ip = table'[t].ip => s = t
<1> SUFFICES UniqueNext
  BY DEF UniqueIp, Used
<1>2. CASE UNCHANGED table
  BY <1>1, <1>2
<1>3. ASSUME NEW n \in Nodes, Add(Ip[n], n) PROVE UniqueNext
  <2>1. \A s, t \in Slots : Free(s) /\ Free(t) => s = t
    BY DEF Free, Slots
  <2>2. \A s \in Slots :
          \/ table'[s] = table[s] /\ ~ Holds(s, Ip[n])
          \/ table'[s].ip = Ip[n] /\ (Holds(s, Ip[n]) \/ (~ Listed(Ip[n]) /\ Free(s)))
    BY <1>3 DEF Add
  <2>3. QED
    BY <1>1, <2>1, <2>2 DEF Holds, Listed
<1>4. ASSUME NEW ip \in Ips, Remove(ip) PROVE UniqueNext
  BY <1>1, <1>4 DEF Remove
<1>5. ASSUME NEW ip \in Ips, Refresh(ip) PROVE UniqueNext
  <2>1. \A s \in Slots : Holds(s, ip) => [table[s] EXCEPT !.age = 0].ip = table[s].ip
    BY <1>1 DEF Holds, Entry
  <2>2. \A s \in Slots : table'[s] # None => table[s] # None /\ table'[s].ip = table[s].ip
    BY <1>5, <2>1 DEF Refresh, Holds
  <2>3. QED
    BY <1>1, <2>2
<1>6. CASE table' = [s \in Slots |-> IF Stale(s) THEN None ELSE table[s]]
  BY <1>1, <1>6
<1>7. CASE table' = [s \in Slots |-> Older(table[s])]
  <2>1. \A s \in Slots : table[s] # None => Older(table[s]).ip = table[s].ip
    BY <1>1 DEF Older, Entry
  <2>2. \A s \in Slots : table'[s] # None => table[s] # None /\ table'[s].ip = table[s].ip
    BY <1>7, <2>1 DEF Older
  <2>3. QED
    BY <1>1, <2>2
<1>8. QED
  BY <1>2, <1>3, <1>4, <1>5, <1>6, <1>7, TableChange

\* No address takes two slots, whatever order HELLOs, BYEs, replies and the reaper come in.
THEOREM AddressUnique == Spec => []UniqueIp
<1>1. Init => TypeOK /\ UniqueIp
  BY DirectoryAssumption DEF Init, TypeOK, Horizon, Forgotten, Known, UniqueIp, Used
<1>2. QED
  BY <1>1, TypeStep, UniqueStep, PTL DEF Spec

\* No entry has the node's own address.
ForeignOnly == \A s \in Used : table[s].ip # LocalIp /\ Ip[table[s].port] = table[s].ip

LEMMA ForeignStep ==
  ASSUME TypeOK, ForeignOnly, [Next]_vars
  PROVE  ForeignOnly'
<1>1. /\ table \in [Slots -> Entry \cup {None}] /\ None \notin Entry
      /\ \A s \in Slots : table[s] # None =>
            table[s].ip # LocalIp /\ Ip[table[s].port] = table[s].ip
  BY NoneIsNoEntry DEF TypeOK, ForeignOnly, Used
<1> DEFINE ForeignNext ==
      \A s \in Slots : table'[s] # None =>
        table'[s].ip # LocalIp /\ Ip[table'[s].port] = table'[s].ip
<1>2. ASSUME NEW n \in Nodes, Ip[n] # LocalIp, Add(Ip[n], n) PROVE ForeignNext
  BY <1>1, <1>2 DEF Add
<1>3. ASSUME NEW ip \in Ips, Remove(ip) PROVE ForeignNext
  BY <1>1, <1>3 DEF Remove
<1>4. ASSUME NEW ip \in Ips, Refresh(ip) PROVE ForeignNext
  <2>1. \A s \in Slots : Holds(s, ip) =>
          /\ [table[s] EXCEPT !.age = 0].ip = table[s].ip
          /\ [table[s] EXCEPT !.age = 0].port = table[s].port
    BY <1>1 DEF Holds, Entry
  <2>2. QED
    BY <1>1, <1>4, <2>1 DEF Refresh, Holds
<1>5. ASSUME table' = [s \in Slots |-> Older(table[s])] PROVE ForeignNext
  <2>1. \A s \in Slots : table[s] # None =>
          Older(table[s]).ip = table[s].ip /\ Older(table[s]).port = table[s].port
    BY <1>1 DEF Older, Entry
  <2>2. QED
    BY <1>1, <1>5, <2>1 DEF Older
<1>6. ForeignNext
  BY <1>1, <1>2, <1>3, <1>4, <1>5, TableChange
<1>7. QED
  BY <1>6 DEF ForeignOnly, Used

\* A node that knows its address is never its own peer.
THEOREM NeverOwnPeer ==
  ASSUME LocalIp = Ip[Self]
  PROVE  Spec => []NoSelfPeer
<1>1. Init => TypeOK /\ ForeignOnly
  BY DirectoryAssumption DEF Init, TypeOK, Horizon, Forgotten, Known, ForeignOnly, Used
<1>2. ForeignOnly => NoSelfPeer
  BY DEF ForeignOnly, NoSelfPeer
<1>3. QED
  BY <1>1, <1>2, TypeStep, ForeignStep, PTL DEF Spec
-------------------------------------------------------------------------------
\* Departed nodes

\* The address is that of a node that runs, or ended at most k ticks ago.
Recent(ip, k) == \E n \in Nodes : Ip[n] = ip /\ (node[n] # "down" \/ since[n] <= k)
RecentNext(ip, k) == \E n \in Nodes : Ip[n] = ip /\ (node'[n] # "down" \/ since'[n] <= k)

\* Whatever names an address is no older than the node's end, and the delays it has had.
FromRecent ==
  /\ \A m \in net : Recent(Ip[m.from], m.age)
  /\ listener # None => Recent(listener.ip, MaxDelay + listener.age)
  /\ query # None /\ query.replied => Recent(query.ip, query.age)
  /\ \A s \in Slots : table[s] # None => Recent(table[s].ip, MaxDelay + Lag + table[s].age)

\* The reaper's last scan left no entry older than the timeout and the time it took to get
\* the lock.
Overtime == IF reaper.pc = "scan" THEN ReapInterval + Lag ELSE 0
ReaperInTime == reaper.age <= Lag + IF reaper.pc = "sleep" THEN ReapInterval ELSE 0
Young ==
  \A s \in Slots : table[s] # None => table[s].age <= PeerTimeout + Lag + reaper.age + Overtime
ReapInv == ReaperInTime /\ Young

\* Unless time passes, a recent address stays recent.
LEMMA RecentKept ==
  ASSUME TypeOK, [Next]_vars, ~ Tick, NEW ip, NEW k \in Nat, Recent(ip, k)
  PROVE  RecentNext(ip, k)
<1>1. PICK n \in Nodes : Ip[n] = ip /\ (node[n] # "down" \/ since[n] <= k)
  BY DEF Recent
<1>2. (node[n] = "down" /\ since[n] <= k) \/ node[n] \in {"up", "leaving"}
  BY <1>1 DEF TypeOK
<1>3. node'[n] # "down" \/ since'[n] <= k
  <2>1. ASSUME NEW m \in Nodes, Start(m) PROVE node'[n] # "down" \/ since'[n] <= k
    BY <1>2, <2>1 DEF Start, TypeOK
  <2>2. ASSUME NEW m \in Nodes, Leave(m) PROVE node'[n] # "down" \/ since'[n] <= k
    BY <1>2, <2>2 DEF Leave, TypeOK, clocks
  <2>3. ASSUME NEW m \in Nodes, Exit(m) PROVE node'[n] # "down" \/ since'[n] <= k
    BY <1>2, <2>3 DEF Exit, TypeOK
  <2>4. CASE UNCHANGED <<node, since>>
    BY <1>1, <2>4
  <2>5. (\A m \in Nodes : ~ Start(m) /\ ~ Leave(m) /\ ~ Exit(m)) => UNCHANGED <<node, since>>
    BY DEF Next, Announce, Reply, Lose, Receive, Ask, Dispatch, Touch, Conclude, Wake, Scan, vars, clocks
  <2>6. QED
    BY <2>1, <2>2, <2>3, <2>4, <2>5
<1>4. QED
  BY <1>1, <1>3 DEF RecentNext

\* In a tick it grows older by one.
LEMMA RecentAged ==
  ASSUME TypeOK, Tick, NEW ip, NEW k \in Nat, Recent(ip, k)
  PROVE  RecentNext(ip, k + 1)
<1>1. PICK n \in Nodes : Ip[n] = ip /\ (node[n] # "down" \/ since[n] <= k)
  BY DEF Recent
<1>2. node'[n] = node[n] /\ since'[n] <= since[n] + 1 /\ since[n] \in Nat /\ since'[n] \in Nat
  BY DEF Tick, TypeOK
<1>3. QED
  BY <1>1, <1>2 DEF RecentNext

\* A longer time is a weaker claim.
LEMMA RecentLonger ==
  ASSUME TypeOK', NEW ip, NEW j \in Nat, NEW k \in Nat, j <= k, RecentNext(ip, j)
  PROVE  RecentNext(ip, k)
<1>1. PICK n \in Nodes : Ip[n] = ip /\ (node'[n] # "down" \/ since'[n] <= j)
  BY DEF RecentNext
<1>2. since'[n] \in Nat
  BY DEF TypeOK
<1>3. QED
  BY <1>1, <1>2 DEF RecentNext

LEMMA FromRecentStep ==
  ASSUME TypeOK, TypeOK', FromRecent, [Next]_vars
  PROVE  FromRecent'
<1> DEFINE NetOk == \A m \in net' : RecentNext(Ip[m.from], m.age)
           ListenerOk == listener' # None => RecentNext(listener'.ip, MaxDelay + listener'.age)
           QueryOk == query' # None /\ query'.replied => RecentNext(query'.ip, query'.age)
           TableOk == \A s \in Slots : table'[s] # None =>
                         RecentNext(table'[s].ip, MaxDelay + Lag + table'[s].age)
<1> SUFFICES NetOk /\ ListenerOk /\ QueryOk /\ TableOk
  BY DEF FromRecent, Recent, RecentNext
<1> USE DirectoryAssumption
<1>1. /\ \A m \in net : m.from \in Nodes /\ m.age \in 0 .. MaxDelay
      /\ listener # None => listener.age \in 0 .. Lag
      /\ query # None => query.age \in 0 .. MaxDelay
      /\ \A s \in Slots : table[s] # None => table[s] \in Entry /\ table[s].age \in Nat
      /\ MaxDelay \in Nat /\ Lag \in Nat
  BY DEF TypeOK, Datagram, Entry
<1>2. CASE ~ Tick
  <2>1. /\ \A m \in net : RecentNext(Ip[m.from], m.age)
        /\ listener # None => RecentNext(listener.ip, MaxDelay + listener.age)
        /\ query # None /\ query.replied => RecentNext(query.ip, query.age)
        /\ \A s \in Slots : table[s] # None =>
              RecentNext(table[s].ip, MaxDelay + Lag + table[s].age)
    BY <1>1, <1>2, RecentKept DEF FromRecent
  <2>2. ASSUME NEW n \in Nodes, Start(n) \/ Exit(n) PROVE NetOk /\ ListenerOk /\ QueryOk /\ TableOk
    BY <2>1, <2>2 DEF Start, Exit
  <2>3. ASSUME NEW n \in Nodes, Announce(n) \/ Leave(n)
        PROVE  NetOk /\ ListenerOk /\ QueryOk /\ TableOk
    <3>1. PICK type \in {"HELLO", "BYE"} : Send(n, type)
      BY <2>3 DEF Announce, Leave
    <3>2. RecentNext(Ip[n], 0)
      BY <2>3 DEF Announce, Leave, RecentNext, TypeOK
    <3>3. NetOk
      BY <2>1, <3>1, <3>2 DEF Send
    <3>4. QED
      BY <2>1, <2>3, <3>3 DEF Announce, Leave
  <2>4. ASSUME NEW n \in Nodes, Reply(n) PROVE NetOk /\ ListenerOk /\ QueryOk /\ TableOk
    <3>1. query'.ip = Ip[n] /\ query'.age \in Nat /\ node'[n] # "down"
      BY <1>1, <2>4 DEF Reply, TypeOK
    <3>2. QED
      BY <2>1, <2>4, <3>1 DEF Reply, RecentNext
  <2>5. ASSUME NEW m \in net, Lose(m) PROVE NetOk /\ ListenerOk /\ QueryOk /\ TableOk
    BY <2>1, <2>5 DEF Lose
  <2>6. ASSUME NEW m \in net, Receive(m) PROVE NetOk /\ ListenerOk /\ QueryOk /\ TableOk
    <3>1. NetOk /\ QueryOk
      BY <2>1, <2>6 DEF Receive
    <3>2. RecentNext(Ip[m.from], MaxDelay) /\ RecentNext(Ip[m.from], MaxDelay + Lag)
      BY <1>1, <2>1, RecentLonger
    <3>3. CASE Own(m)
      BY <2>1, <2>6, <3>1, <3>3 DEF Receive
    <3>4. CASE Add(Ip[m.from], m.from) /\ listener' = [ip |-> Ip[m.from], age |-> 0]
      BY <2>1, <3>1, <3>2, <3>4 DEF Add
    <3>5. CASE Remove(Ip[m.from]) /\ UNCHANGED listener
      BY <2>1, <3>1, <3>5 DEF Remove
    <3>6. QED
      BY <2>6, <3>3, <3>4, <3>5 DEF Receive
  <2>7. ASSUME NEW ip \in snapshot, Ask(ip) PROVE NetOk /\ ListenerOk /\ QueryOk /\ TableOk
    BY <2>1, <2>7 DEF Ask
  <2>8. ASSUME NEW ip, Refresh(ip), RecentNext(ip, MaxDelay + Lag) PROVE TableOk
    <3>1. ASSUME NEW s \in Slots, table'[s] # None
          PROVE  RecentNext(table'[s].ip, MaxDelay + Lag + table'[s].age)
      <4>1. CASE Holds(s, ip)
        <5>1. table'[s].ip = ip /\ table'[s].age = 0
          BY <1>1, <2>8, <4>1 DEF Refresh, Holds, Entry
        <5>2. QED
          BY <1>1, <2>8, <5>1
      <4>2. CASE ~ Holds(s, ip)
        BY <2>1, <2>8, <3>1, <4>2 DEF Refresh
      <4>3. QED
        BY <4>1, <4>2
    <3>2. QED
      BY <3>1
  <2>9. CASE Touch
    <3>1. RecentNext(listener.ip, MaxDelay + Lag)
      BY <1>1, <2>1, <2>9, RecentLonger DEF Touch
    <3>2. TableOk
      BY <2>8, <2>9, <3>1 DEF Touch
    <3>3. QED
      BY <2>1, <2>9, <3>2 DEF Touch
  <2>10. CASE Conclude
    <3>1. query.replied => RecentNext(query.ip, MaxDelay + Lag)
      BY <1>1, <2>1, <2>10, RecentLonger DEF Conclude
    <3>2. TableOk
      BY <2>1, <2>8, <2>10, <3>1 DEF Conclude
    <3>3. QED
      BY <2>1, <2>10, <3>2 DEF Conclude
  <2>11. CASE Wake \/ Dispatch \/ UNCHANGED vars
    BY <2>1, <2>11 DEF Wake, Dispatch, vars
  <2>12. CASE Scan
    BY <2>1, <2>12 DEF Scan
  <2>13. QED
    BY <1>2, <2>2, <2>3, <2>4, <2>5, <2>6, <2>7, <2>9, <2>10, <2>11, <2>12 DEF Next
<1>3. CASE Tick
  <2>1. NetOk
    <3>1. ASSUME NEW m \in net PROVE RecentNext(Ip[m.from], m.age + 1)
      BY <1>1, <1>3, RecentAged DEF FromRecent
    <3>2. \A m \in net :
            /\ [m EXCEPT !.age = @ + 1].from = m.from
            /\ [m EXCEPT !.age = @ + 1].age = m.age + 1
      BY DEF TypeOK, Datagram
    <3>3. QED
      <4>1. net' = {[m EXCEPT !.age = @ + 1] : m \in net}
        BY <1>3 DEF Tick
      <4>2. QED
        BY <3>1, <3>2, <4>1
  <2>2. ListenerOk
    <3>1. listener # None => RecentNext(listener.ip, MaxDelay + listener.age + 1)
      BY <1>1, <1>3, RecentAged DEF FromRecent
    <3>2. listener # None => listener'.ip = listener.ip /\ listener'.age = listener.age + 1
      BY <1>3 DEF Tick, Older, TypeOK
    <3>3. listener = None => listener' = None
      BY <1>3 DEF Tick, Older
    <3>4. QED
      BY <1>1, <3>1, <3>2, <3>3
  <2>3. QueryOk
    <3>1. query # None /\ query.replied => RecentNext(query.ip, query.age + 1)
      BY <1>1, <1>3, RecentAged DEF FromRecent
    <3>2. query # None => /\ query'.ip = query.ip /\ query'.age = query.age + 1
                          /\ query'.replied = query.replied
      BY <1>3 DEF Tick, Older, TypeOK
    <3>3. query = None => query' = None
      BY <1>3 DEF Tick, Older
    <3>4. QED
      BY <1>1, <3>1, <3>2, <3>3
  <2>4. TableOk
    <3>1. ASSUME NEW s \in Slots, table[s] # None
          PROVE  RecentNext(table[s].ip, MaxDelay + Lag + table[s].age + 1)
      BY <1>1, <1>3, <3>1, RecentAged DEF FromRecent
    <3>2. ASSUME NEW s \in Slots, table[s] # None
          PROVE  table'[s].ip = table[s].ip /\ table'[s].age = table[s].age + 1
      BY <1>1, <1>3, <3>2 DEF Tick, Older, Entry
    <3>3. \A s \in Slots : table[s] = None => table'[s] = None
      BY <1>3 DEF Tick, Older
    <3>4. QED
      BY <1>1, <3>1, <3>2, <3>3
  <2>5. QED
    BY <2>1, <2>2, <2>3, <2>4
<1>4. QED
  BY <1>2, <1>3

\* A scan removes what has not been refreshed in time, and the next one comes in time.
LEMMA ReapStep ==
  ASSUME TypeOK, TypeOK', ReapInv, [Next]_vars
  PROVE  ReapInv'
<1> USE DirectoryAssumption
<1>1. /\ reaper.pc \in {"sleep", "scan"} /\ reaper.age \in Nat
      /\ reaper'.pc \in {"sleep", "scan"} /\ reaper'.age \in Nat
      /\ \A s \in Slots : table[s] # None => table[s].age \in Nat
      /\ Lag \in Nat /\ ReapInterval \in Nat /\ PeerTimeout \in Nat /\ HelloInterval \in Nat
  BY DEF TypeOK, Entry
<1>2. ASSUME UNCHANGED reaper,
             \A s \in Slots : table'[s] # None =>
                table'[s].age = 0 \/ (table[s] # None /\ table'[s] = table[s])
      PROVE  ReapInv'
  <2>1. ReaperInTime' /\ Overtime' = Overtime
    BY <1>2 DEF ReapInv, ReaperInTime, Overtime
  <2>2. ASSUME NEW s \in Slots, table'[s] # None
        PROVE  table'[s].age <= PeerTimeout + Lag + reaper'.age + Overtime'
    BY <1>1, <1>2, <2>1, <2>2 DEF ReapInv, Young, Overtime
  <2>3. QED
    BY <2>1, <2>2 DEF ReapInv, Young
<1>3. ASSUME UNCHANGED <<reaper, table>> PROVE ReapInv'
  BY <1>2, <1>3
<1>4. ASSUME NEW ip, Refresh(ip), UNCHANGED reaper PROVE ReapInv'
  <2>1. \A s \in Slots : Holds(s, ip) => [table[s] EXCEPT !.age = 0].age = 0
    BY DEF TypeOK, Holds, Entry
  <2>2. QED
    BY <1>2, <1>4, <2>1 DEF Refresh
<1>5. ASSUME NEW n \in Nodes,
             Start(n) \/ Announce(n) \/ Leave(n) \/ Exit(n) \/ Reply(n)
      PROVE  ReapInv'
  BY <1>3, <1>5 DEF Start, Announce, Leave, Exit, Reply
<1>6. ASSUME NEW m \in net, Lose(m) \/ Receive(m) PROVE ReapInv'
  <2>1. CASE Lose(m)
    BY <1>3, <2>1 DEF Lose
  <2>2. CASE Receive(m)
    BY <1>2, <2>2 DEF Receive, Add, Remove
  <2>3. QED
    BY <1>6, <2>1, <2>2
<1>7. ASSUME Dispatch \/ \E ip \in snapshot : Ask(ip) PROVE ReapInv'
  BY <1>3, <1>7 DEF Ask, Dispatch
<1>8. CASE Touch
  BY <1>4, <1>8 DEF Touch
<1>9. CASE Conclude
  BY <1>3, <1>4, <1>9 DEF Conclude
<1>10. CASE Wake
  <2>1. reaper.pc = "sleep" /\ reaper'.pc = "scan" /\ reaper'.age = 0 /\ table' = table
    BY <1>10 DEF Wake
  <2>2. reaper.age <= Lag + ReapInterval
    BY <2>1 DEF ReapInv, ReaperInTime
  <2>3. ASSUME NEW s \in Slots, table'[s] # None
        PROVE  table'[s].age <= PeerTimeout + Lag + reaper'.age + Overtime'
    BY <1>1, <2>1, <2>2, <2>3 DEF ReapInv, Young, Overtime
  <2>4. QED
    BY <1>1, <2>1, <2>3 DEF ReapInv, Young, ReaperInTime
<1>11. CASE Scan
  <2>1. reaper.pc = "scan" /\ reaper'.pc = "sleep" /\ reaper'.age = 0 /\ reaper.age <= Lag
    BY <1>11 DEF Scan, ReapInv, ReaperInTime
  <2>2. ASSUME NEW s \in Slots, table'[s] # None
        PROVE  table'[s].age <= PeerTimeout + Lag + reaper'.age + Overtime'
    <3>1. table'[s] = table[s] /\ ~ (table[s].age - reaper.age > PeerTimeout)
      BY <1>11, <2>2 DEF Scan, Stale
    <3>2. QED
      BY <1>1, <2>1, <2>2, <3>1 DEF Overtime
  <2>3. QED
    BY <1>1, <2>1, <2>2 DEF ReapInv, Young, ReaperInTime
<1>12. CASE Tick
  <2>1. reaper'.pc = reaper.pc /\ reaper'.age = reaper.age + 1
    <3>1. reaper # None
      BY ReaperIsThere
    <3>2. QED
      BY <1>12, <3>1 DEF Tick, Older, TypeOK
  <2>2. reaper.age < Lag + IF reaper.pc = "sleep" THEN ReapInterval ELSE 0
    BY <1>12 DEF Tick
  <2>3. ASSUME NEW s \in Slots, table'[s] # None
        PROVE  table'[s].age <= PeerTimeout + Lag + reaper'.age + Overtime'
    <3>1. table[s] # None /\ table'[s].age = table[s].age + 1
      BY <1>12, <2>3 DEF Tick, Older, TypeOK, Entry
    <3>2. QED
      BY <1>1, <2>1, <3>1 DEF ReapInv, Young, Overtime
  <2>4. QED
    BY <1>1, <2>1, <2>2, <2>3 DEF ReapInv, Young, ReaperInTime
<1>13. CASE UNCHANGED vars
  BY <1>3, <1>13 DEF vars
<1>14. QED
  BY <1>5, <1>6, <1>7, <1>8, <1>9, <1>10, <1>11, <1>12, <1>13 DEF Next

\* The table forgets a node that has ended within MaxDelay + PeerTimeout + ReapInterval +
\* 4 Lag, whether or not its BYE arrived and whatever arrives late.
THEOREM GhostsForgotten == Spec => []DepartedForgotten
<1> DEFINE Inv == TypeOK /\ FromRecent /\ ReapInv
<1> USE DirectoryAssumption
<1>1. Init => Inv
  <2>1. Init => TypeOK
    BY DEF Init, TypeOK, Horizon, Forgotten, Known
  <2>2. Init => FromRecent
    BY DEF Init, FromRecent
  <2>3. Init => ReapInv
    BY DEF Init, ReapInv, ReaperInTime, Young
  <2>4. QED
    BY <2>1, <2>2, <2>3
<1>2. Inv /\ [Next]_vars => Inv'
  BY TypeStep, FromRecentStep, ReapStep
<1>3. Inv => DepartedForgotten
  <2> SUFFICES ASSUME Inv, NEW s \in Used
      PROVE  \E n \in Nodes :
                Ip[n] = table[s].ip /\ (node[n] # "down" \/ since[n] <= Forgotten)
    BY DEF DepartedForgotten
  <2>1. PICK n \in Nodes :
          /\ Ip[n] = table[s].ip
          /\ node[n] # "down" \/ since[n] <= MaxDelay + Lag + table[s].age
    BY DEF FromRecent, Recent, Used
  <2>2. table[s].age \in Nat /\ since[n] \in Nat /\ reaper.age \in Nat
        /\ reaper.pc \in {"sleep", "scan"}
    BY DEF TypeOK, Used, Entry
  <2>3. table[s].age <= PeerTimeout + ReapInterval + 3 * Lag
    BY <2>2 DEF ReapInv, ReaperInTime, Young, Overtime, Used
  <2>4. QED
    BY <2>1, <2>2, <2>3 DEF Forgotten
<1>4. QED
  BY <1>1, <1>2, <1>3, PTL DEF Spec
-------------------------------------------------------------------------------
\* Steady nodes

\* A node that runs, has lost no HELLO and is the only one at its address; the times until
\* one of its HELLOs is received at the latest, the next or one that is under way.
Alone(n) == \A m \in Nodes \ {n} : Ip[m] # Ip[n]
Quiet(n) == node[n] = "up" /\ ~ lost[n] /\ Alone(n)
HellosOf(n) == {m \in net : m.type = "HELLO" /\ m.from = n}
Ahead(n) == {timer[n] + MaxDelay} \cup {MaxDelay - m.age : m \in HellosOf(n)}

\* Its entry is not older than a period and a delay when that HELLO comes; or it has not
\* run long enough, and what its previous run sent may still arrive before that HELLO.
Kept(n) ==
  \E s \in Slots : /\ Holds(s, Ip[n])
                   /\ \E d \in Ahead(n) : table[s].age + d <= HelloInterval + MaxDelay
Starting(n) == \E d \in Ahead(n) : since[n] + d <= HelloInterval + 2 * MaxDelay

\* A BYE under way from a node that runs is from its previous run.
OldByes == \A m \in net : m.type = "BYE" /\ node[m.from] = "up" => since[m.from] <= m.age

KeepInv == OldByes /\ \A n \in Peers : Quiet(n) /\ Listed(Ip[n]) => Kept(n) \/ Starting(n)
ListInv == \A n \in Peers : Quiet(n) => Kept(n) \/ Starting(n)

\* A node starts once; its BYE is the last thing a run sends; all messages grow older.
LEMMA OldByesStep ==
  ASSUME TypeOK, TypeOK', OldByes, [Next]_vars
  PROVE  OldByes'
<1> USE DirectoryAssumption
<1>0. /\ \A m \in net : m.from \in Nodes /\ m.age \in Nat
      /\ \A n \in Nodes : since[n] \in Nat /\ since'[n] \in Nat
  BY DEF TypeOK, Datagram
<1> DEFINE Old(m) == m.type = "BYE" /\ node'[m.from] = "up" => since'[m.from] <= m.age
<1> SUFFICES \A m \in net' : Old(m)
  BY DEF OldByes
<1>1. ASSUME NEW n \in Nodes, Start(n) PROVE \A m \in net' : Old(m)
  BY <1>0, <1>1 DEF Start, OldByes, TypeOK
<1>2. ASSUME NEW n \in Nodes, Announce(n) PROVE \A m \in net' : Old(m)
  BY <1>0, <1>2 DEF Announce, Send, OldByes
<1>3. ASSUME NEW n \in Nodes, Leave(n) PROVE \A m \in net' : Old(m)
  <2>1. node'[n] = "leaving" /\ UNCHANGED since
        /\ \A k \in Nodes : node'[k] = "up" => node[k] = "up"
    BY <1>3 DEF Leave, TypeOK, clocks
  <2>2. net' = net \cup {[type |-> "BYE", from |-> n, age |-> 0]}
    BY <1>3 DEF Leave, Send
  <2>3. QED
    BY <1>0, <2>1, <2>2 DEF OldByes
<1>4. ASSUME NEW n \in Nodes, Exit(n) PROVE \A m \in net' : Old(m)
  BY <1>0, <1>4 DEF Exit, OldByes, TypeOK
<1>5. ASSUME net' \subseteq net, UNCHANGED <<node, since>> PROVE \A m \in net' : Old(m)
  BY <1>5 DEF OldByes
<1>6. ASSUME NEW n \in Nodes, Reply(n) PROVE \A m \in net' : Old(m)
  BY <1>5, <1>6 DEF Reply, clocks
<1>7. ASSUME NEW m \in net, Lose(m) \/ Receive(m) PROVE \A x \in net' : Old(x)
  BY <1>5, <1>7 DEF Lose, Receive, clocks
<1>8. ASSUME NEW ip \in snapshot, Ask(ip) PROVE \A m \in net' : Old(m)
  BY <1>5, <1>8 DEF Ask, clocks
<1>9. CASE Dispatch \/ Touch \/ Conclude \/ Wake \/ Scan \/ UNCHANGED vars
  BY <1>5, <1>9 DEF Dispatch, Touch, Conclude, Wake, Scan, clocks, vars
<1>10. CASE Tick
  <2>1. ASSUME NEW m \in net PROVE Old([m EXCEPT !.age = @ + 1])
    <3>1. since'[m.from] <= since[m.from] + 1 /\ node' = node
      BY <1>0, <1>10 DEF Tick
    <3>2. /\ [m EXCEPT !.age = @ + 1].from = m.from /\ [m EXCEPT !.age = @ + 1].type = m.type
          /\ [m EXCEPT !.age = @ + 1].age = m.age + 1
      BY DEF TypeOK, Datagram
    <3>3. QED
      BY <1>0, <3>1, <3>2 DEF OldByes
  <2>2. net' = {[m EXCEPT !.age = @ + 1] : m \in net}
    BY <1>10 DEF Tick
  <2>3. QED
    BY <2>1, <2>2
<1>11. QED
  BY <1>1, <1>2, <1>3, <1>4, <1>6, <1>7, <1>8, <1>9, <1>10 DEF Next

\* The times ahead are a tick shorter after a tick, and else remain, unless it is the HELLO
\* waited for that is received.
LEMMA AheadStep ==
  ASSUME TypeOK, [Next]_vars, NEW n \in Nodes, node[n] = "up", Quiet(n)', NEW d \in Ahead(n)
  PROVE  \/ ~ Tick /\ d \in Ahead(n)'
         \/ Tick /\ d - 1 \in Ahead(n)'
         \/ \E m \in HellosOf(n) : Receive(m)
<1> USE DirectoryAssumption
<1>0. /\ timer[n] \in Nat /\ MaxDelay \in Nat /\ node'[n] = "up" /\ ~ lost'[n]
      /\ timer \in [Nodes -> 0 .. HelloInterval] /\ \A m \in net : m.age \in Nat
  BY DEF TypeOK, Datagram, Quiet
<1> SUFFICES ASSUME ~ \E m \in HellosOf(n) : Receive(m)
             PROVE  (~ Tick /\ d \in Ahead(n)') \/ (Tick /\ d - 1 \in Ahead(n)')
  OBVIOUS
<1>1. CASE Tick
  <2>1. timer[n] > 0 /\ timer'[n] = timer[n] - 1
    BY <1>0, <1>1 DEF Tick
  <2>2. CASE d = timer[n] + MaxDelay
    BY <1>0, <1>1, <2>1, <2>2 DEF Ahead
  <2>3. ASSUME NEW m \in HellosOf(n), d = MaxDelay - m.age PROVE d - 1 \in Ahead(n)'
    <3> DEFINE k == [m EXCEPT !.age = @ + 1]
    <3>1. k \in net' /\ k.type = "HELLO" /\ k.from = n /\ k.age = m.age + 1
      BY <1>1 DEF Tick, HellosOf, TypeOK, Datagram
    <3>2. k \in HellosOf(n)'
      BY <3>1 DEF HellosOf
    <3>3. d - 1 = MaxDelay - k.age
      BY <1>0, <2>3, <3>1 DEF HellosOf
    <3>4. QED
      BY <3>2, <3>3 DEF Ahead
  <2>4. QED
    BY <1>1, <2>2, <2>3 DEF Ahead
<1>2. CASE ~ Tick /\ d = timer[n] + MaxDelay
  <2>1. ASSUME UNCHANGED timer PROVE d \in Ahead(n)'
    BY <1>2, <2>1 DEF Ahead
  <2>2. ASSUME NEW k \in Nodes, Announce(k) PROVE d \in Ahead(n)'
    <3>1. CASE k = n
      <4> DEFINE m == [type |-> "HELLO", from |-> n, age |-> 0]
      <4>1. m \in HellosOf(n)' /\ timer[n] = 0
        BY <2>2, <3>1 DEF Announce, Send, HellosOf
      <4>2. d = MaxDelay - m.age
        BY <1>0, <1>2, <4>1
      <4>3. QED
        BY <4>1, <4>2 DEF Ahead
    <3>2. CASE k # n
      BY <1>0, <1>2, <2>2, <3>2 DEF Announce, Ahead
    <3>3. QED
      BY <3>1, <3>2
  <2>3. ASSUME NEW k \in Nodes, Exit(k) PROVE d \in Ahead(n)'
    <3>1. k # n
      BY <1>0, <2>3 DEF Exit, TypeOK
    <3>2. timer'[n] = timer[n]
      BY <1>0, <2>3, <3>1 DEF Exit
    <3>3. QED
      BY <1>2, <3>2 DEF Ahead
  <2>4. QED
    BY <1>2, <2>1, <2>2, <2>3
    DEF Next, Start, Leave, Reply, Lose, Receive, Ask, Dispatch, Touch, Conclude, Wake, Scan, clocks, vars
<1>3. CASE ~ Tick /\ d # timer[n] + MaxDelay
  <2>1. PICK m \in HellosOf(n) : d = MaxDelay - m.age
    BY <1>3 DEF Ahead
  <2>2. m \in net /\ m.type = "HELLO" /\ m.from = n
    BY DEF HellosOf
  <2>3. ~ Receive(m)
    OBVIOUS
  <2>4. ~ Lose(m)
    BY <1>0, <2>2 DEF Lose, TypeOK
  <2>5. m \in net'
    BY <1>3, <2>2, <2>3, <2>4
    DEF Next, Start, Announce, Leave, Exit, Send, Reply, Lose, Receive, Ask, Dispatch, Touch, Conclude,
        Wake, Scan, vars
  <2>6. m \in HellosOf(n)'
    BY <2>2, <2>5 DEF HellosOf
  <2>7. QED
    BY <1>3, <2>1, <2>6 DEF Ahead
<1>4. QED
  BY <1>1, <1>2, <1>3

\* The entry of an address that one node has goes by a BYE of the node or by the reaper.
LEMMA EntryStep ==
  ASSUME TypeOK, [Next]_vars, NEW n \in Peers, Alone(n), NEW s \in Slots, Holds(s, Ip[n])
  PROVE  \/ /\ Holds(s, Ip[n])'
            /\ table'[s].age <= IF Tick THEN table[s].age + 1 ELSE table[s].age
         \/ \E m \in net : Receive(m) /\ m.type = "BYE" /\ m.from = n
         \/ Scan /\ Stale(s)
<1>0. /\ n \in Nodes /\ Ip[n] \in Ips /\ table[s] \in Entry /\ None \notin Entry
      /\ table[s].age \in Nat /\ table[s].ip = Ip[n]
      /\ \A k \in Nodes : Ip[k] = Ip[n] => k = n
  BY NoneIsNoEntry DEF Peers, Ips, TypeOK, Holds, Entry, Alone
<1> DEFINE Stays == /\ Holds(s, Ip[n])'
                    /\ table'[s].age <= IF Tick THEN table[s].age + 1 ELSE table[s].age
<1>1. ASSUME UNCHANGED table PROVE Stays
  BY <1>0, <1>1 DEF Holds
<1>2. ASSUME NEW ip \in Ips, Refresh(ip) PROVE Stays
  <2> DEFINE e == [table[s] EXCEPT !.age = 0]
  <2>1. e \in Entry /\ e.age = 0 /\ e.ip = Ip[n]
    BY <1>0 DEF Entry
  <2>2. table'[s] = e \/ table'[s] = table[s]
    BY <1>2 DEF Refresh
  <2> HIDE DEF e
  <2>3. CASE table'[s] = e
    BY <1>0, <2>1, <2>3 DEF Holds
  <2>4. CASE table'[s] = table[s]
    BY <1>0, <2>4 DEF Holds
  <2>5. QED
    BY <2>2, <2>3, <2>4
<1>3. ASSUME NEW m \in net, Receive(m) PROVE Stays \/ (m.type = "BYE" /\ m.from = n)
  <2>1. CASE UNCHANGED table
    BY <1>1, <2>1
  <2>2. CASE Add(Ip[m.from], m.from)
    <3>1. table'[s] = table[s] \/ (table'[s].ip = Ip[n] /\ table'[s].age = 0 /\ table'[s] # None)
      BY <1>0, <2>2 DEF Add, Holds, Listed, Free, None
    <3>2. QED
      BY <1>0, <3>1 DEF Holds
  <2>3. CASE m.type = "BYE" /\ Remove(Ip[m.from])
    <3>1. CASE m.from = n
      BY <2>3, <3>1
    <3>2. CASE m.from # n
      <4>1. m.from \in Nodes /\ Ip[m.from] # Ip[n]
        BY <1>0, <3>2 DEF TypeOK, Datagram
      <4>2. table'[s] = table[s]
        BY <1>0, <2>3, <4>1 DEF Remove, Holds
      <4>3. QED
        BY <1>0, <4>2 DEF Holds
    <3>3. QED
      BY <3>1, <3>2
  <2>4. QED
    BY <1>3, <2>1, <2>2, <2>3 DEF Receive
<1>4. CASE Tick
  <2> DEFINE e == [table[s] EXCEPT !.age = @ + 1]
  <2>1. table'[s] = e
    BY <1>0, <1>4 DEF Tick, Older
  <2>2. e \in Entry /\ e.ip = Ip[n] /\ e.age = table[s].age + 1
    BY <1>0 DEF Entry
  <2> HIDE DEF e
  <2>3. Holds(s, Ip[n])'
    BY <1>0, <2>1, <2>2 DEF Holds
  <2>4. QED
    BY <1>0, <1>4, <2>1, <2>2, <2>3
<1>5. CASE Scan
  BY <1>0, <1>5 DEF Scan, Holds
<1>6. CASE Touch
  BY <1>2, <1>6 DEF Touch, TypeOK
<1>7. CASE Conclude
  BY <1>1, <1>2, <1>7 DEF Conclude, TypeOK
<1>8. QED
  BY <1>1, <1>3, <1>4, <1>5, <1>6, <1>7
  DEF Next, Start, Announce, Leave, Exit, Reply, Lose, Ask, Dispatch, Wake, vars

\* A HELLO that finds or gets a slot leaves a new entry.
LEMMA HelloRefreshes ==
  ASSUME TypeOK', NEW n \in Peers, NEW m \in HellosOf(n), Receive(m), Listed(Ip[n])'
  PROVE  Kept(n)'
<1> USE DirectoryAssumption
<1>1. m \in net /\ m.type = "HELLO" /\ m.from = n /\ ~ Own(m)
  BY DEF HellosOf, Own, Peers
<1>2. Add(Ip[n], n)
  BY <1>1 DEF Receive
<1>3. PICK s \in Slots : Holds(s, Ip[n])'
  BY DEF Listed
<1>4. table'[s].age = 0
  BY <1>2, <1>3 DEF Add, Holds
<1>5. timer'[n] + MaxDelay \in Ahead(n)' /\ timer'[n] \in 0 .. HelloInterval
  BY DEF Ahead, Peers, TypeOK
<1>6. QED
  BY <1>3, <1>4, <1>5 DEF Kept

\* Only a HELLO from the node puts its address into the table.
LEMMA ListedByHello ==
  ASSUME TypeOK, [Next]_vars, NEW n \in Peers, Alone(n), ~ Listed(Ip[n]), Listed(Ip[n])'
  PROVE  \E m \in HellosOf(n) : Receive(m)
<1>0. /\ \A s \in Slots : ~ Holds(s, Ip[n])
      /\ \A k \in Nodes : Ip[k] = Ip[n] => k = n
      /\ \A s \in Slots : table[s] \in Entry \cup {None}
  BY DEF Listed, Alone, Peers, TypeOK
<1>1. PICK s \in Slots : Holds(s, Ip[n])'
  BY DEF Listed
<1>2. ~ UNCHANGED table
  BY <1>0, <1>1 DEF Holds
<1>3. ASSUME NEW ip, Refresh(ip) PROVE FALSE
  <2>1. table[s] # None => [table[s] EXCEPT !.age = 0].ip = table[s].ip
    BY <1>0 DEF Entry
  <2>2. QED
    BY <1>0, <1>1, <1>3, <2>1 DEF Refresh, Holds
<1>4. ASSUME NEW m \in net, Receive(m) PROVE m \in HellosOf(n)
  <2>1. m.type = "HELLO" /\ Add(Ip[m.from], m.from)
    BY <1>0, <1>1, <1>2, <1>4 DEF Receive, Remove, Holds
  <2>2. Ip[m.from] = Ip[n]
    BY <1>0, <1>1, <2>1 DEF Add, Holds
  <2>3. m.from \in Nodes
    BY DEF TypeOK, Datagram
  <2>4. QED
    BY <1>0, <2>1, <2>2, <2>3 DEF HellosOf
<1>5. ~ Tick
  <2>1. table[s] # None => Older(table[s]).ip = table[s].ip
    BY <1>0 DEF Older, Entry
  <2>2. QED
    BY <1>0, <1>1, <2>1 DEF Tick, Older, Holds
<1>6. ~ Scan
  BY <1>0, <1>1 DEF Scan, Holds
<1>7. QED
  BY <1>2, <1>3, <1>4, <1>5, <1>6
  DEF Next, Start, Announce, Leave, Exit, Reply, Lose, Ask, Dispatch, Touch, Conclude, Wake, vars

\* What is true of a node that runs stays true until one of its HELLOs is received, and then
\* its entry is new, unless the table is full.
LEMMA KeepStep ==
  ASSUME TypeOK, TypeOK', OldByes, [Next]_vars, HelloInterval + MaxDelay <= PeerTimeout,
         NEW n \in Peers, Quiet(n)', Quiet(n) => Kept(n) \/ Starting(n)
  PROVE  \/ Kept(n)' \/ Starting(n)'
         \/ \E m \in HellosOf(n) : Receive(m) /\ ~ Listed(Ip[n])'
<1> USE DirectoryAssumption
<1>0. /\ n \in Nodes /\ node'[n] = "up" /\ ~ lost'[n] /\ Alone(n)
      /\ since[n] \in Nat /\ since'[n] \in Nat /\ timer'[n] \in 0 .. HelloInterval
      /\ {MaxDelay, HelloInterval, PeerTimeout} \subseteq Nat
  BY DEF Peers, Quiet, Alone, TypeOK
<1>1. timer'[n] + MaxDelay \in Ahead(n)'
  BY DEF Ahead
<1>2. CASE ~ Quiet(n)
  <2>1. Start(n)
    BY <1>0, <1>2
    DEF Quiet, Next, Start, Announce, Leave, Exit, Reply, Lose, Receive, Ask, Dispatch, Touch, Conclude,
        Wake, Scan, Tick, vars, TypeOK
  <2>2. since'[n] = 0
    BY <1>0, <2>1 DEF Start, TypeOK
  <2>3. QED
    BY <1>0, <1>1, <2>2 DEF Starting
<1>3. ASSUME NEW m \in HellosOf(n), Receive(m), Listed(Ip[n])' PROVE Kept(n)'
  BY <1>3, HelloRefreshes
<1>4. ASSUME Quiet(n), ~ \E m \in HellosOf(n) : Receive(m) PROVE Kept(n)' \/ Starting(n)'
  <2>0. node[n] = "up"
    BY <1>4 DEF Quiet
  <2>1. since'[n] <= IF Tick THEN since[n] + 1 ELSE since[n]
    <3>1. CASE Tick
      BY <1>0, <3>1 DEF Tick
    <3>2. ASSUME NEW k \in Nodes, Start(k) \/ Exit(k) PROVE since'[n] <= since[n]
      BY <1>0, <3>2 DEF Start, Exit, TypeOK
    <3>3. QED
      BY <1>0, <3>1, <3>2
      DEF Next, Announce, Leave, Reply, Lose, Receive, Ask, Dispatch, Touch, Conclude, Wake, Scan, vars,
          clocks
  <2>2. ASSUME NEW d \in Ahead(n)
        PROVE  d \in Int /\ \E e \in Ahead(n)' : e = IF Tick THEN d - 1 ELSE d
    <3>1. d \in Int
      BY <1>0 DEF Ahead, HellosOf, TypeOK, Datagram
    <3>2. QED
      BY <1>0, <1>4, <2>0, <3>1, AheadStep
  <2>3. CASE Starting(n)
    <3>1. PICK d \in Ahead(n) : since[n] + d <= HelloInterval + 2 * MaxDelay
      BY <2>3 DEF Starting
    <3>2. PICK e \in Ahead(n)' : e = IF Tick THEN d - 1 ELSE d
      BY <2>2
    <3>3. d \in Int /\ since'[n] + e <= HelloInterval + 2 * MaxDelay
      BY <1>0, <2>1, <2>2, <3>1, <3>2
    <3>4. QED
      BY <3>3 DEF Starting
  <2>4. CASE Kept(n)
    <3>1. PICK s \in Slots, d \in Ahead(n) :
             Holds(s, Ip[n]) /\ table[s].age + d <= HelloInterval + MaxDelay
      BY <2>4 DEF Kept
    <3>2. PICK e \in Ahead(n)' : e = IF Tick THEN d - 1 ELSE d
      BY <2>2
    <3>3. table[s].age \in Nat /\ d \in Int
      BY <2>2, <3>1 DEF TypeOK, Holds, Entry
    <3>4. CASE /\ Holds(s, Ip[n])'
               /\ table'[s].age <= IF Tick THEN table[s].age + 1 ELSE table[s].age
      <4>1. table'[s].age \in Nat
        BY <3>4 DEF TypeOK, Holds, Entry
      <4>2. table'[s].age + e <= HelloInterval + MaxDelay
        BY <1>0, <3>1, <3>2, <3>3, <3>4, <4>1
      <4>3. QED
        BY <3>4, <4>2 DEF Kept
    <3>5. ASSUME NEW m \in net, Receive(m), m.type = "BYE", m.from = n PROVE Starting(n)'
      <4>1. since[n] <= m.age /\ m.age \in 0 .. MaxDelay
        BY <2>0, <3>5 DEF OldByes, TypeOK, Datagram
      <4>2. since'[n] = since[n]
        BY <3>5 DEF Receive, clocks
      <4>3. since'[n] + (timer'[n] + MaxDelay) <= HelloInterval + 2 * MaxDelay
        BY <1>0, <4>1, <4>2
      <4>4. QED
        BY <1>1, <4>3 DEF Starting
    <3>6. ~ Stale(s)
      <4>1. d >= 0
        BY <1>0 DEF Ahead, HellosOf, TypeOK, Datagram
      <4>2. reaper.age \in Nat
        BY DEF TypeOK
      <4>3. QED
        BY <1>0, <3>1, <3>3, <4>1, <4>2 DEF Stale
    <3>7. QED
      BY <1>0, <3>1, <3>4, <3>5, <3>6, EntryStep
  <2>5. QED
    BY <1>4, <2>3, <2>4
<1>5. QED
  BY <1>2, <1>3, <1>4

\* A steady node has run for longer than it counts as starting.
LEMMA SteadyIsKept ==
  ASSUME TypeOK, NEW n \in Peers, Steady(n), Kept(n) \/ Starting(n)
  PROVE  \E s \in Slots : /\ Holds(s, Ip[n])
                          /\ table[s].age <= HelloInterval + MaxDelay
<1> USE DirectoryAssumption
<1>1. since[n] \in Nat /\ since[n] > HelloInterval + 2 * MaxDelay
  BY DEF Steady, Known, Peers, TypeOK
<1>2. \A d \in Ahead(n) : d \in Nat
  <2>1. timer[n] + MaxDelay \in Nat
    BY DEF Peers, TypeOK
  <2>2. \A m \in HellosOf(n) : MaxDelay - m.age \in Nat
    BY DEF HellosOf, TypeOK, Datagram
  <2>3. QED
    BY <2>1, <2>2 DEF Ahead
<1>3. ~ Starting(n)
  BY <1>1, <1>2 DEF Starting
<1>4. PICK s \in Slots, d \in Ahead(n) :
        Holds(s, Ip[n]) /\ table[s].age + d <= HelloInterval + MaxDelay
  BY <1>3 DEF Kept
<1>5. table[s].age \in Nat
  BY <1>4 DEF TypeOK, Holds, Entry
<1>6. QED
  BY <1>2, <1>4, <1>5

\* Once a node is known it stays, in a full table, too: the next HELLO always comes before
\* the reaper, and what its previous run sent has arrived before it counts as steady.
THEOREM KnownStays ==
  ASSUME HelloInterval + MaxDelay <= PeerTimeout
  PROVE  Spec => NeverEvicted
<1> DEFINE Inv == TypeOK /\ KeepInv
<1>1. Init => Inv
  BY DirectoryAssumption
  DEF Init, TypeOK, Horizon, Forgotten, Known, KeepInv, OldByes, Listed, Holds
<1>2. ASSUME Inv, [Next]_vars PROVE Inv'
  <2>1. TypeOK' /\ OldByes'
    BY <1>2, TypeStep, OldByesStep DEF KeepInv
  <2>2. ASSUME NEW n \in Peers, Quiet(n)', Listed(Ip[n])' PROVE Kept(n)' \/ Starting(n)'
    <3>1. CASE Quiet(n) => Kept(n) \/ Starting(n)
      BY <1>2, <2>1, <2>2, <3>1, KeepStep DEF KeepInv
    <3>2. CASE Quiet(n) /\ ~ Listed(Ip[n])
      BY <1>2, <2>1, <2>2, <3>2, ListedByHello, HelloRefreshes DEF Quiet
    <3>3. QED
      BY <1>2, <3>1, <3>2 DEF KeepInv
  <2>3. QED
    BY <2>1, <2>2 DEF KeepInv
<1>3. ASSUME Inv, [Next]_vars, NEW n \in Peers, Steady(n), Listed(Ip[n]) PROVE Listed(Ip[n])'
  <2>1. n \in Nodes /\ Alone(n) /\ node[n] = "up" /\ since[n] > Known
    BY <1>3 DEF Steady, Alone, Peers
  <2>2. PICK s \in Slots : Holds(s, Ip[n]) /\ table[s].age <= HelloInterval + MaxDelay
    <3>1. Kept(n) \/ Starting(n)
      BY <1>3 DEF KeepInv, Quiet, Steady, Alone
    <3>2. QED
      BY <1>3, <3>1, SteadyIsKept
  <2>3. ASSUME NEW m \in net, m.type = "BYE", m.from = n PROVE FALSE
    <3>1. since[n] <= m.age /\ m.age \in 0 .. MaxDelay /\ since[n] \in Nat
      BY <1>3, <2>1, <2>3 DEF KeepInv, OldByes, TypeOK, Datagram
    <3>2. QED
      BY <2>1, <3>1, DirectoryAssumption DEF Known
  <2>4. ~ Stale(s)
    <3>1. reaper.age \in Nat /\ table[s].age \in Nat
      BY <1>3, <2>2 DEF TypeOK, Holds, Entry
    <3>2. QED
      BY <2>2, <3>1, DirectoryAssumption DEF Stale
  <2>5. QED
    BY <1>3, <2>1, <2>2, <2>3, <2>4, EntryStep DEF Listed
<1>4. Inv /\ [Next]_vars => [\A n \in Peers : Steady(n) /\ Listed(Ip[n]) => Listed(Ip[n])']_vars
  BY <1>3
<1>5. QED
  BY <1>1, <1>2, <1>4, PTL DEF Spec, NeverEvicted

\* While the other nodes have no more addresses than the table has slots, a slot is free for
\* one that is not listed.
LEMMA RoomForAll ==
  ASSUME TypeOK, UniqueIp, ForeignOnly, Cardinality(Ips \ {LocalIp}) <= MaxPeers,
         NEW ip \in Ips \ {LocalIp}, ~ Listed(ip)
  PROVE  \E s \in Slots : Free(s)
<1> USE DirectoryAssumption
<1> DEFINE Empty == {s \in Slots : table[s] = None}
           Others == (Ips \ {LocalIp}) \ {ip}
           f == [s \in Slots |-> table[s].ip]
<1>1. IsFiniteSet(Others) /\ Cardinality(Others) < MaxPeers
  <2> DEFINE g == [n \in Nodes |-> Ip[n]]
  <2>1. g \in Surjection(Nodes, Ips)
    BY DEF Surjection, Ips
  <2>2. IsFiniteSet(Ips)
    BY <2>1, FS_Surjection
  <2>3. IsFiniteSet(Ips \ {LocalIp}) /\ Cardinality(Ips \ {LocalIp}) \in Nat
    BY <2>2, FS_RemoveElement, FS_CardinalityType
  <2>4. IsFiniteSet(Others) /\ Cardinality(Others) = Cardinality(Ips \ {LocalIp}) - 1
    BY <2>3, FS_RemoveElement
  <2>5. QED
    BY <2>3, <2>4
<1>2. IsFiniteSet(Slots) /\ Cardinality(Slots) = MaxPeers
  BY FS_Interval DEF Slots
<1>3. Empty # {}
  <2> SUFFICES ASSUME Empty = {} PROVE FALSE
    OBVIOUS
  <2>1. \A s \in Slots : s \in Used
    BY DEF Used
  <2>2. \A s \in Slots : table[s].ip \in Others
    BY <2>1 DEF TypeOK, Entry, Used, ForeignOnly, Listed, Holds
  <2>3. f \in [Slots -> Others]
    BY <2>2
  <2>4. PICK s, t \in Slots : s # t /\ f[s] = f[t]
    <3> HIDE DEF f, Others
    <3>1. Cardinality(Others) < Cardinality(Slots)
      BY <1>1, <1>2
    <3>2. QED
      BY <1>1, <1>2, <2>3, <3>1, FS_PigeonHole
  <2>5. QED
    BY <2>1, <2>4 DEF UniqueIp
<1>4. PICK s \in Empty : \A t \in Empty : ~ (t < s)
  <2>1. Empty \subseteq Nat
    BY DEF Slots
  <2>2. PICK s \in Empty : \A t \in Empty : ~ (<<t, s>> \in OpToRel(<, Nat))
    BY <1>3, <2>1, NatLessThanWellFounded, WFMin
  <2>3. \A t \in Empty : t < s => <<t, s>> \in OpToRel(<, Nat)
    BY <2>1 DEF OpToRel
  <2>4. QED
    BY <2>2, <2>3
<1>5. Free(s)
  BY <1>4 DEF Free, Slots
<1>6. QED
  BY <1>5

\* A node that has run for a period and two delays and has lost no HELLO is known, whatever
\* its previous run left on the way, if the table has a slot for each address.
THEOREM SteadyKnown ==
  ASSUME LocalIp = Ip[Self], HelloInterval + MaxDelay <= PeerTimeout
  PROVE  Spec => []SteadyListed
<1> DEFINE Roomy == Cardinality(Ips \ {LocalIp}) <= MaxPeers
           Inv == TypeOK /\ UniqueIp /\ ForeignOnly /\ OldByes /\ ListInv
<1>1. Init => Inv
  <2>1. Init => TypeOK /\ UniqueIp /\ ForeignOnly /\ OldByes
    BY DirectoryAssumption
    DEF Init, TypeOK, Horizon, Forgotten, Known, UniqueIp, ForeignOnly, Used, OldByes
  <2>2. Init => ListInv
    BY DEF Init, ListInv, Quiet, Peers
  <2>3. QED
    BY <2>1, <2>2
<1>2. ASSUME Roomy, Inv, [Next]_vars PROVE Inv'
  <2>1. TypeOK' /\ UniqueIp' /\ ForeignOnly' /\ OldByes'
    BY <1>2, TypeStep, UniqueStep, ForeignStep, OldByesStep
  <2>2. ASSUME NEW n \in Peers, Quiet(n)' PROVE Kept(n)' \/ Starting(n)'
    <3>1. ASSUME NEW m \in HellosOf(n), Receive(m) PROVE Listed(Ip[n])'
      <4>1. Add(Ip[n], n)
        BY <3>1 DEF Receive, HellosOf, Own, Peers
      <4>2. CASE Listed(Ip[n])
        BY <4>1, <4>2 DEF Add, Listed, Holds, None
      <4>3. CASE ~ Listed(Ip[n])
        <5>1. PICK s \in Slots : Free(s)
          BY <1>2, <4>3, RoomForAll DEF Peers, Ips
        <5>2. QED
          BY <4>1, <4>3, <5>1 DEF Add, Listed, Holds, None
      <4>4. QED
        BY <4>2, <4>3
    <3>2. QED
      BY <1>2, <2>1, <2>2, <3>1, KeepStep DEF ListInv
  <2>3. QED
    BY <2>1, <2>2 DEF ListInv
<1>3. ASSUME Inv, NEW n \in Peers, Steady(n) PROVE Listed(Ip[n])
  <2>1. Kept(n) \/ Starting(n)
    BY <1>3 DEF ListInv, Quiet, Steady, Alone
  <2>2. QED
    BY <1>3, <2>1, SteadyIsKept DEF Listed
<1>4. Inv => SteadyListed
  BY <1>3 DEF SteadyListed
<1>5. CASE Roomy
  <2>1. Inv /\ [Next]_vars => Inv'
    BY <1>2, <1>5
  <2>2. QED
    BY <1>1, <1>4, <2>1, PTL DEF Spec
<1>6. CASE ~ Roomy
  <2>1. SteadyListed
    BY <1>6 DEF SteadyListed
  <2>2. QED
    BY <2>1, PTL
<1>7. QED
  BY <1>5, <1>6
===============================================================================
