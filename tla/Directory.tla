------------------------------- MODULE Directory -------------------------------
(***************************************************************************)
(* What one node, Self, knows of the others: peer_list.c, kept by the      *)
(* listener and reaper threads of discovery.c and by the dispatcher's load *)
(* queries, while the other nodes start, announce themselves, say BYE or   *)
(* crash, and the network loses, duplicates, delays and reorders.          *)
(*                                                                         *)
(* Time passes in ticks.  Instead of last_seen and the other time stamps   *)
(* the model keeps ages, the ticks since they were taken.  Each call under *)
(* the table's lock is one action.  A node's TCP port is written as the    *)
(* node itself; several nodes may have one address.                        *)
(***************************************************************************)
EXTENDS Integers, FiniteSets

CONSTANTS
    Nodes,         \* the processes on the LAN
    Self,          \* the one whose table this is
    Ip,            \* the source address of each node's datagrams, as Self sees it
    LocalIp,       \* what get_local_ip told Self
    MaxPeers,      \* MAX_PEERS
    PeerTimeout,   \* PEER_TIMEOUT_SECS
    ReapInterval,  \* PEER_TIMEOUT_SECS / 2
    HelloInterval, \* DISCOVERY_INTERVAL
    MaxDelay,      \* bound: ticks a datagram, or a load query, may take
    Lag            \* bound: ticks a thread may be kept from its next step

ASSUME DirectoryAssumption ==
    /\ IsFiniteSet(Nodes) /\ Self \in Nodes /\ DOMAIN Ip = Nodes
    /\ MaxPeers \in Nat \ {0}
    /\ {PeerTimeout, ReapInterval, HelloInterval, MaxDelay, Lag} \subseteq Nat
    /\ HelloInterval > 0 /\ ReapInterval > 0

Ips == {Ip[n] : n \in Nodes}
Slots == 1 .. MaxPeers
None == [none |-> TRUE]

VARIABLES
    node,     \* each node's process: down, up, or leaving once it has sent its BYE
    since,    \* ticks since it last started or ended, up to Horizon
    timer,    \* ticks until its announcer thread sends the next HELLO
    lost,     \* history: a HELLO of this run of the node was lost
    net,      \* the datagrams under way to Self's port 9999
    table,    \* g_peers
    listener, \* the address peer_list_touch is still to be called for
    reaper,   \* the reaper thread, asleep or between time() and the lock
    snapshot, \* the addresses dispatch() has copied and is still to ask
    query     \* its pending load query

clocks == <<since, timer>>
vars == <<node, clocks, lost, net, table, listener, reaper, snapshot, query>>

\* The ticks after which a node that ended is forgotten, and one that runs is known.
Forgotten == MaxDelay + PeerTimeout + ReapInterval + 4 * Lag
Known == HelloInterval + 2 * MaxDelay + Lag

\* bound: the ticks worth telling apart since a node ended or started
Horizon(n) == 1 + IF node[n] = "down" THEN Forgotten ELSE Known

Entry == [ip : Ips, port : Nodes, age : Nat]
Datagram == [type : {"HELLO", "BYE"}, from : Nodes, age : 0 .. MaxDelay]

TypeOK ==
    /\ node \in [Nodes -> {"down", "up", "leaving"}]
    /\ since \in [Nodes -> Nat] /\ \A n \in Nodes : since[n] <= Horizon(n)
    /\ timer \in [Nodes -> 0 .. HelloInterval]
    /\ lost \in [Nodes -> BOOLEAN]
    /\ net \subseteq Datagram
    /\ table \in [Slots -> Entry \cup {None}]
    /\ listener \in [ip : Ips, age : 0 .. Lag] \cup {None}
    /\ reaper \in [pc : {"sleep", "scan"}, age : 0 .. ReapInterval + Lag]
    /\ snapshot \subseteq Ips
    /\ query \in [ip : Ips, replied : BOOLEAN, age : 0 .. MaxDelay] \cup {None}

Init ==
    /\ node = [n \in Nodes |-> IF n = Self THEN "up" ELSE "down"]
    /\ since = [n \in Nodes |-> Horizon(n)]
    /\ timer = [n \in Nodes |-> 0]
    /\ lost = [n \in Nodes |-> FALSE]
    /\ net = {}
    /\ table = [s \in Slots |-> None]
    /\ listener = None
    /\ reaper = [pc |-> "sleep", age |-> 0]
    /\ snapshot = {} /\ query = None
-------------------------------------------------------------------------------
\* The nodes' processes

Start(n) ==
    /\ node[n] = "down"
    /\ node' = [node EXCEPT ![n] = "up"]
    /\ since' = [since EXCEPT ![n] = 0]
    /\ UNCHANGED <<timer, lost, net, table, listener, reaper, snapshot, query>>

Send(n, type) == net' = net \cup {[type |-> type, from |-> n, age |-> 0]}

\* announcer_thread, which also runs between BYE and the end of main().
Announce(n) ==
    /\ node[n] # "down" /\ timer[n] = 0
    /\ Send(n, "HELLO")
    /\ timer' = [timer EXCEPT ![n] = HelloInterval]
    /\ UNCHANGED <<node, since, lost, table, listener, reaper, snapshot, query>>

\* discovery_send_bye
Leave(n) ==
    /\ n # Self /\ node[n] = "up"
    /\ node' = [node EXCEPT ![n] = "leaving"]
    /\ Send(n, "BYE")
    /\ UNCHANGED <<clocks, lost, table, listener, reaper, snapshot, query>>

\* main() returns, or the process is killed.
Exit(n) ==
    /\ n # Self /\ node[n] # "down"
    /\ node' = [node EXCEPT ![n] = "down"]
    /\ since' = [since EXCEPT ![n] = 0]
    /\ timer' = [timer EXCEPT ![n] = 0]
    /\ lost' = [lost EXCEPT ![n] = FALSE]
    /\ UNCHANGED <<net, table, listener, reaper, snapshot, query>>

Lose(m) ==
    /\ m \in net
    /\ net' = net \ {m}
    /\ lost' = [lost EXCEPT ![m.from] = @ \/ m.type = "HELLO"]
    /\ UNCHANGED <<node, clocks, table, listener, reaper, snapshot, query>>
-------------------------------------------------------------------------------
\* The peer table

Used == {s \in Slots : table[s] # None}
Holds(s, ip) == table[s] # None /\ table[s].ip = ip
Listed(ip) == \E s \in Slots : Holds(s, ip)

\* Altered: a full table gives up its first slot.
FreeOrFirst(s) == IF Used = Slots THEN s = 1 ELSE table[s] = None /\ 1 .. s - 1 \subseteq Used

\* find_free_slot
Free(s) == table[s] = None /\ \A t \in 1 .. s - 1 : table[t] # None

\* Altered: ip and port swapped.
AddSwapped(ip, port) ==
    table' = [s \in Slots |-> IF Holds(s, ip) \/ (~ Listed(ip) /\ Free(s))
                              THEN [ip |-> port, port |-> ip, age |-> 0]
                              ELSE table[s]]

\* Altered: no search for a slot the address already has.
AddBlind(ip, port) ==
    table' = [s \in Slots |-> IF Free(s) THEN [ip |-> ip, port |-> port, age |-> 0]
                                         ELSE table[s]]

\* peer_list_add: a new address takes the first free slot, or is dropped.
Add(ip, port) ==
    table' = [s \in Slots |-> IF Holds(s, ip) \/ (~ Listed(ip) /\ Free(s))
                              THEN [ip |-> ip, port |-> port, age |-> 0]
                              ELSE table[s]]

\* peer_list_remove
Remove(ip) == table' = [s \in Slots |-> IF Holds(s, ip) THEN None ELSE table[s]]

\* peer_list_touch, and what peer_list_update_load does beside storing the load.
Refresh(ip) ==
    table' = [s \in Slots |-> IF Holds(s, ip) THEN [table[s] EXCEPT !.age = 0] ELSE table[s]]
-------------------------------------------------------------------------------
\* The listener, the dispatcher's query and the reaper

\* Altered: the node's own broadcasts are not ignored.
OwnNever(m) == FALSE

\* The listener tells its own broadcasts by their address.
Own(m) == Ip[m.from] = LocalIp

\* A datagram may be duplicated: then it stays under way.
Receive(m) ==
    /\ listener = None /\ m \in net
    /\ net' \in {net, net \ {m}}
    /\ IF Own(m) THEN UNCHANGED <<table, listener>>
       ELSE \/ /\ m.type = "HELLO"
               /\ Add(Ip[m.from], m.from)
               /\ listener' = [ip |-> Ip[m.from], age |-> 0]
            \/ /\ m.type = "BYE"
               /\ Remove(Ip[m.from])
               /\ UNCHANGED listener
    /\ UNCHANGED <<node, clocks, lost, reaper, snapshot, query>>

Touch ==
    /\ listener # None
    /\ Refresh(listener.ip)
    /\ listener' = None
    /\ UNCHANGED <<node, clocks, lost, net, reaper, snapshot, query>>

\* dispatch() copies the table.
Dispatch ==
    /\ snapshot = {} /\ query = None
    /\ snapshot' = {table[s].ip : s \in Used}
    /\ UNCHANGED <<node, clocks, lost, net, table, listener, reaper, query>>

\* query_peer_load of one address after the other, which may have left the table since.
Ask(ip) ==
    /\ query = None /\ ip \in snapshot
    /\ snapshot' = snapshot \ {ip}
    /\ query' = [ip |-> ip, replied |-> FALSE, age |-> 0]
    /\ UNCHANGED <<node, clocks, lost, net, table, listener, reaper>>

Reply(n) ==
    /\ query # None /\ ~ query.replied
    /\ node[n] # "down" /\ Ip[n] = query.ip
    /\ query' = [query EXCEPT !.replied = TRUE]
    /\ UNCHANGED <<node, clocks, lost, net, table, listener, reaper, snapshot>>

\* The reply is in, or the time is up.
Conclude ==
    /\ query # None
    /\ query' = None
    /\ \/ query.replied /\ Refresh(query.ip)
       \/ UNCHANGED table
    /\ UNCHANGED <<node, clocks, lost, net, listener, reaper, snapshot>>

\* sleep() is over and peer_list_reap_stale reads the time, before it has the lock.
Wake ==
    /\ reaper.pc = "sleep" /\ reaper.age >= ReapInterval
    /\ reaper' = [pc |-> "scan", age |-> 0]
    /\ UNCHANGED <<node, clocks, lost, net, table, listener, snapshot, query>>

\* Altered: last_seen - now.
StaleSwapped(s) == table[s] # None /\ reaper.age - table[s].age > PeerTimeout

\* Altered: a peer is stale one announcement after the last.
StaleEarly(s) == table[s] # None /\ table[s].age - reaper.age > HelloInterval

\* now - last_seen: an entry may be younger than the time that was read.
Stale(s) == table[s] # None /\ table[s].age - reaper.age > PeerTimeout

Scan ==
    /\ reaper.pc = "scan"
    /\ table' = [s \in Slots |-> IF Stale(s) THEN None ELSE table[s]]
    /\ reaper' = [pc |-> "sleep", age |-> 0]
    /\ UNCHANGED <<node, clocks, lost, net, listener, snapshot, query>>
-------------------------------------------------------------------------------
\* Time passes unless a thread or a datagram is due; what dispatch() needs between two
\* queries counts as part of them.
Older(r) == IF r = None THEN None ELSE [r EXCEPT !.age = @ + 1]

Tick ==
    /\ \A n \in Nodes : node[n] # "down" => timer[n] > 0
    /\ \A m \in net : m.age < MaxDelay
    /\ listener # None => listener.age < Lag
    /\ snapshot # {} => query # None
    /\ query # None => query.age < MaxDelay
    /\ reaper.age < Lag + IF reaper.pc = "sleep" THEN ReapInterval ELSE 0
    /\ since' = [n \in Nodes |-> IF since[n] < Horizon(n) THEN since[n] + 1 ELSE since[n]]
    /\ timer' = [n \in Nodes |-> IF timer[n] > 0 THEN timer[n] - 1 ELSE 0]
    /\ net' = {[m EXCEPT !.age = @ + 1] : m \in net}
    /\ table' = [s \in Slots |-> Older(table[s])]
    /\ listener' = Older(listener) /\ query' = Older(query) /\ reaper' = Older(reaper)
    /\ UNCHANGED <<node, lost, snapshot>>

Next ==
    \/ \E n \in Nodes : Start(n) \/ Announce(n) \/ Leave(n) \/ Exit(n) \/ Reply(n)
    \/ \E m \in net : Lose(m) \/ Receive(m)
    \/ \E ip \in snapshot : Ask(ip)
    \/ Dispatch \/ Touch \/ Conclude \/ Wake \/ Scan \/ Tick

Spec == Init /\ [][Next]_vars
-------------------------------------------------------------------------------
\* Properties

\* No address takes two slots, so that a BYE or the reaper forgets it at once and the
\* dispatcher asks it once.
UniqueIp == \A s, t \in Used : table[s].ip = table[t].ip => s = t

\* The node is not its own peer (discovery.c: "Ignore our own broadcasts").
NoSelfPeer == \A s \in Used : table[s].port # Self

\* A listed address is that of a node that runs, or ended no longer ago than the
\* network, the timeout, the reaper's period and the scheduling add up to: lost BYEs,
\* HELLOs that arrive after the BYE, and late load replies included.
DepartedForgotten ==
    \A s \in Used : \E n \in Nodes :
        Ip[n] = table[s].ip /\ (node[n] # "down" \/ since[n] <= Forgotten)

\* A node that has run for longer than one period and the delays of the network and has
\* lost no HELLO, the only one at its address.
Peers == {n \in Nodes : Ip[n] # LocalIp}
Steady(n) ==
    /\ node[n] = "up" /\ ~ lost[n] /\ since[n] > Known
    /\ \A m \in Nodes \ {n} : Ip[m] # Ip[n]

\* Such a node is known if the table has a slot for each address: neither the reaper nor
\* a late BYE from its previous run keeps it out.
SteadyListed ==
    Cardinality(Ips \ {LocalIp}) <= MaxPeers =>
        \A n \in Peers : Steady(n) => Listed(Ip[n])

\* In a full table, too, such a node stays once it is known, whoever else comes.
NeverEvicted ==
    [][\A n \in Peers : Steady(n) /\ Listed(Ip[n]) => Listed(Ip[n])']_vars

\* README.md, Examples: two nodes started on one machine with different ports; "Lists
\* Node B".
EveryNodeListed ==
    \A n \in Nodes \ {Self} :
        node[n] = "up" /\ ~ lost[n] /\ since[n] > Known => \E s \in Used : table[s].port = n
===============================================================================
