------------------------- MODULE TopologyConnections -------------------------
(***************************************************************************)
(* Topology maps of one site, the connections between devices that they    *)
(* show, and the requests of apps/api/src/topology/topology.service.ts.    *)
(*                                                                         *)
(* A request reads its map and its connection, then runs a transaction: a  *)
(* compare-and-set of the revision of every map it edits, and the writes.  *)
(* The transactions that occupy ports are Serializable and look for other  *)
(* users of the ports in their snapshot; the rest are at Read Committed.   *)
(*                                                                         *)
(* An Ask is the request up to its transaction, Begin the reads inside the *)
(* transaction, and the writes take effect when it commits. The            *)
(* compare-and-set is evaluated there too: revisions only grow, so one     *)
(* that holds at the commit has held since the request read its map, which *)
(* is what the row lock the code takes earlier ensures. Requests that come *)
(* with a revision older than the one they read change nothing, and are    *)
(* left out.                                                               *)
(***************************************************************************)
EXTENDS Integers, FiniteSets

CONSTANTS
  Maps, Connections,  \* ids of rows that may be created (a bound); none is used twice
  Devices,            \* the devices of the site
  Ports,              \* their interfaces
  DeviceOf,           \* the device of each port
  Clients,            \* concurrent API requests
  NodeSets,           \* the sets of nodes a request gives a map
  MaxRevision,        \* bound on TopologyMap.revision
  None, Gone          \* a row not created yet, a row deleted

\* Names, positions and viewports of a map, and the type and label of a
\* connection, are left out.
Map == [revision : 0 .. MaxRevision, nodes : SUBSET Devices]
Wire == [ends : SUBSET Devices, ports : SUBSET Ports]

Checking == {"connect", "create", "reconnect"}     \* the Serializable transactions
Operations == Checking \cup {"disconnect", "associate", "nodes", "remove", "delete"}
Request == [op      : Operations,
            maps    : [Maps -> Int],               \* the revision each map must have,
                                                   \* -1 for a map it does not edit
            wire    : Connections \cup {None},     \* the connection it is about
            devices : SUBSET Devices,              \* ends, or nodes, it carries
            ports   : SUBSET Ports,                \* the ports it occupies
            checks  : SUBSET Ports]                \* the ports it asks to be free

ASSUME TopologyAssumption ==
  /\ DeviceOf \in [Ports -> Devices]
  /\ NodeSets \subseteq SUBSET Devices
  /\ MaxRevision \in Nat
  /\ None # Gone
  /\ {None, Gone} \cap (Map \cup Wire \cup Request \cup Connections) = {}

VARIABLES
  map,     \* TopologyMap rows with their TopologyMapNode rows
  wire,    \* DeviceConnection rows
  shown,   \* TopologyMapConnection rows
  ask,     \* the request each client is in
  begun,   \* clients whose transaction has done its reads
  last,    \* removals that have counted no other map showing their connection
  rival    \* transactions in conflict with one that has committed

vars == <<map, wire, shown, ask, begun, last, rival>>

MapExists(m) == map[m] \notin {None, Gone}
WireExists(k) == wire[k] \notin {None, Gone}
MapsOf(k) == {m \in Maps : <<m, k>> \in shown}
On(D) == {p \in Ports : DeviceOf[p] \in D}
Pair(D) == \E d, e \in D : d # e /\ D = {d, e}
OnePortPerEnd(P) == \A p, q \in P : DeviceOf[p] = DeviceOf[q] => p = q

-----------------------------------------------------------------------------
(* Reading, before the transaction *)

\* The request of client c edits the maps in M: it must find them as they are now.
Ask(c, op, M, k, D, P, Q) ==
  /\ ask[c] = None
  /\ ask' = [ask EXCEPT ![c] =
               [op |-> op, maps |-> [m \in Maps |-> IF m \in M THEN map[m].revision ELSE -1],
                wire |-> k, devices |-> D, ports |-> P, checks |-> Q]]
  /\ UNCHANGED <<map, wire, shown, begun, last, rival>>

\* create
CreateMap(m) ==
  /\ map[m] = None
  /\ map' = [map EXCEPT ![m] = [revision |-> 0, nodes |-> {}]]
  /\ UNCHANGED <<wire, shown, ask, begun, last, rival>>

\* remove
AskRemove(c, m) == MapExists(m) /\ Ask(c, "remove", {m}, None, {}, {}, {})

\* update: name, viewport and filters; the nodes stay as they are.
AskUpdate(c, m) == MapExists(m) /\ Ask(c, "nodes", {m}, None, map[m].nodes, {}, {})

\* replaceNodes
AskNodes(c, m) == MapExists(m) /\ \E D \in NodeSets : Ask(c, "nodes", {m}, None, D, {}, {})

\* A bug: a device may be connected to itself.
EndpointsLoop(D, P) == D # {} /\ P \subseteq On(D) /\ OnePortPerEnd(P)

\* validateConnectionEndpoints: two devices of the site, a port of each or none.
Endpoints(D, P) == Pair(D) /\ P \subseteq On(D) /\ OnePortPerEnd(P)

\* A bug: any two devices of the site may be connected on a map.
ConnectAnywhere(c, m) ==
  /\ MapExists(m)
  /\ \E D \in SUBSET Devices, P \in SUBSET Ports :
       Endpoints(D, P) /\ Ask(c, "connect", {m}, None, D, P, P)

\* createConnection: both ends are nodes of the map.
AskConnect(c, m) ==
  /\ MapExists(m)
  /\ \E D \in SUBSET map[m].nodes, P \in SUBSET Ports :
       Endpoints(D, P) /\ Ask(c, "connect", {m}, None, D, P, P)

\* createStandaloneConnection
AskCreate(c) ==
  \E D \in SUBSET Devices, P \in SUBSET Ports :
    Endpoints(D, P) /\ Ask(c, "create", {}, None, D, P, P)

\* updateStandaloneConnection: a new port, or null, for some of the ends. The
\* port of an end it does not name is checked as it was read, and not written.
\* Naming an end that has no port to take changes nothing, and is left out.
AskReconnect(c, k) ==
  /\ WireExists(k)
  /\ \E D \in SUBSET {d \in wire[k].ends : On({d}) # {}} : \E P \in SUBSET On(D) :
       /\ OnePortPerEnd(P)
       /\ Ask(c, "reconnect", MapsOf(k), k, D, P,
              IF D = {} THEN {} ELSE P \cup (wire[k].ports \ On(D)))

\* deleteStandaloneConnection
AskDelete(c, k) == WireExists(k) /\ Ask(c, "delete", MapsOf(k), k, {}, {}, {})

\* removeConnection
AskDisconnect(c, m, k) ==
  /\ MapExists(m) /\ <<m, k>> \in shown
  /\ Ask(c, "disconnect", {m}, k, {}, {}, {})

\* associateConnection
AskAssociate(c, m, k) ==
  /\ MapExists(m) /\ WireExists(k) /\ wire[k].ends \subseteq map[m].nodes
  /\ Ask(c, "associate", {m}, k, {}, {}, {})

-----------------------------------------------------------------------------
(* The transaction *)

Edited(c) == {m \in Maps : ask[c].maps[m] # -1}

\* validateConnectionPortsAvailable, or the count of removeConnection.
Begin(c) ==
  /\ ask[c] # None /\ c \notin begun
  /\ ask[c].op \in Checking \cup {"disconnect"}
  /\ \A k \in Connections : k # ask[c].wire /\ WireExists(k)
                              => wire[k].ports \cap ask[c].checks = {}
  /\ begun' = begun \cup {c}
  /\ last' = IF ask[c].op = "disconnect" /\ MapsOf(ask[c].wire) \subseteq Edited(c)
               THEN last \cup {c} ELSE last
  /\ UNCHANGED <<map, wire, shown, ask, rival>>

\* advanceRevision, and the updateMany and deleteMany of the other methods.
Current(c) == \A m \in Edited(c) : MapExists(m) /\ map[m].revision = ask[c].maps[m]

\* A bug: the transaction is at Repeatable Read, and only rows conflict.
ConflictOnRows(b, c) == ask[b].wire = ask[c].wire /\ ask[c].wire # None

\* What PostgreSQL does not let two concurrent Serializable transactions do:
\* update one row, or each write what the other has looked for and not found.
Conflict(b, c) ==
  \/ ask[b].wire = ask[c].wire /\ ask[c].wire # None
  \/ /\ ask[b].checks \cap ask[c].ports # {}
     /\ ask[c].checks \cap ask[b].ports # {}

\* A bug: the revision is compared, and not increased.
AdvanceNot(M) == map' = map

\* revision: { increment: 1 }
Advance(M) ==
  /\ \A m \in M : map[m].revision < MaxRevision
  /\ map' = [m \in Maps |-> IF m \in M THEN [map[m] EXCEPT !.revision = @ + 1] ELSE map[m]]

Deleted(k) ==
  /\ wire' = [wire EXCEPT ![k] = Gone]
  /\ shown' = {l \in shown : l[2] # k}

Done(c) ==
  /\ ask' = [ask EXCEPT ![c] = None]
  /\ begun' = begun \ {c}
  /\ last' = last \ {c}

\* The commit of a transaction with the operation op.
Commits(c, op) ==
  /\ ask[c] # None /\ ask[c].op = op
  /\ Done(c)
  /\ IF op \in Checking
       THEN /\ c \in begun \ rival
            /\ rival' = (rival \cup {b \in begun : ask[b].op \in Checking /\ Conflict(b, c)})
                         \ {c}
       ELSE rival' = rival

CommitConnect(c) ==
  /\ Commits(c, "connect") \/ Commits(c, "create")
  /\ Current(c) /\ Advance(Edited(c))
  /\ \E k \in Connections :
       /\ wire[k] = None
       /\ wire' = [wire EXCEPT ![k] = [ends |-> ask[c].devices, ports |-> ask[c].ports]]
       /\ shown' = shown \cup (Edited(c) \X {k})

CommitReconnect(c) ==
  LET k == ask[c].wire IN
  /\ Commits(c, "reconnect")
  /\ Current(c) /\ Advance(Edited(c))
  /\ WireExists(k)
  /\ wire' = [wire EXCEPT ![k].ports = (@ \ On(ask[c].devices)) \cup ask[c].ports]
  /\ UNCHANGED shown

\* The link goes; the connection goes with the last one. Deleting it takes the
\* links other maps have made since the count.
CommitDisconnect(c) ==
  LET k == ask[c].wire IN
  /\ Commits(c, "disconnect") /\ c \in begun
  /\ Current(c) /\ Advance(Edited(c))
  /\ Edited(c) \X {k} \subseteq shown
  /\ IF c \in last THEN Deleted(k)
                   ELSE shown' = shown \ (Edited(c) \X {k}) /\ UNCHANGED wire

CommitAssociate(c) ==
  LET k == ask[c].wire IN
  /\ Commits(c, "associate")
  /\ Current(c) /\ Advance(Edited(c))
  /\ WireExists(k)
  /\ shown \cap (Edited(c) \X {k}) = {}
  /\ shown' = shown \cup (Edited(c) \X {k})
  /\ UNCHANGED wire

\* The links are left as they are.
CommitNodes(c) ==
  /\ Commits(c, "nodes")
  /\ Current(c)
  /\ \A m \in Edited(c) : map[m].revision < MaxRevision
  /\ map' = [m \in Maps |->
               IF m \in Edited(c)
                 THEN [revision |-> map[m].revision + 1, nodes |-> ask[c].devices]
                 ELSE map[m]]
  /\ UNCHANGED <<wire, shown>>

\* remove: nodes and links go with the map, connections stay.
CommitRemove(c) ==
  /\ Commits(c, "remove")
  /\ Current(c)
  /\ map' = [m \in Maps |-> IF m \in Edited(c) THEN Gone ELSE map[m]]
  /\ shown' = {l \in shown : l[1] \notin Edited(c)}
  /\ UNCHANGED wire

\* deleteStandaloneConnection increments whatever revision the maps have.
CommitDelete(c) ==
  /\ Commits(c, "delete")
  /\ \A m \in Edited(c) : MapExists(m)
  /\ Advance(Edited(c))
  /\ WireExists(ask[c].wire) /\ Deleted(ask[c].wire)

\* A refusal, or a transaction rolled back.
Fail(c) ==
  /\ ask[c] # None
  /\ Done(c)
  /\ rival' = rival \ {c}
  /\ UNCHANGED <<map, wire, shown>>

-----------------------------------------------------------------------------
Init ==
  /\ map = [m \in Maps |-> None]
  /\ wire = [k \in Connections |-> None]
  /\ shown = {}
  /\ ask = [c \in Clients |-> None]
  /\ begun = {} /\ last = {} /\ rival = {}

Asks(c) ==
  \/ AskCreate(c)
  \/ \E m \in Maps : AskRemove(c, m) \/ AskUpdate(c, m) \/ AskNodes(c, m) \/ AskConnect(c, m)
  \/ \E k \in Connections : AskReconnect(c, k) \/ AskDelete(c, k)
  \/ \E m \in Maps, k \in Connections : AskDisconnect(c, m, k) \/ AskAssociate(c, m, k)

Runs(c) ==
  \/ Begin(c)
  \/ CommitConnect(c) \/ CommitReconnect(c) \/ CommitDisconnect(c) \/ CommitAssociate(c)
  \/ CommitNodes(c) \/ CommitRemove(c) \/ CommitDelete(c)
  \/ Fail(c)

Next ==
  \/ \E m \in Maps : CreateMap(m)
  \/ \E c \in Clients : Asks(c) \/ Runs(c)

Spec == Init /\ [][Next]_vars

-----------------------------------------------------------------------------
(* Properties *)

\* Rows and requests keep their shapes: a connection has two ends and at most
\* one port of each, and a link joins rows that exist.
WireOK(k) ==
  /\ Pair(wire[k].ends)
  /\ wire[k].ports \subseteq On(wire[k].ends) /\ OnePortPerEnd(wire[k].ports)
TypeOK ==
  /\ map \in [Maps -> Map \cup {None, Gone}]
  /\ wire \in [Connections -> Wire \cup {None, Gone}]
  /\ \A k \in Connections : WireExists(k) => WireOK(k)
  /\ shown \subseteq {l \in Maps \X Connections : MapExists(l[1]) /\ WireExists(l[2])}
  /\ ask \in [Clients -> Request \cup {None}]
  /\ begun \subseteq {c \in Clients : ask[c] # None}
  /\ last \subseteq begun /\ rival \subseteq {c \in begun : ask[c].op \in Checking}

\* No schema constraint keeps a port out of two connections: only the check of
\* validateConnectionPortsAvailable in Serializable transactions does, whatever
\* connections are made, changed and deleted at the same time.
PortsExclusive ==
  \A j, k \in Connections :
    j # k /\ WireExists(j) /\ WireExists(k) => wire[j].ports \cap wire[k].ports = {}

\* Nodes are read before the transaction that shows a connection on a map, and
\* another request may replace them meanwhile; still both ends are nodes of the
\* map when the link is made.
LinksJoinNodes ==
  [][\A m \in Maps, k \in Connections :
       <<m, k>> \in shown' \ shown => wire'[k].ends \subseteq map'[m].nodes]_vars

\* A reader who finds the revision unchanged has the nodes of the map, and its
\* connections, but for those that have since been deleted: a deletion
\* overlooks the maps that came to show the connection after it read them.
RevisionNumbersMap ==
  [][\A m \in Maps :
       MapExists(m) /\ MapExists(m)' /\ map'[m].revision = map[m].revision
         => /\ map'[m].nodes = map[m].nodes
            /\ \A k \in Connections :
                 (<<m, k>> \in shown) # (<<m, k>> \in shown') => wire'[k] = Gone]_vars
=============================================================================
