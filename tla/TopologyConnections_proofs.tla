---------------------- MODULE TopologyConnections_proofs ----------------------
(***************************************************************************)
(* TopologyConnections for any number of maps, connections, devices, ports *)
(* and requests.                                                           *)
(*                                                                         *)
(* The invariant adds to the shapes what a request in progress relies on:  *)
(* AsksOK, what it has validated about itself; ChecksHold, that nobody has *)
(* taken a port its transaction found free, unless its commit is refused;  *)
(* MapsHold, that a map it edits has the nodes it read as long as it has   *)
(* the revision it read.                                                   *)
(***************************************************************************)
EXTENDS TopologyConnections, TLAPS

\* A request names rows that were there, and asks for ports of its devices.
AskOK(c) ==
  ask[c] # None =>
    /\ ask[c].op \in {"connect", "create"} =>
         Endpoints(ask[c].devices, ask[c].ports) /\ ask[c].wire = None
    /\ ask[c].op \in {"reconnect", "disconnect", "associate", "delete"} =>
         ask[c].wire \in Connections /\ wire[ask[c].wire] # None
    /\ ask[c].op = "reconnect" =>
         /\ ask[c].ports \subseteq On(ask[c].devices) /\ OnePortPerEnd(ask[c].ports)
         /\ WireExists(ask[c].wire) => ask[c].devices \subseteq wire[ask[c].wire].ends
    /\ ask[c].ports \subseteq ask[c].checks
    /\ \A m \in Edited(c) : map[m] # None
    /\ ask[c].op = "create" => Edited(c) = {}
AsksOK == \A c \in Clients : AskOK(c)

\* What a transaction found free is still free, or its commit is refused.
Checked(c) == c \in begun /\ ask[c].op \in Checking
ChecksHold ==
  \A c \in Clients, k \in Connections :
    Checked(c) /\ c \notin rival /\ k # ask[c].wire /\ WireExists(k)
      => ask[c].ports \cap wire[k].ports = {}

\* The ends of the connection a request puts on a map.
Shows(c, D) ==
  \/ ask[c].op = "connect" /\ D = ask[c].devices
  \/ ask[c].op = "associate" /\ WireExists(ask[c].wire) /\ D = wire[ask[c].wire].ends
MapsHold ==
  \A c \in Clients, m \in Maps :
    ask[c] # None /\ m \in Edited(c) /\ MapExists(m) =>
      /\ ask[c].maps[m] <= map[m].revision
      /\ ask[c].maps[m] = map[m].revision =>
           \A D \in SUBSET Devices : Shows(c, D) => D \subseteq map[m].nodes

Inv == TypeOK /\ PortsExclusive /\ AsksOK /\ ChecksHold /\ MapsHold

-----------------------------------------------------------------------------
(* Markers are not rows. *)

LEMMA Markers ==
  /\ None # Gone
  /\ None \notin Request /\ None \notin Connections
  /\ None \notin Map /\ Gone \notin Map
  /\ None \notin Wire /\ Gone \notin Wire
BY TopologyAssumption

\* The rows and the request a client that is in one works on.
LEMMA Typed ==
  ASSUME TypeOK
  PROVE  /\ \A m \in Maps : MapExists(m) => map[m] \in Map
         /\ \A k \in Connections : WireExists(k) => wire[k] \in Wire
         /\ \A c \in Clients : ask[c] # None => ask[c] \in Request
BY DEF TypeOK, MapExists, WireExists

-----------------------------------------------------------------------------
(* Requests up to their transaction *)

LEMMA AskKeeps ==
  ASSUME Inv, NEW c \in Clients, NEW op \in Operations, NEW M \in SUBSET Maps,
         NEW k \in Connections \cup {None}, NEW D \in SUBSET Devices,
         NEW P \in SUBSET Ports, NEW Q \in SUBSET Ports,
         \A m \in M : MapExists(m),
         op \in {"connect", "create"} => Endpoints(D, P) /\ k = None,
         op = "create" => M = {},
         op \in {"reconnect", "disconnect", "associate", "delete"} =>
           k \in Connections /\ WireExists(k),
         op = "reconnect" => P \subseteq On(D) /\ OnePortPerEnd(P) /\ D \subseteq wire[k].ends,
         P \subseteq Q,
         op = "connect" => \A m \in M : D \subseteq map[m].nodes,
         op = "associate" => \A m \in M : wire[k].ends \subseteq map[m].nodes,
         Ask(c, op, M, k, D, P, Q)
  PROVE  Inv'
<1>. DEFINE req == [op |-> op, maps |-> [m \in Maps |-> IF m \in M THEN map[m].revision ELSE -1],
                    wire |-> k, devices |-> D, ports |-> P, checks |-> Q]
<1>1. /\ ask[c] = None /\ ask' = [ask EXCEPT ![c] = req]
      /\ UNCHANGED <<map, wire, shown, begun, last, rival>>
  BY DEF Ask
<1>2. ask \in [Clients -> Request \cup {None}]
  BY DEF Inv, TypeOK
<1>3. \A m \in M : map[m] \in Map
  BY Typed DEF Inv
<1>4. req \in Request
  <2>1. [m \in Maps |-> IF m \in M THEN map[m].revision ELSE -1] \in [Maps -> Int]
    BY <1>3, TopologyAssumption DEF Map
  <2>. QED
    BY <2>1 DEF Request
<1>5. /\ ask'[c] = req /\ req # None
      /\ \A b \in Clients \ {c} : ask'[b] = ask[b]
  BY <1>1, <1>2, <1>4, Markers
<1>. HIDE DEF req
<1>6. \A m \in Maps : m \in Edited(c)' <=> m \in M
  <2>. SUFFICES ASSUME NEW m \in Maps PROVE req.maps[m] # -1 <=> m \in M
    BY <1>5 DEF Edited
  <2>. QED
    BY <1>3, TopologyAssumption DEF req, Map
<1>7. c \notin begun
  BY <1>1 DEF Inv, TypeOK
<1>8. TypeOK'
  BY <1>1, <1>2, <1>4, <1>5, <1>7, Markers DEF Inv, TypeOK, MapExists, WireExists, WireOK
<1>9. PortsExclusive'
  BY <1>1 DEF Inv, PortsExclusive, WireExists
<1>10. AsksOK'
  <2>1. AskOK(c)'
    <3>1. \A m \in Edited(c)' : map[m] # None
      BY <1>6 DEF Edited, MapExists
    <3>2. op = "create" => Edited(c)' = {}
      BY <1>6 DEF Edited
    <3>. QED
      BY <1>1, <1>5, <3>1, <3>2 DEF AskOK, req, WireExists, Endpoints
  <2>2. ASSUME NEW b \in Clients \ {c} PROVE AskOK(b)'
    BY <1>1, <1>5 DEF Inv, AsksOK, AskOK, WireExists, Edited
  <2>. QED
    BY <2>1, <2>2 DEF AsksOK
<1>11. ChecksHold'
  BY <1>1, <1>5, <1>7 DEF Inv, ChecksHold, Checked, WireExists
<1>12. MapsHold'
  <2>1. ASSUME NEW b \in Clients \ {c}, NEW m \in Maps,
               (ask[b] # None /\ m \in Edited(b) /\ MapExists(m))'
        PROVE  (/\ ask[b].maps[m] <= map[m].revision
                /\ ask[b].maps[m] = map[m].revision =>
                     \A E \in SUBSET Devices : Shows(b, E) => E \subseteq map[m].nodes)'
    BY <2>1, <1>1, <1>5 DEF Inv, MapsHold, Shows, Edited, MapExists, WireExists
  <2>2. ASSUME NEW m \in Maps, (ask[c] # None /\ m \in Edited(c) /\ MapExists(m))'
        PROVE  (/\ ask[c].maps[m] <= map[m].revision
                /\ ask[c].maps[m] = map[m].revision =>
                     \A E \in SUBSET Devices : Shows(c, E) => E \subseteq map[m].nodes)'
    <3>1. m \in M
      BY <2>2, <1>6
    <3>2. req.maps[m] = map[m].revision /\ map[m].revision \in Int
      BY <3>1, <1>3, TopologyAssumption DEF req, Map
    <3>3. ASSUME NEW E \in SUBSET Devices, Shows(c, E)' PROVE E \subseteq map[m].nodes
      BY <3>1, <3>3, <1>1, <1>5 DEF Shows, req
    <3>. QED
      BY <3>2, <3>3, <1>1, <1>5
  <2>. QED
    BY <2>1, <2>2 DEF MapsHold
<1>. QED
  BY <1>8, <1>9, <1>10, <1>11, <1>12 DEF Inv

LEMMA AsksKeep ==
  ASSUME Inv, NEW c \in Clients, Asks(c)
  PROVE  Inv'
<1>. USE DEF Operations, Checking
<1>1. CASE AskCreate(c)
  BY <1>1, AskKeeps DEF AskCreate
<1>2. ASSUME NEW m \in Maps, AskRemove(c, m) PROVE Inv'
  BY <1>2, AskKeeps DEF AskRemove
<1>3. ASSUME NEW m \in Maps, AskUpdate(c, m) PROVE Inv'
  <2>1. map[m].nodes \in SUBSET Devices
    BY <1>3, Typed DEF AskUpdate, Inv, Map
  <2>. QED
    BY <1>3, <2>1, AskKeeps DEF AskUpdate
<1>4. ASSUME NEW m \in Maps, AskNodes(c, m) PROVE Inv'
  BY <1>4, AskKeeps, TopologyAssumption DEF AskNodes
<1>5. ASSUME NEW m \in Maps, AskConnect(c, m) PROVE Inv'
  <2>1. map[m].nodes \in SUBSET Devices
    BY <1>5, Typed DEF AskConnect, Inv, Map
  <2>2. PICK D \in SUBSET map[m].nodes, P \in SUBSET Ports :
          Endpoints(D, P) /\ Ask(c, "connect", {m}, None, D, P, P)
    BY <1>5 DEF AskConnect
  <2>. QED
    BY <1>5, <2>1, <2>2, AskKeeps DEF AskConnect
<1>6. ASSUME NEW k \in Connections, AskReconnect(c, k) PROVE Inv'
  <2>1. wire[k] \in Wire /\ WireExists(k)
    BY <1>6, Typed DEF AskReconnect, Inv
  <2>2. PICK D \in SUBSET {d \in wire[k].ends : On({d}) # {}} : \E P \in SUBSET On(D) :
          /\ OnePortPerEnd(P)
          /\ Ask(c, "reconnect", MapsOf(k), k, D, P,
                 IF D = {} THEN {} ELSE P \cup (wire[k].ports \ On(D)))
    BY <1>6 DEF AskReconnect
  <2>3. PICK P \in SUBSET On(D) :
          /\ OnePortPerEnd(P)
          /\ Ask(c, "reconnect", MapsOf(k), k, D, P,
                 IF D = {} THEN {} ELSE P \cup (wire[k].ports \ On(D)))
    BY <2>2
  <2>. DEFINE Q == IF D = {} THEN {} ELSE P \cup (wire[k].ports \ On(D))
  <2>4. /\ D \in SUBSET Devices /\ D \subseteq wire[k].ends
        /\ P \in SUBSET Ports /\ Q \in SUBSET Ports /\ P \subseteq Q
    BY <2>1 DEF Wire, On
  <2>5. \A m \in MapsOf(k) : m \in Maps /\ MapExists(m)
    BY DEF MapsOf, Inv, TypeOK
  <2>. HIDE DEF Q
  <2>. QED
    BY <2>1, <2>3, <2>4, <2>5, AskKeeps DEF Q
<1>7. ASSUME NEW k \in Connections, AskDelete(c, k) PROVE Inv'
  <2>1. \A m \in MapsOf(k) : m \in Maps /\ MapExists(m)
    BY DEF MapsOf, Inv, TypeOK
  <2>. QED
    BY <1>7, <2>1, AskKeeps DEF AskDelete
<1>8. ASSUME NEW m \in Maps, NEW k \in Connections, AskDisconnect(c, m, k) PROVE Inv'
  <2>1. WireExists(k)
    BY <1>8 DEF AskDisconnect, Inv, TypeOK
  <2>. QED
    BY <1>8, <2>1, AskKeeps DEF AskDisconnect
<1>9. ASSUME NEW m \in Maps, NEW k \in Connections, AskAssociate(c, m, k) PROVE Inv'
  BY <1>9, AskKeeps DEF AskAssociate
<1>. QED
  BY <1>1, <1>2, <1>3, <1>4, <1>5, <1>6, <1>7, <1>8, <1>9 DEF Asks

-----------------------------------------------------------------------------
(* Transactions *)

\* What every step after the reads does to maps: they are not made anew, their
\* revision does not decrease, and it increases when their nodes change.
MapsGrow ==
  \A m \in Maps :
    /\ map[m] # None => map'[m] # None
    /\ MapExists(m)' => MapExists(m)
    /\ MapExists(m)' => /\ map[m].revision <= map'[m].revision
                        /\ map'[m].revision = map[m].revision => map'[m].nodes = map[m].nodes

\* And to connections: their ends stay.
WiresStay ==
  \A k \in Connections : wire[k] # None =>
    /\ wire'[k] # None
    /\ WireExists(k)' => WireExists(k) /\ wire'[k].ends = wire[k].ends

\* The client is done, the others are where they were.
Leaves(c) ==
  /\ ask'[c] = None /\ \A b \in Clients \ {c} : ask'[b] = ask[b]
  /\ ask' \in [Clients -> Request \cup {None}]
  /\ begun' = begun \ {c} /\ last' = last \ {c}
  /\ rival' \subseteq {b \in begun' : ask'[b].op \in Checking}

LEMMA DoneLeaves ==
  ASSUME Inv, NEW c \in Clients, Done(c),
         rival' \subseteq {b \in begun \ {c} : ask[b].op \in Checking}
  PROVE  Leaves(c)
BY DEF Inv, TypeOK, Done, Leaves

LEMMA CommitsLeaves ==
  ASSUME Inv, NEW c \in Clients, NEW op, Commits(c, op)
  PROVE  /\ Leaves(c) /\ ask[c] # None /\ ask[c].op = op /\ rival \ {c} \subseteq rival'
         /\ op \in Checking =>
              /\ Checked(c) /\ c \notin rival
              /\ \A b \in Clients \ {c} : Checked(b) /\ Conflict(b, c) => b \in rival'
         /\ op \notin Checking => c \notin rival
<1>1. CASE op \in Checking
  <2>1. rival' = (rival \cup {b \in begun : ask[b].op \in Checking /\ Conflict(b, c)}) \ {c}
        /\ c \in begun \ rival /\ Done(c)
    BY <1>1 DEF Commits
  <2>. QED
    BY <1>1, <2>1, DoneLeaves DEF Inv, TypeOK, Commits, Checked
<1>2. CASE op \notin Checking
  <2>1. rival' = rival /\ c \notin rival /\ Done(c)
    BY <1>2 DEF Commits, Inv, TypeOK
  <2>. QED
    BY <1>2, <2>1, DoneLeaves DEF Inv, TypeOK, Commits
<1>. QED
  BY <1>1, <1>2
LEMMA RequestsHold ==
  ASSUME Inv, NEW c \in Clients, Leaves(c), MapsGrow, WiresStay, TypeOK'
  PROVE  AsksOK' /\ MapsHold'
<1>1. ASSUME NEW b \in Clients PROVE AskOK(b)'
  <2>1. CASE b = c
    BY <2>1 DEF AskOK, Leaves
  <2>2. CASE b # c
    <3>1. ask'[b] = ask[b] /\ AskOK(b)
      BY <2>2 DEF Leaves, Inv, AsksOK
    <3>2. \A m \in Edited(b) : map[m] # None => map'[m] # None
      BY DEF MapsGrow, Edited
    <3>. QED
      BY <3>1, <3>2 DEF AskOK, WiresStay, Edited, Endpoints, WireExists
  <2>. QED
    BY <2>1, <2>2
<1>2. ASSUME NEW b \in Clients, NEW m \in Maps, (ask[b] # None /\ m \in Edited(b) /\ MapExists(m))'
      PROVE  (/\ ask[b].maps[m] <= map[m].revision
              /\ ask[b].maps[m] = map[m].revision =>
                   \A D \in SUBSET Devices : Shows(b, D) => D \subseteq map[m].nodes)'
  <2>1. b # c /\ ask'[b] = ask[b] /\ AskOK(b) /\ ask[b] # None /\ ask[b] \in Request
    BY <1>2, Typed DEF Leaves, Inv, AsksOK
  <2>2. /\ m \in Edited(b) /\ MapExists(m)
        /\ map[m].revision <= map'[m].revision
        /\ map'[m].revision = map[m].revision => map'[m].nodes = map[m].nodes
    BY <1>2, <2>1 DEF MapsGrow, Edited
  <2>3. map[m].revision \in Int /\ map'[m].revision \in Int /\ ask[b].maps[m] \in Int
    BY <1>2, <2>1, <2>2, TopologyAssumption DEF Inv, TypeOK, MapExists, Map, Request
  <2>4. /\ ask[b].maps[m] <= map[m].revision
        /\ ask[b].maps[m] = map[m].revision =>
             \A D \in SUBSET Devices : Shows(b, D) => D \subseteq map[m].nodes
    BY <2>1, <2>2 DEF Inv, MapsHold
  <2>5. ASSUME NEW D \in SUBSET Devices, Shows(b, D)' PROVE Shows(b, D)
    <3>1. CASE ask[b].op = "connect"
      BY <2>1, <2>5, <3>1 DEF Shows
    <3>2. CASE ask[b].op = "associate"
      BY <2>1, <2>5, <3>2 DEF Shows, AskOK, WiresStay, WireExists
    <3>. QED
      BY <2>1, <2>5, <3>1, <3>2 DEF Shows
  <2>. QED
    BY <2>1, <2>2, <2>3, <2>4, <2>5
<1>. QED
  BY <1>1, <1>2 DEF AsksOK, MapsHold

\* No connection has a port that it did not have.
PortsStay(W) ==
  \A k \in W : WireExists(k)' => WireExists(k) /\ wire'[k].ports \subseteq wire[k].ports

LEMMA ChecksStay ==
  ASSUME Inv, NEW c \in Clients, Leaves(c), PortsStay(Connections), rival \ {c} \subseteq rival'
  PROVE  PortsExclusive' /\ ChecksHold'
<1>1. PortsExclusive'
  BY DEF Inv, PortsExclusive, PortsStay
<1>2. ASSUME NEW b \in Clients, NEW k \in Connections,
             (Checked(b) /\ b \notin rival /\ k # ask[b].wire /\ WireExists(k))'
      PROVE  (ask[b].ports \cap wire[k].ports = {})'
  <2>1. b # c /\ ask'[b] = ask[b] /\ Checked(b) /\ b \notin rival /\ WireExists(k)
    BY <1>2 DEF Leaves, Checked, PortsStay
  <2>. QED
    BY <1>2, <2>1 DEF Inv, ChecksHold, PortsStay
<1>. QED
  BY <1>1, <1>2 DEF ChecksHold

\* A Serializable transaction takes ports for the connection it is about, or
\* for a new one.
LEMMA ChecksTaken ==
  ASSUME Inv, NEW c \in Clients, Leaves(c), NEW k \in Connections,
         Checked(c), c \notin rival, rival \ {c} \subseteq rival',
         \A b \in Clients \ {c} : Checked(b) /\ Conflict(b, c) => b \in rival',
         PortsStay(Connections \ {k}),
         \/ ~WireExists(k) /\ ask[c].wire = None /\ wire'[k].ports = ask[c].ports
         \/ WireExists(k) /\ ask[c].wire = k /\ wire'[k].ports \subseteq wire[k].ports \cup ask[c].ports
  PROVE  PortsExclusive' /\ ChecksHold'
<1>0. ask[c].wire # None => ask[c].wire \in Connections
  BY Typed DEF Inv, TypeOK, Checked, Request
<1>1. ASSUME NEW j \in Connections \ {k}, WireExists(j)'
      PROVE  wire'[j].ports \cap wire'[k].ports = {}
  <2>1. WireExists(j) /\ wire'[j].ports \subseteq wire[j].ports
    BY <1>1 DEF PortsStay
  <2>2. ask[c].ports \cap wire[j].ports = {}
    BY <2>1, Markers DEF Inv, ChecksHold
  <2>3. WireExists(k) => wire[k].ports \cap wire[j].ports = {}
    BY <2>1 DEF Inv, PortsExclusive
  <2>. QED
    BY <2>1, <2>2, <2>3
<1>2. PortsExclusive'
  <2>. SUFFICES ASSUME NEW i \in Connections, NEW j \in Connections, i # j,
                       WireExists(i)', WireExists(j)'
                PROVE  wire'[i].ports \cap wire'[j].ports = {}
    BY DEF PortsExclusive
  <2>1. CASE i = k \/ j = k
    BY <2>1, <1>1
  <2>2. CASE i # k /\ j # k
    BY <2>2 DEF Inv, PortsExclusive, PortsStay
  <2>. QED
    BY <2>1, <2>2
<1>3. ASSUME NEW b \in Clients, NEW j \in Connections,
             (Checked(b) /\ b \notin rival /\ j # ask[b].wire /\ WireExists(j))'
      PROVE  (ask[b].ports \cap wire[j].ports = {})'
  <2>1. b # c /\ ask'[b] = ask[b] /\ Checked(b) /\ b \notin rival /\ ~Conflict(b, c)
    BY <1>3 DEF Leaves, Checked
  <2>2. CASE j # k
    BY <1>3, <2>1, <2>2 DEF Inv, ChecksHold, PortsStay
  <2>3. CASE j = k
    <3>1. ask[b].ports \subseteq ask[b].checks /\ ask[c].ports \subseteq ask[c].checks
      BY <2>1 DEF Inv, AsksOK, AskOK, TypeOK, Checked
    <3>2. ask[b].ports \cap ask[c].ports = {}
      BY <2>1, <3>1 DEF Conflict
    <3>3. WireExists(k) => ask[b].ports \cap wire[k].ports = {}
      BY <1>3, <2>1, <2>3 DEF Inv, ChecksHold
    <3>. QED
      BY <2>1, <2>3, <3>2, <3>3
  <2>. QED
    BY <2>2, <2>3
<1>. QED
  BY <1>2, <1>3 DEF ChecksHold
\* The compare-and-set of the maps a request edits.
LEMMA Advances ==
  ASSUME Inv, NEW c \in Clients, \A m \in Edited(c) : MapExists(m), Advance(Edited(c))
  PROVE  /\ MapsGrow /\ map' \in [Maps -> Map \cup {None, Gone}]
         /\ \A m \in Maps : MapExists(m)' <=> MapExists(m)
         /\ \A m \in Maps : MapExists(m) => map'[m].nodes = map[m].nodes
         /\ \A m \in Edited(c) : map'[m].revision = map[m].revision + 1
<1>. DEFINE step(m) == IF m \in Edited(c) THEN [map[m] EXCEPT !.revision = @ + 1] ELSE map[m]
<1>1. map' = [m \in Maps |-> step(m)] /\ \A m \in Edited(c) : map[m].revision < MaxRevision
  BY DEF Advance
<1>2. ASSUME NEW m \in Maps
      PROVE  /\ step(m) \in Map \cup {None, Gone}
             /\ ~MapExists(m) => step(m) = map[m]
             /\ MapExists(m) => /\ step(m) \in Map /\ map[m] \in Map
                                /\ map[m].revision \in Int /\ step(m).revision \in Int
                                /\ map[m].revision <= step(m).revision
                                /\ step(m).nodes = map[m].nodes
             /\ m \in Edited(c) => step(m).revision = map[m].revision + 1
  <2>1. CASE m \in Edited(c)
    <3>1. map[m] \in Map /\ map[m].revision < MaxRevision
      BY <1>1, <2>1, Typed DEF Inv
    <3>2. step(m) \in Map /\ step(m).revision = map[m].revision + 1 /\ step(m).nodes = map[m].nodes
      BY <2>1, <3>1, TopologyAssumption DEF Map
    <3>. QED
      BY <2>1, <3>1, <3>2, TopologyAssumption DEF Map
  <2>2. CASE m \notin Edited(c)
    <3>1. map[m] \in Map \cup {None, Gone} /\ step(m) = map[m]
      BY <2>2 DEF Inv, TypeOK
    <3>. QED
      BY <2>2, <3>1, Typed, TopologyAssumption DEF Inv, Map
  <2>. QED
    BY <2>1, <2>2
<1>3. \A m \in Maps : map'[m] = step(m)
  BY <1>1
<1>. HIDE DEF step
<1>4. \A m \in Maps : MapExists(m)' <=> MapExists(m)
  BY <1>2, <1>3, Markers DEF MapExists
<1>5. \A m \in Maps : map[m] # None => map'[m] # None
  BY <1>2, <1>3, Markers
<1>. QED
  BY <1>1, <1>2, <1>3, <1>4, <1>5 DEF MapsGrow, Edited

LEMMA CurrentExist == ASSUME NEW c, Current(c) PROVE \A m \in Edited(c) : MapExists(m)
BY DEF Current

\* A connection is made, with both ends and its ports.
LEMMA ConnectKeeps ==
  ASSUME Inv, NEW c \in Clients, CommitConnect(c)
  PROVE  Inv'
<1>. USE DEF Checking
<1>1. PICK op \in {"connect", "create"} : Commits(c, op)
  BY DEF CommitConnect
<1>2. /\ Leaves(c) /\ ask[c] \in Request /\ AskOK(c) /\ ask[c] # None /\ ask[c].op = op
      /\ Checked(c) /\ c \notin rival /\ rival \ {c} \subseteq rival'
      /\ \A b \in Clients \ {c} : Checked(b) /\ Conflict(b, c) => b \in rival'
  BY <1>1, CommitsLeaves, Typed DEF Inv, AsksOK
<1>3. Endpoints(ask[c].devices, ask[c].ports) /\ ask[c].wire = None
  BY <1>2 DEF AskOK
<1>4. PICK k \in Connections :
        /\ wire[k] = None
        /\ wire' = [wire EXCEPT ![k] = [ends |-> ask[c].devices, ports |-> ask[c].ports]]
        /\ shown' = shown \cup (Edited(c) \X {k})
  BY DEF CommitConnect
<1>5. /\ MapsGrow /\ map' \in [Maps -> Map \cup {None, Gone}]
      /\ \A m \in Maps : MapExists(m)' <=> MapExists(m)
      /\ \A m \in Edited(c) : MapExists(m)
  BY Advances, CurrentExist DEF CommitConnect
<1>6. wire \in [Connections -> Wire \cup {None, Gone}]
  BY DEF Inv, TypeOK
<1>7. /\ wire'[k] = [ends |-> ask[c].devices, ports |-> ask[c].ports] /\ wire'[k] \in Wire
      /\ \A j \in Connections \ {k} : wire'[j] = wire[j]
      /\ wire' \in [Connections -> Wire \cup {None, Gone}]
  BY <1>2, <1>4, <1>6 DEF Request, Wire
<1>8. WireExists(k)' /\ ~WireExists(k)
  BY <1>4, <1>7, Markers DEF WireExists
<1>9. WiresStay
  BY <1>4, <1>7 DEF WiresStay, WireExists
<1>10. TypeOK'
  <2>1. \A j \in Connections : WireExists(j)' => WireOK(j)'
    BY <1>3, <1>7 DEF Inv, TypeOK, WireExists, WireOK, Endpoints
  <2>2. shown' \subseteq {l \in Maps \X Connections : MapExists(l[1])' /\ WireExists(l[2])'}
    BY <1>4, <1>5, <1>7, <1>8 DEF Inv, TypeOK, WireExists, Edited
  <2>. QED
    BY <1>2, <1>5, <1>7, <2>1, <2>2 DEF Inv, TypeOK, Leaves
<1>11. PortsExclusive' /\ ChecksHold'
  <2>1. PortsStay(Connections \ {k})
    BY <1>7 DEF PortsStay, WireExists
  <2>. QED
    BY <1>2, <1>3, <1>7, <1>8, <2>1, ChecksTaken
<1>. QED
  BY <1>2, <1>5, <1>9, <1>10, <1>11, RequestsHold DEF Inv

LEMMA ReconnectKeeps ==
  ASSUME Inv, NEW c \in Clients, CommitReconnect(c)
  PROVE  Inv'
<1>. USE DEF Checking
<1>1. /\ Leaves(c) /\ ask[c] \in Request /\ AskOK(c) /\ ask[c] # None /\ ask[c].op = "reconnect"
      /\ Checked(c) /\ c \notin rival /\ rival \ {c} \subseteq rival'
      /\ \A b \in Clients \ {c} : Checked(b) /\ Conflict(b, c) => b \in rival'
  BY CommitsLeaves, Typed DEF Inv, AsksOK, CommitReconnect
<1>0. PICK k \in Connections, D \in SUBSET Devices, P \in SUBSET Ports :
        k = ask[c].wire /\ D = ask[c].devices /\ P = ask[c].ports
  BY <1>1 DEF AskOK, Request
<1>2. /\ WireExists(k) /\ wire' = [wire EXCEPT ![k].ports = (@ \ On(D)) \cup P]
      /\ shown' = shown
  BY <1>0 DEF CommitReconnect
<1>3. P \subseteq On(D) /\ OnePortPerEnd(P) /\ D \subseteq wire[k].ends
  BY <1>0, <1>1, <1>2 DEF AskOK
<1>4. wire[k] \in Wire /\ WireOK(k)
  BY <1>2, Typed DEF Inv, TypeOK
<1>5. /\ MapsGrow /\ map' \in [Maps -> Map \cup {None, Gone}]
      /\ \A m \in Maps : MapExists(m)' <=> MapExists(m)
  BY Advances, CurrentExist DEF CommitReconnect
<1>6. wire \in [Connections -> Wire \cup {None, Gone}]
  BY DEF Inv, TypeOK
<1>7. /\ wire'[k] = [wire[k] EXCEPT !.ports = (wire[k].ports \ On(D)) \cup P]
      /\ \A j \in Connections \ {k} : wire'[j] = wire[j]
  BY <1>2, <1>3, <1>6
<1>8. /\ wire'[k] \in Wire /\ wire'[k].ends = wire[k].ends
      /\ wire'[k].ports = (wire[k].ports \ On(D)) \cup P
  BY <1>4, <1>7 DEF Wire
<1>9. wire' \in [Connections -> Wire \cup {None, Gone}]
  BY <1>2, <1>6, <1>7, <1>8
<1>10. \A j \in Connections : WireExists(j)' <=> WireExists(j)
  BY <1>2, <1>7, <1>8, Markers DEF WireExists
<1>11. WiresStay
  BY <1>2, <1>7, <1>8, <1>10, Markers DEF WiresStay
<1>12. WireOK(k)'
  <2>. DEFINE Q == wire[k].ports \ On(D)
  <2>1. Q \subseteq On(wire[k].ends) /\ OnePortPerEnd(Q) /\ P \subseteq On(wire[k].ends)
    BY <1>3, <1>4 DEF WireOK, On, OnePortPerEnd
  <2>2. \A p \in Q, q \in P : DeviceOf[p] # DeviceOf[q]
    BY <1>3, <1>4 DEF On, Wire
  <2>3. OnePortPerEnd(Q \cup P)
    BY <1>3, <2>1, <2>2 DEF OnePortPerEnd
  <2>. QED
    BY <1>4, <1>8, <2>1, <2>3 DEF WireOK
<1>13. TypeOK'
  <2>1. \A j \in Connections : WireExists(j)' => WireOK(j)'
    BY <1>7, <1>10, <1>12 DEF Inv, TypeOK, WireOK
  <2>2. shown' \subseteq {l \in Maps \X Connections : MapExists(l[1])' /\ WireExists(l[2])'}
    BY <1>2, <1>5, <1>10 DEF Inv, TypeOK
  <2>. QED
    BY <1>1, <1>5, <1>9, <2>1, <2>2 DEF Inv, TypeOK, Leaves
<1>14. PortsExclusive' /\ ChecksHold'
  <2>1. PortsStay(Connections \ {k})
    BY <1>7, <1>10 DEF PortsStay
  <2>2. wire'[k].ports \subseteq wire[k].ports \cup ask[c].ports
    BY <1>0, <1>8
  <2>. QED
    BY <1>0, <1>1, <1>2, <1>10, <2>1, <2>2, ChecksTaken
<1>. QED
  BY <1>1, <1>5, <1>11, <1>13, <1>14, RequestsHold DEF Inv
\* What the transactions that take no port do to connections.
WiresOnlyGo ==
  /\ WiresStay /\ PortsStay(Connections)
  /\ wire' \in [Connections -> Wire \cup {None, Gone}]
  /\ \A k \in Connections : WireExists(k)' => WireOK(k)'

LEMMA DeletedGo ==
  ASSUME Inv, NEW k \in Connections, wire[k] # None, Deleted(k)
  PROVE  /\ WiresOnlyGo
         /\ shown' = {l \in shown : l[2] # k} /\ wire'[k] = Gone
         /\ \A l \in shown' : WireExists(l[2])'
<1>1. /\ wire' = [wire EXCEPT ![k] = Gone] /\ shown' = {l \in shown : l[2] # k}
      /\ wire \in [Connections -> Wire \cup {None, Gone}]
  BY DEF Deleted, Inv, TypeOK
<1>2. wire'[k] = Gone /\ \A j \in Connections \ {k} : wire'[j] = wire[j]
  BY <1>1
<1>3. \A j \in Connections : WireExists(j)' => j # k /\ WireExists(j)
  BY <1>2 DEF WireExists
<1>4. WiresStay /\ PortsStay(Connections)
  BY <1>2, <1>3, Markers DEF WiresStay, PortsStay
<1>5. \A j \in Connections : WireExists(j)' => WireOK(j)'
  BY <1>2, <1>3 DEF WireOK, Inv, TypeOK
<1>6. \A l \in shown' : WireExists(l[2])'
  <2>. SUFFICES ASSUME NEW l \in shown' PROVE WireExists(l[2])'
    OBVIOUS
  <2>1. l \in shown /\ l[2] # k /\ l[2] \in Connections /\ WireExists(l[2])
    BY <1>1 DEF Inv, TypeOK
  <2>. QED
    BY <1>2, <2>1 DEF WireExists
<1>. QED
  BY <1>1, <1>2, <1>4, <1>5, <1>6 DEF WiresOnlyGo

LEMMA KeptGo ==
  ASSUME Inv, UNCHANGED wire
  PROVE  WiresOnlyGo /\ \A k \in Connections : WireExists(k)' <=> WireExists(k)
BY DEF Inv, TypeOK, WiresOnlyGo, WiresStay, PortsStay, WireExists, WireOK

\* A transaction that takes no port keeps the invariant if the links it leaves
\* join rows that are there.
LEMMA OthersKeep ==
  ASSUME Inv, NEW c \in Clients, Leaves(c), rival \ {c} \subseteq rival',
         MapsGrow, map' \in [Maps -> Map \cup {None, Gone}], WiresOnlyGo,
         shown' \subseteq {l \in Maps \X Connections : MapExists(l[1])' /\ WireExists(l[2])'}
  PROVE  Inv'
<1>1. TypeOK'
  BY DEF Inv, TypeOK, Leaves, WiresOnlyGo
<1>. QED
  BY <1>1, RequestsHold, ChecksStay DEF Inv, WiresOnlyGo

\* The request is at its commit.
LEMMA AtCommit ==
  ASSUME Inv, NEW c \in Clients, NEW op, Commits(c, op)
  PROVE  /\ Leaves(c) /\ rival \ {c} \subseteq rival'
         /\ ask[c] # None /\ ask[c].op = op /\ ask[c] \in Request
         /\ op \in {"reconnect", "disconnect", "associate", "delete"} =>
              ask[c].wire \in Connections /\ wire[ask[c].wire] # None
BY CommitsLeaves, Typed DEF Inv, AsksOK, AskOK

LEMMA DisconnectKeeps ==
  ASSUME Inv, NEW c \in Clients, CommitDisconnect(c)
  PROVE  Inv'
<1>1. PICK k \in Connections : k = ask[c].wire
  BY AtCommit DEF CommitDisconnect
<1>2. Leaves(c) /\ rival \ {c} \subseteq rival' /\ wire[k] # None
  BY <1>1, AtCommit DEF CommitDisconnect
<1>3. /\ MapsGrow /\ map' \in [Maps -> Map \cup {None, Gone}]
      /\ \A m \in Maps : MapExists(m)' <=> MapExists(m)
  BY Advances, CurrentExist DEF CommitDisconnect
<1>4. CASE c \in last
  <2>1. Deleted(k)
    BY <1>1, <1>4 DEF CommitDisconnect
  <2>2. shown' \subseteq {l \in Maps \X Connections : MapExists(l[1])' /\ WireExists(l[2])'}
    BY <1>2, <1>3, <2>1, DeletedGo DEF Inv, TypeOK
  <2>. QED
    BY <1>2, <1>3, <2>1, <2>2, DeletedGo, OthersKeep
<1>5. CASE c \notin last
  <2>1. shown' \subseteq shown /\ UNCHANGED wire
    BY <1>1, <1>5 DEF CommitDisconnect
  <2>2. shown' \subseteq {l \in Maps \X Connections : MapExists(l[1])' /\ WireExists(l[2])'}
    BY <1>3, <2>1, KeptGo DEF Inv, TypeOK
  <2>. QED
    BY <1>2, <1>3, <2>1, <2>2, KeptGo, OthersKeep
<1>. QED
  BY <1>4, <1>5

LEMMA AssociateKeeps ==
  ASSUME Inv, NEW c \in Clients, CommitAssociate(c)
  PROVE  Inv'
<1>1. PICK k \in Connections : k = ask[c].wire
  BY AtCommit DEF CommitAssociate
<1>2. Leaves(c) /\ rival \ {c} \subseteq rival' /\ WireExists(k)
  BY <1>1, AtCommit DEF CommitAssociate
<1>3. /\ MapsGrow /\ map' \in [Maps -> Map \cup {None, Gone}]
      /\ \A m \in Maps : MapExists(m)' <=> MapExists(m)
      /\ \A m \in Edited(c) : MapExists(m)
  BY Advances, CurrentExist DEF CommitAssociate
<1>4. shown' = shown \cup (Edited(c) \X {k}) /\ UNCHANGED wire
  BY <1>1 DEF CommitAssociate
<1>5. shown' \subseteq {l \in Maps \X Connections : MapExists(l[1])' /\ WireExists(l[2])'}
  BY <1>2, <1>3, <1>4, KeptGo DEF Inv, TypeOK, Edited
<1>. QED
  BY <1>2, <1>3, <1>4, <1>5, KeptGo, OthersKeep

LEMMA DeleteKeeps ==
  ASSUME Inv, NEW c \in Clients, CommitDelete(c)
  PROVE  Inv'
<1>1. PICK k \in Connections : k = ask[c].wire
  BY AtCommit DEF CommitDelete
<1>2. Leaves(c) /\ rival \ {c} \subseteq rival' /\ wire[k] # None /\ Deleted(k)
  BY <1>1, AtCommit DEF CommitDelete
<1>3. /\ MapsGrow /\ map' \in [Maps -> Map \cup {None, Gone}]
      /\ \A m \in Maps : MapExists(m)' <=> MapExists(m)
  BY Advances DEF CommitDelete
<1>4. shown' \subseteq {l \in Maps \X Connections : MapExists(l[1])' /\ WireExists(l[2])'}
  BY <1>2, <1>3, DeletedGo DEF Inv, TypeOK
<1>. QED
  BY <1>2, <1>3, <1>4, DeletedGo, OthersKeep

LEMMA NodesKeep ==
  ASSUME Inv, NEW c \in Clients, CommitNodes(c)
  PROVE  Inv'
<1>1. Leaves(c) /\ rival \ {c} \subseteq rival' /\ ask[c] \in Request
  BY AtCommit DEF CommitNodes
<1>2. /\ \A m \in Edited(c) : MapExists(m) /\ map[m].revision < MaxRevision
      /\ UNCHANGED <<wire, shown>>
  BY DEF CommitNodes, Current
<1>3. PICK D \in SUBSET Devices : D = ask[c].devices
  BY <1>1 DEF Request
<1>4. \A m \in Maps :
        map'[m] = IF m \in Edited(c) THEN [revision |-> map[m].revision + 1, nodes |-> D] ELSE map[m]
  BY <1>3 DEF CommitNodes
<1>5. ASSUME NEW m \in Maps
      PROVE  /\ map'[m] \in Map \cup {None, Gone}
             /\ MapExists(m)' <=> MapExists(m)
             /\ map[m] # None => map'[m] # None
             /\ MapExists(m) => /\ map[m].revision <= map'[m].revision
                                /\ map'[m].revision = map[m].revision
                                     => map'[m].nodes = map[m].nodes
  <2>1. MapExists(m) => map[m] \in Map /\ map[m].revision \in Int
    BY Typed, TopologyAssumption DEF Inv, Map
  <2>2. CASE m \in Edited(c)
    <3>1. /\ map'[m] = [revision |-> map[m].revision + 1, nodes |-> D]
          /\ MapExists(m) /\ map[m].revision < MaxRevision
      BY <1>2, <1>4, <2>2
    <3>2. map[m].revision + 1 \in 0 .. MaxRevision
      BY <2>1, <3>1, TopologyAssumption DEF Map
    <3>3. map'[m] \in Map /\ map'[m].revision = map[m].revision + 1
      BY <3>1, <3>2 DEF Map
    <3>. QED
      BY <2>1, <3>1, <3>3, Markers DEF MapExists
  <2>3. CASE m \notin Edited(c)
    <3>1. map'[m] = map[m] /\ map[m] \in Map \cup {None, Gone}
      BY <1>4, <2>3 DEF Inv, TypeOK
    <3>2. MapExists(m)' <=> MapExists(m)
      BY <3>1 DEF MapExists
    <3>. QED
      BY <2>1, <3>1, <3>2
  <2>. QED
    BY <2>2, <2>3
<1>6. MapsGrow /\ map' \in [Maps -> Map \cup {None, Gone}]
  <2>1. DOMAIN map' = Maps /\ map' = [m \in Maps |-> map'[m]]
    BY DEF CommitNodes
  <2>. QED
    BY <1>5, <2>1 DEF MapsGrow
<1>7. shown' \subseteq {l \in Maps \X Connections : MapExists(l[1])' /\ WireExists(l[2])'}
  BY <1>2, <1>5, KeptGo DEF Inv, TypeOK
<1>. QED
  BY <1>1, <1>2, <1>6, <1>7, KeptGo, OthersKeep

LEMMA RemoveKeeps ==
  ASSUME Inv, NEW c \in Clients, CommitRemove(c)
  PROVE  Inv'
<1>1. Leaves(c) /\ rival \ {c} \subseteq rival'
  BY AtCommit DEF CommitRemove
<1>2. /\ map' = [m \in Maps |-> IF m \in Edited(c) THEN Gone ELSE map[m]]
      /\ shown' = {l \in shown : l[1] \notin Edited(c)} /\ UNCHANGED wire
  BY DEF CommitRemove
<1>3. \A m \in Maps : /\ MapExists(m)' => m \notin Edited(c) /\ MapExists(m) /\ map'[m] = map[m]
                      /\ m \notin Edited(c) => (MapExists(m)' <=> MapExists(m))
  BY <1>2 DEF MapExists
<1>4. \A m \in Maps : MapExists(m) => map[m].revision \in Int
  BY Typed, TopologyAssumption DEF Inv, Map
<1>5. MapsGrow
  BY <1>2, <1>3, <1>4, Markers DEF MapsGrow
<1>6. map' \in [Maps -> Map \cup {None, Gone}]
  BY <1>2 DEF Inv, TypeOK
<1>7. shown' \subseteq {l \in Maps \X Connections : MapExists(l[1])' /\ WireExists(l[2])'}
  BY <1>2, <1>3, KeptGo DEF Inv, TypeOK
<1>. QED
  BY <1>1, <1>2, <1>5, <1>6, <1>7, KeptGo, OthersKeep
LEMMA FailKeeps ==
  ASSUME Inv, NEW c \in Clients, Fail(c)
  PROVE  Inv'
<1>1. /\ Done(c) /\ rival' = rival \ {c} /\ UNCHANGED <<map, wire, shown>>
  BY DEF Fail
<1>2. Leaves(c)
  BY <1>1, DoneLeaves DEF Inv, TypeOK
<1>3. \A m \in Maps : MapExists(m)' <=> MapExists(m)
  BY <1>1 DEF MapExists
<1>4. \A m \in Maps : MapExists(m) => map[m].revision \in Int
  BY Typed, TopologyAssumption DEF Inv, Map
<1>5. MapsGrow /\ map' \in [Maps -> Map \cup {None, Gone}]
  BY <1>1, <1>3, <1>4 DEF MapsGrow, Inv, TypeOK
<1>6. shown' \subseteq {l \in Maps \X Connections : MapExists(l[1])' /\ WireExists(l[2])'}
  BY <1>1, <1>3, KeptGo DEF Inv, TypeOK
<1>. QED
  BY <1>1, <1>2, <1>5, <1>6, KeptGo, OthersKeep

LEMMA BeginKeeps ==
  ASSUME Inv, NEW c \in Clients, Begin(c)
  PROVE  Inv'
<1>1. /\ ask[c] # None /\ c \notin begun
      /\ \A k \in Connections : k # ask[c].wire /\ WireExists(k)
                                  => wire[k].ports \cap ask[c].checks = {}
      /\ begun' = begun \cup {c} /\ last' \subseteq last \cup {c}
      /\ UNCHANGED <<map, wire, shown, ask, rival>>
  BY DEF Begin
<1>2. TypeOK'
  BY <1>1 DEF Inv, TypeOK, MapExists, WireExists, WireOK
<1>3. PortsExclusive' /\ AsksOK' /\ MapsHold'
  BY <1>1 DEF Inv, PortsExclusive, AsksOK, AskOK, MapsHold, Shows, Edited, MapExists, WireExists,
              Endpoints
<1>4. ChecksHold'
  <2>. SUFFICES ASSUME NEW b \in Clients, NEW k \in Connections,
                       (Checked(b) /\ b \notin rival /\ k # ask[b].wire /\ WireExists(k))'
                PROVE  (ask[b].ports \cap wire[k].ports = {})'
    BY DEF ChecksHold
  <2>1. CASE b = c
    <3>1. ask[c].ports \subseteq ask[c].checks
      BY <1>1 DEF Inv, AsksOK, AskOK
    <3>. QED
      BY <1>1, <2>1, <3>1 DEF WireExists
  <2>2. CASE b # c
    BY <1>1, <2>2 DEF Inv, ChecksHold, Checked, WireExists
  <2>. QED
    BY <2>1, <2>2
<1>. QED
  BY <1>2, <1>3, <1>4 DEF Inv

\* A map that was not there is in no request.
LEMMA CreateMapKeeps ==
  ASSUME Inv, NEW m \in Maps, CreateMap(m)
  PROVE  Inv'
<1>1. /\ map[m] = None /\ map' = [map EXCEPT ![m] = [revision |-> 0, nodes |-> {}]]
      /\ UNCHANGED <<wire, shown, ask, begun, last, rival>>
  BY DEF CreateMap
<1>2. map \in [Maps -> Map \cup {None, Gone}]
  BY DEF Inv, TypeOK
<1>3. /\ map'[m] = [revision |-> 0, nodes |-> {}] /\ map'[m] \in Map
      /\ \A n \in Maps \ {m} : map'[n] = map[n]
      /\ map' \in [Maps -> Map \cup {None, Gone}]
  BY <1>1, <1>2, TopologyAssumption DEF Map
<1>4. MapExists(m)' /\ ~MapExists(m)
  BY <1>1, <1>3, Markers DEF MapExists
<1>5. TypeOK'
  <2>1. shown' \subseteq {l \in Maps \X Connections : MapExists(l[1])' /\ WireExists(l[2])'}
    BY <1>1, <1>3, <1>4, KeptGo DEF Inv, TypeOK, MapExists
  <2>. QED
    BY <1>1, <1>3, <2>1, KeptGo DEF Inv, TypeOK, WiresOnlyGo
<1>6. PortsExclusive' /\ ChecksHold'
  BY <1>1 DEF Inv, PortsExclusive, ChecksHold, Checked, WireExists
<1>7. \A c \in Clients : ask[c] # None => m \notin Edited(c)
  BY <1>1 DEF Inv, AsksOK, AskOK
<1>8. AsksOK'
  BY <1>1, <1>3, <1>7 DEF Inv, AsksOK, AskOK, Edited, WireExists, Endpoints
<1>9. MapsHold'
  BY <1>1, <1>3, <1>7 DEF Inv, MapsHold, Shows, Edited, MapExists, WireExists
<1>. QED
  BY <1>5, <1>6, <1>8, <1>9 DEF Inv

-----------------------------------------------------------------------------
(* The theorems *)

LEMMA InitInv == Init => Inv
<1>. SUFFICES ASSUME Init PROVE Inv
  OBVIOUS
<1>1. /\ \A m \in Maps : ~MapExists(m) /\ \A k \in Connections : ~WireExists(k)
      /\ \A c \in Clients : ask[c] = None
      /\ shown = {} /\ begun = {} /\ last = {} /\ rival = {}
  BY DEF Init, MapExists, WireExists
<1>. QED
  BY <1>1 DEF Init, Inv, TypeOK, PortsExclusive, AsksOK, AskOK, ChecksHold, Checked, MapsHold,
              WireExists

LEMMA StepInv == Inv /\ [Next]_vars => Inv'
<1>. SUFFICES ASSUME Inv, [Next]_vars PROVE Inv'
  OBVIOUS
<1>1. ASSUME NEW m \in Maps, CreateMap(m) PROVE Inv'
  BY <1>1, CreateMapKeeps
<1>2. ASSUME NEW c \in Clients, Asks(c) PROVE Inv'
  BY <1>2, AsksKeep
<1>3. ASSUME NEW c \in Clients, Runs(c) PROVE Inv'
  BY <1>3, BeginKeeps, ConnectKeeps, ReconnectKeeps, DisconnectKeeps, AssociateKeeps, NodesKeep,
     RemoveKeeps, DeleteKeeps, FailKeeps DEF Runs
<1>4. CASE UNCHANGED vars
  BY <1>4 DEF vars, Inv, TypeOK, PortsExclusive, AsksOK, AskOK, ChecksHold, Checked, MapsHold,
              Shows, Edited, MapExists, WireExists, WireOK, Endpoints
<1>. QED
  BY <1>1, <1>2, <1>3, <1>4 DEF Next

\* The invariant holds in every state of every behaviour.
THEOREM RequestsAreSafe == Spec => []Inv
BY InitInv, StepInv, PTL DEF Spec

\* Rows and requests keep their shapes; links join rows that exist.
THEOREM ShapesAreKept == Spec => []TypeOK
<1>1. Inv => TypeOK
  BY DEF Inv
<1>. QED
  BY <1>1, RequestsAreSafe, PTL

\* A port is in one connection, however many requests make and change them.
THEOREM PortsStayExclusive == Spec => []PortsExclusive
<1>1. Inv => PortsExclusive
  BY DEF Inv
<1>. QED
  BY <1>1, RequestsAreSafe, PTL
\* Both ends are nodes of the map at the moment a connection is put on it.
LEMMA StepLinks ==
  ASSUME Inv, NEW c \in Clients, Runs(c), NEW m \in Maps, NEW k \in Connections,
         <<m, k>> \in shown' \ shown
  PROVE  wire'[k].ends \subseteq map'[m].nodes
<1>1. CASE CommitConnect(c)
  <2>1. PICK j \in Connections :
          /\ wire[j] = None
          /\ wire' = [wire EXCEPT ![j] = [ends |-> ask[c].devices, ports |-> ask[c].ports]]
          /\ shown' = shown \cup (Edited(c) \X {j})
    BY <1>1 DEF CommitConnect
  <2>2. m \in Edited(c) /\ j = k
    BY <2>1
  <2>3. /\ ask[c].op \in {"connect", "create"} /\ ask[c] # None /\ ask[c] \in Request
    BY <1>1, AtCommit DEF CommitConnect
  <2>4. MapExists(m) /\ map[m].revision = ask[c].maps[m] /\ map'[m].nodes = map[m].nodes
    BY <1>1, <2>2, Advances, CurrentExist DEF CommitConnect, Current
  <2>5. wire'[k].ends = ask[c].devices
    BY <2>1, <2>2 DEF Inv, TypeOK
  <2>6. ask[c].op = "connect"
    BY <1>1, <2>2, <2>3 DEF Inv, AsksOK, AskOK, Edited
  <2>7. ask[c].devices \in SUBSET Devices
    BY <2>3 DEF Request
  <2>. QED
    BY <2>2, <2>3, <2>4, <2>5, <2>6, <2>7 DEF Inv, MapsHold, Shows
<1>2. CASE CommitAssociate(c)
  <2>1. PICK j \in Connections : j = ask[c].wire
    BY <1>2, AtCommit DEF CommitAssociate
  <2>2. m \in Edited(c) /\ j = k /\ WireExists(k) /\ UNCHANGED wire
    BY <1>2, <2>1 DEF CommitAssociate
  <2>3. ask[c].op = "associate" /\ ask[c] # None
    BY <1>2, AtCommit DEF CommitAssociate
  <2>4. MapExists(m) /\ map[m].revision = ask[c].maps[m] /\ map'[m].nodes = map[m].nodes
    BY <1>2, <2>2, Advances, CurrentExist DEF CommitAssociate, Current
  <2>5. wire[k].ends \in SUBSET Devices
    BY <2>2, Typed DEF Inv, Wire
  <2>. QED
    BY <2>1, <2>2, <2>3, <2>4, <2>5 DEF Inv, MapsHold, Shows
<1>3. CASE ~CommitConnect(c) /\ ~CommitAssociate(c)
  <2>1. shown' \subseteq shown
    BY <1>3 DEF Runs, Begin, CommitReconnect, CommitDisconnect, CommitNodes, CommitRemove,
                CommitDelete, Deleted, Fail
  <2>. QED
    BY <2>1
<1>. QED
  BY <1>1, <1>2, <1>3

\* A connection is only put on a map that has both its ends, though the nodes
\* were read before the transaction.
THEOREM LinksAlwaysJoinNodes == Spec => LinksJoinNodes
<1>. DEFINE Joins == \A m \in Maps, k \in Connections :
                       <<m, k>> \in shown' \ shown => wire'[k].ends \subseteq map'[m].nodes
<1>1. Inv /\ [Next]_vars => [Joins]_vars
  <2>. SUFFICES ASSUME Inv, Next, NEW m \in Maps, NEW k \in Connections, <<m, k>> \in shown' \ shown
                PROVE  wire'[k].ends \subseteq map'[m].nodes
    BY DEF vars
  <2>1. ASSUME NEW n \in Maps, CreateMap(n) PROVE FALSE
    BY <2>1 DEF CreateMap
  <2>2. ASSUME NEW c \in Clients, Asks(c) PROVE FALSE
    BY <2>2 DEF Asks, AskCreate, AskRemove, AskUpdate, AskNodes, AskConnect, AskReconnect,
                AskDelete, AskDisconnect, AskAssociate, Ask
  <2>. QED
    BY <2>1, <2>2, StepLinks DEF Next
<1>. QED
  BY <1>1, RequestsAreSafe, PTL DEF Spec, LinksJoinNodes
\* With the revision it had, a map has the nodes it had, and the connections
\* that are still there.
LEMMA StepRevision ==
  ASSUME Inv, NEW c \in Clients, Runs(c), NEW m \in Maps, MapExists(m), MapExists(m)',
         map'[m].revision = map[m].revision
  PROVE  /\ map'[m].nodes = map[m].nodes
         /\ \A k \in Connections :
              (<<m, k>> \in shown) # (<<m, k>> \in shown') => wire'[k] = Gone
<1>0. map[m].revision \in Int
  BY Typed, TopologyAssumption DEF Inv, Map
<1>1. CASE CommitConnect(c) \/ CommitAssociate(c)
  <2>1. m \notin Edited(c) /\ map'[m].nodes = map[m].nodes
    BY <1>0, <1>1, Advances, CurrentExist DEF CommitConnect, CommitAssociate
  <2>2. PICK j \in Connections \cup {None} : shown' = shown \cup (Edited(c) \X {j})
    BY <1>1, AtCommit DEF CommitConnect, CommitAssociate
  <2>3. \A k \in Connections : (<<m, k>> \in shown) <=> (<<m, k>> \in shown')
    BY <2>1, <2>2
  <2>. QED
    BY <2>1, <2>3
<1>2. CASE CommitReconnect(c)
  BY <1>2, Advances, CurrentExist DEF CommitReconnect
<1>3. CASE CommitDisconnect(c)
  <2>1. m \notin Edited(c) /\ map'[m].nodes = map[m].nodes
    BY <1>0, <1>3, Advances, CurrentExist DEF CommitDisconnect
  <2>2. PICK j \in Connections : j = ask[c].wire
    BY <1>3, AtCommit DEF CommitDisconnect
  <2>3. wire[j] # None
    BY <1>3, <2>2, AtCommit DEF CommitDisconnect
  <2>4. CASE c \in last
    <3>1. Deleted(j)
      BY <1>3, <2>2, <2>4 DEF CommitDisconnect
    <3>. QED
      BY <2>1, <2>3, <3>1, DeletedGo
  <2>5. CASE c \notin last
    <3>1. shown' = shown \ (Edited(c) \X {j})
      BY <1>3, <2>2, <2>5 DEF CommitDisconnect
    <3>. QED
      BY <2>1, <3>1
  <2>. QED
    BY <2>4, <2>5
<1>4. CASE CommitDelete(c)
  <2>1. PICK j \in Connections : j = ask[c].wire
    BY <1>4, AtCommit DEF CommitDelete
  <2>2. Deleted(j) /\ wire[j] # None
    BY <1>4, <2>1, AtCommit DEF CommitDelete
  <2>3. map'[m].nodes = map[m].nodes
    BY <1>4, Advances DEF CommitDelete
  <2>. QED
    BY <2>2, <2>3, DeletedGo
<1>5. CASE CommitNodes(c)
  BY <1>0, <1>5 DEF CommitNodes
<1>6. CASE CommitRemove(c)
  BY <1>6 DEF CommitRemove, MapExists
<1>7. CASE Begin(c) \/ Fail(c)
  BY <1>7 DEF Begin, Fail
<1>. QED
  BY <1>1, <1>2, <1>3, <1>4, <1>5, <1>6, <1>7 DEF Runs

\* An unchanged revision means unchanged nodes, and links but for deletions.
THEOREM RevisionsNumberMaps == Spec => RevisionNumbersMap
<1>. DEFINE Numbered ==
       \A m \in Maps :
         MapExists(m) /\ MapExists(m)' /\ map'[m].revision = map[m].revision
           => /\ map'[m].nodes = map[m].nodes
              /\ \A k \in Connections :
                   (<<m, k>> \in shown) # (<<m, k>> \in shown') => wire'[k] = Gone
<1>1. Inv /\ [Next]_vars => [Numbered]_vars
  <2>. SUFFICES ASSUME Inv, Next, NEW m \in Maps, MapExists(m), MapExists(m)',
                       map'[m].revision = map[m].revision
                PROVE  /\ map'[m].nodes = map[m].nodes
                       /\ \A k \in Connections :
                            (<<m, k>> \in shown) # (<<m, k>> \in shown') => wire'[k] = Gone
    BY DEF vars
  <2>1. ASSUME NEW n \in Maps, CreateMap(n) PROVE UNCHANGED shown /\ map'[m] = map[m]
    <3>1. n # m
      BY <2>1 DEF CreateMap, MapExists
    <3>. QED
      BY <2>1, <3>1 DEF CreateMap, Inv, TypeOK
  <2>2. ASSUME NEW c \in Clients, Asks(c) PROVE UNCHANGED shown /\ map'[m] = map[m]
    BY <2>2 DEF Asks, AskCreate, AskRemove, AskUpdate, AskNodes, AskConnect, AskReconnect,
                AskDelete, AskDisconnect, AskAssociate, Ask
  <2>. QED
    BY <2>1, <2>2, StepRevision DEF Next
<1>. QED
  BY <1>1, RequestsAreSafe, PTL DEF Spec, RevisionNumbersMap
===============================================================================
