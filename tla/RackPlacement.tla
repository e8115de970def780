---------------------------- MODULE RackPlacement ----------------------------
(***************************************************************************)
(* Devices in racks, and the requests of the API that put them there:      *)
(* apps/api/src/infrastructure/infrastructure.service.ts (create, update,  *)
(* bulk update, import, retirement, placement) and onboardDevice of        *)
(* apps/api/src/snmp/snmp.service.ts.                                      *)
(*                                                                         *)
(* A request first reads and validates, then writes; in between any other  *)
(* request may step. placeDevice does both in one Serializable             *)
(* transaction; everything else validates outside the transaction that     *)
(* writes, or inside it at Read Committed. The reads of one validation are *)
(* taken at one moment.                                                    *)
(***************************************************************************)
EXTENDS RackPlans

CONSTANTS
  Devices,      \* ids of Device rows that may be created (a bound)
  Clients,      \* concurrent API requests
  Heights,      \* rackUnitSize values a request carries: the DTO takes any integer
  Starts,       \* rackUnitStart values a request carries
  RoomOf,       \* the room of each rack
  Operations,   \* the operations this instance exercises (a bound)
  None          \* no rack, no row

\* UNKNOWN stands for MAINTENANCE and INACTIVE too: nothing here tells them apart.
Status == {"ACTIVE", "RETIRED", "UNKNOWN"}
Columns == {"status", "rack", "start", "size"}

\* A null unit or height is 0: the code tests both for truth.
Row == [status : Status, rack : Racks \cup {None}, start : Nat, size : Int]

ASSUME PlacementAssumption ==
  /\ Heights \subseteq Int \ {0}
  /\ Starts \subseteq Nat \ {0}
  /\ DOMAIN RoomOf = Racks
  /\ None \notin Racks \cup Row

VARIABLES
  row,      \* Device rows
  writes,   \* per request, the rows its statement is about to write
  columns,  \* the columns the statement sets; none when there is no statement
  reads,    \* the racks read by its transaction, if that is Serializable
  missed,   \* rows others have written since it read them
  rival,    \* another placement has changed a rack it read
  queue     \* the updates a bulk request has left

requests == <<writes, columns, reads, missed, rival, queue>>
vars == <<row, requests>>

Exists(d) == row[d] # None
SlotIn(r) == [rack |-> r.rack, start |-> r.start, size |-> r.size]
Complete(r) == r.rack # None /\ r.start # 0 /\ r.size # 0
SlotAt(d) == SlotIn(row[d])
Recorded(d) == Exists(d) /\ Complete(row[d])
Standing(d) == Recorded(d) /\ row[d].status # "RETIRED"

\* validateRackPlacement, validateOnboardingRack: retired devices count too.
Vacant(slot, d) ==
  /\ Fits(slot)
  /\ \A e \in Devices \ {d} : Recorded(e) => ~Overlap(slot, SlotAt(e))

-----------------------------------------------------------------------------
(* A request: read and validate, then write. *)

Idle(c) == columns[c] = {} /\ queue[c] = <<>>
Only(d, r) == [x \in {d} |-> r]
Nothing == [x \in {} |-> 0]

\* The request has validated what it will write; the statement is next.
Prepare(c, w, cols, racks) ==
  /\ writes' = [writes EXCEPT ![c] = w]
  /\ columns' = [columns EXCEPT ![c] = cols]
  /\ reads' = [reads EXCEPT ![c] = racks]
  /\ missed' = [missed EXCEPT ![c] = {}]
  /\ rival' = [rival EXCEPT ![c] = FALSE]
  /\ UNCHANGED row

Written(d, r, cols) ==
  [status |-> IF "status" \in cols THEN r.status ELSE row[d].status,
   rack   |-> IF "rack"   \in cols THEN r.rack   ELSE row[d].rack,
   start  |-> IF "start"  \in cols THEN r.start  ELSE row[d].start,
   size   |-> IF "size"   \in cols THEN r.size   ELSE row[d].size]

\* The rows of D change under the other requests. Between two Serializable
\* transactions only what they read of each other's writes matters.
Overtake(c, D) ==
  /\ missed' = [b \in Clients |->
                  IF b = c \/ columns[b] = {} THEN {}
                  ELSE IF reads[b] # {} /\ reads[c] # {} THEN missed[b]
                  ELSE missed[b] \cup D]
  /\ rival' = [b \in Clients |->
                 b # c /\ columns[b] # {} /\ (rival[b] \/ reads[b] \cap reads[c] # {})]

\* A bug: the transaction of a placement is at Repeatable Read.
RefusedForRows(c) == reads[c] # {} /\ missed[c] \cap DOMAIN writes[c] # {}

\* What PostgreSQL refuses to commit: a Serializable transaction that updates
\* rows changed since its snapshot, or whose racks another one has changed.
Refused(c) == reads[c] # {} /\ (rival[c] \/ missed[c] \cap DOMAIN writes[c] # {})

Done(c) ==
  /\ writes' = [writes EXCEPT ![c] = Nothing]
  /\ columns' = [columns EXCEPT ![c] = {}]
  /\ reads' = [reads EXCEPT ![c] = {}]

Commit(c) ==
  /\ columns[c] # {} /\ ~Refused(c)
  /\ row' = [d \in Devices |-> IF d \in DOMAIN writes[c]
                                 THEN Written(d, writes[c][d], columns[c])
                                 ELSE row[d]]
  /\ Overtake(c, DOMAIN writes[c])
  /\ Done(c)
  /\ UNCHANGED queue

\* P2034, a unique constraint, a foreign key: nothing is written. A bulk
\* request notes the failure and goes on.
Fail(c) ==
  /\ columns[c] # {}
  /\ missed' = [missed EXCEPT ![c] = {}]
  /\ rival' = [rival EXCEPT ![c] = FALSE]
  /\ Done(c)
  /\ UNCHANGED <<row, queue>>

-----------------------------------------------------------------------------
(* Operations. *)

Slots == [rack : Racks, start : Starts, size : Heights]
Stands(st, slot) == [status |-> st, rack |-> slot.rack, start |-> slot.start, size |-> slot.size]
Fresh(d) == ~Exists(d) /\ \A c \in Clients : d \notin DOMAIN writes[c]

\* createDevice with a rack (ACTIVE or RETIRED), and onboardDevice (UNKNOWN),
\* whose DTO takes a height of 1 or more.
CreateInRack(c, d) ==
  /\ "create" \in Operations /\ Idle(c) /\ Fresh(d)
  /\ \E slot \in Slots, st \in Status :
       /\ st = "UNKNOWN" => slot.size >= 1
       /\ Vacant(slot, d)
       /\ Prepare(c, Only(d, Stands(st, slot)), Columns, {})
  /\ UNCHANGED queue

\* createDevice without a rack; the height may be missing. A unit sent along is
\* left out: it is written anew before anything depends on it.
CreateInSite(c, d) ==
  /\ "create" \in Operations /\ Idle(c) /\ Fresh(d)
  /\ \E st \in Status, h \in Heights \cup {0} :
       Prepare(c, Only(d, [status |-> st, rack |-> None, start |-> 0, size |-> h]), Columns, {})
  /\ UNCHANGED queue

\* importDevices: previewDeviceImport validates every row of the file against
\* the database, and the rows against each other.
Import(c, D) ==
  /\ "import" \in Operations /\ Idle(c) /\ D # {} /\ \A d \in D : Fresh(d)
  /\ \E slots \in [D -> Slots], st \in {"ACTIVE", "RETIRED"} :
       /\ \A d \in D : slots[d].size >= 1 /\ Vacant(slots[d], d)
       /\ ImportConflicts(slots) = {}
       /\ Prepare(c, [d \in D |-> Stands(st, slots[d])], Columns, {})
  /\ UNCHANGED queue

\* updateDevice that names a rack. The status is decided on the row it has read.
Update(c, d) ==
  /\ "update" \in Operations /\ Idle(c) /\ Exists(d)
  /\ \E slot \in Slots, st \in Status :
       /\ Vacant(slot, d)
       /\ Prepare(c, Only(d, Stands(IF row[d].status # "RETIRED" THEN "ACTIVE" ELSE st, slot)),
                  Columns, {})
  /\ UNCHANGED queue

\* updateDevice without rackId, or with a null one: no position is validated,
\* and the unit and the height it carries are written.
Edit(c, d) ==
  /\ "edit" \in Operations /\ Idle(c) /\ Exists(d)
  /\ \E st \in Status, s \in Starts \cup {0}, h \in Heights \cup {0}, unrack \in BOOLEAN :
       Prepare(c, Only(d, [status |-> st, rack |-> None, start |-> s, size |-> h]),
               {"status"} \cup (IF unrack THEN {"rack"} ELSE {})
                          \cup (IF s # 0 THEN {"start"} ELSE {})
                          \cup (IF h # 0 THEN {"size"} ELSE {}), {})
  /\ UNCHANGED queue

\* confirmDeviceRetirement: one statement, whatever the device's position.
Retire(d) ==
  /\ "retire" \in Operations /\ Exists(d)
  /\ row' = [row EXCEPT ![d].status = "RETIRED"]
  /\ missed' = [c \in Clients |-> IF columns[c] = {} THEN {} ELSE missed[c] \cup {d}]
  /\ UNCHANGED <<writes, columns, reads, rival, queue>>

\* placeDevice: buildDevicePlacementPlan on the transaction's snapshot. The
\* height is not among the columns it updates.
Place(c, d, rack, start) ==
  LET racked == row[d].rack # None
      racks == {rack} \cup (IF racked THEN {row[d].rack} ELSE {})
      there == {e \in Devices : Standing(e) /\ row[e].rack \in racks}
      dropped == [rack |-> rack, start |-> start, size |-> IF row[d].size = 0 THEN 1 ELSE row[d].size]
      layout == [e \in there \cup {d} |-> IF racked \/ e # d THEN SlotAt(e) ELSE dropped]
      plan == Plan(layout, d, rack, start)
  IN /\ "place" \in Operations /\ Idle(c) /\ Exists(d)
     /\ racked => d \in there /\ RoomOf[row[d].rack] = RoomOf[rack]
     /\ plan # NoPlan
     /\ Prepare(c, [e \in DOMAIN plan |-> Stands("ACTIVE", plan[e])],
                {"status", "rack", "start"}, racks)
     /\ UNCHANGED queue

-----------------------------------------------------------------------------
(* bulkUpdateDevices *)

\* The request updateDevice gets for one device, from the row read at the start.
Item(d, rack, start, st, cleared) ==
  [dev |-> d,
   to |-> [status |-> st, rack |-> rack, start |-> start, size |-> row[d].size],
   cols |-> {"status"} \cup (IF rack # None \/ cleared THEN {"rack"} ELSE {})
                       \cup (IF start # 0 \/ cleared THEN {"start"} ELSE {})
                       \cup (IF row[d].size # 0 THEN {"size"} ELSE {})]

Selected(order) == {order[i] : i \in DOMAIN order}
Queued(c, items) == queue' = [queue EXCEPT ![c] = items]

BulkGuard(c, order) ==
  /\ "bulk" \in Operations /\ Idle(c)
  /\ \A d \in Selected(order) : Exists(d)

\* A new rack for all: the lowest units that the devices not selected leave free.
BulkMove(c, order, rack) ==
  LET taken == UNION {row[e].start .. Top(SlotAt(e)) :
                        e \in {x \in Devices \ Selected(order) : Recorded(x) /\ row[x].rack = rack}}
      heights == [i \in DOMAIN order |-> IF row[order[i]].size = 0 THEN 1 ELSE row[order[i]].size]
  IN /\ BulkGuard(c, order)
     /\ \E starts \in FirstFits(rack, taken, heights) :
          Queued(c, [i \in DOMAIN order |->
                       Item(order[i], rack, starts[i], row[order[i]].status, FALSE)])
     /\ UNCHANGED <<row, writes, columns, reads, missed, rival>>

\* A new status for all; every other field is sent back as it was read.
BulkStatus(c, order, st) ==
  /\ BulkGuard(c, order)
  /\ Queued(c, [i \in DOMAIN order |->
                  Item(order[i], row[order[i]].rack, row[order[i]].start, st, FALSE)])
  /\ UNCHANGED <<row, writes, columns, reads, missed, rival>>

\* rackId: null takes the devices out of their racks.
BulkUnrack(c, order) ==
  /\ BulkGuard(c, order)
  /\ Queued(c, [i \in DOMAIN order |-> Item(order[i], None, 0, row[order[i]].status, TRUE)])
  /\ UNCHANGED <<row, writes, columns, reads, missed, rival>>

\* updateDevicesIndividually: the next update, validated on its own now; one
\* that is refused does not stop the others.
BulkNext(c) ==
  LET item == Head(queue[c])
  IN /\ columns[c] = {} /\ queue[c] # <<>>
     /\ Queued(c, Tail(queue[c]))
     /\ IF item.to.rack # None => Complete(item.to) /\ Vacant(SlotIn(item.to), item.dev)
          THEN Prepare(c, Only(item.dev, item.to), item.cols, {})
          ELSE UNCHANGED <<row, writes, columns, reads, missed, rival>>

-----------------------------------------------------------------------------
Init ==
  /\ row = [d \in Devices |-> None]
  /\ writes = [c \in Clients |-> Nothing]
  /\ columns = [c \in Clients |-> {}]
  /\ reads = [c \in Clients |-> {}]
  /\ missed = [c \in Clients |-> {}]
  /\ rival = [c \in Clients |-> FALSE]
  /\ queue = [c \in Clients |-> <<>>]

\* A bulk request goes through its devices in the order the database returns them.
Orders == {order \in UNION {[1 .. n -> Devices] : n \in 1 .. 2} :
             \A i, j \in DOMAIN order : i # j => order[i] # order[j]}

Request(c) ==
  \/ \E d \in Devices : CreateInRack(c, d) \/ CreateInSite(c, d) \/ Update(c, d) \/ Edit(c, d)
  \/ \E D \in SUBSET Devices : Import(c, D)
  \/ \E d \in Devices, rack \in Racks, start \in Starts : Place(c, d, rack, start)
  \/ \E order \in Orders : \/ \E rack \in Racks : BulkMove(c, order, rack)
                           \/ \E st \in Status : BulkStatus(c, order, st)
                           \/ BulkUnrack(c, order)
  \/ BulkNext(c) \/ Commit(c) \/ Fail(c)

Next == (\E c \in Clients : Request(c)) \/ (\E d \in Devices : Retire(d))

Spec == Init /\ [][Next]_vars

-----------------------------------------------------------------------------
(* Properties *)

\* Rows and requests keep the shapes the code gives them.
RowsOK == row \in [Devices -> Row \cup {None}]
WritesOK ==
  /\ DOMAIN writes = Clients
  /\ \A c \in Clients : \E D \in SUBSET Devices : writes[c] \in [D -> Row]
RequestsOK ==
  /\ columns \in [Clients -> SUBSET Columns]
  /\ reads \in [Clients -> SUBSET Racks]
  /\ missed \in [Clients -> SUBSET Devices]
  /\ rival \in [Clients -> BOOLEAN]
ItemType == [dev : Devices, to : Row, cols : SUBSET Columns]
QueueOK == queue \in [Clients -> Seq(ItemType)]
TypeOK == RowsOK /\ WritesOK /\ RequestsOK /\ QueueOK

\* However requests interleave, a device only comes to stand in a slot outside
\* its rack, or in one that another device stands in, when the request that put
\* it there named no rack, or when the other device was written after the
\* request had read it. Two placements are never such a pair.
Commits(c) == columns[c] # {} /\ columns'[c] = {}
ComesToStand(d) == Standing(d)' /\ (Standing(d) => SlotAt(d)' # SlotAt(d))
Validated(c, d) ==
  /\ Fits(SlotAt(d)')
  /\ \A e \in Devices \ {d} :
       Standing(e)' /\ Overlap(SlotAt(d)', SlotAt(e)') => e \in missed[c]
SlotsAreValidated ==
  [][\A d \in Devices : ComesToStand(d) =>
       \E c \in Clients : /\ Commits(c) /\ d \in DOMAIN writes[c]
                          /\ "rack" \notin columns[c] \/ Validated(c, d)]_vars

-----------------------------------------------------------------------------
(* What the documentation says, and the code does not do. *)

\* docs/architecture.md: "O posicionamento U é validado no backend para impedir
\* ... sobreposição de equipamentos". A device of unknown height takes one unit,
\* as in buildDevicePlacementPlan.
Located(d) == Exists(d) /\ row[d].rack # None /\ row[d].start # 0 /\ row[d].status # "RETIRED"
Footprint(d) == [SlotAt(d) EXCEPT !.size = IF @ = 0 THEN 1 ELSE @]
NoOverlap ==
  \A d, e \in Devices : d # e /\ Located(d) /\ Located(e) => ~Overlap(Footprint(d), Footprint(e))

\* docs/decisions.md: "A associação a um rack ... não reativa equipamentos retirados".
RackingDoesNotReactivate ==
  [][\A d \in Devices :
       Exists(d) /\ row[d].status = "RETIRED" /\ row[d].rack # row'[d].rack
         => row'[d].status = "RETIRED"]_vars
=============================================================================
