------------------------ MODULE RackPlacement_proofs -------------------------
(***************************************************************************)
(* RackPlacement for any number of racks, devices and requests, any units, *)
(* heights and positions.                                                  *)
(*                                                                         *)
(* RequestsAreSound says of every pending request what its validation      *)
(* established, and what of that other requests cannot undo, with          *)
(* PlanIsSound (RackPlans_proofs) for the placements. SlotsAreValidated    *)
(* follows from it.                                                        *)
(***************************************************************************)
EXTENDS RackPlacement, RackPlans_proofs, TLAPS

-----------------------------------------------------------------------------
(* The inductive invariant *)

\* A placement writes everything but the height.
PlaceColumns == {"status", "rack", "start"}

\* What is known of a statement that is about to write: "seen" are the racks it
\* read if it is Serializable, "out" the rows others wrote since, "beaten" that
\* another placement changed those racks. Its new positions are inside their
\* racks, clear of each other, and clear of every device that stands, except the
\* devices written since, and except when it is going to be refused.
SoundWrite(w, cols, seen, out, beaten) ==
  /\ beaten => seen # {}
  /\ cols # Columns => \A d \in DOMAIN w : Exists(d)
  /\ seen # {} =>
       /\ cols = PlaceColumns
       /\ \A d \in DOMAIN w : w[d].rack \in seen /\ (d \in out \/ row[d].size \in {0, w[d].size})
  /\ "rack" \in cols =>
       \A d \in DOMAIN w : w[d].rack # None =>
         /\ cols = Columns \/ seen # {}
         /\ Fits(SlotIn(w[d]))
         /\ \A e \in DOMAIN w \ {d} : w[e].rack # None => ~Overlap(SlotIn(w[d]), SlotIn(w[e]))
         /\ \A e \in Devices \ (DOMAIN w \cup out) :
              Standing(e) => beaten \/ ~Overlap(SlotIn(w[d]), SlotAt(e))

Sound(c) ==
  columns[c] # {} => SoundWrite(writes[c], columns[c], reads[c], missed[c], rival[c])

\* The updates a bulk request has left are of devices that exist, and write the
\* whole position when they carry one.
SoundItem(it) == Exists(it.dev) /\ (Complete(it.to) => it.cols = Columns)
QueueSound == \A c \in Clients : \A i \in DOMAIN queue[c] : SoundItem(queue[c][i])

RequestsAreSound == \A c \in Clients : Sound(c)

IInv == TypeOK /\ QueueSound /\ RequestsAreSound

-----------------------------------------------------------------------------
(* Steps of every kind *)

\* Nothing is pending at first.
LEMMA InitSound == Init => IInv
<1>. SUFFICES ASSUME Init PROVE IInv
  OBVIOUS
<1>1. RowsOK /\ RequestsOK /\ QueueOK
  BY DEF Init, RowsOK, RequestsOK, QueueOK
<1>2. WritesOK
  <2>1. Nothing \in [{} -> Row]
    BY DEF Nothing
  <2>2. {} \in SUBSET Devices /\ DOMAIN writes = Clients /\ \A c \in Clients : writes[c] = Nothing
    BY DEF Init
  <2>. QED
    BY <2>1, <2>2 DEF WritesOK
<1>. QED
  BY <1>1, <1>2 DEF Init, IInv, TypeOK, QueueSound, RequestsAreSound, Sound

\* A step that loses no row and touches no queue leaves the queues sound.
LEMMA QueuesKept ==
  ASSUME QueueOK, QueueSound, UNCHANGED queue, \A d \in Devices : Exists(d) => Exists(d)'
  PROVE  QueueOK' /\ QueueSound'
<1>1. ASSUME NEW c \in Clients, NEW i \in DOMAIN queue[c] PROVE queue[c][i].dev \in Devices
  <2>1. queue[c] \in Seq(ItemType)
    BY DEF QueueOK
  <2>2. queue[c][i] \in ItemType
    BY <2>1
  <2>. QED
    BY <2>2 DEF ItemType
<1>. QED
  BY <1>1 DEF QueueOK, QueueSound, SoundItem

\* A statement prepared soundly is a sound request, and disturbs no other.
LEMMA PrepareKeeps ==
  ASSUME IInv, NEW c \in Clients, NEW D \in SUBSET Devices, NEW w \in [D -> Row],
         NEW cols \in SUBSET Columns, NEW seen \in SUBSET Racks,
         SoundWrite(w, cols, seen, {}, FALSE), Prepare(c, w, cols, seen),
         QueueOK', QueueSound'
  PROVE  IInv'
<1>1. RowsOK'
  BY DEF IInv, TypeOK, RowsOK, Prepare
<1>2. WritesOK'
  BY DEF IInv, TypeOK, WritesOK, Prepare
<1>3. RequestsOK'
  BY DEF IInv, TypeOK, RequestsOK, Prepare
<1>4. ASSUME NEW b \in Clients PROVE Sound(b)'
  <2>1. CASE b = c
    <3>1. /\ writes'[b] = w /\ columns'[b] = cols /\ reads'[b] = seen /\ row' = row
          /\ missed'[b] = {} /\ rival'[b] = FALSE
      BY <2>1 DEF IInv, TypeOK, WritesOK, RequestsOK, Prepare
    <3>. QED
      BY <3>1 DEF Sound, SoundWrite, Exists, Standing, Recorded, SlotAt
  <2>2. CASE b # c
    <3>1. /\ writes'[b] = writes[b] /\ columns'[b] = columns[b] /\ reads'[b] = reads[b]
          /\ missed'[b] = missed[b] /\ rival'[b] = rival[b] /\ row' = row
      BY <2>2 DEF IInv, TypeOK, WritesOK, RequestsOK, Prepare
    <3>2. Sound(b)
      BY DEF IInv, RequestsAreSound
    <3>. QED
      BY <3>1, <3>2 DEF Sound, SoundWrite, Exists, Standing, Recorded, SlotAt
  <2>. QED
    BY <2>1, <2>2
<1>. QED
  BY <1>1, <1>2, <1>3, <1>4 DEF IInv, TypeOK, RequestsAreSound

\* One row, with a position of its own or none: vacant is sound.
LEMMA OneRowIsSound ==
  ASSUME NEW d \in Devices, NEW r \in Row, NEW cols \in SUBSET Columns,
         cols # Columns => Exists(d),
         "rack" \in cols /\ r.rack # None => cols = Columns /\ Vacant(SlotIn(r), d)
  PROVE  /\ {d} \in SUBSET Devices /\ Only(d, r) \in [{d} -> Row]
         /\ SoundWrite(Only(d, r), cols, {}, {}, FALSE)
<1>1. Only(d, r) \in [{d} -> Row] /\ DOMAIN Only(d, r) = {d} /\ Only(d, r)[d] = r
  BY DEF Only
<1>2. "rack" \in cols /\ r.rack # None =>
        /\ Fits(SlotIn(r))
        /\ \A e \in Devices \ {d} : Standing(e) => ~Overlap(SlotIn(r), SlotAt(e))
  BY DEF Vacant, Standing
<1>. QED
  BY <1>1, <1>2 DEF SoundWrite

\* The position of a row that carries a slot is that slot.
LEMMA StandsIn ==
  ASSUME NEW st \in Status, NEW slot \in Slots
  PROVE  /\ Stands(st, slot) \in Row /\ Stands(st, slot).rack \in Racks
         /\ SlotIn(Stands(st, slot)) = slot /\ slot \in Slot
  BY PlacementAssumption DEF Stands, Row, Slots, SlotIn, Slot

-----------------------------------------------------------------------------
(* The requests that write a device on its own *)

\* A new device in a rack has validated its slot.
LEMMA CreateInRackKeeps ==
  ASSUME IInv, NEW c \in Clients, NEW d \in Devices, CreateInRack(c, d)
  PROVE  IInv'
<1>1. PICK slot \in Slots, st \in Status :
        Vacant(slot, d) /\ Prepare(c, Only(d, Stands(st, slot)), Columns, {})
  BY DEF CreateInRack
<1>2. Stands(st, slot) \in Row /\ SlotIn(Stands(st, slot)) = slot
  BY StandsIn
<1>3. /\ {d} \in SUBSET Devices /\ Only(d, Stands(st, slot)) \in [{d} -> Row]
      /\ SoundWrite(Only(d, Stands(st, slot)), Columns, {}, {}, FALSE)
  BY <1>1, <1>2, OneRowIsSound
<1>4. QueueOK' /\ QueueSound'
  <2>1. UNCHANGED queue /\ row' = row
    BY <1>1 DEF CreateInRack, Prepare
  <2>. QED
    BY <2>1, QueuesKept DEF IInv, TypeOK, Exists
<1>9. {} \in SUBSET Racks /\ Columns \in SUBSET Columns
  OBVIOUS
<1>. QED
  BY <1>1, <1>3, <1>4, <1>9, PrepareKeeps

\* A new device without a rack has no slot.
LEMMA CreateInSiteKeeps ==
  ASSUME IInv, NEW c \in Clients, NEW d \in Devices, CreateInSite(c, d)
  PROVE  IInv'
<1>1. PICK st \in Status, h \in Heights \cup {0} :
        Prepare(c, Only(d, [status |-> st, rack |-> None, start |-> 0, size |-> h]), Columns, {})
  BY DEF CreateInSite
<1>. DEFINE r == [status |-> st, rack |-> None, start |-> 0, size |-> h]
<1>2. r \in Row /\ r.rack = None
  BY PlacementAssumption DEF Row
<1>3. /\ {d} \in SUBSET Devices /\ Only(d, r) \in [{d} -> Row]
      /\ SoundWrite(Only(d, r), Columns, {}, {}, FALSE)
  <2>. HIDE DEF r
  <2>. QED
    BY <1>2, OneRowIsSound
<1>4. QueueOK' /\ QueueSound'
  <2>1. UNCHANGED queue /\ row' = row
    BY <1>1 DEF CreateInSite, Prepare
  <2>. QED
    BY <2>1, QueuesKept DEF IInv, TypeOK, Exists
<1>9. {} \in SUBSET Racks /\ Columns \in SUBSET Columns
  OBVIOUS
<1>. QED
  BY <1>1, <1>3, <1>4, <1>9, PrepareKeeps

\* An update that names a rack has validated the slot.
LEMMA UpdateKeeps ==
  ASSUME IInv, NEW c \in Clients, NEW d \in Devices, Update(c, d)
  PROVE  IInv'
<1>1. PICK slot \in Slots, st \in Status :
        /\ Vacant(slot, d)
        /\ Prepare(c, Only(d, Stands(IF row[d].status # "RETIRED" THEN "ACTIVE" ELSE st, slot)),
                   Columns, {})
  BY DEF Update
<1>. DEFINE next == IF row[d].status # "RETIRED" THEN "ACTIVE" ELSE st
<1>2. next \in Status
  BY DEF Status
<1>. HIDE DEF next
<1>3. Stands(next, slot) \in Row /\ SlotIn(Stands(next, slot)) = slot
  BY <1>2, StandsIn
<1>4. /\ {d} \in SUBSET Devices /\ Only(d, Stands(next, slot)) \in [{d} -> Row]
      /\ SoundWrite(Only(d, Stands(next, slot)), Columns, {}, {}, FALSE)
  BY <1>1, <1>3, OneRowIsSound
<1>5. QueueOK' /\ QueueSound'
  <2>1. UNCHANGED queue /\ row' = row
    BY <1>1 DEF Update, Prepare
  <2>. QED
    BY <2>1, QueuesKept DEF IInv, TypeOK, Exists
<1>9. {} \in SUBSET Racks /\ Columns \in SUBSET Columns
  OBVIOUS
<1>. QED
  BY <1>1, <1>4, <1>5, <1>9, PrepareKeeps DEF next

\* An update that names none racks nothing.
LEMMA EditKeeps ==
  ASSUME IInv, NEW c \in Clients, NEW d \in Devices, Edit(c, d)
  PROVE  IInv'
<1>. DEFINE r(st, s, h) == [status |-> st, rack |-> None, start |-> s, size |-> h]
            cols(s, h, unrack) == {"status"} \cup (IF unrack THEN {"rack"} ELSE {})
                                             \cup (IF s # 0 THEN {"start"} ELSE {})
                                             \cup (IF h # 0 THEN {"size"} ELSE {})
<1>1. PICK st \in Status, s \in Starts \cup {0}, h \in Heights \cup {0}, unrack \in BOOLEAN :
        Prepare(c, Only(d, r(st, s, h)), cols(s, h, unrack), {})
  BY DEF Edit
<1>2. r(st, s, h) \in Row /\ r(st, s, h).rack = None
  BY PlacementAssumption DEF Row
<1>3. cols(s, h, unrack) \in SUBSET Columns
  BY DEF Columns
<1>4. /\ {d} \in SUBSET Devices /\ Only(d, r(st, s, h)) \in [{d} -> Row]
      /\ SoundWrite(Only(d, r(st, s, h)), cols(s, h, unrack), {}, {}, FALSE)
  <2>1. Exists(d)
    BY DEF Edit
  <2>. HIDE DEF r, cols
  <2>. QED
    BY <2>1, <1>2, <1>3, OneRowIsSound
<1>5. QueueOK' /\ QueueSound'
  <2>1. UNCHANGED queue /\ row' = row
    BY <1>1 DEF Edit, Prepare
  <2>. QED
    BY <2>1, QueuesKept DEF IInv, TypeOK, Exists
<1>. HIDE DEF r, cols
<1>9. {} \in SUBSET Racks /\ Columns \in SUBSET Columns
  OBVIOUS
<1>. QED
  BY <1>1, <1>3, <1>4, <1>5, <1>9, PrepareKeeps

-----------------------------------------------------------------------------
(* The requests that write several devices *)

\* A file has validated every slot, and no two of its slots meet.
LEMMA ImportKeeps ==
  ASSUME IInv, NEW c \in Clients, NEW D \in SUBSET Devices, Import(c, D)
  PROVE  IInv'
<1>1. PICK slots \in [D -> Slots], st \in {"ACTIVE", "RETIRED"} :
        /\ \A d \in D : slots[d].size >= 1 /\ Vacant(slots[d], d)
        /\ ImportConflicts(slots) = {}
        /\ Prepare(c, [d \in D |-> Stands(st, slots[d])], Columns, {})
  BY DEF Import
<1>. DEFINE w == [d \in D |-> Stands(st, slots[d])]
<1>2. \A d \in D : slots[d] \in Slots /\ w[d] \in Row /\ SlotIn(w[d]) = slots[d]
  BY StandsIn DEF Status
<1>3. w \in [D -> Row] /\ DOMAIN w = D /\ DOMAIN slots = D
  BY <1>2
<1>4. \A d \in D : Fits(slots[d]) /\ \A e \in Devices \ {d} : Standing(e) => ~Overlap(slots[d], SlotAt(e))
  BY <1>1 DEF Vacant, Standing
<1>5. \A d \in D : \A e \in D \ {d} : ~Overlap(slots[d], slots[e])
  BY <1>1, <1>3 DEF ImportConflicts
<1>. HIDE DEF w
<1>6. SoundWrite(w, Columns, {}, {}, FALSE)
  BY <1>2, <1>3, <1>4, <1>5 DEF SoundWrite
<1>7. QueueOK' /\ QueueSound'
  <2>1. UNCHANGED queue /\ row' = row
    BY <1>1 DEF Import, Prepare
  <2>. QED
    BY <2>1, QueuesKept DEF IInv, TypeOK, Exists
<1>8. {} \in SUBSET Racks /\ Columns \in SUBSET Columns
  OBVIOUS
<1>9. Prepare(c, w, Columns, {})
  BY <1>1 DEF w
<1>. QED
  BY <1>3, <1>6, <1>7, <1>8, <1>9, PrepareKeeps

\* The devices placeDevice reads form a layout, so that its plan is sound: clear
\* of the devices in the racks it reads, and of those anywhere else.
LEMMA PlaceKeeps ==
  ASSUME IInv, NEW c \in Clients, NEW d \in Devices, NEW rack \in Racks, NEW start \in Starts,
         Place(c, d, rack, start)
  PROVE  IInv'
<1>. DEFINE racked == row[d].rack # None
            seen == {rack} \cup (IF racked THEN {row[d].rack} ELSE {})
            there == {e \in Devices : Standing(e) /\ row[e].rack \in seen}
            dropped == [rack |-> rack, start |-> start,
                        size |-> IF row[d].size = 0 THEN 1 ELSE row[d].size]
            D == there \cup {d}
            layout == [e \in D |-> IF racked \/ e # d THEN SlotAt(e) ELSE dropped]
            plan == Plan(layout, d, rack, start)
            w == [e \in DOMAIN plan |-> Stands("ACTIVE", plan[e])]
<1>1. Exists(d) /\ (racked => d \in there)
  BY DEF Place
<1>2. plan # NoPlan
  BY DEF Place
<1>3. Prepare(c, w, PlaceColumns, seen) /\ UNCHANGED queue
  BY DEF Place, PlaceColumns
<1>. HIDE DEF plan, w
<1>4. \A e \in Devices : Exists(e) => row[e] \in Row
  BY DEF IInv, TypeOK, RowsOK, Exists
<1>5. \A e \in there : Exists(e) /\ SlotAt(e) \in Slot /\ SlotAt(e).size = row[e].size /\ SlotAt(e).rack \in seen
  BY <1>4, PlacementAssumption DEF Standing, Recorded, Complete, SlotAt, SlotIn, Slot, Row
<1>6. start \in Int /\ d \in Devices /\ row[d].size \in Int
  BY <1>1, <1>4, PlacementAssumption DEF Row
<1>7. dropped \in Slot /\ dropped.rack = rack /\ row[d].size \in {0, dropped.size}
  <2>1. (IF row[d].size = 0 THEN 1 ELSE row[d].size) \in Int
    BY <1>6
  <2>. QED
    BY <1>6, <2>1 DEF Slot
<1>8. seen \in SUBSET Racks /\ rack \in seen /\ there \in SUBSET Devices
  BY <1>1, <1>4, PlacementAssumption DEF Row
<1>9. \A e \in D : \/ e \in there /\ layout[e] = SlotAt(e)
                   \/ e = d /\ layout[e] = dropped
  BY <1>1
<1>10. \A e \in Devices \ D : Standing(e) => row[e].rack \notin seen
  OBVIOUS
<1>11. \A e \in D : e # d => layout[e] = SlotAt(e)
  OBVIOUS
<1>12. DOMAIN layout = D /\ layout = [e \in D |-> layout[e]] /\ d \in D /\ there \subseteq D
  OBVIOUS
<1>13. D \in SUBSET Devices
  BY <1>8
<1>. HIDE DEF racked, there, dropped, D, layout, seen
<1>14. layout \in [D -> Slot]
  BY <1>5, <1>7, <1>9, <1>12
<1>15. \A e \in D : row[e].size \in {0, layout[e].size} /\ layout[e].rack \in seen /\ Exists(e)
  BY <1>1, <1>5, <1>7, <1>8, <1>9
<1>16. /\ d \in DOMAIN plan /\ DOMAIN plan \subseteq D
       /\ \A e \in DOMAIN plan : /\ plan[e] \in Slot
                                 /\ plan[e].size = layout[e].size
                                 /\ plan[e].rack \in {rack, layout[d].rack}
                                 /\ Fits(plan[e])
       /\ \A e \in DOMAIN plan : \A f \in D \ {e} : ~Overlap(plan[e], Over(plan, layout)[f])
  BY <1>6, <1>12, <1>14, <1>2, PlanIsSound DEF plan
<1>17. \A e \in DOMAIN plan : /\ Stands("ACTIVE", plan[e]) \in Row
                              /\ SlotIn(Stands("ACTIVE", plan[e])) = plan[e]
  BY <1>16, UnitsAssumption DEF Stands, Row, Status, SlotIn, Slot, Fits
<1>18. /\ w \in [DOMAIN plan -> Row] /\ DOMAIN plan \in SUBSET Devices
       /\ \A e \in DOMAIN plan : w[e].rack = plan[e].rack /\ w[e].size = plan[e].size /\ SlotIn(w[e]) = plan[e]
  BY <1>12, <1>13, <1>16, <1>17 DEF Stands, w
<1>19. ASSUME NEW e \in DOMAIN plan
       PROVE  /\ \A f \in DOMAIN plan \ {e} : ~Overlap(plan[e], plan[f])
              /\ \A f \in Devices \ DOMAIN plan : Standing(f) => ~Overlap(plan[e], SlotAt(f))
  <2>1. ASSUME NEW f \in DOMAIN plan \ {e} PROVE ~Overlap(plan[e], plan[f])
    BY <1>12, <1>16 DEF Over
  <2>2. ASSUME NEW f \in Devices \ DOMAIN plan, Standing(f) PROVE ~Overlap(plan[e], SlotAt(f))
    <3>1. CASE f \in D
      <4>1. Over(plan, layout)[f] = SlotAt(f)
        BY <3>1, <1>12, <1>11, <1>16 DEF Over
      <4>. QED
        BY <4>1, <3>1, <1>16
    <3>2. CASE f \notin D
      <4>1. row[f].rack \notin seen /\ plan[e].rack \in seen
        BY <3>2, <2>2, <1>8, <1>10, <1>12, <1>15, <1>16
      <4>. QED
        BY <4>1 DEF Overlap, SlotAt, SlotIn
    <3>. QED
      BY <3>1, <3>2
  <2>. QED
    BY <2>1, <2>2
<1>20. \A e \in DOMAIN plan : w[e].rack \in seen /\ row[e].size \in {0, w[e].size} /\ Exists(e)
  <2>1. ASSUME NEW e \in DOMAIN plan
        PROVE  w[e].rack \in seen /\ row[e].size \in {0, w[e].size} /\ Exists(e)
    <3>1. e \in D /\ layout[d].rack \in seen
      BY <1>16, <1>12, <1>15
    <3>2. w[e].rack = plan[e].rack /\ w[e].size = layout[e].size /\ plan[e].rack \in {rack, layout[d].rack}
      BY <1>16, <1>18
    <3>. QED
      BY <3>1, <3>2, <1>8, <1>15
  <2>. QED
    BY <2>1
<1>21. SoundWrite(w, PlaceColumns, seen, {}, FALSE)
  BY <1>8, <1>16, <1>18, <1>19, <1>20 DEF SoundWrite
<1>22. QueueOK' /\ QueueSound'
  <2>1. UNCHANGED queue /\ row' = row
    BY <1>3 DEF Prepare
  <2>. QED
    BY <2>1, QueuesKept DEF IInv, TypeOK, Exists
<1>23. PlaceColumns \in SUBSET Columns
  BY DEF PlaceColumns, Columns
<1>. QED
  BY <1>3, <1>8, <1>18, <1>21, <1>22, <1>23, PrepareKeeps

-----------------------------------------------------------------------------
(* Retirement, and the end of a statement *)

\* A retired device no longer stands, and every pending request has missed it.
LEMMA RetireKeeps ==
  ASSUME IInv, NEW d \in Devices, Retire(d)
  PROVE  IInv'
<1>1. /\ row' = [row EXCEPT ![d].status = "RETIRED"] /\ Exists(d)
      /\ row \in [Devices -> Row \cup {None}] /\ row[d] \in Row
  BY DEF Retire, IInv, TypeOK, RowsOK, Exists
<1>2. /\ row'[d] \in Row /\ row'[d].status = "RETIRED" /\ row'[d].size = row[d].size
      /\ \A e \in Devices \ {d} : row'[e] = row[e]
  BY <1>1 DEF Row, Status
<1>3. RowsOK'
  BY <1>1, <1>2 DEF RowsOK
<1>4. \A e \in Devices : (Exists(e) => Exists(e)') /\ (Standing(e)' => e # d)
  BY <1>2, PlacementAssumption DEF Exists, Standing
<1>5. WritesOK' /\ RequestsOK'
  BY DEF Retire, IInv, TypeOK, WritesOK, RequestsOK
<1>6. QueueOK' /\ QueueSound'
  BY <1>4, QueuesKept DEF Retire, IInv, TypeOK
<1>7. ASSUME NEW b \in Clients PROVE Sound(b)'
  <2>. SUFFICES ASSUME columns[b] # {} PROVE Sound(b)'
    BY DEF Sound, Retire
  <2>1. /\ writes'[b] = writes[b] /\ columns'[b] = columns[b] /\ reads'[b] = reads[b]
        /\ missed'[b] = missed[b] \cup {d} /\ rival'[b] = rival[b]
    BY DEF Retire
  <2>2. SoundWrite(writes[b], columns[b], reads[b], missed[b], rival[b])
    BY DEF IInv, RequestsAreSound, Sound
  <2>3. DOMAIN writes[b] \subseteq Devices
    BY DEF IInv, TypeOK, WritesOK
  <2>4. \A e \in Devices : Standing(e)' => Standing(e) /\ SlotAt(e)' = SlotAt(e)
    BY <1>2, <1>4 DEF Standing, Recorded, Exists, SlotAt
  <2>5. \A e \in Devices : row'[e].size = row[e].size
    BY <1>2
  <2>. QED
    BY <1>4, <2>1, <2>2, <2>3, <2>4, <2>5 DEF Sound, SoundWrite
<1>. QED
  BY <1>3, <1>5, <1>6, <1>7 DEF IInv, TypeOK, RequestsAreSound

\* A request that fails writes nothing.
LEMMA FailKeeps ==
  ASSUME IInv, NEW c \in Clients, Fail(c)
  PROVE  IInv'
<1>1. RowsOK' /\ RequestsOK'
  BY DEF Fail, Done, IInv, TypeOK, RowsOK, RequestsOK
<1>2. WritesOK'
  <2>1. Nothing \in [{} -> Row] /\ {} \in SUBSET Devices
    BY DEF Nothing
  <2>. QED
    BY <2>1 DEF Fail, Done, IInv, TypeOK, WritesOK
<1>3. QueueOK' /\ QueueSound'
  BY QueuesKept DEF Fail, IInv, TypeOK, Exists
<1>4. ASSUME NEW b \in Clients PROVE Sound(b)'
  <2>1. CASE b = c
    <3>1. columns'[b] = {}
      BY <2>1 DEF Fail, Done, IInv, TypeOK, RequestsOK
    <3>. QED
      BY <3>1 DEF Sound
  <2>2. CASE b # c
    <3>1. /\ writes'[b] = writes[b] /\ columns'[b] = columns[b] /\ reads'[b] = reads[b]
          /\ missed'[b] = missed[b] /\ rival'[b] = rival[b] /\ row' = row
      BY <2>2 DEF IInv, TypeOK, WritesOK, RequestsOK, Fail, Done
    <3>2. Sound(b)
      BY DEF IInv, RequestsAreSound
    <3>. QED
      BY <3>1, <3>2 DEF Sound, SoundWrite, Exists, Standing, Recorded, SlotAt
  <2>. QED
    BY <2>1, <2>2
<1>. QED
  BY <1>1, <1>2, <1>3, <1>4 DEF IInv, TypeOK, RequestsAreSound

\* What a commit leaves in the rows.
LEMMA CommittedRows ==
  ASSUME IInv, NEW c \in Clients, Commit(c)
  PROVE  /\ row' \in [Devices -> Row \cup {None}]
         /\ \A d \in Devices : Exists(d) => Exists(d)'
         /\ \A d \in Devices \ DOMAIN writes[c] : row'[d] = row[d]
         /\ \A d \in Devices \cap DOMAIN writes[c] : row'[d] = Written(d, writes[c][d], columns[c])
<1>1. PICK D \in SUBSET Devices : writes[c] \in [D -> Row]
  BY DEF IInv, TypeOK, WritesOK
<1>2. row' = [d \in Devices |-> IF d \in D THEN Written(d, writes[c][d], columns[c]) ELSE row[d]]
  BY <1>1 DEF Commit
<1>3. SoundWrite(writes[c], columns[c], reads[c], missed[c], rival[c])
  BY DEF IInv, RequestsAreSound, Sound, Commit
<1>4. ASSUME NEW d \in D PROVE Written(d, writes[c][d], columns[c]) \in Row
  <2>1. writes[c][d] \in Row
    BY <1>1
  <2>2. CASE columns[c] = Columns
    BY <2>1, <2>2 DEF Written, Row, Columns
  <2>3. CASE columns[c] # Columns
    <3>1. row[d] \in Row
      BY <1>1, <1>3, <2>3 DEF SoundWrite, IInv, TypeOK, RowsOK, Exists
    <3>. QED
      BY <2>1, <3>1 DEF Written, Row
  <2>. QED
    BY <2>2, <2>3
<1>5. \A d \in Devices : row[d] \in Row \cup {None}
  BY DEF IInv, TypeOK, RowsOK
<1>. QED
  BY <1>1, <1>2, <1>4, <1>5, PlacementAssumption DEF Exists

\* The devices a sound statement racks come to stand where it says.
LEMMA CommittedSlots ==
  ASSUME IInv, NEW c \in Clients, Commit(c), NEW d \in DOMAIN writes[c], "rack" \in columns[c],
         Standing(d)'
  PROVE  /\ d \in Devices /\ writes[c][d].rack # None
         /\ row'[d].rack = writes[c][d].rack
         /\ SlotAt(d)' = SlotIn(writes[c][d])
<1>1. d \in Devices /\ writes[c][d] \in Row
  BY DEF IInv, TypeOK, WritesOK
<1>2. row'[d] = Written(d, writes[c][d], columns[c])
  BY <1>1, CommittedRows
<1>3. row'[d].rack = writes[c][d].rack /\ row'[d].rack # None /\ row'[d].size # 0
  BY <1>2 DEF Written, Standing, Recorded, Complete
<1>4. SoundWrite(writes[c], columns[c], reads[c], missed[c], rival[c])
  BY DEF IInv, RequestsAreSound, Sound, Commit
<1>5. CASE columns[c] = Columns
  BY <1>1, <1>2, <1>3, <1>5 DEF Written, SlotAt, SlotIn, Columns
<1>6. CASE columns[c] # Columns
  <2>1. reads[c] # {} /\ columns[c] = PlaceColumns /\ d \notin missed[c]
    BY <1>3, <1>4, <1>6 DEF SoundWrite, Commit, Refused
  <2>2. row[d].size \in {0, writes[c][d].size}
    BY <2>1, <1>4 DEF SoundWrite
  <2>3. row'[d].start = writes[c][d].start /\ row'[d].size = row[d].size
    BY <1>2, <2>1 DEF Written, PlaceColumns
  <2>. QED
    BY <1>1, <1>3, <2>2, <2>3 DEF SlotAt, SlotIn
<1>. QED
  BY <1>5, <1>6

\* Another request that is pending stays sound: it has missed the rows written,
\* unless both are placements; then it is refused when they read a common rack,
\* and nothing came near its positions when they did not.
LEMMA CommitKeepsOthers ==
  ASSUME IInv, NEW c \in Clients, Commit(c), NEW b \in Clients, b # c
  PROVE  Sound(b)'
<1>. SUFFICES ASSUME columns'[b] # {} PROVE Sound(b)'
  BY DEF Sound
<1>. DEFINE w == writes[b]
<1>1. writes'[b] = w /\ columns'[b] = columns[b] /\ reads'[b] = reads[b] /\ columns[b] # {}
  BY DEF Commit, Done, IInv, TypeOK, WritesOK, RequestsOK
<1>2. SoundWrite(w, columns[b], reads[b], missed[b], rival[b]) /\ DOMAIN w \subseteq Devices
  BY <1>1 DEF IInv, TypeOK, WritesOK, RequestsAreSound, Sound
<1>3. /\ rival'[b] = (rival[b] \/ reads[b] \cap reads[c] # {})
      /\ missed'[b] = IF reads[b] # {} /\ reads[c] # {} THEN missed[b]
                      ELSE missed[b] \cup DOMAIN writes[c]
  BY <1>1 DEF Commit, Overtake
<1>4. /\ \A d \in Devices : Exists(d) => Exists(d)'
      /\ \A d \in Devices \ DOMAIN writes[c] : row'[d] = row[d]
      /\ \A d \in Devices \cap DOMAIN writes[c] : row'[d] = Written(d, writes[c][d], columns[c])
  BY CommittedRows
<1>5. reads[c] # {} => columns[c] = PlaceColumns /\ \A d \in DOMAIN writes[c] : writes[c][d].rack \in reads[c]
  BY DEF IInv, RequestsAreSound, Sound, SoundWrite, Commit
<1>6. ASSUME reads[b] # {}, NEW d \in DOMAIN w, d \notin missed'[b] PROVE row'[d].size \in {0, w[d].size}
  <2>1. d \in Devices /\ row[d].size \in {0, w[d].size}
    BY <1>2, <1>3, <1>6 DEF SoundWrite
  <2>2. CASE d \notin DOMAIN writes[c]
    BY <2>1, <2>2, <1>4
  <2>3. CASE d \in DOMAIN writes[c]
    <3>1. columns[c] = PlaceColumns
      BY <2>3, <1>3, <1>5, <1>6
    <3>2. row'[d] = Written(d, writes[c][d], columns[c])
      BY <2>1, <2>3, <1>4
    <3>3. row'[d].size = row[d].size
      BY <3>1, <3>2 DEF Written, PlaceColumns
    <3>. QED
      BY <2>1, <3>3
  <2>. QED
    BY <2>2, <2>3
<1>7. ASSUME "rack" \in columns[b], NEW d \in DOMAIN w, w[d].rack # None,
             NEW e \in Devices \ (DOMAIN w \cup missed'[b]), Standing(e)', ~rival'[b]
      PROVE  ~Overlap(SlotIn(w[d]), SlotAt(e)')
  <2>1. CASE e \notin DOMAIN writes[c]
    <3>1. row'[e] = row[e] /\ ~rival[b] /\ e \notin missed[b]
      BY <2>1, <1>3, <1>4, <1>7
    <3>2. Standing(e) /\ SlotAt(e)' = SlotAt(e)
      BY <3>1, <1>7 DEF Standing, Recorded, Exists, SlotAt
    <3>. QED
      BY <3>1, <3>2, <1>2, <1>7 DEF SoundWrite
  <2>2. CASE e \in DOMAIN writes[c]
    <3>1. reads[b] # {} /\ reads[c] # {} /\ reads[b] \cap reads[c] = {}
      BY <2>2, <1>3, <1>7
    <3>2. w[d].rack \in reads[b] /\ writes[c][e].rack \in reads[c]
      BY <3>1, <2>2, <1>2, <1>5 DEF SoundWrite
    <3>3. row'[e].rack = writes[c][e].rack
      <4>1. row'[e] = Written(e, writes[c][e], columns[c]) /\ columns[c] = PlaceColumns
        BY <3>1, <2>2, <1>4, <1>5, <1>7
      <4>. QED
        BY <4>1 DEF Written, PlaceColumns
    <3>. QED
      BY <3>1, <3>2, <3>3 DEF Overlap, SlotIn, SlotAt
  <2>. QED
    BY <2>1, <2>2
<1>8. rival'[b] => reads[b] # {}
  BY <1>2, <1>3 DEF SoundWrite
<1>9. columns[b] # Columns => \A d \in DOMAIN w : Exists(d)'
  BY <1>2, <1>4 DEF SoundWrite
<1>. HIDE DEF w
<1>10. SoundWrite(w, columns[b], reads[b], missed[b], rival[b])'
  <2>1. w' = w
    BY <1>1 DEF w
  <2>. QED
    BY <2>1, <1>1, <1>2, <1>6, <1>7, <1>8, <1>9 DEF SoundWrite
<1>. QED
  BY <1>1, <1>10 DEF Sound, w

\* A commit ends its request and disturbs no other.
LEMMA CommitKeeps ==
  ASSUME IInv, NEW c \in Clients, Commit(c)
  PROVE  IInv'
<1>1. RowsOK'
  BY CommittedRows DEF RowsOK
<1>2. WritesOK'
  <2>1. Nothing \in [{} -> Row] /\ {} \in SUBSET Devices
    BY DEF Nothing
  <2>. QED
    BY <2>1 DEF Commit, Done, IInv, TypeOK, WritesOK
<1>3. RequestsOK'
  <2>1. DOMAIN writes[c] \subseteq Devices
    BY DEF IInv, TypeOK, WritesOK
  <2>. QED
    BY <2>1 DEF Commit, Done, Overtake, IInv, TypeOK, RequestsOK
<1>4. QueueOK' /\ QueueSound'
  BY CommittedRows, QueuesKept DEF Commit, IInv, TypeOK
<1>5. Sound(c)'
  BY DEF Sound, Commit, Done, IInv, TypeOK, RequestsOK
<1>. QED
  BY <1>1, <1>2, <1>3, <1>4, <1>5, CommitKeepsOthers DEF IInv, TypeOK, RequestsAreSound

-----------------------------------------------------------------------------
(* Bulk requests *)

\* What a bulk request asks for one device, from its row.
LEMMA ItemIsSound ==
  ASSUME IInv, NEW d \in Devices, Exists(d), NEW rack \in Racks \cup {None}, NEW start \in Nat,
         NEW st \in Status, NEW cleared \in BOOLEAN
  PROVE  Item(d, rack, start, st, cleared) \in ItemType /\ SoundItem(Item(d, rack, start, st, cleared))
<1>. DEFINE to == [status |-> st, rack |-> rack, start |-> start, size |-> row[d].size]
            cols == {"status"} \cup (IF rack # None \/ cleared THEN {"rack"} ELSE {})
                               \cup (IF start # 0 \/ cleared THEN {"start"} ELSE {})
                               \cup (IF row[d].size # 0 THEN {"size"} ELSE {})
<1>1. row[d].size \in Int
  BY DEF IInv, TypeOK, RowsOK, Exists, Row
<1>2. to \in Row
  BY <1>1 DEF Row
<1>3. cols \in SUBSET Columns
  BY DEF Columns
<1>4. Complete(to) => cols = Columns
  BY DEF Complete, Columns
<1>5. Item(d, rack, start, st, cleared) = [dev |-> d, to |-> to, cols |-> cols]
  BY DEF Item
<1>. HIDE DEF to, cols
<1>. QED
  BY <1>2, <1>3, <1>4, <1>5 DEF ItemType, SoundItem

\* Queued updates write nothing yet.
LEMMA QueuedKeeps ==
  ASSUME IInv, NEW c \in Clients, NEW order \in Orders, NEW items,
         items = [i \in DOMAIN order |-> items[i]],
         \A i \in DOMAIN order : items[i] \in ItemType /\ SoundItem(items[i]),
         Queued(c, items), UNCHANGED <<row, writes, columns, reads, missed, rival>>
  PROVE  IInv'
<1>1. PICK n \in 1 .. 2 : DOMAIN order = 1 .. n
  BY DEF Orders
<1>2. items \in Seq(ItemType) /\ DOMAIN items = DOMAIN order
  BY <1>1
<1>3. QueueOK'
  BY <1>2 DEF Queued, IInv, TypeOK, QueueOK
<1>4. QueueSound'
  <2>1. ASSUME NEW b \in Clients PROVE queue'[b] = IF b = c THEN items ELSE queue[b]
    BY DEF Queued, IInv, TypeOK, QueueOK
  <2>2. \A it : SoundItem(it) => SoundItem(it)'
    BY DEF SoundItem, Exists
  <2>3. ASSUME NEW b \in Clients, NEW i \in DOMAIN queue'[b] PROVE SoundItem(queue'[b][i])
    BY <1>2, <2>1, <2>3 DEF IInv, QueueSound
  <2>. QED
    BY <2>2, <2>3 DEF QueueSound
<1>5. RowsOK' /\ WritesOK' /\ RequestsOK'
  BY DEF IInv, TypeOK, RowsOK, WritesOK, RequestsOK
<1>6. ASSUME NEW b \in Clients PROVE Sound(b)'
  BY DEF IInv, RequestsAreSound, Sound, SoundWrite, Exists, Standing, Recorded, SlotAt
<1>. QED
  BY <1>3, <1>4, <1>5, <1>6 DEF IInv, TypeOK, RequestsAreSound

\* The devices of a bulk request are devices of the database.
LEMMA Selecting ==
  ASSUME IInv, NEW c \in Clients, NEW order \in Orders, BulkGuard(c, order), NEW i \in DOMAIN order
  PROVE  /\ order[i] \in Devices /\ Exists(order[i]) /\ row[order[i]] \in Row
         /\ row[order[i]].status \in Status /\ row[order[i]].start \in Nat
         /\ row[order[i]].rack \in Racks \cup {None}
<1>1. order[i] \in Devices /\ Exists(order[i])
  BY DEF Orders, BulkGuard, Selected
<1>2. row[order[i]] \in Row
  BY <1>1 DEF IInv, TypeOK, RowsOK, Exists
<1>. QED
  BY <1>1, <1>2 DEF Row

\* The lowest free units are positions like any other.
LEMMA BulkMoveKeeps ==
  ASSUME IInv, NEW c \in Clients, NEW order \in Orders, NEW rack \in Racks, BulkMove(c, order, rack)
  PROVE  IInv'
<1>. DEFINE taken == UNION {row[e].start .. Top(SlotAt(e)) :
                              e \in {x \in Devices \ Selected(order) : Recorded(x) /\ row[x].rack = rack}}
            heights == [i \in DOMAIN order |-> IF row[order[i]].size = 0 THEN 1 ELSE row[order[i]].size]
            items(starts) == [i \in DOMAIN order |->
                                Item(order[i], rack, starts[i], row[order[i]].status, FALSE)]
<1>1. PICK starts \in FirstFits(rack, taken, heights) : Queued(c, items(starts))
  BY DEF BulkMove
<1>2. BulkGuard(c, order) /\ UNCHANGED <<row, writes, columns, reads, missed, rival>>
  BY DEF BulkMove
<1>3. \A i \in DOMAIN order : starts[i] \in Nat
  <2>1. DOMAIN heights = DOMAIN order /\ starts \in [DOMAIN heights -> 1 .. Units[rack]]
    BY DEF FirstFits
  <2>. QED
    BY <2>1, UnitsAssumption
<1>4. \A i \in DOMAIN order : items(starts)[i] \in ItemType /\ SoundItem(items(starts)[i])
  BY <1>2, <1>3, Selecting, ItemIsSound
<1>5. items(starts) = [i \in DOMAIN order |-> items(starts)[i]]
  OBVIOUS
<1>. HIDE DEF items
<1>. QED
  BY <1>1, <1>2, <1>4, <1>5, QueuedKeeps

\* Fields sent back as they were read.
LEMMA BulkStatusKeeps ==
  ASSUME IInv, NEW c \in Clients, NEW order \in Orders, NEW st \in Status, BulkStatus(c, order, st)
  PROVE  IInv'
<1>. DEFINE items == [i \in DOMAIN order |->
                        Item(order[i], row[order[i]].rack, row[order[i]].start, st, FALSE)]
<1>1. BulkGuard(c, order) /\ Queued(c, items) /\ UNCHANGED <<row, writes, columns, reads, missed, rival>>
  BY DEF BulkStatus
<1>2. \A i \in DOMAIN order : items[i] \in ItemType /\ SoundItem(items[i])
  BY <1>1, Selecting, ItemIsSound
<1>3. items = [i \in DOMAIN order |-> items[i]]
  OBVIOUS
<1>. HIDE DEF items
<1>. QED
  BY <1>1, <1>2, <1>3, QueuedKeeps

\* Devices taken out of their racks.
LEMMA BulkUnrackKeeps ==
  ASSUME IInv, NEW c \in Clients, NEW order \in Orders, BulkUnrack(c, order)
  PROVE  IInv'
<1>. DEFINE items == [i \in DOMAIN order |-> Item(order[i], None, 0, row[order[i]].status, TRUE)]
<1>1. BulkGuard(c, order) /\ Queued(c, items) /\ UNCHANGED <<row, writes, columns, reads, missed, rival>>
  BY DEF BulkUnrack
<1>2. \A i \in DOMAIN order : items[i] \in ItemType /\ SoundItem(items[i])
  BY <1>1, Selecting, ItemIsSound
<1>3. items = [i \in DOMAIN order |-> items[i]]
  OBVIOUS
<1>. HIDE DEF items
<1>. QED
  BY <1>1, <1>2, <1>3, QueuedKeeps

\* Each update of a bulk request is validated when its turn comes.
LEMMA BulkNextKeeps ==
  ASSUME IInv, NEW c \in Clients, BulkNext(c)
  PROVE  IInv'
<1>. DEFINE item == Head(queue[c])
<1>1. queue[c] \in Seq(ItemType) /\ queue[c] # <<>> /\ queue \in [Clients -> Seq(ItemType)]
  BY DEF BulkNext, IInv, TypeOK, QueueOK
<1>2. item = queue[c][1] /\ item \in ItemType /\ 1 \in DOMAIN queue[c]
  BY <1>1
<1>3. SoundItem(item)
  BY <1>2 DEF IInv, QueueSound
<1>4. row' = row /\ queue' = [queue EXCEPT ![c] = Tail(queue[c])]
  BY DEF BulkNext, Queued, Prepare
<1>5. QueueOK'
  BY <1>1, <1>4 DEF QueueOK
<1>6. QueueSound'
  <2>1. ASSUME NEW b \in Clients, NEW i \in DOMAIN queue'[b]
        PROVE  \E j \in DOMAIN queue[b] : queue'[b][i] = queue[b][j]
    <3>1. CASE b # c
      BY <3>1, <1>1, <1>4, <2>1
    <3>2. CASE b = c
      <4>1. queue'[b] = Tail(queue[c])
        BY <3>2, <1>1, <1>4
      <4>2. i + 1 \in DOMAIN queue[c] /\ Tail(queue[c])[i] = queue[c][i + 1]
        BY <4>1, <1>1, <2>1
      <4>. QED
        BY <4>1, <4>2, <3>2
    <3>. QED
      BY <3>1, <3>2
  <2>. QED
    BY <2>1, <1>4 DEF IInv, QueueSound, SoundItem, Exists
<1>. HIDE DEF item
<1>7. CASE item.to.rack # None => Complete(item.to) /\ Vacant(SlotIn(item.to), item.dev)
  <2>1. Prepare(c, Only(item.dev, item.to), item.cols, {})
    BY <1>7 DEF BulkNext, item
  <2>2. item.dev \in Devices /\ item.to \in Row /\ item.cols \in SUBSET Columns /\ Exists(item.dev)
    BY <1>2, <1>3 DEF ItemType, SoundItem
  <2>3. /\ {item.dev} \in SUBSET Devices /\ Only(item.dev, item.to) \in [{item.dev} -> Row]
        /\ SoundWrite(Only(item.dev, item.to), item.cols, {}, {}, FALSE)
    BY <1>3, <1>7, <2>2, OneRowIsSound DEF SoundItem
  <2>4. {} \in SUBSET Racks
    OBVIOUS
  <2>. QED
    BY <1>5, <1>6, <2>1, <2>2, <2>3, <2>4, PrepareKeeps
<1>8. CASE ~(item.to.rack # None => Complete(item.to) /\ Vacant(SlotIn(item.to), item.dev))
  <2>1. UNCHANGED <<row, writes, columns, reads, missed, rival>>
    BY <1>8 DEF BulkNext, item
  <2>2. RowsOK' /\ WritesOK' /\ RequestsOK'
    BY <2>1 DEF IInv, TypeOK, RowsOK, WritesOK, RequestsOK
  <2>3. ASSUME NEW b \in Clients PROVE Sound(b)'
    BY <2>1 DEF IInv, RequestsAreSound, Sound, SoundWrite, Exists, Standing, Recorded, SlotAt
  <2>. QED
    BY <1>5, <1>6, <2>2, <2>3 DEF IInv, TypeOK, RequestsAreSound
<1>. QED
  BY <1>7, <1>8

-----------------------------------------------------------------------------
(* Every step, and the theorems *)

\* The invariant is inductive.
LEMMA StepKeeps == IInv /\ [Next]_vars => IInv'
<1>. SUFFICES ASSUME IInv, [Next]_vars PROVE IInv'
  OBVIOUS
<1>1. CASE UNCHANGED vars
  <2>1. TypeOK' /\ QueueSound'
    BY <1>1 DEF vars, requests, IInv, TypeOK, RowsOK, WritesOK, RequestsOK, QueueOK, QueueSound,
                SoundItem, Exists
  <2>2. ASSUME NEW b \in Clients PROVE Sound(b)'
    BY <1>1 DEF vars, requests, IInv, RequestsAreSound, Sound, SoundWrite, Exists, Standing,
                Recorded, SlotAt
  <2>. QED
    BY <2>1, <2>2 DEF IInv, RequestsAreSound
<1>2. CASE \E d \in Devices : Retire(d)
  BY <1>2, RetireKeeps
<1>3. ASSUME NEW c \in Clients, Request(c) PROVE IInv'
  <2>1. CASE \E d \in Devices : CreateInRack(c, d) \/ CreateInSite(c, d) \/ Update(c, d) \/ Edit(c, d)
    BY <2>1, CreateInRackKeeps, CreateInSiteKeeps, UpdateKeeps, EditKeeps
  <2>2. CASE \E D \in SUBSET Devices : Import(c, D)
    BY <2>2, ImportKeeps
  <2>3. CASE \E d \in Devices, rack \in Racks, start \in Starts : Place(c, d, rack, start)
    BY <2>3, PlaceKeeps
  <2>4. CASE \E order \in Orders : \/ \E rack \in Racks : BulkMove(c, order, rack)
                                   \/ \E st \in Status : BulkStatus(c, order, st)
                                   \/ BulkUnrack(c, order)
    BY <2>4, BulkMoveKeeps, BulkStatusKeeps, BulkUnrackKeeps
  <2>5. CASE BulkNext(c) \/ Commit(c) \/ Fail(c)
    BY <2>5, BulkNextKeeps, CommitKeeps, FailKeeps
  <2>. QED
    BY <1>3, <2>1, <2>2, <2>3, <2>4, <2>5 DEF Request
<1>. QED
  BY <1>1, <1>2, <1>3 DEF Next

\* The rows and the pending statements keep their shapes, whoever writes.
THEOREM ShapesAreKept == Spec => []TypeOK
<1>1. IInv => TypeOK
  BY DEF IInv
<1>. QED
  BY InitSound, StepKeeps, <1>1, PTL DEF Spec

\* In every state, what each pending request established by its validation still
\* holds, of everything it has not missed.
THEOREM ValidationHolds == Spec => []RequestsAreSound
<1>1. IInv => RequestsAreSound
  BY DEF IInv
<1>. QED
  BY InitSound, StepKeeps, <1>1, PTL DEF Spec

\* What a commit makes of a device that comes to stand.
LEMMA CommitValidates ==
  ASSUME IInv, NEW c \in Clients, Commit(c), NEW d \in Devices, ComesToStand(d)
  PROVE  /\ Commits(c) /\ d \in DOMAIN writes[c]
         /\ "rack" \notin columns[c] \/ Validated(c, d)
<1>1. Commits(c)
  BY DEF Commits, Commit, Done, IInv, TypeOK, RequestsOK
<1>2. d \in DOMAIN writes[c]
  <2>. SUFFICES ASSUME d \notin DOMAIN writes[c] PROVE FALSE
    OBVIOUS
  <2>1. row'[d] = row[d]
    BY CommittedRows
  <2>. QED
    BY <2>1 DEF ComesToStand, Standing, Recorded, Exists, SlotAt
<1>3. ASSUME "rack" \in columns[c] PROVE Validated(c, d)
  <2>1. Standing(d)'
    BY DEF ComesToStand
  <2>2. writes[c][d].rack # None /\ SlotAt(d)' = SlotIn(writes[c][d])
    BY <1>2, <1>3, <2>1, CommittedSlots
  <2>3. SoundWrite(writes[c], columns[c], reads[c], missed[c], rival[c])
    BY DEF IInv, RequestsAreSound, Sound, Commit
  <2>4. ~rival[c]
    BY <2>3 DEF SoundWrite, Commit, Refused
  <2>5. Fits(SlotAt(d)')
    BY <1>2, <1>3, <2>2, <2>3 DEF SoundWrite
  <2>6. ASSUME NEW e \in Devices \ {d}, Standing(e)', e \notin missed[c]
        PROVE  ~Overlap(SlotAt(d)', SlotAt(e)')
    <3>1. CASE e \in DOMAIN writes[c]
      <4>1. writes[c][e].rack # None /\ SlotAt(e)' = SlotIn(writes[c][e])
        BY <3>1, <1>3, <2>6, CommittedSlots
      <4>. QED
        BY <3>1, <4>1, <1>2, <1>3, <2>2, <2>3 DEF SoundWrite
    <3>2. CASE e \notin DOMAIN writes[c]
      <4>1. row'[e] = row[e]
        BY <3>2, CommittedRows
      <4>2. Standing(e) /\ SlotAt(e)' = SlotAt(e)
        BY <4>1, <2>6 DEF Standing, Recorded, Exists, SlotAt
      <4>. QED
        BY <3>2, <4>2, <1>2, <1>3, <2>2, <2>3, <2>4, <2>6 DEF SoundWrite
    <3>. QED
      BY <3>1, <3>2
  <2>. QED
    BY <2>5, <2>6 DEF Validated, Fits, Top, Overlap
<1>. QED
  BY <1>1, <1>2, <1>3

\* However many requests interleave, a device that comes to stand was put there
\* by a request that named no rack, or by one whose validation holds of every
\* device it could have seen; a placement is refused rather than overlap another.
THEOREM PositionsAreValidated == Spec => SlotsAreValidated
<1>. DEFINE Step == \A d \in Devices : ComesToStand(d) =>
                      \E c \in Clients : /\ Commits(c) /\ d \in DOMAIN writes[c]
                                         /\ "rack" \notin columns[c] \/ Validated(c, d)
<1>1. ASSUME IInv, Next PROVE Step
  <2>. SUFFICES ASSUME NEW d \in Devices, ComesToStand(d)
                PROVE  \E c \in Clients : /\ Commits(c) /\ d \in DOMAIN writes[c]
                                          /\ "rack" \notin columns[c] \/ Validated(c, d)
    OBVIOUS
  <2>1. CASE \E c \in Clients : Commit(c)
    BY <2>1, <1>1, CommitValidates
  <2>2. CASE row' = row
    BY <2>2 DEF ComesToStand, Standing, Recorded, Exists, SlotAt
  <2>3. CASE \E e \in Devices : Retire(e)
    <3>1. PICK e \in Devices : Retire(e)
      BY <2>3
    <3>2. row[e] \in Row /\ row' = [row EXCEPT ![e].status = "RETIRED"] /\ row \in [Devices -> Row \cup {None}]
      BY <3>1, <1>1 DEF Retire, IInv, TypeOK, RowsOK, Exists
    <3>3. row'[e].status = "RETIRED"
      BY <3>2 DEF Row
    <3>4. d # e
      BY <3>3 DEF ComesToStand, Standing
    <3>5. row'[d] = row[d]
      BY <3>2, <3>4
    <3>. QED
      BY <3>5 DEF ComesToStand, Standing, Recorded, Exists, SlotAt
  <2>4. (\E c \in Clients : Commit(c)) \/ row' = row \/ (\E e \in Devices : Retire(e))
    <3>1. ASSUME NEW c \in Clients, NEW e \in Devices,
                 CreateInRack(c, e) \/ CreateInSite(c, e) \/ Update(c, e) \/ Edit(c, e)
          PROVE  row' = row
      BY <3>1 DEF CreateInRack, CreateInSite, Update, Edit, Prepare
    <3>2. ASSUME NEW c \in Clients, NEW D \in SUBSET Devices, Import(c, D) PROVE row' = row
      BY <3>2 DEF Import, Prepare
    <3>3. ASSUME NEW c \in Clients, NEW e \in Devices, NEW rack \in Racks, NEW start \in Starts,
                 Place(c, e, rack, start)
          PROVE  row' = row
      BY <3>3 DEF Place, Prepare
    <3>4. ASSUME NEW c \in Clients, NEW order \in Orders,
                 \/ \E rack \in Racks : BulkMove(c, order, rack)
                 \/ \E st \in Status : BulkStatus(c, order, st)
                 \/ BulkUnrack(c, order)
          PROVE  row' = row
      BY <3>4 DEF BulkMove, BulkStatus, BulkUnrack
    <3>5. ASSUME NEW c \in Clients, BulkNext(c) \/ Fail(c) PROVE row' = row
      BY <3>5 DEF BulkNext, Fail, Prepare
    <3>. QED
      BY <1>1, <3>1, <3>2, <3>3, <3>4, <3>5 DEF Next, Request
  <2>. QED
    BY <2>1, <2>2, <2>3, <2>4
<1>2. IInv /\ [Next]_vars => [Step]_vars
  BY <1>1
<1>. QED
  BY InitSound, StepKeeps, <1>2, PTL DEF Spec, SlotsAreValidated
=============================================================================
