------------------------------ MODULE RackPlans ------------------------------
(***************************************************************************)
(* Where devices may stand in racks: the rules of                          *)
(* apps/api/src/infrastructure/rack-placement.ts (planRackPlacement,       *)
(* findRackImportOverlaps) and of the checks that share them.              *)
(*                                                                         *)
(* A slot is a rack, a first unit and a height. A layout is a function     *)
(* from devices to their slots. A plan is a function from the devices it   *)
(* moves to their new slots.                                               *)
(***************************************************************************)
EXTENDS Integers, Sequences, FiniteSets

CONSTANTS
  Racks,   \* Rack.id
  Units    \* Rack.units, of each rack

ASSUME UnitsAssumption == Units \in [Racks -> Nat \ {0}]

Slot == [rack : Racks, start : Int, size : Int]

Top(s) == s.start + s.size - 1
Overlap(s, t) == s.rack = t.rack /\ s.start <= Top(t) /\ t.start <= Top(s)
Fits(s) == s.start >= 1 /\ Top(s) <= Units[s.rack]

\* The layout once a plan is carried out.
Over(plan, layout) == [d \in DOMAIN layout |-> IF d \in DOMAIN plan THEN plan[d] ELSE layout[d]]

NoPlan == [d \in {} |-> 0]

\* A bug: the drop is not pulled down from above the top.
SnappedAbove(slot, rack, start) ==
  [slot EXCEPT !.rack = rack, !.start = IF start < 1 THEN 1 ELSE start]

\* The dropped device goes to the requested unit, pulled inside the rack.
Snapped(slot, rack, start) ==
  LET highest == Units[rack] - slot.size + 1
  IN [slot EXCEPT !.rack = rack,
                  !.start = IF start > highest THEN highest ELSE IF start < 1 THEN 1 ELSE start]

Collided(layout, moving, target) ==
  {d \in DOMAIN layout \ {moving} : Overlap(layout[d], target)}

\* Each device in the way steps down by its own height.
Lowered(layout, collided) ==
  [d \in collided |-> [layout[d] EXCEPT !.start = @ - layout[d].size]]

\* A bug: the lowered devices may end on top of devices that stay.
CanDisplaceOnto(layout, moving, target, collided) ==
  LET lowered == Lowered(layout, collided)
  IN \A d \in collided :
       /\ Fits(lowered[d])
       /\ ~Overlap(lowered[d], target)
       /\ \A e \in collided \ {d} : ~Overlap(lowered[d], lowered[e])

\* A bug: the lowered devices may end below the rack.
CanDisplaceBelow(layout, moving, target, collided) ==
  LET lowered == Lowered(layout, collided)
  IN \A d \in collided :
       /\ ~Overlap(lowered[d], target)
       /\ \A e \in DOMAIN layout \ (collided \cup {moving}) : ~Overlap(lowered[d], layout[e])
       /\ \A e \in collided \ {d} : ~Overlap(lowered[d], lowered[e])

\* The loop over the collided devices accepts them all: every lowered slot is
\* inside the rack and clear of the devices that stay, of the dropped one and
\* of the other lowered ones.
CanDisplace(layout, moving, target, collided) ==
  LET lowered == Lowered(layout, collided)
  IN \A d \in collided :
       /\ Fits(lowered[d])
       /\ ~Overlap(lowered[d], target)
       /\ \A e \in DOMAIN layout \ (collided \cup {moving}) : ~Overlap(lowered[d], layout[e])
       /\ \A e \in collided \ {d} : ~Overlap(lowered[d], lowered[e])

\* The only device in the way takes the slot the dropped one leaves.
Vacated(layout, moving, d) ==
  [layout[d] EXCEPT !.rack = layout[moving].rack, !.start = layout[moving].start]

\* A bug: the slot left behind is not checked against the height it receives.
CanSwapUnchecked(layout, moving, target, collided) == Cardinality(collided) = 1

CanSwap(layout, moving, target, collided) ==
  \E d \in collided :
    LET swapped == Vacated(layout, moving, d)
    IN /\ collided = {d}
       /\ Fits(swapped)
       /\ ~Overlap(swapped, target)
       /\ \A e \in DOMAIN layout \ {d, moving} : ~Overlap(swapped, layout[e])

\* planRackPlacement: move, else displace, else swap, else refuse.
Plan(layout, moving, rack, start) ==
  LET target == Snapped(layout[moving], rack, start)
      collided == Collided(layout, moving, target)
  IN IF Units[rack] < layout[moving].size
       THEN NoPlan
     ELSE IF CanDisplace(layout, moving, target, collided)
       THEN [d \in collided \cup {moving} |->
               IF d = moving THEN target ELSE Lowered(layout, collided)[d]]
     ELSE IF CanSwap(layout, moving, target, collided)
       THEN [d \in collided \cup {moving} |->
               IF d = moving THEN target ELSE Vacated(layout, moving, d)]
     ELSE NoPlan

\* findRackImportOverlaps: the rows of a file that meet another row of it.
ImportConflicts(slots) == {d \in DOMAIN slots : \E e \in DOMAIN slots \ {d} : Overlap(slots[d], slots[e])}

\* bulkUpdateDevices: devices of the given heights get, one after the other,
\* the lowest units that are free in a rack where some units are taken. There
\* is one such assignment, or none.
FreeStarts(rack, taken, height) ==
  {u \in 1 .. Units[rack] - height + 1 : (u .. u + height - 1) \cap taken = {}}

FirstFits(rack, taken, heights) ==
  {starts \in [DOMAIN heights -> 1 .. Units[rack]] :
     \A i \in DOMAIN heights :
       LET before == UNION {starts[k] .. starts[k] + heights[k] - 1 : k \in 1 .. i - 1}
           free == FreeStarts(rack, taken \cup before, heights[i])
       IN starts[i] \in free /\ \A u \in free : starts[i] <= u}

=============================================================================
