------------------------------ MODULE RackDrops ------------------------------
(***************************************************************************)
(* planRackPlacement on its own: one operator drops devices in racks, on   *)
(* layouts that may already be in disorder (RackPlacement shows how).      *)
(* Compares Plan with the loop of the source, and says what a drop does.   *)
(***************************************************************************)
EXTENDS RackPlans

CONSTANTS
  Devices,   \* the devices in the racks
  Heights    \* their heights

ASSUME DropAssumption == IsFiniteSet(Devices) /\ Heights \subseteq Nat \ {0}

VARIABLE layout   \* the slot of each device

Slots == UNION {{s \in [rack : {r}, start : 1 .. Units[r], size : Heights] : Fits(s)} : r \in Racks}

\* Where a device may be dropped: one unit above the top is pulled back in.
Targets == UNION {[rack : {r}, start : 1 .. Units[r] + 1] : r \in Racks}

-----------------------------------------------------------------------------
(* planRackPlacement, statement by statement. *)

\* The devices in the way, one after the other. The source takes them from the
\* lowest unit up and leaves open which of two on one unit comes first; here they
\* come in any order.
Orders(S) ==
  {order \in [1 .. Cardinality(S) -> S] : \A i, j \in DOMAIN order : order[i] = order[j] => i = j}

\* One turn of the loop; "clear" is canDisplace.
Turn(acc, d) ==
  LET candidate == [layout[d] EXCEPT !.start = @ - layout[d].size]
  IN IF acc.clear /\ Fits(candidate) /\ \A s \in acc.occupied : ~Overlap(candidate, s)
       THEN [acc EXCEPT !.occupied = @ \cup {candidate}, !.displaced = @ \cup {<<d, candidate>>}]
       ELSE [acc EXCEPT !.clear = FALSE]

\* What the loop over count devices has found in the end.
Looped(occupied, order, count) ==
  LET after[n \in 0 .. count] ==
        IF n = 0 THEN [clear |-> TRUE, occupied |-> occupied, displaced |-> {}]
                 ELSE Turn(after[n - 1], order[n])
  IN after[count]

LoopPlan(moving, rack, start, order) ==
  LET target == Snapped(layout[moving], rack, start)
      collided == Collided(layout, moving, target)
      others == {layout[d] : d \in Devices \ (collided \cup {moving})}
      loop == Looped(others \cup {target}, order, Cardinality(collided))
      swap == {<<d, [layout[d] EXCEPT !.rack = layout[moving].rack, !.start = layout[moving].start]>> :
                 d \in collided}
      Changes(pairs) == {<<moving, target>>} \cup pairs
  IN IF Units[rack] - layout[moving].size + 1 < 1 THEN {}
     ELSE IF collided = {} THEN Changes({})
     ELSE IF loop.clear THEN Changes(loop.displaced)
     ELSE IF Cardinality(collided) # 1 THEN {}
     ELSE IF \A s \in swap : Fits(s[2]) /\ \A t \in others \cup {target} : ~Overlap(s[2], t)
       THEN Changes(swap)
     ELSE {}

-----------------------------------------------------------------------------
Init == layout \in [Devices -> Slots]

Drop(moving, rack, start) ==
  LET plan == Plan(layout, moving, rack, start)
  IN plan # NoPlan /\ layout' = Over(plan, layout)

Next == \E d \in Devices, t \in Targets : Drop(d, t.rack, t.start)

Spec == Init /\ [][Next]_layout

-----------------------------------------------------------------------------
(* Properties *)

\* Every slot stays inside its rack, with the height it had.
TypeOK == layout \in [Devices -> Slots]

\* Plan, written as conditions, and the loop of the source make the same
\* changes, on any layout and in whatever order the devices are displaced.
PlanIsTheLoop ==
  \A d \in Devices, t \in Targets :
    LET plan == Plan(layout, d, t.rack, t.start)
        collided == Collided(layout, d, Snapped(layout[d], t.rack, t.start))
    IN \A order \in Orders(collided) :
         {<<e, plan[e]>> : e \in DOMAIN plan} = LoopPlan(d, t.rack, t.start, order)

\* A drop brings no two devices together: two that overlap after it did so
\* before it, and neither has moved.
DropsSeparate ==
  [][\A d, e \in Devices :
       d # e /\ Overlap(layout'[d], layout'[e]) => layout'[d] = layout[d] /\ layout'[e] = layout[e]]_layout

\* Dropping a device where it is, in good order, changes nothing; so a drop
\* that was carried out twice is carried out once.
DroppingAgain ==
  \A d \in Devices :
    (\A e \in Devices \ {d} : ~Overlap(layout[d], layout[e]))
      => Over(Plan(layout, d, layout[d].rack, layout[d].start), layout) = layout
=============================================================================
