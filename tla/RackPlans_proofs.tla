-------------------------- MODULE RackPlans_proofs ---------------------------
(***************************************************************************)
(* planRackPlacement, for any layout of any devices in any racks.          *)
(***************************************************************************)
EXTENDS RackPlans, WellFoundedInduction, TLAPS

(***************************************************************************)
(* Induction over the naturals, and loops.                                 *)
(***************************************************************************)
\* A set of naturals that is not empty has a least element.
LEMMA LeastNat ==
  ASSUME NEW T, T \subseteq Nat, T # {}
  PROVE \E m \in T : \A n \in T : m <= n
<1>. DEFINE R == OpToRel(<, Nat)
<1>1. \A x, y \in Nat : x < y => <<x, y>> \in R
  BY DEF OpToRel
<1>2. IsWellFoundedOn(R, Nat)
  BY NatLessThanWellFounded
<1>. HIDE DEF R
<1>3. PICK x \in T : \A y \in T : ~ (<<y, x>> \in R)
  BY <1>2, WFMin
<1>4. ASSUME NEW n \in T PROVE x <= n
  <2>1. n \in Nat /\ x \in Nat
    OBVIOUS
  <2>2. ~ (<<n, x>> \in R)
    BY <1>3
  <2>3. ~ (n < x)
    BY <1>1, <2>1, <2>2
  <2>. QED BY <2>1, <2>3
<1>. QED BY <1>4

\* Induction, for a set of naturals.
LEMMA SetInduction ==
  ASSUME NEW T, 0 \in T, \A n \in Nat : n \in T => n + 1 \in T
  PROVE Nat \subseteq T
<1>. DEFINE U == {n \in Nat : n \notin T}
<1>1. SUFFICES ASSUME U # {} PROVE FALSE
  OBVIOUS
<1>2. PICK m \in U : \A n \in U : m <= n
  BY <1>1, LeastNat
<1>3. m # 0 /\ m \in Nat /\ m - 1 \in Nat
  OBVIOUS
<1>4. m - 1 \notin U
  BY <1>2, <1>3
<1>5. m - 1 \in T
  BY <1>4, <1>3
<1>. QED BY <1>5, <1>3

\* What a loop of N turns holds after each of them; turn[<<n, x>>] is what the
\* n-th one makes of x.
IsRun(f, N, S, base, turn) ==
  /\ f \in [0 .. N -> S]
  /\ f[0] = base
  /\ \A n \in 1 .. N : f[n] = turn[<<n, f[n - 1]>>]

\* Every loop has such a run, up to its last turn.
LEMMA LoopRuns ==
  ASSUME NEW N \in Nat, NEW S, NEW base \in S, NEW turn \in [(1 .. N) \X S -> S]
  PROVE  \E f : IsRun(f, N, S, base, turn)
<1>. DEFINE Run(n, f) == f[0] = base /\ \A i \in 1 .. n : f[i] = turn[<<i, f[i - 1]>>]
            T == {n \in Nat : n <= N => \E f \in [0 .. n -> S] : Run(n, f)}
<1>1. 0 \in T
  <2>. DEFINE f == [i \in 0 .. 0 |-> base]
  <2>1. f \in [0 .. 0 -> S] /\ Run(0, f)
    OBVIOUS
  <2>. QED BY <2>1
<1>2. ASSUME NEW n \in Nat, n \in T PROVE n + 1 \in T
  <2>1. SUFFICES ASSUME n + 1 <= N PROVE \E g \in [0 .. n + 1 -> S] : Run(n + 1, g)
    OBVIOUS
  <2>2. PICK f \in [0 .. n -> S] : Run(n, f)
    BY <1>2, <2>1
  <2>. DEFINE g == [i \in 0 .. n + 1 |-> IF i = n + 1 THEN turn[<<n + 1, f[n]>>] ELSE f[i]]
  <2>3. f[n] \in S /\ n + 1 \in 1 .. N
    BY <2>1
  <2>4. turn[<<n + 1, f[n]>>] \in S
    BY <2>3
  <2>5. g \in [0 .. n + 1 -> S]
    BY <2>4
  <2>6. g[0] = base
    BY <2>2
  <2>7. ASSUME NEW i \in 1 .. n + 1 PROVE g[i] = turn[<<i, g[i - 1]>>]
    <3>1. CASE i = n + 1
      <4>1. g[i] = turn[<<n + 1, f[n]>>] /\ i - 1 = n /\ g[n] = f[n]
        BY <3>1
      <4>. QED BY <4>1, <3>1
    <3>2. CASE i # n + 1
      <4>1. i \in 1 .. n /\ i - 1 \in 0 .. n
        BY <3>2
      <4>2. f[i] = turn[<<i, f[i - 1]>>]
        BY <4>1, <2>2
      <4>3. g[i] = f[i] /\ g[i - 1] = f[i - 1]
        BY <4>1, <3>2
      <4>. QED BY <4>2, <4>3
    <3>. QED BY <3>1, <3>2
  <2>. QED BY <2>5, <2>6, <2>7
<1>. HIDE DEF T
<1>3. N \in T
  BY <1>1, <1>2, SetInduction
<1>4. PICK f \in [0 .. N -> S] : Run(N, f)
  BY <1>3 DEF T
<1>. QED BY <1>4 DEF IsRun
-----------------------------------------------------------------------------
(***************************************************************************)
(* The plan of a drop.                                                     *)
(***************************************************************************)
\* The dropped device lands inside the rack when it is not taller than it.
LEMMA SnappedFits ==
  ASSUME NEW slot \in Slot, NEW rack \in Racks, NEW start \in Int, slot.size <= Units[rack]
  PROVE  /\ Snapped(slot, rack, start) \in Slot
         /\ Snapped(slot, rack, start).rack = rack
         /\ Snapped(slot, rack, start).size = slot.size
         /\ Fits(Snapped(slot, rack, start))
<1>. DEFINE highest == Units[rack] - slot.size + 1
            first == IF start > highest THEN highest ELSE IF start < 1 THEN 1 ELSE start
<1>1. Units[rack] \in Nat /\ slot.size \in Int
  BY UnitsAssumption DEF Slot
<1>2. highest \in Int /\ highest >= 1 /\ first \in Int /\ first >= 1 /\ first <= highest
  BY <1>1
<1>3. Snapped(slot, rack, start) = [slot EXCEPT !.rack = rack, !.start = first]
  BY DEF Snapped
<1>4. Snapped(slot, rack, start) = [rack |-> rack, start |-> first, size |-> slot.size]
  BY <1>3 DEF Slot
<1>. HIDE DEF first
<1>5. first + slot.size - 1 <= Units[rack]
  BY <1>1, <1>2
<1>. QED
  BY <1>1, <1>2, <1>4, <1>5 DEF Slot, Fits, Top

\* Lowered and Vacated are slots of the same height.
LEMMA MovedSlots ==
  ASSUME NEW D, NEW layout \in [D -> Slot], NEW moving \in D, NEW collided \in SUBSET D,
         NEW d \in collided
  PROVE  /\ Lowered(layout, collided)[d] \in Slot
         /\ Lowered(layout, collided)[d].size = layout[d].size
         /\ Lowered(layout, collided)[d].rack = layout[d].rack
         /\ Vacated(layout, moving, d) \in Slot
         /\ Vacated(layout, moving, d).size = layout[d].size
         /\ Vacated(layout, moving, d).rack = layout[moving].rack
<1>1. layout[d] \in Slot /\ layout[moving] \in Slot
  OBVIOUS
<1>2. layout[d].start - layout[d].size \in Int
  BY <1>1 DEF Slot
<1>. QED
  BY <1>1, <1>2 DEF Slot, Lowered, Vacated

\* What planRackPlacement promises, on any layout: it moves devices of the
\* layout, the dropped one among them, keeps their heights, puts each inside one
\* of the two racks, and clear of everything else once the plan is carried out.
THEOREM PlanIsSound ==
  ASSUME NEW D, NEW layout \in [D -> Slot], NEW moving \in D, NEW rack \in Racks,
         NEW start \in Int, NEW plan, plan = Plan(layout, moving, rack, start), plan # NoPlan
  PROVE  /\ moving \in DOMAIN plan /\ DOMAIN plan \subseteq D
         /\ \A d \in DOMAIN plan : /\ plan[d] \in Slot
                                   /\ plan[d].size = layout[d].size
                                   /\ plan[d].rack \in {rack, layout[moving].rack}
                                   /\ Fits(plan[d])
         /\ \A d \in DOMAIN plan : \A e \in D \ {d} : ~Overlap(plan[d], Over(plan, layout)[e])
<1>. DEFINE target == Snapped(layout[moving], rack, start)
            collided == Collided(layout, moving, target)
            lowered == Lowered(layout, collided)
            staying == D \ (collided \cup {moving})
<1>0. DOMAIN layout = D /\ layout[moving] \in Slot /\ layout[moving].size \in Int /\ Units[rack] \in Nat
  BY UnitsAssumption DEF Slot
<1>1. layout[moving].size <= Units[rack]
  <2>1. ~(Units[rack] < layout[moving].size)
    BY DEF Plan
  <2>. QED
    BY <2>1, <1>0
<1>2. target \in Slot /\ target.rack = rack /\ target.size = layout[moving].size /\ Fits(target)
  BY <1>0, <1>1, SnappedFits
<1>3. collided \in SUBSET D /\ moving \notin collided /\ \A d \in collided : layout[d].rack = rack
  BY <1>0, <1>2 DEF Collided, Overlap
<1>4. \A e \in staying : ~Overlap(layout[e], target) /\ ~Overlap(target, layout[e])
  BY <1>0 DEF Collided, Overlap
<1>5. \A s, t : Overlap(s, t) => Overlap(t, s)
  BY DEF Overlap
<1>. HIDE DEF target, collided, lowered
<1>6. CASE CanDisplace(layout, moving, target, collided)
  <2>1. plan = [d \in collided \cup {moving} |-> IF d = moving THEN target ELSE lowered[d]]
    BY <1>6, <1>1, <1>0 DEF Plan, target, collided, lowered
  <2>2. \A d \in collided : /\ lowered[d] \in Slot
                            /\ lowered[d].size = layout[d].size
                            /\ lowered[d].rack = rack
    BY <1>3, MovedSlots DEF lowered
  <2>3. \A d \in collided : /\ Fits(lowered[d])
                            /\ ~Overlap(lowered[d], target)
                            /\ \A e \in staying : ~Overlap(lowered[d], layout[e])
                            /\ \A e \in collided \ {d} : ~Overlap(lowered[d], lowered[e])
    BY <1>6, <1>0 DEF CanDisplace, lowered
  <2>4. \A e \in D : Over(plan, layout)[e] = IF e = moving THEN target
                                             ELSE IF e \in collided THEN lowered[e] ELSE layout[e]
    BY <2>1, <1>0 DEF Over
  <2>5. \A d \in DOMAIN plan : \A e \in D \ {d} : ~Overlap(plan[d], Over(plan, layout)[e])
    BY <2>1, <2>3, <2>4, <1>3, <1>4, <1>5
  <2>. QED
    BY <2>1, <2>2, <2>3, <2>5, <1>2, <1>3
<1>7. CASE ~CanDisplace(layout, moving, target, collided)
  <2>1. CanSwap(layout, moving, target, collided)
    BY <1>7, <1>1, <1>0 DEF Plan, target, collided
  <2>2. PICK o \in collided : /\ collided = {o}
                              /\ Fits(Vacated(layout, moving, o))
                              /\ ~Overlap(Vacated(layout, moving, o), target)
                              /\ \A e \in DOMAIN layout \ {o, moving} :
                                   ~Overlap(Vacated(layout, moving, o), layout[e])
    BY <2>1 DEF CanSwap
  <2>. DEFINE vacated == Vacated(layout, moving, o)
  <2>3. vacated \in Slot /\ vacated.size = layout[o].size /\ vacated.rack = layout[moving].rack
    BY <1>3, <2>2, MovedSlots
  <2>4. plan = [d \in {o, moving} |-> IF d = moving THEN target ELSE vacated]
    <3>1. plan = [d \in collided \cup {moving} |->
                    IF d = moving THEN target ELSE Vacated(layout, moving, d)]
      BY <1>7, <2>1, <1>1, <1>0 DEF Plan, target, collided
    <3>. QED
      BY <3>1, <2>2
  <2>. HIDE DEF vacated
  <2>5. \A e \in D : Over(plan, layout)[e] = IF e = moving THEN target
                                             ELSE IF e = o THEN vacated ELSE layout[e]
    BY <2>4, <1>0 DEF Over
  <2>6. Fits(vacated) /\ ~Overlap(vacated, target) /\ \A e \in staying : ~Overlap(vacated, layout[e])
    BY <2>2, <1>0 DEF vacated
  <2>7. \A d \in DOMAIN plan : \A e \in D \ {d} : ~Overlap(plan[d], Over(plan, layout)[e])
    BY <2>4, <2>5, <2>6, <2>2, <1>3, <1>4, <1>5
  <2>. QED
    BY <2>4, <2>3, <2>6, <2>7, <2>2, <1>2, <1>3
<1>. QED
  BY <1>6, <1>7
\* Carried out, a plan leaves apart what stood apart.
LEMMA PlanKeepsApart ==
  ASSUME NEW D, NEW layout \in [D -> Slot], NEW moving \in D, NEW rack \in Racks,
         NEW start \in Int, NEW plan, plan = Plan(layout, moving, rack, start), plan # NoPlan,
         \A d, e \in D : d # e => ~Overlap(layout[d], layout[e])
  PROVE  /\ Over(plan, layout) \in [D -> Slot]
         /\ \A d, e \in D : d # e => ~Overlap(Over(plan, layout)[d], Over(plan, layout)[e])
<1>1. \A s, t : Overlap(s, t) => Overlap(t, s) BY DEF Overlap
<1>2. /\ DOMAIN plan \subseteq D
      /\ \A d \in DOMAIN plan : plan[d] \in Slot
      /\ \A d \in DOMAIN plan : \A e \in D \ {d} : ~Overlap(plan[d], Over(plan, layout)[e])
  BY PlanIsSound
<1>3. /\ \A d \in DOMAIN plan : Over(plan, layout)[d] = plan[d]
      /\ \A d \in D \ DOMAIN plan : Over(plan, layout)[d] = layout[d]
  BY <1>2 DEF Over
<1>4. Over(plan, layout) \in [D -> Slot] BY <1>2 DEF Over
<1>5. ASSUME NEW d \in D, NEW e \in D, d # e
      PROVE  ~Overlap(Over(plan, layout)[d], Over(plan, layout)[e])
  <2>1. CASE d \in DOMAIN plan BY <1>2, <1>3, <1>5, <2>1
  <2>2. CASE e \in DOMAIN plan BY <1>1, <1>2, <1>3, <1>5, <2>2
  <2>3. CASE d \notin DOMAIN plan /\ e \notin DOMAIN plan BY <1>3, <1>5, <2>3
  <2>. QED BY <2>1, <2>2, <2>3
<1>. QED BY <1>4, <1>5

\* A plan is of devices of the layout, to slots.
LEMMA PlanIsTyped ==
  ASSUME NEW D, NEW layout \in [D -> Slot], NEW moving \in D, NEW rack \in Racks, NEW start \in Int
  PROVE  Plan(layout, moving, rack, start) \in UNION {[S -> Slot] : S \in SUBSET D}
<1>. DEFINE plan == Plan(layout, moving, rack, start)
<1>1. CASE plan = NoPlan
  <2>1. NoPlan \in [{} -> Slot] BY DEF NoPlan
  <2>2. {} \in SUBSET D OBVIOUS
  <2>. QED BY <1>1, <2>1, <2>2
<1>2. CASE plan # NoPlan
  <2>1. plan = [d \in DOMAIN plan |-> plan[d]]
    BY <1>2 DEF Plan
  <2>. HIDE DEF plan
  <2>2. DOMAIN plan \in SUBSET D /\ \A d \in DOMAIN plan : plan[d] \in Slot
    BY <1>2, PlanIsSound DEF plan
  <2>3. plan \in [DOMAIN plan -> Slot] BY <2>1, <2>2
  <2>. QED BY <2>2, <2>3 DEF plan
<1>. QED BY <1>1, <1>2

\* Asked again for the slot it found, planRackPlacement makes the same plan.
LEMMA PlanRepeats ==
  ASSUME NEW D, NEW layout \in [D -> Slot], NEW moving \in D, NEW rack \in Racks,
         NEW start \in Int, NEW plan, plan = Plan(layout, moving, rack, start), plan # NoPlan
  PROVE  /\ moving \in DOMAIN plan /\ plan[moving] \in Slot /\ plan[moving].start >= 1
         /\ plan = Plan(layout, moving, plan[moving].rack, plan[moving].start)
<1>. DEFINE target == Snapped(layout[moving], rack, start)
            again == Snapped(layout[moving], target.rack, target.start)
<1>0. layout[moving] \in Slot /\ layout[moving].size \in Int /\ Units[rack] \in Nat
  BY UnitsAssumption DEF Slot
<1>1. ~(Units[rack] < layout[moving].size) BY DEF Plan
<1>2. layout[moving].size <= Units[rack] BY <1>0, <1>1
<1>3. target \in Slot /\ target.rack = rack /\ target.size = layout[moving].size /\ Fits(target)
  BY <1>0, <1>2, SnappedFits
<1>4. again = target
  <2>. DEFINE highest == Units[rack] - layout[moving].size + 1
  <2>1. target.start \in Int /\ target.start >= 1 /\ target.start <= highest
    BY <1>0, <1>3 DEF Fits, Top, Slot
  <2>2. again = [layout[moving] EXCEPT !.rack = rack, !.start = target.start]
    <3>. HIDE DEF target
    <3>1. (IF target.start > highest THEN highest
           ELSE IF target.start < 1 THEN 1 ELSE target.start) = target.start
      BY <1>0, <2>1
    <3>. QED BY <1>3, <3>1 DEF Snapped
  <2>3. again = [rack |-> rack, start |-> target.start, size |-> layout[moving].size]
    BY <1>0, <2>2 DEF Slot
  <2>. HIDE DEF target, again
  <2>4. target = [rack |-> target.rack, start |-> target.start, size |-> target.size]
    BY <1>3 DEF Slot
  <2>. QED BY <1>3, <2>3, <2>4
<1>5. plan[moving] = target
  <2>. DEFINE collided == Collided(layout, moving, target)
  <2>1. \/ plan = [d \in collided \cup {moving} |->
                    IF d = moving THEN target ELSE Lowered(layout, collided)[d]]
        \/ plan = [d \in collided \cup {moving} |->
                    IF d = moving THEN target ELSE Vacated(layout, moving, d)]
    BY DEF Plan
  <2>. HIDE DEF target, collided
  <2>. QED BY <2>1
<1>6. Plan(layout, moving, target.rack, target.start) = Plan(layout, moving, rack, start)
  <2>1. target.rack = rack BY <1>3
  <2>. QED BY <1>4, <2>1 DEF Plan
<1>7. moving \in DOMAIN plan BY PlanIsSound
<1>8. target.start >= 1 BY <1>3 DEF Fits
<1>. QED BY <1>3, <1>5, <1>6, <1>7, <1>8

=============================================================================
