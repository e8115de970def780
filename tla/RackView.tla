------------------------------- MODULE RackView -------------------------------
(***************************************************************************)
(* The racks of a room on the infrastructure page                          *)
(* (apps/web/features/infrastructure/components/rack): the gallery, where  *)
(* a dropped device is moved at once, and the view of one rack, where a    *)
(* drop asks for a plan that the operator confirms, corrects or cancels.   *)
(*                                                                         *)
(* The view of a rack draws its plan over the racks the browser holds.     *)
(* Several drops may be asked for before the first plan arrives, and other *)
(* operators move devices meanwhile.                                       *)
(***************************************************************************)
EXTENDS Integers, Sequences

CONSTANTS
  RoomRacks,    \* the racks of the room, in their order (a sequence)
  RackHeights,  \* the units of each
  Movables,     \* the devices in them
  FirstSlots,   \* where each stands at first
  RackCalls,    \* calls the page may have under way
  PerPage,      \* racksPerPage
  MaxMoves,     \* a bound: moves carried out by anyone
  Gallery,      \* no rack is openedRack
  NoProposal,
  NoRackCall,
  Unserved

RackIds == {RoomRacks[i] : i \in DOMAIN RoomRacks}
R == INSTANCE RackPlans WITH Racks <- RackIds, Units <- RackHeights

Plans == UNION {[D -> R!Slot] : D \in SUBSET Movables}

\* A room without racks has no gallery; rows are validated before they stand.
ASSUME RackViewAssumption ==
  /\ RoomRacks \in Seq(RackIds) /\ RoomRacks # <<>> /\ RackHeights \in [RackIds -> Nat \ {0}]
  /\ FirstSlots \in [Movables -> R!Slot]
  /\ \A d, e \in Movables : d # e => ~R!Overlap(FirstSlots[d], FirstSlots[e])
  /\ PerPage \in Nat \ {0}
  /\ Unserved \notin [changes : Plans, at : Nat]

VARIABLES
  stands,      \* the rows: the slots, and how many moves they have seen
  shownRacks,       \* the same, as the browser last read it
  openedRack,      \* the rack in view, or Gallery
  firstRack,   \* firstVisibleRack
  reordering,
  savingMove,     \* savingPlacement
  proposal,    \* the plan shownRacks over the rack (pending), or NoProposal
  correcting,  \* correctingUnit
  rackCalls

rackViewVars ==
  <<stands, shownRacks, openedRack, firstRack, reordering, savingMove, proposal, correcting, rackCalls>>

-----------------------------------------------------------------------------
Under(kind) == \E c \in RackCalls : rackCalls[c] # NoRackCall /\ rackCalls[c].kind = kind

\* rackUnitFromDrop: the pointer is on a unit, "offset" units below the top of
\* the device it holds.
Landing(units, size, pointer, offset) ==
  LET start == pointer + offset - size + 1
      highest == units - size + 1
  IN IF start < 1 \/ highest < 1 THEN 1 ELSE IF start > highest THEN highest ELSE start

\* The devices the picture of a rack shows, and where: those of the plan stand
\* where it puts them.
Displayed == IF proposal = NoProposal THEN shownRacks.slots ELSE R!Over(proposal.changes, shownRacks.slots)
PlacedIn(slots, rack) == {d \in Movables : slots[d].rack = rack /\ R!Fits(slots[d])}

LastStart == IF Len(RoomRacks) > PerPage THEN Len(RoomRacks) - PerPage ELSE 0
VisibleRacks ==
  IF reordering THEN RackIds
  ELSE {RoomRacks[i] : i \in (firstRack + 1 .. firstRack + PerPage) \cap DOMAIN RoomRacks}

RackViewInit ==
  /\ stands = [slots |-> FirstSlots, at |-> 0] /\ shownRacks = stands
  /\ openedRack = Gallery /\ firstRack = 0 /\ reordering = FALSE /\ savingMove = FALSE
  /\ proposal = NoProposal /\ correcting = FALSE
  /\ rackCalls = [c \in RackCalls |-> NoRackCall]

-----------------------------------------------------------------------------
(* Looking around *)

OpenRackView(r) ==
  /\ openedRack = Gallery /\ ~reordering /\ r \in VisibleRacks
  /\ openedRack' = r
  /\ UNCHANGED <<stands, shownRacks, firstRack, reordering, savingMove, proposal, correcting, rackCalls>>

\* The view goes with its state: answers to it come to nothing, but a
\* confirmation is carried out.
LeaveRackView ==
  /\ openedRack # Gallery
  /\ openedRack' = Gallery /\ proposal' = NoProposal /\ correcting' = FALSE
  /\ rackCalls' = [c \in RackCalls |->
                     IF rackCalls[c] = NoRackCall \/ rackCalls[c].kind \in {"preview", "adjust"}
                       THEN NoRackCall
                     ELSE IF rackCalls[c].kind = "confirm" THEN [rackCalls[c] EXCEPT !.kind = "left"]
                     ELSE rackCalls[c]]
  /\ UNCHANGED <<stands, shownRacks, firstRack, reordering, savingMove>>

TurnPage ==
  /\ openedRack = Gallery /\ ~reordering
  /\ firstRack' \in {firstRack - 1, firstRack + 1} \cap (0 .. LastStart)
  /\ UNCHANGED <<stands, shownRacks, openedRack, reordering, savingMove, proposal, correcting, rackCalls>>

StartReordering ==
  /\ openedRack = Gallery /\ ~reordering
  /\ reordering' = TRUE /\ firstRack' = 0
  /\ UNCHANGED <<stands, shownRacks, openedRack, savingMove, proposal, correcting, rackCalls>>

FinishReordering ==
  /\ openedRack = Gallery /\ reordering /\ ~savingMove
  /\ reordering' = FALSE
  /\ UNCHANGED <<stands, shownRacks, openedRack, firstRack, savingMove, proposal, correcting, rackCalls>>

-----------------------------------------------------------------------------
(* Asking *)

AskPlace(c, kind, d, rack, start) ==
  /\ rackCalls[c] = NoRackCall
  /\ rackCalls' = [rackCalls EXCEPT ![c] =
       [kind |-> kind, moving |-> d, rack |-> rack, start |-> start,
        shown |-> IF kind = "confirm" THEN proposal ELSE NoProposal, answer |-> Unserved]]

\* A device is dropped on a rack, held anywhere, or moved one unit by an arrow.
DropStarts(d, rack) ==
  LET size == shownRacks.slots[d].size
  IN {Landing(RackHeights[rack], size, u, o) : u \in 1 .. RackHeights[rack], o \in 0 .. size - 1}
ArrowStarts(d) == {shownRacks.slots[d].start + 1, shownRacks.slots[d].start - 1}

\* While a plan is pending the picture takes no drop.
DropInView(c) ==
  /\ openedRack # Gallery /\ proposal = NoProposal
  /\ \E d \in PlacedIn(shownRacks.slots, openedRack) :
       \E u \in DropStarts(d, openedRack) \cup ArrowStarts(d) : AskPlace(c, "preview", d, openedRack, u)
  /\ UNCHANGED <<stands, shownRacks, openedRack, firstRack, reordering, savingMove, proposal, correcting>>

StartCorrecting ==
  /\ proposal # NoProposal /\ ~correcting /\ ~Under("confirm")
  /\ correcting' = TRUE
  /\ UNCHANGED <<stands, shownRacks, openedRack, firstRack, reordering, savingMove, proposal, rackCalls>>

AdjustUnit(c) ==
  /\ proposal # NoProposal /\ correcting /\ ~Under("adjust")
  /\ LET d == proposal.moving
     IN \E u \in 1 .. RackHeights[openedRack] - proposal.changes[d].size + 1 :
          AskPlace(c, "adjust", d, openedRack, u)
  /\ UNCHANGED <<stands, shownRacks, openedRack, firstRack, reordering, savingMove, proposal, correcting>>

ConfirmPlan(c) ==
  /\ proposal # NoProposal /\ ~correcting /\ ~Under("confirm") /\ ~Under("adjust")
  /\ LET target == proposal.changes[proposal.moving]
     IN AskPlace(c, "confirm", proposal.moving, target.rack, target.start)
  /\ UNCHANGED <<stands, shownRacks, openedRack, firstRack, reordering, savingMove, proposal, correcting>>

CancelPlan ==
  /\ proposal # NoProposal /\ ~Under("confirm") /\ ~Under("adjust")
  /\ proposal' = NoProposal /\ correcting' = FALSE
  /\ UNCHANGED <<stands, shownRacks, openedRack, firstRack, reordering, savingMove, rackCalls>>

\* The gallery: a drop on any rack, or an arrow, which may lead to a rack beside.
MoveInGallery(c) ==
  /\ openedRack = Gallery /\ reordering
  /\ \E i \in DOMAIN RoomRacks : \E d \in PlacedIn(shownRacks.slots, RoomRacks[i]) :
       \/ \E r \in RackIds : \E u \in DropStarts(d, r) : AskPlace(c, "move", d, r, u)
       \/ \E u \in ArrowStarts(d) : AskPlace(c, "move", d, RoomRacks[i], u)
       \/ \E j \in {i - 1, i + 1} \cap DOMAIN RoomRacks :
            AskPlace(c, "move", d, RoomRacks[j], shownRacks.slots[d].start)
  /\ savingMove' = TRUE
  /\ UNCHANGED <<stands, shownRacks, openedRack, firstRack, reordering, proposal, correcting>>

-----------------------------------------------------------------------------
(* The API, and what it answers *)

\* PlaceDeviceDto refuses a unit below the first.
Planned(d, rack, start) == IF start < 1 THEN R!NoPlan ELSE R!Plan(stands.slots, d, rack, start)
CarriedOut(plan) ==
  IF plan = R!NoPlan THEN stands
  ELSE [slots |-> R!Over(plan, stands.slots), at |-> stands.at + 1]

\* What was asked for is forgotten once it is served.
ServePlace(c) ==
  /\ rackCalls[c] # NoRackCall /\ rackCalls[c].answer = Unserved
  /\ LET plan == Planned(rackCalls[c].moving, rackCalls[c].rack, rackCalls[c].start)
     IN /\ rackCalls' = [rackCalls EXCEPT ![c].answer = [changes |-> plan, at |-> stands.at],
                                            ![c].rack = Gallery, ![c].start = 0]
        /\ stands' = IF rackCalls[c].kind \in {"preview", "adjust"} THEN stands ELSE CarriedOut(plan)
  /\ stands'.at <= MaxMoves
  /\ UNCHANGED <<shownRacks, openedRack, firstRack, reordering, savingMove, proposal, correcting>>

Served(c) == rackCalls[c] # NoRackCall /\ rackCalls[c].answer # Unserved
RefusedPlace(c) == rackCalls[c].answer.changes = R!NoPlan

\* The first answers of a drop draw its plan, or take any plan away.
PreviewAnswers(c) ==
  /\ Served(c) /\ rackCalls[c].kind = "preview"
  /\ proposal' = IF RefusedPlace(c) THEN NoProposal
                 ELSE [moving |-> rackCalls[c].moving, changes |-> rackCalls[c].answer.changes,
                       at |-> rackCalls[c].answer.at]
  /\ correcting' = (correcting /\ RefusedPlace(c))
  /\ rackCalls' = [rackCalls EXCEPT ![c] = NoRackCall]
  /\ UNCHANGED <<stands, shownRacks, openedRack, firstRack, reordering, savingMove>>

AdjustAnswers(c) ==
  /\ Served(c) /\ rackCalls[c].kind = "adjust"
  /\ proposal' = IF RefusedPlace(c) THEN proposal
                 ELSE [moving |-> rackCalls[c].moving, changes |-> rackCalls[c].answer.changes,
                       at |-> rackCalls[c].answer.at]
  /\ correcting' = (correcting /\ RefusedPlace(c))
  /\ rackCalls' = [rackCalls EXCEPT ![c] = NoRackCall]
  /\ UNCHANGED <<stands, shownRacks, openedRack, firstRack, reordering, savingMove>>

\* The racks are read again before the view goes on; a refusal reads nothing.
PlaceAnswers(c) ==
  /\ Served(c) /\ rackCalls[c].kind \in {"confirm", "move", "left"}
  /\ shownRacks' = IF RefusedPlace(c) THEN shownRacks ELSE stands
  /\ IF rackCalls[c].kind = "confirm" /\ ~RefusedPlace(c)
       THEN proposal' = NoProposal /\ correcting' = FALSE
       ELSE UNCHANGED <<proposal, correcting>>
  /\ savingMove' = (savingMove /\ rackCalls[c].kind # "move")
  /\ rackCalls' = [rackCalls EXCEPT ![c] = NoRackCall]
  /\ UNCHANGED <<stands, openedRack, firstRack, reordering>>

\* Another operator places a device; the query reads the racks again.
OthersPlace ==
  /\ stands.at < MaxMoves
  /\ \E d \in Movables, r \in RackIds : \E u \in 1 .. RackHeights[r] :
       stands' = CarriedOut(Planned(d, r, u))
  /\ UNCHANGED <<shownRacks, openedRack, firstRack, reordering, savingMove, proposal, correcting, rackCalls>>

ReadRacks ==
  /\ shownRacks' = stands
  /\ UNCHANGED <<stands, openedRack, firstRack, reordering, savingMove, proposal, correcting, rackCalls>>

RackViewNext ==
  \/ \E r \in RackIds : OpenRackView(r)
  \/ LeaveRackView \/ TurnPage \/ StartReordering \/ FinishReordering
  \/ StartCorrecting \/ CancelPlan \/ OthersPlace \/ ReadRacks
  \/ \E c \in RackCalls :
       \/ DropInView(c) \/ AdjustUnit(c) \/ ConfirmPlan(c) \/ MoveInGallery(c)
       \/ ServePlace(c) \/ PreviewAnswers(c) \/ AdjustAnswers(c) \/ PlaceAnswers(c)

-----------------------------------------------------------------------------
(* Properties *)

\* The gallery shows a rack; a plan is of the rack in view.
RackViewTypeOK ==
  /\ VisibleRacks # {}
  /\ proposal # NoProposal => openedRack # Gallery /\ proposal.moving \in DOMAIN proposal.changes

\* A picture never shows two devices in one unit unless a plan lies over racks
\* that were read at another time than the plan was made.
PictureIsInOrder ==
  (proposal # NoProposal => proposal.at = shownRacks.at) =>
    \A d, e \in Movables : d # e => ~R!Overlap(Displayed[d], Displayed[e])

\* What a confirmation does is what the picture showed, unless somebody moved a
\* device in between.
PlacedAsShown ==
  \A c \in RackCalls :
    rackCalls[c] # NoRackCall /\ rackCalls[c].kind \in {"confirm", "left"} /\ Served(c) =>
      \/ rackCalls[c].answer.changes = rackCalls[c].shown.changes
      \/ rackCalls[c].answer.at # rackCalls[c].shown.at

\* A device that is let go where it was taken stays there, whatever part of it
\* was held.
LetGoWhereTaken ==
  \A d \in PlacedIn(shownRacks.slots, openedRack) : \A o \in 0 .. shownRacks.slots[d].size - 1 :
    LET s == shownRacks.slots[d]
    IN Landing(RackHeights[s.rack], s.size, R!Top(s) - o, o) = s.start
=============================================================================
