--------------------------- MODULE MCRackPlacement ---------------------------
(* Instances of RackPlacement for TLC. *)
EXTENDS RackPlacement, FiniteSets, TLC

CONSTANTS a, b   \* racks

OneRoom == [r \in Racks |-> a]

TwoAndOne == [r \in Racks |-> IF r = a THEN 2 ELSE 1]
Two == [r \in Racks |-> 2]
Symmetry == Permutations(Devices) \cup Permutations(Clients)

-----------------------------------------------------------------------------
(* Three mixes of requests, each small enough to be explored: a behaviour   *)
(* chooses one at its start. "moves" takes every device and rack; "edits"   *)
(* one rack, two devices, unit 1, height 1, two statuses; "bulk" one rack and two      *)
(* devices.                                                                 *)
VARIABLE mix

InRackA(c) ==
  \/ \E d \in Devices : CreateInRack(c, d) \/ CreateInSite(c, d) \/ Update(c, d) \/ Edit(c, d)
  \/ \E d \in Devices : Place(c, d, a, 1)

Request1(c) ==
  CASE mix = "moves" -> \E d \in Devices : \/ CreateInRack(c, d) \/ CreateInSite(c, d)
                                           \/ \E r \in Racks, s \in Starts : Place(c, d, r, s)
    [] mix = "edits" -> InRackA(c)
    [] mix = "bulk"  -> \/ \E D \in SUBSET Devices : Import(c, D)
                        \/ \E order \in Orders : \/ BulkMove(c, order, a)
                                                 \/ \E st \in {"ACTIVE", "RETIRED"} : BulkStatus(c, order, st)
                                                 \/ BulkUnrack(c, order)
                        \/ BulkNext(c)

Named(c) == {writes[c][d] : d \in DOMAIN writes[c]}
Touched == {d \in Devices : Exists(d) \/ \E c \in Clients : d \in DOMAIN writes[c]}
Small ==
  /\ Cardinality(Touched) <= 2
  /\ \A c \in Clients : \A r \in Named(c) :
       /\ r.rack # b
       /\ mix = "edits" => r.start <= 1 /\ r.size <= 1 /\ r.status # "UNKNOWN"

MixInit == Init /\ mix \in {"moves", "edits", "bulk"}
MixNext ==
  /\ UNCHANGED mix
  /\ \/ \E c \in Clients : Request1(c) \/ Commit(c) \/ Fail(c)
     \/ mix = "edits" /\ \E d \in Devices : Retire(d)
  /\ mix # "moves" => Small'
MixSpec == MixInit /\ [][MixNext]_<<vars, mix>>

(* RackPlacement on its own, for the two runs that expect a violation.      *)
UnmixedSpec == Init /\ mix = "moves" /\ [][Next /\ UNCHANGED mix]_<<vars, mix>>
=============================================================================
