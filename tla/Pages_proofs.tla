----------------------------- MODULE Pages_proofs -----------------------------
(***************************************************************************)
(* What MCTopologyConnections checks of the pages, and of what they tell,  *)
(* for any number of sites, maps, devices, agents, alerts, rows, snapshots *)
(* and requests: one section for each component, its invariant first, then *)
(* the steps that keep it.                                                 *)
(***************************************************************************)
EXTENDS MCTopologyConnections, FiniteSetTheorems, TLAPS

-----------------------------------------------------------------------------
(* The topology page (TopologyPage) *)

(* What is drawn of a map has places only.                                 *)
LEMMA ShownInNodes ==
  ASSUME PageTypeOK, current # NoData
  PROVE  /\ selected \in TopologyMaps /\ current = cache[selected] /\ current \in MapData
         /\ DOMAIN Shown = DOMAIN current.at /\ Shown \in Nodes
         /\ DOMAIN current.at \in SUBSET TopologyDevices
<1>1. selected \in TopologyMaps /\ current = cache[selected] /\ current \in MapData
  BY DEF PageTypeOK, current
<1>2. PICK D \in SUBSET TopologyDevices : current.at \in [D -> Places]
  BY <1>1 DEF MapData, Nodes
<1>3. ASSUME NEW d \in D PROVE Shown[d] \in Places
  <2>1. CASE positions # NothingPending /\ positions.of = selected /\ d \in DOMAIN positions.at
    <3>1. PICK E \in SUBSET TopologyDevices : positions.at \in [E -> Places]
      BY <2>1 DEF PageTypeOK, NodesOfMap, Nodes
    <3>. QED BY <3>1, <2>1, <1>2 DEF Shown
  <2>2. CASE ~(positions # NothingPending /\ positions.of = selected /\ d \in DOMAIN positions.at)
    BY <2>2, <1>2 DEF Shown
  <2>. QED BY <2>1, <2>2
<1>4. Shown \in [D -> Places]
  BY <1>2, <1>3 DEF Shown
<1>. QED BY <1>1, <1>2, <1>4 DEF Nodes

(* Moves and additions carry nodes.                                        *)
CalloutsCarry ==
  \A q \in Requests : callouts[q] # NoCallout /\ callouts[q].kind \in {"move", "add"}
    => callouts[q].nodes \in NodesOfMap

(* What is owed still stands on the server, and was fetched.               *)
OwedStands ==
  \A o \in owed : /\ Stands(o, server)
                  /\ cache[o[1]] # NoData /\ o[2] \in DOMAIN cache[o[1]].at

(* Unless a drag was hurried, what is owed is pending, and the timer or    *)
(* one request carries all that is.                                        *)
OwedIsPending ==
  \A o \in owed : /\ positions # NothingPending /\ positions.of = o[1]
                  /\ o[2] \in DOMAIN positions.at /\ positions.at[o[2]] = o[3]
TimerCarries ==
  saveTimer # NoTimer =>
    /\ saveState = "pending" /\ positions # NothingPending
    /\ saveTimer.nodes = positions /\ saveTimer.map = positions.of
    /\ \A q \in Requests : ~Moving(q)
RequestCarries ==
  \A q \in Requests : Moving(q) =>
    /\ saveState = "pending" /\ saveTimer = NoTimer /\ positions # NothingPending
    /\ callouts[q].nodes = positions /\ callouts[q].map = positions.of
    /\ \A r \in Requests : Moving(r) => r = q
    /\ callouts[q].answer = "done" => owed = {}
PageInv ==
  /\ PageTypeOK /\ CalloutsCarry /\ OwedStands
  /\ ~hurried => OwedIsPending /\ TimerCarries /\ RequestCarries /\ SavedIsSaved

LEMMA PersistTyped ==
  ASSUME PageTypeOK, current # NoData, NEW W \in NodesOfMap, Persist(W)
  PROVE  /\ positions' \in NodesOfMap /\ saveState' = "pending" /\ hurried' \in BOOLEAN
         /\ saveTimer' \in [map : TopologyMaps, revision : 1..LastRevision, nodes : NodesOfMap]
<1>1. selected \in TopologyMaps /\ current.revision \in 1..LastRevision
  BY ShownInNodes DEF MapData
<1>. QED BY <1>1 DEF Persist, PageTypeOK

LEMMA SendsTyped ==
  ASSUME PageTypeOK, CalloutsCarry, NEW q \in Requests, NEW c \in Callout, Sends(q, c),
         c.kind \in {"move", "add"} => c.nodes \in NodesOfMap
  PROVE  callouts' \in [Requests -> Callout \cup {NoCallout}] /\ CalloutsCarry'
BY DEF PageTypeOK, CalloutsCarry, Sends

LEMMA ServeTyped ==
  ASSUME PageTypeOK, CalloutsCarry, NEW q \in Requests, Serve(q)
  PROVE  PageTypeOK' /\ CalloutsCarry'
<1>. DEFINE c == callouts[q]
<1>1. c \in Callout /\ c # NoCallout BY DEF PageTypeOK, Serve
<1>2. c.kind \in {"move", "add"} => c.nodes \in NodesOfMap BY <1>1 DEF CalloutsCarry
<1>3. CASE Accepts(c)
  <2>1. /\ c.revision < LastRevision
        /\ server' = [server EXCEPT ![c.map] = Applied(c)]
        /\ callouts' = [callouts EXCEPT ![q].answer = "done"]
        /\ owed' = {o \in owed : Stands(o, server') /\ ~Carried(o, c)}
    BY <1>3 DEF Serve
  <2>2. c.map \in TopologyMaps /\ c.revision \in 1..LastRevision BY <1>1 DEF Callout
  <2>3. Applied(c) \in MapData \cup {NoMap}
    <3>1. CASE c.kind = "create"
      <4>1. [d \in {} |-> FirstPlace] \in Nodes BY DEF Nodes
      <4>. QED BY <3>1, <4>1, RevisionAssumption DEF Applied, MapData
    <3>2. CASE c.kind = "remove" BY <3>2 DEF Applied
    <3>3. CASE c.kind = "connect"
      <4>1. server[c.map] \in MapData /\ server[c.map].revision = c.revision
        BY <3>3, <1>3, <2>2 DEF Accepts, PageTypeOK
      <4>. QED BY <4>1, <3>3, <2>1, <2>2, RevisionAssumption DEF Applied, MapData
    <3>4. CASE c.kind \in {"move", "add"}
      <4>1. c.nodes.at \in Nodes BY <3>4, <1>2 DEF NodesOfMap
      <4>. QED BY <4>1, <3>4, <2>1, <2>2, RevisionAssumption DEF Applied, MapData
    <3>. QED BY <1>1, <3>1, <3>2, <3>3, <3>4 DEF Callout
  <2>4. [c EXCEPT !.answer = "done"] \in Callout BY <1>1 DEF Callout
  <2>5. callouts' \in [Requests -> Callout \cup {NoCallout}]
    BY <2>1, <2>4 DEF PageTypeOK
  <2>6. server' \in [TopologyMaps -> MapData \cup {NoMap}] BY <2>1, <2>2, <2>3 DEF PageTypeOK
  <2>7. CalloutsCarry'
    BY <2>1, <1>1, <1>2 DEF CalloutsCarry, PageTypeOK, Callout
  <2>. QED BY <2>1, <2>5, <2>6, <2>7 DEF PageTypeOK, Serve
<1>4. CASE ~Accepts(c)
  <2>1. callouts' = [callouts EXCEPT ![q].answer = "refused"] /\ UNCHANGED <<server, owed>>
    BY <1>4 DEF Serve
  <2>2. [c EXCEPT !.answer = "refused"] \in Callout BY <1>1 DEF Callout
  <2>3. callouts' \in [Requests -> Callout \cup {NoCallout}]
    BY <2>1, <2>2 DEF PageTypeOK
  <2>4. CalloutsCarry'
    BY <2>1, <1>1, <1>2 DEF CalloutsCarry, PageTypeOK, Callout
  <2>. QED BY <2>1, <2>3, <2>4 DEF PageTypeOK, Serve
<1>. QED BY <1>3, <1>4

LEMMA PageTypeKept ==
  ASSUME PageTypeOK, CalloutsCarry, [PageNext]_pageVars
  PROVE  PageTypeOK' /\ CalloutsCarry'
<1>1. ASSUME NEW m \in TopologyMaps \cup {NoMap}, SelectMap(m) PROVE PageTypeOK' /\ CalloutsCarry'
  BY <1>1 DEF SelectMap, PageTypeOK, CalloutsCarry
<1>2. CASE FetchMap
  <2>1. selected \in TopologyMaps /\ server[selected] \in MapData BY <1>2 DEF FetchMap, PageTypeOK
  <2>2. cache' \in [TopologyMaps -> MapData \cup {NoData}]
    BY <1>2, <2>1 DEF FetchMap, PageTypeOK
  <2>. QED BY <1>2, <2>2 DEF FetchMap, PageTypeOK, CalloutsCarry
<1>3. CASE RetrySave
  <2>1. positions \in NodesOfMap /\ Persist(positions) /\ current # NoData
    BY <1>3 DEF RetrySave, PageTypeOK
  <2>2. acts' \in 0..MaxActs
    BY <1>3, RevisionAssumption DEF RetrySave, Acts, PageTypeOK
  <2>. QED BY <1>3, <2>1, <2>2, PersistTyped DEF RetrySave, PageTypeOK, CalloutsCarry
<1>4. CASE ReloadMap
  BY <1>4 DEF ReloadMap, PageTypeOK, CalloutsCarry
<1>5. ASSUME NEW d \in TopologyDevices, NEW p \in Places, DragNode(d, p)
      PROVE PageTypeOK' /\ CalloutsCarry'
  <2>. DEFINE W == [of |-> selected, at |-> [Shown EXCEPT ![d] = p]]
  <2>1. current # NoData /\ d \in DOMAIN current.at /\ Persist(W) BY <1>5 DEF DragNode
  <2>2. W \in NodesOfMap
    <3>1. PICK D \in SUBSET TopologyDevices : Shown \in [D -> Places]
      BY <2>1, ShownInNodes DEF Nodes
    <3>2. [Shown EXCEPT ![d] = p] \in Nodes BY <3>1 DEF Nodes
    <3>. QED BY <2>1, <3>2, ShownInNodes DEF NodesOfMap
  <2>3. owed' \subseteq TopologyMaps \X TopologyDevices \X Places
    BY <1>5, <2>1, ShownInNodes DEF DragNode, PageTypeOK
  <2>4. acts' \in 0..MaxActs
    BY <1>5, RevisionAssumption DEF DragNode, Acts, PageTypeOK
  <2>. HIDE DEF W
  <2>. QED BY <1>5, <2>1, <2>2, <2>3, <2>4, PersistTyped DEF DragNode, PageTypeOK, CalloutsCarry
<1>6. ASSUME NEW q \in Requests, SaveTimerFires(q) PROVE PageTypeOK' /\ CalloutsCarry'
  <2>. DEFINE c == [kind |-> "move", map |-> saveTimer.map, revision |-> saveTimer.revision,
                    nodes |-> saveTimer.nodes, answer |-> "none"]
  <2>1. c \in Callout /\ c.nodes \in NodesOfMap
    BY <1>6 DEF SaveTimerFires, PageTypeOK, Callout
  <2>2. Sends(q, c) BY <1>6 DEF SaveTimerFires
  <2>3. callouts' \in [Requests -> Callout \cup {NoCallout}] /\ CalloutsCarry'
    <3>. HIDE DEF c
    <3>. QED BY <2>1, <2>2, SendsTyped
  <2>. QED BY <1>6, <2>3 DEF SaveTimerFires, PageTypeOK
<1>7. ASSUME NEW q \in Requests, EditConnections(q) \/ RemoveMap(q)
      PROVE PageTypeOK' /\ CalloutsCarry'
  <2>. DEFINE c(k) == [kind |-> k, map |-> selected, revision |-> current.revision,
                       nodes |-> NothingPending, answer |-> "none"]
  <2>1. PICK k \in {"connect", "remove"} : current # NoData /\ Sends(q, c(k))
    BY <1>7 DEF EditConnections, RemoveMap
  <2>2. c(k) \in Callout /\ c(k).kind \notin {"move", "add"}
    BY <2>1, ShownInNodes DEF Callout, MapData
  <2>3. callouts' \in [Requests -> Callout \cup {NoCallout}] /\ CalloutsCarry'
    <3>. HIDE DEF c
    <3>. QED BY <2>1, <2>2, SendsTyped
  <2>4. acts' \in 0..MaxActs
    BY <1>7, RevisionAssumption DEF EditConnections, RemoveMap, Acts, PageTypeOK
  <2>. QED BY <1>7, <2>3, <2>4 DEF EditConnections, RemoveMap, PageTypeOK
<1>8. ASSUME NEW q \in Requests, NEW d \in TopologyDevices, AddDevice(q, d)
      PROVE PageTypeOK' /\ CalloutsCarry'
  <2>. DEFINE W == [e \in DOMAIN current.at \cup {d} |-> IF e = d THEN FirstPlace ELSE Shown[e]]
              c == [kind |-> "add", map |-> selected, revision |-> current.revision,
                    nodes |-> [of |-> selected, at |-> W], answer |-> "none"]
  <2>1. current # NoData /\ Sends(q, c) BY <1>8 DEF AddDevice
  <2>2. W \in Nodes
    <3>1. PICK D \in SUBSET TopologyDevices : Shown \in [D -> Places] /\ D = DOMAIN current.at
      BY <2>1, ShownInNodes DEF Nodes
    <3>2. W \in [D \cup {d} -> Places] BY <3>1, DrawnAssumption
    <3>. QED BY <3>1, <3>2 DEF Nodes
  <2>3. c \in Callout /\ c.nodes \in NodesOfMap
    BY <2>1, <2>2, ShownInNodes DEF Callout, MapData, NodesOfMap
  <2>4. callouts' \in [Requests -> Callout \cup {NoCallout}] /\ CalloutsCarry'
    <3>. HIDE DEF c
    <3>. QED BY <2>1, <2>3, SendsTyped
  <2>5. acts' \in 0..MaxActs
    BY <1>8, RevisionAssumption DEF AddDevice, Acts, PageTypeOK
  <2>. QED BY <1>8, <2>4, <2>5 DEF AddDevice, PageTypeOK
<1>9. ASSUME NEW q \in Requests, NEW m \in TopologyMaps, CreateNewMap(q, m)
      PROVE PageTypeOK' /\ CalloutsCarry'
  <2>. DEFINE c == [kind |-> "create", map |-> m, revision |-> 1,
                    nodes |-> NothingPending, answer |-> "none"]
  <2>1. c \in Callout /\ c.kind \notin {"move", "add"} BY RevisionAssumption DEF Callout
  <2>2. Sends(q, c) BY <1>9 DEF CreateNewMap
  <2>3. callouts' \in [Requests -> Callout \cup {NoCallout}] /\ CalloutsCarry'
    <3>. HIDE DEF c
    <3>. QED BY <2>1, <2>2, SendsTyped
  <2>4. acts' \in 0..MaxActs
    BY <1>9, RevisionAssumption DEF CreateNewMap, Acts, PageTypeOK
  <2>. QED BY <1>9, <2>3, <2>4 DEF CreateNewMap, PageTypeOK
<1>10. ASSUME NEW q \in Requests, Answered(q) PROVE PageTypeOK' /\ CalloutsCarry'
  <2>1. callouts[q] \in Callout BY <1>10 DEF Answered, PageTypeOK
  <2>2. selected' \in TopologyMaps \cup {NoMap}
    BY <1>10, <2>1 DEF Answered, PageTypeOK, Callout
  <2>3. positions' \in NodesOfMap \cup {NothingPending} /\ saveState' \in {"saved", "pending", "failed"}
    BY <1>10 DEF Answered, PageTypeOK
  <2>4. callouts' \in [Requests -> Callout \cup {NoCallout}] /\ CalloutsCarry'
    BY <1>10 DEF Answered, PageTypeOK, CalloutsCarry
  <2>. QED BY <1>10, <2>2, <2>3, <2>4 DEF Answered, PageTypeOK
<1>11. ASSUME NEW m \in TopologyMaps, OthersWrite(m) PROVE PageTypeOK' /\ CalloutsCarry'
  <2>1. PICK D \in SUBSET TopologyDevices, p \in Places :
          server' = [server EXCEPT ![m] = [revision |-> @.revision + 1, at |->
            [d \in D |-> IF d \in DOMAIN server[m].at THEN server[m].at[d] ELSE p]]]
    BY <1>11 DEF OthersWrite
  <2>2. server[m] \in MapData /\ server[m].revision < LastRevision
    BY <1>11 DEF OthersWrite, PageTypeOK
  <2>3. PICK E \in SUBSET TopologyDevices : server[m].at \in [E -> Places]
    BY <2>2 DEF MapData, Nodes
  <2>4. [d \in D |-> IF d \in DOMAIN server[m].at THEN server[m].at[d] ELSE p] \in Nodes
    BY <2>3 DEF Nodes
  <2>5. server[m].revision + 1 \in 1..LastRevision BY <2>2, RevisionAssumption DEF MapData
  <2>6. server' \in [TopologyMaps -> MapData \cup {NoMap}]
    BY <2>1, <2>4, <2>5 DEF PageTypeOK, MapData
  <2>7. acts' \in 0..MaxActs
    BY <1>11, RevisionAssumption DEF OthersWrite, Acts, PageTypeOK
  <2>. QED BY <1>11, <2>6, <2>7 DEF OthersWrite, PageTypeOK, CalloutsCarry
<1>12. CASE UNCHANGED pageVars
  BY <1>12 DEF pageVars, PageTypeOK, CalloutsCarry
<1>. QED BY <1>1, <1>2, <1>3, <1>4, <1>5, <1>6, <1>7, <1>8, <1>9, <1>10, <1>11, <1>12,
            ServeTyped DEF PageNext

(* The step of an invariant that every action keeps as it is.              *)
LEMMA OwedStandsKept ==
  ASSUME PageTypeOK, OwedStands, PageNext
  PROVE  OwedStands'
<1>1. CASE owed' \subseteq owed /\ server' = server /\ cache' = cache
  BY <1>1 DEF OwedStands, Stands
<1>2. CASE FetchMap
  <2>1. /\ selected \in TopologyMaps /\ server[selected] \in MapData
        /\ cache' = [cache EXCEPT ![selected] = server[selected]]
        /\ server' = server /\ owed' = owed
    BY <1>2 DEF FetchMap, PageTypeOK
  <2>. QED BY <2>1, NoneAssumption DEF OwedStands, Stands, PageTypeOK
<1>3. ASSUME NEW d \in TopologyDevices, NEW p \in Places, DragNode(d, p) PROVE OwedStands'
  <2>1. /\ owed' \subseteq owed \cup {o \in {<<selected, d, p>>} : Stands(o, server)}
        /\ current # NoData /\ d \in DOMAIN current.at
        /\ server' = server /\ cache' = cache
    BY <1>3 DEF DragNode
  <2>2. current = cache[selected] BY <2>1, ShownInNodes
  <2>. QED BY <2>1, <2>2 DEF OwedStands, Stands
<1>4. ASSUME NEW q \in Requests, Serve(q) PROVE OwedStands'
  <2>1. CASE Accepts(callouts[q])
    <3>1. /\ owed' \subseteq owed /\ cache' = cache
          /\ \A o \in owed' : Stands(o, server')
      BY <1>4, <2>1 DEF Serve
    <3>. QED BY <3>1 DEF OwedStands
  <2>2. CASE ~Accepts(callouts[q]) BY <1>4, <2>2, <1>1 DEF Serve
  <2>. QED BY <2>1, <2>2
<1>5. ASSUME NEW m \in TopologyMaps, OthersWrite(m) PROVE OwedStands'
  <2>1. /\ owed' \subseteq owed /\ cache' = cache
        /\ \A o \in owed' : Stands(o, server')
    BY <1>5 DEF OthersWrite
  <2>. QED BY <2>1 DEF OwedStands
<1>. QED
  BY <1>1, <1>2, <1>3, <1>4, <1>5
  DEF PageNext, SelectMap, RetrySave, ReloadMap, SaveTimerFires, EditConnections, RemoveMap,
      AddDevice, CreateNewMap, Answered

(* Nothing the invariant of hurried drags speaks of has changed.           *)
Untouched ==
  UNCHANGED <<positions, saveState, saveTimer, hurried>>
    /\ \A q \in Requests : Moving(q)' => Moving(q) /\ callouts'[q] = callouts[q]
PendingInv == ~hurried => OwedIsPending /\ TimerCarries /\ RequestCarries /\ SavedIsSaved

LEMMA UntouchedKeeps ==
  ASSUME PendingInv, Untouched, owed' \subseteq owed
  PROVE  PendingInv'
BY DEF PendingInv, Untouched, OwedIsPending, TimerCarries, RequestCarries, SavedIsSaved, Moving

LEMMA PersistKeeps ==
  ASSUME PageTypeOK, PendingInv, NEW W \in NodesOfMap, W.of = selected, Persist(W), ~hurried',
         UNCHANGED callouts,
         \A o \in owed' : /\ o[1] = selected /\ o[2] \in DOMAIN W.at /\ W.at[o[2]] = o[3]
  PROVE  PendingInv'
<1>1. /\ positions' = W /\ W # NothingPending /\ saveState' = "pending"
      /\ saveTimer'.map = selected /\ saveTimer'.nodes = W
      /\ \A q \in Requests : ~Moving(q)
  BY NoneAssumption DEF Persist
<1>2. \A q \in Requests : ~Moving(q)' BY <1>1 DEF Moving
<1>. QED BY <1>1, <1>2 DEF PendingInv, OwedIsPending, TimerCarries, RequestCarries, SavedIsSaved

LEMMA PendingKept ==
  ASSUME PageTypeOK, CalloutsCarry, OwedStands, PendingInv, PageNext
  PROVE  PendingInv'
<1>1. CASE FetchMap \/ \E m \in TopologyMaps \cup {NoMap} : SelectMap(m)
  <2>1. Untouched /\ owed' = owed BY <1>1 DEF FetchMap, SelectMap, Untouched, Moving
  <2>. QED BY <2>1, UntouchedKeeps
<1>2. CASE RetrySave
  <2>1. /\ Persist(positions) /\ positions \in NodesOfMap
        /\ owed' = owed /\ callouts' = callouts
    BY <1>2 DEF RetrySave, PageTypeOK
  <2>2. CASE hurried' BY <2>2 DEF PendingInv
  <2>3. CASE ~hurried'
    <3>1. ~hurried /\ positions.of = selected BY <2>1, <2>3, NoneAssumption DEF Persist
    <3>. QED BY <2>1, <2>3, <3>1, PersistKeeps DEF PendingInv, OwedIsPending
  <2>. QED BY <2>2, <2>3
<1>3. CASE ReloadMap
  <2>1. /\ saveState = "failed" /\ saveTimer' = NoTimer /\ owed' = {}
        /\ saveState' = "saved" /\ callouts' = callouts /\ hurried' = hurried
    BY <1>3 DEF ReloadMap
  <2>2. ~hurried => \A q \in Requests : ~Moving(q)' 
    BY <2>1 DEF PendingInv, RequestCarries, Moving
  <2>. QED BY <2>1, <2>2 DEF PendingInv, OwedIsPending, TimerCarries, RequestCarries, SavedIsSaved
<1>4. ASSUME NEW d \in TopologyDevices, NEW p \in Places, DragNode(d, p) PROVE PendingInv'
  <2>. DEFINE W == [of |-> selected, at |-> [Shown EXCEPT ![d] = p]]
  <2>1. /\ current # NoData /\ d \in DOMAIN current.at /\ Persist(W) /\ callouts' = callouts
        /\ owed' = {o \in owed : o[1] # selected \/ o[2] # d}
                     \cup {o \in {<<selected, d, p>>} : Stands(o, server)}
    BY <1>4 DEF DragNode
  <2>2. /\ current = cache[selected] /\ DOMAIN Shown = DOMAIN current.at
        /\ [Shown EXCEPT ![d] = p] \in Nodes /\ selected \in TopologyMaps
    <3>1. PICK D \in SUBSET TopologyDevices : Shown \in [D -> Places]
      BY <2>1, ShownInNodes DEF Nodes
    <3>2. [Shown EXCEPT ![d] = p] \in [D -> Places] BY <3>1
    <3>. QED BY <2>1, <3>2, ShownInNodes DEF Nodes
  <2>3. CASE hurried' BY <2>3 DEF PendingInv
  <2>4. CASE ~hurried'
    <3>1. ~hurried /\ (positions # NothingPending => positions.of = selected)
      BY <2>1, <2>4 DEF Persist
    <3>2. ASSUME NEW o \in owed
          PROVE  o[1] = selected /\ o[2] \in DOMAIN Shown /\ Shown[o[2]] = o[3]
      <4>1. /\ positions # NothingPending /\ positions.of = o[1]
            /\ o[2] \in DOMAIN positions.at /\ positions.at[o[2]] = o[3]
        BY <3>1 DEF PendingInv, OwedIsPending
      <4>2. o[1] = selected /\ o[2] \in DOMAIN current.at
        BY <3>1, <4>1, <2>2 DEF OwedStands
      <4>. QED BY <4>1, <4>2 DEF Shown
    <3>3. ASSUME NEW o \in owed'
          PROVE  o[1] = selected /\ o[2] \in DOMAIN W.at /\ W.at[o[2]] = o[3]
      <4>1. CASE o = <<selected, d, p>> BY <4>1, <2>1, <2>2
      <4>2. CASE o \in owed /\ (o[1] # selected \/ o[2] # d) BY <4>2, <3>2
      <4>. QED BY <2>1, <4>1, <4>2
    <3>4. W \in NodesOfMap /\ W.of = selected BY <2>2 DEF NodesOfMap
    <3>. HIDE DEF W
    <3>. QED BY <2>1, <2>4, <3>3, <3>4, PersistKeeps
  <2>. QED BY <2>3, <2>4
<1>5. ASSUME NEW q \in Requests, SaveTimerFires(q) PROVE PendingInv'
  <2>. DEFINE c == [kind |-> "move", map |-> saveTimer.map, revision |-> saveTimer.revision,
                    nodes |-> saveTimer.nodes, answer |-> "none"]
  <2>1. /\ saveTimer # NoTimer /\ saveTimer' = NoTimer
        /\ callouts' = [callouts EXCEPT ![q] = c]
        /\ UNCHANGED <<positions, saveState, owed, hurried>>
    BY <1>5 DEF SaveTimerFires, Sends
  <2>2. CASE hurried BY <2>1, <2>2 DEF PendingInv
  <2>3. CASE ~hurried
    <3>1. /\ OwedIsPending /\ TimerCarries /\ SavedIsSaved
      BY <2>3 DEF PendingInv
    <3>2. callouts'[q] = c /\ \A r \in Requests : Moving(r)' => r = q
      BY <2>1, <3>1 DEF TimerCarries, Moving, PageTypeOK
    <3>3. RequestCarries'
      BY <2>1, <3>1, <3>2 DEF TimerCarries, RequestCarries
    <3>. QED BY <2>1, <3>1, <3>3 DEF PendingInv, OwedIsPending, TimerCarries, SavedIsSaved
  <2>. QED BY <2>2, <2>3
<1>6. ASSUME NEW q \in Requests, NEW c, c.kind # "move", Sends(q, c),
             UNCHANGED <<positions, saveState, saveTimer, owed, hurried>>
      PROVE PendingInv'
  <2>1. Untouched BY <1>6 DEF Untouched, Sends, Moving, PageTypeOK
  <2>. QED BY <1>6, <2>1, UntouchedKeeps
<1>7. ASSUME NEW q \in Requests, Serve(q) PROVE PendingInv'
  <2>. DEFINE c == callouts[q]
  <2>1. /\ c # NoCallout /\ c \in Callout /\ c.answer = "none"
        /\ UNCHANGED <<positions, saveState, saveTimer, hurried>>
        /\ owed' \subseteq owed
        /\ \E a \in {"done", "refused"} : callouts' = [callouts EXCEPT ![q].answer = a]
    BY <1>7 DEF Serve, PageTypeOK
  <2>2. CASE hurried BY <2>1, <2>2 DEF PendingInv
  <2>3. CASE ~Moving(q)
    <3>1. Untouched BY <2>1, <2>3 DEF Untouched, Moving, PageTypeOK, Callout
    <3>. QED BY <2>1, <3>1, UntouchedKeeps
  <2>4. CASE ~hurried /\ Moving(q)
    <3>1. /\ saveState = "pending" /\ saveTimer = NoTimer /\ positions # NothingPending
          /\ c.nodes = positions /\ c.map = positions.of
          /\ \A r \in Requests : Moving(r) => r = q
          /\ OwedIsPending /\ TimerCarries /\ c.kind = "move"
      BY <2>4 DEF PendingInv, RequestCarries, Moving
    <3>2. callouts'[q].answer = "done" => owed' = {}
      <4>1. CASE Accepts(c)
        <5>1. \A o \in owed : Carried(o, c) BY <3>1 DEF OwedIsPending, Carried
        <5>. QED BY <4>1, <5>1, <1>7 DEF Serve
      <4>2. CASE ~Accepts(c)
        <5>1. callouts' = [callouts EXCEPT ![q].answer = "refused"] BY <4>2, <1>7 DEF Serve
        <5>. QED BY <5>1, <2>1 DEF PageTypeOK, Callout
      <4>. QED BY <4>1, <4>2
    <3>3. /\ callouts'[q].nodes = c.nodes /\ callouts'[q].map = c.map
          /\ \A r \in Requests : Moving(r)' => r = q
      BY <2>1, <3>1 DEF Moving, PageTypeOK, Callout
    <3>4. RequestCarries' BY <2>1, <3>1, <3>2, <3>3 DEF RequestCarries
    <3>. QED BY <2>1, <3>1, <3>4 DEF PendingInv, OwedIsPending, TimerCarries, SavedIsSaved
  <2>. QED BY <2>2, <2>3, <2>4
<1>8. ASSUME NEW q \in Requests, Answered(q) PROVE PendingInv'
  <2>. DEFINE c == callouts[q]
  <2>1. PICK told \in {callouts[q].answer, "refused"} :
          /\ positions' = IF c.kind = "move" /\ told = "done" THEN NothingPending ELSE positions
          /\ saveState' = IF c.kind # "move" THEN saveState
                           ELSE IF told = "done" THEN "saved" ELSE "failed"
    BY <1>8 DEF Answered
  <2>2. /\ callouts' = [callouts EXCEPT ![q] = NoCallout]
        /\ UNCHANGED <<saveTimer, owed, hurried>> /\ c # NoCallout
    BY <1>8 DEF Answered
  <2>3. CASE hurried BY <2>2, <2>3 DEF PendingInv
  <2>4. CASE ~Moving(q)
    <3>1. Untouched BY <2>1, <2>2, <2>4 DEF Untouched, Moving, PageTypeOK
    <3>. QED BY <2>2, <3>1, UntouchedKeeps
  <2>5. CASE ~hurried /\ Moving(q)
    <3>1. /\ saveTimer = NoTimer /\ OwedIsPending /\ c.kind = "move"
          /\ \A r \in Requests : Moving(r) => r = q
          /\ told = "done" => owed = {}
      BY <2>1, <2>5 DEF PendingInv, RequestCarries, Moving
    <3>2. \A r \in Requests : ~Moving(r)' BY <2>2, <3>1 DEF Moving, PageTypeOK
    <3>. QED BY <2>1, <2>2, <3>1, <3>2
         DEF PendingInv, OwedIsPending, TimerCarries, RequestCarries, SavedIsSaved
  <2>. QED BY <2>3, <2>4, <2>5
<1>9. ASSUME NEW m \in TopologyMaps, OthersWrite(m) PROVE PendingInv'
  <2>1. Untouched /\ owed' \subseteq owed BY <1>9 DEF OthersWrite, Untouched, Moving
  <2>. QED BY <2>1, UntouchedKeeps
<1>10. ASSUME NEW q \in Requests,
              \/ EditConnections(q) \/ RemoveMap(q)
              \/ \E d \in TopologyDevices : AddDevice(q, d)
              \/ \E m \in TopologyMaps : CreateNewMap(q, m)
       PROVE PendingInv'
  <2>1. UNCHANGED <<positions, saveState, saveTimer, owed, hurried>>
    BY <1>10 DEF EditConnections, RemoveMap, AddDevice, CreateNewMap
  <2>2. \E c : c.kind # "move" /\ Sends(q, c)
    <3>1. CASE EditConnections(q) BY <3>1 DEF EditConnections
    <3>2. CASE RemoveMap(q) BY <3>2 DEF RemoveMap
    <3>3. CASE \E d \in TopologyDevices : AddDevice(q, d) BY <3>3 DEF AddDevice
    <3>4. CASE \E m \in TopologyMaps : CreateNewMap(q, m) BY <3>4 DEF CreateNewMap
    <3>. QED BY <1>10, <3>1, <3>2, <3>3, <3>4
  <2>. QED BY <2>1, <2>2, <1>6
<1>. QED BY <1>1, <1>2, <1>3, <1>4, <1>5, <1>7, <1>8, <1>9, <1>10 DEF PageNext

\* The page of topology maps says that all positions are saved only when
\* every device dragged is where it was dropped, or was given up, unless a
\* drag came while others were pending.
THEOREM SavesAreTold == PageSpec => []PageTypeOK /\ []SavedIsSaved
<1>. DEFINE IInv == PageTypeOK /\ CalloutsCarry /\ OwedStands /\ PendingInv
<1>1. PageInit => IInv
  <2>. SUFFICES ASSUME PageInit PROVE IInv OBVIOUS
  <2>1. \A m \in TopologyMaps : [d \in DrawnOn[m] |-> FirstPlace] \in Nodes
    BY DrawnAssumption DEF Nodes
  <2>2. server \in [TopologyMaps -> MapData \cup {NoMap}]
    BY <2>1, RevisionAssumption DEF PageInit, MapData
  <2>3. cache \in [TopologyMaps -> MapData \cup {NoData}] BY DEF PageInit
  <2>4. callouts \in [Requests -> Callout \cup {NoCallout}] BY DEF PageInit
  <2>5. acts \in 0..MaxActs BY RevisionAssumption DEF PageInit
  <2>6. PageTypeOK BY <2>2, <2>3, <2>4, <2>5 DEF PageInit, PageTypeOK
  <2>. QED BY <2>6 DEF PageInit, CalloutsCarry, OwedStands, PendingInv, OwedIsPending, TimerCarries,
                      RequestCarries, SavedIsSaved, Moving
<1>2. IInv /\ [PageNext]_pageVars => IInv'
  <2>1. CASE UNCHANGED pageVars
    BY <2>1, PageTypeKept DEF pageVars, OwedStands, Stands, PendingInv, OwedIsPending, TimerCarries,
       RequestCarries, SavedIsSaved, Moving
  <2>2. CASE PageNext BY <2>2, PageTypeKept, OwedStandsKept, PendingKept
  <2>. QED BY <2>1, <2>2
<1>3. IInv => PageTypeOK /\ SavedIsSaved
  BY DEF PendingInv, SavedIsSaved
<1>. QED BY <1>1, <1>2, <1>3, PTL DEF PageSpec

-----------------------------------------------------------------------------
(* The session of a page (Session) *)

(* A page that has not heard of the adapter has asked for nothing.         *)
NothingBegun ==
  adapter.init = "pending" =>
    /\ refresh = "none" /\ sent = "none" /\ identity = Nobody
    /\ asked["init"] = 0 /\ asked["refresh"] = 0
    /\ ~gate.authenticated /\ (gate.loading \/ slow)

(* The token that the init brought is there until the session has expired, *)
(* and the identities are asked for with the newest.                       *)
TokenIsThere ==
  /\ adapter.init \in {"pending", "anonymous", "failed"} => adapter.token = 0
  /\ gate.error = "none" /\ adapter.init \in {"profile", "signed"} => adapter.token # 0
  /\ adapter.token # 0 => asked["init"] <= adapter.token
  /\ refresh = "identity" => asked["refresh"] = adapter.token
OpenHasUser ==
  ~gate.loading /\ gate.error = "none" /\ gate.authenticated /\ ~slow
    => identity # Nobody /\ adapter.token # 0
GateIsShut == adapter.init \in {"anonymous", "failed"} => ~gate.authenticated
OneRefresh == asked["refresh"] # 0 <=> refresh = "identity"
SessionFacts == NothingBegun /\ TokenIsThere /\ OpenHasUser /\ GateIsShut /\ OneRefresh
SessionInv == SessionTypeOK /\ SessionFacts

LEMMA SessionInvImplies == SessionInv => PagesHaveUser
BY SessionAssumption
DEF SessionInv, SessionFacts, PagesHaveUser, Open, OneRefresh, OpenHasUser, TokenIsThere, SessionTypeOK, Askers

LEMMA SessionTypeKept ==
  ASSUME SessionTypeOK, [SessionNext]_sessionVars
  PROVE  SessionTypeOK'
<1>. USE SessionAssumption DEF SessionTypeOK, Errors
<1>1. CASE InitTakesLong BY <1>1 DEF InitTakesLong
<1>2. ASSUME NEW signed \in BOOLEAN, InitAnswers(signed) PROVE SessionTypeOK'
  <2>1. (signed /\ gate.loading) \in BOOLEAN OBVIOUS
  <2>. QED BY <1>2, <2>1 DEF InitAnswers
<1>3. CASE InitFails BY <1>3 DEF InitFails
<1>4. CASE ProfileLoads
  <2>1. adapter' \in [init : {"pending", "profile", "signed", "anonymous", "failed"},
                     token : 0 .. MaxTokenAge]
    BY <1>4 DEF ProfileLoads
  <2>2. asked' \in [Askers -> 0 .. MaxTokenAge] BY <1>4 DEF ProfileLoads
  <2>. QED BY <1>4, <2>1, <2>2 DEF ProfileLoads
<1>5. ASSUME NEW a \in Askers, IdentityArrives(a) PROVE SessionTypeOK'
  <2>1. identity' \in {Nobody} \cup 1 .. MaxTokenAge
    BY <1>5 DEF IdentityArrives
  <2>2. asked' \in [Askers -> 0 .. MaxTokenAge] /\ UNCHANGED <<adapter, sent, slow>>
    BY <1>5 DEF IdentityArrives
  <2>3. gate' \in [loading : BOOLEAN, error : Errors, authenticated : BOOLEAN]
    BY <1>5 DEF IdentityArrives
  <2>4. refresh' \in {"none", "updating", "identity", "leaving"}
    BY <1>5 DEF IdentityArrives
  <2>. QED BY <2>1, <2>2, <2>3, <2>4
<1>6. ASSUME NEW a \in Askers, IdentityFails(a) PROVE SessionTypeOK'
  <2>1. identity' \in {Nobody} \cup 1 .. MaxTokenAge
    BY <1>6 DEF IdentityFails
  <2>2. asked' \in [Askers -> 0 .. MaxTokenAge] /\ UNCHANGED <<adapter, sent, slow>>
    BY <1>6 DEF IdentityFails
  <2>3. gate' \in [loading : BOOLEAN, error : Errors, authenticated : BOOLEAN]
    BY <1>6 DEF IdentityFails
  <2>4. refresh' \in {"none", "updating", "identity", "leaving"}
    BY <1>6 DEF IdentityFails
  <2>. QED BY <2>1, <2>2, <2>3, <2>4
<1>7. CASE Refresh BY <1>7 DEF Refresh
<1>8. CASE StillValid BY <1>8 DEF StillValid
<1>9. CASE Refreshed
  <2>1. adapter.token + 1 \in 0 .. MaxTokenAge /\ adapter' = [adapter EXCEPT !.token = @ + 1]
    BY <1>9 DEF Refreshed
  <2>2. adapter' \in [init : {"pending", "profile", "signed", "anonymous", "failed"},
                     token : 0 .. MaxTokenAge] /\ adapter'.token = adapter.token + 1
    BY <2>1
  <2>3. asked' \in [Askers -> 0 .. MaxTokenAge] BY <1>9, <2>1, <2>2 DEF Refreshed
  <2>. QED BY <1>9, <2>2, <2>3 DEF Refreshed
<1>10. ASSUME NEW refused \in BOOLEAN, RefreshFails(refused) PROVE SessionTypeOK'
  <2>1. (gate.authenticated /\ ~refused) \in BOOLEAN OBVIOUS
  <2>2. gate' \in [loading : BOOLEAN, error : Errors, authenticated : BOOLEAN]
    BY <1>10, <2>1 DEF RefreshFails
  <2>3. adapter' \in [init : {"pending", "profile", "signed", "anonymous", "failed"},
                     token : 0 .. MaxTokenAge]
    BY <1>10 DEF RefreshFails
  <2>4. identity' \in {Nobody} \cup 1 .. MaxTokenAge BY <1>10 DEF RefreshFails
  <2>. QED BY <1>10, <2>2, <2>3, <2>4 DEF RefreshFails
<1>11. CASE LeavePage
  <2>1. NobodyAsks \in [Askers -> 0 .. MaxTokenAge] BY DEF NobodyAsks
  <2>2. NewPage \in [init : {"pending", "profile", "signed", "anonymous", "failed"},
                    token : 0 .. MaxTokenAge]
    BY DEF NewPage
  <2>3. NewGate \in [loading : BOOLEAN, error : Errors, authenticated : BOOLEAN] BY DEF NewGate
  <2>. QED BY <1>11, <2>1, <2>2, <2>3 DEF LeavePage
<1>12. CASE Fetch BY <1>12 DEF Fetch
<1>13. CASE SendRequest BY <1>13 DEF SendRequest
<1>14. ASSUME NEW status \in {200, 401, 500}, RequestAnswered(status) PROVE SessionTypeOK'
  BY <1>14 DEF RequestAnswered
<1>15. CASE UNCHANGED sessionVars BY <1>15 DEF sessionVars
<1>. QED BY <1>1, <1>2, <1>3, <1>4, <1>5, <1>6, <1>7, <1>8, <1>9, <1>10, <1>11, <1>12, <1>13,
            <1>14, <1>15 DEF SessionNext

LEMMA SessionKept ==
  ASSUME SessionInv, [SessionNext]_sessionVars
  PROVE  SessionFacts'
<1>. USE SessionAssumption
     DEF SessionInv, SessionFacts, NothingBegun, TokenIsThere, OpenHasUser, GateIsShut, OneRefresh
<1>0. /\ adapter = [init |-> adapter.init, token |-> adapter.token]
      /\ gate = [loading |-> gate.loading, error |-> gate.error,
                 authenticated |-> gate.authenticated]
      /\ adapter.token \in Nat /\ asked["init"] \in Nat /\ asked["refresh"] \in Nat
      /\ DOMAIN asked = {"init", "refresh"}
      /\ identity \in {Nobody} \cup 1 .. MaxTokenAge
      /\ gate.loading \in BOOLEAN /\ gate.authenticated \in BOOLEAN
  BY DEF SessionTypeOK, Askers
<1>1. CASE InitTakesLong BY <1>0, <1>1 DEF InitTakesLong
<1>2. ASSUME NEW signed \in BOOLEAN, InitAnswers(signed) PROVE SessionFacts'
  BY <1>0, <1>2 DEF InitAnswers
<1>3. CASE InitFails BY <1>0, <1>3 DEF InitFails
<1>4. CASE ProfileLoads
  <2>1. /\ adapter'.init = "signed" /\ adapter'.token = adapter.token
        /\ UNCHANGED <<refresh, sent, slow>> /\ adapter.init = "profile"
    BY <1>0, <1>4 DEF ProfileLoads
  <2>2. CASE adapter.token # 0
    <3>1. /\ asked'["init"] = adapter.token /\ asked'["refresh"] = asked["refresh"]
          /\ UNCHANGED <<gate, identity>>
      BY <1>0, <1>4, <2>2 DEF ProfileLoads
    <3>. QED BY <1>0, <2>1, <2>2, <3>1
  <2>3. CASE adapter.token = 0
    <3>1. ~gate'.authenticated /\ gate'.error = gate.error /\ asked' = asked
      BY <1>0, <1>4, <2>3 DEF ProfileLoads
    <3>. QED BY <1>0, <2>1, <2>3, <3>1
  <2>. QED BY <1>0, <2>2, <2>3
<1>5. ASSUME NEW a \in Askers, IdentityArrives(a) PROVE SessionFacts'
  <2>1. identity' # Nobody /\ asked'[a] = 0 /\ asked[a] # 0 /\ UNCHANGED <<adapter, sent, slow>>
    BY <1>0, <1>5 DEF IdentityArrives, Askers, SessionTypeOK
  <2>2. CASE a = "init"
    <3>1. /\ refresh' = refresh /\ asked'["refresh"] = asked["refresh"]
          /\ gate'.error = gate.error /\ gate'.authenticated = gate.authenticated
      BY <1>0, <1>5, <2>2 DEF IdentityArrives
    <3>2. adapter.init \in {"profile", "signed"} \/ ~gate.authenticated
      BY <2>1, <2>2 DEF SessionTypeOK
    <3>3. NothingBegun' /\ OpenHasUser' /\ GateIsShut' BY <2>1, <2>2, <3>1, <3>2
    <3>4. TokenIsThere' BY <1>0, <2>1, <2>2, <3>1
    <3>5. OneRefresh' BY <3>1
    <3>. QED BY <3>3, <3>4, <3>5
  <2>3. CASE a = "refresh"
    <3>1. /\ refresh' = "none" /\ asked'["init"] = asked["init"] /\ gate' = gate
      BY <1>0, <1>5, <2>3 DEF IdentityArrives
    <3>. QED BY <1>0, <2>1, <2>3, <3>1
  <2>. QED BY <2>2, <2>3 DEF Askers
<1>6. ASSUME NEW a \in Askers, IdentityFails(a) PROVE SessionFacts'
  <2>1. asked'[a] = 0 /\ asked[a] # 0 /\ UNCHANGED <<adapter, sent, slow>>
    BY <1>0, <1>6 DEF IdentityFails, Askers
  <2>2. CASE a = "init"
    <3>1. /\ refresh' = refresh /\ asked'["refresh"] = asked["refresh"]
          /\ gate'.error = gate.error /\ ~gate'.authenticated
      BY <1>0, <1>6, <2>2 DEF IdentityFails
    <3>2. adapter.init # "pending" /\ 0 <= adapter.token BY <1>0, <2>1, <2>2
    <3>3. NothingBegun' /\ OpenHasUser' /\ GateIsShut' BY <2>1, <3>1, <3>2
    <3>4. TokenIsThere' BY <2>1, <2>2, <3>1, <3>2
    <3>5. OneRefresh' BY <3>1
    <3>. QED BY <3>3, <3>4, <3>5
  <2>3. CASE a = "refresh"
    <3>1. /\ refresh' = "none" /\ asked'["init"] = asked["init"]
          /\ UNCHANGED <<gate, identity>>
      BY <1>0, <1>6, <2>3 DEF IdentityFails
    <3>. QED BY <1>0, <2>1, <2>3, <3>1
  <2>. QED BY <2>2, <2>3 DEF Askers
<1>7. CASE Refresh BY <1>7 DEF Refresh
<1>8. CASE StillValid BY <1>8 DEF StillValid
<1>9. CASE Refreshed BY <1>0, <1>9 DEF Refreshed
<1>10. ASSUME NEW refused \in BOOLEAN, RefreshFails(refused) PROVE SessionFacts'
  BY <1>0, <1>10 DEF RefreshFails
<1>11. CASE LeavePage BY <1>11 DEF LeavePage, NewPage, NewGate, NobodyAsks, Askers
<1>12. CASE Fetch BY <1>12 DEF Fetch
<1>13. CASE SendRequest BY <1>13 DEF SendRequest
<1>14. ASSUME NEW status \in {200, 401, 500}, RequestAnswered(status) PROVE SessionFacts'
  BY <1>14 DEF RequestAnswered
<1>15. CASE UNCHANGED sessionVars BY <1>15 DEF sessionVars
<1>. QED BY <1>1, <1>2, <1>3, <1>4, <1>5, <1>6, <1>7, <1>8, <1>9, <1>10, <1>11, <1>12, <1>13,
            <1>14, <1>15 DEF SessionNext

\* The pages are rendered for a user whose identity was loaded and with a
\* token at hand, but for an init of more than ten seconds; and one refresh is
\* under way at most.
THEOREM TheSessionHasItsUser == SessionSpec => []SessionTypeOK /\ []PagesHaveUser
<1>1. SessionInit => SessionInv
  <2>. SUFFICES ASSUME SessionInit PROVE SessionInv OBVIOUS
  <2>1. asked \in [Askers -> 0 .. MaxTokenAge] /\ asked["init"] = 0 /\ asked["refresh"] = 0
    BY SessionAssumption DEF SessionInit, NobodyAsks, Askers
  <2>2. SessionTypeOK
    <3>1. NewPage \in [init : {"pending", "profile", "signed", "anonymous", "failed"},
                      token : 0 .. MaxTokenAge]
      BY SessionAssumption DEF NewPage
    <3>2. NewGate \in [loading : BOOLEAN, error : Errors, authenticated : BOOLEAN]
      BY DEF NewGate, Errors
    <3>. QED BY <2>1, <3>1, <3>2 DEF SessionInit, SessionTypeOK
  <2>3. SessionFacts
    BY <2>1, SessionAssumption
    DEF SessionInit, SessionFacts, NothingBegun, TokenIsThere, OpenHasUser, GateIsShut, OneRefresh,
        NewPage, NewGate
  <2>. QED BY <2>2, <2>3 DEF SessionInv
<1>2. SessionInv => SessionTypeOK BY DEF SessionInv
<1>3. SessionInv /\ [SessionNext]_sessionVars => SessionInv'
  BY SessionTypeKept, SessionKept DEF SessionInv
<1>. QED BY <1>1, <1>2, <1>3, SessionInvImplies, PTL DEF SessionSpec

-----------------------------------------------------------------------------
(* The Linux agents (LinuxAgents) *)

(* A row is revoked just while it has no token; one that was heard of is   *)
(* heard of with its token, unless an enrollment came in between.          *)
RowIsTrue ==
  /\ agentRow.revoked <=> agentRow.token = Random
  /\ ~agentRow.revoked /\ agentRow.age # Never => beatBy = agentRow.token \/ crossed

(* A heartbeat in the API is no older than what the script did since it    *)
(* sent it; when it has been written, the row is as old as the heartbeat.  *)
BeatIsRecent ==
  beat # NoBeat =>
    /\ script.does = "waits" => script.wait <= Timeout
    /\ script.does = "sleeps" => unheard >= 1
    /\ beat.at # "find" =>
         beat.age <= (IF script.does = "waits" THEN 1 ELSE 5) - script.wait
    /\ beat.at = "answer" => agentRow.age \in {Never, beat.age}

(* The age of the row, by what the script does and how often it failed.    *)
Bound ==
  CASE script.does = "sleeps" /\ unheard = 0 -> 5
    [] script.does = "sleeps" /\ unheard = 1 -> 10
    [] script.does = "waits" /\ unheard = 0 -> 6
    [] OTHER -> 11
RowIsRecent ==
  /\ script.does = "waits" => script.wait <= Timeout
  /\ agentRow.age # Never /\ unheard <= 1 => agentRow.age <= Bound - script.wait
AgentInv == AgentTypeOK /\ RowIsTrue /\ BeatIsRecent /\ RowIsRecent

LEMMA AgentInvImplies == AgentInv => StateIsTrue
<1>. SUFFICES ASSUME AgentInv PROVE StateIsTrue OBVIOUS
<1>. USE EnrollmentAssumption DEF AgentInv, AgentTypeOK
<1>1. State = "ONLINE" => beatBy = agentRow.token \/ crossed BY DEF State, RowIsTrue
<1>2. State = "STALE" => unheard > 1
  <2>. SUFFICES ASSUME State = "STALE" PROVE unheard > 1 OBVIOUS
  <2>1. agentRow.age # Never /\ agentRow.age \in Ages /\ agentRow.age > 12
    BY DEF State, StaleAfter
  <2>2. Bound \in {5, 6, 10, 11} BY DEF Bound
  <2>3. script.wait \in Nat /\ unheard \in Nat /\ agentRow.age \in Nat
    BY <2>1 DEF Interval, Ages, StaleAfter
  <2>. QED BY <2>1, <2>2, <2>3 DEF RowIsRecent
<1>3. State = "REVOKED" <=> agentRow.token = Random BY DEF State, RowIsTrue
<1>. QED BY <1>1, <1>2, <1>3 DEF StateIsTrue

LEMMA AgentTypeKept ==
  ASSUME AgentTypeOK, [AgentNext]_agentVars, script.does = "waits" => script.wait <= Timeout
  PROVE  AgentTypeOK'
<1>. DEFINE AgentRows == [token : Tokens \cup {Random}, revoked : BOOLEAN, age : Ages \cup {Never}]
            Scripts == [token : Tokens, does : {"sleeps", "waits"}, wait : 0 .. 4]
            Beats == [token : Tokens, at : {"find", "write", "answer"}, age : Ages]
<1>0. /\ agentRow \in AgentRows /\ drawn \in Tokens /\ script \in Scripts /\ beat \in {NoBeat} \cup Beats
      /\ revoking \in BOOLEAN /\ crossed \in BOOLEAN
      /\ beatBy \in Tokens \cup {Never} /\ unheard \in 0 .. 3
      /\ 0 \in Ages /\ \A a \in Ages : Older(a) \in Ages
  BY DEF AgentTypeOK, Ages, StaleAfter, Interval, Older
<1>a. \A w \in 0 .. 4 : /\ [script EXCEPT !.wait = w] \in Scripts
                         /\ \A d \in {"sleeps", "waits"} :
                              [script EXCEPT !.does = d, !.wait = w] \in Scripts
  BY <1>0
<1>. SUFFICES /\ agentRow' \in AgentRows /\ drawn' \in Tokens /\ script' \in Scripts
              /\ beat' \in {NoBeat} \cup Beats
              /\ revoking' \in BOOLEAN /\ crossed' \in BOOLEAN
              /\ beatBy' \in Tokens \cup {Never} /\ unheard' \in 0 .. 3
  BY DEF AgentTypeOK, Interval
<1>1. CASE EnrollHost
  <2>1. drawn + 1 \in Tokens BY <1>0, <1>1, EnrollmentAssumption DEF EnrollHost, Tokens
  <2>2. agentRow' \in AgentRows BY <1>1, <2>1 DEF EnrollHost, Enrollment
  <2>. HIDE DEF AgentRows, Scripts, Beats
  <2>. QED BY <1>0, <1>1, <2>1, <2>2 DEF EnrollHost
<1>2. CASE InstallToken
  <2>1. script' \in Scripts BY <1>0, <1>2 DEF InstallToken
  <2>. HIDE DEF AgentRows, Scripts, Beats
  <2>. QED BY <1>0, <1>2, <2>1 DEF InstallToken
<1>3. CASE FindToRevoke
  <2>. HIDE DEF AgentRows, Scripts, Beats
  <2>. QED BY <1>0, <1>3 DEF FindToRevoke
<1>4. CASE WriteRevoked
  <2>1. agentRow' \in AgentRows BY <1>0, <1>4 DEF WriteRevoked
  <2>. HIDE DEF AgentRows, Scripts, Beats
  <2>. QED BY <1>0, <1>4, <2>1 DEF WriteRevoked
<1>5. CASE Report
  <2>1. script' \in Scripts
    <3>. HIDE DEF Scripts, AgentRows, Beats
    <3>. QED BY <1>a, <1>5 DEF Report, Timeout
  <2>2. beat' \in Beats BY <1>0, <1>5 DEF Report
  <2>. HIDE DEF AgentRows, Scripts, Beats
  <2>. QED BY <1>0, <1>5, <2>1, <2>2 DEF Report
<1>6. CASE ReportFails
  <2>1. script' \in Scripts
    <3>. HIDE DEF Scripts, AgentRows, Beats
    <3>. QED BY <1>a, <1>6 DEF ReportFails, Sleeps, Interval
  <2>. HIDE DEF AgentRows, Scripts, Beats
  <2>2. unheard' \in 0 .. 3 BY <1>0, <1>6 DEF ReportFails
  <2>. QED BY <1>0, <1>6, <2>1, <2>2 DEF ReportFails
<1>7. CASE Restart
  <2>1. script' \in Scripts
    <3>. HIDE DEF Scripts, AgentRows, Beats
    <3>. QED BY <1>a, <1>7 DEF Restart
  <2>. HIDE DEF AgentRows, Scripts, Beats
  <2>2. unheard' \in 0 .. 3 BY <1>0, <1>7 DEF Restart
  <2>. QED BY <1>0, <1>7, <2>1, <2>2 DEF Restart
<1>8. CASE QuarterPasses
  <2>1. script' \in Scripts BY <1>0, <1>8 DEF QuarterPasses
  <2>2. agentRow' \in AgentRows
    <3>1. CASE agentRow.age = Never BY <1>0, <1>8, <3>1 DEF QuarterPasses
    <3>2. CASE agentRow.age # Never
      <4>1. Older(agentRow.age) \in Ages BY <1>0, <3>2
      <4>. QED BY <1>0, <1>8, <3>2, <4>1 DEF QuarterPasses
    <3>. QED BY <3>1, <3>2
  <2>3. beat' \in {NoBeat} \cup Beats
    <3>1. CASE beat = NoBeat BY <1>0, <1>8, <3>1 DEF QuarterPasses
    <3>2. CASE beat # NoBeat
      <4>1. Older(beat.age) \in Ages BY <1>0, <3>2
      <4>. QED BY <1>0, <1>8, <3>2, <4>1 DEF QuarterPasses
    <3>. QED BY <3>1, <3>2
  <2>. HIDE DEF AgentRows, Scripts, Beats
  <2>. QED BY <1>0, <1>8, <2>1, <2>2, <2>3 DEF QuarterPasses
<1>9. CASE FindAgent
  <2>1. beat' \in {NoBeat} \cup Beats BY <1>0, <1>9 DEF FindAgent
  <2>. HIDE DEF AgentRows, Scripts, Beats
  <2>. QED BY <1>0, <1>9, <2>1 DEF FindAgent
<1>10. CASE WriteHeartbeat
  <2>1. beat \in Beats BY <1>0, <1>10 DEF WriteHeartbeat
  <2>2. agentRow' \in AgentRows /\ beat' \in Beats /\ beatBy' \in Tokens
    BY <1>0, <1>10, <2>1 DEF WriteHeartbeat
  <2>. HIDE DEF AgentRows, Scripts, Beats
  <2>. QED BY <1>0, <1>10, <2>2 DEF WriteHeartbeat
<1>11. CASE HeartbeatAnswered
  <2>. HIDE DEF AgentRows, Scripts, Beats
  <2>1. script' \in Scripts /\ unheard' \in 0 .. 3
    BY <1>0, <1>a, <1>11 DEF HeartbeatAnswered, Sleeps, Interval
  <2>. QED BY <1>0, <1>11, <2>1 DEF HeartbeatAnswered
<1>12. CASE UNCHANGED agentVars
  <2>. HIDE DEF AgentRows, Scripts, Beats
  <2>. QED BY <1>0, <1>12 DEF agentVars
<1>. QED BY <1>1, <1>2, <1>3, <1>4, <1>5, <1>6, <1>7, <1>8, <1>9, <1>10, <1>11, <1>12
         DEF AgentNext

LEMMA AgentFacts ==
  ASSUME AgentTypeOK
  PROVE  /\ script.wait \in 0 .. 4 /\ script.does \in {"sleeps", "waits"} /\ unheard \in 0 .. 3
         /\ agentRow.age # Never => agentRow.age \in 0 .. 13
         /\ beat # NoBeat => /\ beat.age \in 0 .. 13 /\ beat.age # Never /\ beat.token \in Tokens
                            /\ beat.at \in {"find", "write", "answer"}
         /\ agentRow.token \in Tokens \cup {Random}
BY EnrollmentAssumption DEF AgentTypeOK, Ages, StaleAfter, Interval

LEMMA AgentKept ==
  ASSUME AgentInv, [AgentNext]_agentVars
  PROVE  RowIsTrue' /\ BeatIsRecent' /\ RowIsRecent'
<1>. USE EnrollmentAssumption, AgentFacts
     DEF AgentInv, RowIsTrue, BeatIsRecent, RowIsRecent, Bound, Timeout
<1>1. CASE EnrollHost
  <2>1. drawn + 1 \in Tokens BY <1>1 DEF EnrollHost, Tokens, AgentTypeOK
  <2>2. agentRow' = [token |-> drawn + 1, revoked |-> FALSE, age |-> Never]
    BY <1>1 DEF EnrollHost, Enrollment
  <2>3. drawn + 1 # Random BY <2>1
  <2>. QED BY <1>1, <2>1, <2>2, <2>3 DEF EnrollHost
<1>2. CASE InstallToken
  <2>1. script'.does = script.does /\ script'.wait = script.wait
    BY <1>2 DEF InstallToken, AgentTypeOK
  <2>. QED BY <1>2, <2>1 DEF InstallToken
<1>3. CASE FindToRevoke BY <1>3 DEF FindToRevoke
<1>4. CASE WriteRevoked
  <2>1. agentRow'.token = Random /\ agentRow'.revoked /\ agentRow'.age = agentRow.age
    BY <1>4 DEF WriteRevoked, AgentTypeOK
  <2>. QED BY <1>4, <2>1 DEF WriteRevoked
<1>5. CASE Report
  <2>1. script'.does = "waits" /\ script'.wait = 1 /\ script.does = "sleeps" /\ script.wait = 0
    BY <1>5 DEF Report, AgentTypeOK
  <2>2. beat'.at = "find" /\ UNCHANGED <<agentRow, drawn, revoking, beatBy, crossed, unheard>>
    BY <1>5 DEF Report
  <2>. QED BY <2>1, <2>2
<1>6. CASE ReportFails
  <2>1. script'.does = "sleeps" /\ script'.wait = 4 /\ script.does = "waits"
    BY <1>6 DEF ReportFails, Sleeps, AgentTypeOK, Interval
  <2>2. /\ unheard' = unheard + 1 /\ beat' \in {beat, NoBeat}
        /\ UNCHANGED <<agentRow, drawn, revoking, beatBy, crossed>>
    BY <1>6 DEF ReportFails
  <2>. QED BY <2>1, <2>2
<1>7. CASE Restart
  <2>1. script'.does = "sleeps" /\ script'.wait = 0
    BY <1>7 DEF Restart, AgentTypeOK
  <2>2. /\ unheard' = IF script.does = "waits" THEN unheard + 1 ELSE unheard
        /\ UNCHANGED <<agentRow, drawn, beat, revoking, beatBy, crossed>>
    BY <1>7 DEF Restart
  <2>. QED BY <2>1, <2>2
<1>8. CASE QuarterPasses
  <2>1. script'.does = script.does /\ script'.wait = script.wait - 1
    BY <1>8 DEF QuarterPasses, AgentTypeOK
  <2>2. /\ agentRow'.token = agentRow.token /\ agentRow'.revoked = agentRow.revoked
        /\ agentRow.age = Never => agentRow'.age = Never
        /\ agentRow.age # Never => agentRow'.age = Older(agentRow.age)
    BY <1>8 DEF QuarterPasses, AgentTypeOK
  <2>3. /\ beat' # NoBeat => beat # NoBeat /\ beat'.age = Older(beat.age) /\ beat'.at = beat.at
        /\ UNCHANGED <<beatBy, crossed, unheard>>
    BY <1>8 DEF QuarterPasses, AgentTypeOK
  <2>4. \A a \in 0 .. 13 : Older(a) \in 0 .. 13 /\ Older(a) <= a + 1
    BY DEF Older, StaleAfter
  <2>5. \A a \in 0 .. 13 : Older(a) # Never BY <2>4 DEF Ages, StaleAfter
  <2>. HIDE DEF Older
  <2>6. RowIsTrue' BY <2>2, <2>3, <2>5
  <2>7. RowIsRecent' BY <2>1, <2>2, <2>3, <2>4, <2>5
  <2>8. BeatIsRecent' BY <2>1, <2>2, <2>3, <2>4, <2>5
  <2>. QED BY <2>6, <2>7, <2>8
<1>9. CASE FindAgent
  <2>1. /\ beat' # NoBeat => beat # NoBeat /\ beat'.age = 0 /\ beat'.at = "write"
        /\ UNCHANGED <<agentRow, drawn, script, revoking, beatBy, crossed, unheard>>
    BY <1>9 DEF FindAgent, AgentTypeOK
  <2>. QED BY <2>1
<1>10. CASE WriteHeartbeat
  <2>0. beat \in [token : Tokens, at : {"find", "write", "answer"}, age : Ages]
    BY <1>10 DEF WriteHeartbeat, AgentTypeOK
  <2>1. /\ agentRow'.token = agentRow.token /\ agentRow'.revoked = agentRow.revoked
        /\ agentRow'.age = beat.age /\ beatBy' = beat.token
        /\ crossed' = (agentRow.token \notin {beat.token, Random})
        /\ UNCHANGED <<drawn, script, revoking, unheard>>
    BY <1>10 DEF WriteHeartbeat, AgentTypeOK
  <2>2. /\ beat # NoBeat /\ beat.at = "write" /\ beat'.age = beat.age /\ beat'.at = "answer"
    BY <1>10, <2>0 DEF WriteHeartbeat
  <2>3. RowIsTrue' BY <2>1, <2>2
  <2>4. BeatIsRecent' BY <2>1, <2>2
  <2>5. RowIsRecent' BY <2>1, <2>2
  <2>. QED BY <2>3, <2>4, <2>5
<1>11. CASE HeartbeatAnswered
  <2>1. /\ beat # NoBeat /\ beat.at = "answer" /\ beat' = NoBeat
        /\ UNCHANGED <<agentRow, drawn, revoking, beatBy, crossed>>
    BY <1>11 DEF HeartbeatAnswered
  <2>2. CASE script.does = "waits"
    <3>1. script' = [script EXCEPT !.does = "sleeps", !.wait = 4] /\ unheard' = 0
      BY <1>11, <2>2 DEF HeartbeatAnswered, Sleeps, Interval
    <3>2. script'.does = "sleeps" /\ script'.wait = 4
      BY <3>1 DEF AgentTypeOK
    <3>. QED BY <2>1, <2>2, <3>1, <3>2
  <2>3. CASE script.does # "waits" BY <1>11, <2>1, <2>3 DEF HeartbeatAnswered
  <2>. QED BY <2>2, <2>3
<1>12. CASE UNCHANGED agentVars BY <1>12 DEF agentVars
<1>. QED BY <1>1, <1>2, <1>3, <1>4, <1>5, <1>6, <1>7, <1>8, <1>9, <1>10, <1>11, <1>12
         DEF AgentNext

\* What the list of agents says of a host is true: it is ONLINE by the token
\* of its enrollment, STALE only after two heartbeats in a row that came to
\* nothing, and REVOKED only while no token opens it.
THEOREM AgentsAreTold == AgentInit /\ [][AgentNext]_agentVars => []AgentTypeOK /\ []StateIsTrue
<1>1. AgentInit => AgentInv
  <2>. SUFFICES ASSUME AgentInit PROVE AgentInv OBVIOUS
  <2>1. 1 \in Tokens /\ 1 # Random BY EnrollmentAssumption DEF Tokens
  <2>2. /\ agentRow \in [token : Tokens \cup {Random}, revoked : BOOLEAN, age : Ages \cup {Never}]
        /\ script \in [token : Tokens, does : {"sleeps", "waits"}, wait : 0 .. Interval]
    BY <2>1 DEF AgentInit, Interval
  <2>3. /\ beat \in {NoBeat} \cup [token : Tokens, at : {"find", "write", "answer"}, age : Ages]
        /\ beatBy \in Tokens \cup {Never}
    BY DEF AgentInit
  <2>4. AgentTypeOK
    <3>1. drawn \in Tokens /\ unheard \in 0 .. 3 BY <2>1 DEF AgentInit
    <3>2. revoking \in BOOLEAN /\ crossed \in BOOLEAN BY DEF AgentInit
    <3>. QED BY <2>2, <2>3, <3>1, <3>2 DEF AgentTypeOK
  <2>. QED BY <2>1, <2>4 DEF AgentInit, AgentInv, RowIsTrue, BeatIsRecent, RowIsRecent
<1>2. AgentInv => AgentTypeOK BY DEF AgentInv
<1>3. AgentInv /\ [AgentNext]_agentVars => AgentInv'
  BY AgentTypeKept, AgentKept DEF AgentInv, RowIsRecent
<1>. QED BY <1>1, <1>2, <1>3, AgentInvImplies, PTL

-----------------------------------------------------------------------------
(* The translator of the document (Translator) *)

(* What a node was first seen to say is what the page says in it, but for  *)
(* those rewritten in place; what has not been seen yet waits to be, and   *)
(* what does not wait reads in the language of the observer.               *)
DocumentInv ==
  /\ said \in [TextNodes -> Text \cup {NoText}]
  /\ written \in [TextNodes -> Text \cup {NoText}]
  /\ firstSeen \in [TextNodes -> Text \cup {NoText}]
  /\ records \subseteq TextNodes /\ retold \subseteq TextNodes
  /\ \A n \in TextNodes :
       /\ said[n] = NoText <=> written[n] = NoText
       /\ firstSeen[n] # NoText => said[n] # NoText
       /\ n \in records => said[n] # NoText
       /\ n \notin retold /\ firstSeen[n] # NoText => firstSeen[n] = said[n]
       /\ firstSeen[n] = NoText => written[n] = said[n]
       /\ said[n] # NoText /\ n \notin records => firstSeen[n] # NoText
       /\ firstSeen[n] # NoText /\ n \notin records => written[n] = Translated(observing, firstSeen[n])

(* The language is the organisation's, or will be once it is read.         *)
LanguageInv ==
  /\ {locale, rendered, observing, organisation} \subseteq Locales
  /\ storedLocale \in Locales \cup {NoText} /\ settingsRead \in Locales \cup {NoSettings}
  /\ signedIn \in BOOLEAN /\ outdated \in BOOLEAN
  /\ signedIn /\ ~outdated =>
       IF settingsRead = NoSettings THEN locale = organisation /\ storedLocale = locale
       ELSE settingsRead = organisation

LEMMA TranslatedIsText ==
  ASSUME NEW l \in Locales, NEW text \in Text
  PROVE  Translated(l, text) \in Text
BY DEF Translated, Text, Locales

(* A step that leaves the language alone, or the document.                 *)
LEMMA LanguageStep ==
  ASSUME LanguageInv, [TranslatorNext]_translatorVars
  PROVE  LanguageInv'
<1>. USE TextAssumption DEF LanguageInv
<1>1. CASE Render BY <1>1 DEF Render
<1>2. CASE Reobserve BY <1>2 DEF Reobserve
<1>3. CASE ObserverRuns BY <1>3 DEF ObserverRuns
<1>4. CASE Restore BY <1>4 DEF Restore
<1>5. CASE SignInReads BY <1>5 DEF SignInReads
<1>6. CASE SettingsArrive BY <1>6 DEF SettingsArrive, SetLocale
<1>7. CASE SettingsLost BY <1>7 DEF SettingsLost
<1>8. CASE SignOut BY <1>8 DEF SignOut
<1>9. ASSUME NEW l \in Locales, SaveLanguage(l) PROVE LanguageInv'
  BY <1>9 DEF SaveLanguage, SetLocale
<1>10. ASSUME NEW n \in TextNodes, NEW w \in Words, Mount(n, w) \/ Retell(n, w)
       PROVE LanguageInv'
  BY <1>10 DEF Mount, Retell
<1>11. CASE UNCHANGED translatorVars BY <1>11 DEF translatorVars
<1>12. ASSUME NEW n \in TextNodes, Unmount(n) PROVE LanguageInv'
  BY <1>12 DEF Unmount
<1>. QED BY <1>1, <1>2, <1>3, <1>4, <1>5, <1>6, <1>7, <1>8, <1>9, <1>10, <1>11, <1>12
         DEF TranslatorNext

LEMMA RewritesKeep ==
  ASSUME DocumentInv, NEW new \in [TextNodes -> Text \cup {NoText}], Rewrites(new),
         \A n \in TextNodes : new[n] = NoText <=> said[n] = NoText, observing' = observing
  PROVE  DocumentInv'
BY DEF DocumentInv, Rewrites

LEMMA TranslatesKeeps ==
  ASSUME DocumentInv, NEW l \in Locales, NEW N \in SUBSET TextNodes, Translates(l, N),
         \A n \in N : said[n] # NoText,
         UNCHANGED <<said, retold>>, observing' = l,
         records' \subseteq records,
         \/ N = records /\ observing = l
         \/ N = {n \in TextNodes : Mounted(n)},
         \A n \in records \ records' : written'[n] = Translated(l, Source(n))
  PROVE  DocumentInv'
<1>. USE TextAssumption DEF DocumentInv
<1>1. \A n \in N : /\ Source(n) \in Text /\ firstSeen'[n] = Source(n)
                  /\ written'[n] = Translated(l, Source(n)) /\ written'[n] \in Text
  BY TranslatedIsText DEF Translates, Source
<1>2. \A n \in TextNodes \ N : firstSeen'[n] = firstSeen[n] /\ written'[n] = written[n]
  BY DEF Translates
<1>3. /\ firstSeen' \in [TextNodes -> Text \cup {NoText}]
      /\ written' \in [TextNodes -> Text \cup {NoText}]
  BY <1>1, <1>2 DEF Translates
<1>4. ASSUME NEW n \in TextNodes
      PROVE  /\ said'[n] = NoText <=> written'[n] = NoText
             /\ firstSeen'[n] # NoText => said'[n] # NoText
             /\ n \in records' => said'[n] # NoText
             /\ n \notin retold' /\ firstSeen'[n] # NoText => firstSeen'[n] = said'[n]
             /\ firstSeen'[n] = NoText => written'[n] = said'[n]
             /\ said'[n] # NoText /\ n \notin records' => firstSeen'[n] # NoText
             /\ firstSeen'[n] # NoText /\ n \notin records' =>
                  written'[n] = Translated(observing', firstSeen'[n])
  <2>1. CASE n \in N BY <1>1, <2>1 DEF Source
  <2>2. CASE n \notin N
    <3>1. n \notin records BY <2>2 DEF Mounted
    <3>2. firstSeen'[n] # NoText => observing = l BY <1>2, <2>2 DEF Mounted
    <3>. QED BY <1>2, <2>2, <3>1, <3>2
  <2>. QED BY <2>1, <2>2
<1>. QED BY <1>3, <1>4

LEMMA DocumentStep ==
  ASSUME DocumentInv, LanguageInv, [TranslatorNext]_translatorVars
  PROVE  DocumentInv'
<1>. USE TextAssumption DEF DocumentInv, LanguageInv
<1>1. CASE Render
  <2>. DEFINE new == [n \in TextNodes |-> IF n \in Keyed /\ Mounted(n)
                        THEN [said[n] EXCEPT !.in = locale] ELSE said[n]]
  <2>1. new \in [TextNodes -> Text \cup {NoText}] BY DEF Text, Mounted
  <2>2. \A n \in TextNodes : new[n] = NoText <=> said[n] = NoText
    <3>1. \A t \in Text : [t EXCEPT !.in = locale] \in Text BY DEF Text
    <3>. QED BY <3>1 DEF Mounted
  <2>3. Rewrites(new) /\ observing' = observing BY <1>1 DEF Render
  <2>. HIDE DEF new
  <2>. QED BY <2>1, <2>2, <2>3, RewritesKeep
<1>2. CASE Reobserve
  <2>. DEFINE N == {n \in TextNodes : Mounted(n)}
  <2>1. /\ Translates(locale, N) /\ observing' = locale /\ records' = {}
        /\ UNCHANGED <<said, retold>>
    BY <1>2 DEF Reobserve
  <2>2. \A n \in records : written'[n] = Translated(locale, Source(n))
    BY <2>1 DEF Translates, Mounted
  <2>. QED BY <2>1, <2>2, TranslatesKeeps DEF Mounted
<1>3. CASE ObserverRuns
  <2>1. /\ Translates(observing, records) /\ observing' = observing /\ records' \subseteq records
        /\ UNCHANGED <<said, retold>>
    BY <1>3 DEF ObserverRuns
  <2>2. \A n \in records : written'[n] = Translated(observing, Source(n))
    BY <2>1 DEF Translates
  <2>. QED BY <2>1, <2>2, TranslatesKeeps
<1>4. CASE Restore \/ SignInReads \/ SettingsArrive \/ SettingsLost \/ SignOut
           \/ \E l \in Locales : SaveLanguage(l)
  <2>1. UNCHANGED documentVars /\ observing' = observing
    BY <1>4 DEF Restore, SignInReads, SettingsArrive, SettingsLost, SignOut, SaveLanguage
  <2>. QED BY <2>1 DEF documentVars
<1>5. ASSUME NEW n \in TextNodes, Unmount(n) PROVE DocumentInv'
  BY <1>5 DEF Unmount
<1>6. ASSUME NEW n \in TextNodes, NEW w \in Words, Mount(n, w) PROVE DocumentInv'
  <2>. DEFINE text == [word |-> w, in |-> IF n \in Keyed THEN locale ELSE "pt-PT"]
  <2>1. text \in Text /\ text # NoText BY DEF Text, Locales
  <2>2. /\ said' = [said EXCEPT ![n] = text] /\ written' = [written EXCEPT ![n] = text]
        /\ records' = records \cup {n} /\ UNCHANGED <<firstSeen, retold, observing>>
        /\ said[n] = NoText
    BY <1>6 DEF Mount, Mounted
  <2>. HIDE DEF text
  <2>. QED BY <2>1, <2>2
<1>7. ASSUME NEW n \in TextNodes, NEW w \in Words, Retell(n, w) PROVE DocumentInv'
  <2>1. /\ [said EXCEPT ![n].word = w] \in [TextNodes -> Text \cup {NoText}]
        /\ \A k \in TextNodes : [said EXCEPT ![n].word = w][k] = NoText <=> said[k] = NoText
    <3>1. said[n] \in Text BY <1>7 DEF Retell, Mounted
    <3>2. [said[n] EXCEPT !.word = w] \in Text BY <3>1 DEF Text
    <3>. QED BY <3>1, <3>2
  <2>2. Rewrites([said EXCEPT ![n].word = w]) /\ observing' = observing BY <1>7 DEF Retell
  <2>. QED BY <2>1, <2>2, RewritesKeep
<1>8. CASE UNCHANGED translatorVars BY <1>8 DEF translatorVars
<1>. QED BY <1>1, <1>2, <1>3, <1>4, <1>5, <1>6, <1>7, <1>8 DEF TranslatorNext

\* Whatever is switched, rewritten or read late, a page the observer has caught
\* up with is in one language, and the language is that of the organisation.
THEOREM OneLanguage ==
  TranslatorInit /\ [][TranslatorNext]_translatorVars
    => [](TranslatorTypeOK /\ PageIsInOneLanguage /\ LanguageIsKept)
<1>1. TranslatorInit => DocumentInv /\ LanguageInv
  BY TextAssumption DEF TranslatorInit, DocumentInv, LanguageInv, Locales
<1>2. DocumentInv /\ LanguageInv /\ [TranslatorNext]_translatorVars => (DocumentInv /\ LanguageInv)'
  BY DocumentStep, LanguageStep
<1>3. DocumentInv => PageIsInOneLanguage
  BY DEF DocumentInv, PageIsInOneLanguage, Mounted
<1>4. LanguageInv => LanguageIsKept BY DEF LanguageInv, LanguageIsKept
<1>5. DocumentInv /\ LanguageInv => TranslatorTypeOK
  BY DEF DocumentInv, LanguageInv, TranslatorTypeOK
<1>. QED BY <1>1, <1>2, <1>3, <1>4, <1>5, PTL

-----------------------------------------------------------------------------
(* Alerts and the summary of quality (OperationsViews) *)

(* What is selected to be marked and was raised again since is known to    *)
(* have been missed.                                                       *)
MarkingInv ==
  /\ ViewTypeOK
  /\ marking # NoMarking => \A a \in marking \cap anew : a \in missed

LEMMA MarkingKept ==
  ASSUME MarkingInv, RaisedIsUnread, [ViewNext]_viewVars
  PROVE  MarkingInv' /\ RaisedIsUnread'
<1>. USE DEF MarkingInv, RaisedIsUnread, ViewTypeOK
<1>1. ASSUME NEW a \in ViewAlerts, Raise(a) PROVE MarkingInv' /\ RaisedIsUnread'
  BY <1>1 DEF Raise
<1>2. ASSUME NEW a \in ViewAlerts, ClearMarks(a) PROVE MarkingInv' /\ RaisedIsUnread'
  BY <1>2 DEF ClearMarks
<1>3. ASSUME NEW a \in ViewAlerts, Goes(a) PROVE MarkingInv' /\ RaisedIsUnread'
  BY <1>3 DEF Goes
<1>4. ASSUME NEW a \in ViewAlerts, TurnAccess(a) PROVE MarkingInv' /\ RaisedIsUnread'
  BY <1>4 DEF TurnAccess
<1>5. CASE SelectUnread BY <1>5 DEF SelectUnread, Candidates
<1>6. CASE MarkRead BY <1>6 DEF MarkRead
<1>7. ASSUME NEW rule \in RuleChoices, TurnRule(rule) PROVE MarkingInv' /\ RaisedIsUnread'
  BY <1>7 DEF TurnRule
<1>8. ASSUME NEW s \in ViewSites \cup {Global}, TurnQuiet(s) PROVE MarkingInv' /\ RaisedIsUnread'
  BY <1>8 DEF TurnQuiet
<1>9. ASSUME NEW s \in ViewSites, TurnSite(s) PROVE MarkingInv' /\ RaisedIsUnread'
  BY <1>9 DEF TurnSite
<1>10. CASE UNCHANGED viewVars BY <1>10 DEF viewVars
<1>. QED BY <1>1, <1>2, <1>3, <1>4, <1>5, <1>6, <1>7, <1>8, <1>9, <1>10 DEF ViewNext

(* The first n of a set: all there are, or n of them, and none of those    *)
(* left out comes before one of those taken.                               *)
LEMMA FirstTakes ==
  ASSUME NEW S, IsFiniteSet(S), NEW n \in Nat, NEW rank, NEW F \in FirstOf(S, n, rank)
  PROVE  /\ F \subseteq S /\ IsFiniteSet(F) /\ Cardinality(F) \in Nat /\ Cardinality(F) <= n
         /\ F # S => Cardinality(F) = n
         /\ Cardinality(S) \in Nat
         /\ Cardinality(F) = (IF Cardinality(S) < n THEN Cardinality(S) ELSE n)
         /\ \A a \in F, b \in S \ F : rank[a] <= rank[b]
<1>1. /\ F \in SUBSET S
      /\ Cardinality(F) = (IF Cardinality(S) < n THEN Cardinality(S) ELSE n)
      /\ \A a \in F, b \in S \ F : rank[a] <= rank[b]
  BY DEF FirstOf
<1>2. IsFiniteSet(F) /\ (Cardinality(S) = Cardinality(F) => S = F) BY <1>1, FS_Subset
<1>3. Cardinality(F) \in Nat /\ Cardinality(S) \in Nat BY <1>2, FS_CardinalityType
<1>. QED BY <1>1, <1>2, <1>3

LEMMA BellIsGravest == ViewTypeOK => BellShowsGravest
<1>. SUFFICES ASSUME ViewTypeOK, NEW first \in FirstOf(ListedAlerts, BellSize, ListRank),
                     NEW bell \in FirstOf(first \cup Notices, BellSize, BellRank)
              PROVE  /\ \A a \in bell, b \in ListedAlerts \ bell :
                          (IF a \in Notices THEN 3 ELSE ListRank[a]) <= ListRank[b]
                     /\ \A b \in Candidates \ bell : SeverityOf[b] = "CRITICAL" =>
                          /\ Cardinality(bell) = BellSize /\ bell \cap Notices = {}
                          /\ \A a \in bell : SeverityOf[a] = "CRITICAL"
  BY DEF BellShowsGravest, Bells
<1>1. Candidates \subseteq ViewAlerts /\ ListedAlerts \subseteq Candidates
  BY DEF ViewTypeOK, Candidates, ListedAlerts
<1>2. IsFiniteSet(ListedAlerts) BY <1>1, AlertAssumption, FS_Subset
<1>3. /\ first \subseteq ListedAlerts /\ IsFiniteSet(first) /\ Cardinality(first) \in Nat
      /\ Cardinality(first) <= BellSize
      /\ first # ListedAlerts => Cardinality(first) = BellSize
      /\ \A a \in first, b \in ListedAlerts \ first : ListRank[a] <= ListRank[b]
  BY <1>2, AlertAssumption, FirstTakes
<1>4. IsFiniteSet(first \cup Notices) BY <1>3, AlertAssumption, FS_Union
<1>5. /\ bell \subseteq first \cup Notices /\ IsFiniteSet(bell)
      /\ bell # first \cup Notices => Cardinality(bell) = BellSize
      /\ Cardinality(bell) \in Nat
      /\ \A a \in bell, b \in (first \cup Notices) \ bell : BellRank[a] <= BellRank[b]
  BY <1>4, AlertAssumption, FirstTakes
<1>6. ASSUME NEW a \in ViewAlerts
      PROVE  /\ ListRank[a] \in 0 .. 3 /\ a \notin Notices
             /\ (ListRank[a] = 0) <=> (SeverityOf[a] = "CRITICAL")
             /\ 3 <= BellRank[a] => ListRank[a] = 3
  <2>1. SeverityOf[a] \in Severities /\ a \notin Notices /\ DOMAIN SeverityOf = ViewAlerts
    BY AlertAssumption
  <2>2. ListRank[a] = SeverityRank[SeverityOf[a]] BY <2>1 DEF ListRank
  <2>3. BellRank[a] = (IF SeverityOf[a] = "HIGH" THEN 0 ELSE ListRank[a]) BY <2>1 DEF BellRank
  <2>. QED BY <2>1, <2>2, <2>3 DEF Severities, SeverityRank
<1>7. \A a \in Notices : BellRank[a] = 3 BY DEF BellRank
\* A notice in the bell, and an alert of the first that is not: then that alert is INFO.
<1>8. ASSUME NEW c \in first \ bell
      PROVE  ListRank[c] = 3 \/ (bell \cap Notices = {} /\ Cardinality(bell) = BellSize)
  <2>1. CASE bell \cap Notices = {}
    <3>1. bell # first \cup Notices BY <1>8
    <3>. QED BY <2>1, <3>1, <1>5
  <2>2. CASE bell \cap Notices # {}
    <3>1. PICK k \in bell \cap Notices : TRUE BY <2>2
    <3>2. 3 <= BellRank[c] BY <3>1, <1>5, <1>7, <1>8
    <3>3. c \in ViewAlerts BY <1>1, <1>3, <1>8
    <3>. QED BY <3>2, <3>3, <1>6
  <2>. QED BY <2>1, <2>2
\* A bell without notices is all of the first.
<1>9. bell \cap Notices = {} => bell = first
  <2>. SUFFICES ASSUME bell \cap Notices = {} PROVE bell = first OBVIOUS
  <2>1. bell \in SUBSET first BY <1>5
  <2>2. CASE bell = first \cup Notices BY <2>1, <2>2
  <2>3. CASE bell # first \cup Notices
    <3>1. Cardinality(bell) <= Cardinality(first)
      /\ (Cardinality(first) = Cardinality(bell) => first = bell)
      BY <2>1, <1>3, FS_Subset
    <3>2. Cardinality(bell) = BellSize BY <2>3, <1>5
    <3>. QED BY <3>1, <3>2, <1>3, AlertAssumption
  <2>. QED BY <2>2, <2>3
<1>10. ASSUME NEW a \in bell, NEW b \in ListedAlerts \ bell
       PROVE  (IF a \in Notices THEN 3 ELSE ListRank[a]) <= ListRank[b]
  <2>1. b \in ViewAlerts BY <1>1
  <2>2. CASE a \notin Notices
    <3>1. a \in first /\ a \in ViewAlerts BY <2>2, <1>5, <1>3, <1>1
    <3>2. CASE b \notin first BY <3>1, <3>2, <1>3, <2>2
    <3>3. CASE b \in first
      <4>1. bell # first BY <3>3
      <4>2. ListRank[b] = 3 BY <3>3, <4>1, <1>8, <1>9
      <4>. QED BY <4>2, <2>2, <3>1, <1>6
    <3>. QED BY <3>2, <3>3
  <2>3. CASE a \in Notices
    <3>1. bell \cap Notices # {} BY <2>3
    <3>2. CASE b \in first
      <4>1. ListRank[b] = 3 BY <3>1, <3>2, <1>8
      <4>. QED BY <4>1, <2>3
    <3>3. CASE b \notin first
      <4>1. Cardinality(first) = BellSize BY <3>3, <1>3
      <4>2. PICK c \in first \ bell : TRUE
        <5>1. CASE first \subseteq bell
          <6>1. Cardinality(bell) <= BellSize BY <1>4, AlertAssumption, FirstTakes
          <6>2. first \in SUBSET bell BY <5>1
          <6>3. Cardinality(first) <= Cardinality(bell)
                /\ (Cardinality(bell) = Cardinality(first) => bell = first)
            BY <6>2, <1>5, FS_Subset
          <6>4. bell = first BY <6>1, <6>3, <4>1, <1>5, AlertAssumption
          <6>5. first \cap Notices = {} BY <1>1, <1>3, AlertAssumption
          <6>. QED BY <6>4, <6>5, <3>1
        <5>. QED BY <5>1
      <4>3. ListRank[c] = 3 BY <4>2, <3>1, <1>8
      <4>4. ListRank[c] <= ListRank[b] BY <4>2, <3>3, <1>3
      <4>. QED BY <4>3, <4>4, <2>3
    <3>. QED BY <3>2, <3>3
  <2>. QED BY <2>2, <2>3
<1>11. ASSUME NEW b \in Candidates \ bell, SeverityOf[b] = "CRITICAL"
       PROVE  /\ Cardinality(bell) = BellSize /\ bell \cap Notices = {}
              /\ \A a \in bell : SeverityOf[a] = "CRITICAL"
  <2>1. b \in ListedAlerts /\ b \in ViewAlerts BY <1>11, <1>1 DEF ListedAlerts, PassesPolicies
  <2>2. ListRank[b] = 0 BY <2>1, <1>6, <1>11
  <2>3. \A a \in bell : a \notin Notices /\ ListRank[a] <= 0 BY <2>1, <2>2, <1>10
  <2>4. bell \cap Notices = {} /\ bell = first BY <2>3, <1>9
  <2>5. \A a \in bell : SeverityOf[a] = "CRITICAL" BY <2>3, <2>4, <1>1, <1>3, <1>6
  <2>6. Cardinality(bell) = BellSize BY <2>1, <2>4, <1>3, <1>11
  <2>. QED BY <2>4, <2>5, <2>6
<1>. QED BY <1>10, <1>11

\* An alert that was raised again is unread again, but for a readAll that had
\* selected it before; and the bell leaves out no alert graver than one it
\* shows, whatever the rules and the maintenance windows hide.
THEOREM AlertsAreShown ==
  ViewInit /\ [][ViewNext]_viewVars => [](ViewTypeOK /\ RaisedIsUnread /\ BellShowsGravest)
<1>1. ViewInit => MarkingInv /\ RaisedIsUnread
  BY DEF ViewInit, MarkingInv, RaisedIsUnread, ViewTypeOK
<1>2. MarkingInv /\ RaisedIsUnread => ViewTypeOK /\ RaisedIsUnread /\ BellShowsGravest
  BY BellIsGravest DEF MarkingInv
<1>. QED BY <1>1, <1>2, MarkingKept, PTL
-----------------------------------------------------------------------------
(* What the summary has read of a site where nothing was stirred since.    *)
ReadSoFar(g) ==
  CASE g.at = "read" ->
         /\ g.found \in {NoSummary, unresolved} /\ g.devices \in {NoSummary, onSite}
    [] g.at = "filter" ->
         /\ g.devices = onSite /\ g.left \subseteq unresolved
         /\ g.visible = {f \in unresolved \ g.left : CanSeeFinding(f)}
    [] g.at = "owners" ->
         /\ g.devices = onSite \cap readable
         /\ g.visible = {f \in unresolved : CanSeeFinding(f)}
SummaryInv ==
  /\ onSite \subseteq SeenDevices /\ SummaryAddsUp
  /\ gathering # NoSummary =>
       /\ gathering = [at |-> gathering.at, found |-> gathering.found, devices |-> gathering.devices,
                       left |-> gathering.left, visible |-> gathering.visible]
       /\ gathering.at \in {"read", "filter", "owners"}
       /\ gathering.at = "read" => gathering.visible = {}
       /\ gathering.devices = NoSummary \/ gathering.devices \subseteq SeenDevices
       /\ gathering.at # "read" => gathering.devices \subseteq SeenDevices
       /\ ~stirred => ReadSoFar(gathering)

LEMMA ScoreIsPercentage ==
  ASSUME NEW all \in Nat, NEW valid \in Nat, all # 0, valid <= all
  PROVE  (200 * valid + all) \div (2 * all) \in 0 .. 100
<1>. DEFINE X == 200 * valid + all
            Y == 2 * all
            q == X \div Y
<1>1. X \in Nat /\ Y \in Nat /\ Y > 0 OBVIOUS
<1>2. q \in Nat /\ Y * q <= X
  <2>. HIDE DEF X, Y
  <2>. QED BY <1>1
<1>3. X <= 201 * all OBVIOUS
<1>4. q <= 100
  <2>. SUFFICES ASSUME q >= 101 PROVE FALSE BY <1>2
  <2>. HIDE DEF q
  <2>1. Y * q >= Y * 101 BY <1>1, <1>2
  <2>. QED BY <2>1, <1>2, <1>3
<1>. QED BY <1>2, <1>4

LEMMA SummariseAddsUp ==
  ASSUME SummaryInv, Summarise
  PROVE  SummaryAddsUp'
<1>. DEFINE g == gathering
            bad == Affected(g.visible, g.devices)
            all == Cardinality(g.devices)
            invalid == Cardinality(bad)
            valid == IF invalid > all THEN 0 ELSE all - invalid
<1>1. /\ g # NoSummary /\ g.at = "owners" /\ g.devices \subseteq SeenDevices
      /\ ~stirred => ReadSoFar(g)
  BY DEF SummaryInv, Summarise, Gathering
<1>2. bad \in SUBSET g.devices BY DEF Affected
<1>3. IsFiniteSet(g.devices) BY <1>1, SeenAssumption, FS_Subset
<1>4. /\ IsFiniteSet(bad) /\ invalid \in Nat /\ all \in Nat /\ invalid <= all
  BY <1>2, <1>3, FS_Subset, FS_CardinalityType
<1>5. /\ quality' = [total |-> all, invalid |-> invalid, valid |-> valid,
                    score |-> IF all = 0 THEN 100 ELSE (200 * valid + all) \div (2 * all)]
      /\ UNCHANGED <<onSite, unresolved, readable, addressesRead, stirred>>
  BY DEF Summarise
<1>6. valid = all - invalid /\ valid \in Nat /\ valid <= all BY <1>4
<1>7. quality'.invalid + quality'.valid = quality'.total
  <2>. HIDE DEF valid, all, invalid
  <2>. QED BY <1>4, <1>5, <1>6
<1>8. quality'.score \in 0 .. 100
  <2>. HIDE DEF valid, all, invalid
  <2>. QED BY <1>4, <1>5, <1>6, ScoreIsPercentage
<1>9. ASSUME ~stirred
      PROVE  valid = Cardinality({d \in onSite \cap readable :
               \A f \in unresolved : CanSeeFinding(f) => d \notin DevicesBehind[f]})
  <2>1. g.devices = onSite \cap readable /\ g.visible = {f \in unresolved : CanSeeFinding(f)}
    BY <1>1, <1>9 DEF ReadSoFar
  <2>2. g.devices \ bad = {d \in onSite \cap readable :
          \A f \in unresolved : CanSeeFinding(f) => d \notin DevicesBehind[f]}
    BY <2>1 DEF Affected, Behind
  <2>3. bad \cap (g.devices \ bad) = {} /\ bad \cup (g.devices \ bad) = g.devices BY <1>2
  <2>4. IsFiniteSet(g.devices \ bad) /\ Cardinality(g.devices \ bad) \in Nat
    BY <1>3, FS_Subset, FS_CardinalityType
  <2>. HIDE DEF bad
  <2>5. Cardinality(bad \cup (g.devices \ bad))
          = Cardinality(bad) + Cardinality(g.devices \ bad) - Cardinality(bad \cap (g.devices \ bad))
    BY <1>4, <2>4, FS_Union
  <2>6. Cardinality(bad \cap (g.devices \ bad)) = 0 BY <2>3, FS_EmptySet
  <2>. DEFINE rest == Cardinality(g.devices \ bad)
  <2>7. all = invalid + rest
    <3>1. Cardinality(bad \cup (g.devices \ bad)) = all BY <2>3
    <3>2. all = invalid + rest - 0 BY <2>5, <2>6, <3>1
    <3>3. invalid \in Nat /\ rest \in Nat /\ all \in Nat BY <1>4, <2>4
    <3>. HIDE DEF all, invalid, rest
    <3>. QED BY <3>2, <3>3
  <2>8. valid = rest
    <3>1. invalid \in Nat /\ rest \in Nat /\ all \in Nat BY <1>4, <2>4
    <3>2. valid = all - invalid BY <1>6
    <3>. HIDE DEF all, invalid, rest, valid
    <3>. QED BY <2>7, <3>1, <3>2
  <2>. QED BY <2>2, <2>8
<1>10. ~stirred' => quality'.valid = Cardinality({d \in onSite' \cap readable' :
         \A f \in unresolved' : CanSeeFinding(f)' => d \notin DevicesBehind[f]})
  <2>. HIDE DEF valid, all, invalid
  <2>1. \A f : CanSeeFinding(f)' = CanSeeFinding(f) BY <1>5 DEF CanSeeFinding, Behind
  <2>. QED BY <1>5, <1>9, <2>1
<1>. HIDE DEF valid, all, invalid
<1>. QED BY <1>7, <1>8, <1>10 DEF SummaryAddsUp

LEMMA SummaryKept ==
  ASSUME SummaryInv, [QualityViewNext]_qualityViewVars
  PROVE  SummaryInv'
<1>1. CASE AskSummary
  BY <1>1 DEF AskSummary, SummaryInv, SummaryAddsUp, ReadSoFar
<1>2. CASE ReadFindings
  BY <1>2 DEF ReadFindings, Gathers, Gathering, SummaryInv, SummaryAddsUp, ReadSoFar, CanSeeFinding, Behind
<1>3. CASE ReadDevices
  BY <1>3 DEF ReadDevices, Gathers, Gathering, SummaryInv, SummaryAddsUp, ReadSoFar, CanSeeFinding, Behind
<1>4. CASE BothRead
  BY <1>4 DEF BothRead, Gathers, Gathering, SummaryInv, SummaryAddsUp, ReadSoFar, CanSeeFinding, Behind
<1>5. CASE AskOfDevices
  BY <1>5 DEF AskOfDevices, Gathers, Gathering, SummaryInv, SummaryAddsUp, ReadSoFar, CanSeeFinding, Behind
<1>6. ASSUME NEW f \in SeenFindings, AskOfFinding(f) PROVE SummaryInv'
  <2>. DEFINE g == gathering
              seen == IF CanSeeFinding(f) THEN g.visible \cup {f} ELSE g.visible
  <2>1. /\ g # NoSummary /\ g.at = "filter" /\ f \in g.left
        /\ gathering' = [at |-> "filter", found |-> g.found, devices |-> g.devices,
                         left |-> g.left \ {f}, visible |-> seen]
        /\ UNCHANGED <<onSite, unresolved, readable, addressesRead, quality, stirred>>
    BY <1>6 DEF AskOfFinding, Gathers, Gathering, SummaryInv
  <2>2. /\ g.devices \subseteq SeenDevices
        /\ ~stirred => /\ g.devices = onSite /\ g.left \subseteq unresolved
                       /\ g.visible = {e \in unresolved \ g.left : CanSeeFinding(e)}
    BY <2>1 DEF SummaryInv, ReadSoFar
  <2>3. \A e : CanSeeFinding(e)' = CanSeeFinding(e) BY <2>1 DEF CanSeeFinding, Behind
  <2>4. ~stirred => seen = {e \in unresolved \ (g.left \ {f}) : CanSeeFinding(e)}
    BY <2>1, <2>2
  <2>5. SummaryAddsUp' BY <2>1, <2>3 DEF SummaryInv, SummaryAddsUp
  <2>. HIDE DEF seen
  <2>6. ~stirred' => ReadSoFar(gathering)'
    BY <2>1, <2>2, <2>3, <2>4 DEF ReadSoFar
  <2>. QED BY <2>1, <2>2, <2>5, <2>6 DEF SummaryInv
<1>7. CASE Summarise BY <1>7, SummariseAddsUp DEF Summarise, SummaryInv
<1>8. ASSUME onSite' \subseteq SeenDevices, Stirs PROVE SummaryInv'
  BY <1>8 DEF Stirs, SummaryInv, SummaryAddsUp
<1>9. ASSUME NEW d \in SeenDevices, MoveDevice(d) \/ TurnReadable(d) PROVE SummaryInv'
  BY <1>8, <1>9 DEF MoveDevice, TurnReadable, SummaryInv
<1>10. ASSUME NEW f \in SeenFindings, TurnFinding(f) PROVE SummaryInv'
  BY <1>8, <1>10 DEF TurnFinding, SummaryInv
<1>11. CASE TurnAddresses BY <1>8, <1>11 DEF TurnAddresses, SummaryInv
<1>12. CASE UNCHANGED qualityViewVars
  BY <1>12 DEF qualityViewVars, SummaryInv, SummaryAddsUp, ReadSoFar, CanSeeFinding, Behind
<1>. QED BY <1>1, <1>2, <1>3, <1>4, <1>5, <1>6, <1>7, <1>9, <1>10, <1>11, <1>12 DEF QualityViewNext

\* The cards of a quality summary add up, its score is a percentage, and when
\* nothing changed while it was made, what it counts as valid is what the user
\* may read and no finding the user may read is about.
THEOREM SummariesAddUp ==
  QualityViewInit /\ [][QualityViewNext]_qualityViewVars => []SummaryAddsUp
<1>1. QualityViewInit => SummaryInv
  BY DEF QualityViewInit, SummaryInv, SummaryAddsUp
<1>2. SummaryInv => SummaryAddsUp BY DEF SummaryInv
<1>. QED BY <1>1, <1>2, SummaryKept, PTL

-----------------------------------------------------------------------------
(* The search palette (GlobalSearch) *)

Live == {s \in searches : ~s.aborted}
Lookups == [key : 1 .. MaxKeys, of : Queries, at : {"token", "sent", "refused"}, aborted : BOOLEAN]

(* One request at most has not been given up, and it is for the query that *)
(* is typed.  Without one, and after the pause, it has ended: nothing is   *)
(* searched for, and what is shown is its result, or its failure.          *)
LiveIsTyped ==
  /\ \A s \in Live : s.of = query /\ palette /\ query # Short
  /\ \A s, t \in Live : s = t
  /\ timer => Live = {} /\ palette /\ query # Short /\ keys >= 1
  /\ query # Short => keys >= 1
EndIsShown ==
  /\ searching /\ ~timer => Live # {}
  /\ Live # {} /\ ~blamed => ~failed
  /\ query # Short /\ ~timer /\ ~blamed /\ Live = {}
       => IF failed THEN failedOf = query ELSE items.of = query
  /\ query = Short => items.hits = 0 /\ ~searching
  /\ items.hits > 0 => active \in 0 .. items.hits - 1
Hits == [of : Queries \cup {Short}, hits : 0 .. MaxHits]
SearchShape ==
  /\ palette \in BOOLEAN /\ timer \in BOOLEAN /\ searching \in BOOLEAN /\ failed \in BOOLEAN
  /\ blamed \in BOOLEAN
  /\ query \in Queries \cup {Short} /\ failedOf \in Queries \cup {Short}
  /\ searches \subseteq Lookups /\ items \in Hits
  /\ active \in -1 .. MaxHits /\ keys \in 0 .. MaxKeys
SearchInv == SearchShape /\ LiveIsTyped /\ EndIsShown

LEMMA SearchInvImplies == SearchInv => ShownIsTyped
BY DEF SearchInv, ShownIsTyped, LiveIsTyped, EndIsShown, Live, SearchShape, Lookups

LEMMA AbortedHasNone ==
  ASSUME SearchShape
  PROVE  /\ Aborted(searches) \subseteq Lookups
         /\ \A s \in Aborted(searches) : s.aborted
BY DEF SearchShape, Aborted, Lookups

LEMMA SearchShapeKept ==
  ASSUME SearchShape, LiveIsTyped, [SearchNext]_searchVars
  PROVE  SearchShape'
<1>. USE SearchAssumption DEF SearchShape
<1>0. NoItems \in Hits /\ items.hits \in 0 .. MaxHits BY DEF NoItems, Hits
<1>1. CASE OpenPalette BY <1>1 DEF OpenPalette
<1>2. CASE ClosePalette BY <1>0, <1>2, AbortedHasNone DEF ClosePalette
<1>3. ASSUME NEW q \in Queries \cup {Short}, TypeQuery(q) PROVE SearchShape'
  <2>1. keys' \in 0 .. MaxKeys BY <1>3 DEF TypeQuery
  <2>2. timer' \in BOOLEAN BY <1>3 DEF TypeQuery
  <2>3. items' \in Hits BY <1>0, <1>3 DEF TypeQuery
  <2>4. searching' \in BOOLEAN BY <1>3 DEF TypeQuery
  <2>. QED BY <1>3, <2>1, <2>2, <2>3, <2>4, AbortedHasNone DEF TypeQuery
<1>4. CASE TimerFires
  <2>1. [key |-> keys, of |-> query, at |-> "token", aborted |-> FALSE] \in Lookups
    BY <1>4 DEF TimerFires, Lookups, LiveIsTyped
  <2>. QED BY <1>4, <2>1 DEF TimerFires
<1>5. ASSUME NEW s \in searches, RequestStep(s) PROVE SearchShape'
  <2>1. s.of \in Queries /\ s.aborted \in BOOLEAN BY DEF Lookups
  <2>2. \A at \in {"sent", "refused"} : [s EXCEPT !.at = at] \in Lookups BY DEF Lookups
  <2>3. \A k \in 0 .. MaxHits : [of |-> s.of, hits |-> k] \in Hits BY <2>1 DEF Hits
  <2>4. CASE GivenUp(s) BY <2>4 DEF GivenUp
  <2>5. CASE Fails(s) BY <1>0, <2>1, <2>5 DEF Fails
  <2>6. ASSUME NEW at \in {"sent", "refused"}, Proceeds(s, at) PROVE SearchShape'
    BY <2>2, <2>6 DEF Proceeds
  <2>7. ASSUME NEW k \in 0 .. MaxHits, Found(s, k) PROVE SearchShape'
    <3>1. 0 \in -1 .. MaxHits OBVIOUS
    <3>. QED BY <2>3, <2>7, <3>1 DEF Found
  <2>. QED BY <1>5, <2>4, <2>5, <2>6, <2>7 DEF RequestStep
<1>6. CASE ArrowDown
  <2>1. active' \in -1 .. MaxHits BY <1>0, <1>6 DEF ArrowDown, Smaller
  <2>. QED BY <1>6, <2>1 DEF ArrowDown
<1>7. CASE ArrowUp
  <2>1. active' \in -1 .. MaxHits BY <1>7 DEF ArrowUp
  <2>. QED BY <1>7, <2>1 DEF ArrowUp
<1>8. CASE UNCHANGED searchVars BY <1>8 DEF searchVars
<1>. QED BY <1>1, <1>2, <1>3, <1>4, <1>5, <1>6, <1>7, <1>8 DEF SearchNext

(* The end of a request.                                                   *)
LEMMA RequestEnds ==
  ASSUME SearchInv, NEW s \in searches, RequestStep(s)
  PROVE  LiveIsTyped' /\ EndIsShown'
<1>. USE DEF SearchInv, LiveIsTyped, EndIsShown
<1>0. s.aborted \in BOOLEAN BY DEF SearchShape, Lookups
<1>1. CASE s.aborted /\ GivenUp(s)
  <2>1. Live' = Live BY <1>1 DEF GivenUp, Live
  <2>. QED BY <1>1, <2>1 DEF GivenUp
<1>2. CASE Fails(s) /\ s.aborted
  <2>1. Live' = Live BY <1>2 DEF Fails, Live
  <2>2. blamed' /\ ~searching' /\ items'.hits = 0 /\ UNCHANGED <<palette, query, timer, keys>>
    BY <1>2 DEF Fails, NoItems
  <2>. QED BY <2>1, <2>2
<1>3. CASE Fails(s) /\ ~s.aborted
  <2>1. s \in Live BY <1>3 DEF Live
  <2>2. Live' = {} BY <1>3, <2>1 DEF Fails, Live
  <2>3. /\ ~searching' /\ items'.hits = 0 /\ failed' /\ failedOf' = s.of
        /\ UNCHANGED <<palette, query, timer, keys>>
    BY <1>3 DEF Fails, NoItems
  <2>. QED BY <2>1, <2>2, <2>3
<1>4. ASSUME NEW at \in {"sent", "refused"}, Proceeds(s, at) PROVE LiveIsTyped' /\ EndIsShown'
  <2>. DEFINE t == [s EXCEPT !.at = at]
  <2>1. t.of = s.of /\ t.aborted = s.aborted BY DEF SearchShape, Lookups
  <2>2. /\ searches' = (searches \ {s}) \cup {t}
        /\ UNCHANGED <<palette, query, timer, items, searching, failed, failedOf, active, blamed, keys>>
    BY <1>4 DEF Proceeds
  <2>. HIDE DEF t
  <2>3. CASE s.aborted
    <3>1. Live' = Live BY <2>1, <2>2, <2>3 DEF Live
    <3>. QED BY <2>2, <3>1
  <2>4. CASE ~s.aborted
    <3>1. s \in Live /\ Live' = {t} BY <2>1, <2>2, <2>4 DEF Live
    <3>. QED BY <2>1, <2>2, <3>1
  <2>. QED BY <2>3, <2>4
<1>5. ASSUME NEW k \in 0 .. MaxHits, ~s.aborted, Found(s, k) PROVE LiveIsTyped' /\ EndIsShown'
  <2>1. s \in Live BY <1>5 DEF Live
  <2>2. Live' = {} BY <1>5, <2>1 DEF Found, Live
  <2>3. /\ ~searching' /\ items'.of = s.of /\ items'.hits = k /\ active' = 0
        /\ UNCHANGED <<palette, query, timer, failed, failedOf, blamed, keys>>
    BY <1>5 DEF Found
  <2>4. k > 0 => 0 \in 0 .. k - 1 BY SearchAssumption
  <2>. QED BY <2>1, <2>2, <2>3, <2>4
<1>7. CASE s.at = "token" BY <1>0, <1>1, <1>2, <1>3, <1>4, <1>7 DEF RequestStep
<1>8. CASE s.at = "sent" BY <1>0, <1>1, <1>2, <1>3, <1>4, <1>5, <1>8 DEF RequestStep
<1>9. CASE s.at = "refused" BY <1>0, <1>2, <1>3, <1>9 DEF RequestStep
<1>. QED BY <1>7, <1>8, <1>9 DEF RequestStep

LEMMA SearchKept ==
  ASSUME SearchInv, [SearchNext]_searchVars
  PROVE  SearchInv'
<1>. USE DEF SearchInv, LiveIsTyped, EndIsShown
<1>0. SearchShape' BY SearchShapeKept
<1>1. CASE OpenPalette
  <2>1. Live' = Live BY <1>1 DEF OpenPalette, Live
  <2>. QED BY <1>0, <1>1, <2>1 DEF OpenPalette
<1>2. CASE ClosePalette
  <2>1. Live' = {} BY <1>2, AbortedHasNone DEF ClosePalette, Live
  <2>2. query' = Short /\ ~timer' /\ ~searching' /\ items'.hits = 0 BY <1>2 DEF ClosePalette, NoItems
  <2>. QED BY <1>0, <2>1, <2>2
<1>3. ASSUME NEW q \in Queries \cup {Short}, TypeQuery(q) PROVE SearchInv'
  <2>1. Live' = {} BY <1>3, AbortedHasNone DEF TypeQuery, Live
  <2>2. /\ palette' /\ query' = q /\ (timer' <=> q # Short)
        /\ UNCHANGED <<active, blamed, failed>>
    BY <1>3 DEF TypeQuery
  <2>5. keys' >= 1 BY <1>3, SearchAssumption DEF TypeQuery, SearchShape
  <2>3. q = Short => items'.hits = 0 /\ ~searching' BY <1>3 DEF TypeQuery, NoItems
  <2>4. q # Short => UNCHANGED <<items, searching>> BY <1>3 DEF TypeQuery
  <2>. QED BY <1>0, <2>1, <2>2, <2>3, <2>4, <2>5
<1>4. CASE TimerFires
  <2>. DEFINE t == [key |-> keys, of |-> query, at |-> "token", aborted |-> FALSE]
  <2>1. Live' = {t} BY <1>4 DEF TimerFires, Live
  <2>2. t.of = query OBVIOUS
  <2>3. /\ timer /\ ~timer' /\ searching' /\ ~failed'
        /\ UNCHANGED <<palette, query, items, active, blamed, keys>>
    BY <1>4 DEF TimerFires
  <2>. HIDE DEF t
  <2>. QED BY <1>0, <2>1, <2>2, <2>3
<1>5. ASSUME NEW s \in searches, RequestStep(s) PROVE SearchInv' BY <1>0, <1>5, RequestEnds
<1>6. CASE ArrowDown
  <2>1. Live' = Live BY <1>6 DEF ArrowDown, Live
  <2>2. items.hits \in Nat /\ active \in Int /\ active' = Smaller(active + 1, items.hits - 1)
    BY <1>6 DEF ArrowDown, SearchShape, Hits
  <2>3. items.hits > 0 => active' \in 0 .. items.hits - 1 BY <2>2 DEF Smaller
  <2>. QED BY <1>0, <1>6, <2>1, <2>3 DEF ArrowDown
<1>7. CASE ArrowUp
  <2>1. Live' = Live BY <1>7 DEF ArrowUp, Live
  <2>2. /\ items.hits \in Nat /\ active \in Int
        /\ active' = IF active > 1 THEN active - 1 ELSE 0
    BY <1>7 DEF ArrowUp, SearchShape, Hits
  <2>3. items.hits > 0 => active' \in 0 .. items.hits - 1 BY <2>2
  <2>. QED BY <1>0, <1>7, <2>1, <2>3 DEF ArrowUp
<1>8. CASE UNCHANGED searchVars
  <2>1. Live' = Live BY <1>8 DEF searchVars, Live
  <2>. QED BY <1>0, <1>8, <2>1 DEF searchVars
<1>. QED BY <1>1, <1>2, <1>3, <1>4, <1>5, <1>6, <1>7, <1>8 DEF SearchNext

\* What the palette shows when nothing is out any more was found for the query
\* that is typed, or says that this query failed; whatever is marked is there.
THEOREM SearchesAreShown == SearchInit /\ [][SearchNext]_searchVars => [](SearchTypeOK /\ ShownIsTyped)
<1>1. SearchInit => SearchInv
  <2>. SUFFICES ASSUME SearchInit PROVE SearchInv OBVIOUS
  <2>1. NoItems \in Hits /\ NoItems.hits = 0 BY SearchAssumption DEF NoItems, Hits
  <2>2. SearchShape
    <3>1. /\ palette \in BOOLEAN /\ timer \in BOOLEAN /\ searching \in BOOLEAN
          /\ failed \in BOOLEAN /\ blamed \in BOOLEAN
      BY DEF SearchInit
    <3>2. active \in -1 .. MaxHits /\ keys \in 0 .. MaxKeys BY SearchAssumption DEF SearchInit
    <3>. QED BY <2>1, <3>1, <3>2 DEF SearchInit, SearchShape
  <2>3. Live = {} BY DEF SearchInit, Live
  <2>. QED BY <2>1, <2>2, <2>3 DEF SearchInit, SearchInv, LiveIsTyped, EndIsShown
<1>2. SearchInv => SearchTypeOK
  BY DEF SearchInv, SearchShape, SearchTypeOK, Lookups, Hits
<1>. QED BY <1>1, <1>2, SearchKept, SearchInvImplies, PTL

-----------------------------------------------------------------------------
(* The first use of the application (SetupSettings) *)

SettingRow == [named : BOOLEAN, done : BOOLEAN]
SettingCall ==
  [does : Does, at : {"find", "create", "count", "write", "answer"}, row : SettingRows,
   read : SettingRow]
SetupShape ==
  /\ rows \in [SettingRows -> {NoRow} \cup SettingRow]
  /\ sites \in 0 .. MaxSetupSites /\ calls \in 0 .. MaxSettingCalls
  /\ call \in [SetupCalls -> {NoSettingCall} \cup SettingCall]
  /\ step \in AtGate .. LetIn
  /\ doubled \in BOOLEAN /\ takenBack \in BOOLEAN /\ siteGone \in BOOLEAN /\ reopened \in BOOLEAN

(* The rows are made one after the other, and each request makes one.      *)
Creating == {c \in SetupCalls : IsAt(c, "create")}
RoomForRows ==
  /\ MadeRows = 1 .. Cardinality(MadeRows)
  /\ Cardinality(MadeRows) + Cardinality(Creating) <= Cardinality(SetupCalls)

SiteThere == sites > 0 \/ siteGone
AllNamed ==
  doubled \/ takenBack \/ (MadeRows # {} /\ \A r \in MadeRows : rows[r].named)

(* What a request has read of its row still holds, but for what was taken  *)
(* back or reopened.                                                       *)
Past(c) == call[c] # NoSettingCall /\ call[c].at \in {"count", "write", "answer"}
           /\ call[c].does # "site"
ReadHolds(c) ==
  /\ call[c].row \in MadeRows
  /\ call[c].at = "write" => call[c].does \in {"name", "complete", "reopen", "update"}
  /\ call[c].read.done => reopened \/ rows[call[c].row].done
  /\ call[c].read.named => takenBack \/ rows[call[c].row].named
  /\ call[c].does = "complete" /\ call[c].at = "write" => call[c].read.named /\ SiteThere
  /\ call[c].does = "complete" /\ call[c].at = "answer" => reopened \/ rows[call[c].row].done
  /\ call[c].does = "name" /\ call[c].at = "answer" => takenBack \/ rows[call[c].row].named
ReadStands == \A c \in SetupCalls : Past(c) => ReadHolds(c)
SiteCalls ==
  \A c \in SetupCalls : call[c] # NoSettingCall =>
    /\ call[c].does = "site" => call[c].at \in {"write", "answer"}
    /\ call[c].does = "site" /\ call[c].at = "answer" => SiteThere
    /\ call[c].does = "site" /\ c = Wizard => AllNamed
    /\ c = Wizard => call[c].does \in {"status", "name", "site", "complete"}
OneRow == ~doubled => \A r, s \in MadeRows : r = s
WizardKnows ==
  /\ step \in {2, 3} => AllNamed
  /\ step = 3 => SiteThere
  /\ step = LetIn /\ ~reopened => \E r \in MadeRows : rows[r].done
  /\ \A r \in MadeRows : rows[r].done => (rows[r].named \/ takenBack) /\ SiteThere
SetupInv == SetupShape /\ RoomForRows /\ ReadStands /\ SiteCalls /\ OneRow /\ WizardKnows

LEMMA SetupInvImplies == SetupInv => SetupIsSound
BY DEF SetupInv, SetupIsSound, WizardKnows, AllNamed, SiteThere

LEMMA FreshRowIsRow ==
  FreshRow \in SettingRow /\ ~FreshRow.named /\ ~FreshRow.done /\ FreshRow # NoRow
<1>1. FreshRow \in SettingRow BY DEF FreshRow, SettingRow
<1>2. ~FreshRow.named /\ ~FreshRow.done BY DEF FreshRow
<1>3. NoRow \notin SettingRow BY SettingAssumption DEF SettingRow
<1>. QED BY <1>1, <1>2, <1>3

(* The row a request makes is a new one.                                   *)
LEMMA CreatedIsNew ==
  ASSUME SetupShape, RoomForRows, NEW c \in SetupCalls, CreateRow(c)
  PROVE  LET r == Cardinality(MadeRows) + 1
         IN /\ r \in SettingRows \ MadeRows
            /\ rows' = [rows EXCEPT ![r] = FreshRow]
            /\ MadeRows' = MadeRows \cup {r}
            /\ RoomForRows'
<1>. DEFINE r == Cardinality(MadeRows) + 1
            k == Cardinality(SetupCalls)
<1>1. /\ Creating \in SUBSET SetupCalls /\ c \in Creating
      /\ Creating' = Creating \ {c}
  BY DEF CreateRow, Creating, IsAt, SetupShape
<1>2. /\ IsFiniteSet(Creating) /\ Cardinality(Creating) \in Nat /\ Cardinality(Creating) # 0
      /\ k \in Nat /\ IsFiniteSet(SettingRows)
      /\ Cardinality(Creating') = Cardinality(Creating) - 1
  <2>1. IsFiniteSet(Creating) BY <1>1, SettingAssumption, FS_Subset
  <2>2. Cardinality(Creating) \in Nat BY <2>1, FS_CardinalityType
  <2>3. Cardinality(Creating) # 0 BY <1>1, <2>1, FS_EmptySet
  <2>4. k \in Nat BY SettingAssumption, FS_CardinalityType
  <2>5. IsFiniteSet(SettingRows) BY <2>4, FS_Interval DEF SettingRows
  <2>6. Cardinality(Creating') = Cardinality(Creating) - 1 BY <1>1, <2>1, FS_RemoveElement
  <2>. QED BY <2>1, <2>2, <2>3, <2>4, <2>5, <2>6
<1>3. MadeRows \in SUBSET SettingRows BY DEF MadeRows
<1>4. IsFiniteSet(MadeRows) /\ Cardinality(MadeRows) \in Nat
  BY <1>2, <1>3, FS_Subset, FS_CardinalityType
<1>5. r \in SettingRows /\ r \notin 1 .. Cardinality(MadeRows)
  BY <1>2, <1>4 DEF RoomForRows, SettingRows
<1>6. r \notin MadeRows BY <1>5 DEF RoomForRows
<1>7. rows' = [rows EXCEPT ![r] = FreshRow] BY DEF CreateRow
<1>8. MadeRows' = MadeRows \cup {r}
  <2>. HIDE DEF r
  <2>. QED BY <1>5, <1>7, FreshRowIsRow DEF MadeRows, SetupShape
<1>9. Cardinality(MadeRows') = r
  <2>. HIDE DEF r
  <2>1. Cardinality(MadeRows \cup {r}) = Cardinality(MadeRows) + 1 BY <1>4, <1>6, FS_AddElement
  <2>. QED BY <2>1, <1>8 DEF r
<1>10. MadeRows' = 1 .. r
  <2>1. 1 .. r = (1 .. Cardinality(MadeRows)) \cup {r} BY <1>4
  <2>. QED BY <2>1, <1>8 DEF RoomForRows
<1>11. RoomForRows'
  BY <1>2, <1>4, <1>9, <1>10 DEF RoomForRows
<1>. QED BY <1>5, <1>6, <1>7, <1>8, <1>11

(* Where no row is made and none more is about to be, there is room.       *)
LEMMA RoomKept ==
  ASSUME SetupShape, RoomForRows, MadeRows' = MadeRows, Creating' \subseteq Creating
  PROVE  RoomForRows'
<1>1. IsFiniteSet(Creating) /\ Cardinality(Creating) \in Nat
  BY SettingAssumption, FS_Subset, FS_CardinalityType DEF Creating
<1>2. Cardinality(Creating') \in Nat /\ Cardinality(Creating') <= Cardinality(Creating)
  BY <1>1, FS_Subset, FS_CardinalityType
<1>3. IsFiniteSet(SettingRows) /\ MadeRows \in SUBSET SettingRows /\ Cardinality(SetupCalls) \in Nat
  BY SettingAssumption, FS_CardinalityType, FS_Interval DEF SettingRows, MadeRows
<1>4. Cardinality(MadeRows) \in Nat BY <1>3, FS_Subset, FS_CardinalityType
<1>. QED BY <1>1, <1>2, <1>3, <1>4 DEF RoomForRows

LEMMA SetupShapeKept == ASSUME SetupInv, SetupNext PROVE SetupShape'
<1>. DEFINE RowSet == {NoRow} \cup SettingRow
            CallSet == {NoSettingCall} \cup SettingCall
<1>1. /\ rows \in [SettingRows -> RowSet] /\ call \in [SetupCalls -> CallSet]
      /\ sites \in 0 .. MaxSetupSites /\ calls \in 0 .. MaxSettingCalls
      /\ step \in AtGate .. LetIn
      /\ doubled \in BOOLEAN /\ takenBack \in BOOLEAN /\ siteGone \in BOOLEAN
      /\ reopened \in BOOLEAN
  BY DEF SetupInv, SetupShape
<1>2. MaxSetupSites \in Nat /\ MaxSettingCalls \in Nat BY SettingAssumption
<1>3. \A c \in SetupCalls : call[c] # NoSettingCall => call[c] \in SettingCall BY <1>1
<1>4. \A r \in MadeRows : r \in SettingRows /\ rows[r] \in SettingRow BY <1>1 DEF MadeRows
<1>5. SettingRow \subseteq RowSet /\ SettingCall \subseteq CallSet /\ NoSettingCall \in CallSet OBVIOUS
<1>6. ASSUME NEW s \in SettingCall, NEW at \in {"find", "create", "count", "write", "answer"}
      PROVE  [s EXCEPT !.at = at] \in SettingCall
  BY DEF SettingCall
<1>7. ASSUME NEW s \in SettingCall, NEW at \in {"find", "create", "count", "write", "answer"},
             NEW r \in SettingRows, NEW read \in SettingRow
      PROVE  [s EXCEPT !.at = at, !.row = r, !.read = read] \in SettingCall
  BY DEF SettingCall
<1>8. FreshRow \in SettingRow BY FreshRowIsRow
<1>9. (\E c \in SetupCalls : TRUE) => 1 \in SettingRows
  <2>. SUFFICES ASSUME NEW c \in SetupCalls PROVE 1 \in SettingRows OBVIOUS
  <2>1. Cardinality(SetupCalls) \in Nat /\ Cardinality(SetupCalls) # 0
    BY SettingAssumption, FS_CardinalityType, FS_EmptySet
  <2>. QED BY <2>1 DEF SettingRows
<1>10. ASSUME NEW s \in SettingCall
       PROVE  s.does \in Does /\ s.row \in SettingRows /\ s.read \in SettingRow
  BY DEF SettingCall
<1>11. ASSUME NEW r \in SettingRow, NEW b \in BOOLEAN
       PROVE  [r EXCEPT !.named = b] \in SettingRow /\ [r EXCEPT !.done = b] \in SettingRow
  BY DEF SettingRow
<1>. HIDE DEF RowSet, CallSet
<1>12. CASE Turn(0, 1) \/ Turn(1, 0) \/ Turn(2, 1) \/ DeleteSite
  <2>1. rows' = rows /\ call' = call /\ calls' = calls /\ doubled' = doubled
        /\ takenBack' = takenBack /\ reopened' = reopened
    BY <1>12 DEF Turn, DeleteSite
  <2>2. step' \in AtGate .. LetIn BY <1>1, <1>12 DEF Turn, DeleteSite, AtGate, LetIn
  <2>3. sites' \in 0 .. MaxSetupSites BY <1>1, <1>2, <1>12 DEF Turn, DeleteSite
  <2>4. siteGone' \in BOOLEAN BY <1>1, <1>12 DEF Turn, DeleteSite
  <2>. QED BY <1>1, <2>1, <2>2, <2>3, <2>4 DEF SetupShape, RowSet, CallSet
<1>13. ASSUME NEW c \in SetupCalls, NEW does \in Does, AskSetup(c, does) PROVE SetupShape'
  <2>1. [does |-> does, at |-> IF does = "site" THEN "write" ELSE "find", row |-> 1,
         read |-> FreshRow] \in SettingCall
    BY <1>8, <1>9 DEF SettingCall
  <2>2. call' \in [SetupCalls -> CallSet] BY <1>1, <1>5, <1>13, <2>1 DEF AskSetup
  <2>3. calls' \in 0 .. MaxSettingCalls BY <1>1, <1>2, <1>13 DEF AskSetup
  <2>4. UNCHANGED <<rows, sites, step, doubled, takenBack, siteGone, reopened>>
    BY <1>13 DEF AskSetup
  <2>. QED BY <1>1, <2>2, <2>3, <2>4 DEF SetupShape, RowSet, CallSet
<1>14. ASSUME NEW c \in SetupCalls, FindRow(c) PROVE SetupShape'
  <2>1. call[c] \in SettingCall BY <1>3, <1>14 DEF FindRow, IsAt
  <2>2. call' \in [SetupCalls -> CallSet]
    <3>1. CASE MadeRows = {}
      BY <1>1, <1>5, <1>6, <1>14, <2>1, <3>1 DEF FindRow, MovesOn
    <3>2. CASE MadeRows # {}
      <4>1. PICK r \in MadeRows : call' = [call EXCEPT ![c].at = "count", ![c].row = r,
                                                       ![c].read = rows[r]]
        BY <1>14, <3>2 DEF FindRow
      <4>2. [call[c] EXCEPT !.at = "count", !.row = r, !.read = rows[r]] \in SettingCall
        BY <1>4, <1>7, <2>1
      <4>. QED BY <1>1, <1>5, <4>1, <4>2
    <3>. QED BY <3>1, <3>2
  <2>3. UNCHANGED <<rows, sites, step, calls, doubled, takenBack, siteGone, reopened>>
    BY <1>14 DEF FindRow
  <2>. QED BY <1>1, <2>2, <2>3 DEF SetupShape, RowSet, CallSet
<1>15. ASSUME NEW c \in SetupCalls, CreateRow(c) PROVE SetupShape'
  <2>. DEFINE r == Cardinality(MadeRows) + 1
  <2>1. /\ r \in SettingRows
        /\ rows' = [rows EXCEPT ![r] = FreshRow]
    BY <1>15, CreatedIsNew DEF SetupInv
  <2>2. call' = [call EXCEPT ![c].at = "count", ![c].row = r, ![c].read = FreshRow]
    BY <1>15 DEF CreateRow
  <2>3. UNCHANGED <<sites, step, calls, takenBack, siteGone, reopened>> BY <1>15 DEF CreateRow
  <2>4. doubled' \in BOOLEAN BY <1>1, <1>15 DEF CreateRow
  <2>. HIDE DEF r
  <2>5. call[c] \in SettingCall BY <1>3, <1>15 DEF CreateRow, IsAt
  <2>6. [call[c] EXCEPT !.at = "count", !.row = r, !.read = FreshRow] \in SettingCall
    BY <1>7, <1>8, <2>1, <2>5
  <2>7. call' \in [SetupCalls -> CallSet] BY <1>1, <1>5, <2>2, <2>6
  <2>8. rows' \in [SettingRows -> RowSet] BY <1>1, <1>5, <1>8, <2>1
  <2>. QED BY <1>1, <2>3, <2>4, <2>7, <2>8 DEF SetupShape, RowSet, CallSet
<1>16. ASSUME NEW c \in SetupCalls, Count(c) PROVE SetupShape'
  <2>1. call[c] \in SettingCall BY <1>3, <1>16 DEF Count, IsAt
  <2>2. [call[c] EXCEPT !.at = IF call[c].does = "status" THEN "answer" ELSE "write"] \in CallSet
    BY <1>5, <1>6, <2>1
  <2>3. call' \in [SetupCalls -> CallSet] BY <1>1, <1>5, <1>16, <2>2 DEF Count
  <2>4. UNCHANGED <<rows, sites, step, calls, doubled, takenBack, siteGone, reopened>>
    BY <1>16 DEF Count
  <2>. QED BY <1>1, <2>3, <2>4 DEF SetupShape, RowSet, CallSet
<1>17. ASSUME NEW c \in SetupCalls, WriteRow(c) PROVE SetupShape'
  <2>. DEFINE r == call[c].row
              row == Written(call[c].does, rows[r], call[c].read)
  <2>1. call[c] \in SettingCall /\ [call[c] EXCEPT !.at = "answer"] \in CallSet
    BY <1>3, <1>5, <1>6, <1>17 DEF WriteRow, IsAt
  <2>2. call' \in [SetupCalls -> CallSet] BY <1>1, <1>17, <2>1 DEF WriteRow, MovesOn
  <2>3. /\ rows' = [rows EXCEPT ![r] = row]
        /\ takenBack' = (takenBack \/ (rows[r].named /\ ~row.named))
        /\ reopened' = (reopened \/ (rows[r].done /\ ~row.done))
        /\ UNCHANGED <<sites, step, calls, doubled, siteGone>>
    BY <1>17 DEF WriteRow
  <2>4. /\ call[c].at = "write"
        /\ call[c].does \in {"name", "complete", "reopen", "update"}
        /\ r \in MadeRows /\ call[c].read \in SettingRow
    <3>1. Past(c) BY <1>17 DEF WriteRow, IsAt, Past
    <3>. QED BY <1>10, <1>17, <2>1, <3>1 DEF SetupInv, ReadStands, ReadHolds, WriteRow, IsAt
  <2>5. row \in SettingRow
    <3>1. rows[r] \in SettingRow /\ call[c].read.named \in BOOLEAN BY <1>4, <2>4 DEF SettingRow
    <3>2. [named |-> TRUE, done |-> FALSE] \in SettingRow BY DEF SettingRow
    <3>. QED BY <1>11, <2>4, <3>1, <3>2 DEF Written
  <2>6. takenBack' \in BOOLEAN /\ reopened' \in BOOLEAN BY <1>1, <2>3
  <2>7. rows' \in [SettingRows -> RowSet]
    <3>. HIDE DEF r, row
    <3>. QED BY <1>1, <1>5, <2>3, <2>5
  <2>. QED BY <1>1, <2>2, <2>3, <2>6, <2>7 DEF SetupShape, RowSet, CallSet
<1>18. ASSUME NEW c \in SetupCalls, CreateSite(c) PROVE SetupShape'
  <2>1. call[c] \in SettingCall /\ [call[c] EXCEPT !.at = "answer"] \in CallSet
    BY <1>3, <1>5, <1>6, <1>18 DEF CreateSite, IsAt
  <2>2. call' \in [SetupCalls -> CallSet] BY <1>1, <1>18, <2>1 DEF CreateSite, MovesOn
  <2>3. sites' \in 0 .. MaxSetupSites BY <1>1, <1>2, <1>18 DEF CreateSite
  <2>4. UNCHANGED <<rows, step, calls, doubled, takenBack, siteGone, reopened>>
    BY <1>18 DEF CreateSite
  <2>. QED BY <1>1, <2>2, <2>3, <2>4 DEF SetupShape, RowSet, CallSet
<1>19. ASSUME NEW c \in SetupCalls, AnswerCall(c) \/ CallFails(c) PROVE SetupShape'
  <2>1. call' \in [SetupCalls -> CallSet] BY <1>1, <1>5, <1>19 DEF AnswerCall, CallFails
  <2>2. UNCHANGED <<rows, sites, calls, doubled, takenBack, siteGone, reopened>>
    BY <1>19 DEF AnswerCall, CallFails
  <2>3. step' \in AtGate .. LetIn
    <3>1. CASE CallFails(c) BY <1>1, <3>1 DEF CallFails
    <3>2. CASE AnswerCall(c) /\ c # Wizard BY <1>1, <3>2 DEF AnswerCall
    <3>3. CASE AnswerCall(c) /\ c = Wizard
      <4>1. call[c].does \in {"status", "name", "site", "complete"}
        BY <3>3 DEF AnswerCall, IsAt, SetupInv, SiteCalls
      <4>2. step' = Led(call[c].does, call[c].read) BY <3>3 DEF AnswerCall
      <4>. QED BY <1>1, <4>1, <4>2 DEF Led, AtGate, LetIn
    <3>. QED BY <1>19, <3>1, <3>2, <3>3
  <2>. QED BY <1>1, <2>1, <2>2, <2>3 DEF SetupShape, RowSet, CallSet
<1>. QED
  BY <1>12, <1>13, <1>14, <1>15, <1>16, <1>17, <1>18, <1>19 DEF SetupNext

LEMMA SetupInvKept == ASSUME SetupInv, SetupNext PROVE SetupInv'
<1>0. SetupShape' BY SetupShapeKept
<1>1. SetupShape /\ RoomForRows /\ ReadStands /\ SiteCalls /\ OneRow /\ WizardKnows
  BY DEF SetupInv
<1>2. \A c \in SetupCalls : call[c] # NoSettingCall => call[c] \in SettingCall
  BY <1>1 DEF SetupShape
<1>3. DOMAIN call = SetupCalls BY <1>1 DEF SetupShape
<1>4. CASE Turn(0, 1) \/ Turn(1, 0) \/ Turn(2, 1) \/ DeleteSite
  <2>1. /\ rows' = rows /\ call' = call /\ doubled' = doubled /\ takenBack' = takenBack
        /\ reopened' = reopened /\ (step' = step \/ step' \in {0, 1})
    BY <1>4 DEF Turn, DeleteSite
  <2>2. MadeRows' = MadeRows /\ Creating' = Creating BY <2>1 DEF MadeRows, Creating, IsAt
  <2>3. RoomForRows' BY <1>1, <2>2, RoomKept
  <2>4. SiteThere => SiteThere' BY <1>4 DEF Turn, DeleteSite, SiteThere
  <2>5. AllNamed => AllNamed' BY <2>1, <2>2 DEF AllNamed
  <2>6. ReadStands' BY <1>1, <2>1, <2>2, <2>4 DEF ReadStands, ReadHolds, Past
  <2>7. SiteCalls' BY <1>1, <2>1, <2>4, <2>5 DEF SiteCalls
  <2>8. OneRow' BY <1>1, <2>1, <2>2 DEF OneRow
  <2>9. WizardKnows' BY <1>1, <2>1, <2>2, <2>4, <2>5 DEF WizardKnows, LetIn
  <2>. QED BY <1>0, <2>3, <2>6, <2>7, <2>8, <2>9 DEF SetupInv
<1>5. ASSUME NEW c \in SetupCalls, NEW does \in Does, AskSetup(c, does) PROVE SetupInv'
  <2>1. /\ UNCHANGED <<rows, sites, step, doubled, takenBack, siteGone, reopened>>
        /\ call'[c] = [does |-> does, at |-> IF does = "site" THEN "write" ELSE "find", row |-> 1,
                       read |-> FreshRow]
        /\ \A d \in SetupCalls \ {c} : call'[d] = call[d]
    BY <1>3, <1>5 DEF AskSetup
  <2>2. MadeRows' = MadeRows /\ (SiteThere' <=> SiteThere) /\ (AllNamed' <=> AllNamed)
    BY <2>1 DEF MadeRows, SiteThere, AllNamed
  <2>3. Creating' \subseteq Creating BY <2>1 DEF Creating, IsAt
  <2>4. RoomForRows' BY <1>1, <2>2, <2>3, RoomKept
  <2>5. ~Past(c)' BY <2>1 DEF Past
  <2>6. ReadStands' BY <1>1, <2>1, <2>2, <2>5 DEF ReadStands, ReadHolds, Past
  <2>7. c = Wizard => /\ does \in {"status", "name", "site", "complete"}
                      /\ does = "site" => AllNamed
    BY <1>1, <1>5 DEF AskSetup, MayAsk, WizardKnows, Does
  <2>8. SiteCalls' BY <1>1, <2>1, <2>2, <2>7 DEF SiteCalls
  <2>9. OneRow' /\ WizardKnows' BY <1>1, <2>1, <2>2 DEF OneRow, WizardKnows
  <2>. QED BY <1>0, <2>4, <2>6, <2>8, <2>9 DEF SetupInv
<1>6. ASSUME NEW c \in SetupCalls, FindRow(c) PROVE SetupInv'
  <2>1. /\ UNCHANGED <<rows, sites, step, doubled, takenBack, siteGone, reopened>>
        /\ call[c] \in SettingCall /\ call[c].at = "find"
        /\ \A d \in SetupCalls \ {c} : call'[d] = call[d]
    BY <1>2, <1>3, <1>6 DEF FindRow, IsAt, MovesOn
  <2>2. MadeRows' = MadeRows /\ (SiteThere' <=> SiteThere) /\ (AllNamed' <=> AllNamed)
    BY <2>1 DEF MadeRows, SiteThere, AllNamed
  <2>3. call[c].does # "site" BY <1>1, <1>6, <2>1 DEF SiteCalls, FindRow, IsAt
  <2>4. CASE MadeRows = {}
    <3>1. call'[c] = [call[c] EXCEPT !.at = "create"]
      BY <1>3, <1>6, <2>4 DEF FindRow, MovesOn
    <3>2. call'[c].at = "create" /\ call'[c].does = call[c].does
      BY <2>1, <3>1 DEF SettingCall
    <3>3. RoomForRows'
      <4>1. Creating' \in SUBSET SetupCalls BY DEF Creating
      <4>2. Cardinality(Creating') <= Cardinality(SetupCalls)
        BY <4>1, SettingAssumption, FS_Subset
      <4>3. IsFiniteSet(Creating') BY <4>1, SettingAssumption, FS_Subset
      <4>4. Cardinality(MadeRows') = 0 BY <2>2, <2>4, FS_EmptySet
      <4>5. Cardinality(Creating') \in Nat BY <4>3, FS_CardinalityType
      <4>. QED BY <2>2, <2>4, <4>2, <4>4, <4>5 DEF RoomForRows
    <3>4. ReadStands' BY <1>1, <2>1, <2>2, <3>2 DEF ReadStands, ReadHolds, Past
    <3>5. SiteCalls' BY <1>1, <1>6, <2>1, <2>2, <2>3, <3>2 DEF SiteCalls, FindRow, IsAt
    <3>6. OneRow' /\ WizardKnows' BY <1>1, <2>1, <2>2 DEF OneRow, WizardKnows
    <3>. QED BY <1>0, <3>3, <3>4, <3>5, <3>6 DEF SetupInv
  <2>5. CASE MadeRows # {}
    <3>1. PICK r \in MadeRows : call' = [call EXCEPT ![c].at = "count", ![c].row = r,
                                                     ![c].read = rows[r]]
      BY <1>6, <2>5 DEF FindRow
    <3>2. call'[c] = [call[c] EXCEPT !.at = "count", !.row = r, !.read = rows[r]]
      BY <1>3, <3>1
    <3>3. /\ call'[c].at = "count" /\ call'[c].does = call[c].does /\ call'[c].row = r
          /\ call'[c].read = rows[r]
      BY <2>1, <3>2 DEF SettingCall
    <3>4. Creating' \subseteq Creating BY <2>1, <3>3 DEF Creating, IsAt
    <3>5. RoomForRows' BY <1>1, <2>2, <3>4, RoomKept
    <3>6. ReadStands' BY <1>1, <2>1, <2>2, <3>3 DEF ReadStands, ReadHolds, Past
    <3>7. SiteCalls' BY <1>1, <1>6, <2>1, <2>2, <2>3, <3>3 DEF SiteCalls, FindRow, IsAt
    <3>8. OneRow' /\ WizardKnows' BY <1>1, <2>1, <2>2 DEF OneRow, WizardKnows
    <3>. QED BY <1>0, <3>5, <3>6, <3>7, <3>8 DEF SetupInv
  <2>. QED BY <2>4, <2>5
<1>7. ASSUME NEW c \in SetupCalls, CreateRow(c) PROVE SetupInv'
  <2>. DEFINE r == Cardinality(MadeRows) + 1
  <2>1. /\ r \in SettingRows \ MadeRows
        /\ rows' = [rows EXCEPT ![r] = FreshRow]
        /\ MadeRows' = MadeRows \cup {r}
        /\ RoomForRows'
    BY <1>1, <1>7, CreatedIsNew
  <2>2. /\ call' = [call EXCEPT ![c].at = "count", ![c].row = r, ![c].read = FreshRow]
        /\ call[c] # NoSettingCall /\ call[c].at = "create"
        /\ UNCHANGED <<sites, step, calls, takenBack, siteGone, reopened>>
        /\ doubled' = (doubled \/ MadeRows # {})
    BY <1>7 DEF CreateRow, IsAt
  <2>. HIDE DEF r
  <2>3. call[c] \in SettingCall BY <1>2, <2>2
  <2>4. /\ call'[c] = [call[c] EXCEPT !.at = "count", !.row = r, !.read = FreshRow]
        /\ \A d \in SetupCalls \ {c} : call'[d] = call[d]
    BY <1>3, <2>2
  <2>5. /\ call'[c].at = "count" /\ call'[c].does = call[c].does /\ call'[c].row = r
        /\ call'[c].read = FreshRow
    BY <2>3, <2>4 DEF SettingCall
  <2>6. rows'[r] = FreshRow /\ \A s \in MadeRows : rows'[s] = rows[s]
    BY <1>1, <2>1 DEF SetupShape, MadeRows
  <2>7. ~FreshRow.named /\ ~FreshRow.done BY FreshRowIsRow
  <2>8. SiteThere' <=> SiteThere BY <2>2 DEF SiteThere
  <2>9. AllNamed => AllNamed' BY <2>2 DEF AllNamed
  <2>10. call[c].does # "site" BY <1>1, <2>2 DEF SiteCalls
  <2>11. ReadStands'
    <3>1. \A d \in SetupCalls \ {c} : Past(d)' => Past(d) /\ call'[d] = call[d]
      BY <2>4 DEF Past
    <3>. SUFFICES ASSUME NEW d \in SetupCalls, Past(d)' PROVE ReadHolds(d)' BY DEF ReadStands
    <3>3. CASE d = c BY <2>1, <2>5, <2>7, <3>3 DEF ReadHolds
    <3>4. CASE d # c
      <4>1. Past(d) /\ call'[d] = call[d] /\ ReadHolds(d) BY <1>1, <3>1, <3>4 DEF ReadStands
      <4>2. takenBack' = takenBack /\ reopened' = reopened BY <2>2
      <4>3. rows'[call[d].row] = rows[call[d].row] BY <2>6, <4>1 DEF ReadHolds
      <4>. QED BY <2>1, <2>8, <4>1, <4>2, <4>3 DEF ReadHolds
    <3>. QED BY <3>3, <3>4
  <2>12. SiteCalls' BY <1>1, <2>2, <2>4, <2>5, <2>8, <2>9, <2>10 DEF SiteCalls
  <2>13. OneRow' BY <1>1, <2>1, <2>2 DEF OneRow
  <2>14. WizardKnows' BY <1>1, <2>1, <2>2, <2>6, <2>7, <2>8, <2>9 DEF WizardKnows
  <2>. QED BY <1>0, <2>1, <2>11, <2>12, <2>13, <2>14 DEF SetupInv
<1>8. ASSUME NEW c \in SetupCalls, Count(c) PROVE SetupInv'
  <2>1. /\ UNCHANGED <<rows, sites, step, doubled, takenBack, siteGone, reopened>>
        /\ call[c] \in SettingCall /\ call[c].at = "count"
        /\ \A d \in SetupCalls \ {c} : call'[d] = call[d]
    BY <1>2, <1>3, <1>8 DEF Count, IsAt
  <2>2. MadeRows' = MadeRows /\ (SiteThere' <=> SiteThere) /\ (AllNamed' <=> AllNamed)
    BY <2>1 DEF MadeRows, SiteThere, AllNamed
  <2>3. call[c].does # "site" BY <1>1, <1>8, <2>1 DEF SiteCalls, Count, IsAt
  <2>4. call[c].does = "complete" /\ call'[c] # NoSettingCall => call[c].read.named /\ SiteThere
    BY <1>1, <1>3, <1>8 DEF Count, MayComplete, SiteThere, SetupShape
  <2>5. call'[c] # NoSettingCall =>
          /\ call'[c].does = call[c].does /\ call'[c].row = call[c].row
          /\ call'[c].read = call[c].read
          /\ call'[c].at = IF call[c].does = "status" THEN "answer" ELSE "write"
    BY <1>3, <1>8, <2>1 DEF Count, SettingCall
  <2>6. call[c].does \in Does BY <2>1 DEF SettingCall
  <2>7. Past(c) BY <1>8, <2>1, <2>3 DEF Past, Count, IsAt
  <2>8. Creating' \subseteq Creating BY <2>1, <2>5 DEF Creating, IsAt
  <2>9. RoomForRows' BY <1>1, <2>2, <2>8, RoomKept
  <2>10. ReadStands'
    BY <1>1, <2>1, <2>2, <2>3, <2>4, <2>5, <2>6, <2>7 DEF ReadStands, ReadHolds, Past, Does
  <2>11. SiteCalls' BY <1>1, <1>8, <2>1, <2>2, <2>3, <2>5 DEF SiteCalls, Count, IsAt
  <2>12. OneRow' /\ WizardKnows' BY <1>1, <2>1, <2>2 DEF OneRow, WizardKnows
  <2>. QED BY <1>0, <2>9, <2>10, <2>11, <2>12 DEF SetupInv
<1>9. ASSUME NEW c \in SetupCalls, WriteRow(c) PROVE SetupInv'
  <2>. DEFINE r == call[c].row
              row == Written(call[c].does, rows[r], call[c].read)
  <2>1. /\ UNCHANGED <<sites, step, calls, doubled, siteGone>>
        /\ rows' = [rows EXCEPT ![r] = row]
        /\ takenBack' = (takenBack \/ (rows[r].named /\ ~row.named))
        /\ reopened' = (reopened \/ (rows[r].done /\ ~row.done))
        /\ call[c] # NoSettingCall /\ call[c].at = "write" /\ call[c].does # "site"
        /\ call' = [call EXCEPT ![c].at = "answer"]
    BY <1>9 DEF WriteRow, IsAt, MovesOn
  <2>2. call[c] \in SettingCall /\ Past(c) BY <1>2, <2>1 DEF Past
  <2>3. /\ r \in MadeRows
        /\ call[c].does \in {"name", "complete", "reopen", "update"}
        /\ call[c].read.named => takenBack \/ rows[r].named
        /\ call[c].does = "complete" => call[c].read.named /\ SiteThere
    BY <1>1, <2>1, <2>2 DEF ReadStands, ReadHolds
  <2>4. rows[r] \in SettingRow /\ call[c].read \in SettingRow
    BY <1>1, <2>2, <2>3 DEF SetupShape, MadeRows, SettingCall
  <2>5. /\ row \in SettingRow
        /\ call[c].does = "name" => row.named /\ ~row.done
        /\ call[c].does = "complete" => row.done /\ row.named = rows[r].named
        /\ call[c].does = "reopen" => ~row.done /\ row.named = rows[r].named
        /\ call[c].does = "update" => row.named = call[c].read.named /\ row.done = rows[r].done
    BY <2>3, <2>4 DEF Written, SettingRow
  <2>6. row # NoRow BY <2>5, SettingAssumption DEF SettingRow
  <2>. HIDE DEF row
  <2>7. /\ rows'[r] = row /\ \A s \in MadeRows \ {r} : rows'[s] = rows[s]
        /\ MadeRows' = MadeRows
    <3>1. r \in SettingRows /\ DOMAIN rows = SettingRows BY <1>1, <2>3 DEF MadeRows, SetupShape
    <3>. HIDE DEF r
    <3>. QED BY <2>1, <2>3, <2>6, <3>1 DEF MadeRows
  <2>8. /\ call'[c] = [call[c] EXCEPT !.at = "answer"]
        /\ \A d \in SetupCalls \ {c} : call'[d] = call[d]
    BY <1>3, <2>1
  <2>9. /\ call'[c].at = "answer" /\ call'[c].does = call[c].does /\ call'[c].row = r
        /\ call'[c].read = call[c].read
    BY <2>2, <2>8 DEF SettingCall
  <2>10. /\ \A s \in MadeRows : rows[s].named => takenBack' \/ rows'[s].named
         /\ \A s \in MadeRows : rows[s].done => reopened' \/ rows'[s].done
         /\ takenBack => takenBack'
         /\ reopened => reopened'
    BY <2>1, <2>7
  <2>. HIDE DEF r
  <2>11. (SiteThere' <=> SiteThere) /\ (AllNamed => AllNamed')
    BY <2>1, <2>7, <2>10 DEF SiteThere, AllNamed
  <2>12. RoomForRows'
    <3>1. Creating' \subseteq Creating BY <2>8, <2>9 DEF Creating, IsAt
    <3>. QED BY <1>1, <2>7, <3>1, RoomKept
  <2>13. ReadStands'
    <3>. SUFFICES ASSUME NEW d \in SetupCalls, Past(d)' PROVE ReadHolds(d)' BY DEF ReadStands
    <3>1. CASE d # c
      <4>1. call'[d] = call[d] /\ Past(d) BY <2>8, <3>1 DEF Past
      <4>2. ReadHolds(d) BY <1>1, <4>1 DEF ReadStands
      <4>3. SiteThere' <=> SiteThere BY <2>11
      <4>. QED BY <2>7, <2>10, <4>1, <4>2, <4>3 DEF ReadHolds
    <3>2. CASE d = c
      <4>1. call[c].read.done => reopened \/ rows[r].done BY <1>1, <2>2 DEF ReadStands, ReadHolds, r
      <4>. QED BY <2>3, <2>5, <2>7, <2>9, <2>10, <3>2, <4>1 DEF ReadHolds
    <3>. QED BY <3>1, <3>2
  <2>14. SiteCalls' BY <1>1, <2>1, <2>8, <2>9, <2>11 DEF SiteCalls
  <2>15. OneRow' BY <1>1, <2>1, <2>7 DEF OneRow
  <2>16. WizardKnows'
    <3>1. step \in {2, 3} => AllNamed' BY <1>1, <2>11 DEF WizardKnows
    <3>2. step = 3 => SiteThere' BY <1>1, <2>11 DEF WizardKnows
    <3>3. ASSUME step = LetIn, ~reopened' PROVE \E s \in MadeRows : rows'[s].done
      <4>1. PICK s \in MadeRows : rows[s].done BY <1>1, <2>10, <3>3 DEF WizardKnows
      <4>. QED BY <2>10, <3>3, <4>1
    <3>4. ASSUME NEW s \in MadeRows, rows'[s].done
          PROVE  (rows'[s].named \/ takenBack') /\ SiteThere'
      <4>1. CASE s # r BY <1>1, <2>7, <2>10, <2>11, <3>4, <4>1 DEF WizardKnows
      <4>2. CASE s = r
        <5>1. row.done /\ rows'[s].named = row.named BY <2>7, <3>4, <4>2
        <5>2. CASE call[c].does = "complete" BY <2>3, <2>5, <2>10, <2>11, <5>1, <5>2
        <5>3. CASE call[c].does = "update"
          <6>1. rows[r].done BY <2>5, <5>1, <5>3
          <6>2. (rows[r].named \/ takenBack) /\ SiteThere BY <1>1, <2>3, <6>1 DEF WizardKnows
          <6>. QED BY <2>1, <2>10, <2>11, <5>1, <6>2
        <5>. QED BY <2>3, <2>5, <5>1, <5>2, <5>3
      <4>. QED BY <4>1, <4>2
    <3>. QED BY <2>1, <2>7, <3>1, <3>2, <3>3, <3>4 DEF WizardKnows
  <2>. QED BY <1>0, <2>12, <2>13, <2>14, <2>15, <2>16 DEF SetupInv
<1>10. ASSUME NEW c \in SetupCalls, CreateSite(c) PROVE SetupInv'
  <2>1. /\ UNCHANGED <<rows, step, calls, doubled, takenBack, siteGone, reopened>>
        /\ call[c] # NoSettingCall /\ call[c].at = "write" /\ call[c].does = "site"
        /\ call' = [call EXCEPT ![c].at = "answer"] /\ sites' = sites + 1
    BY <1>10 DEF CreateSite, IsAt, MovesOn
  <2>2. call[c] \in SettingCall BY <1>2, <2>1
  <2>3. /\ call'[c] = [call[c] EXCEPT !.at = "answer"]
        /\ \A d \in SetupCalls \ {c} : call'[d] = call[d]
    BY <1>3, <2>1
  <2>4. call'[c].at = "answer" /\ call'[c].does = call[c].does
    BY <2>2, <2>3 DEF SettingCall
  <2>5. MadeRows' = MadeRows /\ (AllNamed' <=> AllNamed) BY <2>1 DEF MadeRows, AllNamed
  <2>6. SiteThere'
    <3>1. sites \in Nat BY <1>1, SettingAssumption DEF SetupShape
    <3>. QED BY <2>1, <3>1 DEF SiteThere
  <2>7. RoomForRows'
    <3>1. Creating' \subseteq Creating BY <2>3, <2>4 DEF Creating, IsAt
    <3>. QED BY <1>1, <2>5, <3>1, RoomKept
  <2>8. ReadStands' BY <1>1, <2>1, <2>3, <2>4, <2>5, <2>6 DEF ReadStands, ReadHolds, Past
  <2>9. SiteCalls' BY <1>1, <2>1, <2>3, <2>4, <2>5, <2>6 DEF SiteCalls
  <2>10. OneRow' /\ WizardKnows' BY <1>1, <2>1, <2>5, <2>6 DEF OneRow, WizardKnows
  <2>. QED BY <1>0, <2>7, <2>8, <2>9, <2>10 DEF SetupInv
<1>11. ASSUME NEW c \in SetupCalls, AnswerCall(c) \/ CallFails(c) PROVE SetupInv'
  <2>1. /\ UNCHANGED <<rows, sites, calls, doubled, takenBack, siteGone, reopened>>
        /\ call[c] # NoSettingCall /\ call[c] \in SettingCall
        /\ call'[c] = NoSettingCall
        /\ \A d \in SetupCalls \ {c} : call'[d] = call[d]
    BY <1>2, <1>3, <1>11 DEF AnswerCall, CallFails, IsAt
  <2>2. MadeRows' = MadeRows /\ (SiteThere' <=> SiteThere) /\ (AllNamed' <=> AllNamed)
    BY <2>1 DEF MadeRows, SiteThere, AllNamed
  <2>3. Creating' \subseteq Creating BY <2>1 DEF Creating, IsAt
  <2>4. RoomForRows' BY <1>1, <2>2, <2>3, RoomKept
  <2>5. ReadStands' BY <1>1, <2>1, <2>2 DEF ReadStands, ReadHolds, Past
  <2>6. SiteCalls' BY <1>1, <2>1, <2>2 DEF SiteCalls
  <2>7. OneRow' BY <1>1, <2>1, <2>2 DEF OneRow
  <2>8. CASE step' = step BY <1>0, <1>1, <2>1, <2>2, <2>4, <2>5, <2>6, <2>7, <2>8
                         DEF WizardKnows, SetupInv
  <2>9. CASE AnswerCall(c) /\ c = Wizard
    <3>1. /\ call[c].at = "answer" /\ step' = Led(call[c].does, call[c].read)
          /\ call[c].does \in {"status", "name", "site", "complete"}
      BY <1>1, <2>1, <2>9 DEF AnswerCall, IsAt, SiteCalls
    <3>2. call[c].does = "site" => AllNamed /\ SiteThere
      BY <1>1, <2>1, <2>9, <3>1 DEF SiteCalls
    <3>3. call[c].does # "site" =>
            /\ call[c].row \in MadeRows
            /\ call[c].read.done => reopened \/ rows[call[c].row].done
            /\ call[c].does = "complete" => reopened \/ rows[call[c].row].done
            /\ call[c].does = "name" => takenBack \/ rows[call[c].row].named
      BY <1>1, <2>1, <3>1 DEF ReadStands, ReadHolds, Past
    <3>4. WizardKnows'
      <4>. SUFFICES /\ step' \in {2, 3} => AllNamed
                    /\ step' = 3 => SiteThere
                    /\ step' = LetIn /\ ~reopened => \E r \in MadeRows : rows[r].done
        BY <1>1, <2>1, <2>2 DEF WizardKnows
      <4>1. CASE call[c].does = "site" BY <3>1, <3>2, <4>1 DEF Led, LetIn
      <4>2. CASE call[c].does = "complete" BY <3>1, <3>3, <4>2 DEF Led, LetIn
      <4>3. CASE call[c].does = "name"
        <5>1. AllNamed BY <1>1, <3>3, <4>3 DEF AllNamed, OneRow
        <5>. QED BY <3>1, <4>3, <5>1 DEF Led, LetIn
      <4>4. CASE call[c].does = "status" /\ call[c].read.done
        BY <3>1, <3>3, <4>4 DEF Led, LetIn
      <4>5. CASE call[c].does = "status" /\ ~call[c].read.done
        <5>1. step' = IF step = AtGate THEN 0 ELSE step BY <3>1, <4>5 DEF Led
        <5>. QED BY <1>1, <5>1 DEF WizardKnows, LetIn
      <4>. QED BY <3>1, <4>1, <4>2, <4>3, <4>4, <4>5
    <3>. QED BY <1>0, <2>4, <2>5, <2>6, <2>7, <3>4 DEF SetupInv
  <2>. QED BY <1>11, <2>8, <2>9 DEF AnswerCall, CallFails
<1>. QED BY <1>4, <1>5, <1>6, <1>7, <1>8, <1>9, <1>10, <1>11 DEF SetupNext

LEMMA SetupInvStutter == ASSUME SetupInv, UNCHANGED setupVars PROVE SetupInv'
<1>. USE DEF setupVars
<1>1. MadeRows' = MadeRows /\ Creating' = Creating BY DEF MadeRows, Creating, IsAt
<1>2. (SiteThere' <=> SiteThere) /\ (AllNamed' <=> AllNamed) BY <1>1 DEF SiteThere, AllNamed
<1>3. SetupShape' /\ RoomForRows' /\ OneRow' /\ WizardKnows'
  BY <1>1, <1>2 DEF SetupInv, SetupShape, RoomForRows, OneRow, WizardKnows
<1>4. ReadStands' BY <1>1, <1>2 DEF SetupInv, ReadStands, ReadHolds, Past
<1>5. SiteCalls' BY <1>2 DEF SetupInv, SiteCalls
<1>. QED BY <1>3, <1>4, <1>5 DEF SetupInv

LEMMA SetupInvInit == SetupInit => SetupInv
<1>. SUFFICES ASSUME SetupInit PROVE SetupInv OBVIOUS
<1>. USE DEF SetupInit
<1>1. MadeRows = {} /\ Creating = {} BY DEF MadeRows, Creating, IsAt
<1>2. Cardinality(SetupCalls) \in Nat /\ Cardinality({}) = 0
  BY SettingAssumption, FS_CardinalityType, FS_EmptySet
<1>3. SetupShape
  <2>1. rows \in [SettingRows -> {NoRow} \cup SettingRow] OBVIOUS
  <2>2. call \in [SetupCalls -> {NoSettingCall} \cup SettingCall] OBVIOUS
  <2>3. step \in AtGate .. LetIn BY DEF AtGate, LetIn
  <2>4. sites \in 0 .. MaxSetupSites /\ calls \in 0 .. MaxSettingCalls BY SettingAssumption
  <2>. QED BY <2>1, <2>2, <2>3, <2>4 DEF SetupShape
<1>4. RoomForRows BY <1>1, <1>2 DEF RoomForRows
<1>5. ReadStands /\ SiteCalls BY DEF ReadStands, SiteCalls, Past
<1>6. OneRow /\ WizardKnows BY <1>1 DEF OneRow, WizardKnows, AtGate, LetIn
<1>. QED BY <1>3, <1>4, <1>5, <1>6 DEF SetupInv

\* A setup is complete only with a name and a site, whoever is let in is so
\* because it is complete, and the last step of the wizard is not reached
\* without both: but for a site deleted, a name a late update took back, a setup
\* reopened and rows doubled, which are all the ways there are.
THEOREM SetupsAreSound ==
  SetupInit /\ [][SetupNext]_setupVars => [](SetupTypeOK /\ SetupIsSound)
<1>1. SetupInv => SetupTypeOK
  BY DEF SetupInv, SetupShape, SetupTypeOK, SettingRow, SettingCall
<1>2. SetupInv /\ [SetupNext]_setupVars => SetupInv' BY SetupInvKept, SetupInvStutter
<1>. QED BY <1>1, <1>2, SetupInvInit, SetupInvImplies, PTL

-----------------------------------------------------------------------------
(* The snapshots of the storage (NetAppSnapshots) *)

Integration == [cluster : Clusters, snapshot : Snapshot \cup {Unconfigured}]
StorageCall ==
  [site : NetAppSites, step : {"reading", "answered", "failed"}, cluster : Clusters,
   read : [Collections -> Nat], overtaken : BOOLEAN]
StorageShape ==
  /\ integrations \in [NetAppSites -> {Unconfigured} \cup Integration]
  /\ storageCalls \in [StorageCalls -> {NoStorageCall} \cup StorageCall]
  /\ storageSite \in NetAppSites
  /\ cached \in [NetAppSites -> {Unconfigured} \cup Snapshot]

IsWhole(snapshot) ==
  \A k \in Collections :
    snapshot.read[k] = PagesOf[<<snapshot.cluster, k>>] /\ snapshot.read[k] <= PageLimit

(* A reading has read no more pages than there are, of the cluster that is *)
(* configured still, or it has been overtaken; what is kept was read of    *)
(* that cluster, for its site.                                             *)
ReadingsHold ==
  \A c \in StorageCalls : ReadingCluster(c) =>
    /\ integrations[storageCalls[c].site] # Unconfigured
    /\ storageCalls[c].overtaken
       \/ storageCalls[c].cluster = integrations[storageCalls[c].site].cluster
    /\ \A k \in Collections : /\ storageCalls[c].read[k] <= PageLimit
                              /\ storageCalls[c].read[k] <= PagesOf[<<storageCalls[c].cluster, k>>]
KeptIsOwn ==
  \A s \in NetAppSites : SnapshotOf(s) # Unconfigured =>
    /\ IsWhole(SnapshotOf(s)) /\ SnapshotOf(s).site = s
    /\ s \in reconfigured \/ SnapshotOf(s).cluster = integrations[s].cluster
CachedIsOwn ==
  \A s \in NetAppSites : cached[s] # Unconfigured =>
    IsWhole(cached[s]) /\ (s \in misplaced \/ cached[s].site = s)
StorageInv == StorageShape /\ ReadingsHold /\ KeptIsOwn /\ CachedIsOwn

LEMMA StorageInvInit == StorageInit => StorageInv
<1>. SUFFICES ASSUME StorageInit PROVE StorageInv OBVIOUS
<1>. USE DEF StorageInit
<1>1. StorageShape BY DEF StorageShape
<1>2. ReadingsHold BY DEF ReadingsHold, ReadingCluster
<1>3. KeptIsOwn /\ CachedIsOwn BY DEF KeptIsOwn, CachedIsOwn, SnapshotOf
<1>. QED BY <1>1, <1>2, <1>3 DEF StorageInv

LEMMA SnapshotTyped ==
  ASSUME StorageShape, NEW s \in NetAppSites
  PROVE  SnapshotOf(s) \in {Unconfigured} \cup Snapshot
BY DEF StorageShape, SnapshotOf, Integration

(* What is shown comes from what is kept.                                  *)
LEMMA FetchedIsOwn ==
  ASSUME StorageInv, NEW s \in NetAppSites, NEW from \in NetAppSites,
         cached' = [cached EXCEPT ![s] = SnapshotOf(from)],
         misplaced' = IF s = from THEN misplaced \ {s} ELSE misplaced \cup {s}
  PROVE  cached' \in [NetAppSites -> {Unconfigured} \cup Snapshot] /\ CachedIsOwn'
<1>. USE DEF StorageInv
<1>1. SnapshotOf(from) \in {Unconfigured} \cup Snapshot BY SnapshotTyped
<1>2. cached' \in [NetAppSites -> {Unconfigured} \cup Snapshot] BY <1>1 DEF StorageShape
<1>3. SnapshotOf(from) # Unconfigured => IsWhole(SnapshotOf(from)) /\ SnapshotOf(from).site = from
  BY DEF KeptIsOwn
<1>4. /\ cached'[s] = SnapshotOf(from)
      /\ \A t \in NetAppSites \ {s} : cached'[t] = cached[t] /\ (t \in misplaced' <=> t \in misplaced)
  BY DEF StorageShape
<1>. HIDE DEF StorageInv
<1>5. CachedIsOwn'
  <2>. SUFFICES ASSUME NEW t \in NetAppSites, cached'[t] # Unconfigured
                PROVE  IsWhole(cached'[t]) /\ (t \in misplaced' \/ cached'[t].site = t)
    BY DEF CachedIsOwn, IsWhole
  <2>1. CASE t = s BY <1>3, <1>4, <2>1
  <2>2. CASE t # s BY <1>4, <2>2 DEF StorageInv, CachedIsOwn
  <2>. QED BY <2>1, <2>2
<1>. QED BY <1>2, <1>5

LEMMA StorageInvKept == ASSUME StorageInv, StorageNext PROVE StorageInv'
<1>1. StorageShape /\ ReadingsHold /\ KeptIsOwn /\ CachedIsOwn BY DEF StorageInv
<1>2. \A c \in StorageCalls : storageCalls[c] # NoStorageCall => storageCalls[c] \in StorageCall
  BY <1>1 DEF StorageShape
<1>3. ASSUME UNCHANGED integrations, UNCHANGED reconfigured PROVE KeptIsOwn'
  BY <1>1, <1>3 DEF KeptIsOwn, SnapshotOf, IsWhole
<1>4. ASSUME UNCHANGED cached, UNCHANGED misplaced PROVE CachedIsOwn'
  BY <1>1, <1>4 DEF CachedIsOwn, IsWhole
<1>5. CASE FetchStorage
  <2>1. UNCHANGED <<integrations, storageCalls, storageSite, reconfigured>> BY <1>5 DEF FetchStorage
  <2>2. storageSite \in NetAppSites BY <1>1 DEF StorageShape
  <2>3. /\ cached' = [cached EXCEPT ![storageSite] = SnapshotOf(storageSite)]
        /\ misplaced' = misplaced \ {storageSite}
    BY <1>5 DEF FetchStorage, Fetched
  <2>4. cached' \in [NetAppSites -> {Unconfigured} \cup Snapshot] /\ CachedIsOwn'
    BY <2>2, <2>3, FetchedIsOwn
  <2>5. StorageShape' BY <1>1, <2>1, <2>4 DEF StorageShape
  <2>6. ReadingsHold' BY <1>1, <2>1 DEF ReadingsHold, ReadingCluster
  <2>. QED BY <1>3, <2>1, <2>4, <2>5, <2>6 DEF StorageInv
<1>6. ASSUME NEW s \in NetAppSites, ChooseStorageSite(s) PROVE StorageInv'
  <2>. USE <1>6 DEF ChooseStorageSite
  <2>1. StorageShape' /\ ReadingsHold'
    BY <1>1 DEF StorageShape, ReadingsHold, ReadingCluster
  <2>. QED BY <1>3, <1>4, <2>1 DEF StorageInv
<1>7. ASSUME NEW c \in StorageCalls, NEW k \in Clusters, SaveConfiguration(c, k) PROVE StorageInv'
  <2>. DEFINE s == storageSite
              new == [cluster |-> k,
                      snapshot |-> IF integrations[s] = Unconfigured THEN Unconfigured
                                   ELSE integrations[s].snapshot]
              request == [site |-> s, step |-> "answered", cluster |-> k,
                       read |-> [n \in Collections |-> 0], overtaken |-> FALSE]
  <2>1. /\ integrations' = [integrations EXCEPT ![s] = new]
        /\ storageCalls' = [Overtakes(s) EXCEPT ![c] = request]
        /\ UNCHANGED <<storageSite, cached, misplaced>>
        /\ reconfigured' = IF integrations[s] = Unconfigured THEN reconfigured ELSE reconfigured \cup {s}
    BY <1>7 DEF SaveConfiguration, Configure
  <2>2. new \in Integration /\ new # Unconfigured /\ new.snapshot = SnapshotOf(s)
    <3>1. s \in NetAppSites BY <1>1 DEF StorageShape
    <3>2. new \in Integration BY <1>1, <3>1 DEF StorageShape, Integration
    <3>. QED BY <3>2, StorageAssumption DEF Integration, SnapshotOf
  <2>3. request \in StorageCall BY <1>1 DEF StorageShape, StorageCall
  <2>4. \A d \in StorageCalls : Overtakes(s)[d] \in {NoStorageCall} \cup StorageCall
    BY <1>1 DEF Overtakes, StorageShape, StorageCall
  <2>. HIDE DEF new, request
  <2>5. /\ storageCalls'[c] = request
        /\ \A d \in StorageCalls \ {c} : storageCalls'[d] = Overtakes(s)[d]
        /\ storageCalls' \in [StorageCalls -> {NoStorageCall} \cup StorageCall]
    BY <2>1, <2>3, <2>4 DEF Overtakes
  <2>6. /\ integrations'[s] = new
        /\ \A t \in NetAppSites \ {s} : integrations'[t] = integrations[t]
        /\ integrations' \in [NetAppSites -> {Unconfigured} \cup Integration]
    BY <1>1, <2>1, <2>2 DEF StorageShape
  <2>7. StorageShape' BY <1>1, <2>1, <2>5, <2>6 DEF StorageShape
  <2>8. ReadingsHold'
    <3>. SUFFICES ASSUME NEW d \in StorageCalls, ReadingCluster(d)'
                  PROVE  (/\ integrations[storageCalls[d].site] # Unconfigured
                          /\ storageCalls[d].overtaken
                             \/ storageCalls[d].cluster = integrations[storageCalls[d].site].cluster
                          /\ \A n \in Collections :
                               /\ storageCalls[d].read[n] <= PageLimit
                               /\ storageCalls[d].read[n] <= PagesOf[<<storageCalls[d].cluster, n>>])'
      BY DEF ReadingsHold
    <3>1. d # c BY <2>5 DEF ReadingCluster, request
    <3>2. storageCalls'[d] = Overtakes(s)[d] /\ storageCalls[d] # NoStorageCall
      BY <2>5, <3>1 DEF ReadingCluster, Overtakes
    <3>3. storageCalls[d] \in StorageCall BY <1>2, <3>2
    <3>4. CASE storageCalls[d].site = s
      <4>1. storageCalls'[d] = [storageCalls[d] EXCEPT !.overtaken = TRUE]
        BY <3>2, <3>4 DEF Overtakes
      <4>2. /\ storageCalls'[d].overtaken /\ storageCalls'[d].site = s
            /\ storageCalls'[d].read = storageCalls[d].read
            /\ storageCalls'[d].cluster = storageCalls[d].cluster
            /\ storageCalls'[d].step = storageCalls[d].step
        BY <3>3, <3>4, <4>1 DEF StorageCall
      <4>3. ReadingCluster(d) BY <3>2, <4>2 DEF ReadingCluster
      <4>. QED BY <1>1, <2>2, <2>6, <4>2, <4>3 DEF ReadingsHold
    <3>5. CASE storageCalls[d].site # s
      <4>1. storageCalls'[d] = storageCalls[d] BY <3>2, <3>5 DEF Overtakes
      <4>2. ReadingCluster(d) BY <4>1 DEF ReadingCluster
      <4>3. storageCalls[d].site \in NetAppSites BY <3>3 DEF StorageCall
      <4>. QED BY <1>1, <2>6, <3>5, <4>1, <4>2, <4>3 DEF ReadingsHold
    <3>. QED BY <3>4, <3>5
  <2>9. KeptIsOwn'
    <3>1. \A t \in NetAppSites : SnapshotOf(t)' = SnapshotOf(t)
      BY <2>2, <2>6 DEF SnapshotOf
    <3>2. SnapshotOf(s) # Unconfigured => s \in reconfigured' BY <2>1 DEF SnapshotOf
    <3>3. reconfigured \subseteq reconfigured' BY <2>1
    <3>. QED BY <1>1, <2>6, <3>1, <3>2, <3>3 DEF KeptIsOwn, IsWhole
  <2>. QED BY <1>4, <2>1, <2>7, <2>8, <2>9 DEF StorageInv
<1>8. ASSUME NEW c \in StorageCalls, NEW k \in Collections, ReadPage(c, k) PROVE StorageInv'
  <2>1. /\ ReadingCluster(c) /\ More(c, k) /\ storageCalls[c].read[k] < PageLimit
        /\ storageCalls' = [storageCalls EXCEPT ![c].read[k] = @ + 1]
        /\ UNCHANGED <<integrations, storageSite, cached, reconfigured, misplaced>>
    BY <1>8 DEF ReadPage
  <2>2. storageCalls[c] \in StorageCall BY <1>2, <2>1 DEF ReadingCluster
  <2>3. /\ storageCalls'[c] = [storageCalls[c] EXCEPT !.read[k] = @ + 1]
        /\ \A d \in StorageCalls \ {c} : storageCalls'[d] = storageCalls[d]
    BY <1>1, <2>1 DEF StorageShape
  <2>4. storageCalls[c].read \in [Collections -> Nat] BY <2>2 DEF StorageCall
  <2>5. /\ storageCalls'[c].read = [storageCalls[c].read EXCEPT ![k] = @ + 1]
        /\ storageCalls'[c].site = storageCalls[c].site
        /\ storageCalls'[c].step = storageCalls[c].step
        /\ storageCalls'[c].cluster = storageCalls[c].cluster
        /\ storageCalls'[c].overtaken = storageCalls[c].overtaken
    BY <2>2, <2>3 DEF StorageCall
  <2>6. storageCalls'[c].read \in [Collections -> Nat] BY <2>4, <2>5
  <2>7. storageCalls'[c] \in StorageCall BY <2>2, <2>3, <2>4 DEF StorageCall
  <2>8. StorageShape' BY <1>1, <2>1, <2>7 DEF StorageShape
  <2>9. \A n \in Collections :
          /\ storageCalls'[c].read[n] <= PageLimit
          /\ storageCalls'[c].read[n] <= PagesOf[<<storageCalls[c].cluster, n>>]
    <3>. TAKE n \in Collections
    <3>1. /\ storageCalls[c].read[n] \in Nat /\ PageLimit \in Nat
          /\ PagesOf[<<storageCalls[c].cluster, n>>] \in Nat
      BY <2>2, <2>4, StorageAssumption DEF StorageCall
    <3>2. /\ storageCalls[c].read[n] <= PageLimit
          /\ storageCalls[c].read[n] <= PagesOf[<<storageCalls[c].cluster, n>>]
      BY <1>1, <2>1 DEF ReadingsHold
    <3>3. storageCalls'[c].read[n] = IF n = k THEN storageCalls[c].read[n] + 1 ELSE storageCalls[c].read[n]
      BY <2>4, <2>5
    <3>. QED BY <2>1, <3>1, <3>2, <3>3 DEF More
  <2>10. ReadingsHold'
    BY <1>1, <2>1, <2>3, <2>5, <2>9 DEF ReadingsHold, ReadingCluster
  <2>. QED BY <1>3, <1>4, <2>1, <2>8, <2>10 DEF StorageInv
<1>9. ASSUME NEW c \in StorageCalls, AskRefresh(c) PROVE StorageInv'
  <2>. DEFINE s == storageSite
              request == [site |-> s, step |-> "reading", cluster |-> integrations[s].cluster,
                       read |-> [k \in Collections |-> 0], overtaken |-> FALSE]
  <2>1. /\ integrations[s] # Unconfigured
        /\ storageCalls' = [storageCalls EXCEPT ![c] = request]
        /\ UNCHANGED <<integrations, storageSite, cached, reconfigured, misplaced>>
    BY <1>9 DEF AskRefresh, StartReading
  <2>2. request \in StorageCall
    <3>1. s \in NetAppSites /\ integrations[s].cluster \in Clusters
      BY <1>1, <2>1 DEF StorageShape, Integration
    <3>. QED BY <3>1 DEF StorageCall
  <2>3. \A k \in Collections : request.read[k] <= PageLimit /\ request.read[k] <= PagesOf[<<request.cluster, k>>]
    <3>. TAKE k \in Collections
    <3>1. PageLimit \in Nat /\ PagesOf[<<request.cluster, k>>] \in Nat
      BY <2>2, StorageAssumption DEF StorageCall
    <3>. QED BY <3>1
  <2>4. request.site = s /\ request.cluster = integrations[s].cluster OBVIOUS
  <2>. HIDE DEF request
  <2>5. storageCalls'[c] = request /\ \A d \in StorageCalls \ {c} : storageCalls'[d] = storageCalls[d]
    BY <1>1, <2>1 DEF StorageShape
  <2>6. StorageShape' BY <1>1, <2>1, <2>2 DEF StorageShape
  <2>7. ReadingsHold'
    BY <1>1, <2>1, <2>3, <2>4, <2>5 DEF ReadingsHold, ReadingCluster
  <2>. QED BY <1>3, <1>4, <2>1, <2>6, <2>7 DEF StorageInv
<1>10. ASSUME NEW c \in StorageCalls, ReadingFails(c) PROVE StorageInv'
  <2>1. /\ storageCalls' = [storageCalls EXCEPT ![c].step = "failed"] /\ ReadingCluster(c)
        /\ UNCHANGED <<integrations, storageSite, cached, reconfigured, misplaced>>
    BY <1>10 DEF ReadingFails
  <2>2. storageCalls[c] \in StorageCall BY <1>2, <2>1 DEF ReadingCluster
  <2>3. /\ storageCalls'[c] = [storageCalls[c] EXCEPT !.step = "failed"]
        /\ \A d \in StorageCalls \ {c} : storageCalls'[d] = storageCalls[d]
    BY <1>1, <2>1 DEF StorageShape
  <2>4. storageCalls'[c] \in StorageCall /\ storageCalls'[c].step = "failed"
    BY <2>2, <2>3 DEF StorageCall
  <2>5. StorageShape' BY <1>1, <2>1, <2>4 DEF StorageShape
  <2>6. ReadingsHold' BY <1>1, <2>1, <2>3, <2>4 DEF ReadingsHold, ReadingCluster
  <2>. QED BY <1>3, <1>4, <2>1, <2>5, <2>6 DEF StorageInv
<1>11. ASSUME NEW c \in StorageCalls, KeepSnapshot(c) PROVE StorageInv'
  <2>. DEFINE s == storageCalls[c].site
              snapshot == [site |-> s, cluster |-> storageCalls[c].cluster,
                           read |-> storageCalls[c].read]
              new == [cluster |-> integrations[s].cluster, snapshot |-> snapshot]
  <2>1. /\ ReadingCluster(c) /\ \A k \in Collections : ~More(c, k)
        /\ integrations' = [integrations EXCEPT ![s] = new]
        /\ storageCalls' = [storageCalls EXCEPT ![c].step = "answered"]
        /\ reconfigured' = IF storageCalls[c].overtaken THEN reconfigured \cup {s}
                           ELSE reconfigured \ {s}
        /\ UNCHANGED <<storageSite, cached, misplaced>>
    BY <1>11 DEF KeepSnapshot
  <2>2. storageCalls[c] \in StorageCall BY <1>2, <2>1 DEF ReadingCluster
  <2>3. /\ integrations[s] # Unconfigured
        /\ storageCalls[c].overtaken \/ storageCalls[c].cluster = integrations[s].cluster
        /\ \A k \in Collections : /\ storageCalls[c].read[k] <= PageLimit
                                  /\ storageCalls[c].read[k] <= PagesOf[<<storageCalls[c].cluster, k>>]
    BY <1>1, <2>1 DEF ReadingsHold
  <2>4. s \in NetAppSites /\ snapshot \in Snapshot BY <2>2 DEF StorageCall, Snapshot
  <2>5. new \in Integration /\ new # Unconfigured /\ new.snapshot = snapshot
        /\ new.cluster = integrations[s].cluster
    <3>1. integrations[s] \in Integration BY <1>1, <2>3, <2>4 DEF StorageShape
    <3>2. new \in Integration BY <2>4, <3>1 DEF Integration
    <3>. QED BY <3>2, StorageAssumption DEF Integration
  <2>6. IsWhole(snapshot)
    <3>. SUFFICES ASSUME NEW k \in Collections
                  PROVE  storageCalls[c].read[k] = PagesOf[<<storageCalls[c].cluster, k>>]
                         /\ storageCalls[c].read[k] <= PageLimit
      BY DEF IsWhole
    <3>1. storageCalls[c].read[k] \in Nat /\ PagesOf[<<storageCalls[c].cluster, k>>] \in Nat
      BY <2>2, StorageAssumption DEF StorageCall
    <3>. QED BY <2>1, <2>3, <3>1 DEF More
  <2>7. snapshot # Unconfigured => snapshot.site = s /\ snapshot.cluster = storageCalls[c].cluster
    OBVIOUS
  <2>8. /\ storageCalls'[c] = [storageCalls[c] EXCEPT !.step = "answered"]
        /\ \A d \in StorageCalls \ {c} : storageCalls'[d] = storageCalls[d]
    BY <1>1, <2>1 DEF StorageShape
  <2>9. storageCalls'[c] \in StorageCall /\ storageCalls'[c].step = "answered"
    BY <2>2, <2>8 DEF StorageCall
  <2>. HIDE DEF snapshot, new
  <2>10. /\ integrations'[s] = new
         /\ \A t \in NetAppSites \ {s} : integrations'[t] = integrations[t]
    BY <1>1, <2>1, <2>4 DEF StorageShape
  <2>11. StorageShape'
    <3>1. integrations' \in [NetAppSites -> {Unconfigured} \cup Integration]
      BY <1>1, <2>1, <2>5 DEF StorageShape
    <3>2. storageCalls' \in [StorageCalls -> {NoStorageCall} \cup StorageCall]
      BY <1>1, <2>1, <2>9 DEF StorageShape
    <3>. QED BY <1>1, <2>1, <3>1, <3>2 DEF StorageShape
  <2>12. ReadingsHold'
    <3>1. \A d \in StorageCalls : ReadingCluster(d)' =>
            /\ ReadingCluster(d) /\ storageCalls'[d] = storageCalls[d]
            /\ storageCalls[d].site \in NetAppSites
      BY <1>2, <2>8, <2>9 DEF ReadingCluster, StorageCall
    <3>2. \A t \in NetAppSites : integrations[t] # Unconfigured =>
            integrations'[t] # Unconfigured /\ integrations'[t].cluster = integrations[t].cluster
      BY <2>5, <2>10
    <3>. QED BY <1>1, <3>1, <3>2 DEF ReadingsHold
  <2>13. KeptIsOwn'
    <3>. SUFFICES ASSUME NEW t \in NetAppSites, SnapshotOf(t)' # Unconfigured
                  PROVE  (/\ IsWhole(SnapshotOf(t)) /\ SnapshotOf(t).site = t
                          /\ t \in reconfigured \/ SnapshotOf(t).cluster = integrations[t].cluster)'
      BY DEF KeptIsOwn
    <3>1. CASE t = s
      <4>1. SnapshotOf(t)' = snapshot BY <2>5, <2>10, <3>1 DEF SnapshotOf
      <4>. QED BY <2>1, <2>3, <2>5, <2>6, <2>7, <2>10, <3>1, <4>1 DEF IsWhole
    <3>2. CASE t # s
      <4>1. SnapshotOf(t)' = SnapshotOf(t) /\ integrations'[t] = integrations[t]
        BY <2>10, <3>2 DEF SnapshotOf
      <4>2. t \in reconfigured => t \in reconfigured' BY <2>1, <3>2
      <4>. QED BY <1>1, <4>1, <4>2 DEF KeptIsOwn, IsWhole
    <3>. QED BY <3>1, <3>2
  <2>. QED BY <1>4, <2>1, <2>11, <2>12, <2>13 DEF StorageInv
<1>12. ASSUME NEW c \in StorageCalls, AnswerStorage(c) \/ TellStorageError(c) PROVE StorageInv'
  <2>1. /\ storageCalls[c] # NoStorageCall
        /\ storageCalls' = [storageCalls EXCEPT ![c] = NoStorageCall]
        /\ UNCHANGED <<integrations, storageSite, reconfigured>>
    BY <1>12 DEF AnswerStorage, TellStorageError
  <2>2. storageSite \in NetAppSites /\ storageCalls[c].site \in NetAppSites
    BY <1>1, <1>2, <2>1 DEF StorageShape, StorageCall
  <2>3. \E from \in NetAppSites :
          /\ cached' = [cached EXCEPT ![storageSite] = SnapshotOf(from)]
          /\ misplaced' = IF storageSite = from THEN misplaced \ {storageSite}
                          ELSE misplaced \cup {storageSite}
    BY <1>12, <2>2 DEF AnswerStorage, TellStorageError, Fetched
  <2>4. cached' \in [NetAppSites -> {Unconfigured} \cup Snapshot] /\ CachedIsOwn'
    BY <2>2, <2>3, FetchedIsOwn
  <2>5. StorageShape' BY <1>1, <2>1, <2>4 DEF StorageShape
  <2>6. \A d \in StorageCalls : ReadingCluster(d)' =>
          ReadingCluster(d) /\ storageCalls'[d] = storageCalls[d]
    BY <1>1, <2>1 DEF StorageShape, ReadingCluster
  <2>7. ReadingsHold' BY <1>1, <2>1, <2>6 DEF ReadingsHold
  <2>. QED BY <1>3, <2>1, <2>4, <2>5, <2>7 DEF StorageInv
<1>. QED
  BY <1>5, <1>6, <1>7, <1>8, <1>9, <1>10, <1>11, <1>12 DEF StorageNext

\* A snapshot that is kept or shown holds every page of every collection of one
\* cluster; it is of the cluster its site is configured for, unless the site was
\* configured again since the reading began; and the page shows it under its
\* site, unless the operator left a site whose answer was still awaited.
THEOREM SnapshotsAreKept ==
  StorageInit /\ [][StorageNext]_storageVars => [](SnapshotsAreWhole /\ SnapshotsAreOwn)
<1>1. StorageInv /\ UNCHANGED storageVars => StorageInv'
  BY DEF storageVars, StorageInv, StorageShape, ReadingsHold, ReadingCluster, KeptIsOwn,
         CachedIsOwn, IsWhole, SnapshotOf
<1>2. StorageInv => SnapshotsAreWhole /\ SnapshotsAreOwn
  BY DEF StorageInv, KeptIsOwn, CachedIsOwn, IsWhole, SnapshotsAreWhole, SnapshotsAreOwn
<1>3. StorageInv /\ [StorageNext]_storageVars => StorageInv' BY <1>1, StorageInvKept
<1>. QED BY <1>2, <1>3, StorageInvInit, PTL

-----------------------------------------------------------------------------
(* The card of a host (IpamPage) *)

PanelInv == FieldsKeepTheirOwner /\ WrittenFromItself

\* Through operations that end late and hosts that follow one another, the
\* fields of the card are of the row they will be written to, and what is being
\* written was filled from it (the host's part of PagesHangTogether).
THEOREM TheCardKeepsItsHost ==
  PanelInit /\ [][PanelNext]_panelVars => [](FieldsKeepTheirOwner /\ WrittenFromItself)
<1>1. PanelInit => PanelInv
  BY DEF PanelInit, PanelInv, FieldsKeepTheirOwner, WrittenFromItself
<1>2. ASSUME PanelInv, [PanelNext]_panelVars PROVE PanelInv'
  <2>. USE <1>2 DEF PanelInv
  <2>1. ASSUME NEW h, Shows(h) PROVE FieldsKeepTheirOwner'
    <3>1. hostFields' = panelHost' BY <2>1 DEF Shows
    <3>2. CASE panelHost = NoHost
      BY <2>1, <3>1, <3>2 DEF Shows, Blank, FieldsKeepTheirOwner
    <3>3. CASE panelHost # NoHost
      <4>1. /\ UNCHANGED <<serviceFields, editingService>> /\ panelHost' = h
            /\ disturbed' = (disturbed \/ editingService \notin HostServices(h) \cup {Empty})
        BY <2>1, <3>3 DEF Shows
      <4>. QED BY <3>1, <4>1 DEF FieldsKeepTheirOwner, HostServices
    <3>. QED BY <3>2, <3>3
  <2>2. ASSUME UNCHANGED operations PROVE WrittenFromItself'
    BY <2>2 DEF WrittenFromItself
  <2>3. ASSUME NEW c, operations' = [operations EXCEPT ![c] = NoOperation] PROVE WrittenFromItself'
    BY <2>3 DEF WrittenFromItself
  <2>4. ASSUME UNCHANGED <<panelHost, hostFields, serviceFields, editingService, disturbed>>
        PROVE  FieldsKeepTheirOwner'
    BY <2>4 DEF FieldsKeepTheirOwner, HostServices
  <2>5. ASSUME NEW h, OpenPanel(h) PROVE PanelInv'
    BY <2>1, <2>2, <2>5 DEF OpenPanel
  <2>6. CASE ClosePanel
    BY <2>6 DEF ClosePanel, Blank, FieldsKeepTheirOwner, WrittenFromItself, HostServices
  <2>7. ASSUME NEW on \in BOOLEAN, EditHost(on) PROVE PanelInv'
    BY <2>2, <2>4, <2>7 DEF EditHost
  <2>8. ASSUME NEW s, BeginServiceEdit(s) PROVE PanelInv'
    BY <2>2, <2>8 DEF BeginServiceEdit, FieldsKeepTheirOwner, HostServices
  <2>9. CASE CancelServiceEdit
    BY <2>2, <2>9 DEF CancelServiceEdit, Cancelled, FieldsKeepTheirOwner, HostServices
  <2>10. ASSUME NEW c, NEW what, NEW about, NEW from, BeginOperation(c, what, about, from),
                what \in {"host", "service"} => from \in {about, Empty}
         PROVE  PanelInv'
    <3>1. WrittenFromItself' BY <2>10 DEF BeginOperation, WrittenFromItself
    <3>. QED BY <2>4, <2>10, <3>1 DEF BeginOperation
  <2>11. ASSUME NEW c \in PanelCalls, SaveHost(c) \/ CreateService(c) \/ SaveService(c) \/ ActOnly(c)
         PROVE  PanelInv'
    <3>1. CASE SaveHost(c) BY <2>10, <3>1 DEF SaveHost, FieldsKeepTheirOwner
    <3>2. CASE CreateService(c) BY <2>10, <3>2 DEF CreateService
    <3>3. CASE SaveService(c) BY <2>10, <3>3 DEF SaveService, FieldsKeepTheirOwner
    <3>4. CASE ActOnly(c) BY <2>10, <3>4 DEF ActOnly
    <3>. QED BY <2>11, <3>1, <3>2, <3>3, <3>4
  <2>12. ASSUME NEW c \in PanelCalls, OperationEnds(c) PROVE PanelInv'
    <3>1. UNCHANGED <<panelHost, hostFields>> BY <2>12 DEF OperationEnds
    <3>2. WrittenFromItself' BY <2>12 DEF OperationEnds, WrittenFromItself
    <3>3. \/ serviceFields' = Empty /\ disturbed' = (disturbed \/ editingService # Empty)
             /\ UNCHANGED editingService
          \/ Cancelled
          \/ UNCHANGED <<serviceFields, editingService, disturbed>>
      BY <2>12 DEF OperationEnds
    <3>. QED BY <3>1, <3>2, <3>3 DEF FieldsKeepTheirOwner, Cancelled, HostServices
  <2>13. ASSUME NEW c \in PanelCalls, OperationFails(c) PROVE PanelInv'
    BY <2>3, <2>4, <2>13 DEF OperationFails
  <2>14. ASSUME NEW c \in PanelCalls, Reloads(c) PROVE PanelInv'
    BY <2>1, <2>3, <2>14 DEF Reloads
  <2>15. CASE UNCHANGED panelVars BY <2>2, <2>4, <2>15 DEF panelVars
  <2>. QED
    BY <2>5, <2>6, <2>7, <2>8, <2>9, <2>11, <2>12, <2>13, <2>14, <2>15 DEF PanelNext
<1>. QED BY <1>1, <1>2, PTL DEF PanelInv

-----------------------------------------------------------------------------
(* The discovery page (DiscoveryPage) *)

(* A field that was not left behind holds a subnet of the site in view; the *)
(* form holds the schedule of the subnet of the panel, once that is known.  *)
FieldsFollow ==
  /\ scanSite \in ScanSites /\ listed \in {NotChosen, scanSite}
  /\ panelSubnet \in SubnetsOn(scanSite) \cup {NotChosen} \/ "panel" \in leftBehind
  /\ scanSubnet \in SubnetsOn(scanSite) \cup {NotChosen} \/ "scan" \in leftBehind
  /\ Offered # {} => panelSubnet # NotChosen /\ scanSubnet # NotChosen
FormFollows ==
  /\ NotChosen \notin schedules
  /\ panelSubnet = NotChosen => schedules = {}
  /\ panelSubnet \in schedules => scheduleFrom = panelSubnet
CandidatesKnown ==
  /\ candidate = NotChosen \/ candidate \in DOMAIN ScanDevices
  /\ \A c \in ScanCalls : scanCalls[c] # NoScanCall /\ scanCalls[c].what = "accept" =>
       scanCalls[c].about \in DOMAIN ScanDevices
ScanInv == FieldsFollow /\ FormFollows /\ CandidatesKnown /\ SentIsShown

LEMMA FirstIsOffered ==
  ASSUME NEW s \in ScanSites
  PROVE  /\ NotChosen \notin SubnetsOn(s)
         /\ SubnetsOn(s) # {} => ScanSubnets[s][1] \in SubnetsOn(s)
<1>1. NotChosen \notin SubnetsOn(s) BY ScanAssumption DEF AllSubnets
<1>2. ASSUME SubnetsOn(s) # {} PROVE 1 \in DOMAIN ScanSubnets[s]
  <2>1. PICK i \in DOMAIN ScanSubnets[s] : TRUE BY <1>2 DEF SubnetsOn
  <2>2. DOMAIN ScanSubnets[s] = 1 .. Len(ScanSubnets[s]) BY ScanAssumption
  <2>. QED BY <2>1, <2>2
<1>. QED BY <1>1, <1>2 DEF SubnetsOn

LEMMA ScanInvInit == ScanInit => ScanInv
BY DEF ScanInit, ScanInv, FieldsFollow, FormFollows, CandidatesKnown, SentIsShown, Offered

(* What a page sends is what it shows, and nothing on it changes.          *)
LEMMA SendsShown ==
  ASSUME ScanInv, NEW c \in ScanCalls, NEW what, NEW about, NEW visible, NEW from,
         SendsScan(c, what, about, visible, from), about = from,
         leftBehind = {} => about = visible,
         what = "accept" => about \in DOMAIN ScanDevices
  PROVE  ScanInv'
<1>1. scanCalls' = [scanCalls EXCEPT ![c] =
        [what |-> what, about |-> about, shown |-> visible, from |-> from, aware |-> leftBehind = {}]]
  BY DEF SendsScan
<1>2. SentIsShown'
  <2>. DEFINE request == [what |-> what, about |-> about, shown |-> visible, from |-> from,
                       aware |-> leftBehind = {}]
  <2>1. request.about = from /\ (request.aware => request.about = request.shown) /\ request.from = from OBVIOUS
  <2>2. scanCalls' = [scanCalls EXCEPT ![c] = request] BY <1>1
  <2>. HIDE DEF request
  <2>. QED BY <2>1, <2>2 DEF ScanInv, SentIsShown
<1>3. UNCHANGED <<scanSite, listed, panelSubnet, scheduleFrom, schedules, scanSubnet, candidate,
                  leftBehind>>
  BY DEF SendsScan
<1>4. FieldsFollow' /\ FormFollows' BY <1>3 DEF ScanInv, FieldsFollow, FormFollows, Offered
<1>5. CandidatesKnown' BY <1>1, <1>3 DEF ScanInv, CandidatesKnown
<1>. QED BY <1>2, <1>4, <1>5 DEF ScanInv

LEMMA ScanInvKept == ASSUME ScanInv, ScanPageNext PROVE ScanInv'
<1>1. FieldsFollow /\ FormFollows /\ CandidatesKnown /\ SentIsShown BY DEF ScanInv
<1>2. ASSUME UNCHANGED scanCalls, UNCHANGED candidate PROVE SentIsShown' /\ CandidatesKnown'
  BY <1>1, <1>2 DEF SentIsShown, CandidatesKnown
<1>3. ASSUME UNCHANGED <<panelSubnet, scheduleFrom, schedules>> PROVE FormFollows'
  BY <1>1, <1>3 DEF FormFollows
<1>4. ASSUME UNCHANGED <<scanSite, listed, panelSubnet, scanSubnet, leftBehind>> PROVE FieldsFollow'
  BY <1>1, <1>4 DEF FieldsFollow, Offered
<1>5. NotChosen \notin SubnetsOn(scanSite)
      /\ (SubnetsOn(scanSite) # {} => ScanSubnets[scanSite][1] \in SubnetsOn(scanSite))
  BY <1>1, FirstIsOffered DEF FieldsFollow
<1>6. Offered # {} => listed = scanSite /\ Offered = SubnetsOn(scanSite)
  BY <1>1 DEF Offered, FieldsFollow
<1>7. ASSUME NEW s \in ScanSites, SwitchScanSite(s) PROVE ScanInv'
  <2>1. FieldsFollow'
    BY <1>1, <1>7 DEF SwitchScanSite, FieldsFollow, Offered
  <2>. QED BY <1>2, <1>3, <1>7, <2>1 DEF SwitchScanSite, ScanInv
<1>8. CASE SubnetsArrive
  <2>. DEFINE first == IF SubnetsOn(scanSite) = {} THEN NotChosen ELSE ScanSubnets[scanSite][1]
  <2>1. /\ listed' = scanSite
        /\ panelSubnet' = IF panelSubnet = NotChosen THEN first ELSE panelSubnet
        /\ scanSubnet' = IF scanSubnet = NotChosen THEN first ELSE scanSubnet
        /\ UNCHANGED <<scanSite, scheduleFrom, schedules, candidate, scanCalls, leftBehind>>
    BY <1>8 DEF SubnetsArrive
  <2>2. first \in SubnetsOn(scanSite) \cup {NotChosen}
        /\ (SubnetsOn(scanSite) # {} => first # NotChosen)
    BY <1>5
  <2>. HIDE DEF first
  <2>3. Offered' # {} => SubnetsOn(scanSite) # {}
    BY <2>1 DEF Offered, SubnetsOn
  <2>4. FieldsFollow' BY <1>1, <2>1, <2>2, <2>3 DEF FieldsFollow
  <2>5. FormFollows' BY <1>1, <2>1, <2>2 DEF FormFollows
  <2>. QED BY <1>2, <2>1, <2>4, <2>5 DEF ScanInv
<1>9. CASE ScheduleArrives
  <2>1. FormFollows' BY <1>1, <1>9 DEF ScheduleArrives, FormFollows
  <2>. QED BY <1>2, <1>4, <1>9, <2>1 DEF ScheduleArrives, ScanInv
<1>10. CASE CloseCandidate
  <2>1. SentIsShown' /\ CandidatesKnown'
    BY <1>1, <1>10 DEF CloseCandidate, SentIsShown, CandidatesKnown
  <2>. QED BY <1>3, <1>4, <1>10, <2>1 DEF CloseCandidate, ScanInv
<1>11. ASSUME NEW n \in AllSubnets, ChooseScheduleSubnet(n) PROVE ScanInv'
  <2>1. n \in SubnetsOn(scanSite) /\ n # NotChosen BY <1>5, <1>6, <1>11 DEF ChooseScheduleSubnet
  <2>2. FormFollows' BY <1>1, <1>11, <2>1 DEF ChooseScheduleSubnet, FormFollows
  <2>3. FieldsFollow' BY <1>1, <1>11, <2>1 DEF ChooseScheduleSubnet, FieldsFollow, Offered
  <2>. QED BY <1>2, <1>11, <2>2, <2>3 DEF ChooseScheduleSubnet, ScanInv
<1>12. ASSUME NEW n \in AllSubnets, ChooseScanSubnet(n) PROVE ScanInv'
  <2>1. n \in SubnetsOn(scanSite) /\ n # NotChosen BY <1>5, <1>6, <1>12 DEF ChooseScanSubnet
  <2>2. FieldsFollow' BY <1>1, <1>12, <2>1 DEF ChooseScanSubnet, FieldsFollow, Offered
  <2>. QED BY <1>2, <1>3, <1>12, <2>2 DEF ChooseScanSubnet, ScanInv
<1>13. ASSUME NEW on, OpenScanDialog(on) PROVE ScanInv'
  BY <1>2, <1>3, <1>4, <1>13 DEF OpenScanDialog, ScanInv
<1>14. ASSUME NEW e \in DOMAIN ScanDevices, OpenCandidate(e) PROVE ScanInv'
  <2>1. SentIsShown' /\ CandidatesKnown'
    BY <1>1, <1>14 DEF OpenCandidate, SentIsShown, CandidatesKnown
  <2>. QED BY <1>3, <1>4, <1>14, <2>1 DEF OpenCandidate, ScanInv
<1>15. ASSUME NEW c \in ScanCalls, SaveSchedule(c) \/ StartScan(c) \/ Accept(c) \/ Enroll(c)
       PROVE  ScanInv'
  <2>1. CASE SaveSchedule(c)
    <3>1. panelSubnet \in schedules /\ Offered # {} BY <2>1 DEF SaveSchedule, ScheduleShown
    <3>2. panelSubnet = scheduleFrom BY <1>1, <3>1 DEF FormFollows
    <3>3. leftBehind = {} => panelSubnet = Selected(panelSubnet)
      BY <1>1, <1>6, <3>1 DEF FieldsFollow, Selected
    <3>. QED BY <2>1, <3>2, <3>3, SendsShown DEF SaveSchedule
  <2>2. CASE StartScan(c)
    <3>1. leftBehind = {} => scanSubnet = Selected(scanSubnet)
      BY <1>1, <1>6, <2>2 DEF FieldsFollow, Selected, StartScan
    <3>. QED BY <2>2, <3>1, SendsShown DEF StartScan
  <2>3. CASE Accept(c)
    BY <1>1, <2>3, SendsShown DEF Accept, CandidatesKnown
  <2>4. CASE Enroll(c) BY <2>4, SendsShown DEF Enroll
  <2>. QED BY <1>15, <2>1, <2>2, <2>3, <2>4
<1>16. ASSUME NEW c \in ScanCalls, ScanAnswers(c) PROVE ScanInv'
  <2>1. \A d \in ScanCalls : scanCalls'[d] # NoScanCall =>
          scanCalls[d] # NoScanCall /\ scanCalls'[d] = scanCalls[d]
    BY <1>16 DEF ScanAnswers
  <2>2. SentIsShown' BY <1>1, <2>1 DEF SentIsShown
  <2>3. CASE scanCalls[c].what = "accept"
    <3>1. scanCalls[c].about \in DOMAIN ScanDevices
      BY <1>1, <1>16, <2>3 DEF CandidatesKnown, ScanAnswers
    <3>2. ScanDevices[scanCalls[c].about] \in ScanSites BY <3>1, ScanAssumption
    <3>3. /\ scanSite' = ScanDevices[scanCalls[c].about] /\ listed' = NotChosen
          /\ panelSubnet' = NotChosen /\ scheduleFrom' = NotChosen /\ schedules' = {}
          /\ scanSubnet' = NotChosen /\ candidate' = NotChosen /\ leftBehind' = {}
      BY <1>16, <2>3 DEF ScanAnswers
    <3>4. FieldsFollow' BY <3>2, <3>3 DEF FieldsFollow, Offered
    <3>5. FormFollows' BY <3>3 DEF FormFollows
    <3>6. CandidatesKnown' BY <1>1, <2>1, <3>3 DEF CandidatesKnown
    <3>. QED BY <2>2, <3>4, <3>5, <3>6 DEF ScanInv
  <2>4. CASE scanCalls[c].what # "accept"
    <3>1. UNCHANGED <<scanSite, listed, panelSubnet, scheduleFrom, schedules, scanSubnet,
                      candidate, leftBehind>>
      BY <1>16, <2>4 DEF ScanAnswers
    <3>2. CandidatesKnown' BY <1>1, <2>1, <3>1 DEF CandidatesKnown
    <3>. QED BY <1>3, <1>4, <2>2, <3>1, <3>2 DEF ScanInv
  <2>. QED BY <2>3, <2>4
<1>17. ASSUME NEW c \in ScanCalls, ScanRefused(c) PROVE ScanInv'
  <2>1. scanCalls' = [scanCalls EXCEPT ![c] = NoScanCall] /\ UNCHANGED candidate
    BY <1>17 DEF ScanRefused
  <2>2. SentIsShown' /\ CandidatesKnown' BY <1>1, <2>1 DEF SentIsShown, CandidatesKnown
  <2>. QED BY <1>3, <1>4, <1>17, <2>2 DEF ScanRefused, ScanInv
<1>. QED
  BY <1>7, <1>8, <1>9, <1>10, <1>11, <1>12, <1>13, <1>14, <1>15, <1>16, <1>17 DEF ScanPageNext

\* What the discovery page sends is about the subnet it shows as chosen, unless
\* the site was switched since, and a schedule goes back to the subnet it was
\* read from (the discovery part of PagesHangTogether).
THEOREM ScansAreOfWhatIsShown == ScanInit /\ [][ScanPageNext]_scanVars => []SentIsShown
<1>1. ScanInv /\ UNCHANGED scanVars => ScanInv'
  BY DEF scanVars, ScanInv, FieldsFollow, FormFollows, CandidatesKnown, SentIsShown, Offered
<1>2. ScanInv /\ [ScanPageNext]_scanVars => ScanInv' BY <1>1, ScanInvKept
<1>3. ScanInv => SentIsShown BY DEF ScanInv
<1>. QED BY <1>2, <1>3, ScanInvInit, PTL

-----------------------------------------------------------------------------
(* The import of devices (InfrastructurePage) *)

ImportCall ==
  [kind : {"read", "validate", "import"}, file : CsvFiles, rows : Seq(KeyValues \cup {Unnamed}),
   step : {"sent", "checked", "refused", "written"}]
InOrder(lines) == \A i, j \in DOMAIN lines : lines[i] # Unnamed /\ (i # j => lines[i] # lines[j])

(* One call at a time keeps the dialog busy: it has the rows of the dialog, *)
(* as the preview does, unless they were crossed; what is written is in     *)
(* order.                                                                   *)
ImportShape ==
  /\ kept \in [KeyValues -> Nat]
  /\ csv \in CsvFiles \cup {NoFile} /\ columns \in Columns
  /\ importCalls \in [ImportCalls -> {NoImportCall} \cup ImportCall]
  /\ preview # NoPreview => csv # NoFile
Busies(c) == importCalls[c] # NoImportCall /\ importCalls[c].kind # "read"
OneIsBusy == \A c, d \in ImportCalls : Busies(c) /\ Busies(d) => c = d
RowsFollow ==
  /\ \A c \in ImportCalls : Busies(c) =>
       csv # NoFile /\ (crossedRead \/ importCalls[c].rows = MappedRows)
  /\ crossedRead \/ preview = NoPreview \/ preview.rows = MappedRows
CheckedInOrder ==
  \A c \in ImportCalls : importCalls[c] # NoImportCall /\ importCalls[c].kind = "import"
                         /\ importCalls[c].step \in {"checked", "written"} =>
    InOrder(importCalls[c].rows)
ImportInv == ImportShape /\ OneIsBusy /\ RowsFollow /\ CheckedInOrder /\ AddressesOnce

LEMMA ImportInvInit == ImportInit => ImportInv
<1>. SUFFICES ASSUME ImportInit PROVE ImportInv OBVIOUS
<1>1. ImportShape BY ImportAssumption DEF ImportInit, ImportShape
<1>2. OneIsBusy /\ RowsFollow /\ CheckedInOrder
  BY DEF ImportInit, OneIsBusy, RowsFollow, CheckedInOrder, Busies
<1>3. AddressesOnce BY ImportAssumption DEF ImportInit, AddressesOnce
<1>. QED BY <1>1, <1>2, <1>3 DEF ImportInv

LEMMA MappedTyped ==
  ASSUME ImportShape, csv # NoFile PROVE csv \in CsvFiles /\ MappedRows \in Seq(KeyValues \cup {Unnamed})
BY ImportAssumption DEF ImportShape, MappedRows

LEMMA FaultlessInOrder ==
  ASSUME NEW lines \in Seq(KeyValues \cup {Unnamed}), Faults(lines) = {} PROVE InOrder(lines)
<1>. SUFFICES ASSUME NEW i \in DOMAIN lines, NEW j \in DOMAIN lines
              PROVE  lines[i] # Unnamed /\ (i # j => lines[i] # lines[j])
  BY DEF InOrder
<1>1. lines[i] # Unnamed BY DEF Faults
<1>2. \A n \in DOMAIN lines : \A m \in 1 .. n - 1 : lines[m] # lines[n] BY DEF Faults
<1>3. i \in Nat /\ j \in Nat /\ i >= 1 /\ j >= 1 OBVIOUS
<1>4. i < j => i \in 1 .. j - 1 BY <1>3
<1>5. j < i => j \in 1 .. i - 1 BY <1>3
<1>6. i # j => i < j \/ j < i BY <1>3
<1>. QED BY <1>1, <1>2, <1>4, <1>5, <1>6

(* Of rows in order, a key has one copy at most.                           *)
LEMMA CopiesCounted ==
  ASSUME NEW lines \in Seq(KeyValues \cup {Unnamed}), NEW k
  PROVE  /\ Copies(lines, k) \in Nat
         /\ InOrder(lines) => Copies(lines, k) <= 1
         /\ (\A i \in DOMAIN lines : lines[i] # k) => Copies(lines, k) = 0
<1>. DEFINE S == {i \in DOMAIN lines : lines[i] = k}
<1>1. IsFiniteSet(1 .. Len(lines)) BY FS_Interval
<1>2. S \in SUBSET (1 .. Len(lines)) OBVIOUS
<1>7. Copies(lines, k) = Cardinality(S) BY DEF Copies
<1>. HIDE DEF S
<1>3. Cardinality(S) \in Nat BY <1>1, <1>2, FS_Subset, FS_CardinalityType
<1>4. S = {} => Cardinality(S) = 0 BY FS_EmptySet
<1>5. ASSUME InOrder(lines) PROVE Cardinality(S) <= 1
  <2>1. CASE S = {} BY <1>4, <2>1
  <2>2. CASE S # {}
    <3>1. PICK i \in S : TRUE BY <2>2
    <3>2. S = {i} BY <1>5, <3>1 DEF InOrder, S
    <3>3. Cardinality({i}) = 1 BY FS_Singleton
    <3>. QED BY <3>2, <3>3
  <2>. QED BY <2>1, <2>2
<1>6. (\A i \in DOMAIN lines : lines[i] # k) => S = {} BY DEF S
<1>. QED BY <1>3, <1>4, <1>5, <1>6, <1>7

LEMMA ImportInvKept == ASSUME ImportInv, ImportNext PROVE ImportInv'
<1>1. ImportShape /\ OneIsBusy /\ RowsFollow /\ CheckedInOrder /\ AddressesOnce BY DEF ImportInv
<1>2. \A c \in ImportCalls : importCalls[c] # NoImportCall => importCalls[c] \in ImportCall
  BY <1>1 DEF ImportShape
<1>3. ImportBusy <=> \E c \in ImportCalls : Busies(c) BY DEF ImportBusy, Busies
(* A call that begins, and one that ends.                                  *)
<1>4. ASSUME NEW c \in ImportCalls, NEW kind \in {"read", "validate", "import"}, NEW f \in CsvFiles,
             NEW lines \in Seq(KeyValues \cup {Unnamed}), Calls(c, kind, f, lines),
             UNCHANGED <<kept, csv, columns, preview, crossedRead>>,
             kind # "read" => ~ImportBusy /\ lines = MappedRows /\ csv # NoFile
      PROVE  ImportInv'
  <2>. DEFINE request == [kind |-> kind, file |-> f, rows |-> lines, step |-> "sent"]
  <2>1. request \in ImportCall /\ request.kind = kind /\ request.rows = lines /\ request.step = "sent"
    BY DEF ImportCall
  <2>2. importCalls' = [importCalls EXCEPT ![c] = request] BY <1>4 DEF Calls
  <2>. HIDE DEF request
  <2>3. importCalls'[c] = request /\ \A d \in ImportCalls \ {c} : importCalls'[d] = importCalls[d]
    BY <1>1, <2>2 DEF ImportShape
  <2>4. ImportShape' BY <1>1, <1>4, <2>1, <2>2 DEF ImportShape
  <2>5. \A d \in ImportCalls : Busies(d)' => Busies(d) \/ (d = c /\ kind # "read")
    BY <2>1, <2>3 DEF Busies
  <2>6. OneIsBusy' BY <1>1, <1>3, <1>4, <2>5 DEF OneIsBusy
  <2>7. RowsFollow'
    <3>1. MappedRows' = MappedRows BY <1>4 DEF MappedRows
    <3>2. \A d \in ImportCalls : Busies(d)' =>
            csv' # NoFile /\ (crossedRead' \/ importCalls'[d].rows = MappedRows')
      <4>. SUFFICES ASSUME NEW d \in ImportCalls, Busies(d)'
                    PROVE  csv' # NoFile /\ (crossedRead' \/ importCalls'[d].rows = MappedRows')
        OBVIOUS
      <4>1. CASE d = c BY <1>4, <2>1, <2>3, <3>1, <4>1 DEF Busies
      <4>2. CASE d # c BY <1>1, <1>4, <2>3, <3>1, <4>2 DEF Busies, RowsFollow
      <4>. QED BY <4>1, <4>2
    <3>. QED BY <1>1, <1>4, <3>1, <3>2 DEF RowsFollow
  <2>8. CheckedInOrder' BY <1>1, <2>1, <2>3 DEF CheckedInOrder, InOrder
  <2>9. AddressesOnce' BY <1>1, <1>4 DEF AddressesOnce
  <2>. QED BY <2>4, <2>6, <2>7, <2>8, <2>9 DEF ImportInv
<1>5. ASSUME NEW c \in ImportCalls, ImportCallEnds(c)
      PROVE  /\ importCalls' \in [ImportCalls -> {NoImportCall} \cup ImportCall]
             /\ \A d \in ImportCalls : importCalls'[d] # NoImportCall =>
                  d # c /\ importCalls'[d] = importCalls[d]
             /\ \A d \in ImportCalls : Busies(d)' => Busies(d)
             /\ OneIsBusy' /\ CheckedInOrder'
  <2>1. importCalls' = [importCalls EXCEPT ![c] = NoImportCall] BY <1>5 DEF ImportCallEnds
  <2>2. importCalls' \in [ImportCalls -> {NoImportCall} \cup ImportCall]
    BY <1>1, <2>1 DEF ImportShape
  <2>3. \A d \in ImportCalls : importCalls'[d] # NoImportCall => d # c /\ importCalls'[d] = importCalls[d]
    BY <1>1, <2>1 DEF ImportShape
  <2>4. \A d \in ImportCalls : Busies(d)' => Busies(d) BY <2>3 DEF Busies
  <2>5. OneIsBusy' BY <1>1, <2>4 DEF OneIsBusy
  <2>6. CheckedInOrder' BY <1>1, <2>3 DEF CheckedInOrder, InOrder
  <2>. QED BY <2>2, <2>3, <2>4, <2>5, <2>6
(* A call goes on to another step.                                         *)
<1>6. ASSUME NEW c \in ImportCalls, NEW stage \in {"sent", "checked", "refused", "written"},
             To(c, stage), Busies(c), stage \in {"checked", "written"} => InOrder(importCalls[c].rows),
             UNCHANGED <<csv, columns, preview, crossedRead>>
      PROVE  /\ importCalls' \in [ImportCalls -> {NoImportCall} \cup ImportCall]
             /\ OneIsBusy' /\ CheckedInOrder' /\ RowsFollow'
  <2>1. importCalls' = [importCalls EXCEPT ![c].step = stage] BY <1>6 DEF To
  <2>2. importCalls[c] \in ImportCall BY <1>2, <1>6 DEF Busies
  <2>3. /\ importCalls'[c] = [importCalls[c] EXCEPT !.step = stage]
        /\ \A d \in ImportCalls \ {c} : importCalls'[d] = importCalls[d]
    BY <1>1, <2>1 DEF ImportShape
  <2>4. /\ importCalls'[c] \in ImportCall /\ importCalls'[c].step = stage
        /\ importCalls'[c].rows = importCalls[c].rows /\ importCalls'[c].kind = importCalls[c].kind
    BY <2>2, <2>3 DEF ImportCall
  <2>5. importCalls' \in [ImportCalls -> {NoImportCall} \cup ImportCall]
    BY <1>1, <2>1, <2>4 DEF ImportShape
  <2>6. \A d \in ImportCalls : Busies(d)' => Busies(d) /\ importCalls'[d].rows = importCalls[d].rows
    BY <1>6, <2>3, <2>4 DEF Busies
  <2>7. OneIsBusy' BY <1>1, <2>6 DEF OneIsBusy
  <2>8. MappedRows' = MappedRows BY <1>6 DEF MappedRows
  <2>9. RowsFollow' BY <1>1, <1>6, <2>6, <2>8 DEF RowsFollow
  <2>10. CheckedInOrder'
    <3>. SUFFICES ASSUME NEW d \in ImportCalls, importCalls'[d] # NoImportCall,
                         importCalls'[d].kind = "import", importCalls'[d].step \in {"checked", "written"}
                  PROVE  InOrder(importCalls'[d].rows)
      BY DEF CheckedInOrder, InOrder
    <3>1. CASE d = c BY <1>6, <2>4, <3>1
    <3>2. CASE d # c BY <1>1, <2>3, <3>2 DEF CheckedInOrder
    <3>. QED BY <3>1, <3>2
  <2>. QED BY <2>5, <2>7, <2>9, <2>10
<1>7. ASSUME UNCHANGED importCalls PROVE OneIsBusy' /\ CheckedInOrder'
  BY <1>1, <1>7 DEF OneIsBusy, CheckedInOrder, Busies, InOrder
<1>8. ASSUME UNCHANGED <<importCalls, csv, columns, preview, crossedRead>> PROVE RowsFollow'
  BY <1>1, <1>8 DEF RowsFollow, Busies, MappedRows
<1>9. ASSUME UNCHANGED kept PROVE AddressesOnce' BY <1>1, <1>9 DEF AddressesOnce
<1>10. ASSUME NEW m \in Columns, Associate(m) PROVE ImportInv'
  <2>1. /\ csv # NoFile /\ columns' = m /\ preview' = NoPreview
        /\ crossedRead' = (crossedRead \/ ImportBusy) /\ UNCHANGED <<kept, csv, importCalls>>
    BY <1>10 DEF Associate
  <2>2. ImportShape' BY <1>1, <2>1 DEF ImportShape
  <2>3. RowsFollow' BY <1>1, <1>3, <2>1 DEF RowsFollow, Busies
  <2>. QED BY <1>7, <1>9, <2>1, <2>2, <2>3 DEF ImportInv
<1>11. ASSUME NEW k \in KeyValues, OthersCreate(k) \/ OthersDelete(k) PROVE ImportInv'
  <2>1. UNCHANGED <<csv, columns, preview, importCalls, crossedRead>>
    BY <1>11 DEF OthersCreate, OthersDelete
  <2>2. kept[k] \in Nat BY <1>1 DEF ImportShape
  <2>3. kept' \in [KeyValues -> Nat] /\ AddressesOnce'
    <3>1. CASE OthersCreate(k)
      <4>1. kept' = [kept EXCEPT ![k] = kept[k] + 1] /\ (k \in Addresses => kept[k] = 0)
        BY <3>1 DEF OthersCreate
      <4>2. kept' \in [KeyValues -> Nat] BY <1>1, <2>2, <4>1 DEF ImportShape
      <4>3. kept'[k] = kept[k] + 1 /\ \A n \in KeyValues \ {k} : kept'[n] = kept[n]
        BY <1>1, <4>1 DEF ImportShape
      <4>. QED BY <1>1, <4>1, <4>2, <4>3, ImportAssumption DEF AddressesOnce
    <3>2. CASE OthersDelete(k)
      <4>1. kept' = [kept EXCEPT ![k] = kept[k] - 1] /\ kept[k] > 0 BY <3>2 DEF OthersDelete
      <4>2. kept' \in [KeyValues -> Nat] BY <1>1, <2>2, <4>1 DEF ImportShape
      <4>3. kept'[k] = kept[k] - 1 /\ \A n \in KeyValues \ {k} : kept'[n] = kept[n]
        BY <1>1, <4>1 DEF ImportShape
      <4>. QED BY <1>1, <2>2, <4>2, <4>3, ImportAssumption DEF AddressesOnce
    <3>. QED BY <1>11, <3>1, <3>2
  <2>4. ImportShape' BY <1>1, <2>1, <2>3 DEF ImportShape
  <2>. QED BY <1>7, <1>8, <2>1, <2>3, <2>4 DEF ImportInv
<1>12. ASSUME NEW c \in ImportCalls, NEW f \in CsvFiles, ChooseFile(c, f) PROVE ImportInv'
  <2>1. Calls(c, "read", f, <<>>) /\ UNCHANGED <<kept, csv, columns, preview, crossedRead>>
    BY <1>12 DEF ChooseFile
  <2>2. <<>> \in Seq(KeyValues \cup {Unnamed}) OBVIOUS
  <2>. QED BY <1>4, <2>1, <2>2
<1>13. ASSUME NEW c \in ImportCalls, FileRead(c) PROVE ImportInv'
  <2>1. /\ Step(c, "read", "sent") /\ ImportCallEnds(c)
        /\ csv' = importCalls[c].file /\ columns' = Detected /\ preview' = NoPreview
        /\ crossedRead' = (crossedRead \/ ImportBusy) /\ UNCHANGED kept
    BY <1>13 DEF FileRead
  <2>2. importCalls[c].file \in CsvFiles BY <1>2, <2>1 DEF Step, ImportCall
  <2>3. ImportShape' BY <1>1, <1>5, <2>1, <2>2, ImportAssumption DEF ImportShape
  <2>4. RowsFollow' BY <1>1, <1>3, <1>5, <2>1, <2>2, ImportAssumption DEF RowsFollow
  <2>. QED BY <1>5, <1>9, <2>1, <2>3, <2>4 DEF ImportInv
<1>14. ASSUME NEW c \in ImportCalls, FileUnreadable(c) PROVE ImportInv'
  <2>1. ImportCallEnds(c) /\ UNCHANGED <<kept, csv, columns, preview, crossedRead>>
    BY <1>14 DEF FileUnreadable
  <2>2. ImportShape' BY <1>1, <1>5, <2>1 DEF ImportShape
  <2>3. RowsFollow' BY <1>1, <1>5, <2>1 DEF RowsFollow, Busies, MappedRows
  <2>. QED BY <1>5, <1>9, <2>1, <2>2, <2>3 DEF ImportInv
<1>15. ASSUME NEW c \in ImportCalls, Validate(c) PROVE ImportInv'
  BY <1>1, <1>4, <1>15, MappedTyped DEF Validate
<1>16. ASSUME NEW c \in ImportCalls, ValidateAnswers(c) PROVE ImportInv'
  <2>. DEFINE lines == importCalls[c].rows
  <2>1. /\ Step(c, "validate", "sent") /\ ImportCallEnds(c)
        /\ preview' = [rows |-> lines, faults |-> Faults(lines)]
        /\ crossedRead' = (crossedRead /\ lines # MappedRows) /\ UNCHANGED <<kept, csv, columns>>
    BY <1>16 DEF ValidateAnswers
  <2>2. Busies(c) BY <2>1 DEF Step, Busies
  <2>3. csv # NoFile /\ (crossedRead \/ lines = MappedRows) BY <1>1, <2>2 DEF RowsFollow
  <2>4. \A d \in ImportCalls : ~Busies(d)' BY <1>1, <1>5, <2>1, <2>2 DEF OneIsBusy, Busies
  <2>5. preview'.rows = lines BY <2>1
  <2>6. MappedRows' = MappedRows BY <2>1 DEF MappedRows
  <2>7. crossedRead' \/ lines = MappedRows BY <2>1, <2>3
  <2>. HIDE DEF lines
  <2>8. ImportShape' BY <1>1, <1>5, <2>1, <2>3 DEF ImportShape
  <2>9. RowsFollow' BY <2>4, <2>5, <2>6, <2>7 DEF RowsFollow
  <2>. QED BY <1>5, <1>9, <2>1, <2>8, <2>9 DEF ImportInv
<1>17. ASSUME NEW c \in ImportCalls, ConfirmImport(c) PROVE ImportInv'
  <2>1. csv # NoFile BY <1>1, <1>17 DEF ConfirmImport, ImportShape
  <2>. QED BY <1>1, <1>4, <1>17, <2>1, MappedTyped DEF ConfirmImport
<1>18. ASSUME NEW c \in ImportCalls, ImportFails(c) PROVE ImportInv'
  <2>1. /\ ImportCallEnds(c) /\ preview' \in {preview, NoPreview}
        /\ UNCHANGED <<kept, csv, columns, crossedRead>>
    BY <1>18 DEF ImportFails
  <2>2. ImportShape' BY <1>1, <1>5, <2>1 DEF ImportShape
  <2>3. RowsFollow' BY <1>1, <1>5, <2>1 DEF RowsFollow, Busies, MappedRows
  <2>. QED BY <1>5, <1>9, <2>1, <2>2, <2>3 DEF ImportInv
<1>19. ASSUME NEW c \in ImportCalls, CheckImport(c) PROVE ImportInv'
  <2>1. Step(c, "import", "sent") /\ UNCHANGED <<kept, csv, columns, preview, crossedRead>>
    BY <1>19 DEF CheckImport
  <2>2. Busies(c) /\ importCalls[c].rows \in Seq(KeyValues \cup {Unnamed})
    BY <1>2, <2>1 DEF Step, Busies, ImportCall
  <2>3. PICK stage \in {"checked", "refused"} :
          To(c, stage) /\ (stage = "checked" => Faults(importCalls[c].rows) = {})
    BY <1>19 DEF CheckImport
  <2>4. stage \in {"checked", "written"} => InOrder(importCalls[c].rows)
    BY <2>2, <2>3, FaultlessInOrder
  <2>5. importCalls' \in [ImportCalls -> {NoImportCall} \cup ImportCall]
        /\ OneIsBusy' /\ CheckedInOrder' /\ RowsFollow'
    BY <1>6, <2>1, <2>2, <2>3, <2>4
  <2>6. ImportShape' BY <1>1, <2>1, <2>5 DEF ImportShape
  <2>. QED BY <1>9, <2>1, <2>5, <2>6 DEF ImportInv
<1>20. ASSUME NEW c \in ImportCalls, WriteImport(c) PROVE ImportInv'
  <2>. DEFINE lines == importCalls[c].rows
  <2>1. Step(c, "import", "checked") /\ UNCHANGED <<csv, columns, preview, crossedRead>>
    BY <1>20 DEF WriteImport
  <2>2. Busies(c) /\ lines \in Seq(KeyValues \cup {Unnamed}) /\ InOrder(lines)
    BY <1>1, <1>2, <2>1 DEF Step, Busies, ImportCall, CheckedInOrder
  <2>3. \/ To(c, "refused") /\ UNCHANGED kept
        \/ /\ To(c, "written") /\ kept' = [k \in KeyValues |-> kept[k] + Copies(lines, k)]
           /\ \A i \in DOMAIN lines : ~(lines[i] \in Addresses /\ kept[lines[i]] > 0)
    BY <1>20 DEF WriteImport
  <2>4. To(c, "refused") \/ To(c, "written") BY <2>3
  <2>5. importCalls' \in [ImportCalls -> {NoImportCall} \cup ImportCall]
        /\ OneIsBusy' /\ CheckedInOrder' /\ RowsFollow'
    BY <1>6, <2>1, <2>2, <2>4
  <2>. HIDE DEF lines
  <2>6. kept' \in [KeyValues -> Nat] /\ AddressesOnce'
    <3>1. CASE UNCHANGED kept BY <1>1, <1>9, <3>1 DEF ImportShape
    <3>2. CASE /\ kept' = [k \in KeyValues |-> kept[k] + Copies(lines, k)]
               /\ \A i \in DOMAIN lines : ~(lines[i] \in Addresses /\ kept[lines[i]] > 0)
      <4>1. \A k \in KeyValues : kept[k] \in Nat /\ Copies(lines, k) \in Nat
        BY <1>1, <2>2, CopiesCounted DEF ImportShape
      <4>2. kept' \in [KeyValues -> Nat] BY <3>2, <4>1
      <4>3. ASSUME NEW k \in Addresses PROVE kept'[k] <= 1
        <5>1. k \in KeyValues /\ kept[k] <= 1 BY <1>1, ImportAssumption DEF AddressesOnce
        <5>2. kept'[k] = kept[k] + Copies(lines, k) BY <3>2, <5>1
        <5>3. CASE \A i \in DOMAIN lines : lines[i] # k
          BY <2>2, <4>1, <5>1, <5>2, <5>3, CopiesCounted
        <5>4. CASE \E i \in DOMAIN lines : lines[i] = k
          <6>1. ~(kept[k] > 0) BY <3>2, <5>4
          <6>2. Copies(lines, k) <= 1 BY <2>2, CopiesCounted
          <6>. QED BY <4>1, <5>1, <5>2, <6>1, <6>2
        <5>. QED BY <5>3, <5>4
      <4>. QED BY <4>2, <4>3 DEF AddressesOnce
    <3>. QED BY <2>3, <3>1, <3>2
  <2>7. ImportShape' BY <1>1, <2>1, <2>5, <2>6 DEF ImportShape
  <2>. QED BY <2>5, <2>6, <2>7 DEF ImportInv
<1>21. ASSUME NEW c \in ImportCalls, ImportAnswers(c) PROVE ImportInv'
  <2>1. /\ csv' = NoFile /\ columns' = Detected /\ preview' = NoPreview /\ UNCHANGED kept
        /\ importCalls' = [d \in ImportCalls |-> NoImportCall]
    BY <1>21 DEF ImportAnswers
  <2>2. ImportShape' BY <1>1, <2>1, ImportAssumption DEF ImportShape
  <2>3. OneIsBusy' /\ RowsFollow' /\ CheckedInOrder'
    BY <2>1 DEF OneIsBusy, RowsFollow, CheckedInOrder, Busies
  <2>. QED BY <1>9, <2>1, <2>2, <2>3 DEF ImportInv
<1>. QED
  BY <1>10, <1>11, <1>12, <1>13, <1>14, <1>15, <1>16, <1>17, <1>18, <1>19, <1>20, <1>21
     DEF ImportNext

\* An import holds the rows its preview showed, unless other rows were chosen
\* meanwhile, and no row of it repeats another; and a management address is
\* given to one device, however imports and other operators meet (the part of
\* imports of PagesHangTogether).
THEOREM ImportsAreSound ==
  ImportInit /\ [][ImportNext]_importVars => [](ImportIsAsPreviewed /\ AddressesOnce)
<1>1. ImportInv /\ UNCHANGED importVars => ImportInv'
  BY DEF importVars, ImportInv, ImportShape, OneIsBusy, RowsFollow, CheckedInOrder, AddressesOnce,
         Busies, MappedRows, InOrder
<1>2. ImportInv /\ [ImportNext]_importVars => ImportInv' BY <1>1, ImportInvKept
<1>3. ImportInv => ImportIsAsPreviewed /\ AddressesOnce
  <2>. SUFFICES ASSUME ImportInv PROVE ImportIsAsPreviewed BY DEF ImportInv
  <2>1. \A c \in ImportCalls : importCalls[c] # NoImportCall /\ importCalls[c].kind = "import" =>
          crossedRead \/ importCalls[c].rows = MappedRows
    BY DEF ImportInv, RowsFollow, Busies
  <2>2. crossedRead \/ preview = NoPreview \/ preview.rows = MappedRows BY DEF ImportInv, RowsFollow
  <2>3. \A c \in ImportCalls : importCalls[c] # NoImportCall /\ importCalls[c].kind = "import"
                               /\ importCalls[c].step \in {"checked", "written"} =>
          InOrder(importCalls[c].rows)
    BY DEF ImportInv, CheckedInOrder
  <2>. QED BY <2>1, <2>2, <2>3 DEF ImportIsAsPreviewed, InOrder
<1>. QED BY <1>2, <1>3, ImportInvInit, PTL

-----------------------------------------------------------------------------
(* The dashboard (DashboardLayouts) *)

(* Whoever holds a layout has it from the row, at its number or before.    *)
StillSeen(layout) ==
  layout # NoLayout =>
    /\ layoutRow[layout.of] # NoLayout
    /\ layout.revision <= layoutRow[layout.of].revision
    /\ layout.revision = layoutRow[layout.of].revision => layoutRow[layout.of].widget = layout.loaded
    /\ Accepted(layout.widget)
RowsAccepted == \A d \in DashWorkspaces : layoutRow[d] # NoLayout => Accepted(layoutRow[d].widget)
HeldIsSeen == StillSeen(desk.layout) /\ \A c \in Out : StillSeen(dashCalls[c].layout)
AnswersAreOf ==
  \A c \in Out : dashCalls[c].at \in {"write", "answer"} =>
    dashCalls[c].layout # NoLayout /\ dashCalls[c].layout.of = dashCalls[c].of

(* The layout that is chosen is shown, or asked for.                       *)
ChosenShown == desk.layout # NoLayout /\ desk.layout.of = desk.chosen
AskedFor(c) == c \in Out /\ dashCalls[c].at # "write" /\ dashCalls[c].of = desk.chosen
ChosenComes ==
  ~unsettled => IF desk.chosen = NoWorkspace THEN desk.layout = NoLayout
                ELSE ChosenShown \/ \E c \in DashCalls : AskedFor(c)
DashInv == DashTypeOK /\ RowsAccepted /\ HeldIsSeen /\ AnswersAreOf /\ ChosenComes

LEMMA DashInvInit == DashInit => DashInv
<1>. SUFFICES ASSUME DashInit PROVE DashInv OBVIOUS
<1>. USE DEF DashInit
<1>1. DashTypeOK BY DashAssumption DEF DashTypeOK
<1>2. Out = {} BY DEF Out
<1>3. RowsAccepted /\ HeldIsSeen /\ AnswersAreOf /\ ChosenComes
  BY <1>2 DEF RowsAccepted, HeldIsSeen, StillSeen, AnswersAreOf, ChosenComes
<1>. QED BY <1>1, <1>3 DEF DashInv

(* Rows only grow: what was seen has been seen.                            *)
LEMMA SeenStaysSeen ==
  ASSUME DashTypeOK, NEW d \in DashWorkspaces, NEW row \in LayoutRow,
         layoutRow' = [layoutRow EXCEPT ![d] = row],
         layoutRow[d] # NoLayout => row.revision > layoutRow[d].revision,
         NEW layout \in Layout \cup {NoLayout}, StillSeen(layout)
  PROVE  layout # NoLayout =>
           /\ layoutRow'[layout.of] # NoLayout
           /\ layout.revision <= layoutRow'[layout.of].revision
           /\ layout.revision = layoutRow'[layout.of].revision => layoutRow'[layout.of].widget = layout.loaded
           /\ Accepted(layout.widget)
<1>. SUFFICES ASSUME layout # NoLayout
              PROVE  /\ layoutRow'[layout.of] # NoLayout
                     /\ layout.revision <= layoutRow'[layout.of].revision
                     /\ layout.revision = layoutRow'[layout.of].revision => layoutRow'[layout.of].widget = layout.loaded
                     /\ Accepted(layout.widget)
  OBVIOUS
<1>1. layout \in Layout BY DEF Layout
<1>2. layout.of \in DashWorkspaces /\ layout.revision \in 0 .. MaxDashRevision BY <1>1 DEF Layout
<1>3. CASE layout.of = d
  <2>1. layoutRow'[layout.of] = row BY <1>3, <1>2 DEF DashTypeOK
  <2>2. row # NoLayout /\ row.revision \in Int BY DashAssumption DEF LayoutRow
  <2>3. layoutRow[d] \in LayoutRow /\ layout.revision <= layoutRow[d].revision
    BY <1>3 DEF StillSeen, DashTypeOK
  <2>4. layoutRow[d].revision \in Int /\ layoutRow[d] # NoLayout BY <2>3, DashAssumption DEF LayoutRow
  <2>5. layout.revision < row.revision BY <1>2, <2>2, <2>3, <2>4
  <2>. QED BY <1>2, <2>1, <2>2, <2>5 DEF StillSeen
<1>4. CASE layout.of # d
  <2>1. layoutRow'[layout.of] = layoutRow[layout.of] BY <1>2, <1>4 DEF DashTypeOK
  <2>. QED BY <2>1 DEF StillSeen
<1>. QED BY <1>3, <1>4

(* The page and its calls stay as they are while a row is written.         *)
LEMMA ReadIsSeen ==
  ASSUME DashInv, NEW d \in DashWorkspaces, layoutRow[d] # NoLayout
  PROVE  /\ Read(d) \in Layout /\ Read(d) # NoLayout /\ Read(d).of = d
         /\ StillSeen(Read(d))
<1>1. layoutRow[d] \in LayoutRow BY DEF DashInv, DashTypeOK
<1>2. Read(d) \in Layout BY <1>1 DEF Read, Layout, LayoutRow
<1>3. /\ Read(d).of = d /\ Read(d).revision = layoutRow[d].revision
      /\ Read(d).widget = layoutRow[d].widget /\ Read(d).loaded = layoutRow[d].widget
  BY DEF Read
<1>4. Read(d) # NoLayout BY <1>2, DashAssumption
<1>5. Accepted(layoutRow[d].widget) BY DEF DashInv, RowsAccepted
<1>6. layoutRow[d].revision \in Int BY <1>1 DEF LayoutRow
<1>. QED BY <1>2, <1>3, <1>4, <1>5, <1>6 DEF StillSeen

(* A call that gets a layout that is so, or none of its own.               *)
LEMMA CallAnswered ==
  ASSUME DashInv, NEW c \in Out, NEW layout \in Layout, layout # NoLayout,
         layout.of = dashCalls[c].of, Answers(c, layout)
  PROVE  /\ dashCalls' \in [DashCalls -> {NoDashCall} \cup DashCall]
         /\ Out' = Out /\ dashCalls'[c].layout = layout /\ dashCalls'[c].at = "answer"
         /\ dashCalls'[c].of = dashCalls[c].of
         /\ \A e \in DashCalls \ {c} : dashCalls'[e] = dashCalls[e]
         /\ AnswersAreOf'
<1>1. dashCalls[c] \in DashCall /\ c \in DashCalls BY DEF DashInv, DashTypeOK, Out
<1>2. dashCalls' = [dashCalls EXCEPT ![c] = [@ EXCEPT !.at = "answer", !.layout = layout]]
  BY <1>1 DEF Answers, DashInv, DashTypeOK
<1>3. /\ dashCalls'[c] = [dashCalls[c] EXCEPT !.at = "answer", !.layout = layout]
      /\ \A e \in DashCalls \ {c} : dashCalls'[e] = dashCalls[e]
  BY <1>1, <1>2 DEF DashInv, DashTypeOK
<1>4. /\ dashCalls'[c] \in DashCall /\ dashCalls'[c].at = "answer"
      /\ dashCalls'[c].layout = layout /\ dashCalls'[c].of = dashCalls[c].of
  BY <1>1, <1>3 DEF DashCall
<1>5. dashCalls' \in [DashCalls -> {NoDashCall} \cup DashCall]
  BY <1>1, <1>2, <1>3, <1>4 DEF DashInv, DashTypeOK
<1>6. dashCalls'[c] # NoDashCall BY <1>4, DashAssumption
<1>7. Out' = Out BY <1>1, <1>3, <1>6 DEF Out
<1>8. AnswersAreOf' BY <1>3, <1>4, <1>7 DEF DashInv, AnswersAreOf, Out
<1>. QED BY <1>3, <1>4, <1>5, <1>7, <1>8

LEMMA DashInvKept == ASSUME DashInv, DashNext PROVE DashInv'
<1>1. DashTypeOK /\ RowsAccepted /\ HeldIsSeen /\ AnswersAreOf /\ ChosenComes BY DEF DashInv
<1>2. \A c \in Out : dashCalls[c] \in DashCall /\ c \in DashCalls BY <1>1 DEF Out, DashTypeOK
<1>3. /\ desk.chosen \in DashWorkspaces \cup {NoWorkspace} /\ desk.items \in {{}} \cup DashSites
      /\ desk.layout \in Layout \cup {NoLayout}
  BY <1>1 DEF DashTypeOK
<1>4. ASSUME UNCHANGED layoutRow PROVE RowsAccepted' BY <1>1, <1>4 DEF RowsAccepted, Accepted
<1>5. ASSUME UNCHANGED <<desk, unsettled>>,
             \A c \in DashCalls : AskedFor(c) => c \in Out' /\ dashCalls'[c].at # "write"
                                              /\ dashCalls'[c].of = dashCalls[c].of
      PROVE  ChosenComes'
  BY <1>1, <1>5 DEF ChosenComes, ChosenShown, AskedFor
(* The page turns to a workspace.                                          *)
<1>6. ASSUME NEW next, next \in [items : {{}} \cup DashSites, chosen : DashWorkspaces \cup {NoWorkspace},
                                 layout : Layout \cup {NoLayout}],
             next.layout = desk.layout, Turns(next), UNCHANGED <<layoutRow, preferred, unsettled>>
      PROVE  DashInv'
  <2>1. RowsAccepted' BY <1>4, <1>6
  <2>2. CASE next.chosen = NoWorkspace
    <3>1. desk' = [next EXCEPT !.layout = NoLayout] /\ UNCHANGED dashCalls BY <1>6, <2>2 DEF Turns
    <3>2. desk'.layout = NoLayout /\ desk'.chosen = NoWorkspace
          /\ desk' \in [items : {{}} \cup DashSites, chosen : DashWorkspaces \cup {NoWorkspace},
                        layout : Layout \cup {NoLayout}]
      BY <1>6, <2>2, <3>1
    <3>3. DashTypeOK' BY <1>1, <1>6, <3>1, <3>2 DEF DashTypeOK
    <3>4. HeldIsSeen' BY <1>1, <1>6, <3>1, <3>2 DEF HeldIsSeen, StillSeen, Out, Accepted
    <3>5. AnswersAreOf' BY <1>1, <3>1 DEF AnswersAreOf, Out
    <3>6. ChosenComes' BY <3>2 DEF ChosenComes
    <3>. QED BY <2>1, <3>3, <3>4, <3>5, <3>6 DEF DashInv
  <2>3. CASE next.chosen # NoWorkspace
    <3>1. PICK c \in DashCalls \ Out :
            desk' = next /\ dashCalls' = [dashCalls EXCEPT ![c] = Loads(next.chosen)]
      BY <1>6, <2>3 DEF Turns
    <3>2. /\ Loads(next.chosen) \in DashCall /\ Loads(next.chosen).at = "find"
          /\ Loads(next.chosen).of = next.chosen /\ Loads(next.chosen).layout = NoLayout
      BY <1>6, <2>3 DEF Loads, DashCall
    <3>3. /\ dashCalls'[c] = Loads(next.chosen)
          /\ \A e \in DashCalls \ {c} : dashCalls'[e] = dashCalls[e]
      BY <1>1, <3>1 DEF DashTypeOK
    <3>4. Out' = Out \cup {c} BY <3>2, <3>3, DashAssumption DEF Out
    <3>5. DashTypeOK' BY <1>1, <1>6, <3>1, <3>2 DEF DashTypeOK
    <3>6. HeldIsSeen'
      <4>1. StillSeen(desk.layout)' BY <1>1, <1>6, <3>1 DEF HeldIsSeen, StillSeen, Accepted
      <4>2. ASSUME NEW e \in Out' PROVE StillSeen(dashCalls[e].layout)'
        <5>1. CASE e = c BY <3>2, <3>3, <5>1 DEF StillSeen
        <5>2. CASE e # c
          <6>1. e \in Out /\ dashCalls'[e] = dashCalls[e] BY <3>3, <3>4, <4>2, <5>2 DEF Out
          <6>. QED BY <1>1, <1>6, <6>1 DEF HeldIsSeen, StillSeen, Accepted
        <5>. QED BY <5>1, <5>2
      <4>. QED BY <4>1, <4>2 DEF HeldIsSeen
    <3>7. AnswersAreOf' BY <1>1, <3>2, <3>3, <3>4 DEF AnswersAreOf, Out
    <3>8. ChosenComes'
      <4>1. AskedFor(c)' BY <3>1, <3>2, <3>3, <3>4 DEF AskedFor
      <4>. QED BY <2>3, <3>1, <4>1 DEF ChosenComes
    <3>. QED BY <2>1, <3>5, <3>6, <3>7, <3>8 DEF DashInv
  <2>. QED BY <2>2, <2>3
<1>7. ASSUME NEW workspaces \in {{}} \cup DashSites, WorkspacesArrive(workspaces) PROVE DashInv'
  <2>1. PICK first : /\ first \in workspaces \cup {NoWorkspace}
                     /\ Turns([desk EXCEPT !.items = workspaces, !.chosen = first])
    BY <1>7 DEF WorkspacesArrive
  <2>2. first \in DashWorkspaces \cup {NoWorkspace} BY <2>1, DashAssumption
  <2>. DEFINE next == [desk EXCEPT !.items = workspaces, !.chosen = first]
  <2>3. /\ next \in [items : {{}} \cup DashSites, chosen : DashWorkspaces \cup {NoWorkspace},
                     layout : Layout \cup {NoLayout}]
        /\ next.layout = desk.layout
    BY <1>1, <2>2 DEF DashTypeOK
  <2>4. Turns(next) BY <2>1
  <2>5. UNCHANGED <<layoutRow, preferred, unsettled>> BY <1>7 DEF WorkspacesArrive
  <2>. QED BY <1>6, <2>3, <2>4, <2>5
<1>8. ASSUME NEW d \in DashWorkspaces, ChooseWorkspace(d) PROVE DashInv'
  <2>. DEFINE next == [desk EXCEPT !.chosen = d]
  <2>1. /\ next \in [items : {{}} \cup DashSites, chosen : DashWorkspaces \cup {NoWorkspace},
                     layout : Layout \cup {NoLayout}]
        /\ next.layout = desk.layout
    BY <1>1 DEF DashTypeOK
  <2>2. Turns(next) /\ UNCHANGED <<layoutRow, preferred, unsettled>> BY <1>8 DEF ChooseWorkspace
  <2>. QED BY <1>6, <2>1, <2>2
(* A row is written, and at most the call of its writer is answered.       *)
<1>9. ASSUME NEW d \in DashWorkspaces, NEW row \in LayoutRow, Accepted(row.widget),
             layoutRow' = [layoutRow EXCEPT ![d] = row],
             layoutRow[d] # NoLayout => row.revision > layoutRow[d].revision
      PROVE  /\ layoutRow' \in [DashWorkspaces -> {NoLayout} \cup LayoutRow]
             /\ RowsAccepted'
             /\ \A layout \in Layout \cup {NoLayout} : StillSeen(layout) /\ layout # NoLayout =>
                    /\ layoutRow'[layout.of] # NoLayout
                    /\ layout.revision <= layoutRow'[layout.of].revision
                    /\ layout.revision = layoutRow'[layout.of].revision =>
                         layoutRow'[layout.of].widget = layout.loaded
                    /\ Accepted(layout.widget)
  <2>1. layoutRow' \in [DashWorkspaces -> {NoLayout} \cup LayoutRow] BY <1>1, <1>9 DEF DashTypeOK
  <2>2. layoutRow'[d] = row /\ \A e \in DashWorkspaces \ {d} : layoutRow'[e] = layoutRow[e]
    BY <1>1, <1>9 DEF DashTypeOK
  <2>3. RowsAccepted' BY <1>1, <1>9, <2>2 DEF RowsAccepted, Accepted
  <2>. QED BY <1>1, <1>9, <2>1, <2>3, SeenStaysSeen
<1>10. ASSUME NEW d \in DashWorkspaces, NEW widget, widget = [x |-> 0, w |-> 12],
              OthersSaveLayout(d, widget)
       PROVE  DashInv'
  <2>. DEFINE row == Saved(layoutRow[d], widget)
  <2>1. /\ Accepted(widget) /\ layoutRow[d] # NoLayout /\ layoutRow[d].revision < MaxDashRevision
        /\ layoutRow' = [layoutRow EXCEPT ![d] = row]
        /\ UNCHANGED <<preferred, desk, dashCalls, unsettled>>
    BY <1>10 DEF OthersSaveLayout
  <2>2. layoutRow[d] \in LayoutRow BY <1>1, <2>1 DEF DashTypeOK
  <2>3. row \in LayoutRow /\ row.revision > layoutRow[d].revision /\ row.widget = widget
    BY <1>10, <2>1, <2>2, DashAssumption DEF Saved, LayoutRow, Widget
  <2>. HIDE DEF row
  <2>4. RowsAccepted' /\ layoutRow' \in [DashWorkspaces -> {NoLayout} \cup LayoutRow]
    BY <1>9, <2>1, <2>3
  <2>5. HeldIsSeen'
    <3>1. StillSeen(desk.layout)' BY <1>1, <1>3, <1>9, <2>1, <2>3 DEF HeldIsSeen, StillSeen, Accepted
    <3>2. ASSUME NEW c \in Out PROVE StillSeen(dashCalls[c].layout)'
      <4>1. dashCalls[c].layout \in Layout \cup {NoLayout} BY <1>2 DEF DashCall
      <4>. QED BY <1>1, <1>9, <2>1, <2>3, <4>1 DEF HeldIsSeen, StillSeen, Accepted
    <3>. QED BY <2>1, <3>1, <3>2 DEF HeldIsSeen, Out
  <2>6. DashTypeOK' BY <1>1, <2>1, <2>4 DEF DashTypeOK
  <2>7. AnswersAreOf' BY <1>1, <2>1 DEF AnswersAreOf, Out
  <2>8. ChosenComes' BY <1>5, <2>1 DEF AskedFor, Out
  <2>. QED BY <2>4, <2>5, <2>6, <2>7, <2>8 DEF DashInv
<1>11. CASE SaveLayout
  <2>1. PICK c \in DashCalls \ Out :
          dashCalls' = [dashCalls EXCEPT ![c] = [at |-> "write", of |-> desk.layout.of,
                                                 layout |-> desk.layout, prefers |-> FALSE]]
    BY <1>11 DEF SaveLayout
  <2>. DEFINE request == [at |-> "write", of |-> desk.layout.of, layout |-> desk.layout, prefers |-> FALSE]
  <2>2. desk.layout # NoLayout /\ UNCHANGED <<layoutRow, preferred, desk, unsettled>>
    BY <1>11 DEF SaveLayout
  <2>3. desk.layout.of \in DashWorkspaces BY <1>3, <2>2 DEF Layout
  <2>4. request \in DashCall /\ request.layout = desk.layout /\ request.of = desk.layout.of /\ request.at = "write"
    BY <1>3, <2>3 DEF DashCall
  <2>. HIDE DEF request
  <2>5. dashCalls' = [dashCalls EXCEPT ![c] = request] BY <2>1 DEF request
  <2>6. dashCalls'[c] = request /\ \A e \in DashCalls \ {c} : dashCalls'[e] = dashCalls[e]
    BY <1>1, <2>5 DEF DashTypeOK
  <2>7. Out' = Out \cup {c} BY <2>4, <2>6, DashAssumption DEF Out
  <2>8. DashTypeOK' BY <1>1, <2>2, <2>4, <2>5 DEF DashTypeOK
  <2>9. HeldIsSeen'
    <3>1. StillSeen(desk.layout)' BY <1>1, <2>2 DEF HeldIsSeen, StillSeen, Accepted
    <3>2. ASSUME NEW e \in Out' PROVE StillSeen(dashCalls[e].layout)'
      <4>1. CASE e = c BY <2>2, <2>4, <2>6, <3>1, <4>1 DEF StillSeen, Accepted
      <4>2. CASE e # c
        <5>1. e \in Out /\ dashCalls'[e] = dashCalls[e] BY <2>6, <2>7, <3>2, <4>2 DEF Out
        <5>. QED BY <1>1, <2>2, <5>1 DEF HeldIsSeen, StillSeen, Accepted
      <4>. QED BY <4>1, <4>2
    <3>. QED BY <3>1, <3>2 DEF HeldIsSeen
  <2>10. AnswersAreOf' BY <1>1, <2>2, <2>4, <2>6, <2>7 DEF AnswersAreOf, Out
  <2>11. ChosenComes'
    <3>1. \A e \in DashCalls : AskedFor(e) => e # c /\ e \in Out' /\ dashCalls'[e] = dashCalls[e]
      BY <2>1, <2>6, <2>7 DEF AskedFor
    <3>. QED BY <1>5, <2>2, <3>1 DEF AskedFor
  <2>. QED BY <1>4, <2>2, <2>8, <2>9, <2>10, <2>11 DEF DashInv
<1>12. ASSUME NEW width \in {6, 12}, SetWidth(width) PROVE DashInv'
  <2>. DEFINE next == Placed(Sized(desk.layout.widget, width), 0)
  <2>1. /\ desk.layout # NoLayout /\ desk' = [desk EXCEPT !.layout.widget = next]
        /\ UNCHANGED <<layoutRow, preferred, dashCalls, unsettled>>
    BY <1>12 DEF SetWidth, EditLayout
  <2>2. desk.layout \in Layout /\ desk.layout.widget \in Widget BY <1>3, <2>1 DEF Layout
  <2>3. next \in Widget /\ Accepted(next)
    <3>. DEFINE sized == Sized(desk.layout.widget, width)
    <3>1. Cut(width, 12 - desk.layout.widget.x) \in {6, 12} BY <1>12, <2>2 DEF Cut, Widget
    <3>2. sized \in Widget BY <2>2, <3>1 DEF Sized, Widget
    <3>3. Cut(0, 11) = 0 /\ Cut(sized.w, 12 - 0) = sized.w BY <3>2 DEF Cut, Widget
    <3>. HIDE DEF sized
    <3>4. Placed(sized, 0) = [sized EXCEPT !.x = 0, !.w = sized.w]
      BY <3>3 DEF Placed
    <3>5. next = [sized EXCEPT !.x = 0, !.w = sized.w] BY <3>4 DEF sized
    <3>6. next \in Widget /\ next.x = 0 BY <3>2, <3>5 DEF Widget
    <3>. HIDE DEF next
    <3>. QED BY <3>6 DEF Accepted, Widget
  <2>. HIDE DEF next
  <2>4. /\ desk' \in [items : {{}} \cup DashSites, chosen : DashWorkspaces \cup {NoWorkspace},
                      layout : Layout \cup {NoLayout}]
        /\ desk'.chosen = desk.chosen /\ desk'.layout = [desk.layout EXCEPT !.widget = next]
    BY <1>1, <2>1, <2>2, <2>3 DEF DashTypeOK, Layout
  <2>5. /\ desk'.layout \in Layout /\ desk'.layout.of = desk.layout.of
        /\ desk'.layout.revision = desk.layout.revision
        /\ desk'.layout.loaded = desk.layout.loaded /\ desk'.layout.widget = next
    BY <2>2, <2>3, <2>4 DEF Layout
  <2>6. desk'.layout # NoLayout BY <2>5, DashAssumption
  <2>7. DashTypeOK' BY <1>1, <2>1, <2>4 DEF DashTypeOK
  <2>8. HeldIsSeen'
    <3>1. StillSeen(desk.layout)' BY <1>1, <2>1, <2>3, <2>5 DEF HeldIsSeen, StillSeen, Accepted
    <3>. QED BY <1>1, <2>1, <3>1 DEF HeldIsSeen, StillSeen, Out, Accepted
  <2>9. AnswersAreOf' BY <1>1, <2>1 DEF AnswersAreOf, Out
  <2>10. ChosenComes' BY <1>1, <2>1, <2>4, <2>5, <2>6 DEF ChosenComes, ChosenShown, AskedFor, Out
  <2>. QED BY <1>4, <2>1, <2>7, <2>8, <2>9, <2>10 DEF DashInv
(* A call is answered, of a row that is as it was or has grown.            *)
<1>13. ASSUME NEW c \in Out, NEW layout \in Layout, layout # NoLayout,
              layout.of = dashCalls[c].of, Answers(c, layout), StillSeen(layout)',
              UNCHANGED <<preferred, desk, unsettled>>,
              \/ UNCHANGED layoutRow
              \/ \E d \in DashWorkspaces, row \in LayoutRow :
                   /\ Accepted(row.widget) /\ layoutRow' = [layoutRow EXCEPT ![d] = row]
                   /\ layoutRow[d] # NoLayout => row.revision > layoutRow[d].revision
       PROVE  DashInv'
  <2>1. /\ dashCalls' \in [DashCalls -> {NoDashCall} \cup DashCall]
        /\ Out' = Out /\ dashCalls'[c].layout = layout /\ dashCalls'[c].at = "answer"
        /\ dashCalls'[c].of = dashCalls[c].of
        /\ \A e \in DashCalls \ {c} : dashCalls'[e] = dashCalls[e]
        /\ AnswersAreOf'
    BY <1>13, CallAnswered
  <2>2. /\ layoutRow' \in [DashWorkspaces -> {NoLayout} \cup LayoutRow] /\ RowsAccepted'
        /\ \A other \in Layout \cup {NoLayout} : StillSeen(other) => StillSeen(other)'
    <3>1. CASE UNCHANGED layoutRow BY <1>1, <1>4, <3>1 DEF DashTypeOK, StillSeen, Accepted
    <3>2. CASE \E d \in DashWorkspaces, row \in LayoutRow :
                 /\ Accepted(row.widget) /\ layoutRow' = [layoutRow EXCEPT ![d] = row]
                 /\ layoutRow[d] # NoLayout => row.revision > layoutRow[d].revision
      BY <1>9, <3>2 DEF StillSeen, Accepted
    <3>. QED BY <1>13, <3>1, <3>2
  <2>3. DashTypeOK' BY <1>1, <1>13, <2>1, <2>2 DEF DashTypeOK
  <2>4. HeldIsSeen'
    <3>1. StillSeen(desk.layout)'
      <4>1. StillSeen(desk.layout) BY <1>1 DEF HeldIsSeen
      <4>. QED BY <1>3, <1>13, <2>2, <4>1 DEF StillSeen, Accepted
    <3>2. ASSUME NEW e \in Out PROVE StillSeen(dashCalls[e].layout)'
      <4>1. CASE e = c BY <1>13, <2>1, <4>1 DEF StillSeen, Accepted
      <4>2. CASE e # c
        <5>1. dashCalls'[e] = dashCalls[e] /\ dashCalls[e].layout \in Layout \cup {NoLayout}
          BY <1>2, <2>1, <4>2 DEF DashCall
        <5>2. StillSeen(dashCalls[e].layout) BY <1>1 DEF HeldIsSeen
        <5>. QED BY <2>2, <5>1, <5>2 DEF StillSeen, Accepted
      <4>. QED BY <4>1, <4>2
    <3>. QED BY <2>1, <3>1, <3>2 DEF HeldIsSeen
  <2>5. ChosenComes'
    <3>1. \A e \in DashCalls : AskedFor(e) => e \in Out' /\ dashCalls'[e].at # "write"
                                           /\ dashCalls'[e].of = dashCalls[e].of
      BY <2>1 DEF AskedFor
    <3>. QED BY <1>5, <1>13, <3>1
  <2>. QED BY <2>1, <2>2, <2>3, <2>4, <2>5 DEF DashInv
(* A call goes on without a layout of its own.                             *)
<1>14. ASSUME NEW c \in Out, NEW request \in DashCall, dashCalls' = [dashCalls EXCEPT ![c] = request],
              request.of = dashCalls[c].of, request.layout = dashCalls[c].layout,
              request.at = dashCalls[c].at \/ (request.at = "create" /\ dashCalls[c].at = "find"),
              UNCHANGED <<layoutRow, desk, unsettled>>, preferred' \subseteq DashWorkspaces
       PROVE  DashInv'
  <2>1. dashCalls'[c] = request /\ \A e \in DashCalls \ {c} : dashCalls'[e] = dashCalls[e]
    BY <1>1, <1>2, <1>14 DEF DashTypeOK
  <2>2. Out' = Out BY <1>2, <1>14, <2>1, DashAssumption DEF Out
  <2>3. DashTypeOK' BY <1>1, <1>14 DEF DashTypeOK
  <2>4. HeldIsSeen' BY <1>1, <1>2, <1>14, <2>1, <2>2 DEF HeldIsSeen, StillSeen, Accepted
  <2>5. AnswersAreOf' BY <1>1, <1>2, <1>14, <2>1, <2>2 DEF AnswersAreOf
  <2>6. \A e \in DashCalls : AskedFor(e) => e \in Out' /\ dashCalls'[e].at # "write"
                                         /\ dashCalls'[e].of = dashCalls[e].of
    BY <1>14, <2>1, <2>2 DEF AskedFor
  <2>. QED BY <1>4, <1>5, <1>14, <2>3, <2>4, <2>5, <2>6 DEF DashInv
<1>15. ASSUME NEW c \in DashCalls, FindLayout(c) PROVE DashInv'
  <2>. DEFINE d == dashCalls[c].of
  <2>1. c \in Out /\ dashCalls[c].at = "find" /\ UNCHANGED <<layoutRow, preferred, desk, unsettled>>
    BY <1>15 DEF FindLayout
  <2>2. dashCalls[c] \in DashCall /\ d \in DashWorkspaces BY <1>2, <2>1 DEF DashCall
  <2>3. CASE layoutRow[d] # NoLayout
    <3>1. Answers(c, Read(d)) BY <1>15, <2>3 DEF FindLayout
    <3>2. Read(d) \in Layout /\ Read(d) # NoLayout /\ Read(d).of = d /\ StillSeen(Read(d))
      BY <2>2, <2>3, ReadIsSeen
    <3>3. \A layout : StillSeen(layout) /\ UNCHANGED layoutRow =>
            (layout # NoLayout =>
               /\ layoutRow'[layout.of] # NoLayout
               /\ layout.revision <= layoutRow'[layout.of].revision
               /\ layout.revision = layoutRow'[layout.of].revision =>
                    layoutRow'[layout.of].widget = layout.loaded
               /\ Accepted(layout.widget))
      BY DEF StillSeen
    <3>4. PICK layout \in Layout : layout = Read(d) BY <3>2
    <3>5. StillSeen(layout)' BY <2>1, <3>2, <3>3, <3>4 DEF StillSeen
    <3>. QED BY <1>13, <2>1, <3>1, <3>2, <3>4, <3>5
  <2>4. CASE layoutRow[d] = NoLayout
    <3>. DEFINE request == [dashCalls[c] EXCEPT !.at = "create"]
    <3>1. dashCalls' = [dashCalls EXCEPT ![c] = request]
      BY <1>1, <1>15, <2>1, <2>2, <2>4 DEF FindLayout, DashTypeOK
    <3>2. /\ request \in DashCall /\ request.of = dashCalls[c].of /\ request.layout = dashCalls[c].layout
          /\ request.at = "create"
      BY <2>2 DEF DashCall
    <3>3. preferred' \subseteq DashWorkspaces BY <1>1, <2>1 DEF DashTypeOK
    <3>. HIDE DEF request
    <3>. QED BY <1>14, <2>1, <3>1, <3>2, <3>3
  <2>. QED BY <2>3, <2>4
<1>16. ASSUME NEW c \in DashCalls, CreateLayout(c) PROVE DashInv'
  <2>. DEFINE d == dashCalls[c].of
  <2>1. c \in Out /\ dashCalls[c].at = "create" /\ UNCHANGED <<preferred, desk, unsettled>>
    BY <1>16 DEF CreateLayout
  <2>2. dashCalls[c] \in DashCall /\ d \in DashWorkspaces BY <1>2, <2>1 DEF DashCall
  <2>3. CASE layoutRow[d] # NoLayout
    <3>1. Answers(c, Read(d)) /\ UNCHANGED layoutRow BY <1>16, <2>3 DEF CreateLayout
    <3>2. Read(d) \in Layout /\ Read(d) # NoLayout /\ Read(d).of = d /\ StillSeen(Read(d))
      BY <2>2, <2>3, ReadIsSeen
    <3>3. PICK layout \in Layout : layout = Read(d) BY <3>2
    <3>4. StillSeen(layout)' BY <3>1, <3>2, <3>3 DEF StillSeen
    <3>. QED BY <1>13, <2>1, <3>1, <3>2, <3>3, <3>4
  <2>4. CASE layoutRow[d] = NoLayout
    <3>. DEFINE row == [revision |-> 0, widget |-> DefaultWidget]
                layout == [of |-> d, revision |-> 0, widget |-> DefaultWidget, loaded |-> DefaultWidget]
    <3>1. layoutRow' = [layoutRow EXCEPT ![d] = row] /\ Answers(c, layout)
      BY <1>16, <2>4 DEF CreateLayout
    <3>2. DefaultWidget \in Widget /\ Accepted(DefaultWidget) BY DEF DefaultWidget, Widget, Accepted
    <3>3. row \in LayoutRow /\ row.revision = 0 /\ row.widget = DefaultWidget
      BY <3>2, DashAssumption DEF LayoutRow
    <3>4. /\ layout \in Layout /\ layout.of = d /\ layout.revision = 0
          /\ layout.widget = DefaultWidget /\ layout.loaded = DefaultWidget
      BY <2>2, <3>2, DashAssumption DEF Layout
    <3>5. layout # NoLayout /\ row # NoLayout BY <3>3, <3>4, DashAssumption
    <3>. HIDE DEF row, layout
    <3>6. layoutRow'[d] = row BY <1>1, <2>2, <3>1 DEF DashTypeOK
    <3>7. PICK got \in Layout : got = layout BY <3>4
    <3>8. StillSeen(got)' BY <3>2, <3>3, <3>4, <3>5, <3>6, <3>7 DEF StillSeen
    <3>. QED BY <1>13, <2>1, <2>2, <2>4, <3>1, <3>2, <3>3, <3>4, <3>5, <3>7, <3>8
  <2>. QED BY <2>3, <2>4
<1>17. ASSUME NEW c \in DashCalls, SavePreference(c) PROVE DashInv'
  <2>1. c \in Out /\ UNCHANGED <<layoutRow, desk, unsettled>> BY <1>17 DEF SavePreference
  <2>2. dashCalls[c] \in DashCall BY <1>2, <2>1
  <2>. DEFINE request == [dashCalls[c] EXCEPT !.prefers = FALSE]
  <2>3. dashCalls' = [dashCalls EXCEPT ![c] = request]
    BY <1>1, <1>17, <2>1, <2>2 DEF SavePreference, DashTypeOK
  <2>4. /\ request \in DashCall /\ request.of = dashCalls[c].of /\ request.layout = dashCalls[c].layout
        /\ request.at = dashCalls[c].at
    BY <2>2 DEF DashCall
  <2>5. preferred' \subseteq DashWorkspaces
    BY <1>1, <1>17, <2>2 DEF SavePreference, DashTypeOK, DashCall
  <2>. HIDE DEF request
  <2>. QED BY <1>14, <2>1, <2>3, <2>4, <2>5
(* A call ends.                                                            *)
<1>18. ASSUME NEW c \in Out, dashCalls' = [dashCalls EXCEPT ![c] = NoDashCall]
       PROVE  /\ dashCalls' \in [DashCalls -> {NoDashCall} \cup DashCall]
              /\ Out' = Out \ {c} /\ \A e \in DashCalls \ {c} : dashCalls'[e] = dashCalls[e]
              /\ AnswersAreOf'
  <2>1. /\ dashCalls' \in [DashCalls -> {NoDashCall} \cup DashCall] /\ dashCalls'[c] = NoDashCall
        /\ \A e \in DashCalls \ {c} : dashCalls'[e] = dashCalls[e]
    BY <1>1, <1>2, <1>18 DEF DashTypeOK
  <2>2. Out' = Out \ {c} BY <2>1 DEF Out
  <2>3. AnswersAreOf' BY <1>1, <2>1, <2>2 DEF AnswersAreOf, Out
  <2>. QED BY <2>1, <2>2, <2>3
<1>19. ASSUME NEW c \in DashCalls, WriteLayout(c) PROVE DashInv'
  <2>. DEFINE d == dashCalls[c].of
              held == dashCalls[c].layout
              row == Saved(layoutRow[d], held.widget)
  <2>1. c \in Out /\ dashCalls[c].at = "write" /\ UNCHANGED <<preferred, desk, unsettled>>
    BY <1>19 DEF WriteLayout
  <2>2. dashCalls[c] \in DashCall /\ d \in DashWorkspaces BY <1>2, <2>1 DEF DashCall
  <2>3. held # NoLayout /\ held.of = d /\ StillSeen(held)
    BY <1>1, <2>1 DEF AnswersAreOf, HeldIsSeen
  <2>4. held \in Layout BY <2>2, <2>3 DEF DashCall
  <2>5. layoutRow[d] # NoLayout /\ layoutRow[d] \in LayoutRow BY <1>1, <2>2, <2>3 DEF StillSeen, DashTypeOK
  <2>6. CASE Accepted(held.widget) /\ layoutRow[d].revision = held.revision
    <3>. DEFINE got == [of |-> d, revision |-> row.revision, widget |-> row.widget, loaded |-> row.widget]
    <3>1. /\ layoutRow[d].revision < MaxDashRevision /\ layoutRow' = [layoutRow EXCEPT ![d] = row]
          /\ Answers(c, got)
      BY <1>19, <2>6 DEF WriteLayout
    <3>2. /\ row \in LayoutRow /\ row.revision > layoutRow[d].revision /\ row.widget = held.widget
          /\ row.revision \in 0 .. MaxDashRevision /\ row.widget \in Widget
      BY <2>4, <2>5, <3>1, DashAssumption DEF Saved, LayoutRow, Layout
    <3>3. row # NoLayout BY <3>2, DashAssumption
    <3>. HIDE DEF row
    <3>4. /\ got \in Layout /\ got.of = d /\ got.revision = row.revision
          /\ got.widget = row.widget /\ got.loaded = row.widget
      BY <2>2, <3>2 DEF Layout
    <3>5. got # NoLayout BY <3>4, DashAssumption
    <3>. HIDE DEF got
    <3>6. layoutRow'[d] = row BY <1>1, <2>2, <3>1 DEF DashTypeOK
    <3>7. PICK layout \in Layout : layout = got BY <3>4
    <3>8. row.revision \in Int /\ Accepted(row.widget) BY <2>6, <3>2
    <3>9. StillSeen(layout)' BY <3>3, <3>4, <3>6, <3>7, <3>8 DEF StillSeen
    <3>. QED BY <1>13, <2>1, <2>2, <3>1, <3>2, <3>4, <3>5, <3>7, <3>8, <3>9
  <2>7. CASE ~(Accepted(held.widget) /\ layoutRow[d].revision = held.revision)
    <3>1. dashCalls' = [dashCalls EXCEPT ![c] = NoDashCall] /\ UNCHANGED layoutRow
      BY <1>19, <2>7 DEF WriteLayout
    <3>2. DashTypeOK' BY <1>1, <1>18, <2>1, <3>1 DEF DashTypeOK
    <3>3. HeldIsSeen'
      BY <1>1, <1>18, <2>1, <3>1 DEF HeldIsSeen, StillSeen, Accepted, Out
    <3>4. \A e \in DashCalls : AskedFor(e) => e \in Out' /\ dashCalls'[e] = dashCalls[e]
      BY <1>18, <2>1, <3>1 DEF AskedFor
    <3>5. ChosenComes' BY <1>5, <2>1, <3>4 DEF AskedFor
    <3>. QED BY <1>4, <1>18, <2>1, <3>1, <3>2, <3>3, <3>5 DEF DashInv
  <2>. QED BY <2>6, <2>7
<1>20. ASSUME NEW c \in DashCalls, LayoutArrives(c) PROVE DashInv'
  <2>1. /\ c \in Out /\ dashCalls[c].at = "answer" /\ desk' = [desk EXCEPT !.layout = dashCalls[c].layout]
        /\ unsettled' = (unsettled \/ dashCalls[c].of # desk.chosen)
        /\ dashCalls' = [dashCalls EXCEPT ![c] = NoDashCall] /\ UNCHANGED <<layoutRow, preferred>>
    BY <1>20 DEF LayoutArrives
  <2>2. /\ dashCalls[c].layout \in Layout \cup {NoLayout} /\ dashCalls[c].of \in DashWorkspaces
        /\ dashCalls[c].layout # NoLayout /\ dashCalls[c].layout.of = dashCalls[c].of
    BY <1>1, <1>2, <2>1 DEF AnswersAreOf, DashCall
  <2>3. /\ desk'.layout = dashCalls[c].layout /\ desk'.chosen = desk.chosen
        /\ desk' \in [items : {{}} \cup DashSites, chosen : DashWorkspaces \cup {NoWorkspace},
                      layout : Layout \cup {NoLayout}]
    BY <1>1, <2>1, <2>2 DEF DashTypeOK
  <2>4. DashTypeOK' BY <1>1, <1>18, <2>1, <2>3 DEF DashTypeOK
  <2>5. HeldIsSeen'
    BY <1>1, <1>18, <2>1, <2>3 DEF HeldIsSeen, StillSeen, Accepted, Out
  <2>6. ChosenComes'
    <3>. SUFFICES ASSUME ~unsettled' PROVE desk'.chosen # NoWorkspace /\ ChosenShown'
      BY DEF ChosenComes
    <3>1. dashCalls[c].of = desk.chosen BY <2>1
    <3>. QED BY <2>2, <2>3, <3>1, DashAssumption DEF ChosenShown
  <2>. QED BY <1>4, <1>18, <2>1, <2>4, <2>5, <2>6 DEF DashInv
<1>21. ASSUME NEW c \in DashCalls, LayoutFails(c) PROVE DashInv'
  <2>1. /\ c \in Out /\ dashCalls' = [dashCalls EXCEPT ![c] = NoDashCall]
        /\ unsettled' = (unsettled \/ dashCalls[c].at # "write")
        /\ UNCHANGED <<layoutRow, preferred, desk>>
    BY <1>21 DEF LayoutFails
  <2>2. DashTypeOK' BY <1>1, <1>18, <2>1 DEF DashTypeOK
  <2>3. HeldIsSeen'
    BY <1>1, <1>18, <2>1 DEF HeldIsSeen, StillSeen, Accepted, Out
  <2>4. ChosenComes'
    <3>. SUFFICES ASSUME ~unsettled, dashCalls[c].at = "write" PROVE ChosenComes'
      BY <2>1 DEF ChosenComes
    <3>1. \A e \in DashCalls : AskedFor(e) => AskedFor(e)'
      BY <1>18, <2>1 DEF AskedFor
    <3>. QED BY <1>1, <2>1, <3>1 DEF ChosenComes, ChosenShown
  <2>. QED BY <1>4, <1>18, <2>1, <2>2, <2>3, <2>4 DEF DashInv
<1>. QED
  BY <1>7, <1>8, <1>10, <1>11, <1>12, <1>15, <1>16, <1>17, <1>19, <1>20, <1>21 DEF DashNext

\* Whoever holds a layout of the number that its row has was shown what the row
\* says; the layout of the workspace that is chosen is the one shown, once all
\* has come in its turn; and no widget reaches beyond the twelfth column (the
\* dashboard's part of PagesHangTogether).
THEOREM LayoutsAreShown == DashInit /\ [][DashNext]_dashVars => [](DashTypeOK /\ LayoutsAreSeen)
<1>1. DashInv /\ UNCHANGED dashVars => DashInv'
  BY DEF dashVars, DashInv, DashTypeOK, RowsAccepted, HeldIsSeen, StillSeen, AnswersAreOf, ChosenComes,
         ChosenShown, AskedFor, Out, Accepted
<1>2. DashInv /\ [DashNext]_dashVars => DashInv' BY <1>1, DashInvKept
<1>3. DashInv => DashTypeOK /\ LayoutsAreSeen
  <2>. SUFFICES ASSUME DashInv PROVE LayoutsAreSeen BY DEF DashInv
  <2>1. \A layout \in HeldLayouts \ {NoLayout} :
          /\ layoutRow[layout.of].revision = layout.revision => layoutRow[layout.of].widget = layout.loaded
          /\ Accepted(layout.widget)
    BY DEF HeldLayouts, DashInv, HeldIsSeen, StillSeen
  <2>2. Out = {} /\ ~unsettled =>
          IF desk.chosen = NoWorkspace THEN desk.layout = NoLayout
          ELSE desk.layout # NoLayout /\ desk.layout.of = desk.chosen
    BY DEF DashInv, ChosenComes, ChosenShown, AskedFor
  <2>. QED BY <2>1, <2>2 DEF LayoutsAreSeen
<1>. QED BY <1>2, <1>3, DashInvInit, PTL
=============================================================================
