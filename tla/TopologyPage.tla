----------------------------- MODULE TopologyPage ----------------------------
(***************************************************************************)
(* The page that draws topology maps, as one browser tab runs it:          *)
(* apps/web/features/topology/topology-page.tsx, against a server that     *)
(* other operators write to as well.                                       *)
(*                                                                         *)
(* Devices are dragged; half a second after the last drag the positions    *)
(* are sent, with the revision the map had when it was dragged.  One timer *)
(* and one list of pending positions serve whichever map is selected.      *)
(***************************************************************************)
EXTENDS Integers

CONSTANTS
  TopologyMaps, TopologyDevices,
  Places,        \* positions on the canvas
  Requests,      \* requests the page may have under way (a bound)
  LastRevision,  \* revisions a map may reach (a bound)
  MaxActs,       \* what operators may do (a bound)
  DrawnOn,       \* the devices on each map at the start
  FirstPlace,    \* where addDevice puts a device
  NoMap, NoData, NothingPending, NoTimer, NoCallout

ASSUME RevisionAssumption == LastRevision \in Nat \ {0} /\ MaxActs \in Nat
ASSUME DrawnAssumption ==
  FirstPlace \in Places /\ DrawnOn \in [TopologyMaps -> SUBSET TopologyDevices]

VARIABLES
  server,     \* each map as the API has it, or NoMap once deleted
  selected,   \* the map chosen in the select box
  cache,      \* what the page last fetched of each map
  positions,  \* pendingPositions: nodes dragged, of the map "of"
  saveState,
  saveTimer,  \* what the timer is to send
  callouts,   \* requests sent, and what the API made of them
  owed,       \* <<map, device, place>>: dragged where it stood, not stored nor given up
  hurried,    \* a drag, or a retry, came while others' positions were pending
  acts        \* what operators have done so far

pageVars ==
  <<server, selected, cache, positions, saveState, saveTimer, callouts, owed, hurried,
    acts>>

current == IF selected = NoMap THEN NoData ELSE cache[selected]

\* A mutant: what is drawn forgets the positions that wait to be sent.
ShownAsFetched == current.at

(* The nodes on the canvas: those fetched, where they were last dragged.   *)
Shown ==
  [d \in DOMAIN current.at |->
     IF positions # NothingPending /\ positions.of = selected /\ d \in DOMAIN positions.at
     THEN positions.at[d] ELSE current.at[d]]

PageInit ==
  /\ server = [m \in TopologyMaps |->
                 [revision |-> 1, at |-> [d \in DrawnOn[m] |-> FirstPlace]]]
  /\ selected = NoMap /\ cache = [m \in TopologyMaps |-> NoData]
  /\ positions = NothingPending /\ saveState = "saved" /\ saveTimer = NoTimer
  /\ callouts = [q \in Requests |-> NoCallout]
  /\ owed = {} /\ hurried = FALSE /\ acts = 0

Acts == acts < MaxActs /\ acts' = acts + 1

(* The select box and the query of the map: fetched when it is selected,   *)
(* refetched after an answer and when the network comes back.              *)
SelectMap(m) ==
  /\ m # selected /\ (m # NoMap => server[m] # NoMap)
  /\ selected' = m
  /\ UNCHANGED <<server, cache, positions, saveState, saveTimer, callouts, owed, hurried, acts>>
FetchMap ==
  /\ selected # NoMap /\ server[selected] # NoMap
  /\ cache' = [cache EXCEPT ![selected] = server[selected]]
  /\ UNCHANGED <<server, selected, positions, saveState, saveTimer, callouts, owed, hurried, acts>>

Moving(q) == callouts[q] # NoCallout /\ callouts[q].kind = "move"

(* persist: the closure keeps the map, its revision and the nodes.         *)
Persist(nodes) ==
  /\ positions' = nodes
  /\ saveState' = "pending"
  /\ saveTimer' = [map |-> selected, revision |-> current.revision, nodes |-> nodes]
  /\ hurried' = (\/ hurried
                 \/ \E q \in Requests : Moving(q)
                 \/ positions # NothingPending /\ positions.of # selected)

(* A dragged node is stored, or goes with its map or with the node another *)
(* removes: one that was gone already when it was dragged is owed nothing. *)
Stands(o, after) ==
  after[o[1]] # NoMap /\ o[2] \in DOMAIN after[o[1]].at

(* handleNodesChange, retrySave and reloadMap.                             *)
DragNode(d, p) ==
  /\ Acts /\ current # NoData /\ d \in DOMAIN current.at /\ Shown[d] # p
  /\ Persist([of |-> selected, at |-> [Shown EXCEPT ![d] = p]])
  /\ owed' = {o \in owed : o[1] # selected \/ o[2] # d}
               \cup {o \in {<<selected, d, p>>} : Stands(o, server)}
  /\ UNCHANGED <<server, selected, cache, callouts>>
RetrySave ==
  /\ Acts /\ current # NoData /\ saveState = "failed" /\ positions # NothingPending
  /\ Persist(positions)
  /\ UNCHANGED <<server, selected, cache, callouts, owed>>
ReloadMap ==
  /\ current # NoData /\ saveState = "failed"
  /\ saveTimer' = NoTimer /\ positions' = NothingPending /\ saveState' = "saved"
  /\ owed' = {}
  /\ UNCHANGED <<server, selected, cache, callouts, hurried, acts>>

Sends(q, callout) ==
  /\ callouts[q] = NoCallout
  /\ callouts' = [callouts EXCEPT ![q] = callout]
SaveTimerFires(q) ==
  /\ saveTimer # NoTimer
  /\ Sends(q, [kind |-> "move", map |-> saveTimer.map, revision |-> saveTimer.revision,
               nodes |-> saveTimer.nodes, answer |-> "none"])
  /\ saveTimer' = NoTimer
  /\ UNCHANGED <<server, selected, cache, positions, saveState, owed, hurried, acts>>

(* addDevice; createConnectionFromPorts, saveConnection, removeConnection, *)
(* which name a revision too; the removal of the map; a new map.           *)
AddDevice(q, d) ==
  /\ Acts /\ current # NoData /\ d \notin DOMAIN current.at
  /\ Sends(q, [kind |-> "add", map |-> selected, revision |-> current.revision,
               nodes |-> [of |-> selected, at |->
                 [e \in DOMAIN current.at \cup {d} |->
                    IF e = d THEN FirstPlace ELSE Shown[e]]], answer |-> "none"])
  /\ UNCHANGED <<server, selected, cache, positions, saveState, saveTimer, owed, hurried>>
EditConnections(q) ==
  /\ Acts /\ current # NoData
  /\ Sends(q, [kind |-> "connect", map |-> selected, revision |-> current.revision,
               nodes |-> NothingPending, answer |-> "none"])
  /\ UNCHANGED <<server, selected, cache, positions, saveState, saveTimer, owed, hurried>>
RemoveMap(q) ==
  /\ Acts /\ current # NoData
  /\ Sends(q, [kind |-> "remove", map |-> selected, revision |-> current.revision,
               nodes |-> NothingPending, answer |-> "none"])
  /\ UNCHANGED <<server, selected, cache, positions, saveState, saveTimer, owed, hurried>>
CreateNewMap(q, m) ==
  /\ Acts /\ server[m] = NoMap
  /\ Sends(q, [kind |-> "create", map |-> m, revision |-> 1,
               nodes |-> NothingPending, answer |-> "none"])
  /\ UNCHANGED <<server, selected, cache, positions, saveState, saveTimer, owed, hurried>>

(* The API: a revision that is not the map's is refused.                   *)
Carried(o, c) ==
  c.kind \in {"move", "add"} /\ c.map = o[1] /\ o[2] \in DOMAIN c.nodes.at
    /\ c.nodes.at[o[2]] = o[3]
Applied(c) ==
  CASE c.kind = "create" -> [revision |-> 1, at |-> [d \in {} |-> FirstPlace]]
    [] c.kind = "remove" -> NoMap
    [] c.kind = "connect" -> [server[c.map] EXCEPT !.revision = @ + 1]
    [] OTHER -> [revision |-> c.revision + 1, at |-> c.nodes.at]
Accepts(c) ==
  IF c.kind = "create" THEN server[c.map] = NoMap
  ELSE server[c.map] # NoMap /\ server[c.map].revision = c.revision
Serve(q) ==
  /\ callouts[q] # NoCallout /\ callouts[q].answer = "none"
  /\ LET c == callouts[q]
     IN IF Accepts(c)
        THEN /\ c.revision < LastRevision
             /\ server' = [server EXCEPT ![c.map] = Applied(c)]
             /\ callouts' = [callouts EXCEPT ![q].answer = "done"]
             /\ owed' = {o \in owed : Stands(o, server') /\ ~Carried(o, c)}
        ELSE /\ callouts' = [callouts EXCEPT ![q].answer = "refused"]
             /\ UNCHANGED <<server, owed>>
  /\ UNCHANGED <<selected, cache, positions, saveState, saveTimer, hurried, acts>>

(* What the page makes of an answer, one that was lost on its way included.*)
Answered(q) ==
  /\ callouts[q] # NoCallout /\ callouts[q].answer # "none"
  /\ \E told \in {callouts[q].answer, "refused"} :
       LET c == callouts[q]
           well == told = "done"
       IN /\ positions' = IF c.kind = "move" /\ well THEN NothingPending ELSE positions
          /\ saveState' = IF c.kind # "move" THEN saveState
                          ELSE IF well THEN "saved" ELSE "failed"
          /\ selected' = CASE well /\ c.kind = "remove" -> NoMap
                           [] well /\ c.kind = "create" -> c.map
                           [] OTHER -> selected
  /\ callouts' = [callouts EXCEPT ![q] = NoCallout]
  /\ UNCHANGED <<server, cache, saveTimer, owed, hurried, acts>>

(* Another operator, or another tab, writes to a map.                      *)
OthersWrite(m) ==
  /\ Acts /\ server[m] # NoMap /\ server[m].revision < LastRevision
  /\ \E D \in SUBSET TopologyDevices, p \in Places :
       server' = [server EXCEPT ![m] = [revision |-> @.revision + 1, at |->
         [d \in D |-> IF d \in DOMAIN server[m].at THEN server[m].at[d] ELSE p]]]
  /\ owed' = {o \in owed : Stands(o, server')}
  /\ UNCHANGED <<selected, cache, positions, saveState, saveTimer, callouts, hurried>>

PageNext ==
  \/ \E m \in TopologyMaps \cup {NoMap} : SelectMap(m)
  \/ FetchMap \/ RetrySave \/ ReloadMap
  \/ \E d \in TopologyDevices, p \in Places : DragNode(d, p)
  \/ \E q \in Requests : \/ SaveTimerFires(q) \/ EditConnections(q) \/ RemoveMap(q)
                         \/ \E d \in TopologyDevices : AddDevice(q, d)
                         \/ \E m \in TopologyMaps : CreateNewMap(q, m)
                         \/ Serve(q) \/ Answered(q)
  \/ \E m \in TopologyMaps : OthersWrite(m)

PageSpec == PageInit /\ [][PageNext]_pageVars
-----------------------------------------------------------------------------
Nodes == UNION {[D -> Places] : D \in SUBSET TopologyDevices}
MapData == [revision : 1..LastRevision, at : Nodes]
NodesOfMap == [of : TopologyMaps, at : Nodes]
ASSUME NoneAssumption == NoData \notin MapData /\ NothingPending \notin NodesOfMap
Callout ==
  [kind : {"move", "add", "connect", "remove", "create"}, map : TopologyMaps,
   revision : 1..LastRevision, nodes : NodesOfMap \cup {NothingPending},
   answer : {"none", "done", "refused"}]

(* Every variable has its type.                                            *)
PageTypeOK ==
  /\ server \in [TopologyMaps -> MapData \cup {NoMap}]
  /\ selected \in TopologyMaps \cup {NoMap}
  /\ cache \in [TopologyMaps -> MapData \cup {NoData}]
  /\ positions \in NodesOfMap \cup {NothingPending}
  /\ saveState \in {"saved", "pending", "failed"}
  /\ saveTimer = NoTimer
       \/ saveTimer \in [map : TopologyMaps, revision : 1..LastRevision, nodes : NodesOfMap]
  /\ callouts \in [Requests -> Callout \cup {NoCallout}]
  /\ owed \subseteq TopologyMaps \X TopologyDevices \X Places
  /\ hurried \in BOOLEAN /\ acts \in 0..MaxActs

(* "Todas as posições estão guardadas" is true: every position dragged is  *)
(* stored, or given up by its operator -- unless a drag, or a retry, came  *)
(* while a save was under way or positions of another map were pending.    *)
(* Then an answer takes the newer positions for saved, the one timer       *)
(* forgets the older ones, or a retry writes one map's nodes to another.   *)
SavedIsSaved == saveState = "saved" /\ ~hurried => owed = {}
=============================================================================
