-------------------------- MODULE DashboardLayouts --------------------------
(***************************************************************************)
(* The layouts of the dashboard: one row per site and role                 *)
(* (apps/api/src/dashboard/dashboard.service.ts), and a page that chooses  *)
(* among the workspaces of its site, edits a layout and saves it           *)
(* (apps/web/features/dashboard/dashboard-page.tsx) while others do too.   *)
(* A layout is one widget here: what is said of it is said of each.        *)
(***************************************************************************)
EXTENDS Integers

CONSTANTS
  DashWorkspaces,   \* pairs of a site and a role
  DashSites,        \* the workspaces of each site
  DashCalls,        \* requests of the page at a time (a bound)
  MaxDashRevision,  \* DashboardLayout.revision (a bound)
  NoLayout, NoWorkspace, NoDashCall

VARIABLES
  layoutRow,   \* DashboardLayout
  preferred,   \* UserDashboardPreference: the workspaces last selected, one per site
  desk,        \* the page: workspaces, workspaceId, layout
  dashCalls,   \* its requests: the statement to come, and what it sent or gets
  unsettled    \* layouts came in another order, or one not at all

dashVars == <<layoutRow, preferred, desk, dashCalls, unsettled>>

Widget == [x : {0, 6}, w : {6, 12}]  \* half the width or all of it
Layout == [of : DashWorkspaces, revision : 0 .. MaxDashRevision, widget : Widget,
           loaded : Widget]  \* as it was before it was edited
LayoutRow == [revision : 0 .. MaxDashRevision, widget : Widget]
DashCall == [at : {"find", "create", "write", "answer"}, of : DashWorkspaces,
             layout : Layout \cup {NoLayout}, prefers : BOOLEAN]

ASSUME DashAssumption ==
  /\ MaxDashRevision \in Nat /\ DashSites \subseteq SUBSET DashWorkspaces
  /\ NoWorkspace \notin DashWorkspaces
  /\ NoLayout \notin Layout \cup LayoutRow /\ NoDashCall \notin DashCall

(* defaultWidgets, of a widget in the right column                         *)
DefaultWidget == [x |-> 6, w |-> 6]

DashInit ==
  /\ layoutRow = [d \in DashWorkspaces |-> NoLayout] /\ preferred = {}
  /\ desk = [items |-> {}, chosen |-> NoWorkspace, layout |-> NoLayout]
  /\ dashCalls = [c \in DashCalls |-> NoDashCall] /\ unsettled = FALSE

Out == {c \in DashCalls : dashCalls[c] # NoDashCall}
Loads(d) == [at |-> "find", of |-> d, layout |-> NoLayout, prefers |-> TRUE]

(* The effect of a workspace: its layout is asked for, and it is preferred *)
(* from now on.  Requests that are out are not abandoned.                  *)
Turns(next) ==
  IF next.chosen = NoWorkspace
  THEN desk' = [next EXCEPT !.layout = NoLayout] /\ UNCHANGED dashCalls
  ELSE \E c \in DashCalls \ Out :
         /\ desk' = next
         /\ dashCalls' = [dashCalls EXCEPT ![c] = Loads(next.chosen)]
WorkspacesArrive(items) ==
  /\ LET selected == items \cap preferred
     IN \E first \in IF desk.chosen \in items THEN {desk.chosen}
                     ELSE IF selected # {} THEN selected
                     ELSE IF items # {} THEN items ELSE {NoWorkspace} :
          Turns([desk EXCEPT !.items = items, !.chosen = first])
  /\ UNCHANGED <<layoutRow, preferred, unsettled>>
ChooseWorkspace(d) ==
  /\ d \in desk.items \ {desk.chosen}
  /\ Turns([desk EXCEPT !.chosen = d])
  /\ UNCHANGED <<layoutRow, preferred, unsettled>>

(* updateWidget, for the two fields that the page changes: the width is    *)
(* cut where the widget stands, and then the widget moves to the left.     *)
Cut(n, most) == IF n > most THEN most ELSE n
Sized(widget, w) == [widget EXCEPT !.w = Cut(w, 12 - widget.x)]
Placed(widget, x) == [widget EXCEPT !.x = Cut(x, 11), !.w = Cut(@, 12 - Cut(x, 11))]
EditLayout(next) ==
  /\ desk.layout # NoLayout /\ next # desk.layout.widget
  /\ desk' = [desk EXCEPT !.layout.widget = next]
  /\ UNCHANGED <<layoutRow, preferred, dashCalls, unsettled>>
SetWidth(width) == desk.layout # NoLayout /\ EditLayout(Placed(Sized(desk.layout.widget, width), 0))
SaveLayout ==
  /\ desk.layout # NoLayout
  /\ \E c \in DashCalls \ Out :
       dashCalls' = [dashCalls EXCEPT ![c] = [at |-> "write", of |-> desk.layout.of,
                                              layout |-> desk.layout, prefers |-> FALSE]]
  /\ UNCHANGED <<layoutRow, preferred, desk, unsettled>>

(* The API.  Reading a layout that is not there creates it; who has lost   *)
(* the race to do so reads that of the other.                              *)
Answers(c, layout) == dashCalls' = [dashCalls EXCEPT ![c].at = "answer", ![c].layout = layout]
Read(d) == [of |-> d, revision |-> layoutRow[d].revision, widget |-> layoutRow[d].widget,
            loaded |-> layoutRow[d].widget]
FindLayout(c) ==
  /\ c \in Out /\ dashCalls[c].at = "find"
  /\ LET d == dashCalls[c].of
     IN IF layoutRow[d] # NoLayout THEN Answers(c, Read(d))
        ELSE dashCalls' = [dashCalls EXCEPT ![c].at = "create"]
  /\ UNCHANGED <<layoutRow, preferred, desk, unsettled>>
CreateLayout(c) ==
  /\ c \in Out /\ dashCalls[c].at = "create"
  /\ LET d == dashCalls[c].of
     IN IF layoutRow[d] # NoLayout THEN Answers(c, Read(d)) /\ UNCHANGED layoutRow
        ELSE /\ layoutRow' = [layoutRow EXCEPT ![d] = [revision |-> 0, widget |-> DefaultWidget]]
             /\ Answers(c, [of |-> d, revision |-> 0, widget |-> DefaultWidget, loaded |-> DefaultWidget])
  /\ UNCHANGED <<preferred, desk, unsettled>>
SavePreference(c) ==  \* of one site there is one preference
  /\ c \in Out /\ dashCalls[c].prefers
  /\ \E site \in DashSites : dashCalls[c].of \in site /\ preferred' = (preferred \ site) \cup {dashCalls[c].of}
  /\ dashCalls' = [dashCalls EXCEPT ![c].prefers = FALSE]
  /\ UNCHANGED <<layoutRow, desk, unsettled>>

(* saveLayout, of the number that was loaded                               *)
Saved(row, widget) == [revision |-> row.revision + 1, widget |-> widget]
Accepted(widget) == widget.x + widget.w <= 12
WriteLayout(c) ==
  /\ c \in Out /\ dashCalls[c].at = "write"
  /\ LET d == dashCalls[c].of
         layout == dashCalls[c].layout
         row == Saved(layoutRow[d], layout.widget)
     IN IF Accepted(layout.widget) /\ layoutRow[d].revision = layout.revision
        THEN /\ layoutRow[d].revision < MaxDashRevision
             /\ layoutRow' = [layoutRow EXCEPT ![d] = row]
             /\ Answers(c, [of |-> d, revision |-> row.revision, widget |-> row.widget, loaded |-> row.widget])
        ELSE /\ dashCalls' = [dashCalls EXCEPT ![c] = NoDashCall]  \* nothing tells the page
             /\ UNCHANGED layoutRow
  /\ UNCHANGED <<preferred, desk, unsettled>>
OthersSaveLayout(d, widget) ==
  /\ Accepted(widget) /\ layoutRow[d] # NoLayout /\ layoutRow[d].revision < MaxDashRevision
  /\ layoutRow' = [layoutRow EXCEPT ![d] = Saved(@, widget)]
  /\ UNCHANGED <<preferred, desk, dashCalls, unsettled>>

(* Whatever is chosen by now, the layout that arrives is shown, once the   *)
(* preference is stored too.                                               *)
LayoutArrives(c) ==
  /\ c \in Out /\ dashCalls[c].at = "answer" /\ ~dashCalls[c].prefers
  /\ desk' = [desk EXCEPT !.layout = dashCalls[c].layout]
  /\ unsettled' = (unsettled \/ dashCalls[c].of # desk.chosen)
  /\ dashCalls' = [dashCalls EXCEPT ![c] = NoDashCall]
  /\ UNCHANGED <<layoutRow, preferred>>
LayoutFails(c) ==
  /\ c \in Out
  /\ dashCalls' = [dashCalls EXCEPT ![c] = NoDashCall]
  /\ unsettled' = (unsettled \/ dashCalls[c].at # "write")
  /\ UNCHANGED <<layoutRow, preferred, desk>>

DashNext ==
  \/ \E items \in {{}} \cup DashSites : WorkspacesArrive(items)
  \/ \E d \in DashWorkspaces : ChooseWorkspace(d) \/ OthersSaveLayout(d, [x |-> 0, w |-> 12])
  \/ SaveLayout \/ \E width \in {6, 12} : SetWidth(width)
  \/ \E c \in DashCalls :
       \/ FindLayout(c) \/ CreateLayout(c) \/ SavePreference(c) \/ WriteLayout(c)
       \/ LayoutArrives(c) \/ LayoutFails(c)
-----------------------------------------------------------------------------
DashTypeOK ==
  /\ layoutRow \in [DashWorkspaces -> {NoLayout} \cup LayoutRow]
  /\ preferred \subseteq DashWorkspaces
  /\ desk \in [items : {{}} \cup DashSites, chosen : DashWorkspaces \cup {NoWorkspace},
               layout : Layout \cup {NoLayout}]
  /\ dashCalls \in [DashCalls -> {NoDashCall} \cup DashCall]
  /\ unsettled \in BOOLEAN

(* A revision stands for one content: whoever holds a layout of the number *)
(* that the row has by now was shown what the row says, so that what is    *)
(* saved over it was seen.  When the answers are here, each in its turn,   *)
(* the page shows the layout of the workspace that is chosen; and a widget *)
(* never reaches beyond the twelfth column, which the API would refuse.    *)
HeldLayouts == {desk.layout} \cup {dashCalls[c].layout : c \in Out}
LayoutsAreSeen ==
  /\ \A layout \in HeldLayouts \ {NoLayout} :
       /\ layoutRow[layout.of].revision = layout.revision => layoutRow[layout.of].widget = layout.loaded
       /\ Accepted(layout.widget)
  /\ Out = {} /\ ~unsettled =>
       IF desk.chosen = NoWorkspace THEN desk.layout = NoLayout
       ELSE desk.layout # NoLayout /\ desk.layout.of = desk.chosen
=============================================================================
