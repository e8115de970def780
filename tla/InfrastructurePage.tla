-------------------------- MODULE InfrastructurePage -------------------------
(***************************************************************************)
(* The infrastructure page of one browser tab: apps/web/features/          *)
(* infrastructure/infrastructure-workspace.tsx with its editors, and the   *)
(* site chosen in the sidebar (apps/web/lib/site-context.tsx).             *)
(*                                                                         *)
(* What is selected is kept three times: in the state of the page, in its  *)
(* URL and in the browser's storage.  Handlers that await the API go on    *)
(* with the site, the device and the form they started with, whatever is   *)
(* selected by then.                                                       *)
(***************************************************************************)
EXTENDS Integers, FiniteSets, Sequences

CONSTANTS
  PageSites, PageBuildings, PageRooms, PageRacks, PageDevices, PageModels,
  SiteOfBuilding, BuildingOfRoom, RoomOfRack, SiteOfDevice,
  Awaited,   \* calls of the API the page may await at once (a bound)
  Nothing, NoAnswer

ASSUME ScreenAssumption ==
  /\ SiteOfBuilding \in [PageBuildings -> PageSites] /\ BuildingOfRoom \in [PageRooms -> PageBuildings]
  /\ RoomOfRack \in [PageRacks -> PageRooms] /\ SiteOfDevice \in [PageDevices -> PageSites]
  /\ Nothing \notin PageBuildings \cup PageRooms \cup PageRacks \cup PageDevices

VARIABLES
  site,      \* the site of SiteProvider
  url,       \* the parameters of the address
  stored,    \* infrastructureContext of the local storage
  chosen,    \* buildingId, roomId, rackId, device
  modal,
  editing,   \* editingId, and the row the form was filled with
  locating,  \* editingLocationId, and the place its form was filled with
  awaited,   \* what each handler that awaits keeps
  late       \* an answer of a handler that started under another site changed this one's page

screenVars ==
  <<site, url, stored, chosen, modal, editing, locating, awaited, late>>

Address(s, b, r, k, d) == [site |-> s, building |-> b, room |-> r, rack |-> k, device |-> d]
Choice(b, r, k, d) == [building |-> b, room |-> r, rack |-> k, device |-> d]
Context(s, b, r) == [site |-> s, building |-> b, room |-> r]
RoomsOf(s) == {r \in PageRooms : SiteOfBuilding[BuildingOfRoom[r]] = s}
BuildingsOf(s) == {b \in PageBuildings : SiteOfBuilding[b] = s}

ScreenInit ==
  /\ site \in PageSites
  /\ url = Address(site, Nothing, Nothing, Nothing, Nothing)
  /\ stored = Nothing
  /\ chosen = Choice(Nothing, Nothing, Nothing, Nothing)
  /\ modal = "none" /\ editing = [id |-> Nothing, filled |-> Nothing]
  /\ locating = [id |-> Nothing, filled |-> Nothing]
  /\ awaited = [q \in Awaited |-> NoAnswer]
  /\ late = FALSE

Selection == <<url, stored, chosen>>
Editors == <<modal, editing, locating>>

(* SiteProvider's choose, and the effect that clears the selection.        *)
ChooseSite(s) ==
  /\ modal = "none" /\ s # site
  /\ site' = s
  /\ url' = Address(s, Nothing, Nothing, Nothing, Nothing)
  /\ stored' = Nothing
  /\ chosen' = Choice(Nothing, Nothing, Nothing, Nothing)
  /\ late' = FALSE
  /\ UNCHANGED <<Editors, awaited>>

(* A dialog covers the page: the rest of it is used while none is open.    *)
ChooseBuilding(b) ==
  /\ modal = "none" /\ b \in BuildingsOf(site) \cup {Nothing}
  /\ chosen' = Choice(b, Nothing, Nothing, Nothing)
  /\ stored' = Context(site, b, Nothing)
  /\ url' = Address(site, b, Nothing, Nothing, Nothing)
  /\ UNCHANGED <<site, Editors, awaited, late>>
ChooseRoom(r) ==
  /\ modal = "none" /\ chosen.building # Nothing
  /\ r \in {t \in RoomsOf(site) : BuildingOfRoom[t] = chosen.building} \cup {Nothing}
  /\ chosen' = Choice(chosen.building, r, Nothing, Nothing)
  /\ stored' = Context(site, chosen.building, r)
  /\ url' = Address(site, chosen.building, r, Nothing, Nothing)
  /\ UNCHANGED <<site, Editors, awaited, late>>
OpenRack(k) ==
  /\ modal = "none" /\ RoomOfRack[k] = chosen.room /\ chosen.room \in RoomsOf(site)
  /\ chosen' = [chosen EXCEPT !.room = RoomOfRack[k], !.rack = k]
  /\ url' = Address(site, BuildingOfRoom[RoomOfRack[k]], RoomOfRack[k], k, Nothing)
  /\ UNCHANGED <<site, stored, Editors, awaited, late>>
LeaveRack ==
  /\ modal = "none" /\ chosen.rack # Nothing
  /\ chosen' = [chosen EXCEPT !.rack = Nothing]
  /\ url' = [url EXCEPT !.rack = Nothing]
  /\ UNCHANGED <<site, stored, Editors, awaited, late>>
OpenDevice(d) ==
  /\ modal = "none" /\ SiteOfDevice[d] = site
  /\ chosen' = [chosen EXCEPT !.device = d]
  /\ url' = Address(site, Nothing, Nothing, Nothing, d)
  /\ UNCHANGED <<site, stored, Editors, awaited, late>>
ResetPage ==  \* a tab clicked twice
  /\ modal = "none"
  /\ chosen' = Choice(Nothing, Nothing, Nothing, Nothing)
  /\ stored' = Context(site, Nothing, Nothing)
  /\ url' = Address(site, Nothing, Nothing, Nothing, Nothing)
  /\ UNCHANGED <<site, Editors, awaited, late>>

(* The effect that restores a selection when locations, racks or devices   *)
(* come anew: from the URL, and from the storage what the URL leaves out.  *)
Restored ==
  LET mine == stored # Nothing /\ stored.site = site
      device == IF url.device # Nothing /\ SiteOfDevice[url.device] = site
                THEN url.device ELSE chosen.device
      room == CASE url.room # Nothing -> url.room
                [] OTHER -> IF mine THEN stored.room ELSE Nothing
      asked == CASE url.building # Nothing -> url.building
                 [] OTHER -> IF mine THEN stored.building ELSE Nothing
      building == IF room \in RoomsOf(site) THEN BuildingOfRoom[room] ELSE asked
  IN IF url.rack # Nothing /\ RoomOfRack[url.rack] \in RoomsOf(site)
     THEN [choice |-> Choice(BuildingOfRoom[RoomOfRack[url.rack]], RoomOfRack[url.rack],
                             url.rack, device),
           context |-> stored]
     ELSE [choice |-> Choice(building, room, Nothing, device),
           context |-> IF building # Nothing THEN Context(site, building, room) ELSE stored]
RestoreSelection ==
  /\ chosen' = Restored.choice
  /\ stored' = Restored.context
  /\ UNCHANGED <<site, url, Editors, awaited, late>>

(* Dialogs: opened with a row or empty, left, and the ones that first load *)
(* what they show.                                                         *)
OpenEditor(which, row) ==
  /\ modal = "none"
  /\ \/ which = "rack" /\ row \in PageRacks \cup {Nothing}
     \/ which = "model" /\ row \in PageModels \cup {Nothing}
     \/ which = "device" /\ row = Nothing
  /\ modal' = which
  /\ editing' = [id |-> row, filled |-> row]
  /\ UNCHANGED <<site, Selection, locating, awaited, late>>
OpenPlaceEditor(which, row) ==
  /\ modal = "none"
  /\ \/ which = "building" /\ row \in {Nothing, chosen.building}
     \/ which = "room" /\ row \in {Nothing, chosen.room}
  /\ modal' = which
  /\ locating' = [id |-> row, filled |-> row]
  /\ UNCHANGED <<site, Selection, editing, awaited, late>>
OpenOther(which) ==  \* the dialogs of an interface and of an upload
  /\ modal = "none" /\ which \in {"interface", "upload"}
  /\ modal' = which
  /\ UNCHANGED <<site, Selection, editing, locating, awaited, late>>
CloseDialog ==
  /\ modal # "none"
  /\ modal' = "none"
  /\ locating' = IF modal \in {"building", "room"}
                 THEN [locating EXCEPT !.id = Nothing] ELSE locating
  /\ UNCHANGED <<site, Selection, editing, awaited, late>>

(* A handler calls the API: what it keeps while it waits.                  *)
Awaits(q, kind, row) ==
  /\ awaited[q] = NoAnswer
  /\ awaited' = [awaited EXCEPT ![q] =
       [kind |-> kind, site |-> site, row |-> row, device |-> chosen.device]]
  /\ UNCHANGED <<site, Selection, Editors, late>>
SaveForm(q) == modal \in {"device", "rack", "model", "interface"} /\ Awaits(q, "save", editing.id)
Call(q) ==
  \/ modal = "none" /\ \/ \E d \in PageDevices : SiteOfDevice[d] = site /\ Awaits(q, "edit device", d)
                       \/ chosen.device # Nothing /\ Awaits(q, "generate", chosen.device)
                       \/ chosen.rack # Nothing /\ Awaits(q, "delete rack", chosen.rack)
  \/ SaveForm(q)
  \/ modal = "building" /\ \E b \in BuildingsOf(site) :
       locating.id \in {Nothing, b} /\ Awaits(q, "save building", b)
  \/ modal = "room" /\ \E r \in RoomsOf(site) :
       locating.id \in {Nothing, r} /\ Awaits(q, "save room", r)
  \/ modal = "upload" /\ Awaits(q, "upload", Nothing)

(* What handlers do with an answer; an error is only shown.                *)
\* A mutant: the form stays open when it has been saved.
StaysOpen == UNCHANGED modal

Closed == modal' = "none"
Foreign(c) == c.site # site \/ (c.device # Nothing /\ SiteOfDevice[c.device] # site)
ReopensDevice(c) ==  \* openDevice, as it was when the handler started
  IF c.device = Nothing THEN UNCHANGED <<url, chosen, late>>
  ELSE /\ chosen' = [chosen EXCEPT !.device = c.device]
       /\ url' = Address(c.site, Nothing, Nothing, Nothing, c.device)
       /\ late' = (late \/ Foreign(c))
PlaceSaved(c) ==  \* createBuilding, createRoom; new locations restore the selection
  LET room == IF c.kind = "save room" THEN c.row ELSE Nothing
      building == IF c.kind = "save room" THEN BuildingOfRoom[c.row] ELSE c.row
  IN /\ Closed /\ locating' = [locating EXCEPT !.id = Nothing]
     /\ chosen' = [chosen EXCEPT !.building = building, !.room = room,
                                 !.rack = IF c.site = site THEN Nothing ELSE @]
     /\ stored' = Context(c.site, building, room)
     /\ url' = Address(c.site, building, room, Nothing, Nothing)
     /\ late' = (late \/ c.site # site)
     /\ UNCHANGED editing
Answer(q) ==
  /\ awaited[q] # NoAnswer
  /\ awaited' = [awaited EXCEPT ![q] = NoAnswer]
  /\ UNCHANGED site
  /\ LET c == awaited[q]
     IN CASE c.kind = "edit device" ->
               /\ modal' = "device" /\ editing' = [id |-> c.row, filled |-> c.row]
               /\ UNCHANGED <<Selection, locating, late>>
          [] c.kind = "save" ->
               /\ Closed /\ editing' = [editing EXCEPT !.id = Nothing] /\ ReopensDevice(c)
               /\ UNCHANGED <<stored, locating>>
          [] c.kind = "generate" ->
               ReopensDevice(c) /\ UNCHANGED <<stored, Editors>>
          [] c.kind = "delete rack" ->
               /\ chosen' = [chosen EXCEPT !.rack = Nothing]
               /\ url' = [url EXCEPT !.rack = Nothing]
               /\ UNCHANGED <<stored, Editors, late>>
          [] c.kind = "upload" ->
               Closed /\ UNCHANGED <<Selection, editing, locating, late>>
          [] c.kind \in {"save building", "save room"} -> PlaceSaved(c)
Refused(q) ==
  /\ awaited[q] # NoAnswer
  /\ awaited' = [awaited EXCEPT ![q] = NoAnswer]
  /\ UNCHANGED <<site, Selection, Editors, late>>

ScreenNext ==
  \/ \E s \in PageSites : ChooseSite(s)
  \/ \E b \in PageBuildings \cup {Nothing} : ChooseBuilding(b)
  \/ \E r \in PageRooms \cup {Nothing} : ChooseRoom(r)
  \/ \E k \in PageRacks : OpenRack(k)
  \/ \E d \in PageDevices : OpenDevice(d)
  \/ LeaveRack \/ ResetPage \/ RestoreSelection \/ CloseDialog
  \/ \E row \in PageRacks \cup PageModels \cup {Nothing}, which \in {"rack", "model", "device"} :
       OpenEditor(which, row)
  \/ \E row \in PageBuildings \cup PageRooms \cup {Nothing}, which \in {"building", "room"} :
       OpenPlaceEditor(which, row)
  \/ \E which \in {"interface", "upload"} : OpenOther(which)
  \/ \E q \in Awaited : Call(q) \/ Answer(q) \/ Refused(q)

ScreenSpec == ScreenInit /\ [][ScreenNext]_screenVars
-----------------------------------------------------------------------------
OrNothing(S) == S \cup {Nothing}
Rows == PageDevices \cup PageRacks \cup PageModels
ScreenTypeOK ==
  /\ site \in PageSites
  /\ url \in [site : PageSites, building : OrNothing(PageBuildings), room : OrNothing(PageRooms),
              rack : OrNothing(PageRacks), device : OrNothing(PageDevices)]
  /\ stored \in OrNothing([site : PageSites, building : OrNothing(PageBuildings),
                           room : OrNothing(PageRooms)])
  /\ chosen \in [building : OrNothing(PageBuildings), room : OrNothing(PageRooms),
                 rack : OrNothing(PageRacks), device : OrNothing(PageDevices)]
  /\ modal \in {"none", "building", "room", "rack", "model", "device", "interface", "upload"}
  /\ editing \in [id : OrNothing(Rows), filled : OrNothing(Rows)]
  /\ locating \in [id : OrNothing(PageBuildings \cup PageRooms),
                   filled : OrNothing(PageBuildings \cup PageRooms)]
  /\ late \in BOOLEAN

(* What is selected hangs together, in the site of the sidebar, which is   *)
(* the one in the URL, where the forms take the site of a new device from; *)
(* but for an answer that came after another site had been chosen.         *)
SelectionStaysInSite ==
  ~late =>
    /\ url.site = site
    /\ chosen.building # Nothing => SiteOfBuilding[chosen.building] = site
    /\ chosen.room # Nothing => BuildingOfRoom[chosen.room] = chosen.building
    /\ chosen.rack # Nothing => RoomOfRack[chosen.rack] = chosen.room
    /\ chosen.device # Nothing => SiteOfDevice[chosen.device] = site

(* A form is saved to the row it was filled with, whichever answers come   *)
(* while it is open.                                                       *)
EditorsKeepTheirRow ==
  /\ modal \in {"device", "rack", "model"} => editing.id = editing.filled
  /\ modal \in {"building", "room"} => locating.id = locating.filled

-----------------------------------------------------------------------------
(***************************************************************************)
(* Devices read from a CSV file: the dialog                                *)
(* (apps/web/features/infrastructure/components/devices/device-import.tsx) *)
(* that reads a file, associates its columns, has its rows validated and   *)
(* confirms them, and previewDeviceImport and importDevices of             *)
(* infrastructure.service.ts, that validate them and create the devices.   *)
(*                                                                         *)
(* A row is a device with the key the inventory compares (a serial number, *)
(* an asset tag or a management address), or Unnamed.  What a file says    *)
(* depends on which column each field is read from.                        *)
(***************************************************************************)
CONSTANTS
  CsvFiles,     \* files the operator may choose
  Columns,      \* associations of columns with fields; the first is detected
  Detected,     \* detectDeviceImportMapping
  CsvRows,      \* [CsvFiles \X Columns -> Seq(KeyValues \cup {Unnamed})]
  Addresses,    \* the keys the schema keeps unique: management addresses
  ImportCalls,
  MaxKept,      \* a bound: devices with one key
  Unnamed,
  NoFile,
  NoPreview,
  NoImportCall

KeyValues == UNION {{CsvRows[read][i] : i \in DOMAIN CsvRows[read]} : read \in CsvFiles \X Columns}
             \ {Unnamed}

ASSUME ImportAssumption ==
  /\ CsvRows \in [CsvFiles \X Columns -> Seq(KeyValues \cup {Unnamed})]
  /\ Detected \in Columns /\ Addresses \subseteq KeyValues
  /\ NoFile \notin CsvFiles

VARIABLES
  kept,        \* the devices of the site: how many have each key
  csv,         \* values: the file in the dialog, or NoFile
  columns,     \* mapping
  preview,     \* the answer shown, or NoPreview
  importCalls, \* calls under way
  crossedRead  \* the rows changed while they were being validated (ghost)

importVars == <<kept, csv, columns, preview, importCalls, crossedRead>>

MappedRows == CsvRows[<<csv, columns>>]
ImportBusy == \E c \in ImportCalls : importCalls[c] # NoImportCall /\ importCalls[c].kind # "read"

ImportInit ==
  /\ kept = [k \in KeyValues |-> 0]
  /\ csv = NoFile /\ columns = Detected /\ preview = NoPreview /\ crossedRead = FALSE
  /\ importCalls = [c \in ImportCalls |-> NoImportCall]

-----------------------------------------------------------------------------
(* The rows that are refused: without a name, with a key of an earlier row, *)
(* or with a key of a device of the site.                                   *)
Faults(rows) ==
  {i \in DOMAIN rows :
     \/ rows[i] = Unnamed
     \/ \E j \in 1 .. i - 1 : rows[j] = rows[i]
     \/ rows[i] # Unnamed /\ kept[rows[i]] > 0}

Calls(c, kind, file, rows) ==
  importCalls[c] = NoImportCall
  /\ importCalls' = [importCalls EXCEPT ![c] =
       [kind |-> kind, file |-> file, rows |-> rows, step |-> "sent"]]
Step(c, kind, step) ==
  importCalls[c] # NoImportCall /\ importCalls[c].kind = kind /\ importCalls[c].step = step
To(c, step) == importCalls' = [importCalls EXCEPT ![c].step = step]
ImportCallEnds(c) == importCalls' = [importCalls EXCEPT ![c] = NoImportCall]

-----------------------------------------------------------------------------
(* The dialog *)

ChooseFile(c, f) ==
  Calls(c, "read", f, <<>>) /\ UNCHANGED <<kept, csv, columns, preview, crossedRead>>

\* The text of a file arrives, perhaps after that of a file chosen later.
FileRead(c) ==
  /\ Step(c, "read", "sent") /\ ImportCallEnds(c)
  /\ csv' = importCalls[c].file /\ columns' = Detected /\ preview' = NoPreview
  /\ crossedRead' = (crossedRead \/ ImportBusy)
  /\ UNCHANGED kept

FileUnreadable(c) ==
  Step(c, "read", "sent") /\ ImportCallEnds(c) /\ UNCHANGED <<kept, csv, columns, preview, crossedRead>>

Associate(m) ==
  /\ csv # NoFile /\ columns' = m /\ m # columns
  /\ preview' = NoPreview
  /\ crossedRead' = (crossedRead \/ ImportBusy)
  /\ UNCHANGED <<kept, csv, importCalls>>

Validate(c) ==
  /\ csv # NoFile /\ ~ImportBusy
  /\ Calls(c, "validate", csv, MappedRows)
  /\ UNCHANGED <<kept, csv, columns, preview, crossedRead>>

ValidateAnswers(c) ==
  /\ Step(c, "validate", "sent") /\ ImportCallEnds(c)
  /\ preview' = [rows |-> importCalls[c].rows, faults |-> Faults(importCalls[c].rows)]
  /\ crossedRead' = (crossedRead /\ importCalls[c].rows # MappedRows)
  /\ UNCHANGED <<kept, csv, columns>>

\* The rows sent are those of the dialog, not those of the preview.
ConfirmImport(c) ==
  /\ preview # NoPreview /\ ~ImportBusy
  /\ preview.faults = {} /\ preview.rows # <<>>
  /\ Calls(c, "import", csv, MappedRows)
  /\ UNCHANGED <<kept, csv, columns, preview, crossedRead>>

ImportFails(c) ==
  /\ importCalls[c] # NoImportCall /\ importCalls[c].kind # "read"
  /\ importCalls[c].step \in {"sent", "refused"}
  /\ preview' = IF importCalls[c].kind = "import" THEN NoPreview ELSE preview
  /\ ImportCallEnds(c)
  /\ UNCHANGED <<kept, csv, columns, crossedRead>>

\* The dialog closes; opened again it is empty.
ImportAnswers(c) ==
  /\ Step(c, "import", "written")
  /\ csv' = NoFile /\ columns' = Detected /\ preview' = NoPreview /\ crossedRead' = FALSE
  /\ importCalls' = [d \in ImportCalls |-> NoImportCall]
  /\ UNCHANGED kept

-----------------------------------------------------------------------------
(* importDevices: the rows are validated again, then written in one        *)
(* transaction, which the schema refuses when a management address is      *)
(* there already.                                                          *)
CheckImport(c) ==
  /\ Step(c, "import", "sent")
  /\ To(c, IF Faults(importCalls[c].rows) = {} THEN "checked" ELSE "refused")
  /\ UNCHANGED <<kept, csv, columns, preview, crossedRead>>

Copies(rows, k) == Cardinality({i \in DOMAIN rows : rows[i] = k})
WriteImport(c) ==
  /\ Step(c, "import", "checked")
  /\ LET rows == importCalls[c].rows
     IN IF \E i \in DOMAIN rows : rows[i] \in Addresses /\ kept[rows[i]] > 0
          THEN To(c, "refused") /\ UNCHANGED kept
          ELSE To(c, "written") /\ kept' = [k \in KeyValues |-> kept[k] + Copies(rows, k)]
  /\ UNCHANGED <<csv, columns, preview, crossedRead>>

\* Another operator creates or deletes a device.
OthersCreate(k) ==
  /\ kept[k] < MaxKept /\ (k \in Addresses => kept[k] = 0)
  /\ kept' = [kept EXCEPT ![k] = @ + 1]
  /\ UNCHANGED <<csv, columns, preview, importCalls, crossedRead>>
OthersDelete(k) ==
  /\ kept[k] > 0
  /\ kept' = [kept EXCEPT ![k] = @ - 1]
  /\ UNCHANGED <<csv, columns, preview, importCalls, crossedRead>>

ImportNext ==
  \/ \E m \in Columns : Associate(m)
  \/ \E k \in KeyValues : OthersCreate(k) \/ OthersDelete(k)
  \/ \E c \in ImportCalls :
       \/ \E f \in CsvFiles : ChooseFile(c, f)
       \/ FileRead(c) \/ FileUnreadable(c) \/ Validate(c) \/ ValidateAnswers(c)
       \/ ConfirmImport(c) \/ ImportFails(c) \/ CheckImport(c) \/ WriteImport(c) \/ ImportAnswers(c)

-----------------------------------------------------------------------------
(* Properties *)

\* An import that the operator confirmed holds the rows the preview showed to
\* be in order, unless another file or association was chosen while they were
\* being validated; and it is written with every row in order, whatever others
\* did since the preview: no row repeats another.
ImportIsAsPreviewed ==
  \A c \in ImportCalls :
    importCalls[c] # NoImportCall /\ importCalls[c].kind = "import" =>
      LET rows == importCalls[c].rows
      IN /\ crossedRead \/ preview = NoPreview \/ preview.rows = rows
         /\ importCalls[c].step \in {"checked", "written"} =>
              \A i, j \in DOMAIN rows : rows[i] # Unnamed /\ (i # j => rows[i] # rows[j])

\* However imports and other operators meet, a management address is given to
\* one device.
AddressesOnce == \A k \in Addresses : kept[k] <= 1
=============================================================================
