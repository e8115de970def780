---------------------------- MODULE Screens_proofs ----------------------------
(***************************************************************************)
(* What MCTopologyConnections checks of the selections, dialogs and        *)
(* drawings of the pages, for any number of sites, places, rows, ports and *)
(* calls: one section for each component, its invariant first, then the    *)
(* steps that keep it. The last section is about all pages together.       *)
(***************************************************************************)
EXTENDS Pages_proofs, SequenceTheorems

-----------------------------------------------------------------------------
(* The selection of the infrastructure page (InfrastructurePage) *)

Url == [site : PageSites, building : OrNothing(PageBuildings), room : OrNothing(PageRooms),
        rack : OrNothing(PageRacks), device : OrNothing(PageDevices)]
Choosing == [building : OrNothing(PageBuildings), room : OrNothing(PageRooms),
             rack : OrNothing(PageRacks), device : OrNothing(PageDevices)]
Contexts == [site : PageSites, building : OrNothing(PageBuildings), room : OrNothing(PageRooms)]
LocatedPlaces == PageBuildings \cup PageRooms

(* A handler keeps the site it started in, and a place of that site.       *)
Answerable ==
  [kind : {"edit device", "save", "generate", "delete rack", "upload", "save building", "save room"},
   site : PageSites, row : OrNothing(Rows \cup LocatedPlaces), device : OrNothing(PageDevices)]
OfItsSite(c) ==
  /\ c \in Answerable
  /\ c.kind = "edit device" => c.row \in PageDevices
  /\ c.kind = "save building" => c.row \in BuildingsOf(c.site)
  /\ c.kind = "save room" => c.row \in RoomsOf(c.site)
AwaitedOfSite == \A q \in Awaited : awaited[q] # NoAnswer => OfItsSite(awaited[q])

(* Wherever the selection is kept, it is of the site.                      *)
InSite(building, room) ==
  /\ building # Nothing => building \in BuildingsOf(site)
  /\ room # Nothing => room \in RoomsOf(site)
KeptInSite ==
  ~late => /\ InSite(url.building, url.room)
           /\ stored # Nothing /\ stored.site = site => InSite(stored.building, stored.room)
ScreenInv ==
  ScreenTypeOK /\ AwaitedOfSite /\ KeptInSite /\ SelectionStaysInSite /\ EditorsKeepTheirRow

LEMMA ScreenInvInit == ScreenInit => ScreenInv
<1>. SUFFICES ASSUME ScreenInit PROVE ScreenInv OBVIOUS
<1>. USE DEF ScreenInit, Address, Choice
<1>1. ScreenTypeOK BY DEF ScreenTypeOK, OrNothing
<1>2. AwaitedOfSite /\ KeptInSite /\ SelectionStaysInSite /\ EditorsKeepTheirRow
  BY DEF AwaitedOfSite, KeptInSite, InSite, SelectionStaysInSite, EditorsKeepTheirRow
<1>. QED BY <1>1, <1>2 DEF ScreenInv

LEMMA PlacesOfSite ==
  /\ \A s : \A b \in BuildingsOf(s) : b \in PageBuildings /\ SiteOfBuilding[b] = s /\ b # Nothing
  /\ \A s : \A r \in RoomsOf(s) : r \in PageRooms /\ BuildingOfRoom[r] \in BuildingsOf(s) /\ r # Nothing
BY ScreenAssumption DEF BuildingsOf, RoomsOf

(* A selection that is typed and of the site.                              *)
Sound(choice, s) ==
  /\ choice.building # Nothing => SiteOfBuilding[choice.building] = s
  /\ choice.room # Nothing => BuildingOfRoom[choice.room] = choice.building
  /\ choice.rack # Nothing => RoomOfRack[choice.rack] = choice.room
  /\ choice.device # Nothing => SiteOfDevice[choice.device] = s

LEMMA RestoredIsSound ==
  ASSUME ScreenInv
  PROVE  /\ Restored.choice \in Choosing /\ Restored.context \in OrNothing(Contexts)
         /\ ~late => /\ Sound(Restored.choice, site)
                     /\ Restored.context # Nothing /\ Restored.context.site = site =>
                          InSite(Restored.context.building, Restored.context.room)
<1>1. /\ site \in PageSites /\ url \in Url /\ stored \in OrNothing(Contexts) /\ chosen \in Choosing
  BY DEF ScreenInv, ScreenTypeOK, Url, Contexts, Choosing
<1>2. ~late => KeptInSite /\ Sound(chosen, site)
  BY DEF ScreenInv, SelectionStaysInSite, Sound
<1>. DEFINE mine == stored # Nothing /\ stored.site = site
            device == IF url.device # Nothing /\ SiteOfDevice[url.device] = site
                      THEN url.device ELSE chosen.device
            room == CASE url.room # Nothing -> url.room
                      [] OTHER -> IF mine THEN stored.room ELSE Nothing
            wanted == CASE url.building # Nothing -> url.building
                       [] OTHER -> IF mine THEN stored.building ELSE Nothing
            building == IF room \in RoomsOf(site) THEN BuildingOfRoom[room] ELSE wanted
<1>3. device \in OrNothing(PageDevices)
      /\ (~late => (device # Nothing => SiteOfDevice[device] = site))
  BY <1>1, <1>2 DEF Url, Choosing, Sound
<1>4. /\ room \in OrNothing(PageRooms) /\ wanted \in OrNothing(PageBuildings)
      /\ (~late => (room # Nothing => room \in RoomsOf(site)))
      /\ (~late => (wanted # Nothing => wanted \in BuildingsOf(site)))
  BY <1>1, <1>2 DEF Url, Contexts, OrNothing, KeptInSite, InSite
<1>. HIDE DEF device, room, wanted
<1>5. /\ building \in OrNothing(PageBuildings)
      /\ ~late => (building # Nothing => building \in BuildingsOf(site))
      /\ ~late => (room # Nothing => BuildingOfRoom[room] = building /\ room \in RoomsOf(site))
  BY <1>4, PlacesOfSite DEF OrNothing
<1>. HIDE DEF building
<1>6. CASE url.rack # Nothing /\ RoomOfRack[url.rack] \in RoomsOf(site)
  <2>. DEFINE r == RoomOfRack[url.rack]
  <2>1. Restored = [choice |-> Choice(BuildingOfRoom[r], r, url.rack, device), context |-> stored]
    BY <1>6 DEF Restored, device
  <2>2. /\ Restored.choice = Choice(BuildingOfRoom[r], r, url.rack, device)
        /\ Restored.context = stored
    BY <2>1
  <2>3. r \in PageRooms /\ BuildingOfRoom[r] \in BuildingsOf(site) /\ r # Nothing BY <1>6, PlacesOfSite
  <2>4. BuildingOfRoom[r] \in PageBuildings /\ SiteOfBuilding[BuildingOfRoom[r]] = site
    BY <2>3, PlacesOfSite
  <2>5. url.rack \in OrNothing(PageRacks) BY <1>1 DEF Url
  <2>. DEFINE choice == Choice(BuildingOfRoom[r], r, url.rack, device)
  <2>6. choice \in Choosing BY <1>3, <2>3, <2>4, <2>5 DEF Choice, Choosing, OrNothing
  <2>7. ~late => Sound(choice, site) BY <1>3, <2>4 DEF Choice, Sound
  <2>. HIDE DEF choice
  <2>8. Restored.choice = choice BY <2>2 DEF choice
  <2>. QED BY <1>1, <1>2, <2>2, <2>6, <2>7, <2>8 DEF KeptInSite
<1>7. CASE ~(url.rack # Nothing /\ RoomOfRack[url.rack] \in RoomsOf(site))
  <2>. DEFINE choice == Choice(building, room, Nothing, device)
              context == IF building # Nothing THEN Context(site, building, room) ELSE stored
  <2>1. Restored = [choice |-> choice, context |-> context]
    BY <1>7 DEF Restored, device, room, wanted, building
  <2>2. choice \in Choosing BY <1>3, <1>4, <1>5 DEF Choice, Choosing, OrNothing
  <2>3. context \in OrNothing(Contexts) BY <1>1, <1>4, <1>5 DEF Context, Contexts, OrNothing
  <2>4. ~late => Sound(choice, site) BY <1>3, <1>5, PlacesOfSite DEF Choice, Sound
  <2>5. ~late => (context # Nothing /\ context.site = site => InSite(context.building, context.room))
    <3>1. CASE building # Nothing BY <1>5, <3>1 DEF Context, InSite
    <3>2. CASE building = Nothing BY <1>2, <3>2 DEF KeptInSite
    <3>. QED BY <3>1, <3>2
  <2>. HIDE DEF choice, context
  <2>6. Restored.choice = choice /\ Restored.context = context BY <2>1
  <2>. QED BY <2>2, <2>3, <2>4, <2>5, <2>6
<1>. QED BY <1>6, <1>7

LEMMA ScreenInvKept == ASSUME ScreenInv, ScreenNext PROVE ScreenInv'
<1>1. ScreenTypeOK /\ AwaitedOfSite /\ KeptInSite /\ SelectionStaysInSite /\ EditorsKeepTheirRow
  BY DEF ScreenInv
<1>2. /\ site \in PageSites /\ url \in Url /\ stored \in OrNothing(Contexts) /\ chosen \in Choosing
      /\ modal \in {"none", "building", "room", "rack", "model", "device", "interface", "upload"}
      /\ editing \in [id : OrNothing(Rows), filled : OrNothing(Rows)]
      /\ locating \in [id : OrNothing(LocatedPlaces), filled : OrNothing(LocatedPlaces)]
      /\ late \in BOOLEAN
  BY <1>1 DEF ScreenTypeOK, Url, Choosing, Contexts, LocatedPlaces
<1>3. ~late => Sound(chosen, site) /\ url.site = site BY <1>1 DEF SelectionStaysInSite, Sound
(* The selection changes, in the site or with it; no dialog does.          *)
<1>4. ASSUME NEW s \in PageSites, site' = s, url' \in Url, stored' \in OrNothing(Contexts),
             chosen' \in Choosing, UNCHANGED <<modal, editing, locating, awaited>>, late' \in BOOLEAN,
             ~late' => /\ url'.site = s /\ Sound(chosen', s)
                       /\ InSite(url.building, url.room)'
                       /\ stored' # Nothing /\ stored'.site = s => InSite(stored.building, stored.room)'
      PROVE  ScreenInv'
  <2>1. ScreenTypeOK' BY <1>2, <1>4 DEF ScreenTypeOK, Url, Choosing, Contexts, LocatedPlaces
  <2>2. AwaitedOfSite' BY <1>1, <1>4 DEF AwaitedOfSite, OfItsSite, BuildingsOf, RoomsOf
  <2>3. KeptInSite' BY <1>4 DEF KeptInSite
  <2>4. SelectionStaysInSite' BY <1>4 DEF SelectionStaysInSite, Sound
  <2>5. EditorsKeepTheirRow' BY <1>1, <1>4 DEF EditorsKeepTheirRow
  <2>. QED BY <2>1, <2>2, <2>3, <2>4, <2>5 DEF ScreenInv
(* Dialogs change, and what is awaited; the selection does not.            *)
<1>5. ASSUME UNCHANGED <<site, url, stored, chosen, late>>,
             modal' \in {"none", "building", "room", "rack", "model", "device", "interface", "upload"},
             editing' \in [id : OrNothing(Rows), filled : OrNothing(Rows)],
             locating' \in [id : OrNothing(LocatedPlaces), filled : OrNothing(LocatedPlaces)],
             EditorsKeepTheirRow',
             \A q \in Awaited : awaited'[q] # NoAnswer =>
               OfItsSite(awaited'[q])
      PROVE  ScreenInv'
  <2>1. ScreenTypeOK' BY <1>2, <1>5 DEF ScreenTypeOK, Url, Choosing, Contexts, LocatedPlaces
  <2>2. AwaitedOfSite' BY <1>5 DEF AwaitedOfSite, OfItsSite, BuildingsOf, RoomsOf
  <2>3. KeptInSite' BY <1>1, <1>5 DEF KeptInSite, InSite, BuildingsOf, RoomsOf
  <2>4. SelectionStaysInSite' BY <1>1, <1>5 DEF SelectionStaysInSite
  <2>. QED BY <1>5, <2>1, <2>2, <2>3, <2>4 DEF ScreenInv
<1>6. \A q \in Awaited : awaited[q] # NoAnswer => OfItsSite(awaited[q]) BY <1>1 DEF AwaitedOfSite
<1>7. Nothing \in OrNothing(PageBuildings) /\ Nothing \in OrNothing(PageRooms)
      /\ Nothing \in OrNothing(PageRacks) /\ Nothing \in OrNothing(PageDevices)
      /\ Nothing \in OrNothing(Contexts) /\ Nothing \in OrNothing(Rows) /\ Nothing \in OrNothing(LocatedPlaces)
  BY DEF OrNothing
<1>8. \A s \in PageSites, b \in OrNothing(PageBuildings), r \in OrNothing(PageRooms),
         k \in OrNothing(PageRacks), d \in OrNothing(PageDevices) :
        /\ Address(s, b, r, k, d) \in Url /\ Choice(b, r, k, d) \in Choosing
        /\ Address(s, b, r, k, d).site = s /\ Address(s, b, r, k, d).building = b
        /\ Address(s, b, r, k, d).room = r
        /\ Choice(b, r, k, d).building = b /\ Choice(b, r, k, d).room = r
        /\ Choice(b, r, k, d).rack = k /\ Choice(b, r, k, d).device = d
  BY DEF Address, Choice, Url, Choosing
<1>9. \A s \in PageSites, b \in OrNothing(PageBuildings), r \in OrNothing(PageRooms) :
        /\ Context(s, b, r) \in Contexts /\ Context(s, b, r).site = s
        /\ Context(s, b, r).building = b /\ Context(s, b, r).room = r
  BY DEF Context, Contexts
<1>10. InSite(Nothing, Nothing) BY DEF InSite
<1>11. ASSUME NEW s \in PageSites, ChooseSite(s) PROVE ScreenInv'
  <2>1. /\ site' = s /\ url' = Address(s, Nothing, Nothing, Nothing, Nothing) /\ stored' = Nothing
        /\ chosen' = Choice(Nothing, Nothing, Nothing, Nothing) /\ late' = FALSE
        /\ UNCHANGED <<modal, editing, locating, awaited>>
    BY <1>11 DEF ChooseSite, Editors
  <2>2. /\ url' \in Url /\ url'.site = s /\ url'.building = Nothing /\ url'.room = Nothing
        /\ chosen' \in Choosing /\ chosen'.building = Nothing /\ chosen'.room = Nothing
        /\ chosen'.rack = Nothing /\ chosen'.device = Nothing
    BY <1>7, <1>8, <2>1
  <2>3. Sound(chosen', s) /\ InSite(url.building, url.room)' BY <2>2 DEF Sound, InSite
  <2>4. late' \in BOOLEAN /\ stored' \in OrNothing(Contexts) BY <1>7, <2>1
  <2>5. stored' # Nothing /\ stored'.site = s => InSite(stored.building, stored.room)' BY <2>1
  <2>. QED BY <1>4, <2>1, <2>2, <2>3, <2>4, <2>5
<1>12. ASSUME NEW b \in PageBuildings \cup {Nothing}, ChooseBuilding(b) PROVE ScreenInv'
  <2>1. /\ b \in BuildingsOf(site) \cup {Nothing} /\ chosen' = Choice(b, Nothing, Nothing, Nothing)
        /\ stored' = Context(site, b, Nothing) /\ url' = Address(site, b, Nothing, Nothing, Nothing)
        /\ UNCHANGED <<site, modal, editing, locating, awaited, late>>
    BY <1>12 DEF ChooseBuilding, Editors
  <2>2. b \in OrNothing(PageBuildings) BY DEF OrNothing
  <2>7. /\ chosen'.building = b /\ chosen'.room = Nothing /\ chosen'.rack = Nothing
        /\ chosen'.device = Nothing
    BY <1>2, <1>7, <1>8, <2>1, <2>2
  <2>3. Sound(chosen', site) BY <2>1, <2>7, PlacesOfSite DEF Sound
  <2>4. InSite(url.building, url.room)' BY <1>2, <1>7, <1>8, <2>1, <2>2 DEF InSite, BuildingsOf
  <2>5. InSite(stored.building, stored.room)' BY <1>2, <1>7, <1>9, <2>1, <2>2 DEF InSite, BuildingsOf
  <2>6. stored' \in OrNothing(Contexts) BY <1>2, <1>7, <1>9, <2>1, <2>2 DEF OrNothing
  <2>. QED BY <1>2, <1>4, <1>7, <1>8, <2>1, <2>2, <2>3, <2>4, <2>5, <2>6
<1>13. ASSUME NEW r \in PageRooms \cup {Nothing}, ChooseRoom(r) PROVE ScreenInv'
  <2>. DEFINE b == chosen.building
  <2>1. /\ chosen.building # Nothing
        /\ r \in {t \in RoomsOf(site) : BuildingOfRoom[t] = b} \cup {Nothing}
        /\ chosen' = Choice(b, r, Nothing, Nothing)
        /\ stored' = Context(site, b, r) /\ url' = Address(site, b, r, Nothing, Nothing)
        /\ UNCHANGED <<site, modal, editing, locating, awaited, late>>
    BY <1>13 DEF ChooseRoom, Editors
  <2>2. r \in OrNothing(PageRooms) /\ b \in OrNothing(PageBuildings) BY <1>2 DEF OrNothing, Choosing
  <2>3. ~late => SiteOfBuilding[b] = site /\ b \in BuildingsOf(site)
    BY <1>3, <2>1, <2>2 DEF Sound, BuildingsOf, OrNothing
  <2>8. /\ chosen'.building = b /\ chosen'.room = r /\ chosen'.rack = Nothing
        /\ chosen'.device = Nothing
    BY <1>2, <1>7, <1>8, <2>1, <2>2
  <2>4. ~late => Sound(chosen', site) BY <2>1, <2>3, <2>8 DEF Sound
  <2>5. ~late => InSite(url.building, url.room)'
    BY <1>2, <1>7, <1>8, <2>1, <2>2, <2>3 DEF InSite, BuildingsOf, RoomsOf
  <2>6. ~late => InSite(stored.building, stored.room)'
    BY <1>2, <1>7, <1>9, <2>1, <2>2, <2>3 DEF InSite, BuildingsOf, RoomsOf
  <2>7. stored' \in OrNothing(Contexts) BY <1>2, <1>7, <1>9, <2>1, <2>2 DEF OrNothing
  <2>. QED BY <1>2, <1>4, <1>7, <1>8, <2>1, <2>2, <2>4, <2>5, <2>6, <2>7
<1>14. ASSUME NEW k \in PageRacks, OpenRack(k) PROVE ScreenInv'
  <2>. DEFINE r == RoomOfRack[k]
              b == BuildingOfRoom[r]
  <2>1. /\ r = chosen.room /\ r \in RoomsOf(site)
        /\ chosen' = [chosen EXCEPT !.room = r, !.rack = k] /\ url' = Address(site, b, r, k, Nothing)
        /\ UNCHANGED <<site, stored, modal, editing, locating, awaited, late>>
    BY <1>14 DEF OpenRack, Editors
  <2>2. r \in PageRooms /\ b \in BuildingsOf(site) /\ b \in PageBuildings BY <2>1, PlacesOfSite
  <2>3. r \in OrNothing(PageRooms) /\ b \in OrNothing(PageBuildings) /\ k \in OrNothing(PageRacks)
    BY <2>2 DEF OrNothing
  <2>4. /\ chosen' \in Choosing /\ chosen'.building = chosen.building /\ chosen'.room = r
        /\ chosen'.rack = k /\ chosen'.device = chosen.device
    BY <1>2, <2>1, <2>3 DEF Choosing
  <2>5. ~late => Sound(chosen', site) BY <1>3, <2>1, <2>4 DEF Sound
  <2>6. InSite(url.building, url.room)'
    BY <1>2, <1>7, <1>8, <2>1, <2>2, <2>3 DEF InSite, BuildingsOf, RoomsOf
  <2>7. ~late => (stored # Nothing /\ stored.site = site => InSite(stored.building, stored.room))
    BY <1>1 DEF KeptInSite
  <2>8. InSite(stored.building, stored.room) => InSite(stored.building, stored.room)'
    BY <2>1 DEF InSite, BuildingsOf, RoomsOf
  <2>. QED BY <1>2, <1>4, <1>7, <1>8, <2>1, <2>3, <2>4, <2>5, <2>6, <2>7, <2>8
<1>15. ASSUME LeaveRack PROVE ScreenInv'
  <2>1. /\ chosen' = [chosen EXCEPT !.rack = Nothing] /\ url' = [url EXCEPT !.rack = Nothing]
        /\ UNCHANGED <<site, stored, modal, editing, locating, awaited, late>>
    BY <1>15 DEF LeaveRack, Editors
  <2>2. /\ chosen' \in Choosing /\ chosen'.building = chosen.building /\ chosen'.room = chosen.room
        /\ chosen'.rack = Nothing /\ chosen'.device = chosen.device
    BY <1>2, <1>7, <2>1 DEF Choosing
  <2>3. /\ url' \in Url /\ url'.site = url.site /\ url'.building = url.building /\ url'.room = url.room
    BY <1>2, <1>7, <2>1 DEF Url
  <2>4. ~late => Sound(chosen', site) BY <1>3, <2>2 DEF Sound
  <2>5. \A b, t : InSite(b, t) => InSite(b, t)' BY <2>1 DEF InSite, BuildingsOf, RoomsOf
  <2>6. ~late => InSite(url.building, url.room)'
    BY <1>1, <2>1, <2>3 DEF KeptInSite, InSite, BuildingsOf, RoomsOf
  <2>7. ~late => (stored # Nothing /\ stored.site = site => InSite(stored.building, stored.room)')
    BY <1>1, <2>1 DEF KeptInSite, InSite, BuildingsOf, RoomsOf
  <2>. QED BY <1>2, <1>3, <1>4, <2>1, <2>2, <2>3, <2>4, <2>6, <2>7
<1>16. ASSUME NEW d \in PageDevices, OpenDevice(d) PROVE ScreenInv'
  <2>1. /\ SiteOfDevice[d] = site /\ chosen' = [chosen EXCEPT !.device = d]
        /\ url' = Address(site, Nothing, Nothing, Nothing, d)
        /\ UNCHANGED <<site, stored, modal, editing, locating, awaited, late>>
    BY <1>16 DEF OpenDevice, Editors
  <2>2. d \in OrNothing(PageDevices) BY DEF OrNothing
  <2>3. /\ chosen' \in Choosing /\ chosen'.building = chosen.building /\ chosen'.room = chosen.room
        /\ chosen'.rack = chosen.rack /\ chosen'.device = d
    BY <1>2, <2>1, <2>2 DEF Choosing
  <2>4. ~late => Sound(chosen', site) BY <1>3, <2>1, <2>3 DEF Sound
  <2>5. InSite(url.building, url.room)' BY <1>2, <1>7, <1>8, <2>1, <2>2 DEF InSite
  <2>6. ~late => (stored # Nothing /\ stored.site = site => InSite(stored.building, stored.room)')
    BY <1>1, <2>1 DEF KeptInSite, InSite, BuildingsOf, RoomsOf
  <2>. QED BY <1>2, <1>4, <1>7, <1>8, <2>1, <2>2, <2>3, <2>4, <2>5, <2>6
<1>17. ASSUME ResetPage PROVE ScreenInv'
  <2>1. /\ chosen' = Choice(Nothing, Nothing, Nothing, Nothing) /\ stored' = Context(site, Nothing, Nothing)
        /\ url' = Address(site, Nothing, Nothing, Nothing, Nothing)
        /\ UNCHANGED <<site, modal, editing, locating, awaited, late>>
    BY <1>17 DEF ResetPage, Editors
  <2>6. /\ chosen'.building = Nothing /\ chosen'.room = Nothing /\ chosen'.rack = Nothing
        /\ chosen'.device = Nothing
    BY <1>2, <1>7, <1>8, <2>1
  <2>2. Sound(chosen', site) BY <2>6 DEF Sound
  <2>3. InSite(url.building, url.room)' BY <1>2, <1>7, <1>8, <2>1 DEF InSite
  <2>4. InSite(stored.building, stored.room)' BY <1>2, <1>7, <1>9, <2>1 DEF InSite
  <2>5. stored' \in OrNothing(Contexts) BY <1>2, <1>7, <1>9, <2>1 DEF OrNothing
  <2>. QED BY <1>2, <1>4, <1>7, <1>8, <2>1, <2>2, <2>3, <2>4, <2>5
<1>18. ASSUME RestoreSelection PROVE ScreenInv'
  <2>1. /\ chosen' = Restored.choice /\ stored' = Restored.context
        /\ UNCHANGED <<site, url, modal, editing, locating, awaited, late>>
    BY <1>18 DEF RestoreSelection, Editors
  <2>2. /\ Restored.choice \in Choosing /\ Restored.context \in OrNothing(Contexts)
        /\ ~late => /\ Sound(Restored.choice, site)
                    /\ Restored.context # Nothing /\ Restored.context.site = site =>
                         InSite(Restored.context.building, Restored.context.room)
    BY RestoredIsSound
  <2>3. ~late => InSite(url.building, url.room)'
    BY <1>1, <2>1 DEF KeptInSite, InSite, BuildingsOf, RoomsOf
  <2>4. ~late => (stored' # Nothing /\ stored'.site = site => InSite(stored.building, stored.room)')
    BY <2>1, <2>2 DEF InSite, BuildingsOf, RoomsOf
  <2>. QED BY <1>2, <1>3, <1>4, <2>1, <2>2, <2>3, <2>4
(* Dialogs.                                                                *)
<1>19. ASSUME NEW which, NEW row \in PageRacks \cup PageModels \cup {Nothing}, OpenEditor(which, row)
       PROVE  ScreenInv'
  <2>1. /\ which \in {"rack", "model", "device"} /\ modal' = which
        /\ editing' = [id |-> row, filled |-> row]
        /\ UNCHANGED <<site, url, stored, chosen, locating, awaited, late>>
    BY <1>19 DEF OpenEditor, Selection
  <2>2. row \in OrNothing(Rows) BY DEF OrNothing, Rows
  <2>3. EditorsKeepTheirRow' BY <2>1 DEF EditorsKeepTheirRow
  <2>. QED BY <1>2, <1>5, <1>6, <2>1, <2>2, <2>3
<1>20. ASSUME NEW which, NEW row, OpenPlaceEditor(which, row) PROVE ScreenInv'
  <2>1. /\ which \in {"building", "room"} /\ modal' = which
        /\ row \in {Nothing, chosen.building, chosen.room}
        /\ locating' = [id |-> row, filled |-> row]
        /\ UNCHANGED <<site, url, stored, chosen, editing, awaited, late>>
    BY <1>20 DEF OpenPlaceEditor, Selection
  <2>2. row \in OrNothing(LocatedPlaces) BY <1>2, <2>1 DEF OrNothing, LocatedPlaces, Choosing
  <2>3. EditorsKeepTheirRow' BY <2>1 DEF EditorsKeepTheirRow
  <2>. QED BY <1>2, <1>5, <1>6, <2>1, <2>2, <2>3
<1>21. ASSUME NEW which, OpenOther(which) PROVE ScreenInv'
  <2>1. /\ which \in {"interface", "upload"} /\ modal' = which
        /\ UNCHANGED <<site, url, stored, chosen, editing, locating, awaited, late>>
    BY <1>21 DEF OpenOther, Selection
  <2>2. EditorsKeepTheirRow' BY <2>1 DEF EditorsKeepTheirRow
  <2>. QED BY <1>2, <1>5, <1>6, <2>1, <2>2
<1>22. CASE CloseDialog
  <2>1. /\ modal' = "none" /\ locating' \in {locating, [locating EXCEPT !.id = Nothing]}
        /\ UNCHANGED <<site, url, stored, chosen, editing, awaited, late>>
    BY <1>22 DEF CloseDialog, Selection
  <2>2. locating' \in [id : OrNothing(LocatedPlaces), filled : OrNothing(LocatedPlaces)] BY <1>2, <1>7, <2>1
  <2>3. EditorsKeepTheirRow' BY <2>1 DEF EditorsKeepTheirRow
  <2>. QED BY <1>2, <1>5, <1>6, <2>1, <2>2, <2>3
(* Handlers.                                                               *)
<1>23. ASSUME NEW q \in Awaited, NEW kind, NEW row, Awaits(q, kind, row),
              kind \in {"edit device", "save", "generate", "delete rack", "upload", "save building",
                        "save room"},
              row \in OrNothing(Rows \cup LocatedPlaces),
              kind = "edit device" => row \in PageDevices,
              kind = "save building" => row \in BuildingsOf(site),
              kind = "save room" => row \in RoomsOf(site)
       PROVE  ScreenInv'
  <2>. DEFINE c == [kind |-> kind, site |-> site, row |-> row, device |-> chosen.device]
  <2>1. /\ awaited' = [awaited EXCEPT ![q] = c]
        /\ UNCHANGED <<site, url, stored, chosen, modal, editing, locating, late>>
    BY <1>23 DEF Awaits, Selection, Editors
  <2>2. chosen.device \in OrNothing(PageDevices) BY <1>2 DEF Choosing
  <2>3. c \in Answerable BY <1>2, <1>23, <2>2 DEF Answerable
  <2>4. OfItsSite(c) BY <1>23, <2>3 DEF OfItsSite
  <2>. HIDE DEF c
  <2>5. \A p \in Awaited : awaited'[p] # NoAnswer => OfItsSite(awaited'[p]) BY <1>6, <2>1, <2>4
  <2>6. EditorsKeepTheirRow' BY <1>1, <2>1 DEF EditorsKeepTheirRow
  <2>. QED BY <1>2, <1>5, <2>1, <2>5, <2>6
<1>24. ASSUME NEW q \in Awaited, Call(q) PROVE ScreenInv'
  <2>1. CASE \E d \in PageDevices : SiteOfDevice[d] = site /\ Awaits(q, "edit device", d)
    BY <1>23, <2>1 DEF OrNothing, Rows
  <2>2. CASE chosen.device # Nothing /\ Awaits(q, "generate", chosen.device)
    <3>1. chosen.device \in OrNothing(Rows \cup LocatedPlaces) BY <1>2 DEF OrNothing, Rows, Choosing
    <3>. QED BY <1>23, <2>2, <3>1
  <2>3. CASE chosen.rack # Nothing /\ Awaits(q, "delete rack", chosen.rack)
    <3>1. chosen.rack \in OrNothing(Rows \cup LocatedPlaces) BY <1>2 DEF OrNothing, Rows, Choosing
    <3>. QED BY <1>23, <2>3, <3>1
  <2>4. CASE SaveForm(q)
    <3>1. editing.id \in OrNothing(Rows \cup LocatedPlaces) BY <1>2 DEF OrNothing
    <3>. QED BY <1>23, <2>4, <3>1 DEF SaveForm
  <2>5. CASE \E b \in BuildingsOf(site) : Awaits(q, "save building", b)
    BY <1>23, <2>5, PlacesOfSite DEF OrNothing, LocatedPlaces
  <2>6. CASE \E r \in RoomsOf(site) : Awaits(q, "save room", r)
    BY <1>23, <2>6, PlacesOfSite DEF OrNothing, LocatedPlaces
  <2>7. CASE Awaits(q, "upload", Nothing) BY <1>23, <2>7 DEF OrNothing
  <2>. QED BY <1>24, <2>1, <2>2, <2>3, <2>4, <2>5, <2>6, <2>7 DEF Call
<1>25. ASSUME NEW q \in Awaited, awaited' = [awaited EXCEPT ![q] = NoAnswer]
       PROVE  \A p \in Awaited : awaited'[p] # NoAnswer => OfItsSite(awaited'[p])
  BY <1>6, <1>25
<1>26. ASSUME NEW q \in Awaited, Refused(q) PROVE ScreenInv'
  <2>1. /\ awaited' = [awaited EXCEPT ![q] = NoAnswer]
        /\ UNCHANGED <<site, url, stored, chosen, modal, editing, locating, late>>
    BY <1>26 DEF Refused, Selection, Editors
  <2>2. EditorsKeepTheirRow' BY <1>1, <2>1 DEF EditorsKeepTheirRow
  <2>. QED BY <1>2, <1>5, <1>25, <2>1, <2>2
(* An answer changes the selection, the dialogs, or both.                  *)
<1>27. ASSUME NEW q \in Awaited, Answer(q) PROVE ScreenInv'
  <2>. DEFINE c == awaited[q]
  <2>1. /\ OfItsSite(c) /\ c \in Answerable /\ UNCHANGED site
        /\ \A p \in Awaited : awaited'[p] # NoAnswer => OfItsSite(awaited'[p])
    BY <1>6, <1>25, <1>27 DEF Answer, OfItsSite
  <2>2. c.device \in OrNothing(PageDevices) /\ c.site \in PageSites BY <2>1 DEF Answerable
  <2>3. ASSUME modal' \in {"none", "building", "room", "rack", "model", "device", "interface", "upload"},
               editing' \in [id : OrNothing(Rows), filled : OrNothing(Rows)],
               locating' \in [id : OrNothing(LocatedPlaces), filled : OrNothing(LocatedPlaces)],
               EditorsKeepTheirRow', url' \in Url, stored' \in OrNothing(Contexts), chosen' \in Choosing,
               late' \in BOOLEAN,
               ~late' => /\ url'.site = site /\ Sound(chosen', site)
                         /\ InSite(url.building, url.room)'
                         /\ stored' # Nothing /\ stored'.site = site => InSite(stored.building, stored.room)'
        PROVE  ScreenInv'
    <3>1. ScreenTypeOK' BY <1>2, <2>1, <2>3 DEF ScreenTypeOK, Url, Choosing, Contexts, LocatedPlaces
    <3>2. AwaitedOfSite' BY <2>1 DEF AwaitedOfSite, OfItsSite, BuildingsOf, RoomsOf
    <3>3. KeptInSite' BY <2>1, <2>3 DEF KeptInSite
    <3>4. SelectionStaysInSite' BY <2>1, <2>3 DEF SelectionStaysInSite, Sound
    <3>. QED BY <2>3, <3>1, <3>2, <3>3, <3>4 DEF ScreenInv
  <2>4. ~late => /\ InSite(url.building, url.room)
                 /\ stored # Nothing /\ stored.site = site => InSite(stored.building, stored.room)
    BY <1>1 DEF KeptInSite
  <2>5. \A b, t : InSite(b, t)' <=> InSite(b, t)
    BY <2>1 DEF InSite, BuildingsOf, RoomsOf
  <2>6. ASSUME ReopensDevice(c), UNCHANGED stored
        PROVE  /\ url' \in Url /\ chosen' \in Choosing /\ late' \in BOOLEAN
               /\ ~late' => /\ url'.site = site /\ Sound(chosen', site)
                            /\ InSite(url.building, url.room)'
                            /\ stored' # Nothing /\ stored'.site = site => InSite(stored.building, stored.room)'
    <3>1. CASE c.device = Nothing
      <4>1. UNCHANGED <<url, chosen, late>> BY <2>6, <3>1 DEF ReopensDevice
      <4>2. ~late => /\ InSite(url.building, url.room)'
                     /\ stored # Nothing /\ stored.site = site => InSite(stored.building, stored.room)'
        BY <2>1, <2>4, <2>6, <4>1 DEF InSite, BuildingsOf, RoomsOf
      <4>. QED BY <1>2, <1>3, <2>6, <4>1, <4>2
    <3>2. CASE c.device # Nothing
      <4>1. /\ chosen' = [chosen EXCEPT !.device = c.device]
            /\ url' = Address(c.site, Nothing, Nothing, Nothing, c.device)
            /\ late' = (late \/ Foreign(c))
        BY <2>6, <3>2 DEF ReopensDevice
      <4>2. /\ chosen' \in Choosing /\ chosen'.building = chosen.building
            /\ chosen'.room = chosen.room /\ chosen'.rack = chosen.rack /\ chosen'.device = c.device
        BY <1>2, <2>2, <4>1 DEF Choosing
      <4>3. late' \in BOOLEAN /\ (~late' => ~late /\ ~Foreign(c)) BY <1>2, <4>1 DEF Foreign
      <4>4. ~late' => c.site = site /\ SiteOfDevice[c.device] = site BY <3>2, <4>3 DEF Foreign
      <4>5. url' \in Url /\ url'.site = c.site /\ url'.building = Nothing /\ url'.room = Nothing
        BY <1>7, <1>8, <2>2, <4>1
      <4>6. ~late' => Sound(chosen', site) BY <1>3, <4>2, <4>3, <4>4 DEF Sound
      <4>7. InSite(url.building, url.room)' BY <4>5 DEF InSite
      <4>8. ~late' => (stored # Nothing /\ stored.site = site => InSite(stored.building, stored.room)')
        BY <2>1, <2>4, <2>6, <4>3 DEF InSite, BuildingsOf, RoomsOf
      <4>. QED BY <2>6, <4>2, <4>3, <4>4, <4>5, <4>6, <4>7, <4>8
    <3>. QED BY <3>1, <3>2
  <2>7. CASE c.kind \in {"edit device", "upload"}
    <3>1. UNCHANGED <<url, stored, chosen, locating, late>> BY <1>27, <2>7 DEF Answer, Selection
    <3>2. /\ modal' \in {"device", "none"} /\ editing' \in [id : OrNothing(Rows), filled : OrNothing(Rows)]
          /\ EditorsKeepTheirRow'
      <4>1. CASE c.kind = "edit device"
        <5>1. modal' = "device" /\ editing' = [id |-> c.row, filled |-> c.row]
          BY <1>27, <4>1 DEF Answer
        <5>2. c.row \in OrNothing(Rows) BY <2>1, <4>1 DEF OfItsSite, OrNothing, Rows
        <5>. QED BY <5>1, <5>2 DEF EditorsKeepTheirRow
      <4>2. CASE c.kind = "upload"
        <5>1. modal' = "none" /\ UNCHANGED editing BY <1>27, <4>2 DEF Answer, Closed
        <5>. QED BY <1>2, <5>1 DEF EditorsKeepTheirRow
      <4>. QED BY <2>7, <4>1, <4>2
    <3>3. ~late => /\ InSite(url.building, url.room)'
                   /\ stored # Nothing /\ stored.site = site => InSite(stored.building, stored.room)'
      BY <2>1, <2>4, <3>1 DEF InSite, BuildingsOf, RoomsOf
    <3>. QED BY <1>2, <1>3, <2>3, <3>1, <3>2, <3>3
  <2>8. CASE c.kind \in {"save", "generate"}
    <3>1. ReopensDevice(c) /\ UNCHANGED <<stored, locating>> BY <1>27, <2>8 DEF Answer, Editors
    <3>2. /\ modal' \in {"none", modal} /\ editing' \in [id : OrNothing(Rows), filled : OrNothing(Rows)]
          /\ EditorsKeepTheirRow'
      <4>1. CASE c.kind = "save"
        <5>1. modal' = "none" /\ editing' = [editing EXCEPT !.id = Nothing]
          BY <1>27, <4>1 DEF Answer, Closed
        <5>. QED BY <1>2, <1>7, <5>1 DEF EditorsKeepTheirRow
      <4>2. CASE c.kind = "generate"
        <5>1. UNCHANGED <<modal, editing, locating>> BY <1>27, <4>2 DEF Answer, Editors
        <5>. QED BY <1>1, <1>2, <5>1 DEF EditorsKeepTheirRow
      <4>. QED BY <2>8, <4>1, <4>2
    <3>3. stored' \in OrNothing(Contexts) /\ locating' \in [id : OrNothing(LocatedPlaces), filled : OrNothing(LocatedPlaces)]
          /\ modal' \in {"none", "building", "room", "rack", "model", "device", "interface", "upload"}
      BY <1>2, <3>1, <3>2
    <3>. QED BY <2>3, <2>6, <3>1, <3>2, <3>3
  <2>9. CASE c.kind = "delete rack"
    <3>1. /\ chosen' = [chosen EXCEPT !.rack = Nothing] /\ url' = [url EXCEPT !.rack = Nothing]
          /\ UNCHANGED <<stored, modal, editing, locating, late>>
      BY <1>27, <2>9 DEF Answer, Editors
    <3>2. /\ chosen' \in Choosing /\ chosen'.building = chosen.building /\ chosen'.room = chosen.room
          /\ chosen'.rack = Nothing /\ chosen'.device = chosen.device
      BY <1>2, <1>7, <3>1 DEF Choosing
    <3>3. /\ url' \in Url /\ url'.site = url.site /\ url'.building = url.building /\ url'.room = url.room
      BY <1>2, <1>7, <3>1 DEF Url
    <3>4. ~late => Sound(chosen', site) BY <1>3, <3>2 DEF Sound
    <3>5. ~late => /\ InSite(url.building, url.room)'
                   /\ stored # Nothing /\ stored.site = site => InSite(stored.building, stored.room)'
      BY <2>1, <2>4, <3>1, <3>3 DEF InSite, BuildingsOf, RoomsOf
    <3>6. EditorsKeepTheirRow' BY <1>1, <3>1 DEF EditorsKeepTheirRow
    <3>. QED BY <1>2, <1>3, <2>3, <3>1, <3>2, <3>3, <3>4, <3>5, <3>6
  <2>10. CASE c.kind \in {"save building", "save room"}
    <3>. DEFINE room == IF c.kind = "save room" THEN c.row ELSE Nothing
                building == IF c.kind = "save room" THEN BuildingOfRoom[c.row] ELSE c.row
    <3>1. PlaceSaved(c) BY <1>27, <2>10 DEF Answer
    <3>2. /\ modal' = "none" /\ locating' = [locating EXCEPT !.id = Nothing] /\ UNCHANGED editing
          /\ chosen' = [chosen EXCEPT !.building = building, !.room = room,
                                      !.rack = IF c.site = site THEN Nothing ELSE @]
          /\ stored' = Context(c.site, building, room)
          /\ url' = Address(c.site, building, room, Nothing, Nothing)
          /\ late' = (late \/ c.site # site)
      BY <3>1 DEF PlaceSaved, Closed
    <3>3. /\ building \in BuildingsOf(c.site) /\ (room # Nothing => room \in RoomsOf(c.site))
          /\ (room # Nothing => BuildingOfRoom[room] = building)
      BY <2>1, <2>10, PlacesOfSite DEF OfItsSite
    <3>14. building \in PageBuildings /\ SiteOfBuilding[building] = c.site
           /\ (room # Nothing => room \in PageRooms)
      <4>. HIDE DEF building, room
      <4>. QED BY <3>3, PlacesOfSite
    <3>4. building \in OrNothing(PageBuildings) /\ room \in OrNothing(PageRooms)
          /\ SiteOfBuilding[building] = c.site
      <4>. HIDE DEF building, room
      <4>. QED BY <3>14 DEF OrNothing
    <3>. HIDE DEF building, room
    <3>5. /\ chosen' \in Choosing /\ chosen'.building = building /\ chosen'.room = room
          /\ (c.site = site => chosen'.rack = Nothing) /\ chosen'.device = chosen.device
      BY <1>2, <1>7, <3>2, <3>4 DEF Choosing
    <3>6. /\ stored' \in OrNothing(Contexts) /\ stored'.building = building /\ stored'.room = room
      BY <1>9, <2>2, <3>2, <3>4 DEF OrNothing
    <3>7. /\ url' \in Url /\ url'.site = c.site /\ url'.building = building /\ url'.room = room
      BY <1>7, <1>8, <2>2, <3>2, <3>4
    <3>8. late' \in BOOLEAN /\ (~late' => ~late /\ c.site = site) BY <1>2, <3>2
    <3>9. ~late' => Sound(chosen', site) BY <1>3, <3>3, <3>4, <3>5, <3>8 DEF Sound
    <3>11. ~late' => InSite(url.building, url.room)' /\ InSite(stored.building, stored.room)'
      BY <2>1, <3>3, <3>6, <3>7, <3>8 DEF InSite, BuildingsOf, RoomsOf
    <3>12. EditorsKeepTheirRow' BY <3>2 DEF EditorsKeepTheirRow
    <3>13. locating' \in [id : OrNothing(LocatedPlaces), filled : OrNothing(LocatedPlaces)] BY <1>2, <1>7, <3>2
    <3>. QED BY <1>2, <2>3, <3>2, <3>5, <3>6, <3>7, <3>8, <3>9, <3>11, <3>12, <3>13
  <2>. QED BY <2>1, <2>7, <2>8, <2>9, <2>10 DEF Answerable
<1>. QED
  BY <1>11, <1>12, <1>13, <1>14, <1>15, <1>16, <1>17, <1>18, <1>19, <1>20, <1>21, <1>22, <1>24,
     <1>26, <1>27 DEF ScreenNext

\* What the infrastructure page selects hangs together, in the site of the
\* sidebar and of the URL, until an answer comes for another site; and a form is
\* saved to the row it was filled with (the infrastructure part of
\* PagesHangTogether).
THEOREM SelectionsHangTogether ==
  ScreenSpec => [](ScreenTypeOK /\ SelectionStaysInSite /\ EditorsKeepTheirRow)
<1>1. ASSUME ScreenInv, UNCHANGED screenVars PROVE ScreenInv'
  <2>. USE <1>1 DEF ScreenInv, screenVars
  <2>1. ScreenTypeOK' BY DEF ScreenTypeOK
  <2>2. AwaitedOfSite' BY DEF AwaitedOfSite, OfItsSite, BuildingsOf, RoomsOf
  <2>3. KeptInSite' BY DEF KeptInSite, InSite, BuildingsOf, RoomsOf
  <2>4. SelectionStaysInSite' BY DEF SelectionStaysInSite
  <2>5. EditorsKeepTheirRow' BY DEF EditorsKeepTheirRow
  <2>. QED BY <2>1, <2>2, <2>3, <2>4, <2>5
<1>2. ScreenInv /\ [ScreenNext]_screenVars => ScreenInv' BY <1>1, ScreenInvKept
<1>3. ScreenInv => ScreenTypeOK /\ SelectionStaysInSite /\ EditorsKeepTheirRow BY DEF ScreenInv
<1>. QED BY <1>2, <1>3, ScreenInvInit, PTL DEF ScreenSpec

-----------------------------------------------------------------------------
(* The subnets opened on the IPAM page (IpamPage) *)

OpenedPlaces == [subnet : OrUnset(PageSubnets), host : OrUnset(PageHosts), ip : OrUnset(PageIps)]
IpamAddress == [site : IpamSites, subnet : OrUnset(PageSubnets), host : OrUnset(PageHosts),
                ip : OrUnset(PageIps)]
Dialogs == [kind : {"none", "vlan", "subnet", "ip", "create-host"}, over : OrUnset(PageSubnets)]
Sights == [site : IpamSites, subnet : OrUnset(PageSubnets), ip : OrUnset(PageIps), dialog : Dialogs]
Handlers == [kind : {"open", "save", "save ip", "remove"}, row : OrUnset(PageSubnets \cup PageIps),
             preserve : BOOLEAN, then : OrUnset(PageHosts), seen : Sights]

(* What a handler keeps fits what it has seen.                             *)
Reopens(c) == c.row = c.seen.subnet /\ (c.then # Unset => SubnetOfHost[c.then] = c.row)
FollowsSeen(c) ==
  /\ c \in Handlers
  /\ c.kind = "open" =>
       /\ c.row \in PageSubnets /\ c.seen.dialog = NoDialog
       /\ \/ /\ SiteOfSubnet[c.row] = c.seen.site /\ c.seen.ip = Unset
             /\ c.then # Unset => SiteOfHost(c.then) = c.seen.site
          \/ Reopens(c)
  /\ c.kind = "save" /\ c.row # Unset => c.row \in PageSubnets /\ Reopens(c)
  /\ c.kind = "save ip" => c.row \in PageIps /\ c.row = c.seen.ip
  /\ c.kind = "remove" => c.row \in PageSubnets /\ c.seen.ip = Unset /\ c.seen.dialog = NoDialog
HandlersFollow ==
  /\ DOMAIN ipamCalls = IpamCalls
  /\ ipamCalls = [q \in IpamCalls |-> ipamCalls[q]]
  /\ \A q \in IpamCalls : ipamCalls[q] # NoIpamCall => FollowsSeen(ipamCalls[q])

(* The URL leads to what is open, or to what lies in the site.             *)
UrlLeads ==
  /\ ipamUrl.subnet # Unset =>
       ipamUrl.subnet = opened.subnet \/ SiteOfSubnet[ipamUrl.subnet] = ipamSite
  /\ ipamUrl.host # Unset => ipamUrl.host = opened.host \/ SiteOfHost(ipamUrl.host) = ipamSite
  /\ ~overtaken /\ opened.ip # Unset /\ ipamUrl.ip # Unset => ipamUrl.ip = opened.ip
IpamInv == IpamTypeOK /\ HandlersFollow /\ UrlLeads /\ OpenedHangsTogether

LEMMA IpamInvInit == IpamInit => IpamInv
<1>. SUFFICES ASSUME IpamInit PROVE IpamInv OBVIOUS
<1>1. PICK s \in OrUnset({n \in PageSubnets : SiteOfSubnet[n] = ipamSite}),
           h \in OrUnset(PageHosts), i \in OrUnset(PageIps) :
        /\ h # Unset => SiteOfHost(h) = ipamSite
        /\ ipamUrl = [site |-> ipamSite, subnet |-> s, host |-> h, ip |-> i]
  BY DEF IpamInit
<1>2. /\ ipamSite \in IpamSites /\ opened = Nowhere /\ panelForm = Unset /\ ipamModal = NoDialog
      /\ removed = {} /\ overtaken = FALSE /\ ipamCalls = [q \in IpamCalls |-> NoIpamCall]
  BY DEF IpamInit
<1>3. /\ ipamUrl.site = ipamSite /\ ipamUrl.subnet = s /\ ipamUrl.host = h
      /\ opened.subnet = Unset /\ opened.host = Unset /\ opened.ip = Unset /\ ipamModal.kind = "none"
  BY <1>1, <1>2 DEF Nowhere, NoDialog
<1>4. s \in OrUnset(PageSubnets) /\ (s # Unset => SiteOfSubnet[s] = ipamSite) BY DEF OrUnset
<1>5. IpamTypeOK
  BY <1>1, <1>2, <1>4 DEF IpamTypeOK, Nowhere, NoDialog, OrUnset
<1>6. HandlersFollow BY <1>2 DEF HandlersFollow
<1>7. UrlLeads BY <1>1, <1>3, <1>4 DEF UrlLeads
<1>8. OpenedHangsTogether BY <1>3 DEF OpenedHangsTogether
<1>. QED BY <1>5, <1>6, <1>7, <1>8 DEF IpamInv

LEMMA IpamInvKept == ASSUME IpamInv, IpamNext PROVE IpamInv'
<1>1. IpamTypeOK /\ HandlersFollow /\ UrlLeads /\ OpenedHangsTogether BY DEF IpamInv
<1>2. /\ ipamSite \in IpamSites /\ ipamUrl \in IpamAddress /\ opened \in OpenedPlaces
      /\ panelForm \in OrUnset(PageIps) /\ ipamModal \in Dialogs
      /\ removed \subseteq PageSubnets /\ overtaken \in BOOLEAN
  BY <1>1 DEF IpamTypeOK, IpamAddress, OpenedPlaces, Dialogs
<1>3. /\ DOMAIN ipamCalls = IpamCalls /\ ipamCalls = [q \in IpamCalls |-> ipamCalls[q]]
      /\ \A q \in IpamCalls : ipamCalls[q] # NoIpamCall => FollowsSeen(ipamCalls[q])
  BY <1>1 DEF HandlersFollow
<1>4. Unset \in OrUnset(PageSubnets) /\ Unset \in OrUnset(PageHosts) /\ Unset \in OrUnset(PageIps)
  BY DEF OrUnset
<1>5. NoDialog \in Dialogs /\ NoDialog.kind = "none" BY <1>4 DEF NoDialog, Dialogs
<1>6. Nowhere \in OpenedPlaces /\ Nowhere.subnet = Unset /\ Nowhere.host = Unset /\ Nowhere.ip = Unset
  BY <1>4 DEF Nowhere, OpenedPlaces
<1>7. ASSUME ipamSite' \in IpamSites, ipamUrl' \in IpamAddress, opened' \in OpenedPlaces,
             panelForm' \in OrUnset(PageIps), ipamModal' \in Dialogs,
             removed' \subseteq PageSubnets, overtaken' \in BOOLEAN
      PROVE  IpamTypeOK'
  BY <1>7 DEF IpamTypeOK, IpamAddress, OpenedPlaces, Dialogs
<1>8. ASSUME UNCHANGED ipamCalls PROVE HandlersFollow'
  BY <1>1, <1>8 DEF HandlersFollow, FollowsSeen, Reopens, SiteOfHost
<1>9. ASSUME NEW q, Ends(q) PROVE HandlersFollow'
  <2>1. ipamCalls' = [ipamCalls EXCEPT ![q] = NoIpamCall] BY <1>9 DEF Ends
  <2>2. \A p \in IpamCalls : ipamCalls'[p] = NoIpamCall \/ ipamCalls'[p] = ipamCalls[p]
    BY <1>3, <2>1
  <2>3. DOMAIN ipamCalls' = IpamCalls /\ ipamCalls' = [p \in IpamCalls |-> ipamCalls'[p]] BY <1>3, <2>1
  <2>. QED BY <1>3, <2>2, <2>3 DEF HandlersFollow, FollowsSeen, Reopens, SiteOfHost
<1>10. ASSUME NEW s \in IpamSites, SwitchSite(s) PROVE IpamInv'
  <2>1. /\ ipamSite' = s /\ ipamUrl' = [ipamUrl EXCEPT !.site = s, !.subnet = Unset, !.host = Unset]
        /\ opened' = Nowhere /\ overtaken' = FALSE /\ ipamModal = NoDialog
        /\ UNCHANGED <<panelForm, ipamModal, ipamCalls, removed>>
    BY <1>10 DEF SwitchSite, OnPage
  <2>2. /\ ipamUrl' \in IpamAddress /\ ipamUrl'.site = s /\ ipamUrl'.subnet = Unset
        /\ ipamUrl'.host = Unset
    BY <1>2, <1>4, <2>1 DEF IpamAddress
  <2>3. IpamTypeOK' BY <1>2, <1>6, <1>7, <2>1, <2>2
  <2>4. HandlersFollow' BY <1>8, <2>1
  <2>5. UrlLeads' BY <1>6, <2>1, <2>2 DEF UrlLeads
  <2>6. OpenedHangsTogether' BY <1>5, <1>6, <2>1, <2>2 DEF OpenedHangsTogether
  <2>. QED BY <2>3, <2>4, <2>5, <2>6 DEF IpamInv
(* What is opened at once, on the page or beside it.                       *)
<1>11. ASSUME NEW next \in OpenedPlaces, NEW address \in IpamAddress, NEW form \in OrUnset(PageIps),
              Opens(next, address, form),
              next.subnet = opened.subnet, address.site = ipamUrl.site,
              address.subnet = ipamUrl.subnet,
              \/ next.host = opened.host /\ address.host = ipamUrl.host
              \/ next.host = Unset /\ address.host = Unset
              \/ /\ address.host = next.host
                 /\ opened.subnet # Unset /\ SubnetOfHost[next.host] = opened.subnet,
              \/ next.ip = opened.ip /\ address.ip = ipamUrl.ip /\ form = panelForm
              \/ next.ip = Unset
              \/ /\ next.ip = address.ip /\ SubnetOfIp[next.ip] = opened.subnet
                 /\ ~overtaken => form = next.ip
       PROVE  IpamInv'
  <2>1. /\ opened' = next /\ ipamUrl' = address /\ panelForm' = form
        /\ UNCHANGED <<ipamSite, ipamModal, ipamCalls, removed, overtaken>>
    BY <1>11 DEF Opens
  <2>2. IpamTypeOK' BY <1>2, <1>7, <1>11, <2>1
  <2>3. HandlersFollow' BY <1>8, <2>1
  <2>4. UrlLeads' BY <1>1, <1>11, <2>1 DEF UrlLeads, SiteOfHost
  <2>5. OpenedHangsTogether'
    BY <1>1, <1>11, <2>1 DEF OpenedHangsTogether, SiteOfHost
  <2>. QED BY <2>2, <2>3, <2>4, <2>5 DEF IpamInv
<1>12. ASSUME NEW h \in PageHosts, OpenHost(h) PROVE IpamInv'
  <2>. DEFINE next == [opened EXCEPT !.host = h]
              address == [ipamUrl EXCEPT !.host = h]
  <2>1. h \in OrUnset(PageHosts) BY DEF OrUnset
  <2>2. /\ next \in OpenedPlaces /\ next.subnet = opened.subnet /\ next.host = h /\ next.ip = opened.ip
    BY <1>2, <2>1 DEF OpenedPlaces
  <2>3. /\ address \in IpamAddress /\ address.site = ipamUrl.site /\ address.subnet = ipamUrl.subnet
        /\ address.host = h /\ address.ip = ipamUrl.ip
    BY <1>2, <2>1 DEF IpamAddress
  <2>4. Opens(next, address, panelForm) /\ opened.subnet # Unset /\ SubnetOfHost[h] = opened.subnet
    BY <1>12 DEF OpenHost
  <2>. HIDE DEF next, address
  <2>. QED BY <1>2, <1>11, <2>2, <2>3, <2>4
<1>13. ASSUME CloseHost PROVE IpamInv'
  <2>. DEFINE next == [opened EXCEPT !.host = Unset]
              address == [ipamUrl EXCEPT !.host = Unset]
  <2>2. /\ next \in OpenedPlaces /\ next.subnet = opened.subnet /\ next.host = Unset /\ next.ip = opened.ip
    BY <1>2, <1>4 DEF OpenedPlaces
  <2>3. /\ address \in IpamAddress /\ address.site = ipamUrl.site /\ address.subnet = ipamUrl.subnet
        /\ address.host = Unset /\ address.ip = ipamUrl.ip
    BY <1>2, <1>4 DEF IpamAddress
  <2>4. Opens(next, address, panelForm) BY <1>13 DEF CloseHost
  <2>. HIDE DEF next, address
  <2>. QED BY <1>2, <1>11, <2>2, <2>3, <2>4
<1>14. ASSUME NEW i \in OrUnset(PageIps), NEW form \in OrUnset(PageIps),
              Opens([opened EXCEPT !.ip = i], [ipamUrl EXCEPT !.ip = i], form),
              i # Unset => SubnetOfIp[i] = opened.subnet /\ (~overtaken => form = i)
       PROVE  IpamInv'
  <2>. DEFINE next == [opened EXCEPT !.ip = i]
              address == [ipamUrl EXCEPT !.ip = i]
  <2>2. /\ next \in OpenedPlaces /\ next.subnet = opened.subnet /\ next.host = opened.host /\ next.ip = i
    BY <1>2 DEF OpenedPlaces
  <2>3. /\ address \in IpamAddress /\ address.site = ipamUrl.site /\ address.subnet = ipamUrl.subnet
        /\ address.host = ipamUrl.host /\ address.ip = i
    BY <1>2 DEF IpamAddress
  <2>4. Opens(next, address, form) BY <1>14
  <2>. HIDE DEF next, address
  <2>. QED BY <1>11, <1>14, <2>2, <2>3, <2>4
<1>15. ASSUME NEW i \in PageIps, EditIp(i) PROVE IpamInv'
  <2>1. i \in OrUnset(PageIps) BY DEF OrUnset
  <2>. QED BY <1>14, <1>15, <2>1 DEF EditIp
<1>16. ASSUME CloseIp PROVE IpamInv'
  BY <1>4, <1>14, <1>16 DEF CloseIp
<1>17. ASSUME IpsArrive PROVE IpamInv'
  <2>. DEFINE form == IF opened.ip = Unset THEN ipamUrl.ip ELSE panelForm
              next == [opened EXCEPT !.ip = ipamUrl.ip]
  <2>1. /\ ipamUrl.ip # Unset /\ SubnetOfIp[ipamUrl.ip] = opened.subnet
        /\ Opens(next, ipamUrl, form)
    BY <1>17 DEF IpsArrive
  <2>2. ipamUrl.ip \in OrUnset(PageIps) BY <1>2 DEF IpamAddress
  <2>3. form \in OrUnset(PageIps) BY <1>2, <2>2
  <2>4. ~overtaken => form = ipamUrl.ip BY <1>1, <2>1 DEF UrlLeads, OpenedHangsTogether
  <2>5. /\ next \in OpenedPlaces /\ next.subnet = opened.subnet /\ next.host = opened.host
        /\ next.ip = ipamUrl.ip
    BY <1>2, <2>2 DEF OpenedPlaces
  <2>. HIDE DEF form, next
  <2>. QED BY <1>2, <1>11, <2>1, <2>3, <2>4, <2>5
(* Dialogs, and handlers that only end.                                    *)
<1>18. ASSUME UNCHANGED <<ipamSite, ipamUrl, opened, panelForm, removed, overtaken>>,
              ipamModal' \in Dialogs, HandlersFollow',
              ipamModal'.kind \in {"ip", "create-host"} =>
                ipamModal' = ipamModal \/ ipamModal'.over = opened.subnet
       PROVE  IpamInv'
  <2>1. IpamTypeOK' BY <1>2, <1>7, <1>18
  <2>2. UrlLeads' BY <1>1, <1>18 DEF UrlLeads, SiteOfHost
  <2>3. OpenedHangsTogether' BY <1>1, <1>18 DEF OpenedHangsTogether, SiteOfHost
  <2>. QED BY <1>18, <2>1, <2>2, <2>3 DEF IpamInv
<1>19. ASSUME NEW kind \in {"vlan", "subnet", "ip", "create-host"}, OpenDialog(kind) PROVE IpamInv'
  <2>1. /\ ipamModal' = [kind |-> kind, over |-> opened.subnet]
        /\ UNCHANGED <<ipamSite, ipamUrl, opened, panelForm, ipamCalls, removed, overtaken>>
    BY <1>19 DEF OpenDialog
  <2>2. opened.subnet \in OrUnset(PageSubnets) BY <1>2 DEF OpenedPlaces
  <2>3. ipamModal' \in Dialogs /\ ipamModal'.over = opened.subnet BY <1>19, <2>1, <2>2 DEF Dialogs
  <2>. QED BY <1>8, <1>18, <2>1, <2>3
<1>20. ASSUME LeaveDialog PROVE IpamInv'
  BY <1>5, <1>8, <1>18, <1>20 DEF LeaveDialog
<1>21. ASSUME NEW q \in IpamCalls, RefuseIpam(q) PROVE IpamInv'
  BY <1>2, <1>9, <1>18, <1>21 DEF RefuseIpam
<1>22. Seen \in Sights /\ Seen.site = ipamSite /\ Seen.subnet = opened.subnet
       /\ Seen.ip = opened.ip /\ Seen.dialog = ipamModal
  BY <1>2 DEF Seen, Sights, OpenedPlaces
<1>23. ASSUME NEW q \in IpamCalls,
              UNCHANGED <<ipamSite, ipamUrl, opened, panelForm, ipamModal, removed, overtaken>>,
              NEW kind \in {"open", "save", "save ip", "remove"},
              NEW row \in OrUnset(PageSubnets \cup PageIps), NEW preserve \in BOOLEAN,
              NEW then \in OrUnset(PageHosts), AsksIpam(q, kind, row, preserve, then),
              kind = "open" => /\ row \in PageSubnets /\ ipamModal = NoDialog /\ opened.ip = Unset
                               /\ SiteOfSubnet[row] = ipamSite
                               /\ then # Unset => SiteOfHost(then) = ipamSite,
              kind = "save" /\ row # Unset => /\ row \in PageSubnets /\ row = opened.subnet
                                              /\ then # Unset => SubnetOfHost[then] = row,
              kind = "save ip" => row \in PageIps /\ row = opened.ip,
              kind = "remove" => row \in PageSubnets /\ opened.ip = Unset /\ ipamModal = NoDialog
       PROVE  IpamInv'
  <2>. DEFINE c == [kind |-> kind, row |-> row, preserve |-> preserve, then |-> then, seen |-> Seen]
  <2>1. ipamCalls' = [ipamCalls EXCEPT ![q] = c] BY <1>23 DEF AsksIpam
  <2>2. c \in Handlers BY <1>22 DEF Handlers
  <2>3. FollowsSeen(c) BY <1>22, <1>23, <2>2 DEF FollowsSeen, Reopens
  <2>. HIDE DEF c
  <2>6. DOMAIN ipamCalls' = IpamCalls /\ ipamCalls' = [p \in IpamCalls |-> ipamCalls'[p]] BY <1>3, <2>1
  <2>4. \A p \in IpamCalls : ipamCalls'[p] # NoIpamCall => FollowsSeen(ipamCalls'[p])
    <3>1. \A p \in IpamCalls : ipamCalls'[p] = c \/ ipamCalls'[p] = ipamCalls[p] BY <1>3, <2>1
    <3>. QED BY <1>3, <2>3, <3>1
  <2>5. HandlersFollow' BY <2>4, <2>6 DEF HandlersFollow, FollowsSeen, Reopens, SiteOfHost
  <2>. QED BY <1>2, <1>18, <1>23, <2>5
<1>24. ASSUME NEW q \in IpamCalls, AskIpam(q) PROVE IpamInv'
  <2>1. UNCHANGED <<ipamSite, ipamUrl, opened, panelForm, ipamModal, removed, overtaken>>
    BY <1>24 DEF AskIpam
  <2>2. \A n \in PageSubnets : n \in OrUnset(PageSubnets \cup PageIps)
        /\ \A i \in PageIps : i \in OrUnset(PageSubnets \cup PageIps)
        /\ Unset \in OrUnset(PageSubnets \cup PageIps)
    BY DEF OrUnset
  <2>3. CASE OnPage /\ \E n \in Here : AsksIpam(q, "open", n, FALSE, Unset)
    BY <1>4, <1>23, <2>1, <2>2, <2>3 DEF OnPage, Here
  <2>4. CASE /\ OnPage /\ opened = Nowhere /\ ipamUrl.subnet # Unset
             /\ AsksIpam(q, "open", ipamUrl.subnet, ipamUrl.ip # Unset, ipamUrl.host)
    <3>1. ipamUrl.subnet \in PageSubnets /\ ipamUrl.host \in OrUnset(PageHosts)
      BY <1>2, <2>4 DEF IpamAddress, OrUnset
    <3>2. opened.subnet = Unset /\ opened.host = Unset /\ opened.ip = Unset BY <1>6, <2>4
    <3>3. SiteOfSubnet[ipamUrl.subnet] = ipamSite
          /\ (ipamUrl.host # Unset => SiteOfHost(ipamUrl.host) = ipamSite)
      BY <1>1, <2>4, <3>2 DEF UrlLeads
    <3>4. (ipamUrl.ip # Unset) \in BOOLEAN OBVIOUS
    <3>5. ipamModal = NoDialog BY <2>4 DEF OnPage
    <3>. QED BY <1>23, <2>1, <2>2, <2>4, <3>1, <3>2, <3>3, <3>4, <3>5
  <2>5. CASE OnPage /\ \E n \in Here : AsksIpam(q, "remove", n, FALSE, Unset)
    BY <1>4, <1>23, <2>1, <2>2, <2>5 DEF OnPage, Here
  <2>6. CASE ipamModal.kind \in {"vlan", "subnet"} /\ AsksIpam(q, "save", Unset, FALSE, Unset)
    BY <1>4, <1>23, <2>1, <2>2, <2>6
  <2>7. opened.subnet = Unset \/ opened.subnet \in PageSubnets BY <1>2 DEF OpenedPlaces, OrUnset
  <2>8. CASE ipamModal.kind = "ip" /\ AsksIpam(q, "save", opened.subnet, FALSE, Unset)
    BY <1>4, <1>23, <2>1, <2>2, <2>7, <2>8
  <2>9. CASE /\ ipamModal.kind = "create-host"
             /\ \E h \in PageHosts : /\ SubnetOfHost[h] = opened.subnet
                                     /\ AsksIpam(q, "save", opened.subnet, FALSE, h)
    <3>1. PICK h \in PageHosts : /\ SubnetOfHost[h] = opened.subnet
                                 /\ AsksIpam(q, "save", opened.subnet, FALSE, h)
      BY <2>9
    <3>2. h \in OrUnset(PageHosts) /\ opened.subnet \in OrUnset(PageSubnets \cup PageIps)
      BY <2>2, <2>7 DEF OrUnset
    <3>. QED BY <1>23, <2>1, <2>7, <3>1, <3>2
  <2>10. CASE /\ ipamModal = NoDialog /\ opened.ip # Unset
              /\ AsksIpam(q, "save ip", opened.ip, FALSE, Unset)
    <3>1. opened.ip \in PageIps BY <1>2, <2>10 DEF OpenedPlaces, OrUnset
    <3>2. opened.ip \in OrUnset(PageSubnets \cup PageIps) BY <3>1 DEF OrUnset
    <3>. QED BY <1>4, <1>23, <2>1, <2>10, <3>1, <3>2
  <2>. QED BY <1>24, <2>3, <2>4, <2>5, <2>6, <2>8, <2>9, <2>10 DEF AskIpam
(* Answers.                                                                *)
<1>25. ASSUME NEW q \in IpamCalls, AnswerIpam(q) PROVE IpamInv'
  <2>. DEFINE c == ipamCalls[q]
  <2>1. FollowsSeen(c) BY <1>3, <1>25 DEF AnswerIpam
  <2>2. UNCHANGED ipamSite /\ overtaken' = (overtaken \/ c.seen # Seen) BY <1>25 DEF AnswerIpam
  <2>3. overtaken' \in BOOLEAN BY <1>2, <2>2
  <2>4. ~overtaken' => /\ ~overtaken /\ c.seen.site = ipamSite /\ c.seen.subnet = opened.subnet
                       /\ c.seen.ip = opened.ip /\ c.seen.dialog = ipamModal
    BY <1>22, <2>2
  <2>5. c \in Handlers BY <2>1 DEF FollowsSeen
  <2>6. CASE c.kind = "open"
    <3>1. SubnetOpened(c) /\ Ends(q) /\ UNCHANGED <<panelForm, ipamModal, removed>>
      BY <1>25, <2>6 DEF AnswerIpam
    <3>2. HandlersFollow' BY <1>9, <3>1
    <3>3. CASE c.row \in removed
      <4>1. UNCHANGED <<opened, ipamUrl>> BY <3>1, <3>3 DEF SubnetOpened
      <4>2. IpamTypeOK' BY <1>2, <1>7, <2>2, <2>3, <3>1, <4>1
      <4>3. UrlLeads' BY <1>1, <2>2, <2>4, <4>1 DEF UrlLeads, SiteOfHost
      <4>4. OpenedHangsTogether' BY <1>1, <2>2, <2>4, <3>1, <4>1 DEF OpenedHangsTogether, SiteOfHost
      <4>. QED BY <3>2, <4>2, <4>3, <4>4 DEF IpamInv
    <3>4. CASE c.row \notin removed
      <4>. DEFINE host == IF c.then = Unset THEN opened.host ELSE c.then
                  urlHost == IF c.then = Unset THEN ipamUrl.host ELSE c.then
                  urlIp == IF c.preserve THEN ipamUrl.ip ELSE Unset
      <4>1. /\ opened' = [opened EXCEPT !.subnet = c.row, !.host = host]
            /\ ipamUrl' = [site |-> SiteOfSubnet[c.row], subnet |-> c.row, ip |-> urlIp, host |-> urlHost]
        BY <3>1, <3>4 DEF SubnetOpened
      <4>2. c.row \in PageSubnets /\ c.row \in OrUnset(PageSubnets) /\ SiteOfSubnet[c.row] \in IpamSites
        BY <2>1, <2>6, SubnetAssumption DEF FollowsSeen, OrUnset
      <4>3. host \in OrUnset(PageHosts) /\ urlHost \in OrUnset(PageHosts) /\ urlIp \in OrUnset(PageIps)
        BY <1>2, <1>4, <2>5 DEF Handlers, OpenedPlaces, IpamAddress
      <4>4. /\ opened' \in OpenedPlaces /\ opened'.subnet = c.row /\ opened'.host = host
            /\ opened'.ip = opened.ip
        <5>. HIDE DEF c, host
        <5>. QED BY <1>2, <4>1, <4>2, <4>3 DEF OpenedPlaces
      <4>5. /\ ipamUrl' \in IpamAddress /\ ipamUrl'.site = SiteOfSubnet[c.row]
            /\ ipamUrl'.subnet = c.row /\ ipamUrl'.host = urlHost /\ ipamUrl'.ip = urlIp
        <5>. HIDE DEF c, urlHost, urlIp
        <5>. QED BY <4>1, <4>2, <4>3 DEF IpamAddress
      <4>6. IpamTypeOK' BY <1>2, <1>7, <2>2, <2>3, <3>1, <4>4, <4>5
      <4>7. UrlLeads'
        <5>1. ipamUrl'.subnet = opened'.subnet BY <4>4, <4>5
        <5>2. ipamUrl'.host # Unset => ipamUrl'.host = opened'.host \/ SiteOfHost(ipamUrl'.host) = ipamSite
          BY <1>1, <4>4, <4>5 DEF UrlLeads
        <5>3. ~overtaken' /\ opened'.ip # Unset /\ ipamUrl'.ip # Unset => ipamUrl'.ip = opened'.ip
          BY <1>1, <2>4, <4>4, <4>5 DEF UrlLeads
        <5>. QED BY <2>2, <5>1, <5>2, <5>3 DEF UrlLeads, SiteOfHost
      <4>8. ~overtaken' => SiteOfSubnet[c.row] = ipamSite
        BY <1>1, <2>1, <2>4, <2>6, <4>2, SubnetAssumption DEF FollowsSeen, Reopens, OpenedHangsTogether
      <4>9. ~overtaken' => (host # Unset => SiteOfHost(host) = ipamSite)
        BY <1>1, <2>1, <2>4, <2>6, <4>8 DEF FollowsSeen, Reopens, OpenedHangsTogether, SiteOfHost
      <4>10. ~overtaken' => (opened.ip # Unset => c.row = opened.subnet)
        BY <2>1, <2>4, <2>6 DEF FollowsSeen, Reopens
      <4>11. ~overtaken' => ipamModal' = NoDialog
        BY <2>1, <2>4, <2>6, <3>1 DEF FollowsSeen
      <4>12. OpenedHangsTogether'
        <5>. HIDE DEF c, host, urlHost, urlIp
        <5>1. ~overtaken' =>
                /\ ipamUrl'.site = ipamSite
                /\ opened'.subnet # Unset =>
                     SiteOfSubnet[opened'.subnet] = ipamSite /\ opened'.subnet \notin removed
                /\ opened'.host # Unset => SiteOfHost(opened'.host) = ipamSite
          BY <3>4, <4>4, <4>5, <4>8, <4>9
        <5>2. ~overtaken' =>
                (opened'.ip # Unset => SubnetOfIp[opened'.ip] = opened'.subnet /\ panelForm' = opened'.ip)
          BY <1>1, <2>4, <3>1, <4>4, <4>10 DEF OpenedHangsTogether
        <5>. QED BY <1>5, <2>2, <3>1, <4>11, <5>1, <5>2 DEF OpenedHangsTogether, SiteOfHost
      <4>. QED BY <3>2, <4>6, <4>7, <4>12 DEF IpamInv
    <3>. QED BY <3>3, <3>4
  <2>7. CASE c.kind = "save"
    <3>1. /\ ipamModal' = NoDialog /\ UNCHANGED <<opened, ipamUrl, panelForm, removed>>
          /\ \/ c.row = Unset /\ Ends(q)
             \/ c.row # Unset /\ ipamCalls' = [ipamCalls EXCEPT ![q] =
                  [c EXCEPT !.kind = "open", !.seen.dialog = NoDialog]]
      BY <1>25, <2>7 DEF AnswerIpam
    <3>2. HandlersFollow'
      <4>1. CASE c.row = Unset /\ Ends(q) BY <1>9, <4>1
      <4>2. CASE c.row # Unset /\ ipamCalls' = [ipamCalls EXCEPT ![q] =
                   [c EXCEPT !.kind = "open", !.seen.dialog = NoDialog]]
        <5>. DEFINE sight == [c.seen EXCEPT !.dialog = NoDialog]
                    d == [c EXCEPT !.kind = "open", !.seen = sight]
        <5>1. ipamCalls' = [ipamCalls EXCEPT ![q] = d] BY <4>2, <2>5 DEF Handlers
        <5>2. c.seen \in Sights BY <2>5 DEF Handlers
        <5>3. /\ sight \in Sights /\ sight.subnet = c.seen.subnet /\ sight.dialog = NoDialog
          BY <1>5, <5>2 DEF Sights
        <5>. HIDE DEF sight
        <5>4. /\ d \in Handlers /\ d.kind = "open" /\ d.row = c.row /\ d.then = c.then /\ d.seen = sight
          BY <2>5, <5>3 DEF Handlers
        <5>. HIDE DEF d
        <5>5. FollowsSeen(d) BY <2>1, <2>7, <4>2, <5>3, <5>4 DEF FollowsSeen, Reopens
        <5>7. DOMAIN ipamCalls' = IpamCalls /\ ipamCalls' = [p \in IpamCalls |-> ipamCalls'[p]]
          BY <1>3, <5>1
        <5>8. \A p \in IpamCalls : ipamCalls'[p] = d \/ ipamCalls'[p] = ipamCalls[p] BY <1>3, <5>1
        <5>6. \A p \in IpamCalls : ipamCalls'[p] # NoIpamCall => FollowsSeen(ipamCalls'[p])
          BY <1>3, <5>5, <5>8
        <5>. QED BY <5>6, <5>7 DEF HandlersFollow, FollowsSeen, Reopens, SiteOfHost
      <4>. QED BY <3>1, <4>1, <4>2
    <3>3. IpamTypeOK' BY <1>2, <1>5, <1>7, <2>2, <2>3, <3>1
    <3>4. UrlLeads' BY <1>1, <2>2, <2>4, <3>1 DEF UrlLeads, SiteOfHost
    <3>5. OpenedHangsTogether' BY <1>1, <1>5, <2>2, <2>4, <3>1 DEF OpenedHangsTogether, SiteOfHost
    <3>. QED BY <3>2, <3>3, <3>4, <3>5 DEF IpamInv
  <2>8. CASE c.kind = "save ip"
    <3>. DEFINE form == IF opened.ip = Unset THEN c.row ELSE panelForm
    <3>1. /\ opened' = [opened EXCEPT !.ip = c.row] /\ panelForm' = form /\ Ends(q)
          /\ UNCHANGED <<ipamUrl, ipamModal, removed>>
      BY <1>25, <2>8 DEF AnswerIpam
    <3>2. c.row \in PageIps /\ c.row \in OrUnset(PageIps) /\ c.row = c.seen.ip /\ c.row # Unset
      BY <2>1, <2>8, SubnetAssumption DEF FollowsSeen, OrUnset
    <3>3. /\ opened' \in OpenedPlaces /\ opened'.subnet = opened.subnet /\ opened'.host = opened.host
          /\ opened'.ip = c.row
      <4>. HIDE DEF c
      <4>. QED BY <1>2, <3>1, <3>2 DEF OpenedPlaces
    <3>4. form \in OrUnset(PageIps) BY <1>2, <3>2
    <3>5. ~overtaken' => opened'.ip = opened.ip /\ panelForm' = panelForm BY <2>4, <3>1, <3>2, <3>3
    <3>6. IpamTypeOK' BY <1>2, <1>7, <2>2, <2>3, <3>1, <3>3, <3>4
    <3>7. UrlLeads' BY <1>1, <2>2, <2>4, <3>1, <3>3, <3>5 DEF UrlLeads, SiteOfHost
    <3>8. OpenedHangsTogether'
      BY <1>1, <2>2, <2>4, <3>1, <3>3, <3>5 DEF OpenedHangsTogether, SiteOfHost
    <3>. QED BY <1>9, <3>1, <3>6, <3>7, <3>8 DEF IpamInv
  <2>9. CASE c.kind = "remove"
    <3>1. /\ removed' = removed \cup {c.row} /\ ipamModal' = NoDialog /\ Ends(q) /\ UNCHANGED panelForm
          /\ \/ /\ c.seen.subnet = c.row
                /\ opened' = [opened EXCEPT !.subnet = Unset, !.host = Unset]
                /\ ipamUrl' = [ipamUrl EXCEPT !.subnet = Unset, !.host = Unset]
             \/ c.seen.subnet # c.row /\ UNCHANGED <<opened, ipamUrl>>
      BY <1>25, <2>9 DEF AnswerIpam
    <3>2. c.row \in PageSubnets /\ c.seen.ip = Unset BY <2>1, <2>9 DEF FollowsSeen
    <3>3. CASE /\ c.seen.subnet = c.row
               /\ opened' = [opened EXCEPT !.subnet = Unset, !.host = Unset]
               /\ ipamUrl' = [ipamUrl EXCEPT !.subnet = Unset, !.host = Unset]
      <4>1. /\ opened' \in OpenedPlaces /\ opened'.subnet = Unset /\ opened'.host = Unset
            /\ opened'.ip = opened.ip
        BY <1>2, <1>4, <3>3 DEF OpenedPlaces
      <4>2. /\ ipamUrl' \in IpamAddress /\ ipamUrl'.site = ipamUrl.site /\ ipamUrl'.subnet = Unset
            /\ ipamUrl'.host = Unset /\ ipamUrl'.ip = ipamUrl.ip
        BY <1>2, <1>4, <3>3 DEF IpamAddress
      <4>3. IpamTypeOK' BY <1>2, <1>5, <1>7, <2>2, <2>3, <3>1, <3>2, <4>1, <4>2
      <4>4. UrlLeads' BY <1>1, <2>2, <2>4, <4>1, <4>2 DEF UrlLeads, SiteOfHost
      <4>5. OpenedHangsTogether'
        BY <1>1, <1>5, <2>2, <2>4, <3>1, <3>2, <4>1, <4>2 DEF OpenedHangsTogether, SiteOfHost
      <4>. QED BY <1>9, <3>1, <4>3, <4>4, <4>5 DEF IpamInv
    <3>4. CASE c.seen.subnet # c.row /\ UNCHANGED <<opened, ipamUrl>>
      <4>1. IpamTypeOK' BY <1>2, <1>5, <1>7, <2>2, <2>3, <3>1, <3>2, <3>4
      <4>2. UrlLeads' BY <1>1, <2>2, <2>4, <3>4 DEF UrlLeads, SiteOfHost
      <4>3. OpenedHangsTogether'
        BY <1>1, <1>5, <2>2, <2>4, <3>1, <3>2, <3>4 DEF OpenedHangsTogether, SiteOfHost
      <4>. QED BY <1>9, <3>1, <4>1, <4>2, <4>3 DEF IpamInv
    <3>. QED BY <3>1, <3>3, <3>4
  <2>. QED BY <2>5, <2>6, <2>7, <2>8, <2>9 DEF Handlers
<1>. QED
  BY <1>10, <1>12, <1>13, <1>15, <1>16, <1>17, <1>19, <1>20, <1>21, <1>24, <1>25 DEF IpamNext

\* What the IPAM page has open lies in the site and in what was not removed, its
\* dialogs write to the subnet they were opened over and the panel of an address
\* saves its own fields, while every answer finds the page as its handler had
\* seen it (the IPAM part of PagesHangTogether).
THEOREM OpenedSubnetsHangTogether == IpamSpec => [](IpamTypeOK /\ OpenedHangsTogether)
<1>1. ASSUME IpamInv, UNCHANGED ipamVars PROVE IpamInv'
  <2>. USE <1>1 DEF IpamInv, ipamVars
  <2>1. IpamTypeOK' BY DEF IpamTypeOK
  <2>2. HandlersFollow' BY DEF HandlersFollow, FollowsSeen, Reopens, SiteOfHost
  <2>3. UrlLeads' BY DEF UrlLeads, SiteOfHost
  <2>4. OpenedHangsTogether' BY DEF OpenedHangsTogether, SiteOfHost
  <2>. QED BY <2>1, <2>2, <2>3, <2>4
<1>2. IpamInv /\ [IpamNext]_ipamVars => IpamInv' BY <1>1, IpamInvKept
<1>3. IpamInv => IpamTypeOK /\ OpenedHangsTogether BY DEF IpamInv
<1>. QED BY <1>2, <1>3, IpamInvInit, PTL DEF IpamSpec

-----------------------------------------------------------------------------
(* The racks of a room (RackView) *)

Planner == INSTANCE RackPlans_proofs WITH Racks <- RackIds, Units <- RackHeights

LEMMA SamePlanner ==
  /\ \A layout, moving, rack, start :
       R!Plan(layout, moving, rack, start) = Planner!Plan(layout, moving, rack, start)
  /\ R!Slot = Planner!Slot /\ R!NoPlan = Planner!NoPlan
  /\ \A plan, layout : R!Over(plan, layout) = Planner!Over(plan, layout)
  /\ \A s, t : R!Overlap(s, t) = Planner!Overlap(s, t)
  /\ \A s : R!Fits(s) = Planner!Fits(s)
<1>1. R!Slot = Planner!Slot BY DEF R!Slot, Planner!Slot
<1>2. R!NoPlan = Planner!NoPlan BY DEF R!NoPlan, Planner!NoPlan
<1>3. \A plan, layout : R!Over(plan, layout) = Planner!Over(plan, layout) BY DEF R!Over, Planner!Over
<1>4. \A s, t : R!Overlap(s, t) = Planner!Overlap(s, t)
  BY DEF R!Overlap, Planner!Overlap, R!Top, Planner!Top
<1>5. \A s : R!Fits(s) = Planner!Fits(s)
  BY DEF R!Fits, Planner!Fits, R!Top, Planner!Top
<1>6. \A layout, moving, rack, start :
       R!Plan(layout, moving, rack, start) = Planner!Plan(layout, moving, rack, start)
  BY DEF R!Plan, Planner!Plan, R!Snapped, Planner!Snapped, R!Collided, Planner!Collided,
     R!CanDisplace, Planner!CanDisplace, R!CanSwap, Planner!CanSwap, R!Lowered, Planner!Lowered,
     R!Vacated, Planner!Vacated, R!NoPlan, Planner!NoPlan, R!Overlap, Planner!Overlap,
     R!Fits, Planner!Fits, R!Top, Planner!Top
<1>. QED BY <1>1, <1>2, <1>3, <1>4, <1>5, <1>6

LEMMA PlansOfRacks ==
  ASSUME NEW layout \in [Movables -> R!Slot], NEW moving \in Movables, NEW rack \in RackIds,
         NEW start \in Int, NEW plan, plan = R!Plan(layout, moving, rack, start), plan # R!NoPlan
  PROVE  /\ moving \in DOMAIN plan /\ plan[moving] \in R!Slot /\ plan[moving].start >= 1
         /\ (\A d, e \in Movables : d # e => ~R!Overlap(layout[d], layout[e])) =>
              /\ R!Over(plan, layout) \in [Movables -> R!Slot]
              /\ \A d, e \in Movables :
                   d # e => ~R!Overlap(R!Over(plan, layout)[d], R!Over(plan, layout)[e])
         /\ plan = R!Plan(layout, moving, plan[moving].rack, plan[moving].start)
<1>1. layout \in [Movables -> Planner!Slot] /\ plan = Planner!Plan(layout, moving, rack, start)
      /\ plan # Planner!NoPlan
  BY SamePlanner
<1>2. ASSUME \A d, e \in Movables : d # e => ~R!Overlap(layout[d], layout[e])
       PROVE  /\ R!Over(plan, layout) \in [Movables -> R!Slot]
              /\ \A d, e \in Movables :
                   d # e => ~R!Overlap(R!Over(plan, layout)[d], R!Over(plan, layout)[e])
  <2>1. \A d, e \in Movables : d # e => ~Planner!Overlap(layout[d], layout[e])
    BY <1>2, SamePlanner
  <2>2. Planner!Over(plan, layout) \in [Movables -> Planner!Slot]
    BY <1>1, <2>1, Planner!PlanKeepsApart, RackViewAssumption
  <2>3. \A d, e \in Movables :
         d # e => ~Planner!Overlap(Planner!Over(plan, layout)[d], Planner!Over(plan, layout)[e])
    BY <1>1, <2>1, Planner!PlanKeepsApart, RackViewAssumption
  <2>. QED BY <2>2, <2>3, SamePlanner
<1>3. /\ moving \in DOMAIN plan /\ plan[moving] \in Planner!Slot /\ plan[moving].start >= 1
      /\ plan = Planner!Plan(layout, moving, plan[moving].rack, plan[moving].start)
  BY <1>1, Planner!PlanRepeats, RackViewAssumption
<1>. QED BY <1>2, <1>3, SamePlanner

LEMMA PlansTyped ==
  ASSUME NEW layout \in [Movables -> R!Slot], NEW moving \in Movables, NEW rack \in RackIds,
         NEW start \in Int
  PROVE  R!Plan(layout, moving, rack, start) \in Plans
<1>1. layout \in [Movables -> Planner!Slot] BY SamePlanner
<1>2. Planner!Plan(layout, moving, rack, start) \in UNION {[S -> Planner!Slot] : S \in SUBSET Movables}
  BY <1>1, Planner!PlanIsTyped, RackViewAssumption
<1>. QED BY <1>2, SamePlanner DEF Plans

Apart(slots) == \A d, e \in Movables : d # e => ~R!Overlap(slots[d], slots[e])
Standing(layout) == layout.slots \in [Movables -> R!Slot] /\ layout.at \in Nat /\ Apart(layout.slots)

(* A plan that was made when "at" moves had been seen: made again, on the  *)
(* rows or on what the browser read, if they have seen no other, it is the *)
(* same.                                                                   *)
MadeOn(slots, plan) ==
  plan.changes = R!Plan(slots, plan.moving, plan.changes[plan.moving].rack,
                        plan.changes[plan.moving].start)
IsMade(plan, standing, seen) ==
  /\ plan.changes # R!NoPlan /\ plan.moving \in Movables /\ plan.moving \in DOMAIN plan.changes
  /\ plan.changes[plan.moving] \in R!Slot /\ plan.changes[plan.moving].start >= 1
  /\ plan.at \in Nat /\ plan.at <= standing.at
  /\ plan.at = standing.at => MadeOn(standing.slots, plan)
  /\ plan.at = seen.at => MadeOn(seen.slots, plan)
Preview(k) == [moving |-> k.moving, changes |-> k.answer.changes, at |-> k.answer.at]

(* A confirmation asks for what was shown, until it is answered.           *)
CallFits(k, standing, seen, view) ==
  /\ k = [kind |-> k.kind, moving |-> k.moving, rack |-> k.rack, start |-> k.start,
          shown |-> k.shown, answer |-> k.answer]
  /\ k.moving \in Movables
  /\ k.answer = Unserved => k.rack \in RackIds /\ k.start \in Int
  /\ k.kind \in {"preview", "adjust"} =>
       view # Gallery
       /\ (k.answer # Unserved /\ k.answer.changes # R!NoPlan => IsMade(Preview(k), standing, seen))
  /\ k.kind \in {"confirm", "left"} =>
       IF k.answer = Unserved
         THEN /\ IsMade(k.shown, standing, seen) /\ k.shown.moving = k.moving
              /\ k.rack = k.shown.changes[k.moving].rack /\ k.start = k.shown.changes[k.moving].start
         ELSE k.answer.changes = k.shown.changes \/ k.answer.at # k.shown.at

RowsStand ==
  /\ Standing(stands) /\ Standing(shownRacks) /\ shownRacks.at <= stands.at
  /\ shownRacks.at = stands.at => shownRacks.slots = stands.slots
RacksInView == firstRack \in 0 .. LastStart /\ openedRack \in RackIds \cup {Gallery}
ProposalIsMade == proposal # NoProposal => openedRack # Gallery /\ IsMade(proposal, stands, shownRacks)
CallsFit ==
  /\ rackCalls = [c \in RackCalls |-> rackCalls[c]]
  /\ \A c \in RackCalls :
       rackCalls[c] # NoRackCall => CallFits(rackCalls[c], stands, shownRacks, openedRack)
RacksInv == RowsStand /\ RacksInView /\ ProposalIsMade /\ CallsFit

LEMMA RacksInvInit == RackViewInit => RacksInv
<1>. SUFFICES ASSUME RackViewInit PROVE RacksInv OBVIOUS
<1>. USE DEF RackViewInit
<1>1. Standing(stands) BY RackViewAssumption DEF Standing, Apart
<1>2. RowsStand BY <1>1 DEF RowsStand, Standing
<1>3. RacksInView
  <2>1. Len(RoomRacks) \in Nat BY RackViewAssumption
  <2>. QED BY <2>1, RackViewAssumption DEF RacksInView, LastStart
<1>. QED BY <1>2, <1>3 DEF RacksInv, ProposalIsMade, CallsFit

(* What was made stays made, when the rows move and when they are read.    *)
LEMMA MadeStaysMade ==
  ASSUME RowsStand,
         \/ UNCHANGED stands /\ shownRacks' \in {shownRacks, stands}
         \/ Standing(stands)' /\ stands'.at = stands.at + 1 /\ UNCHANGED shownRacks,
         NEW plan, IsMade(plan, stands, shownRacks)
  PROVE  IsMade(plan, stands', shownRacks')
<1>1. CASE UNCHANGED stands /\ shownRacks' \in {shownRacks, stands}
  BY <1>1 DEF IsMade
<1>2. CASE Standing(stands)' /\ stands'.at = stands.at + 1 /\ UNCHANGED shownRacks
  <2>1. plan.at \in Nat /\ plan.at <= stands.at /\ stands.at \in Nat BY DEF IsMade, RowsStand, Standing
  <2>2. plan.at <= stands'.at /\ plan.at # stands'.at BY <1>2, <2>1
  <2>. QED BY <1>2, <2>2 DEF IsMade
<1>. QED BY <1>1, <1>2

LEMMA CallsStayFit ==
  ASSUME RowsStand, NEW k,
         \/ UNCHANGED stands /\ shownRacks' \in {shownRacks, stands}
         \/ Standing(stands)' /\ stands'.at = stands.at + 1 /\ UNCHANGED shownRacks,
         CallFits(k, stands, shownRacks, openedRack)
  PROVE  /\ CallFits(k, stands', shownRacks', openedRack)
         /\ k.kind \notin {"preview", "adjust"} => \A view : CallFits(k, stands', shownRacks', view)
<1>1. \A plan : IsMade(plan, stands, shownRacks) => IsMade(plan, stands', shownRacks')
  BY MadeStaysMade
<1>. QED BY <1>1 DEF CallFits

LEMMA PlannedIsMade ==
  ASSUME RowsStand, NEW d \in Movables, NEW rack \in RackIds, NEW start \in Int,
         NEW plan, plan = Planned(d, rack, start)
  PROVE  /\ plan \in Plans
         /\ plan = R!NoPlan => CarriedOut(plan) = stands
         /\ plan # R!NoPlan =>
              /\ IsMade([moving |-> d, changes |-> plan, at |-> stands.at], stands, shownRacks)
              /\ Standing(CarriedOut(plan)) /\ CarriedOut(plan).at = stands.at + 1
<1>1. stands.slots \in [Movables -> R!Slot] /\ stands.at \in Nat /\ Apart(stands.slots)
  BY DEF RowsStand, Standing
<1>2. plan = R!NoPlan \/ plan = R!Plan(stands.slots, d, rack, start) BY DEF Planned
<1>3. R!NoPlan \in Plans
  <2>1. R!NoPlan \in [{} -> R!Slot] BY DEF R!NoPlan
  <2>. QED BY <2>1 DEF Plans
<1>4. plan \in Plans BY <1>1, <1>2, <1>3, PlansTyped
<1>5. ASSUME plan # R!NoPlan
      PROVE  /\ IsMade([moving |-> d, changes |-> plan, at |-> stands.at], stands, shownRacks)
             /\ Standing(CarriedOut(plan)) /\ CarriedOut(plan).at = stands.at + 1
  <2>1. plan = R!Plan(stands.slots, d, rack, start) BY <1>2, <1>5
  <2>2. /\ d \in DOMAIN plan /\ plan[d] \in R!Slot /\ plan[d].start >= 1
        /\ R!Over(plan, stands.slots) \in [Movables -> R!Slot]
        /\ Apart(R!Over(plan, stands.slots))
        /\ plan = R!Plan(stands.slots, d, plan[d].rack, plan[d].start)
    BY <1>1, <1>5, <2>1, PlansOfRacks DEF Apart
  <2>. DEFINE made == [moving |-> d, changes |-> plan, at |-> stands.at]
  <2>3. made.moving = d /\ made.changes = plan /\ made.at = stands.at OBVIOUS
  <2>. HIDE DEF made
  <2>4. MadeOn(stands.slots, made) BY <2>2, <2>3 DEF MadeOn
  <2>5. IsMade(made, stands, shownRacks)
    BY <1>1, <1>5, <2>2, <2>3, <2>4 DEF IsMade, RowsStand
  <2>6. CarriedOut(plan) = [slots |-> R!Over(plan, stands.slots), at |-> stands.at + 1]
    BY <1>5 DEF CarriedOut
  <2>7. Standing(CarriedOut(plan)) BY <1>1, <2>2, <2>6 DEF Standing
  <2>. QED BY <2>5, <2>6, <2>7 DEF made
<1>. QED BY <1>4, <1>5 DEF CarriedOut

LEMMA RacksInvKept == ASSUME RacksInv, RackViewNext PROVE RacksInv'
<1>1. /\ RowsStand /\ RacksInView /\ ProposalIsMade /\ CallsFit
      /\ stands.slots \in [Movables -> R!Slot] /\ shownRacks.slots \in [Movables -> R!Slot]
  BY DEF RacksInv, RowsStand, Standing
<1>2. LastStart \in Nat
  <2>1. Len(RoomRacks) \in Nat BY RackViewAssumption
  <2>. QED BY <2>1, RackViewAssumption DEF LastStart
(* What the page asks for: of a plan, or on behalf of one.                 *)
<1>3. ASSUME NEW c \in RackCalls, NEW kind \in {"preview", "adjust", "confirm", "move"},
             NEW d \in Movables, NEW rack \in RackIds, NEW start \in Int, AskPlace(c, kind, d, rack, start),
             kind \in {"preview", "adjust"} => openedRack # Gallery,
             kind = "confirm" =>
               /\ proposal # NoProposal /\ d = proposal.moving
               /\ rack = proposal.changes[d].rack /\ start = proposal.changes[d].start,
             UNCHANGED <<stands, shownRacks, openedRack, firstRack, proposal>>
      PROVE  RacksInv'
  <2>. DEFINE request == [kind |-> kind, moving |-> d, rack |-> rack, start |-> start,
                          shown |-> IF kind = "confirm" THEN proposal ELSE NoProposal,
                          answer |-> Unserved]
  <2>1. /\ request.kind = kind /\ request.moving = d /\ request.rack = rack /\ request.start = start
        /\ request.answer = Unserved /\ (kind = "confirm" => request.shown = proposal)
        /\ request = [kind |-> request.kind, moving |-> request.moving, rack |-> request.rack,
                      start |-> request.start, shown |-> request.shown, answer |-> request.answer]
    OBVIOUS
  <2>2. rackCalls' = [rackCalls EXCEPT ![c] = request] BY <1>3 DEF AskPlace
  <2>. HIDE DEF request
  <2>3. CallFits(request, stands, shownRacks, openedRack)
    <3>1. kind = "confirm" => IsMade(proposal, stands, shownRacks) BY <1>1, <1>3 DEF ProposalIsMade
    <3>. QED BY <1>3, <2>1, <3>1 DEF CallFits
  <2>4. CallsFit' BY <1>1, <1>3, <2>2, <2>3 DEF CallsFit
  <2>. QED BY <1>1, <1>3, <2>4 DEF RacksInv, RowsStand, Standing, RacksInView, ProposalIsMade
(* A call is answered: at most the browser reads the rows.                 *)
<1>4. ASSUME NEW c \in RackCalls, rackCalls' = [rackCalls EXCEPT ![c] = NoRackCall],
             UNCHANGED <<stands, openedRack, firstRack>>, shownRacks' \in {shownRacks, stands},
             ProposalIsMade'
      PROVE  RacksInv'
  <2>1. RowsStand' BY <1>1, <1>4 DEF RowsStand, Standing
  <2>2. ASSUME NEW e \in RackCalls, rackCalls'[e] # NoRackCall
        PROVE  CallFits(rackCalls'[e], stands', shownRacks', openedRack')
    <3>1. rackCalls'[e] = rackCalls[e] /\ CallFits(rackCalls[e], stands, shownRacks, openedRack)
      BY <1>1, <1>4, <2>2 DEF CallsFit
    <3>. QED BY <1>1, <1>4, <3>1, CallsStayFit
  <2>3. CallsFit' BY <1>1, <1>4, <2>2 DEF CallsFit
  <2>. QED BY <1>1, <1>4, <2>1, <2>3 DEF RacksInv, RacksInView
(* Somebody moves the rows.                                                *)
<1>5. ASSUME stands' = stands \/ (Standing(stands)' /\ stands'.at = stands.at + 1),
             UNCHANGED <<shownRacks, openedRack, firstRack, proposal>>
      PROVE  /\ RowsStand' /\ RacksInView' /\ ProposalIsMade'
             /\ \A k : CallFits(k, stands, shownRacks, openedRack)
                       => CallFits(k, stands', shownRacks', openedRack')
  <2>1. RowsStand'
    <3>1. stands.at \in Nat /\ shownRacks.at \in Nat BY <1>1 DEF RowsStand, Standing
    <3>2. CASE UNCHANGED stands BY <1>1, <1>5, <3>2 DEF RowsStand, Standing
    <3>3. CASE Standing(stands)' /\ stands'.at = stands.at + 1
      <4>1. shownRacks'.at <= stands'.at /\ shownRacks'.at # stands'.at
        BY <1>1, <1>5, <3>1, <3>3 DEF RowsStand
      <4>. QED BY <1>1, <1>5, <3>3, <4>1 DEF RowsStand, Standing
    <3>. QED BY <1>5, <3>2, <3>3
  <2>2. ProposalIsMade' BY <1>1, <1>5, MadeStaysMade DEF ProposalIsMade
  <2>3. \A k : CallFits(k, stands, shownRacks, openedRack)
               => CallFits(k, stands', shownRacks', openedRack')
    BY <1>1, <1>5, CallsStayFit
  <2>. QED BY <1>1, <1>5, <2>1, <2>2, <2>3 DEF RacksInView
(* Looking around, with the calls left alone.                              *)
<1>6. ASSUME UNCHANGED <<stands, shownRacks, rackCalls>>,
             openedRack' = openedRack \/ (openedRack = Gallery /\ openedRack' \in RackIds),
             firstRack' = firstRack \/ firstRack' \in 0 .. LastStart,
             proposal' = proposal \/ proposal' = NoProposal
      PROVE  RacksInv'
  <2>1. RowsStand' BY <1>1, <1>6 DEF RowsStand, Standing
  <2>2. RacksInView' BY <1>1, <1>6 DEF RacksInView
  <2>3. ProposalIsMade' BY <1>1, <1>6 DEF ProposalIsMade
  <2>4. \A k : CallFits(k, stands, shownRacks, openedRack)
               => CallFits(k, stands', shownRacks', openedRack')
    BY <1>6 DEF CallFits
  <2>5. CallsFit' BY <1>1, <1>6, <2>4 DEF CallsFit
  <2>. QED BY <2>1, <2>2, <2>3, <2>5 DEF RacksInv
<1>7. ASSUME NEW d \in Movables, NEW rack \in RackIds, NEW u \in DropStarts(d, rack) \cup ArrowStarts(d)
      PROVE  u \in Int
  <2>1. shownRacks.slots[d].start \in Int /\ shownRacks.slots[d].size \in Int BY <1>1 DEF R!Slot
  <2>2. RackHeights[rack] \in Int BY RackViewAssumption
  <2>3. \A p, o \in Int : Landing(RackHeights[rack], shownRacks.slots[d].size, p, o) \in Int
    BY <2>1, <2>2 DEF Landing
  <2>4. CASE u \in DropStarts(d, rack) BY <2>3, <2>4 DEF DropStarts
  <2>5. CASE u \in ArrowStarts(d) BY <2>1, <2>5 DEF ArrowStarts
  <2>. QED BY <2>4, <2>5
<1>8. ASSUME NEW r \in RackIds, OpenRackView(r) PROVE RacksInv'
  BY <1>6, <1>8 DEF OpenRackView
<1>9. ASSUME LeaveRackView PROVE RacksInv'
  <2>1. RowsStand' BY <1>1, <1>9 DEF RowsStand, Standing, LeaveRackView
  <2>2. RacksInView' /\ ProposalIsMade' BY <1>1, <1>9 DEF RacksInView, ProposalIsMade, LeaveRackView
  <2>3. \A k : CallFits(k, stands, shownRacks, openedRack) /\ k.kind \notin {"preview", "adjust"}
               => CallFits(k, stands, shownRacks, openedRack')
    BY DEF CallFits
  <2>4. ASSUME NEW c \in RackCalls, rackCalls'[c] # NoRackCall
        PROVE  CallFits(rackCalls'[c], stands', shownRacks', openedRack')
    <3>1. /\ rackCalls[c] # NoRackCall /\ rackCalls[c].kind \notin {"preview", "adjust"}
          /\ rackCalls'[c] = IF rackCalls[c].kind = "confirm" THEN [rackCalls[c] EXCEPT !.kind = "left"]
                             ELSE rackCalls[c]
          /\ UNCHANGED <<stands, shownRacks>>
      BY <1>9, <2>4 DEF LeaveRackView
    <3>2. CallFits(rackCalls[c], stands, shownRacks, openedRack') BY <1>1, <2>3, <3>1 DEF CallsFit
    <3>. QED BY <3>1, <3>2 DEF CallFits
  <2>5. CallsFit' BY <1>9, <2>4 DEF CallsFit, LeaveRackView
  <2>. QED BY <2>1, <2>2, <2>5 DEF RacksInv
<1>10. CASE TurnPage BY <1>6, <1>10 DEF TurnPage
<1>11. CASE StartReordering BY <1>2, <1>6, <1>11 DEF StartReordering
<1>12. CASE FinishReordering BY <1>6, <1>12 DEF FinishReordering
<1>13. CASE StartCorrecting BY <1>6, <1>13 DEF StartCorrecting
<1>14. CASE CancelPlan BY <1>6, <1>14 DEF CancelPlan
<1>15. CASE OthersPlace
  <2>1. PICK d \in Movables, r \in RackIds : \E u \in 1 .. RackHeights[r] :
          stands' = CarriedOut(Planned(d, r, u))
    BY <1>15 DEF OthersPlace
  <2>2. PICK u \in Int : stands' = CarriedOut(Planned(d, r, u)) BY <2>1
  <2>3. stands' = stands \/ (Standing(stands)' /\ stands'.at = stands.at + 1)
    <3>. DEFINE plan == Planned(d, r, u)
    <3>1. CASE plan = R!NoPlan BY <1>1, <2>2, <3>1, PlannedIsMade
    <3>2. CASE plan # R!NoPlan
      <4>1. Standing(CarriedOut(plan)) /\ CarriedOut(plan).at = stands.at + 1
        BY <1>1, <3>2, PlannedIsMade
      <4>. QED BY <2>2, <4>1 DEF Standing
    <3>. QED BY <3>1, <3>2
  <2>4. UNCHANGED <<shownRacks, openedRack, firstRack, proposal, rackCalls>> BY <1>15 DEF OthersPlace
  <2>5. RowsStand' /\ RacksInView' /\ ProposalIsMade' BY <1>5, <2>3, <2>4
  <2>6. CallsFit' BY <1>1, <1>5, <2>3, <2>4 DEF CallsFit
  <2>. QED BY <2>5, <2>6 DEF RacksInv
<1>16. CASE ReadRacks
  <2>1. UNCHANGED <<stands, openedRack, firstRack, proposal, rackCalls>> /\ shownRacks' = stands
    BY <1>16 DEF ReadRacks
  <2>2. RowsStand' BY <1>1, <2>1 DEF RowsStand, Standing
  <2>3. ProposalIsMade' BY <1>1, <2>1, MadeStaysMade DEF ProposalIsMade
  <2>4. \A k : CallFits(k, stands, shownRacks, openedRack)
               => CallFits(k, stands', shownRacks', openedRack')
    BY <1>1, <2>1, CallsStayFit
  <2>5. CallsFit' BY <1>1, <2>1, <2>4 DEF CallsFit
  <2>. QED BY <1>1, <2>1, <2>2, <2>3, <2>5 DEF RacksInv, RacksInView
<1>17. ASSUME NEW c \in RackCalls, DropInView(c) PROVE RacksInv'
  <2>1. PICK d \in PlacedIn(shownRacks.slots, openedRack) :
          \E u \in DropStarts(d, openedRack) \cup ArrowStarts(d) : AskPlace(c, "preview", d, openedRack, u)
    BY <1>17 DEF DropInView
  <2>2. d \in Movables /\ openedRack \in RackIds /\ openedRack # Gallery
    BY <1>1, <1>17 DEF PlacedIn, DropInView, RacksInView
  <2>3. PICK u \in Int : AskPlace(c, "preview", d, openedRack, u) BY <1>7, <2>1, <2>2
  <2>. QED BY <1>3, <1>17, <2>2, <2>3 DEF DropInView
<1>18. ASSUME NEW c \in RackCalls, AdjustUnit(c) PROVE RacksInv'
  <2>1. proposal.moving \in Movables /\ openedRack \in RackIds /\ openedRack # Gallery
    BY <1>1, <1>18 DEF AdjustUnit, ProposalIsMade, IsMade, RacksInView
  <2>2. PICK u \in Int : AskPlace(c, "adjust", proposal.moving, openedRack, u) BY <1>18 DEF AdjustUnit
  <2>. QED BY <1>3, <1>18, <2>1, <2>2 DEF AdjustUnit
<1>19. ASSUME NEW c \in RackCalls, ConfirmPlan(c) PROVE RacksInv'
  <2>. DEFINE target == proposal.changes[proposal.moving]
  <2>1. /\ proposal # NoProposal /\ AskPlace(c, "confirm", proposal.moving, target.rack, target.start)
        /\ UNCHANGED <<stands, shownRacks, openedRack, firstRack, proposal>>
    BY <1>19 DEF ConfirmPlan
  <2>2. proposal.moving \in Movables /\ target.rack \in RackIds /\ target.start \in Int
    BY <1>1, <2>1 DEF ProposalIsMade, IsMade, R!Slot
  <2>. QED BY <1>3, <2>1, <2>2
<1>20. ASSUME NEW c \in RackCalls, MoveInGallery(c) PROVE RacksInv'
  <2>1. UNCHANGED <<stands, shownRacks, openedRack, firstRack, proposal>> BY <1>20 DEF MoveInGallery
  <2>2. \A i \in DOMAIN RoomRacks : RoomRacks[i] \in RackIds BY DEF RackIds
  <2>8. PICK i \in DOMAIN RoomRacks :
          \E d \in PlacedIn(shownRacks.slots, RoomRacks[i]) :
            \/ \E r \in RackIds : \E u \in DropStarts(d, r) : AskPlace(c, "move", d, r, u)
            \/ \E u \in ArrowStarts(d) : AskPlace(c, "move", d, RoomRacks[i], u)
            \/ \E j \in {i - 1, i + 1} \cap DOMAIN RoomRacks :
                 AskPlace(c, "move", d, RoomRacks[j], shownRacks.slots[d].start)
    BY <1>20 DEF MoveInGallery
  <2>3. PICK d \in PlacedIn(shownRacks.slots, RoomRacks[i]) :
          \/ \E r \in RackIds : \E u \in DropStarts(d, r) : AskPlace(c, "move", d, r, u)
          \/ \E u \in ArrowStarts(d) : AskPlace(c, "move", d, RoomRacks[i], u)
          \/ \E j \in {i - 1, i + 1} \cap DOMAIN RoomRacks :
               AskPlace(c, "move", d, RoomRacks[j], shownRacks.slots[d].start)
    BY <2>8
  <2>4. d \in Movables BY DEF PlacedIn
  <2>5. CASE \E r \in RackIds : \E u \in DropStarts(d, r) : AskPlace(c, "move", d, r, u)
    BY <1>3, <1>7, <2>1, <2>4, <2>5
  <2>6. CASE \E u \in ArrowStarts(d) : AskPlace(c, "move", d, RoomRacks[i], u)
    BY <1>3, <1>7, <2>1, <2>2, <2>4, <2>6
  <2>7. CASE \E j \in {i - 1, i + 1} \cap DOMAIN RoomRacks :
               AskPlace(c, "move", d, RoomRacks[j], shownRacks.slots[d].start)
    <3>1. shownRacks.slots[d].start \in Int BY <1>1, <2>4 DEF R!Slot
    <3>. QED BY <1>3, <2>1, <2>2, <2>4, <2>7, <3>1
  <2>. QED BY <2>3, <2>5, <2>6, <2>7
<1>21. ASSUME NEW c \in RackCalls, ServePlace(c) PROVE RacksInv'
  <2>. DEFINE k == rackCalls[c]
              plan == Planned(k.moving, k.rack, k.start)
              reply == [changes |-> plan, at |-> stands.at]
              served == [k EXCEPT !.answer = reply, !.rack = Gallery, !.start = 0]
  <2>1. /\ k # NoRackCall /\ k.answer = Unserved
        /\ rackCalls' = [rackCalls EXCEPT ![c].answer = reply, ![c].rack = Gallery, ![c].start = 0]
        /\ stands' = IF k.kind \in {"preview", "adjust"} THEN stands ELSE CarriedOut(plan)
        /\ UNCHANGED <<shownRacks, openedRack, firstRack, proposal>>
    BY <1>21 DEF ServePlace
  <2>2. /\ k.moving \in Movables /\ k.rack \in RackIds /\ k.start \in Int
        /\ CallFits(k, stands, shownRacks, openedRack)
    BY <1>1, <2>1 DEF CallsFit, CallFits
  <2>3. /\ plan \in Plans
        /\ plan = R!NoPlan => CarriedOut(plan) = stands
        /\ plan # R!NoPlan =>
             /\ IsMade([moving |-> k.moving, changes |-> plan, at |-> stands.at], stands, shownRacks)
             /\ Standing(CarriedOut(plan)) /\ CarriedOut(plan).at = stands.at + 1
    BY <1>1, <2>2, PlannedIsMade
  <2>4. rackCalls' = [rackCalls EXCEPT ![c] = served] BY <1>1, <2>1 DEF CallsFit
  <2>5. /\ served.kind = k.kind /\ served.moving = k.moving /\ served.shown = k.shown
        /\ served.answer = reply /\ reply.changes = plan /\ reply.at = stands.at
        /\ served = [kind |-> k.kind, moving |-> k.moving, rack |-> Gallery, start |-> 0,
                     shown |-> k.shown, answer |-> reply]
    <3>5. reply.changes = plan /\ reply.at = stands.at OBVIOUS
    <3>. HIDE DEF k, plan, reply
    <3>1. k \in [kind : {k.kind}, moving : {k.moving}, rack : {k.rack, Gallery}, start : {k.start, 0},
                 shown : {k.shown}, answer : {k.answer, reply}]
      BY <2>2 DEF CallFits
    <3>2. /\ served \in [kind : {k.kind}, moving : {k.moving}, rack : {k.rack, Gallery},
                         start : {k.start, 0}, shown : {k.shown}, answer : {k.answer, reply}]
          /\ served.rack = Gallery /\ served.start = 0 /\ served.answer = reply
      BY <3>1
    <3>3. served.kind = k.kind /\ served.moving = k.moving /\ served.shown = k.shown
      BY <3>1
    <3>4. served = [kind |-> k.kind, moving |-> k.moving, rack |-> Gallery, start |-> 0,
                    shown |-> k.shown, answer |-> reply]
      <4>. HIDE DEF served
      <4>. QED BY <3>2, <3>3
    <3>. HIDE DEF served
    <3>. QED BY <3>4, <3>5
  <2>6. reply # Unserved
    <3>1. stands.at \in Nat BY <1>1 DEF RowsStand, Standing
    <3>. QED BY <2>3, <3>1, RackViewAssumption
  <2>7. stands' = stands \/ (Standing(stands)' /\ stands'.at = stands.at + 1)
    <3>1. CASE stands' = CarriedOut(plan) /\ plan # R!NoPlan
      <4>1. Standing(CarriedOut(plan)) /\ CarriedOut(plan).at = stands.at + 1 BY <2>3, <3>1
      <4>. QED BY <3>1, <4>1 DEF Standing
    <3>2. CASE stands' = stands \/ plan = R!NoPlan BY <2>1, <2>3, <3>2
    <3>. QED BY <2>1, <3>1, <3>2
  <2>. HIDE DEF plan, reply, served
  <2>8. RowsStand' /\ RacksInView' /\ ProposalIsMade' BY <1>5, <2>1, <2>7
  <2>9. CallFits(served, stands', shownRacks', openedRack')
    <3>1. CASE k.kind \in {"preview", "adjust"}
      <4>1. Preview(served) = [moving |-> k.moving, changes |-> plan, at |-> stands.at]
        BY <2>5 DEF Preview
      <4>2. stands' = stands BY <2>1, <3>1
      <4>3. openedRack # Gallery BY <2>2, <3>1 DEF CallFits
      <4>4. k.kind \notin {"confirm", "left"} BY <3>1
      <4>. QED BY <2>1, <2>2, <2>3, <2>5, <2>6, <4>1, <4>2, <4>3, <4>4 DEF CallFits
    <3>2. CASE k.kind \in {"confirm", "left"}
      <4>1. /\ IsMade(k.shown, stands, shownRacks) /\ k.shown.moving = k.moving
            /\ k.rack = k.shown.changes[k.moving].rack /\ k.start = k.shown.changes[k.moving].start
        BY <2>1, <2>2, <3>2 DEF CallFits
      <4>2. plan = R!Plan(stands.slots, k.moving, k.rack, k.start)
        <5>1. k.start >= 1 BY <4>1 DEF IsMade
        <5>. QED BY <2>2, <5>1 DEF Planned, plan
      <4>3. stands.at = k.shown.at => plan = k.shown.changes BY <4>1, <4>2 DEF IsMade, MadeOn
      <4>4. k.kind \notin {"preview", "adjust"} BY <3>2
      <4>. QED BY <2>2, <2>5, <2>6, <4>3, <4>4 DEF CallFits
    <3>3. CASE k.kind \notin {"preview", "adjust", "confirm", "left"}
      BY <2>2, <2>5, <2>6, <3>3 DEF CallFits
    <3>. QED BY <3>1, <3>2, <3>3
  <2>10. \A e : CallFits(e, stands, shownRacks, openedRack)
                => CallFits(e, stands', shownRacks', openedRack')
    BY <1>5, <2>1, <2>7
  <2>. HIDE DEF k
  <2>11. CallsFit' BY <1>1, <2>4, <2>9, <2>10 DEF CallsFit
  <2>. QED BY <2>8, <2>11 DEF RacksInv
(* What an answer draws was made on the rows of its time.                  *)
<1>22. ASSUME NEW c \in RackCalls, Served(c), rackCalls[c].kind \in {"preview", "adjust"},
              ~RefusedPlace(c)
       PROVE  openedRack # Gallery /\ IsMade(Preview(rackCalls[c]), stands, shownRacks)
  BY <1>1, <1>22 DEF CallsFit, CallFits, Served, RefusedPlace
<1>23. ASSUME NEW c \in RackCalls, PreviewAnswers(c) PROVE RacksInv'
  <2>1. ProposalIsMade'
    BY <1>22, <1>23 DEF PreviewAnswers, ProposalIsMade, Preview
  <2>. QED BY <1>4, <1>23, <2>1 DEF PreviewAnswers
<1>24. ASSUME NEW c \in RackCalls, AdjustAnswers(c) PROVE RacksInv'
  <2>1. ProposalIsMade'
    BY <1>1, <1>22, <1>24 DEF AdjustAnswers, ProposalIsMade, Preview
  <2>. QED BY <1>4, <1>24, <2>1 DEF AdjustAnswers
<1>25. ASSUME NEW c \in RackCalls, PlaceAnswers(c) PROVE RacksInv'
  <2>1. /\ shownRacks' \in {shownRacks, stands} /\ proposal' \in {NoProposal, proposal}
        /\ UNCHANGED <<stands, openedRack>>
    BY <1>25 DEF PlaceAnswers
  <2>2. ProposalIsMade' BY <1>1, <2>1, MadeStaysMade DEF ProposalIsMade
  <2>. QED BY <1>4, <1>25, <2>1, <2>2 DEF PlaceAnswers
<1>. QED
  BY <1>8, <1>9, <1>10, <1>11, <1>12, <1>13, <1>14, <1>15, <1>16, <1>17, <1>18, <1>19, <1>20, <1>21,
     <1>23, <1>24, <1>25 DEF RackViewNext

\* The gallery shows a rack, and the view of one the plans made for it; a
\* picture is in order, and is what its confirmation carries out, unless rows
\* were read or moved in between; and a device let go where it was taken stays
\* there (the part of PagesHangTogether on the racks of a room).
THEOREM PicturesAreCarriedOut ==
  RackViewInit /\ [][RackViewNext]_rackViewVars
    => [](RackViewTypeOK /\ PictureIsInOrder /\ PlacedAsShown /\ LetGoWhereTaken)
<1>1. RacksInv /\ UNCHANGED rackViewVars => RacksInv'
  BY DEF RacksInv, rackViewVars, RowsStand, Standing, RacksInView, ProposalIsMade, CallsFit
<1>2. RacksInv => RackViewTypeOK
  <2>. SUFFICES ASSUME RacksInv PROVE RackViewTypeOK OBVIOUS
  <2>1. Len(RoomRacks) \in Nat /\ DOMAIN RoomRacks = 1 .. Len(RoomRacks) /\ Len(RoomRacks) >= 1
    BY RackViewAssumption
  <2>2. RoomRacks[1] \in RackIds BY <2>1 DEF RackIds
  <2>3. firstRack + 1 \in (firstRack + 1 .. firstRack + PerPage) \cap DOMAIN RoomRacks
    BY <2>1, RackViewAssumption DEF RacksInv, RacksInView, LastStart
  <2>4. VisibleRacks # {} BY <2>2, <2>3 DEF VisibleRacks
  <2>. QED BY <2>4 DEF RackViewTypeOK, RacksInv, ProposalIsMade, IsMade
<1>3. RacksInv => PictureIsInOrder
  <2>. SUFFICES ASSUME RacksInv, proposal # NoProposal => proposal.at = shownRacks.at
                PROVE  Apart(Displayed)
    BY DEF PictureIsInOrder, Apart
  <2>1. shownRacks.slots \in [Movables -> R!Slot] /\ Apart(shownRacks.slots)
    BY DEF RacksInv, RowsStand, Standing
  <2>2. CASE proposal = NoProposal BY <2>1, <2>2 DEF Displayed
  <2>3. CASE proposal # NoProposal
    <3>. DEFINE target == proposal.changes[proposal.moving]
    <3>1. /\ proposal.changes # R!NoPlan /\ proposal.moving \in Movables
          /\ target.rack \in RackIds /\ target.start \in Int
          /\ proposal.changes = R!Plan(shownRacks.slots, proposal.moving, target.rack, target.start)
      BY <2>3 DEF RacksInv, ProposalIsMade, IsMade, MadeOn, R!Slot
    <3>2. Apart(R!Over(proposal.changes, shownRacks.slots)) BY <2>1, <3>1, PlansOfRacks DEF Apart
    <3>. QED BY <2>3, <3>2 DEF Displayed
  <2>. QED BY <2>2, <2>3
<1>4. RacksInv => PlacedAsShown
  BY DEF RacksInv, CallsFit, CallFits, PlacedAsShown, Served
<1>5. RacksInv => LetGoWhereTaken
  <2>. SUFFICES ASSUME RacksInv, NEW d \in PlacedIn(shownRacks.slots, openedRack),
                       NEW o \in 0 .. shownRacks.slots[d].size - 1
                PROVE  LET s == shownRacks.slots[d]
                       IN Landing(RackHeights[s.rack], s.size, R!Top(s) - o, o) = s.start
    BY DEF LetGoWhereTaken
  <2>. DEFINE s == shownRacks.slots[d]
  <2>1. s \in R!Slot /\ s.start >= 1 /\ R!Top(s) <= RackHeights[s.rack]
    BY DEF RacksInv, RowsStand, Standing, PlacedIn, R!Fits
  <2>2. s.start \in Int /\ s.size \in Int /\ s.rack \in RackIds BY <2>1 DEF R!Slot
  <2>3. RackHeights[s.rack] \in Int BY <2>2, RackViewAssumption
  <2>4. o \in Int OBVIOUS
  <2>. HIDE DEF s
  <2>. QED BY <2>1, <2>2, <2>3, <2>4 DEF Landing, R!Top, s
<1>6. RacksInv /\ [RackViewNext]_rackViewVars => RacksInv' BY <1>1, RacksInvKept
<1>. QED BY <1>2, <1>3, <1>4, <1>5, <1>6, RacksInvInit, PTL

-----------------------------------------------------------------------------
(* The ports drawn on a model (PortLayouts) *)

(* What is drawn and not loose lies on the image; what is saved always     *)
(* does, and is of its model unless it is stray.                           *)
OnImage(D) == ~D.loose => \A i \in DOMAIN D.ports : Fits(D.ports[i])
Measured(port) == port.size >= 1 /\ port.at \in 0 .. Full
InImage(D) == \A i \in DOMAIN D.ports : Measured(D.ports[i])
OwnedBy(D, m) == ~D.stray => D.of = m
PortHandler ==
  [kind : {"open", "detect", "confirm"}, model : LayoutModels, sent : Drawings \cup {NoDrawing}]
WillSave(c) ==
  /\ c \in PortHandler
  /\ c.kind = "confirm" =>
       IsDrawing(c.sent) /\ OnImage(c.sent) /\ InImage(c.sent) /\ OwnedBy(c.sent, c.model)
HandlersWillSave ==
  /\ portCalls = [q \in PortCalls |-> portCalls[q]]
  /\ \A q \in PortCalls : portCalls[q] # NoPortCall => WillSave(portCalls[q])
DrawnWell ==
  /\ drawing # NoDrawing => OnImage(drawing)
  /\ dialogOf # NoModel => OwnedBy(drawing, dialogOf)
SavedWell ==
  /\ savedLayouts = [m \in LayoutModels |-> savedLayouts[m]]
  /\ \A m \in LayoutModels :
       savedLayouts[m] # NoDrawing =>
         OnImage(savedLayouts[m]) /\ InImage(savedLayouts[m]) /\ OwnedBy(savedLayouts[m], m)
PortsInv == LayoutsTypeOK /\ HandlersWillSave /\ DrawnWell /\ SavedWell

LEMMA QuotientBounds ==
  ASSUME NEW a \in Nat, NEW b \in Nat, b > 0
  PROVE  /\ a \div b \in Nat
         /\ a >= b => a \div b >= 1
         /\ \A c \in Nat : a <= b * c => a \div b <= c
<1>1. a \div b \in Nat OBVIOUS
<1>2. ASSUME a >= b PROVE a \div b >= 1 BY <1>2
<1>3. ASSUME NEW c \in Nat, a <= b * c PROVE a \div b <= c BY <1>3
<1>. QED BY <1>1, <1>2, <1>3

LEMMA NewPortFits == NewPort \in PortRows /\ Fits(NewPort) /\ Measured(NewPort)
<1>. DEFINE at == Full \div 20
            size == Full \div 50
<1>1. at \in Int /\ size \in Int /\ size >= 1 /\ at >= 0 /\ at + size <= Full
  BY LayoutAssumption
<1>2. NewPort = [at |-> at, size |-> size] BY DEF NewPort
<1>. HIDE DEF at, size
<1>3. NewPort.at = at /\ NewPort.size = size /\ NewPort \in PortRows BY <1>1, <1>2 DEF PortRows
<1>. QED BY <1>1, <1>3, LayoutAssumption DEF Fits, Measured

LEMMA PulledFits ==
  ASSUME NEW port \in PortRows, NEW was \in PortRows, NEW d \in Int
  PROVE  /\ [port EXCEPT !.at = MovedBy(was, d)] \in PortRows
         /\ [port EXCEPT !.size = SizedBy(was, d)] \in PortRows
         /\ Fits(port) /\ port.size = was.size => Fits([port EXCEPT !.at = MovedBy(was, d)])
         /\ Fits(port) /\ port.at = was.at => Fits([port EXCEPT !.size = SizedBy(was, d)])
<1>. DEFINE a == MovedBy(was, d)
            s == SizedBy(was, d)
<1>1. /\ port.at \in Int /\ port.size \in Int /\ was.at \in Int /\ was.size \in Int /\ Full \in Nat
  BY LayoutAssumption DEF PortRows
<1>2. a \in Int /\ s \in Int BY <1>1 DEF MovedBy, SizedBy, Most, Least
<1>3. was.size <= Full => a >= 0 /\ a + was.size <= Full BY <1>1 DEF MovedBy, Most, Least
<1>4. was.at < Full => s >= 1 /\ was.at + s <= Full BY <1>1 DEF SizedBy, Most, Least
<1>. HIDE DEF a, s
<1>5. /\ [port EXCEPT !.at = a] \in PortRows /\ [port EXCEPT !.at = a].at = a
      /\ [port EXCEPT !.at = a].size = port.size
      /\ [port EXCEPT !.size = s] \in PortRows /\ [port EXCEPT !.size = s].size = s
      /\ [port EXCEPT !.size = s].at = port.at
  BY <1>2 DEF PortRows
<1>6. Fits(port) => port.at >= 0 /\ port.size >= 1 /\ port.at + port.size <= Full BY DEF Fits
<1>7. ASSUME Fits(port), port.size = was.size PROVE Fits([port EXCEPT !.at = a])
  BY <1>1, <1>2, <1>3, <1>5, <1>6, <1>7 DEF Fits
<1>8. ASSUME Fits(port), port.at = was.at PROVE Fits([port EXCEPT !.size = s])
  BY <1>1, <1>2, <1>4, <1>5, <1>6, <1>8 DEF Fits
<1>. QED BY <1>5, <1>7, <1>8 DEF a, s

LEMMA NudgedFits ==
  ASSUME NEW port \in PortRows, NEW key \in {"left", "right", "altLeft", "altRight"},
         NEW amount \in Nat
  PROVE  Nudged(port, key, amount) \in PortRows /\ (Fits(port) => Fits(Nudged(port, key, amount)))
<1>1. port.at \in Int /\ port.size \in Int /\ Full \in Nat BY LayoutAssumption DEF PortRows
<1>2. Fits(port) => port.at >= 0 /\ port.size >= 1 /\ port.at + port.size <= Full BY DEF Fits
<1>9. amount \in Int /\ amount >= 0 OBVIOUS
<1>3. ASSUME NEW a \in Int, Fits(port) => a >= 0 /\ a + port.size <= Full,
             Nudged(port, key, amount) = [port EXCEPT !.at = a]
      PROVE  Nudged(port, key, amount) \in PortRows /\ (Fits(port) => Fits(Nudged(port, key, amount)))
  <2>1. /\ [port EXCEPT !.at = a] \in PortRows /\ [port EXCEPT !.at = a].at = a
        /\ [port EXCEPT !.at = a].size = port.size
    BY DEF PortRows
  <2>. QED BY <1>2, <1>3, <2>1 DEF Fits
<1>4. ASSUME NEW s \in Int, Fits(port) => s >= 1 /\ port.at + s <= Full,
             Nudged(port, key, amount) = [port EXCEPT !.size = s]
      PROVE  Nudged(port, key, amount) \in PortRows /\ (Fits(port) => Fits(Nudged(port, key, amount)))
  <2>1. /\ [port EXCEPT !.size = s] \in PortRows /\ [port EXCEPT !.size = s].size = s
        /\ [port EXCEPT !.size = s].at = port.at
    BY DEF PortRows
  <2>. QED BY <1>2, <1>4, <2>1 DEF Fits
<1>5. CASE key = "left"
  <2>. DEFINE a == Most(0, port.at - amount)
  <2>3. a \in Int BY <1>1, <1>9 DEF Most
  <2>4. ASSUME Fits(port) PROVE a >= 0 /\ a + port.size <= Full BY <1>1, <1>2, <1>9, <2>4 DEF Most
  <2>1. a \in Int /\ (Fits(port) => a >= 0 /\ a + port.size <= Full) BY <2>3, <2>4
  <2>2. Nudged(port, key, amount) = [port EXCEPT !.at = a] BY <1>5 DEF Nudged
  <2>. HIDE DEF a
  <2>. QED BY <1>3, <2>1, <2>2
<1>6. CASE key = "right"
  <2>. DEFINE a == Least(Full - port.size, port.at + amount)
  <2>3. a \in Int BY <1>1, <1>9 DEF Least
  <2>4. ASSUME Fits(port) PROVE a >= 0 /\ a + port.size <= Full BY <1>1, <1>2, <1>9, <2>4 DEF Least
  <2>1. a \in Int /\ (Fits(port) => a >= 0 /\ a + port.size <= Full) BY <2>3, <2>4
  <2>2. Nudged(port, key, amount) = [port EXCEPT !.at = a] BY <1>6 DEF Nudged
  <2>. HIDE DEF a
  <2>. QED BY <1>3, <2>1, <2>2
<1>7. CASE key = "altLeft"
  <2>. DEFINE s == Most(1, port.size - amount)
  <2>3. s \in Int BY <1>1, <1>9 DEF Most
  <2>4. ASSUME Fits(port) PROVE s >= 1 /\ port.at + s <= Full BY <1>1, <1>2, <1>9, <2>4 DEF Most
  <2>1. s \in Int /\ (Fits(port) => s >= 1 /\ port.at + s <= Full) BY <2>3, <2>4
  <2>2. Nudged(port, key, amount) = [port EXCEPT !.size = s] BY <1>7 DEF Nudged
  <2>. HIDE DEF s
  <2>. QED BY <1>4, <2>1, <2>2
<1>8. CASE key = "altRight"
  <2>. DEFINE s == Least(Full - port.at, port.size + amount)
  <2>3. s \in Int BY <1>1, <1>9 DEF Least
  <2>4. ASSUME Fits(port) PROVE s >= 1 /\ port.at + s <= Full BY <1>1, <1>2, <1>9, <2>4 DEF Least
  <2>1. s \in Int /\ (Fits(port) => s >= 1 /\ port.at + s <= Full) BY <2>3, <2>4
  <2>2. Nudged(port, key, amount) = [port EXCEPT !.size = s] BY <1>8 DEF Nudged
  <2>. HIDE DEF s
  <2>. QED BY <1>4, <2>1, <2>2
<1>. QED BY <1>5, <1>6, <1>7, <1>8

LEMMA GridsLieOnImage ==
  ASSUME NEW n \in 1 .. MaxPorts
  PROVE  /\ DetectedGrid(n) \in Seq(PortRows) /\ Len(DetectedGrid(n)) = n
         /\ \A i \in DOMAIN DetectedGrid(n) : Measured(DetectedGrid(n)[i])
         /\ CompactGrid(n) \in Seq(PortRows) /\ Len(CompactGrid(n)) = n
<1>. DEFINE size == (62 * Full) \div (100 * n)
            at(i) == ((2 * i - 1) * Full) \div (2 * n)
            apart(i) == ((2 * i - 1) * 78 * Full) \div (200 * n)
            margin == (11 * Full) \div 100
<1>1. n \in Nat /\ n >= 1 /\ n <= MaxPorts /\ Full \in Nat /\ MaxPorts \in Nat
      /\ 62 * Full >= 100 * MaxPorts
  BY LayoutAssumption
<1>2. size \in Nat /\ size >= 1
  <2>1. 62 * Full \in Nat /\ 100 * n \in Nat /\ 100 * n > 0 /\ 62 * Full >= 100 * n BY <1>1
  <2>. QED BY <2>1, QuotientBounds
<1>3. \A i \in 1 .. n : at(i) \in Nat /\ at(i) <= Full
  <2>. TAKE i \in 1 .. n
  <2>1. 2 * n \in Nat /\ 2 * n > 0 /\ (2 * i - 1) * Full \in Nat /\ (2 * i - 1) * Full <= (2 * n) * Full
    BY <1>1
  <2>. QED BY <1>1, <2>1, QuotientBounds
<1>4. \A i \in 1 .. n : apart(i) \in Nat
  <2>. TAKE i \in 1 .. n
  <2>1. 200 * n \in Nat /\ 200 * n > 0 BY <1>1
  <2>2. 2 * i - 1 \in Nat /\ (2 * i - 1) * 78 \in Nat BY <1>1
  <2>3. (2 * i - 1) * 78 * Full \in Nat BY <1>1, <2>2
  <2>. QED BY <2>1, <2>3, QuotientBounds
<1>5. margin \in Nat BY <1>1
<1>6. DetectedGrid(n) = [i \in 1 .. n |-> [at |-> at(i), size |-> size]] BY DEF DetectedGrid
<1>7. CompactGrid(n) = [i \in 1 .. n |-> [at |-> margin + apart(i), size |-> size]] BY DEF CompactGrid
<1>. HIDE DEF size, at, apart, margin
<1>8. \A i \in 1 .. n : [at |-> at(i), size |-> size] \in PortRows BY <1>2, <1>3 DEF PortRows
<1>9. \A i \in 1 .. n : [at |-> margin + apart(i), size |-> size] \in PortRows
  BY <1>2, <1>4, <1>5 DEF PortRows
<1>10. DetectedGrid(n) \in Seq(PortRows) /\ Len(DetectedGrid(n)) = n
  BY <1>1, <1>6, <1>8
<1>11. CompactGrid(n) \in Seq(PortRows) /\ Len(CompactGrid(n)) = n
  BY <1>1, <1>7, <1>9
<1>12. ASSUME NEW i \in DOMAIN DetectedGrid(n) PROVE Measured(DetectedGrid(n)[i])
  <2>1. i \in 1 .. n /\ DetectedGrid(n)[i] = [at |-> at(i), size |-> size] BY <1>6, <1>12
  <2>. QED BY <1>1, <1>2, <1>3, <2>1 DEF Measured
<1>. QED BY <1>10, <1>11, <1>12

LEMMA ClampedLiesOnImage ==
  ASSUME NEW port \in PortRows
  PROVE  Clamped(port) \in PortRows /\ Measured(Clamped(port)) /\ (Fits(port) => Fits(Clamped(port)))
<1>. DEFINE given == IF port.size = 0 THEN (3 * Full) \div 100 ELSE port.size
            at == Most(0, Least(Full, port.at))
            size == Most(1, Least(Full, given))
<1>1. port.at \in Int /\ port.size \in Int /\ Full \in Nat /\ Full >= 50 BY LayoutAssumption DEF PortRows
<1>2. given \in Int /\ (port.size # 0 => given = port.size) BY <1>1
<1>. HIDE DEF given
<1>3. at \in 0 .. Full /\ at \in Int BY <1>1 DEF Most, Least
<1>4. size \in Int /\ size >= 1 BY <1>1, <1>2 DEF Most, Least
<1>5. Fits(port) => at = port.at /\ size = port.size BY <1>1, <1>2 DEF Fits, Most, Least
<1>6. Clamped(port) = [at |-> at, size |-> size] BY DEF Clamped, given
<1>. HIDE DEF at, size
<1>7. Clamped(port) \in PortRows /\ Clamped(port).at = at /\ Clamped(port).size = size
  BY <1>3, <1>4, <1>6 DEF PortRows
<1>. QED BY <1>1, <1>3, <1>4, <1>5, <1>7 DEF Measured, Fits

LEMMA AfterIt ==
  ASSUME NEW n \in Nat, NEW i \in 1 .. n
  PROVE  (IF i + 1 <= n THEN n - (i + 1) + 1 ELSE 0) = n - i
OBVIOUS

(* The port that is taken out is no longer drawn; the others are.          *)
Without(s, i) == SubSeq(s, 1, i - 1) \o SubSeq(s, i + 1, Len(s))
LEMMA PortTakenOut ==
  ASSUME NEW s \in Seq(PortRows), NEW i \in 1 .. Len(s)
  PROVE  /\ Without(s, i) \in Seq(PortRows) /\ Len(Without(s, i)) <= Len(s)
         /\ \A j \in DOMAIN Without(s, i) : \E k \in DOMAIN s : Without(s, i)[j] = s[k]
<1>. DEFINE t == Without(s, i)
            before == SubSeq(s, 1, i - 1)
            after == SubSeq(s, i + 1, Len(s))
<1>9. Len(s) \in Nat /\ DOMAIN s = 1 .. Len(s) BY LenProperties
<1>1. Len(s) \in Nat /\ DOMAIN s = 1 .. Len(s) /\ i \in Nat /\ i >= 1 /\ i <= Len(s) BY <1>9
<1>2. \A j \in 1 .. Len(s) : s[j] \in PortRows BY ElementOfSeq
<1>3. /\ before \in Seq(PortRows) /\ Len(before) = i - 1
      /\ \A j \in 1 .. i - 1 : before[j] = s[j]
  <2>1. 1 \in Int /\ i - 1 \in Int /\ \A j \in 1 .. i - 1 : s[j] \in PortRows BY <1>1, <1>2
  <2>. QED BY <1>1, <2>1, SubSeqProperties
<1>4. /\ after \in Seq(PortRows) /\ Len(after) = Len(s) - i
      /\ \A j \in 1 .. Len(s) - i : after[j] = s[i + j]
  <2>1. i + 1 \in Int /\ Len(s) \in Int /\ \A j \in i + 1 .. Len(s) : s[j] \in PortRows BY <1>1, <1>2
  <2>2. /\ after \in Seq(PortRows) /\ Len(after) = IF i + 1 <= Len(s) THEN Len(s) - (i + 1) + 1 ELSE 0
        /\ \A j \in 1 .. Len(s) - (i + 1) + 1 : after[j] = s[i + 1 + j - 1]
    BY <2>1, SubSeqProperties
  <2>3. \A j \in 1 .. Len(s) - i : after[j] = s[i + j]
    <3>. TAKE j \in 1 .. Len(s) - i
    <3>1. j \in 1 .. Len(s) - (i + 1) + 1 /\ i + 1 + j - 1 = i + j BY <1>1
    <3>. QED BY <2>2, <3>1
  <2>4. Len(after) = Len(s) - i BY <1>1, <2>2, AfterIt
  <2>. QED BY <2>2, <2>3, <2>4
<1>10. t = before \o after BY DEF Without
<1>. HIDE DEF before, after, t
<1>5. /\ t \in Seq(PortRows) /\ Len(t) = Len(before) + Len(after)
      /\ \A j \in 1 .. Len(before) + Len(after) :
           t[j] = IF j <= Len(before) THEN before[j] ELSE after[j - Len(before)]
  BY <1>3, <1>4, <1>10, ConcatProperties
<1>6. Len(t) = Len(s) - 1 /\ DOMAIN t = 1 .. Len(s) - 1
  <2>1. Len(t) = (i - 1) + (Len(s) - i) BY <1>3, <1>4, <1>5
  <2>2. Len(t) = Len(s) - 1 BY <1>1, <2>1
  <2>. QED BY <1>5, <2>2, LenProperties
<1>7. ASSUME NEW j \in DOMAIN t PROVE \E k \in DOMAIN s : t[j] = s[k]
  <2>1. j \in 1 .. Len(s) - 1 BY <1>6, <1>7
  <2>2. CASE j <= i - 1
    <3>1. t[j] = s[j] /\ j \in DOMAIN s BY <1>1, <1>3, <1>4, <1>5, <2>1, <2>2
    <3>. QED BY <3>1
  <2>3. CASE j > i - 1
    <3>. DEFINE k == j - (i - 1)
    <3>1. k \in 1 .. Len(s) - i /\ i + k \in DOMAIN s BY <1>1, <2>1, <2>3
    <3>4. j \in 1 .. Len(before) + Len(after) /\ ~(j <= Len(before)) /\ j - Len(before) = k
      BY <1>1, <1>3, <1>4, <2>1, <2>3
    <3>2. t[j] = after[k] BY <1>5, <3>4
    <3>3. after[k] = s[i + k] BY <1>4, <3>1
    <3>. HIDE DEF k
    <3>. QED BY <3>1, <3>2, <3>3
  <2>. QED BY <1>1, <2>1, <2>2, <2>3
<1>8. Len(t) <= Len(s) BY <1>1, <1>6
<1>. QED BY <1>5, <1>7, <1>8 DEF t

LEMMA PortsInvInit == LayoutsInit => PortsInv
<1>. SUFFICES ASSUME LayoutsInit PROVE PortsInv OBVIOUS
<1>1. /\ dialogOf = NoModel /\ drawing = NoDrawing /\ gesture = NoGesture /\ touches = 0
      /\ portCalls = [q \in PortCalls |-> NoPortCall]
  BY DEF LayoutsInit
<1>2. /\ savedLayouts = [m \in LayoutModels |-> savedLayouts[m]] /\ DOMAIN savedLayouts = LayoutModels
      /\ \A m \in LayoutModels : savedLayouts[m] \in {NoDrawing, Drawing(m, <<NewPort>>, FALSE)}
  BY DEF LayoutsInit
<1>3. ASSUME NEW m \in LayoutModels, NEW D, D = Drawing(m, <<NewPort>>, FALSE)
      PROVE  IsDrawing(D) /\ OnImage(D) /\ InImage(D) /\ OwnedBy(D, m)
  <2>. DEFINE s == <<NewPort>>
  <2>1. s \in Seq(PortRows) /\ Len(s) = 1 /\ DOMAIN s = {1} /\ s[1] = NewPort BY NewPortFits
  <2>. HIDE DEF s
  <2>2. D \in Drawings /\ D.ports = s /\ D.of = m /\ D.loose = FALSE
    BY <1>3, <2>1 DEF Drawing, Drawings, s
  <2>5. 1 <= MaxPorts BY LayoutAssumption
  <2>3. IsDrawing(D) BY <2>1, <2>2, <2>5 DEF IsDrawing
  <2>4. OnImage(D) /\ InImage(D) /\ OwnedBy(D, m)
    BY <2>1, <2>2, NewPortFits DEF OnImage, InImage, OwnedBy
  <2>. QED BY <2>3, <2>4
<1>4. LayoutsTypeOK
  <2>1. \A m \in LayoutModels : savedLayouts[m] # NoDrawing => IsDrawing(savedLayouts[m]) BY <1>2, <1>3
  <2>2. touches \in 0 .. MaxTouches BY <1>1, LayoutAssumption
  <2>. QED BY <1>1, <1>2, <2>1, <2>2 DEF LayoutsTypeOK
<1>5. HandlersWillSave BY <1>1 DEF HandlersWillSave
<1>6. DrawnWell BY <1>1 DEF DrawnWell
<1>7. SavedWell BY <1>2, <1>3 DEF SavedWell
<1>. QED BY <1>4, <1>5, <1>6, <1>7 DEF PortsInv

LEMMA PortsInvKept == ASSUME PortsInv, LayoutsNext PROVE PortsInv'
<1>1. LayoutsTypeOK /\ HandlersWillSave /\ DrawnWell /\ SavedWell BY DEF PortsInv
<1>2. /\ dialogOf \in LayoutModels \cup {NoModel}
      /\ drawing # NoDrawing => IsDrawing(drawing)
      /\ dialogOf # NoModel => drawing # NoDrawing
      /\ gesture # NoGesture =>
           gesture \in [index : 1 .. MaxPorts, mode : {"move", "resize"}, port : PortRows]
      /\ DOMAIN savedLayouts = LayoutModels
      /\ \A m \in LayoutModels : savedLayouts[m] # NoDrawing => IsDrawing(savedLayouts[m])
      /\ touches \in 0 .. MaxTouches
  BY <1>1 DEF LayoutsTypeOK
<1>3. /\ portCalls = [q \in PortCalls |-> portCalls[q]]
      /\ \A q \in PortCalls : portCalls[q] # NoPortCall => WillSave(portCalls[q])
  BY <1>1 DEF HandlersWillSave
<1>4. /\ drawing # NoDrawing => OnImage(drawing)
      /\ dialogOf # NoModel => OwnedBy(drawing, dialogOf)
  BY <1>1 DEF DrawnWell
<1>5. dialogOf # NoModel => /\ dialogOf \in LayoutModels /\ IsDrawing(drawing) /\ drawing \in Drawings
                            /\ drawing.ports \in Seq(PortRows) /\ Len(drawing.ports) <= MaxPorts
                            /\ DOMAIN drawing.ports = 1 .. Len(drawing.ports)
                            /\ Len(drawing.ports) \in Nat
                            /\ drawing.loose \in BOOLEAN /\ OnImage(drawing)
                            /\ OwnedBy(drawing, dialogOf)
  BY <1>2, <1>4, LenProperties DEF IsDrawing, Drawings
<1>6. ASSUME UNCHANGED portCalls PROVE HandlersWillSave' BY <1>1, <1>6 DEF HandlersWillSave
<1>7. ASSUME UNCHANGED savedLayouts PROVE SavedWell' BY <1>1, <1>7 DEF SavedWell
<1>8. ASSUME NEW q \in PortCalls, Returns(q) PROVE HandlersWillSave'
  <2>1. portCalls' = [portCalls EXCEPT ![q] = NoPortCall] BY <1>8 DEF Returns
  <2>2. \A p \in PortCalls : portCalls'[p] \in {NoPortCall, portCalls[p]} BY <1>3, <2>1
  <2>3. portCalls' = [p \in PortCalls |-> portCalls'[p]] BY <1>3, <2>1
  <2>. QED BY <1>3, <2>2, <2>3 DEF HandlersWillSave
(* The drawing of the open dialog changes.                                 *)
<1>9. ASSUME NEW ports \in Seq(PortRows), NEW loose \in BOOLEAN, Draws(ports, loose),
             Len(ports) <= MaxPorts, ~loose => \A i \in DOMAIN ports : Fits(ports[i]),
             UNCHANGED gesture
      PROVE  PortsInv'
  <2>1. /\ dialogOf # NoModel /\ touches' = touches + 1 /\ touches < MaxTouches
        /\ drawing' = [drawing EXCEPT !.ports = ports, !.loose = loose]
        /\ UNCHANGED <<dialogOf, portCalls, savedLayouts>>
    BY <1>9 DEF Draws
  <2>2. /\ drawing' \in Drawings /\ drawing'.ports = ports /\ drawing'.loose = loose
        /\ drawing'.of = drawing.of /\ drawing'.stray = drawing.stray
    BY <1>5, <1>9, <2>1 DEF Drawings
  <2>3. IsDrawing(drawing') BY <1>9, <2>2 DEF IsDrawing
  <2>4. drawing' # NoDrawing BY <2>2, LayoutAssumption
  <2>5. touches' \in 0 .. MaxTouches BY <1>2, <2>1, LayoutAssumption
  <2>6. LayoutsTypeOK' BY <1>2, <1>9, <2>1, <2>3, <2>4, <2>5 DEF LayoutsTypeOK, IsDrawing
  <2>7. OnImage(drawing') BY <1>9, <2>2 DEF OnImage
  <2>8. OwnedBy(drawing', dialogOf) BY <1>5, <2>1, <2>2 DEF OwnedBy
  <2>9. DrawnWell' BY <2>1, <2>7, <2>8 DEF DrawnWell
  <2>. QED BY <1>6, <1>7, <2>1, <2>6, <2>9 DEF PortsInv
<1>10. ASSUME NEW i, NEW port \in PortRows, NEW loose \in BOOLEAN, Redraws(i, port, loose),
              ~(drawing.loose \/ loose) => Fits(port), UNCHANGED gesture
       PROVE  PortsInv'
  <2>. DEFINE ports == [drawing.ports EXCEPT ![i] = port]
  <2>1. /\ dialogOf # NoModel /\ i \in DOMAIN drawing.ports /\ Draws(ports, drawing.loose \/ loose)
    BY <1>10 DEF Redraws
  <2>2. i \in 1 .. Len(drawing.ports) BY <1>5, <2>1
  <2>3. /\ ports \in Seq(PortRows) /\ Len(ports) = Len(drawing.ports)
        /\ \A j \in 1 .. Len(drawing.ports) : ports[j] = IF j = i THEN port ELSE drawing.ports[j]
    BY <1>5, <1>10, <2>1, <2>2, ExceptSeq
  <2>4. DOMAIN ports = DOMAIN drawing.ports OBVIOUS
  <2>. HIDE DEF ports
  <2>5. (drawing.loose \/ loose) \in BOOLEAN OBVIOUS
  <2>6. ASSUME ~(drawing.loose \/ loose), NEW j \in DOMAIN ports PROVE Fits(ports[j])
    <3>1. j \in 1 .. Len(drawing.ports) BY <1>5, <2>1, <2>4, <2>6
    <3>2. Fits(drawing.ports[j]) BY <1>5, <2>1, <2>4, <2>6 DEF OnImage
    <3>3. CASE j = i BY <1>10, <2>3, <2>6, <3>1, <3>3
    <3>4. CASE j # i BY <2>3, <3>1, <3>2, <3>4
    <3>. QED BY <3>3, <3>4
  <2>7. Len(ports) <= MaxPorts BY <1>5, <2>1, <2>3
  <2>. QED BY <1>9, <1>10, <2>1, <2>3, <2>5, <2>6, <2>7
<1>11. ASSUME NEW d \in Pulls, Pull(d) PROVE PortsInv'
  <2>. DEFINE i == gesture.index
              was == gesture.port
              port == drawing.ports[i]
  <2>1. gesture # NoGesture /\ dialogOf # NoModel /\ i \in DOMAIN drawing.ports /\ UNCHANGED gesture
    BY <1>11 DEF Pull
  <2>2. was \in PortRows BY <1>2, <2>1
  <2>3. port \in PortRows BY <1>5, <2>1, ElementOfSeq
  <2>4. ~drawing.loose => Fits(port) BY <1>5, <2>1 DEF OnImage
  <2>5. d \in Int BY LayoutAssumption
  <2>6. \/ Redraws(i, [port EXCEPT !.at = MovedBy(was, d)], port.size # was.size)
        \/ Redraws(i, [port EXCEPT !.size = SizedBy(was, d)], port.at # was.at)
    BY <1>11 DEF Pull
  <2>. HIDE DEF i, was, port
  <2>7. CASE Redraws(i, [port EXCEPT !.at = MovedBy(was, d)], port.size # was.size)
    <3>1. (port.size # was.size) \in BOOLEAN OBVIOUS
    <3>2. [port EXCEPT !.at = MovedBy(was, d)] \in PortRows BY <2>2, <2>3, <2>5, PulledFits
    <3>3. ASSUME ~(drawing.loose \/ port.size # was.size)
          PROVE  Fits([port EXCEPT !.at = MovedBy(was, d)])
      BY <2>2, <2>3, <2>4, <2>5, <3>3, PulledFits
    <3>. QED BY <1>10, <2>1, <2>7, <3>1, <3>2, <3>3
  <2>8. CASE Redraws(i, [port EXCEPT !.size = SizedBy(was, d)], port.at # was.at)
    <3>1. (port.at # was.at) \in BOOLEAN OBVIOUS
    <3>2. [port EXCEPT !.size = SizedBy(was, d)] \in PortRows BY <2>2, <2>3, <2>5, PulledFits
    <3>3. ASSUME ~(drawing.loose \/ port.at # was.at)
          PROVE  Fits([port EXCEPT !.size = SizedBy(was, d)])
      BY <2>2, <2>3, <2>4, <2>5, <3>3, PulledFits
    <3>. QED BY <1>10, <2>1, <2>8, <3>1, <3>2, <3>3
  <2>. QED BY <2>6, <2>7, <2>8
<1>12. ASSUME NEW i, NEW key \in {"left", "right", "altLeft", "altRight"}, NEW amount \in KeySteps,
              PressKey(i, key, amount)
       PROVE  PortsInv'
  <2>. DEFINE port == Nudged(drawing.ports[i], key, amount)
  <2>1. /\ dialogOf # NoModel /\ i \in DOMAIN drawing.ports /\ UNCHANGED gesture
        /\ Redraws(i, port, FALSE)
    BY <1>12 DEF PressKey
  <2>2. drawing.ports[i] \in PortRows BY <1>5, <2>1, ElementOfSeq
  <2>3. amount \in Nat BY LayoutAssumption
  <2>4. port \in PortRows /\ (Fits(drawing.ports[i]) => Fits(port)) BY <2>2, <2>3, NudgedFits
  <2>5. ~drawing.loose => Fits(drawing.ports[i]) BY <1>5, <2>1 DEF OnImage
  <2>. HIDE DEF port
  <2>. QED BY <1>10, <2>1, <2>4, <2>5
<1>13. ASSUME NEW i, NEW field \in {"at", "size"}, NEW v \in TypedValues, TypeField(i, field, v)
       PROVE  PortsInv'
  <2>. DEFINE port == [drawing.ports[i] EXCEPT ![field] = v]
  <2>1. /\ dialogOf # NoModel /\ i \in DOMAIN drawing.ports /\ UNCHANGED gesture
        /\ Redraws(i, port, TRUE)
    BY <1>13 DEF TypeField
  <2>2. drawing.ports[i] \in PortRows BY <1>5, <2>1, ElementOfSeq
  <2>3. v \in Int BY LayoutAssumption
  <2>4. port \in PortRows
    <3>1. CASE field = "at" BY <2>2, <2>3, <3>1 DEF PortRows
    <3>2. CASE field = "size" BY <2>2, <2>3, <3>2 DEF PortRows
    <3>. QED BY <3>1, <3>2
  <2>. HIDE DEF port
  <2>. QED BY <1>10, <2>1, <2>4
<1>14. ASSUME AddPort PROVE PortsInv'
  <2>. DEFINE ports == Append(drawing.ports, NewPort)
  <2>1. /\ dialogOf # NoModel /\ Len(drawing.ports) < MaxPorts /\ UNCHANGED gesture
        /\ Draws(ports, drawing.loose)
    BY <1>14 DEF AddPort, Draws
  <2>2. /\ ports \in Seq(PortRows) /\ Len(ports) = Len(drawing.ports) + 1
        /\ \A i \in 1 .. Len(drawing.ports) : ports[i] = drawing.ports[i]
        /\ ports[Len(drawing.ports) + 1] = NewPort
    BY <1>5, <2>1, NewPortFits, AppendProperties
  <2>. HIDE DEF ports
  <2>3. DOMAIN ports = 1 .. Len(drawing.ports) + 1 BY <2>2, LenProperties
  <2>4. ASSUME ~drawing.loose, NEW j \in DOMAIN ports PROVE Fits(ports[j])
    <3>1. CASE j = Len(drawing.ports) + 1 BY <2>2, <3>1, NewPortFits
    <3>2. CASE j # Len(drawing.ports) + 1
      <4>1. j \in 1 .. Len(drawing.ports) BY <1>5, <2>1, <2>3, <2>4, <3>2
      <4>2. Fits(drawing.ports[j]) BY <1>5, <2>1, <2>4, <4>1 DEF OnImage
      <4>. QED BY <2>2, <4>1, <4>2
    <3>. QED BY <3>1, <3>2
  <2>5. Len(ports) <= MaxPorts BY <1>5, <2>1, <2>2, LayoutAssumption
  <2>. QED BY <1>5, <1>9, <2>1, <2>2, <2>4, <2>5
<1>15. ASSUME NEW i, RemovePort(i) PROVE PortsInv'
  <2>. DEFINE ports == Without(drawing.ports, i)
  <2>1. /\ dialogOf # NoModel /\ i \in DOMAIN drawing.ports /\ UNCHANGED gesture
        /\ Draws(ports, drawing.loose)
    BY <1>15 DEF RemovePort, Without
  <2>2. i \in 1 .. Len(drawing.ports) BY <1>5, <2>1
  <2>3. /\ ports \in Seq(PortRows) /\ Len(ports) <= Len(drawing.ports)
        /\ \A j \in DOMAIN ports : \E k \in DOMAIN drawing.ports : ports[j] = drawing.ports[k]
    BY <1>5, <2>1, <2>2, PortTakenOut
  <2>. HIDE DEF ports
  <2>4. ASSUME ~drawing.loose, NEW j \in DOMAIN ports PROVE Fits(ports[j])
    <3>1. PICK k \in DOMAIN drawing.ports : ports[j] = drawing.ports[k] BY <2>3, <2>4
    <3>2. Fits(drawing.ports[k]) BY <1>5, <2>1, <2>4 DEF OnImage
    <3>. QED BY <3>1, <3>2
  <2>5. Len(ports) <= MaxPorts
    <3>1. Len(ports) \in Nat BY <2>3, LenProperties
    <3>. QED BY <1>5, <2>1, <2>3, <3>1, LayoutAssumption
  <2>. QED BY <1>5, <1>9, <2>1, <2>3, <2>4, <2>5
<1>16. ASSUME CompactPorts PROVE PortsInv'
  <2>. DEFINE n == Len(drawing.ports)
  <2>1. /\ dialogOf # NoModel /\ drawing.ports # <<>> /\ UNCHANGED gesture
        /\ Draws(CompactGrid(n), TRUE)
    BY <1>16 DEF CompactPorts, Draws
  <2>2. n \in 1 .. MaxPorts
    <3>1. n # 0 BY <1>5, <2>1, EmptySeq
    <3>. QED BY <1>5, <2>1, <3>1, LayoutAssumption
  <2>3. CompactGrid(n) \in Seq(PortRows) /\ Len(CompactGrid(n)) = n BY <2>2, GridsLieOnImage
  <2>4. Len(CompactGrid(n)) <= MaxPorts BY <2>2, <2>3
  <2>. HIDE DEF n
  <2>. QED BY <1>9, <2>1, <2>3, <2>4
(* The dialog is left, a gesture starts or ends, a handler asks.           *)
<1>17. ASSUME UNCHANGED <<drawing, savedLayouts, touches>>,
              dialogOf' = dialogOf \/ dialogOf' = NoModel,
              gesture' # NoGesture =>
                gesture' \in [index : 1 .. MaxPorts, mode : {"move", "resize"}, port : PortRows],
              HandlersWillSave'
       PROVE  PortsInv'
  <2>1. LayoutsTypeOK' BY <1>2, <1>17 DEF LayoutsTypeOK
  <2>2. DrawnWell' BY <1>4, <1>17 DEF DrawnWell
  <2>. QED BY <1>7, <1>17, <2>1, <2>2 DEF PortsInv
<1>18. ASSUME CloseLayout \/ StopGesture PROVE PortsInv'
  BY <1>2, <1>6, <1>17, <1>18 DEF CloseLayout, StopGesture
<1>19. ASSUME NEW i \in 1 .. MaxPorts, NEW mode \in {"move", "resize"}, StartGesture(i, mode)
       PROVE  PortsInv'
  <2>1. /\ dialogOf # NoModel /\ i \in DOMAIN drawing.ports
        /\ gesture' = [index |-> i, mode |-> mode, port |-> drawing.ports[i]]
        /\ UNCHANGED <<dialogOf, drawing, portCalls, savedLayouts, touches>>
    BY <1>19 DEF StartGesture
  <2>2. drawing.ports[i] \in PortRows BY <1>5, <2>1, ElementOfSeq
  <2>3. gesture' \in [index : 1 .. MaxPorts, mode : {"move", "resize"}, port : PortRows]
    BY <1>19, <2>1, <2>2
  <2>. QED BY <1>6, <1>17, <2>1, <2>3
<1>20. ASSUME NEW q \in PortCalls, CallRefused(q) PROVE PortsInv'
  BY <1>2, <1>8, <1>17, <1>20 DEF CallRefused
<1>21. ASSUME NEW q \in PortCalls, NEW kind, NEW m, NEW taken, CallsFor(q, kind, m, taken),
              WillSave([kind |-> kind, model |-> m, sent |-> taken])
       PROVE  PortsInv'
  <2>. DEFINE c == [kind |-> kind, model |-> m, sent |-> taken]
  <2>1. /\ portCalls' = [portCalls EXCEPT ![q] = c]
        /\ UNCHANGED <<dialogOf, drawing, gesture, savedLayouts, touches>>
    BY <1>21 DEF CallsFor
  <2>. HIDE DEF c
  <2>2. \A p \in PortCalls : portCalls'[p] \in {c, portCalls[p]} BY <1>3, <2>1
  <2>3. portCalls' = [p \in PortCalls |-> portCalls'[p]] BY <1>3, <2>1
  <2>4. WillSave(c) BY <1>21 DEF c
  <2>5. HandlersWillSave' BY <1>3, <2>2, <2>3, <2>4 DEF HandlersWillSave
  <2>. QED BY <1>2, <1>17, <2>1, <2>5
<1>22. ASSUME NEW q \in PortCalls, CallLayouts(q) PROVE PortsInv'
  <2>1. ASSUME NEW m \in LayoutModels, CallsFor(q, "open", m, NoDrawing) PROVE PortsInv'
    <3>1. WillSave([kind |-> "open", model |-> m, sent |-> NoDrawing]) BY DEF WillSave, PortHandler
    <3>. QED BY <1>21, <2>1, <3>1
  <2>2. ASSUME dialogOf # NoModel, CallsFor(q, "detect", dialogOf, NoDrawing) PROVE PortsInv'
    <3>1. WillSave([kind |-> "detect", model |-> dialogOf, sent |-> NoDrawing])
      BY <1>5, <2>2 DEF WillSave, PortHandler
    <3>. QED BY <1>21, <2>2, <3>1
  <2>3. ASSUME dialogOf # NoModel,
               CallsFor(q, "confirm", dialogOf,
                        [drawing EXCEPT !.ports = [i \in DOMAIN @ |-> Clamped(@[i])]])
        PROVE  PortsInv'
    <3>. DEFINE ports == [i \in DOMAIN drawing.ports |-> Clamped(drawing.ports[i])]
                taken == [drawing EXCEPT !.ports = ports]
                c == [kind |-> "confirm", model |-> dialogOf, sent |-> taken]
    <3>1. CallsFor(q, "confirm", dialogOf, taken)
      BY <1>5, <2>3 DEF Drawings
    <3>2. \A i \in DOMAIN drawing.ports : drawing.ports[i] \in PortRows BY <1>5, <2>3, ElementOfSeq
    <3>3. \A i \in DOMAIN drawing.ports :
            /\ Clamped(drawing.ports[i]) \in PortRows /\ Measured(Clamped(drawing.ports[i]))
            /\ Fits(drawing.ports[i]) => Fits(Clamped(drawing.ports[i]))
      BY <3>2, ClampedLiesOnImage
    <3>4. /\ ports \in Seq(PortRows) /\ Len(ports) = Len(drawing.ports)
          /\ DOMAIN ports = DOMAIN drawing.ports
      BY <1>5, <2>3, <3>3
    <3>5. \A i \in DOMAIN ports : Measured(ports[i]) /\ (Fits(drawing.ports[i]) => Fits(ports[i]))
      BY <3>3
    <3>. HIDE DEF ports
    <3>6. /\ taken \in Drawings /\ taken.ports = ports /\ taken.of = drawing.of
          /\ taken.loose = drawing.loose /\ taken.stray = drawing.stray
      BY <1>5, <2>3, <3>4 DEF Drawings
    <3>. HIDE DEF taken
    <3>7. IsDrawing(taken) BY <1>5, <2>3, <3>4, <3>6 DEF IsDrawing
    <3>8. OnImage(taken) BY <1>5, <2>3, <3>4, <3>5, <3>6 DEF OnImage
    <3>9. InImage(taken) BY <3>5, <3>6 DEF InImage
    <3>10. OwnedBy(taken, dialogOf) BY <1>5, <2>3, <3>6 DEF OwnedBy
    <3>11. c \in PortHandler /\ c.kind = "confirm" /\ c.sent = taken /\ c.model = dialogOf
      BY <1>5, <2>3, <3>6 DEF PortHandler
    <3>12. WillSave(c)
      <4>. HIDE DEF c
      <4>. QED BY <3>7, <3>8, <3>9, <3>10, <3>11 DEF WillSave
    <3>. QED BY <1>21, <3>1, <3>12
  <2>. QED BY <1>22, <2>1, <2>2, <2>3 DEF CallLayouts
(* What answers do.                                                        *)
<1>23. ASSUME NEW q \in PortCalls, Returns(q) PROVE WillSave(portCalls[q]) /\ HandlersWillSave'
  BY <1>3, <1>8, <1>23 DEF Returns
<1>24. ASSUME NEW m \in LayoutModels, NEW ports \in Seq(PortRows), NEW loose \in BOOLEAN
       PROVE  /\ Drawing(m, ports, loose) \in Drawings /\ Drawing(m, ports, loose).of = m
              /\ Drawing(m, ports, loose).ports = ports /\ Drawing(m, ports, loose).loose = loose
              /\ Drawing(m, ports, loose).stray = FALSE
  BY DEF Drawing, Drawings
<1>25. ASSUME NEW q \in PortCalls, LayoutLoaded(q) PROVE PortsInv'
  <2>. DEFINE m == portCalls[q].model
  <2>1. Returns(q) /\ UNCHANGED <<gesture, savedLayouts, touches>> /\ dialogOf' = m
        /\ \/ savedLayouts[m] = NoDrawing /\ drawing' = Drawing(m, <<>>, FALSE)
           \/ savedLayouts[m] # NoDrawing /\ drawing' = savedLayouts[m]
    BY <1>25 DEF LayoutLoaded
  <2>2. m \in LayoutModels BY <1>23, <2>1 DEF WillSave, PortHandler
  <2>. HIDE DEF m
  <2>3. IsDrawing(drawing') /\ drawing' # NoDrawing /\ OnImage(drawing') /\ OwnedBy(drawing', m)
    <3>1. CASE savedLayouts[m] = NoDrawing /\ drawing' = Drawing(m, <<>>, FALSE)
      <4>1. <<>> \in Seq(PortRows) /\ Len(<<>>) = 0 /\ DOMAIN <<>> = {} OBVIOUS
      <4>2. /\ drawing' \in Drawings /\ drawing'.of = m /\ drawing'.ports = <<>>
        BY <1>24, <2>2, <3>1, <4>1
      <4>. QED BY <4>1, <4>2, LayoutAssumption DEF IsDrawing, OnImage, OwnedBy
    <3>2. CASE savedLayouts[m] # NoDrawing /\ drawing' = savedLayouts[m]
      BY <1>1, <1>2, <2>2, <3>2 DEF SavedWell
    <3>. QED BY <2>1, <3>1, <3>2
  <2>4. LayoutsTypeOK' BY <1>2, <2>1, <2>2, <2>3 DEF LayoutsTypeOK, IsDrawing
  <2>5. DrawnWell' BY <2>1, <2>3 DEF DrawnWell
  <2>. QED BY <1>7, <1>23, <2>1, <2>4, <2>5 DEF PortsInv
<1>26. ASSUME NEW q \in PortCalls, NEW n \in 1 .. MaxPorts, LayoutDetected(q, n) PROVE PortsInv'
  <2>. DEFINE m == portCalls[q].model
              stray == m # dialogOf
              base == Drawing(m, DetectedGrid(n), TRUE)
  <2>1. /\ Returns(q) /\ UNCHANGED <<dialogOf, gesture, savedLayouts, touches>>
        /\ drawing' = [base EXCEPT !.stray = stray]
    BY <1>26 DEF LayoutDetected
  <2>2. m \in LayoutModels BY <1>23, <2>1 DEF WillSave, PortHandler
  <2>3. DetectedGrid(n) \in Seq(PortRows) /\ Len(DetectedGrid(n)) = n /\ n <= MaxPorts
    BY GridsLieOnImage
  <2>4. base \in Drawings /\ base.of = m /\ base.ports = DetectedGrid(n) /\ base.loose = TRUE
    BY <1>24, <2>2, <2>3
  <2>5. stray \in BOOLEAN /\ (~stray => m = dialogOf) OBVIOUS
  <2>. HIDE DEF m, stray, base
  <2>6. /\ drawing' \in Drawings /\ drawing'.of = m /\ drawing'.ports = DetectedGrid(n)
        /\ drawing'.loose = TRUE /\ drawing'.stray = stray
    BY <2>1, <2>4, <2>5 DEF Drawings
  <2>7. IsDrawing(drawing') /\ drawing' # NoDrawing /\ OnImage(drawing') /\ OwnedBy(drawing', dialogOf)
    BY <2>3, <2>5, <2>6, LayoutAssumption DEF IsDrawing, OnImage, OwnedBy
  <2>8. LayoutsTypeOK' BY <1>2, <2>1, <2>7 DEF LayoutsTypeOK, IsDrawing
  <2>9. DrawnWell' BY <2>1, <2>7 DEF DrawnWell
  <2>. QED BY <1>7, <1>23, <2>1, <2>8, <2>9 DEF PortsInv
<1>27. ASSUME NEW m \in LayoutModels, NEW D, IsDrawing(D), OnImage(D), InImage(D), OwnedBy(D, m),
              savedLayouts' = [savedLayouts EXCEPT ![m] = D]
       PROVE  /\ SavedWell' /\ DOMAIN savedLayouts' = LayoutModels
              /\ \A k \in LayoutModels : savedLayouts'[k] # NoDrawing => IsDrawing(savedLayouts'[k])
  <2>1. /\ DOMAIN savedLayouts' = LayoutModels
        /\ savedLayouts' = [k \in LayoutModels |-> savedLayouts'[k]]
        /\ \A k \in LayoutModels : savedLayouts'[k] = IF k = m THEN D ELSE savedLayouts[k]
    BY <1>2, <1>27
  <2>. QED BY <1>1, <1>2, <1>27, <2>1 DEF SavedWell
<1>28. ASSUME NEW q \in PortCalls, LayoutSaved(q) PROVE PortsInv'
  <2>. DEFINE c == portCalls[q]
  <2>1. /\ Returns(q) /\ c.kind = "confirm" /\ UNCHANGED touches
        /\ savedLayouts' = [savedLayouts EXCEPT ![c.model] = c.sent]
        /\ dialogOf' = NoModel /\ drawing' = NoDrawing /\ gesture' = NoGesture
    BY <1>28 DEF LayoutSaved
  <2>2. WillSave(c) BY <1>23, <2>1
  <2>3. c.model \in LayoutModels BY <2>2 DEF WillSave, PortHandler
  <2>4. IsDrawing(c.sent) /\ OnImage(c.sent) /\ InImage(c.sent) /\ OwnedBy(c.sent, c.model)
    BY <2>1, <2>2 DEF WillSave
  <2>. HIDE DEF c
  <2>5. /\ SavedWell' /\ DOMAIN savedLayouts' = LayoutModels
        /\ \A k \in LayoutModels : savedLayouts'[k] # NoDrawing => IsDrawing(savedLayouts'[k])
    BY <1>27, <2>1, <2>3, <2>4
  <2>6. LayoutsTypeOK' BY <1>2, <2>1, <2>5 DEF LayoutsTypeOK, IsDrawing
  <2>7. DrawnWell' BY <2>1 DEF DrawnWell
  <2>. QED BY <1>23, <2>1, <2>5, <2>6, <2>7 DEF PortsInv
<1>29. ASSUME NEW m \in LayoutModels, NEW n \in 1 .. MaxPorts, GenerateLayout(m, n) PROVE PortsInv'
  <2>. DEFINE D == Drawing(m, DetectedGrid(n), TRUE)
  <2>1. /\ touches < MaxTouches /\ touches' = touches + 1
        /\ savedLayouts' = [savedLayouts EXCEPT ![m] = D]
        /\ UNCHANGED <<dialogOf, drawing, gesture, portCalls>>
    BY <1>29 DEF GenerateLayout
  <2>2. /\ DetectedGrid(n) \in Seq(PortRows) /\ Len(DetectedGrid(n)) = n /\ n <= MaxPorts
        /\ \A i \in DOMAIN DetectedGrid(n) : Measured(DetectedGrid(n)[i])
    BY GridsLieOnImage
  <2>3. D \in Drawings /\ D.of = m /\ D.ports = DetectedGrid(n) /\ D.loose = TRUE BY <1>24, <2>2
  <2>. HIDE DEF D
  <2>4. IsDrawing(D) /\ OnImage(D) /\ InImage(D) /\ OwnedBy(D, m)
    BY <2>2, <2>3 DEF IsDrawing, OnImage, InImage, OwnedBy
  <2>5. /\ SavedWell' /\ DOMAIN savedLayouts' = LayoutModels
        /\ \A k \in LayoutModels : savedLayouts'[k] # NoDrawing => IsDrawing(savedLayouts'[k])
    BY <1>27, <2>1, <2>4
  <2>6. touches' \in 0 .. MaxTouches BY <1>2, <2>1, LayoutAssumption
  <2>7. LayoutsTypeOK' BY <1>2, <2>1, <2>5, <2>6 DEF LayoutsTypeOK, IsDrawing
  <2>8. DrawnWell' BY <1>4, <2>1 DEF DrawnWell
  <2>. QED BY <1>6, <2>1, <2>5, <2>7, <2>8 DEF PortsInv
<1>. QED
  BY <1>11, <1>12, <1>13, <1>14, <1>15, <1>16, <1>18, <1>19, <1>20, <1>22, <1>25, <1>26, <1>28, <1>29
     DEF LayoutsNext

\* Pointer and keys keep every port on the image, what is saved has its place and
\* extent in it, and a dialog draws the ports of its own model but for those
\* detected for one that had been left (the layouts' part of PagesHangTogether).
THEOREM PortsStayInPlace ==
  LayoutsSpec => [](LayoutsTypeOK /\ PortsStayOnImage /\ PortsKeepTheirModel)
<1>1. ASSUME PortsInv, UNCHANGED portVars PROVE PortsInv'
  <2>. USE <1>1 DEF PortsInv, portVars
  <2>1. LayoutsTypeOK' BY DEF LayoutsTypeOK
  <2>2. HandlersWillSave' BY DEF HandlersWillSave
  <2>3. DrawnWell' BY DEF DrawnWell
  <2>4. SavedWell' BY DEF SavedWell
  <2>. QED BY <2>1, <2>2, <2>3, <2>4
<1>2. PortsInv /\ [LayoutsNext]_portVars => PortsInv' BY <1>1, PortsInvKept
<1>3. PortsInv => LayoutsTypeOK /\ PortsStayOnImage /\ PortsKeepTheirModel
  <2>. SUFFICES ASSUME PortsInv PROVE LayoutsTypeOK /\ PortsStayOnImage /\ PortsKeepTheirModel OBVIOUS
  <2>1. PortsStayOnImage
    BY DEF PortsInv, PortsStayOnImage, DrawnWell, SavedWell, OnImage, InImage, Measured
  <2>2. PortsKeepTheirModel BY DEF PortsInv, PortsKeepTheirModel, DrawnWell, SavedWell, OwnedBy
  <2>. QED BY <2>1, <2>2 DEF PortsInv
<1>. QED BY <1>2, <1>3, PortsInvInit, PTL DEF LayoutsSpec

-----------------------------------------------------------------------------
(* All pages *)

(* Whichever part moves, every part takes steps of its own or none.        *)
LEMMA EachPartSteps ==
  PagesSpec =>
    /\ PageInit /\ [][PageNext]_pageVars
    /\ ScreenInit /\ [][ScreenNext]_screenVars
    /\ LayoutsInit /\ [][LayoutsNext]_portVars
    /\ IpamInit /\ [][IpamNext]_ipamVars
    /\ SessionInit /\ [][SessionNext]_sessionVars
    /\ DashInit /\ [][DashNext]_dashVars
    /\ SearchInit /\ [][SearchNext]_searchVars
    /\ SetupInit /\ [][SetupNext]_setupVars
    /\ AgentInit /\ [][AgentNext]_agentVars
    /\ RackViewInit /\ [][RackViewNext]_rackViewVars
    /\ PanelInit /\ [][PanelNext]_panelVars
    /\ ImportInit /\ [][ImportNext]_importVars
    /\ StorageInit /\ [][StorageNext]_storageVars
    /\ ScanInit /\ [][ScanPageNext]_scanVars
    /\ TranslatorInit /\ [][TranslatorNext]_translatorVars
    /\ ViewInit /\ [][ViewNext]_viewVars
    /\ QualityViewInit /\ [][QualityViewNext]_qualityViewVars
<1>1. PagesInit =>
        /\ PageInit
        /\ ScreenInit
        /\ LayoutsInit
        /\ IpamInit
        /\ SessionInit
        /\ DashInit
        /\ SearchInit
        /\ SetupInit
        /\ AgentInit
        /\ RackViewInit
        /\ PanelInit
        /\ ImportInit
        /\ StorageInit
        /\ ScanInit
        /\ TranslatorInit
        /\ ViewInit
        /\ QualityViewInit
  BY DEF PagesInit
<1>2. ASSUME [PagesNext]_pagesVars
      PROVE
        /\ [PageNext]_pageVars
        /\ [ScreenNext]_screenVars
        /\ [LayoutsNext]_portVars
        /\ [IpamNext]_ipamVars
        /\ [SessionNext]_sessionVars
        /\ [DashNext]_dashVars
        /\ [SearchNext]_searchVars
        /\ [SetupNext]_setupVars
        /\ [AgentNext]_agentVars
        /\ [RackViewNext]_rackViewVars
        /\ [PanelNext]_panelVars
        /\ [ImportNext]_importVars
        /\ [StorageNext]_storageVars
        /\ [ScanPageNext]_scanVars
        /\ [TranslatorNext]_translatorVars
        /\ [ViewNext]_viewVars
        /\ [QualityViewNext]_qualityViewVars
  <2>1. CASE PagesNext
    <3>1. [PageNext]_pageVars
      <4>1. CASE part = "maps" BY <2>1, <4>1 DEF PagesNext
      <4>2. CASE part # "maps" BY <2>1, <4>2 DEF PagesNext, Alone, Still
      <4>. QED BY <4>1, <4>2
    <3>2. [ScreenNext]_screenVars
      <4>1. CASE part = "infrastructure" BY <2>1, <4>1 DEF PagesNext
      <4>2. CASE part # "infrastructure" BY <2>1, <4>2 DEF PagesNext, Alone, Still
      <4>. QED BY <4>1, <4>2
    <3>3. [LayoutsNext]_portVars
      <4>1. CASE part = "layouts" BY <2>1, <4>1 DEF PagesNext
      <4>2. CASE part # "layouts" BY <2>1, <4>2 DEF PagesNext, Alone, Still
      <4>. QED BY <4>1, <4>2
    <3>4. [IpamNext]_ipamVars
      <4>1. CASE part = "ipam" BY <2>1, <4>1 DEF PagesNext
      <4>2. CASE part # "ipam" BY <2>1, <4>2 DEF PagesNext, Alone, Still
      <4>. QED BY <4>1, <4>2
    <3>5. [SessionNext]_sessionVars
      <4>1. CASE part = "session" BY <2>1, <4>1 DEF PagesNext
      <4>2. CASE part # "session" BY <2>1, <4>2 DEF PagesNext, Alone, Still
      <4>. QED BY <4>1, <4>2
    <3>6. [DashNext]_dashVars
      <4>1. CASE part = "dashboard" BY <2>1, <4>1 DEF PagesNext
      <4>2. CASE part # "dashboard" BY <2>1, <4>2 DEF PagesNext, Alone, Still
      <4>. QED BY <4>1, <4>2
    <3>7. [SearchNext]_searchVars
      <4>1. CASE part = "search" BY <2>1, <4>1 DEF PagesNext
      <4>2. CASE part # "search" BY <2>1, <4>2 DEF PagesNext, Alone, Still
      <4>. QED BY <4>1, <4>2
    <3>8. [SetupNext]_setupVars
      <4>1. CASE part = "setup" BY <2>1, <4>1 DEF PagesNext
      <4>2. CASE part # "setup" BY <2>1, <4>2 DEF PagesNext, Alone, Still
      <4>. QED BY <4>1, <4>2
    <3>9. [AgentNext]_agentVars
      <4>1. CASE part = "agents" BY <2>1, <4>1 DEF PagesNext
      <4>2. CASE part # "agents" BY <2>1, <4>2 DEF PagesNext, Alone, Still
      <4>. QED BY <4>1, <4>2
    <3>10. [RackViewNext]_rackViewVars
      <4>1. CASE part = "racks" BY <2>1, <4>1 DEF PagesNext
      <4>2. CASE part # "racks" BY <2>1, <4>2 DEF PagesNext, Alone, Still
      <4>. QED BY <4>1, <4>2
    <3>11. [PanelNext]_panelVars
      <4>1. CASE part = "host" BY <2>1, <4>1 DEF PagesNext
      <4>2. CASE part # "host" BY <2>1, <4>2 DEF PagesNext, Alone, Still
      <4>. QED BY <4>1, <4>2
    <3>12. [ImportNext]_importVars
      <4>1. CASE part = "import" BY <2>1, <4>1 DEF PagesNext
      <4>2. CASE part # "import" BY <2>1, <4>2 DEF PagesNext, Alone, Still
      <4>. QED BY <4>1, <4>2
    <3>13. [StorageNext]_storageVars
      <4>1. CASE part = "storage" BY <2>1, <4>1 DEF PagesNext
      <4>2. CASE part # "storage" BY <2>1, <4>2 DEF PagesNext, Alone, Still
      <4>. QED BY <4>1, <4>2
    <3>14. [ScanPageNext]_scanVars
      <4>1. CASE part = "discovery" BY <2>1, <4>1 DEF PagesNext
      <4>2. CASE part # "discovery" BY <2>1, <4>2 DEF PagesNext, Alone, Still
      <4>. QED BY <4>1, <4>2
    <3>15. [TranslatorNext]_translatorVars
      <4>1. CASE part = "language" BY <2>1, <4>1 DEF PagesNext
      <4>2. CASE part # "language" BY <2>1, <4>2 DEF PagesNext, Alone, Still
      <4>. QED BY <4>1, <4>2
    <3>16. [ViewNext]_viewVars
      <4>1. CASE part = "alerts" BY <2>1, <4>1 DEF PagesNext
      <4>2. CASE part # "alerts" BY <2>1, <4>2 DEF PagesNext, Alone, Still
      <4>. QED BY <4>1, <4>2
    <3>17. [QualityViewNext]_qualityViewVars
      <4>1. CASE part = "quality" BY <2>1, <4>1 DEF PagesNext
      <4>2. CASE part # "quality" BY <2>1, <4>2 DEF PagesNext, Alone, Still
      <4>. QED BY <4>1, <4>2
    <3>. QED BY <3>1, <3>2, <3>3, <3>4, <3>5, <3>6, <3>7, <3>8, <3>9, <3>10, <3>11, <3>12, <3>13, <3>14, <3>15, <3>16, <3>17
  <2>2. CASE UNCHANGED pagesVars BY <2>2 DEF pagesVars
  <2>. QED BY <1>2, <2>1, <2>2
<1>. QED BY <1>1, <1>2, PTL DEF PagesSpec

\* What each page selects, edits and draws belongs together, whatever answers
\* come while it is used, for any number of sites, places, rows and calls.
THEOREM PagesAlwaysHangTogether == PagesSpec => []PagesHangTogether
<1>1. ASSUME PageTypeOK, ScreenTypeOK, SelectionStaysInSite, EditorsKeepTheirRow,
             LayoutsTypeOK, PortsStayOnImage, PortsKeepTheirModel, IpamTypeOK, OpenedHangsTogether,
             DashTypeOK, LayoutsAreSeen, RackViewTypeOK, PictureIsInOrder, PlacedAsShown,
             LetGoWhereTaken, FieldsKeepTheirOwner, WrittenFromItself, ImportIsAsPreviewed,
             AddressesOnce, SnapshotsAreWhole, SnapshotsAreOwn, SentIsShown
      PROVE  PagesHangTogether
  BY <1>1 DEF PagesHangTogether
<1>. QED
  BY <1>1, EachPartSteps, SavesAreTold, SelectionsHangTogether, PortsStayInPlace,
     OpenedSubnetsHangTogether, LayoutsAreShown, PicturesAreCarriedOut, TheCardKeepsItsHost,
     ImportsAreSound, SnapshotsAreKept, ScansAreOfWhatIsShown, PTL
     DEF PageSpec, ScreenSpec, LayoutsSpec, IpamSpec

\* What the pages tell is true, whatever came late, was lost, or started again in
\* between: of every part but the chart, whose lines are folded from the readings.
THEOREM WhatIsToldIsAlwaysTrue == PagesSpec => [](part # "chart" => WhatIsToldIsTrue)
<1>1. ASSUME SessionTypeOK, PagesHaveUser, SetupTypeOK, SetupIsSound, SearchTypeOK, ShownIsTyped,
             AgentTypeOK, StateIsTrue, TranslatorTypeOK, PageIsInOneLanguage, LanguageIsKept,
             ViewTypeOK, RaisedIsUnread, BellShowsGravest, SummaryAddsUp
      PROVE  part # "chart" => WhatIsToldIsTrue
  BY <1>1 DEF WhatIsToldIsTrue
<1>. QED
  BY <1>1, EachPartSteps, TheSessionHasItsUser, SetupsAreSound, SearchesAreShown, AgentsAreTold,
     OneLanguage, AlertsAreShown, SummariesAddUp, PTL DEF SessionSpec
=============================================================================
