----------------------------- MODULE PortLayouts ------------------------------
(***************************************************************************)
(* The layout of the ports of a device model, drawn over its image: the    *)
(* dialog of one browser tab (apps/web/features/infrastructure/components/ *)
(* models/port-layout-editor.tsx and infrastructure-workspace.tsx), and    *)
(* what the API stores (infrastructure.service.ts).                        *)
(*                                                                         *)
(* Ports are measured along one axis, which the code treats as the other   *)
(* one, in steps of .005 of the image: Full of them are the whole image.   *)
(***************************************************************************)
EXTENDS Integers, Sequences

CONSTANTS
  LayoutModels,
  PortCalls,     \* calls of the API the dialog may await at once (a bound)
  Full,          \* 200: the extent of the image
  Pulls,         \* how far a pointer may be pulled
  KeySteps,      \* 1, or 4 with the shift key
  TypedValues,   \* what may be typed into a field
  MaxPorts, MaxTouches,   \* bounds on ports and on changes of the drawing
  NoModel, NoDrawing, NoGesture, NoPortCall

(* Where ports go, a port being its place and its extent.                  *)
PortRows == [at : Int, size : Int]
Drawings == [of : LayoutModels, ports : Seq(PortRows), loose : BOOLEAN, stray : BOOLEAN]

\* With more than 124 ports on the whole image a grid has ports narrower than a step.
ASSUME LayoutAssumption ==
  /\ Full \in Nat /\ Full >= 50 /\ MaxPorts \in Nat \ {0} /\ 62 * Full >= 100 * MaxPorts
  /\ MaxTouches \in Nat /\ Pulls \subseteq Int /\ KeySteps \subseteq Nat /\ TypedValues \subseteq Int
  /\ NoModel \notin LayoutModels /\ NoDrawing \notin Drawings

VARIABLES
  dialogOf,      \* layoutModel while the dialog is open
  drawing,       \* layout: its ports, and whose they are
  gesture,       \* interaction: what the pointer does, and to which port as it was
  portCalls,     \* what each handler that awaits keeps
  savedLayouts,  \* portLayout of each model
  touches

portVars == <<dialogOf, drawing, gesture, portCalls, savedLayouts, touches>>

Least(a, b) == IF a < b THEN a ELSE b
Most(a, b) == IF a < b THEN b ELSE a
Fits(port) == port.at >= 0 /\ port.size >= 1 /\ port.at + port.size <= Full
\* "loose" notes that numbers, a grid or a pointer let go too late placed ports;
\* "stray", that they were detected for a model whose dialog had been left.
Drawing(m, ports, loose) == [of |-> m, ports |-> ports, loose |-> loose, stray |-> FALSE]

NewPort == [at |-> Full \div 20, size |-> Full \div 50]

LayoutsInit ==
  /\ dialogOf = NoModel /\ drawing = NoDrawing /\ gesture = NoGesture
  /\ portCalls = [q \in PortCalls |-> NoPortCall]
  /\ savedLayouts \in [LayoutModels -> {NoDrawing}] \cup
                      {[m \in LayoutModels |-> Drawing(m, <<NewPort>>, FALSE)]}
  /\ touches = 0

MovedBy(port, d) == Most(0, Least(Full - port.size, port.at + d))
SizedBy(port, d) == Most(1, Least(Full - port.at, port.size + d))
Nudged(port, key, step) ==
  CASE key = "left" -> [port EXCEPT !.at = Most(0, @ - step)]
    [] key = "right" -> [port EXCEPT !.at = Least(Full - port.size, @ + step)]
    [] key = "altLeft" -> [port EXCEPT !.size = Most(1, @ - step)]
    [] key = "altRight" -> [port EXCEPT !.size = Least(Full - port.at, @ + step)]
DetectedGrid(n) ==
  [i \in 1 .. n |-> [at |-> ((2 * i - 1) * Full) \div (2 * n), size |-> (62 * Full) \div (100 * n)]]
CompactGrid(n) ==
  [i \in 1 .. n |-> [at |-> (11 * Full) \div 100 + ((2 * i - 1) * 78 * Full) \div (200 * n),
                     size |-> (62 * Full) \div (100 * n)]]
Clamped(port) ==
  [at |-> Most(0, Least(Full, port.at)),
   size |-> Most(1, Least(Full, IF port.size = 0 THEN (3 * Full) \div 100 ELSE port.size))]

(* The dialog and the handlers of the drawing.                             *)
CloseLayout ==
  /\ dialogOf # NoModel
  /\ dialogOf' = NoModel /\ gesture' = NoGesture
  /\ UNCHANGED <<drawing, portCalls, savedLayouts, touches>>
Draws(ports, loose) ==
  /\ dialogOf # NoModel /\ touches < MaxTouches
  /\ touches' = touches + 1
  /\ drawing' = [drawing EXCEPT !.ports = ports, !.loose = loose]
  /\ UNCHANGED <<dialogOf, portCalls, savedLayouts>>
Redraws(i, port, loose) ==
  /\ dialogOf # NoModel /\ i \in DOMAIN drawing.ports
  /\ Draws([drawing.ports EXCEPT ![i] = port], drawing.loose \/ loose)

StartGesture(i, mode) ==
  /\ dialogOf # NoModel /\ gesture = NoGesture /\ i \in DOMAIN drawing.ports
  /\ gesture' = [index |-> i, mode |-> mode, port |-> drawing.ports[i]]
  /\ UNCHANGED <<dialogOf, drawing, portCalls, savedLayouts, touches>>
Pull(d) ==  \* from the port as it was when the gesture started
  /\ gesture # NoGesture
  /\ LET i == gesture.index
         was == gesture.port
     IN /\ dialogOf # NoModel /\ i \in DOMAIN drawing.ports
        /\ IF gesture.mode = "move"
           THEN Redraws(i, [drawing.ports[i] EXCEPT !.at = MovedBy(was, d)],
                        drawing.ports[i].size # was.size)
           ELSE Redraws(i, [drawing.ports[i] EXCEPT !.size = SizedBy(was, d)],
                        drawing.ports[i].at # was.at)
  /\ UNCHANGED gesture
StopGesture ==
  /\ gesture # NoGesture
  /\ gesture' = NoGesture
  /\ UNCHANGED <<dialogOf, drawing, portCalls, savedLayouts, touches>>
PressKey(i, key, step) ==
  /\ dialogOf # NoModel /\ i \in DOMAIN drawing.ports
  /\ Redraws(i, Nudged(drawing.ports[i], key, step), FALSE)
  /\ UNCHANGED gesture
TypeField(i, field, value) ==
  /\ dialogOf # NoModel /\ i \in DOMAIN drawing.ports
  /\ Redraws(i, [drawing.ports[i] EXCEPT ![field] = value], TRUE)
  /\ UNCHANGED gesture
AddPort ==
  /\ dialogOf # NoModel /\ Len(drawing.ports) < MaxPorts
  /\ Draws(Append(drawing.ports, NewPort), drawing.loose)
  /\ UNCHANGED gesture
RemovePort(i) ==
  /\ dialogOf # NoModel /\ i \in DOMAIN drawing.ports
  /\ Draws(SubSeq(drawing.ports, 1, i - 1) \o SubSeq(drawing.ports, i + 1, Len(drawing.ports)),
           drawing.loose)
  /\ UNCHANGED gesture
CompactPorts ==
  /\ dialogOf # NoModel /\ drawing.ports # <<>>
  /\ Draws(CompactGrid(Len(drawing.ports)), TRUE)
  /\ UNCHANGED gesture

(* Handlers that await the API: the layout is loaded, detected and saved.  *)
CallsFor(q, kind, m, sent) ==
  /\ portCalls[q] = NoPortCall
  /\ portCalls' = [portCalls EXCEPT ![q] = [kind |-> kind, model |-> m, sent |-> sent]]
  /\ UNCHANGED <<dialogOf, drawing, gesture, savedLayouts, touches>>
CallLayouts(q) ==
  \/ dialogOf = NoModel /\ \E m \in LayoutModels : CallsFor(q, "open", m, NoDrawing)
  \/ dialogOf # NoModel /\ CallsFor(q, "detect", dialogOf, NoDrawing)
  \/ dialogOf # NoModel /\ CallsFor(q, "confirm", dialogOf,
       [drawing EXCEPT !.ports = [i \in DOMAIN @ |-> Clamped(@[i])]])
Returns(q) ==
  /\ portCalls[q] # NoPortCall
  /\ portCalls' = [portCalls EXCEPT ![q] = NoPortCall]
LayoutLoaded(q) ==
  /\ Returns(q) /\ portCalls[q].kind = "open"
  /\ LET m == portCalls[q].model
     IN /\ dialogOf' = m
        /\ drawing' = IF savedLayouts[m] = NoDrawing THEN Drawing(m, <<>>, FALSE)
                      ELSE savedLayouts[m]
  /\ UNCHANGED <<gesture, savedLayouts, touches>>
LayoutDetected(q, n) ==
  /\ Returns(q) /\ portCalls[q].kind = "detect"
  /\ drawing' = [Drawing(portCalls[q].model, DetectedGrid(n), TRUE)
                   EXCEPT !.stray = portCalls[q].model # dialogOf]
  /\ UNCHANGED <<dialogOf, gesture, savedLayouts, touches>>
LayoutSaved(q) ==  \* updatePortLayout, and what the page does then
  /\ Returns(q) /\ portCalls[q].kind = "confirm"
  /\ savedLayouts' = [savedLayouts EXCEPT ![portCalls[q].model] = portCalls[q].sent]
  /\ dialogOf' = NoModel /\ drawing' = NoDrawing /\ gesture' = NoGesture
  /\ UNCHANGED touches
CallRefused(q) ==
  /\ Returns(q)
  /\ UNCHANGED <<dialogOf, drawing, gesture, savedLayouts, touches>>
GenerateLayout(m, n) ==  \* generatePortLayout, asked of the API by another client
  /\ touches < MaxTouches /\ touches' = touches + 1
  /\ savedLayouts' = [savedLayouts EXCEPT ![m] = Drawing(m, DetectedGrid(n), TRUE)]
  /\ UNCHANGED <<dialogOf, drawing, gesture, portCalls>>

LayoutsNext ==
  \/ CloseLayout \/ StopGesture \/ AddPort \/ CompactPorts
  \/ \E i \in 1 .. MaxPorts, mode \in {"move", "resize"} : StartGesture(i, mode)
  \/ \E d \in Pulls : Pull(d)
  \/ \E i \in 1 .. MaxPorts, key \in {"left", "right", "altLeft", "altRight"}, step \in KeySteps :
       PressKey(i, key, step)
  \/ \E i \in 1 .. MaxPorts, field \in {"at", "size"}, v \in TypedValues : TypeField(i, field, v)
  \/ \E i \in 1 .. MaxPorts : RemovePort(i)
  \/ \E q \in PortCalls : \/ CallLayouts(q) \/ LayoutLoaded(q) \/ LayoutSaved(q) \/ CallRefused(q)
                          \/ \E n \in 1 .. MaxPorts : LayoutDetected(q, n)
  \/ \E m \in LayoutModels, n \in 1 .. MaxPorts : GenerateLayout(m, n)

LayoutsSpec == LayoutsInit /\ [][LayoutsNext]_portVars
-----------------------------------------------------------------------------
IsDrawing(D) == D \in Drawings /\ Len(D.ports) <= MaxPorts
LayoutsTypeOK ==
  /\ dialogOf \in LayoutModels \cup {NoModel}
  /\ drawing # NoDrawing => IsDrawing(drawing)
  /\ dialogOf # NoModel => drawing # NoDrawing
  /\ gesture # NoGesture =>
       gesture \in [index : 1 .. MaxPorts, mode : {"move", "resize"}, port : PortRows]
  /\ DOMAIN savedLayouts = LayoutModels
  /\ \A m \in LayoutModels : savedLayouts[m] # NoDrawing => IsDrawing(savedLayouts[m])
  /\ touches \in 0 .. MaxTouches

(* Pointer and keys keep every port on the image, in the dialog and in     *)
(* what is saved.  Numbers typed in and the two grids may not; nor a       *)
(* pointer that goes on after its port has become another one.             *)
PortsStayOnImage ==
  \A D \in {drawing} \cup {savedLayouts[m] : m \in LayoutModels} :
    D # NoDrawing =>
      /\ ~D.loose => \A i \in DOMAIN D.ports : Fits(D.ports[i])
      /\ D \in {savedLayouts[m] : m \in LayoutModels} =>
           \A i \in DOMAIN D.ports : D.ports[i].size >= 1 /\ D.ports[i].at \in 0 .. Full

(* The dialog draws the ports of its own model, however many answers come  *)
(* in whatever order, but for ports detected for a model whose dialog had  *)
(* been left; these are saved as another's, and drawn as such from then on. *)
PortsKeepTheirModel ==
  /\ dialogOf # NoModel /\ ~drawing.stray => drawing.of = dialogOf
  /\ \A m \in LayoutModels :
       savedLayouts[m] # NoDrawing /\ ~savedLayouts[m].stray => savedLayouts[m].of = m
=============================================================================
