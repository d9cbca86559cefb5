------------------------------ MODULE MapModes -------------------------------
(***************************************************************************)
(* What a click on the map means.  Three parts of the frontend answer it:  *)
(* the waypoint manager adds a point (map/markers.js), the round-trip      *)
(* controller takes the start of a loop or a forced point                  *)
(* (controllers/round-trip-controller.js), and the avoid-zone controller   *)
(* draws (controllers/avoid-zone-controller.js).  The last two tell the    *)
(* first to stand back through one shared flag, and are themselves ended   *)
(* by the tabs and the options panel (ui/tabs.js).                         *)
(*                                                                         *)
(* Generating a loop goes through two waits: the answer of the backend,    *)
(* which replaces the points, then the computation of their route, after   *)
(* which the loop may be varied.                                           *)
(***************************************************************************)
EXTENDS Naturals, FiniteSets

CONSTANTS
  MaxLoops,             \* Bound on the number of loops generated.
  MaxForced             \* Bound on the number of forced points.

ASSUME ModesAssumption == MaxLoops \in Nat /\ MaxForced \in Nat

VARIABLES
  tab,                  \* The current tab.
  optionsOpen,          \* The options panel is unfolded.
  pickingMode,          \* What the round-trip controller wants a click for.
  drawing,              \* The drawing of zones is on ...
  gesture,              \* ... and a zone is being drawn.
  addOnMapClick,        \* The flag: a click adds a point.
  forcedPoints,         \* Number of pendingForcedPoints.
  asked,                \* Number of loops asked for.
  loops,                \* Calls of generateFrom that have not returned.
  generating,           \* The flag of generateFrom, and of its button.
  roundTripVariant,     \* The start and distance that may be varied; 0: null.
  effects,              \* History: what the last click on the map did.
  crossed,              \* History: both modes were on together.
  shown,                \* History: the loop on screen; 0: none.
  outlived              \* History: loops replaced during their second wait.

modeVars == <<tab, optionsOpen, pickingMode, drawing, gesture, addOnMapClick, crossed>>
loopVars == <<asked, loops, generating, roundTripVariant, shown, outlived>>
vars == <<modeVars, loopVars, forcedPoints, effects>>

Tabs == {"route", "loop", "saved"}

LoopIds == 1..MaxLoops

\* of: the loop that first had this start and distance.
Loops == [id : LoopIds, of : LoopIds, stage : {"asked", "computing"}]

TypeOK ==
  /\ tab \in Tabs /\ optionsOpen \in BOOLEAN
  /\ pickingMode \in {"none", "start", "forced-point"}
  /\ drawing \in BOOLEAN /\ gesture \in BOOLEAN
  /\ addOnMapClick \in BOOLEAN
  /\ forcedPoints \in 0..MaxForced
  /\ asked \in 0..MaxLoops
  /\ loops \subseteq Loops
  /\ generating \in BOOLEAN
  /\ roundTripVariant \in LoopIds \cup {0}
  /\ effects \subseteq {"point", "zone", "loop", "forced"}
  /\ crossed \in BOOLEAN
  /\ shown \in LoopIds \cup {0}
  /\ outlived \subseteq LoopIds

\* The tab is the one remembered from the last visit.
Init ==
  /\ tab \in Tabs /\ optionsOpen = FALSE
  /\ pickingMode = "none"
  /\ drawing = FALSE /\ gesture = FALSE
  /\ addOnMapClick = TRUE
  /\ forcedPoints = 0
  /\ asked = 0 /\ loops = {} /\ generating = FALSE
  /\ roundTripVariant = 0
  /\ effects = {} /\ crossed = FALSE /\ shown = 0 /\ outlived = {}

-----------------------------------------------------------------------------
(* Entering and leaving the modes. *)

\* Both were on at once, and one of them still is.
Crossing ==
  crossed' = \/ drawing' /\ pickingMode' # "none"
             \/ crossed /\ (drawing' \/ pickingMode' # "none")

StartPicking(mode) ==
  /\ pickingMode' = mode
  /\ addOnMapClick' = FALSE
  /\ UNCHANGED <<tab, optionsOpen, drawing, gesture>>
  /\ Crossing

\* Mutant: the flag is forgotten.
StopPickingKeepsFlag ==
  /\ pickingMode' = "none"
  /\ UNCHANGED <<tab, optionsOpen, drawing, gesture, addOnMapClick>>
  /\ Crossing

StopPicking ==
  /\ pickingMode' = "none"
  /\ addOnMapClick' = TRUE
  /\ UNCHANGED <<tab, optionsOpen, drawing, gesture>>
  /\ Crossing

\* Mutant: a zone being drawn outlives the mode.
SetDrawingKeepsGesture(active) ==
  /\ drawing' = active
  /\ gesture' = gesture
  /\ addOnMapClick' = IF drawing = active THEN addOnMapClick ELSE ~active

\* setDrawing: nothing to do if the mode is already as wanted; otherwise a
\* zone being drawn is given up.
SetDrawing(active) ==
  /\ drawing' = active
  /\ gesture' = (gesture /\ active)
  /\ addOnMapClick' = IF drawing = active THEN addOnMapClick ELSE ~active

\* The buttons of the two controllers, where they can be seen.
GenerateClick ==
  /\ tab = "loop" /\ ~generating
  /\ StartPicking("start")
  /\ UNCHANGED <<loopVars, forcedPoints, effects>>

ForcedPointClick ==
  /\ tab = "loop"
  /\ \/ pickingMode = "forced-point" /\ StopPicking
     \/ pickingMode # "forced-point" /\ StartPicking("forced-point")
  /\ UNCHANGED <<loopVars, forcedPoints, effects>>

\* The cancel button of the hint.
CancelClick ==
  /\ tab = "loop" /\ pickingMode # "none"
  /\ StopPicking
  /\ UNCHANGED <<loopVars, forcedPoints, effects>>

\* Escape ends the picking and gives up a zone being drawn, not its mode.
Escape ==
  /\ pickingMode # "none" \/ gesture
  /\ pickingMode' = "none"
  /\ addOnMapClick' = (addOnMapClick \/ pickingMode # "none")
  /\ gesture' = FALSE
  /\ UNCHANGED <<tab, optionsOpen, drawing>>
  /\ Crossing
  /\ UNCHANGED <<loopVars, forcedPoints, effects>>

ToggleDrawing ==
  /\ tab # "saved" /\ optionsOpen
  /\ SetDrawing(~drawing)
  /\ UNCHANGED <<tab, optionsOpen, pickingMode>>
  /\ Crossing
  /\ UNCHANGED <<loopVars, forcedPoints, effects>>

\* Mutant: folding the options leaves the mode on.
ToggleOptionsOnly ==
  /\ tab # "saved"
  /\ optionsOpen' = ~optionsOpen
  /\ UNCHANGED <<drawing, gesture, addOnMapClick, tab, pickingMode>>
  /\ Crossing
  /\ UNCHANGED <<loopVars, forcedPoints, effects>>

ToggleOptions ==
  /\ tab # "saved"
  /\ optionsOpen' = ~optionsOpen
  /\ \/ optionsOpen /\ SetDrawing(FALSE)
     \/ ~optionsOpen /\ UNCHANGED <<drawing, gesture, addOnMapClick>>
  /\ UNCHANGED <<tab, pickingMode>>
  /\ Crossing
  /\ UNCHANGED <<loopVars, forcedPoints, effects>>

\* activate(): the round-trip controller hears of the change before the
\* avoid-zone controller.  Nothing happens for the current tab.
Activate(t) ==
  /\ tab' = t
  /\ UNCHANGED optionsOpen
  /\ LET left == t # tab /\ t # "loop" /\ pickingMode # "none"
         hidden == t # tab /\ t = "saved" /\ drawing
     IN  /\ pickingMode' = IF left THEN "none" ELSE pickingMode
         /\ drawing' = (drawing /\ ~hidden)
         /\ gesture' = (gesture /\ ~hidden)
         /\ addOnMapClick' = (addOnMapClick \/ left \/ hidden)
  /\ Crossing

SwitchTab ==
  /\ \E t \in Tabs \ {tab} : Activate(t)
  /\ UNCHANGED <<loopVars, forcedPoints, effects>>

\* A finger or the mouse goes down on the map and up again: the zone drawn is
\* a change of the options (EditOptions of RouteEditor).
ZonePress ==
  /\ drawing /\ ~gesture
  /\ gesture' = TRUE
  /\ UNCHANGED <<tab, optionsOpen, pickingMode, drawing, addOnMapClick, crossed,
                 loopVars, forcedPoints, effects>>

ZoneRelease ==
  /\ gesture
  /\ gesture' = FALSE
  /\ UNCHANGED <<tab, optionsOpen, pickingMode, drawing, addOnMapClick, crossed,
                 loopVars, forcedPoints, effects>>

-----------------------------------------------------------------------------
(* Loops. *)

\* generateFrom up to its first wait.
GenerateFrom(of) ==
  /\ asked < MaxLoops
  /\ asked' = asked + 1
  /\ loops' = loops \cup {[id |-> asked + 1, of |-> of, stage |-> "asked"]}
  /\ generating' = TRUE
  /\ UNCHANGED <<roundTripVariant, shown, outlived>>

ClickEffects(added) ==
  IF crossed THEN {}
  ELSE {e \in {"point", "zone", "loop", "forced"} :
          \/ e = "point" /\ added
          \/ e = "zone" /\ drawing
          \/ e = "loop" /\ pickingMode = "start"
          \/ e = "forced" /\ pickingMode = "forced-point"}

\* Mutant: the round-trip controller hears of the click first.
MapClickReordered ==
  /\ ~gesture
  /\ effects' = ClickEffects(addOnMapClick \/ pickingMode = "start")
  /\ \/ /\ pickingMode = "start" /\ StopPicking
        /\ GenerateFrom(asked + 1)
        /\ UNCHANGED forcedPoints
     \/ /\ pickingMode = "forced-point" /\ forcedPoints < MaxForced
        /\ forcedPoints' = forcedPoints + 1
        /\ UNCHANGED <<modeVars, loopVars>>
     \/ /\ pickingMode = "none"
        /\ UNCHANGED <<modeVars, loopVars, forcedPoints>>

\* The waypoint manager hears of the click first, the round-trip controller
\* second; a mode of forced points stays on.
MapClick ==
  /\ ~gesture
  /\ effects' = ClickEffects(addOnMapClick)
  /\ \/ /\ pickingMode = "start" /\ StopPicking
        /\ GenerateFrom(asked + 1)
        /\ UNCHANGED forcedPoints
     \/ /\ pickingMode = "forced-point" /\ forcedPoints < MaxForced
        /\ forcedPoints' = forcedPoints + 1
        /\ UNCHANGED <<modeVars, loopVars>>
     \/ /\ pickingMode = "none"
        /\ UNCHANGED <<modeVars, loopVars, forcedPoints>>

\* Mutant: the button works without a loop to vary.
VariantClickAnyway ==
  /\ tab = "loop" /\ ~generating
  /\ GenerateFrom(roundTripVariant)
  /\ UNCHANGED <<modeVars, forcedPoints, effects>>

VariantClick ==
  /\ tab = "loop" /\ ~generating /\ roundTripVariant # 0
  /\ GenerateFrom(roundTripVariant)
  /\ UNCHANGED <<modeVars, forcedPoints, effects>>

\* What was on screen, when it is the loop of another call in its second wait.
Outlived(l) == outlived \cup {k.of : k \in {x \in loops \ {l} : x.stage = "computing"}}

\* The answer replaces the points.
LoopAnswered ==
  \E l \in loops :
    /\ l.stage = "asked"
    /\ loops' = (loops \ {l}) \cup {[l EXCEPT !.stage = "computing"]}
    /\ shown' = l.of
    /\ outlived' = Outlived(l)
    /\ UNCHANGED <<modeVars, asked, generating, roundTripVariant, forcedPoints, effects>>

LoopFailed ==
  \E l \in loops :
    /\ l.stage = "asked"
    /\ loops' = loops \ {l}
    /\ generating' = FALSE
    /\ UNCHANGED <<modeVars, asked, roundTripVariant, shown, outlived, forcedPoints, effects>>

\* waitForRecompute is over, whatever became of the computation.
LoopDone ==
  \E l \in loops :
    /\ l.stage = "computing"
    /\ loops' = loops \ {l}
    /\ roundTripVariant' = l.of
    /\ generating' = FALSE
    /\ UNCHANGED <<modeVars, asked, shown, outlived, forcedPoints, effects>>

RemoveForced ==
  /\ tab = "loop" /\ forcedPoints > 0
  /\ forcedPoints' \in {0, forcedPoints - 1}
  /\ UNCHANGED <<modeVars, loopVars, effects>>

\* Mutant: the loop to vary is forgotten.
ForgetLoopKeepsVariant ==
  /\ forcedPoints' = 0
  /\ shown' = 0
  /\ outlived' = outlived \cup {k.of : k \in {x \in loops : x.stage = "computing"}}
  /\ UNCHANGED <<roundTripVariant, asked, loops, generating, effects>>

\* What clearing and opening have in common.
ForgetLoop ==
  /\ forcedPoints' = 0
  /\ roundTripVariant' = 0
  /\ shown' = 0
  /\ outlived' = outlived \cup {k.of : k \in {x \in loops : x.stage = "computing"}}
  /\ UNCHANGED <<asked, loops, generating, effects>>

\* resetRouteState
ClearRoute == tab # "saved" /\ ForgetLoop /\ UNCHANGED modeVars

\* applyLoadedRoute: the answer to an opening asked for in the list, in
\* whatever tab the user is by now.
OpenRoute == Activate("route") /\ ForgetLoop

-----------------------------------------------------------------------------
Next ==
  \/ GenerateClick
  \/ ForcedPointClick
  \/ CancelClick
  \/ Escape
  \/ ToggleDrawing
  \/ ToggleOptions
  \/ SwitchTab
  \/ ZonePress
  \/ ZoneRelease
  \/ MapClick
  \/ VariantClick
  \/ LoopAnswered
  \/ LoopFailed
  \/ LoopDone
  \/ RemoveForced
  \/ ClearRoute
  \/ OpenRoute

Spec == Init /\ [][Next]_vars

-----------------------------------------------------------------------------
(* Properties. *)

\* Whatever ended the modes, in whatever order, once both are off a click
\* adds a point again (round-trip-controller.js:65-79,
\* avoid-zone-controller.js:50-69: both write the same flag).
FreeMapAddsPoints == pickingMode = "none" /\ ~drawing => addOnMapClick

\* A click does one thing (avoid-zone-controller.js:53-62: "desactiver
\* l'ajout au clic tant que le mode dessin est actif"), unless both modes have
\* been on together: the one left first then gives the flag back while the
\* other is still on.
OneEffectPerClick == Cardinality(effects) <= 1

\* "Le mode dessin ne doit pas rester actif hors de vue"
\* (avoid-zone-controller.js:73), nor the picking out of its tab
\* (round-trip-controller.js:189-190), also when the tab is changed by the
\* answer to an opening.
ModesStayVisible ==
  /\ drawing => tab # "saved" /\ optionsOpen
  /\ pickingMode # "none" => tab = "loop"

\* No zone comes from a mode that is off, even when it was ended in the middle
\* of the gesture (avoid-zone-draw-interaction.js:46-48).
ZonesNeedTheMode == gesture => drawing

\* "Autre variante" varies the loop on screen and is off after clearing or
\* opening a route (round-trip-controller.js:41-45).  Two waits excuse the
\* code: the loop on screen is still being computed, its name comes last; or
\* another screen replaced a loop that was, and the name comes all the same.
VariantIsOfScreen ==
  \/ roundTripVariant \in {0, shown} \cup outlived
  \/ \E l \in loops : l.stage = "computing" /\ l.of = shown

=============================================================================
