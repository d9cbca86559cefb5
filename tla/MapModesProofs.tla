---------------------------- MODULE MapModesProofs ---------------------------
(***************************************************************************)
(* The guarantees of the modes of the map, for any number of loops and of  *)
(* forced points.                                                          *)
(***************************************************************************)
EXTENDS MapModes, FiniteSetTheorems, TLAPS

-----------------------------------------------------------------------------
(* The modes. *)

\* The part of the state that the modes share, and its types.
ModeTypeOK ==
  /\ tab \in Tabs /\ optionsOpen \in BOOLEAN
  /\ pickingMode \in {"none", "start", "forced-point"}
  /\ drawing \in BOOLEAN /\ gesture \in BOOLEAN
  /\ addOnMapClick \in BOOLEAN

ModesInv ==
  /\ ModeTypeOK
  /\ FreeMapAddsPoints
  /\ ModesStayVisible
  /\ ZonesNeedTheMode

\* Leaving the picking gives the flag back; entering takes it.
LEMMA PickingKeepsModes ==
  ASSUME ModesInv,
         \/ tab = "loop" /\ StartPicking("start")
         \/ tab = "loop" /\ StartPicking("forced-point")
         \/ StopPicking
  PROVE  ModesInv'
<1> USE DEF ModesInv, StartPicking, StopPicking
<1>1. ModeTypeOK'
  BY DEF ModeTypeOK
<1>2. FreeMapAddsPoints'
  BY DEF FreeMapAddsPoints
<1>3. ModesStayVisible'
  BY DEF ModesStayVisible
<1>4. ZonesNeedTheMode'
  BY DEF ZonesNeedTheMode
<1>5. QED
  BY <1>1, <1>2, <1>3, <1>4

\* A change of tab, by the user or by the answer to an opening, ends the modes
\* that can no longer be seen.
LEMMA ActivateKeepsModes ==
  ASSUME ModesInv, NEW t \in Tabs, Activate(t)
  PROVE  ModesInv'
  BY DEF ModesInv, ModeTypeOK, FreeMapAddsPoints, ModesStayVisible,
         ZonesNeedTheMode, Activate, Tabs

LEMMA StepModes == ModesInv /\ [Next]_vars => ModesInv'
<1> SUFFICES ASSUME ModesInv, [Next]_vars PROVE ModesInv'
  OBVIOUS
<1> USE DEF modeVars
<1>a. UNCHANGED modeVars => ModesInv'
  BY DEF ModesInv, ModeTypeOK, FreeMapAddsPoints, ModesStayVisible, ZonesNeedTheMode
<1>1. CASE GenerateClick \/ ForcedPointClick \/ CancelClick
  BY <1>1, PickingKeepsModes DEF GenerateClick, ForcedPointClick, CancelClick
<1>2. CASE Escape
  <2> USE <1>2 DEF Escape, ModesInv
  <2>1. ModeTypeOK'
    BY DEF ModeTypeOK
  <2>2. FreeMapAddsPoints'
    <3>1. pickingMode = "none" \/ addOnMapClick'
      BY DEF ModeTypeOK
    <3>2. pickingMode = "none" => addOnMapClick' = addOnMapClick
      BY DEF ModeTypeOK
    <3>3. QED
      BY <3>1, <3>2 DEF FreeMapAddsPoints
  <2>3. ModesStayVisible' /\ ZonesNeedTheMode'
    BY DEF ModesStayVisible, ZonesNeedTheMode
  <2>4. QED
    BY <2>1, <2>2, <2>3
<1>3. CASE ToggleDrawing
  BY <1>3 DEF ToggleDrawing, SetDrawing, ModesInv, ModeTypeOK, FreeMapAddsPoints,
              ModesStayVisible, ZonesNeedTheMode
<1>4. CASE ToggleOptions
  <2> USE <1>4 DEF ToggleOptions, SetDrawing, ModesInv, ModeTypeOK
  <2>1. ModeTypeOK'
    OBVIOUS
  <2>2. FreeMapAddsPoints'
    BY DEF FreeMapAddsPoints
  <2>3. ~drawing' /\ ~gesture'
    <3>1. CASE optionsOpen
      BY <3>1, Zenon
    <3>2. CASE ~optionsOpen
      <4>1. ~drawing /\ ~gesture
        BY <3>2 DEF ModesStayVisible, ZonesNeedTheMode
      <4>2. QED
        BY <3>2, <4>1
    <3>3. QED
      BY <3>1, <3>2
  <2>4. ModesStayVisible' /\ ZonesNeedTheMode'
    BY <2>3 DEF ModesStayVisible, ZonesNeedTheMode
  <2>5. QED
    BY <2>1, <2>2, <2>4
<1>5. CASE SwitchTab
  BY <1>5, ActivateKeepsModes DEF SwitchTab
<1>6. CASE ZonePress \/ ZoneRelease
  BY <1>6 DEF ZonePress, ZoneRelease, ModesInv, ModeTypeOK, FreeMapAddsPoints,
              ModesStayVisible, ZonesNeedTheMode
<1>7. CASE MapClick
  BY <1>7, <1>a, PickingKeepsModes DEF MapClick
<1>8. CASE VariantClick \/ LoopAnswered \/ LoopFailed \/ LoopDone
  BY <1>8, <1>a DEF VariantClick, LoopAnswered, LoopFailed, LoopDone
<1>9. CASE RemoveForced \/ ClearRoute
  BY <1>9, <1>a DEF RemoveForced, ClearRoute
<1>10. CASE OpenRoute
  BY <1>10, ActivateKeepsModes DEF OpenRoute, Tabs
<1>11. CASE UNCHANGED vars
  BY <1>11, <1>a DEF vars
<1>12. QED
  BY <1>1, <1>2, <1>3, <1>4, <1>5, <1>6, <1>7, <1>8, <1>9, <1>10, <1>11 DEF Next

LEMMA InitModes == Init => ModesInv
  BY DEF Init, ModesInv, ModeTypeOK, FreeMapAddsPoints, ModesStayVisible,
         ZonesNeedTheMode, Tabs

THEOREM ModesInvariance == Spec => []ModesInv
  BY InitModes, StepModes, PTL DEF Spec

\* Once both modes are off, however they ended, a click adds a point again
\* (round-trip-controller.js:74-79, avoid-zone-controller.js:50-69).
THEOREM FlagIsGivenBack == Spec => []FreeMapAddsPoints
<1>1. ModesInv => FreeMapAddsPoints
  BY DEF ModesInv
<1>2. QED
  BY <1>1, ModesInvariance, PTL

\* No mode is on where its hint cannot be seen, also after the tab was changed
\* by the answer to an opening (avoid-zone-controller.js:73-80,
\* round-trip-controller.js:189-193).
THEOREM ModesEndOutOfSight == Spec => []ModesStayVisible
<1>1. ModesInv => ModesStayVisible
  BY DEF ModesInv
<1>2. QED
  BY <1>1, ModesInvariance, PTL

\* A zone being drawn is given up with its mode
\* (avoid-zone-draw-interaction.js:46-48).
THEOREM NoZoneWithoutMode == Spec => []ZonesNeedTheMode
<1>1. ModesInv => ZonesNeedTheMode
  BY DEF ModesInv
<1>2. QED
  BY <1>1, ModesInvariance, PTL

-----------------------------------------------------------------------------
(* The click. *)

\* Unless both modes have been on together, the flag is off exactly when one of
\* them is on: nobody has given it back for the other.
FlagTellsModes ==
  /\ crossed \in BOOLEAN
  /\ drawing /\ pickingMode # "none" => crossed
  /\ addOnMapClick /\ (drawing \/ pickingMode # "none") => crossed

\* What leaving the picking does to the flag, where it is left.
LEMMA PickingTellsModes ==
  ASSUME ModesInv, FlagTellsModes,
         \/ StartPicking("start")
         \/ StartPicking("forced-point")
         \/ pickingMode # "none" /\ StopPicking
  PROVE  FlagTellsModes'
<1> USE DEF FlagTellsModes, Crossing, ModesInv, ModeTypeOK
<1>1. CASE StartPicking("start") \/ StartPicking("forced-point")
  BY <1>1 DEF StartPicking
<1>2. CASE pickingMode # "none" /\ StopPicking
  BY <1>2 DEF StopPicking
<1>3. QED
  BY <1>1, <1>2

LEMMA ActivateTellsModes ==
  ASSUME ModesInv, FlagTellsModes, NEW t \in Tabs, Activate(t)
  PROVE  FlagTellsModes'
<1> USE DEF FlagTellsModes, Crossing, ModesInv, ModeTypeOK, Activate
<1>1. crossed' \in BOOLEAN /\ (drawing' /\ pickingMode' # "none" => crossed')
  OBVIOUS
<1>2. addOnMapClick' /\ (drawing' \/ pickingMode' # "none") => crossed'
  OBVIOUS
<1>3. QED
  BY <1>1, <1>2

LEMMA StepFlag == ModesInv /\ FlagTellsModes /\ [Next]_vars => FlagTellsModes'
<1> SUFFICES ASSUME ModesInv, FlagTellsModes, [Next]_vars PROVE FlagTellsModes'
  OBVIOUS
<1> USE DEF modeVars
<1>a. UNCHANGED modeVars => FlagTellsModes'
  BY DEF FlagTellsModes
<1>1. CASE GenerateClick \/ ForcedPointClick \/ CancelClick
  BY <1>1, PickingTellsModes DEF GenerateClick, ForcedPointClick, CancelClick
<1>2. CASE Escape
  BY <1>2 DEF Escape, FlagTellsModes, Crossing, ModesInv, ModeTypeOK
<1>3. CASE ToggleDrawing
  BY <1>3 DEF ToggleDrawing, SetDrawing, FlagTellsModes, Crossing, ModesInv, ModeTypeOK
<1>4. CASE ToggleOptions
  <2>1. CASE optionsOpen
    <3> USE <1>4, <2>1 DEF ToggleOptions, SetDrawing, FlagTellsModes, Crossing,
                           ModesInv, ModeTypeOK
    <3>1. ~drawing' /\ pickingMode' = pickingMode
      OBVIOUS
    <3>2. crossed' = (crossed /\ pickingMode # "none")
      BY <3>1, Zenon
    <3>3. addOnMapClick' /\ pickingMode # "none" => crossed
      OBVIOUS
    <3>4. addOnMapClick' /\ (drawing' \/ pickingMode' # "none") => crossed'
      BY <3>1, <3>2, <3>3, Zenon
    <3>5. crossed' \in BOOLEAN
      BY <3>2
    <3>6. QED
      BY <3>1, <3>4, <3>5, Zenon
  <2>2. CASE ~optionsOpen
    <3>1. UNCHANGED <<drawing, pickingMode, addOnMapClick>> /\ Crossing
      BY <1>4, <2>2 DEF ToggleOptions
    <3>2. crossed' \in BOOLEAN
      BY <3>1, Zenon DEF Crossing
    <3>3. QED
      BY <3>1, <3>2 DEF FlagTellsModes, Crossing
  <2>3. QED
    BY <2>1, <2>2
<1>5. CASE SwitchTab
  BY <1>5, ActivateTellsModes DEF SwitchTab
<1>6. CASE ZonePress \/ ZoneRelease
  BY <1>6 DEF ZonePress, ZoneRelease, FlagTellsModes
<1>7. CASE MapClick
  BY <1>7, <1>a, PickingTellsModes DEF MapClick
<1>8. CASE VariantClick \/ LoopAnswered \/ LoopFailed \/ LoopDone
  BY <1>8, <1>a DEF VariantClick, LoopAnswered, LoopFailed, LoopDone
<1>9. CASE RemoveForced \/ ClearRoute
  BY <1>9, <1>a DEF RemoveForced, ClearRoute
<1>10. CASE OpenRoute
  BY <1>10, ActivateTellsModes DEF OpenRoute, Tabs
<1>11. CASE UNCHANGED vars
  BY <1>11, <1>a DEF vars
<1>12. QED
  BY <1>1, <1>2, <1>3, <1>4, <1>5, <1>6, <1>7, <1>8, <1>9, <1>10, <1>11 DEF Next

Effects == {"point", "zone", "loop", "forced"}

\* A set with one element or none.
LEMMA AtMostOne ==
  ASSUME NEW S, NEW e, S \subseteq {e}
  PROVE  Cardinality(S) <= 1
<1>1. S = {} \/ S = {e}
  OBVIOUS
<1>2. Cardinality({}) = 0 /\ Cardinality({e}) = 1
  BY FS_EmptySet, FS_Singleton
<1>3. QED
  BY <1>1, <1>2

\* While the flag tells the modes, the click is for one of them.
LEMMA ClickHasOneEffect ==
  ASSUME ModesInv, FlagTellsModes
  PROVE  /\ ClickEffects(addOnMapClick) \subseteq Effects
         /\ Cardinality(ClickEffects(addOnMapClick)) <= 1
<1>1. ClickEffects(addOnMapClick) \subseteq Effects
  BY DEF ClickEffects, Effects
<1>2. \E e : ClickEffects(addOnMapClick) \subseteq {e}
  <2> USE DEF ClickEffects, FlagTellsModes, ModesInv, ModeTypeOK
  <2>1. CASE crossed
    BY <2>1
  <2>2. CASE ~crossed /\ drawing
    <3>1. ClickEffects(addOnMapClick) \subseteq {"zone"}
      BY <2>2
    <3>2. QED
      BY <3>1
  <2>3. CASE ~crossed /\ ~drawing /\ pickingMode = "none"
    <3>1. ClickEffects(addOnMapClick) \subseteq {"point"}
      BY <2>3
    <3>2. QED
      BY <3>1
  <2>4. CASE ~crossed /\ ~drawing /\ pickingMode = "start"
    <3>1. ClickEffects(addOnMapClick) \subseteq {"loop"}
      BY <2>4
    <3>2. QED
      BY <3>1
  <2>5. CASE ~crossed /\ ~drawing /\ pickingMode = "forced-point"
    <3>1. ClickEffects(addOnMapClick) \subseteq {"forced"}
      BY <2>5
    <3>2. QED
      BY <3>1
  <2>6. QED
    BY <2>1, <2>2, <2>3, <2>4, <2>5
<1>3. QED
  BY <1>1, <1>2, AtMostOne

ClickInv == effects \subseteq Effects /\ OneEffectPerClick

LEMMA StepClick ==
  ModesInv /\ FlagTellsModes /\ ClickInv /\ [Next]_vars => ClickInv'
<1> SUFFICES ASSUME ModesInv, FlagTellsModes, ClickInv, [Next]_vars
             PROVE  ClickInv'
  OBVIOUS
<1>a. UNCHANGED effects => ClickInv'
  BY DEF ClickInv, OneEffectPerClick
<1>1. CASE MapClick
  BY <1>1, ClickHasOneEffect DEF MapClick, ClickInv, OneEffectPerClick
<1>2. CASE GenerateClick \/ ForcedPointClick \/ CancelClick \/ Escape
  BY <1>2, <1>a DEF GenerateClick, ForcedPointClick, CancelClick, Escape
<1>3. CASE ToggleDrawing \/ ToggleOptions \/ SwitchTab
  BY <1>3, <1>a DEF ToggleDrawing, ToggleOptions, SwitchTab
<1>4. CASE ZonePress \/ ZoneRelease \/ VariantClick \/ RemoveForced
  BY <1>4, <1>a DEF ZonePress, ZoneRelease, VariantClick, RemoveForced
<1>5. CASE LoopAnswered \/ LoopFailed \/ LoopDone
  BY <1>5, <1>a DEF LoopAnswered, LoopFailed, LoopDone
<1>6. CASE ClearRoute \/ OpenRoute
  BY <1>6, <1>a DEF ClearRoute, OpenRoute, ForgetLoop
<1>7. CASE UNCHANGED vars
  BY <1>7, <1>a DEF vars
<1>8. QED
  BY <1>1, <1>2, <1>3, <1>4, <1>5, <1>6, <1>7 DEF Next

THEOREM ClickInvariance == Spec => [](FlagTellsModes /\ ClickInv)
<1>1. ASSUME Init PROVE FlagTellsModes /\ ClickInv
  <2>1. FlagTellsModes
    BY <1>1 DEF Init, FlagTellsModes
  <2>2. Cardinality({}) <= 1
    BY FS_EmptySet
  <2>3. ClickInv
    BY <1>1, <2>2 DEF Init, ClickInv, OneEffectPerClick
  <2>4. QED
    BY <2>1, <2>3
<1>2. QED
  BY <1>1, ModesInvariance, StepFlag, StepClick, PTL DEF Spec

\* A click does one thing, unless both modes have been on together
\* (avoid-zone-controller.js:53-62).
THEOREM ClicksDoOneThing == Spec => []OneEffectPerClick
<1>1. ClickInv => OneEffectPerClick
  BY DEF ClickInv
<1>2. QED
  BY <1>1, ClickInvariance, PTL

-----------------------------------------------------------------------------
(* The loops. *)

\* A loop that was asked for has a number, and the one to vary too.
LoopTypeOK ==
  /\ asked \in 0..MaxLoops
  /\ loops \subseteq Loops
  /\ generating \in BOOLEAN
  /\ roundTripVariant \in LoopIds \cup {0}
  /\ shown \in LoopIds \cup {0}
  /\ outlived \subseteq LoopIds
  /\ forcedPoints \in 0..MaxForced

\* A loop in its second wait is on screen, or was replaced there.
SecondWaitIsKnown ==
  \A l \in loops : l.stage = "computing" => l.of \in {shown} \cup outlived

LoopsInv == LoopTypeOK /\ SecondWaitIsKnown /\ VariantIsOfScreen

\* A new loop has its first wait before it.
LEMMA GenerateKeepsLoops ==
  ASSUME LoopsInv, NEW n, n \in LoopIds \/ n = asked + 1, GenerateFrom(n),
         UNCHANGED forcedPoints
  PROVE  LoopsInv'
<1> USE ModesAssumption DEF LoopsInv, LoopTypeOK, GenerateFrom
<1> DEFINE new == [id |-> asked + 1, of |-> n, stage |-> "asked"]
<1>1. new \in Loops /\ asked' \in 0..MaxLoops
  BY DEF Loops, LoopIds
<1>2. LoopTypeOK'
  BY <1>1
<1>3. loops' = loops \cup {new} /\ new.stage # "computing"
  OBVIOUS
<1> HIDE DEF new
<1>4. SecondWaitIsKnown'
  BY <1>3 DEF SecondWaitIsKnown
<1>5. VariantIsOfScreen'
  BY <1>3 DEF VariantIsOfScreen
<1>6. QED
  BY <1>2, <1>4, <1>5

\* Another screen: every loop in its second wait is noted.
LEMMA ForgetKeepsLoops == LoopsInv /\ ForgetLoop => LoopsInv'
<1> SUFFICES ASSUME LoopsInv, ForgetLoop PROVE LoopsInv'
  OBVIOUS
<1> USE ModesAssumption DEF LoopsInv, LoopTypeOK, ForgetLoop
<1>1. \A l \in loops : l.of \in LoopIds
  BY DEF Loops
<1>2. LoopTypeOK'
  BY <1>1
<1>3. SecondWaitIsKnown' /\ VariantIsOfScreen'
  BY DEF SecondWaitIsKnown, VariantIsOfScreen
<1>4. QED
  BY <1>2, <1>3

\* The loop answered is on screen and in its second wait.
LEMMA AnswerKeepsLoops == LoopsInv /\ LoopAnswered => LoopsInv'
<1> SUFFICES ASSUME LoopsInv, LoopAnswered PROVE LoopsInv'
  OBVIOUS
<1> USE DEF LoopsInv, LoopTypeOK
<1>1. PICK l \in loops :
        /\ loops' = (loops \ {l}) \cup {[l EXCEPT !.stage = "computing"]}
        /\ shown' = l.of
        /\ outlived' = Outlived(l)
        /\ UNCHANGED <<asked, generating, roundTripVariant, forcedPoints>>
  BY DEF LoopAnswered
<1> DEFINE m == [l EXCEPT !.stage = "computing"]
<1>2. m \in Loops /\ m.of = l.of /\ m.stage = "computing"
  BY DEF Loops
<1>3. \A k \in loops : k.of \in LoopIds
  BY DEF Loops
<1> HIDE DEF m
<1>4. LoopTypeOK'
  BY <1>1, <1>2, <1>3 DEF Outlived, m
<1>5. loops' = (loops \ {l}) \cup {m}
  BY <1>1 DEF m
<1>6. SecondWaitIsKnown'
  BY <1>1, <1>2, <1>5 DEF SecondWaitIsKnown, Outlived
<1>7. VariantIsOfScreen'
  BY <1>1, <1>2, <1>5 DEF VariantIsOfScreen
<1>8. QED
  BY <1>4, <1>6, <1>7

LEMMA StepLoops == LoopsInv /\ [Next]_vars => LoopsInv'
<1> SUFFICES ASSUME LoopsInv, [Next]_vars PROVE LoopsInv'
  OBVIOUS
<1> USE DEF loopVars
<1>a. UNCHANGED loopVars /\ forcedPoints' \in 0..MaxForced => LoopsInv'
  BY DEF LoopsInv, LoopTypeOK, SecondWaitIsKnown, VariantIsOfScreen
<1>b. UNCHANGED <<loopVars, forcedPoints>> => LoopsInv'
  BY <1>a DEF LoopsInv, LoopTypeOK
<1>1. CASE GenerateClick \/ ForcedPointClick \/ CancelClick \/ Escape
  BY <1>1, <1>b DEF GenerateClick, ForcedPointClick, CancelClick, Escape
<1>2. CASE ToggleDrawing \/ ToggleOptions \/ SwitchTab
  BY <1>2, <1>b DEF ToggleDrawing, ToggleOptions, SwitchTab
<1>3. CASE ZonePress \/ ZoneRelease
  BY <1>3, <1>b DEF ZonePress, ZoneRelease
<1>4. CASE MapClick
  <2>1. CASE GenerateFrom(asked + 1) /\ UNCHANGED forcedPoints
    BY <2>1, GenerateKeepsLoops
  <2>2. CASE UNCHANGED loopVars /\ forcedPoints' = forcedPoints + 1
             /\ forcedPoints < MaxForced
    BY <2>2, <1>a, ModesAssumption DEF LoopsInv, LoopTypeOK
  <2>3. CASE UNCHANGED <<loopVars, forcedPoints>>
    BY <2>3, <1>b
  <2>4. QED
    BY <1>4, <2>1, <2>2, <2>3 DEF MapClick
<1>5. CASE VariantClick
  <2>1. roundTripVariant \in LoopIds
    BY <1>5 DEF VariantClick, LoopsInv, LoopTypeOK
  <2>2. QED
    BY <1>5, <2>1, GenerateKeepsLoops DEF VariantClick
<1>6. CASE LoopAnswered
  BY <1>6, AnswerKeepsLoops
<1>7. CASE LoopFailed
  BY <1>7 DEF LoopFailed, LoopsInv, LoopTypeOK, SecondWaitIsKnown, VariantIsOfScreen
<1>8. CASE LoopDone
  <2>1. PICK l \in loops : /\ l.stage = "computing"
                           /\ loops' = loops \ {l}
                           /\ roundTripVariant' = l.of
                           /\ generating' = FALSE
                           /\ UNCHANGED <<asked, shown, outlived, forcedPoints>>
    BY <1>8 DEF LoopDone
  <2>2. l.of \in LoopIds
    BY DEF LoopsInv, LoopTypeOK, Loops
  <2>3. LoopTypeOK'
    BY <2>1, <2>2 DEF LoopsInv, LoopTypeOK
  <2>4. SecondWaitIsKnown' /\ VariantIsOfScreen'
    BY <2>1 DEF LoopsInv, SecondWaitIsKnown, VariantIsOfScreen
  <2>5. QED
    BY <2>3, <2>4 DEF LoopsInv
<1>9. CASE RemoveForced
  <2>1. forcedPoints' \in 0..MaxForced
    BY <1>9, ModesAssumption DEF RemoveForced, LoopsInv, LoopTypeOK
  <2>2. QED
    BY <1>9, <2>1, <1>a DEF RemoveForced
<1>10. CASE ClearRoute \/ OpenRoute
  BY <1>10, ForgetKeepsLoops DEF ClearRoute, OpenRoute
<1>11. CASE UNCHANGED vars
  BY <1>11, <1>b DEF vars
<1>12. QED
  BY <1>1, <1>2, <1>3, <1>4, <1>5, <1>6, <1>7, <1>8, <1>9, <1>10, <1>11 DEF Next

THEOREM LoopsInvariance == Spec => []LoopsInv
<1>1. ASSUME Init PROVE LoopsInv
  <2> USE <1>1 DEF Init
  <2>1. LoopTypeOK
    <3>1. asked \in 0..MaxLoops /\ forcedPoints \in 0..MaxForced
      BY ModesAssumption
    <3>2. QED
      BY <3>1, Zenon DEF LoopTypeOK
  <2>2. SecondWaitIsKnown /\ VariantIsOfScreen
    BY DEF SecondWaitIsKnown, VariantIsOfScreen
  <2>3. QED
    BY <2>1, <2>2 DEF LoopsInv
<1>2. QED
  BY <1>1, StepLoops, PTL DEF Spec

\* "Autre variante" is for the loop on screen, or for one that another screen
\* replaced while its route was awaited (round-trip-controller.js:41-45).
THEOREM VariantFollowsScreen == Spec => []VariantIsOfScreen
<1>1. LoopsInv => VariantIsOfScreen
  BY DEF LoopsInv
<1>2. QED
  BY <1>1, LoopsInvariance, PTL

\* Every variable keeps its type, for any number of loops and forced points.
THEOREM TypeCorrect == Spec => []TypeOK
<1>1. ModesInv /\ FlagTellsModes /\ ClickInv /\ LoopsInv => TypeOK
  BY DEF ModesInv, ModeTypeOK, FlagTellsModes, ClickInv, Effects, LoopsInv,
         LoopTypeOK, TypeOK
<1>2. QED
  BY <1>1, ModesInvariance, ClickInvariance, LoopsInvariance, PTL

=============================================================================
