-------------------------- MODULE RouteEditorProofs -------------------------
(***************************************************************************)
(* The guarantees of the editor for any lists of points, any options, any  *)
(* saved routes and any number of requests in flight.                      *)
(***************************************************************************)
EXTENDS RouteEditor, TLAPS

-----------------------------------------------------------------------------
(* Types.                                                                  *)

\* A bound that is spent stays a natural number.
LEMMA SpendTypes ==
  ASSUME TypeOK, NEW k \in Bounded, Spend(k)
  PROVE  BudgetTypeOK'
  BY DEF TypeOK, BudgetTypeOK, Spend

\* An answer that is not stale, or nothing but one opening less.
LEMMA OpenAnsweredCases ==
  ASSUME OpenAnswered
  PROVE  /\ UNCHANGED <<loadSeq, saved, writes, deletes, imports, mixed, wanted, budget>>
         /\ \/ UNCHANGED <<storeVars, computeVars, enriches, altVars,
                           saveDisabled, updateDisabled, draftVars>>
            \/ \E o \in opens :
                 /\ o.row \notin {NotServed, NoRow}
                 /\ o.seq = loadSeq
                 /\ ApplyLoadedRoute(o)
  BY DEF OpenAnswered

\* The store keeps its types: what is shown was loaded, computed or restored.
LEMMA StoreTypes == TypeOK /\ Next => StoreTypeOK'
<1> SUFFICES ASSUME TypeOK, Next PROVE StoreTypeOK'
  OBVIOUS
<1> USE EditorAssumption DEF TypeOK, StoreTypeOK, storeVars
<1>a. Recompute(waypoints', options') => computedRoute' \in RouteValues \cup {NoRoute}
  BY DEF Recompute
<1>1. CASE EditPoints
  BY <1>1, <1>a DEF EditPoints, UserChanged
<1>2. CASE EditOptions
  BY <1>2, <1>a DEF EditOptions, UserChanged
<1>3. CASE UndoRedo
  BY <1>3, <1>a DEF UndoRedo, UserChanged
<1>4. CASE ResetRoute
  <2>1. options' \in Options
    BY <1>4 DEF ResetRoute, Options, Limits
  <2>2. QED
    BY <1>4, <2>1 DEF ResetRoute, Recompute
<1>5. CASE ComputeAnswered
  <2>1. \A c \in computes :
          [points |-> c.points, options |-> c.options, kind |-> "computed"] \in RouteValues
    BY DEF ComputeTypeOK, Computes, RouteValues, Kinds
  <2>2. QED
    BY <1>5, <2>1 DEF ComputeAnswered, ShowRoute
<1>6. CASE ComputeFailed
  BY <1>6 DEF ComputeFailed, ShowRoute
<1>7. CASE OpenRoute \/ ServeOpen \/ OpenFailed \/ EnrichFailed
  BY <1>7 DEF OpenRoute, ServeOpen, OpenFailed, EnrichFailed
<1>8. CASE OpenAnswered
  <2>1. CASE UNCHANGED <<storeVars, computeVars, enriches, altVars,
                         saveDisabled, updateDisabled, draftVars>>
    BY <2>1
  <2>2. ASSUME NEW o \in opens, o.row \notin {NotServed, NoRow},
               o.seq = loadSeq, ApplyLoadedRoute(o)
        PROVE  StoreTypeOK'
    <3>1. o.row \in Rows /\ o.id \in RouteIds
      BY <2>2 DEF OpenTypeOK, Opens
    <3>2. QED
      BY <2>2, <3>1 DEF ApplyLoadedRoute, Rows
  <2>3. QED
    BY <1>8, <2>1, <2>2, OpenAnsweredCases
<1>9. CASE EnrichAnswered
  <2>1. \A e \in enriches :
          [points |-> e.points, options |-> e.options, kind |-> "enriched"] \in RouteValues
    BY DEF OpenTypeOK, Enriches, RouteValues, Kinds
  <2>2. QED
    BY <1>9, <2>1 DEF EnrichAnswered, ShowRoute
<1>10. CASE ShowAlternatives \/ AltAnswered \/ AltFailed \/ ServeWrite
  BY <1>10 DEF ShowAlternatives, AltAnswered, AltFailed, ServeWrite
<1>11. CASE PickAlternative
  BY <1>11 DEF PickAlternative, AltTypeOK, ShowRoute
<1>12. CASE SaveRoute \/ UpdateRoute
  BY <1>12 DEF SaveRoute, UpdateRoute, Send
<1>13. CASE WriteAnswered \/ WriteFailed \/ DeleteRoute \/ DeleteFailed
  BY <1>13 DEF WriteAnswered, WriteFailed, DeleteRoute, DeleteFailed
<1>14. CASE WriteMissing \/ DeleteAnswered
  BY <1>14 DEF WriteMissing, DeleteAnswered, LeaveEditMode
<1>15. CASE ImportStart \/ ImportFailed \/ TimerFires \/ PageHide
  BY <1>15 DEF ImportStart, ImportFailed, TimerFires, PageHide
<1>16. CASE ImportAnswered
  BY <1>16, <1>a DEF ImportAnswered, UserChanged
<1>17. CASE Reload
  <2>1. draft # NoDraft =>
          /\ draft.user.points \in PointLists /\ draft.user.options \in Options
          /\ draft.route \in RouteValues \cup {NoRoute}
          /\ draft.editing \in RouteIds \cup {None}
          /\ draft.loop \in Loops
    BY DEF Draft!TypeOK, Draft!Screens, UserParts
  <2>2. Restore(Draft!Fresh, FALSE) => StoreTypeOK'
    BY <1>17 DEF Restore, Draft!Fresh, Reload
  <2>3. \A keep \in BOOLEAN : draft # NoDraft /\ Restore(draft, keep) => StoreTypeOK'
    BY <1>17, <2>1 DEF Restore, Reload
  <2>4. QED
    BY <1>17, <2>2, <2>3 DEF Reload, Keeps
<1>18. CASE LoopChange
  BY <1>18 DEF LoopChange
<1>19. QED
  BY <1>1, <1>2, <1>3, <1>4, <1>5, <1>6, <1>7, <1>8, <1>9, <1>10, <1>11,
     <1>12, <1>13, <1>14, <1>15, <1>16, <1>17, <1>18
     DEF Next

\* The computations in flight keep their types.
LEMMA ComputeTypes == TypeOK /\ Next => ComputeTypeOK'
<1> SUFFICES ASSUME TypeOK, Next PROVE ComputeTypeOK'
  OBVIOUS
<1> USE DEF TypeOK, ComputeTypeOK, computeVars
<1>0. StoreTypeOK'
  BY StoreTypes
<1>1. CASE EditPoints \/ EditOptions \/ UndoRedo \/ ResetRoute
  <2>1. Recompute(waypoints', options')
    BY <1>1 DEF EditPoints, EditOptions, UndoRedo, ResetRoute, UserChanged
  <2>2. QED
    BY <1>0, <2>1 DEF Recompute, Computes, StoreTypeOK
<1>2. CASE ComputeAnswered \/ ComputeFailed \/ OpenRoute \/ ServeOpen
  BY <1>2 DEF ComputeAnswered, ComputeFailed, OpenRoute, ServeOpen
<1>3. CASE OpenAnswered
  <2>1. CASE UNCHANGED <<storeVars, computeVars, enriches, altVars,
                         saveDisabled, updateDisabled, draftVars>>
    BY <2>1
  <2>2. ASSUME NEW o \in opens, o.row \notin {NotServed, NoRow},
               o.seq = loadSeq, ApplyLoadedRoute(o)
        PROVE  ComputeTypeOK'
    BY <2>2 DEF ApplyLoadedRoute
  <2>3. QED
    BY <1>3, <2>1, <2>2, OpenAnsweredCases
<1>4. CASE OpenFailed \/ EnrichAnswered \/ EnrichFailed \/ AltAnswered
  BY <1>4 DEF OpenFailed, EnrichAnswered, EnrichFailed, AltAnswered
<1>5. CASE ShowAlternatives
  BY <1>5 DEF ShowAlternatives
<1>6. CASE AltFailed \/ PickAlternative \/ ServeWrite \/ WriteAnswered
  BY <1>6 DEF AltFailed, PickAlternative, ServeWrite, WriteAnswered
<1>7. CASE SaveRoute \/ UpdateRoute
  BY <1>7 DEF SaveRoute, UpdateRoute, Send
<1>8. CASE WriteMissing \/ WriteFailed \/ DeleteRoute \/ DeleteAnswered
  BY <1>8 DEF WriteMissing, WriteFailed, DeleteRoute, DeleteAnswered
<1>9. CASE DeleteFailed \/ ImportStart \/ ImportFailed \/ TimerFires
  BY <1>9 DEF DeleteFailed, ImportStart, ImportFailed, TimerFires
<1>10. CASE ImportAnswered
  <2>1. Recompute(waypoints', options')
    BY <1>10 DEF ImportAnswered, UserChanged
  <2>2. QED
    BY <1>0, <2>1 DEF Recompute, Computes, StoreTypeOK
<1>11. CASE PageHide \/ LoopChange
  BY <1>11 DEF PageHide, LoopChange
<1>12. CASE Reload
  <2>1. \A d : waypoints' = d.user.points /\ options' = d.user.options =>
          d.user.points \in PointLists /\ d.user.options \in Options
    BY <1>0 DEF StoreTypeOK
  <2>2. \A d, keep : Restore(d, keep) => ComputeTypeOK'
    BY <2>1 DEF Restore, Computes
  <2>3. QED
    BY <1>12, <2>2 DEF Reload
<1>13. QED
  BY <1>1, <1>2, <1>3, <1>4, <1>5, <1>6, <1>7, <1>8, <1>9, <1>10, <1>11, <1>12
     DEF Next

\* The openings in flight keep their types.
LEMMA OpenTypes == TypeOK /\ Next => OpenTypeOK'
<1> SUFFICES ASSUME TypeOK, Next PROVE OpenTypeOK'
  OBVIOUS
<1> USE DEF TypeOK, OpenTypeOK, openVars
<1>1. CASE EditPoints \/ EditOptions \/ UndoRedo \/ ComputeAnswered
  BY <1>1 DEF EditPoints, EditOptions, UndoRedo, ComputeAnswered
<1>2. CASE ResetRoute \/ OpenRoute
  BY <1>2 DEF ResetRoute, OpenRoute, Opens
<1>3. CASE ComputeFailed \/ EnrichAnswered \/ EnrichFailed
           \/ ShowAlternatives
  BY <1>3 DEF ComputeFailed, EnrichAnswered, EnrichFailed, ShowAlternatives
<1>4. CASE ServeOpen
  <2>1. \A o \in opens : [o EXCEPT !.row = saved[o.id]] \in Opens
    BY DEF Opens, SaveTypeOK
  <2>2. QED
    BY <1>4, <2>1 DEF ServeOpen
<1>5. CASE OpenAnswered
  <2>1. PICK o \in opens : OpenAnswered!(o)
    BY <1>5 DEF OpenAnswered
  <2>2. CASE o.seq # loadSeq
    BY <2>1, <2>2
  <2>3. CASE o.seq = loadSeq
    <3>1. [seq |-> o.seq, ref |-> ref + 1, points |-> o.row.points,
           options |-> o.row.options] \in Enriches
      BY <2>1 DEF Opens, Rows, Enriches, StoreTypeOK
    <3>2. QED
      BY <2>1, <2>3, <3>1 DEF ApplyLoadedRoute
  <2>4. QED
    BY <2>2, <2>3
<1>6. CASE OpenFailed
  BY <1>6 DEF OpenFailed, StoreTypeOK
<1>7. CASE AltAnswered \/ AltFailed \/ PickAlternative \/ ServeWrite
  BY <1>7 DEF AltAnswered, AltFailed, PickAlternative, ServeWrite
<1>8. CASE SaveRoute \/ UpdateRoute
  BY <1>8 DEF SaveRoute, UpdateRoute, Send
<1>9. CASE WriteAnswered \/ WriteMissing \/ WriteFailed \/ DeleteRoute
  BY <1>9 DEF WriteAnswered, WriteMissing, WriteFailed, DeleteRoute
<1>10. CASE DeleteAnswered \/ DeleteFailed \/ ImportStart
            \/ ImportAnswered
  BY <1>10 DEF DeleteAnswered, DeleteFailed, ImportStart, ImportAnswered
<1>11. CASE ImportFailed \/ TimerFires \/ PageHide \/ LoopChange
  BY <1>11 DEF ImportFailed, TimerFires, PageHide, LoopChange
<1>12. CASE Reload
  <2>1. wanted' = editingRouteId'
    BY <1>12 DEF Reload, Restore
  <2>2. QED
    BY <1>12, <2>1, StoreTypes DEF Reload, StoreTypeOK
<1>13. QED
  BY <1>1, <1>2, <1>3, <1>4, <1>5, <1>6, <1>7, <1>8, <1>9, <1>10, <1>11, <1>12
     DEF Next

\* The alternatives panel keeps its types.
LEMMA AltTypes == TypeOK /\ Next => AltTypeOK'
<1> SUFFICES ASSUME TypeOK, Next PROVE AltTypeOK'
  OBVIOUS
<1> USE DEF TypeOK, AltTypeOK, altVars
<1>0. AlternativesFollow => AltTypeOK'
  BY DEF AlternativesFollow, ResetAlternatives
<1>1. CASE EditPoints \/ EditOptions \/ UndoRedo \/ ResetRoute
  BY <1>1, <1>0 DEF EditPoints, EditOptions, UndoRedo, ResetRoute, UserChanged
<1>2. CASE ComputeAnswered \/ ComputeFailed \/ OpenRoute \/ ServeOpen
  BY <1>2 DEF ComputeAnswered, ComputeFailed, OpenRoute, ServeOpen
<1>3. CASE OpenAnswered
  <2>1. CASE UNCHANGED <<storeVars, computeVars, enriches, altVars,
                         saveDisabled, updateDisabled, draftVars>>
    BY <2>1
  <2>2. ASSUME NEW o \in opens, o.row \notin {NotServed, NoRow},
               o.seq = loadSeq, ApplyLoadedRoute(o)
        PROVE  AltTypeOK'
    BY <2>2, <1>0 DEF ApplyLoadedRoute
  <2>3. QED
    BY <1>3, <2>1, <2>2, OpenAnsweredCases
<1>4. CASE OpenFailed \/ EnrichAnswered \/ EnrichFailed \/ AltFailed
  BY <1>4 DEF OpenFailed, EnrichAnswered, EnrichFailed, AltFailed
<1>5. CASE ShowAlternatives
  <2>1. [options EXCEPT !.ev = FALSE] \in Options
    <3>1. options \in Options
      BY DEF StoreTypeOK
    <3>2. QED
      BY <3>1 DEF Options
  <2>2. [id |-> controllers + 1, points |-> waypoints,
         options |-> [options EXCEPT !.ev = FALSE]] \in Computes
    BY <2>1 DEF Computes, ComputeTypeOK, StoreTypeOK
  <2>3. altRequests' \subseteq Computes /\ altList' \subseteq RouteValues
    BY <1>5, <2>2 DEF ShowAlternatives
  <2>4. altController' \in Nat /\ altDisabled' = TRUE
    BY <1>5 DEF ShowAlternatives, ComputeTypeOK
  <2>5. QED
    BY <2>3, <2>4
<1>6. CASE AltAnswered
  <2>1. \A a \in altRequests :
          [points |-> a.points, options |-> a.options, kind |-> "alternative"] \in RouteValues
    BY DEF Computes, RouteValues, Kinds
  <2>2. QED
    BY <1>6, <2>1 DEF AltAnswered
<1>7. CASE PickAlternative \/ ServeWrite \/ WriteAnswered \/ WriteMissing
  BY <1>7 DEF PickAlternative, ServeWrite, WriteAnswered, WriteMissing
<1>8. CASE SaveRoute \/ UpdateRoute
  BY <1>8 DEF SaveRoute, UpdateRoute, Send
<1>9. CASE WriteFailed \/ DeleteRoute \/ DeleteAnswered \/ DeleteFailed
  BY <1>9 DEF WriteFailed, DeleteRoute, DeleteAnswered, DeleteFailed
<1>10. CASE ImportStart \/ ImportFailed \/ TimerFires \/ PageHide \/ LoopChange
  BY <1>10 DEF ImportStart, ImportFailed, TimerFires, PageHide, LoopChange
<1>11. CASE ImportAnswered
  BY <1>11, <1>0 DEF ImportAnswered, UserChanged
<1>12. CASE Reload
  BY <1>12 DEF Reload
<1>13. QED
  BY <1>1, <1>2, <1>3, <1>4, <1>5, <1>6, <1>7, <1>8, <1>9, <1>10, <1>11, <1>12
     DEF Next

\* What an action of the editor does to the draft is an action of the
\* autosave, or nothing.
LEMMA Notifications ==
  ASSUME TypeOK, Screen' \in Draft!Screens, loop' = loop
  PROVE  /\ Draft!Notified(TRUE, TRUE) /\ Screen'.route \in {computedRoute, NoRoute}
            /\ Screen'.editing \in {editingRouteId, None} => Draft!UserChange
         /\ Draft!Notified(FALSE, TRUE) /\ Screen'.user = Screen.user
            /\ Screen'.editing \in {editingRouteId, None} => Draft!SilentChange
         /\ Draft!Notified(FALSE, FALSE) => UNCHANGED draftVars
<1>1. ASSUME Screen'.route \in {computedRoute, NoRoute},
             Screen'.editing \in {editingRouteId, None}
      PROVE  Screen' \in [user : UserParts, route : {Screen.route, NoRoute},
                          editing : {Screen.editing, None}, loop : {Screen.loop}]
  BY <1>1 DEF Screen, Draft!Screens
<1>2. ASSUME Screen'.user = Screen.user, Screen'.editing \in {editingRouteId, None}
      PROVE  Screen' \in [user : {Screen.user}, route : RouteValues \cup {NoRoute},
                          editing : {Screen.editing, None}, loop : {Screen.loop}]
  BY <1>2 DEF Screen, Draft!Screens
<1>3. /\ Draft!Notified(TRUE, TRUE) =>
            Draft!Notified(TRUE, Screen'.route # Screen.route)
      /\ Draft!Notified(FALSE, FALSE) => UNCHANGED draftVars
  <2>1. /\ dirty \in BOOLEAN /\ timer \in BOOLEAN /\ unsaved \in BOOLEAN
        /\ behind \in BOOLEAN
    BY DEF TypeOK, Draft!TypeOK
  <2>2. Screen'.loop = Screen.loop
    BY DEF Screen
  <2>3. QED
    BY <2>1, <2>2, Zenon DEF Draft!Notified, draftVars
<1>4. QED
  BY <1>1, <1>2, <1>3 DEF Draft!UserChange, Draft!SilentChange

\* Each action of the editor is an action of the autosave, or none.
LEMMA DraftStep == TypeOK /\ Next => [Draft!Next]_(Draft!vars)
<1> SUFFICES ASSUME TypeOK, Next PROVE [Draft!Next]_(Draft!vars)
  OBVIOUS
<1> USE DEF storeVars, draftVars, Draft!vars
<1>0. Screen' \in Draft!Screens
  BY StoreTypes DEF StoreTypeOK, Screen, Draft!Screens, UserParts
<1>a. ASSUME Draft!Notified(TRUE, TRUE), Recompute(waypoints', options'),
             editingRouteId' \in {editingRouteId, None}, loop' = loop
      PROVE  Draft!Next
  <2>1. Screen'.route \in {computedRoute, NoRoute}
    BY <1>a DEF Recompute, Screen
  <2>2. Screen'.editing \in {editingRouteId, None}
    BY <1>a DEF Screen
  <2>3. QED
    BY <1>0, <1>a, <2>1, <2>2, Notifications DEF Draft!Next
<1>b. ASSUME NEW r \in RouteValues \cup {NoRoute}, ShowRoute(r)
      PROVE  [Draft!Next]_(Draft!vars)
  <2>1. CASE r # NoRoute \/ computedRoute # NoRoute
    <3>1. Screen'.user = Screen.user /\ Screen'.editing = editingRouteId /\ loop' = loop
      BY <1>b DEF ShowRoute, Screen
    <3>2. Draft!Notified(FALSE, TRUE)
      BY <1>b, <2>1 DEF ShowRoute, Draft!Notified
    <3>3. QED
      BY <1>0, <3>1, <3>2, Notifications DEF Draft!Next
  <2>2. CASE r = NoRoute /\ computedRoute = NoRoute
    <3>1. Draft!Notified(FALSE, FALSE)
      BY <1>b, <2>2 DEF ShowRoute, Draft!Notified
    <3>2. QED
      BY <1>0, <1>b, <2>2, <3>1, Notifications DEF ShowRoute, Screen
  <2>3. QED
    BY <2>1, <2>2
<1>c. ASSUME LeaveEditMode PROVE [Draft!Next]_(Draft!vars)
  <2>1. CASE editingRouteId # None
    <3>1. Screen'.user = Screen.user /\ Screen'.editing = None /\ loop' = loop
      BY <1>c DEF LeaveEditMode, Screen
    <3>2. Draft!Notified(FALSE, TRUE)
      BY <1>c, <2>1 DEF LeaveEditMode, Draft!Notified
    <3>3. QED
      BY <1>0, <3>1, <3>2, Notifications DEF Draft!Next
  <2>2. CASE editingRouteId = None
    <3>1. Draft!Notified(FALSE, FALSE)
      BY <1>c, <2>2 DEF LeaveEditMode, Draft!Notified
    <3>2. QED
      BY <1>0, <1>c, <2>2, <3>1, Notifications DEF LeaveEditMode, Screen
  <2>3. QED
    BY <2>1, <2>2
<1>d. Draft!Discard /\ loop' = NoLoop => Draft!Next
  <2>1. loop' = NoLoop => Screen' \in [user : UserParts, route : RouteValues \cup {NoRoute},
                                       editing : RouteIds \cup {None}, loop : {NoLoop}]
    BY <1>0 DEF Screen, Draft!Screens
  <2>2. QED
    BY <2>1 DEF Draft!Next, Draft!Replace
<1>e. UNCHANGED <<storeVars, draftVars>> => UNCHANGED Draft!vars
  BY DEF Screen
<1>1. CASE EditPoints \/ EditOptions \/ UndoRedo \/ ImportAnswered
  BY <1>1, <1>a
     DEF EditPoints, EditOptions, UndoRedo, ImportAnswered, UserChanged
<1>2. CASE ResetRoute
  BY <1>2, <1>d DEF ResetRoute
<1>3. CASE ComputeAnswered
  <2>1. \A c \in computes :
          [points |-> c.points, options |-> c.options, kind |-> "computed"] \in RouteValues
    BY DEF TypeOK, ComputeTypeOK, Computes, RouteValues, Kinds
  <2>2. QED
    BY <1>3, <2>1, <1>b, <1>e DEF ComputeAnswered
<1>4. CASE ComputeFailed
  BY <1>4, <1>b, <1>e DEF ComputeFailed
<1>5. CASE OpenRoute \/ ServeOpen \/ OpenFailed \/ EnrichFailed
  BY <1>5, <1>e DEF OpenRoute, ServeOpen, OpenFailed, EnrichFailed
<1>6. CASE OpenAnswered
  <2>1. CASE UNCHANGED <<storeVars, computeVars, enriches, altVars,
                         saveDisabled, updateDisabled, draftVars>>
    BY <2>1, <1>e
  <2>2. ASSUME NEW o \in opens, ApplyLoadedRoute(o) PROVE Draft!Next
    BY <2>2, <1>d DEF ApplyLoadedRoute
  <2>3. QED
    BY <1>6, <2>1, <2>2, OpenAnsweredCases
<1>7. CASE EnrichAnswered
  <2>1. \A e \in enriches :
          [points |-> e.points, options |-> e.options, kind |-> "enriched"] \in RouteValues
    BY DEF TypeOK, OpenTypeOK, Enriches, RouteValues, Kinds
  <2>2. QED
    BY <1>7, <2>1, <1>b, <1>e DEF EnrichAnswered
<1>8. CASE ShowAlternatives \/ AltAnswered \/ AltFailed \/ ServeWrite
  BY <1>8, <1>e DEF ShowAlternatives, AltAnswered, AltFailed, ServeWrite
<1>9. CASE PickAlternative
  BY <1>9, <1>b DEF PickAlternative, TypeOK, AltTypeOK
<1>10. CASE SaveRoute \/ UpdateRoute
  BY <1>10, <1>e DEF SaveRoute, UpdateRoute, Send
<1>11. CASE WriteMissing
  BY <1>11, <1>c DEF WriteMissing
<1>12. CASE WriteFailed \/ DeleteRoute \/ DeleteFailed \/ ImportStart
  BY <1>12, <1>e DEF WriteFailed, DeleteRoute, DeleteFailed, ImportStart
<1>13. CASE DeleteAnswered
  BY <1>13, <1>c, <1>e DEF DeleteAnswered
<1>14. CASE ImportFailed
  BY <1>14, <1>e DEF ImportFailed
<1>15. CASE TimerFires
  <2>1. UNCHANGED Screen
    BY <1>15 DEF TimerFires, Screen
  <2>2. QED
    BY <1>15, <2>1 DEF TimerFires, Draft!Next, Draft!TimerFires
<1>16. CASE PageHide
  <2>1. UNCHANGED Screen
    BY <1>16 DEF PageHide, Screen
  <2>2. QED
    BY <1>16, <2>1 DEF PageHide, Draft!Next, Draft!PageHide
<1>17. CASE WriteAnswered
  <2>1. Draft!Discard /\ UNCHANGED <<waypoints, options, computedRoute, loop>>
        /\ editingRouteId' \in {editingRouteId, None}
    BY <1>17 DEF WriteAnswered
  <2>2. Screen' \in {Screen, [Screen EXCEPT !.editing = None]}
    BY <2>1 DEF Screen
  <2>3. QED
    BY <2>1, <2>2 DEF Draft!Next, Draft!Saved
<1>18. CASE LoopChange
  <2>1. Screen' = [Screen EXCEPT !.loop = loop'] /\ loop' \in Loops
    BY <1>18 DEF LoopChange, Screen
  <2>2. Draft!Notified(FALSE, FALSE)
    BY <1>18 DEF LoopChange
  <2>3. QED
    BY <2>1, <2>2 DEF Draft!Next, Draft!LoopChange
<1>19. CASE Reload
  <2>1. Screen' \in Draft!Restorations(draft)
    <3>1. CASE draft = NoDraft \/ NumPoints[draft.user.points] = 0
      <4>1. Screen' = Draft!Fresh
        BY <1>19, <3>1 DEF Reload, Restore, Draft!Fresh, Screen
      <4>2. draft = NoDraft \/ draft.user \in {u \in UserParts : NumPoints[u.points] = 0}
        BY <3>1 DEF TypeOK, Draft!TypeOK, Draft!Screens
      <4>3. QED
        BY <4>1, <4>2 DEF Draft!Restorations
    <3>2. CASE draft # NoDraft /\ NumPoints[draft.user.points] # 0
      <4>1. PICK keep \in BOOLEAN : Restore(draft, keep)
        BY <1>19, <3>2 DEF Reload, Keeps
      <4>2. draft \in [user : UserParts, route : RouteValues \cup {NoRoute},
                       editing : RouteIds \cup {None}, loop : Loops]
        BY <3>2 DEF TypeOK, Draft!TypeOK, Draft!Screens
      <4>3. Screen' = [draft EXCEPT !.route = IF keep THEN draft.route ELSE NoRoute]
        BY <4>1, <4>2 DEF Restore, Screen, UserParts
      <4>4. Screen' \in {draft, [draft EXCEPT !.route = NoRoute]}
        BY <4>2, <4>3
      <4>5. QED
        BY <3>2, <4>4 DEF Draft!Restorations
    <3>3. QED
      BY <3>1, <3>2
  <2>2. QED
    BY <1>19, <2>1 DEF Reload, Draft!Next, Draft!Reload
<1>20. QED
  BY <1>1, <1>2, <1>3, <1>4, <1>5, <1>6, <1>7, <1>8, <1>9, <1>10, <1>11,
     <1>12, <1>13, <1>14, <1>15, <1>16, <1>17, <1>18, <1>19
     DEF Next

\* The draft keeps its types.
LEMMA DraftTypes == TypeOK /\ Next => Draft!TypeOK'
<1> SUFFICES ASSUME TypeOK, Next PROVE Draft!TypeOK'
  OBVIOUS
<1> USE DEF TypeOK, Draft!TypeOK
<1>0. Screen' \in Draft!Screens
  BY StoreTypes DEF StoreTypeOK, Screen, Draft!Screens, UserParts
<1>1. CASE Draft!Flush
  <2>1. CASE ~dirty
    BY <1>0, <1>1, <2>1 DEF Draft!Flush
  <2>2. CASE dirty
    <3>1. /\ lastWrite' \in Writes
          /\ draft' \in {Screen, [Screen EXCEPT !.route = NoRoute], draft}
          /\ behind' \in BOOLEAN
      BY <1>1, <2>2, EditorAssumption DEF Draft!Flush, Draft!Store
    <3>2. [Screen EXCEPT !.route = NoRoute] \in Draft!Screens
      BY DEF Draft!Screens
    <3>3. QED
      BY <1>0, <1>1, <3>1, <3>2 DEF Draft!Flush
  <2>3. QED
    BY <2>1, <2>2
<1>2. ASSUME NEW u \in BOOLEAN, NEW t \in BOOLEAN, Draft!Notified(u, t)
      PROVE  Draft!TypeOK'
  <2>1. /\ dirty' \in BOOLEAN /\ timer' \in BOOLEAN /\ unsaved' \in BOOLEAN
        /\ behind' \in BOOLEAN
    BY <1>2, Zenon DEF Draft!Notified
  <2>2. QED
    BY <1>0, <1>2, <2>1 DEF Draft!Notified
<1>3. CASE Draft!Discard
  BY <1>0, <1>3 DEF Draft!Discard
<1>4. CASE Draft!Reload
  BY <1>0, <1>4 DEF Draft!Reload
<1>5. CASE UNCHANGED Draft!vars
  BY <1>5 DEF Draft!vars
<1>6. QED
  BY <1>1, <1>2, <1>3, <1>4, <1>5, DraftStep
     DEF Draft!Next, Draft!UserChange, Draft!SilentChange, Draft!LoopChange,
         Draft!Replace, Draft!Saved, Draft!TimerFires, Draft!PageHide

\* Rows, requests and buttons keep their types.
LEMMA SaveTypes == TypeOK /\ Next => SaveTypeOK'
<1> SUFFICES ASSUME TypeOK, Next PROVE SaveTypeOK'
  OBVIOUS
<1> USE DEF TypeOK, SaveTypeOK, saveVars
<1>a. ASSUME NEW b \in BOOLEAN, ButtonsFollow(b)
      PROVE  saveDisabled' \in BOOLEAN /\ updateDisabled' \in BOOLEAN
  BY <1>a DEF ButtonsFollow
<1>b. ASSUME NEW w \in writes, Release(w)
      PROVE  saveDisabled' \in BOOLEAN /\ updateDisabled' \in BOOLEAN
  BY <1>b DEF Release
<1>c. \A t \in RouteIds \cup {None} :
        computedRoute # NoRoute /\ Send(t) => writes' \subseteq WriteRequests
  <2> SUFFICES ASSUME NEW t \in RouteIds \cup {None}, computedRoute # NoRoute, Send(t)
               PROVE  writes' \subseteq WriteRequests
    OBVIOUS
  <2>1. [computedRoute EXCEPT !.kind = "loaded"] \in RouteValues
    BY DEF StoreTypeOK, RouteValues, Kinds
  <2>2. [points |-> waypoints, options |-> options,
         route |-> [computedRoute EXCEPT !.kind = "loaded"]] \in Rows
    BY <2>1 DEF StoreTypeOK, Rows
  <2>3. QED
    BY <2>2 DEF Send, WriteRequests, ComputeTypeOK
<1>d. \A w \in writes, s \in {"sent", "done", "missing", "orphan"} :
        [w EXCEPT !.state = s] \in WriteRequests
  BY DEF WriteRequests
<1>1. CASE EditPoints \/ EditOptions \/ UndoRedo \/ ImportAnswered
  <2>1. ButtonsFollow(computedRoute' # computedRoute)
    BY <1>1 DEF EditPoints, EditOptions, UndoRedo, ImportAnswered, UserChanged
  <2>2. saveDisabled' \in BOOLEAN /\ updateDisabled' \in BOOLEAN
    BY <2>1, <1>a
  <2>3. QED
    BY <1>1, <2>2 DEF EditPoints, EditOptions, UndoRedo, ImportAnswered
<1>2. CASE ResetRoute
  <2>1. saveDisabled' \in BOOLEAN /\ updateDisabled' \in BOOLEAN
    BY <1>2, <1>a DEF ResetRoute
  <2>2. QED
    BY <1>2, <2>1 DEF ResetRoute
<1>3. CASE ComputeAnswered \/ ComputeFailed \/ EnrichAnswered
           \/ PickAlternative
  <2>1. saveDisabled' \in BOOLEAN /\ updateDisabled' \in BOOLEAN
    BY <1>3, <1>a
       DEF ComputeAnswered, ComputeFailed, EnrichAnswered, PickAlternative,
           ShowRoute
  <2>2. QED
    BY <1>3, <2>1
       DEF ComputeAnswered, ComputeFailed, EnrichAnswered, PickAlternative
<1>4. CASE OpenRoute \/ ServeOpen \/ OpenFailed \/ EnrichFailed
  BY <1>4 DEF OpenRoute, ServeOpen, OpenFailed, EnrichFailed
<1>5. CASE OpenAnswered
  <2>1. saveDisabled' \in BOOLEAN /\ updateDisabled' \in BOOLEAN
    BY <1>5, <1>a, OpenAnsweredCases DEF ApplyLoadedRoute
  <2>2. QED
    BY <1>5, <2>1 DEF OpenAnswered
<1>6. CASE ShowAlternatives \/ AltAnswered \/ AltFailed \/ DeleteRoute
  BY <1>6 DEF ShowAlternatives, AltAnswered, AltFailed, DeleteRoute
<1>7. CASE SaveRoute
  BY <1>7, <1>c DEF SaveRoute, Send
<1>8. CASE UpdateRoute
  BY <1>8, <1>c DEF UpdateRoute, Send, StoreTypeOK
<1>9. CASE ServeWrite
  <2>1. PICK w \in writes :
          /\ \/ saved' = saved
             \/ \E i \in RouteIds : saved' = [saved EXCEPT ![i] = w.row]
          /\ \E outcome \in {"done", "missing"} : Served(w, outcome)
          /\ UNCHANGED <<saveDisabled, updateDisabled, deletes, imports>>
    BY <1>9 DEF ServeWrite, WriteRequests
  <2>2. w.row \in Rows
    BY DEF WriteRequests
  <2>3. writes' \subseteq WriteRequests
    <3>1. PICK outcome \in {"done", "missing"} : Served(w, outcome)
      BY <2>1
    <3>2. writes' \subseteq writes \cup {[w EXCEPT !.state = outcome]}
      BY <3>1 DEF Served
    <3>3. [w EXCEPT !.state = outcome] \in WriteRequests
      BY DEF WriteRequests
    <3>4. QED
      BY <3>2, <3>3
  <2>4. QED
    BY <2>1, <2>2, <2>3
<1>10. CASE WriteAnswered \/ WriteMissing
  <2>1. saveDisabled' \in BOOLEAN /\ updateDisabled' \in BOOLEAN
    BY <1>10, <1>b DEF WriteAnswered, WriteMissing
  <2>2. QED
    BY <1>10, <2>1 DEF WriteAnswered, WriteMissing
<1>11. CASE WriteFailed
  <2>1. saveDisabled' \in BOOLEAN /\ updateDisabled' \in BOOLEAN
    BY <1>11, <1>b DEF WriteFailed
  <2>2. QED
    BY <1>11, <2>1, <1>d DEF WriteFailed
<1>12. CASE DeleteAnswered \/ DeleteFailed \/ ImportStart \/ ImportFailed
  BY <1>12 DEF DeleteAnswered, DeleteFailed, ImportStart, ImportFailed
<1>13. CASE TimerFires \/ PageHide \/ LoopChange
  BY <1>13 DEF TimerFires, PageHide, LoopChange
<1>14. CASE Reload
  <2>1. PICK kept \in SUBSET {w \in writes : w.state = "sent"} :
          writes' = {w \in writes : w.state = "orphan"}
                    \cup {[w EXCEPT !.state = "orphan"] : w \in kept}
    BY <1>14 DEF Reload
  <2>2. writes' \subseteq WriteRequests
    BY <2>1, <1>d
  <2>3. QED
    BY <1>14, <2>2 DEF Reload
<1>15. QED
  BY <1>1, <1>2, <1>3, <1>4, <1>5, <1>6, <1>7, <1>8, <1>9, <1>10, <1>11,
     <1>12, <1>13, <1>14
     DEF Next

\* The bounds keep their types.
LEMMA BudgetTypes == TypeOK /\ Next => BudgetTypeOK'
<1> SUFFICES ASSUME TypeOK, Next PROVE BudgetTypeOK'
  OBVIOUS
<1> USE SpendTypes DEF Bounded
<1>1. CASE EditPoints \/ EditOptions \/ UndoRedo \/ ResetRoute
  BY <1>1 DEF EditPoints, EditOptions, UndoRedo, ResetRoute
<1>2. CASE ComputeAnswered \/ ComputeFailed \/ ServeOpen \/ OpenAnswered
  BY <1>2
     DEF ComputeAnswered, ComputeFailed, ServeOpen, OpenAnswered, TypeOK,
         BudgetTypeOK
<1>3. CASE OpenRoute \/ ShowAlternatives \/ SaveRoute \/ UpdateRoute
  BY <1>3 DEF OpenRoute, ShowAlternatives, SaveRoute, UpdateRoute
<1>4. CASE OpenFailed \/ EnrichAnswered \/ EnrichFailed \/ AltAnswered
  BY <1>4
     DEF OpenFailed, EnrichAnswered, EnrichFailed, AltAnswered, TypeOK,
         BudgetTypeOK
<1>5. CASE AltFailed \/ PickAlternative \/ ServeWrite \/ WriteAnswered
  BY <1>5
     DEF AltFailed, PickAlternative, ServeWrite, WriteAnswered, TypeOK,
         BudgetTypeOK
<1>6. CASE WriteMissing \/ WriteFailed \/ DeleteAnswered \/ DeleteFailed
  BY <1>6
     DEF WriteMissing, WriteFailed, DeleteAnswered, DeleteFailed, TypeOK,
         BudgetTypeOK
<1>7. CASE DeleteRoute \/ ImportStart \/ LoopChange \/ Reload
  BY <1>7 DEF DeleteRoute, ImportStart, LoopChange, Reload
<1>8. CASE ImportAnswered \/ ImportFailed \/ TimerFires \/ PageHide
  BY <1>8
     DEF ImportAnswered, ImportFailed, TimerFires, PageHide, TypeOK,
         BudgetTypeOK
<1>9. QED
  BY <1>1, <1>2, <1>3, <1>4, <1>5, <1>6, <1>7, <1>8 DEF Next

\* All parts of TypeOK are kept by a step.
LEMMA StepTypeOK == TypeOK /\ [Next]_vars => TypeOK'
<1>1. TypeOK /\ Next => TypeOK'
  BY StoreTypes, ComputeTypes, OpenTypes, AltTypes, SaveTypes, DraftTypes,
     BudgetTypes DEF TypeOK
<1>2. TypeOK /\ UNCHANGED vars => TypeOK'
  BY DEF TypeOK, StoreTypeOK, ComputeTypeOK, OpenTypeOK, AltTypeOK,
         SaveTypeOK, Draft!TypeOK, BudgetTypeOK, vars, storeVars, computeVars,
         openVars, altVars, saveVars, draftVars, Screen
<1>3. QED
  BY <1>1, <1>2

\* All parts of TypeOK hold on a page opened for the first time.
LEMMA InitTypeOK == Init => TypeOK
<1> SUFFICES ASSUME Init PROVE TypeOK
  OBVIOUS
<1> USE EditorAssumption DEF Init
<1>1. StoreTypeOK /\ ComputeTypeOK /\ OpenTypeOK /\ AltTypeOK
  BY DEF StoreTypeOK, ComputeTypeOK, OpenTypeOK, AltTypeOK
<1>2. SaveTypeOK /\ BudgetTypeOK
  BY DEF SaveTypeOK, BudgetTypeOK
<1>3. Draft!TypeOK
  <2>1. Screen \in Draft!Screens
    BY <1>1 DEF StoreTypeOK, Screen, Draft!Screens, UserParts
  <2>2. QED
    BY <2>1 DEF Draft!TypeOK
<1>4. QED
  BY <1>1, <1>2, <1>3 DEF TypeOK

\* Every variable of the editor keeps its type.
THEOREM TypeCorrect == Spec => []TypeOK
  BY InitTypeOK, StepTypeOK, PTL DEF Spec

\* The editor uses the draft as DraftAutosave says.
THEOREM DraftImplementation == Spec => ImplementsDraftAutosave
<1>1. Init => Draft!Init
  BY DEF Init, Draft!Init, Draft!Fresh, Screen
<1>2. TypeOK /\ [Next]_vars => [Draft!Next]_(Draft!vars)
  <2>1. UNCHANGED vars => UNCHANGED Draft!vars
    BY DEF vars, storeVars, draftVars, Draft!vars, Screen
  <2>2. QED
    BY <2>1, DraftStep
<1>3. QED
  BY <1>1, <1>2, TypeCorrect, PTL DEF Spec, Draft!Spec, ImplementsDraftAutosave

-----------------------------------------------------------------------------
(* The inductive invariant. *)

\* Only the current computation can still be applied, and it is for the
\* points and options on screen; the next one gets a new identity.
ComputesFresh ==
  \A c \in computes :
    /\ c.id > 0 /\ c.id <= controllers
    /\ c.id = routeController => c.points = waypoints /\ c.options = options

\* The array of points says whether an enrichment is still about the screen.
EnrichesFollowRef ==
  \A e \in enriches : e.ref <= ref /\ (e.ref = ref => e.points = waypoints)

AlternativesFresh ==
  /\ \A r \in altList :
       /\ r.points = waypoints /\ NumPoints[r.points] = 2
       /\ r.kind = "alternative"
  /\ \A a \in altRequests :
       /\ a.id > 0 /\ a.id <= controllers
       /\ a.id = altController => a.points = waypoints /\ NumPoints[a.points] = 2

\* What is stored fits together, or is one of the mismatches of the history.
Fitting(m, p, o, r) ==
  Fits(p, o, r) \/ <<p, o, r.points, r.options>> \in m

RowsFit(m, rows) ==
  \A row \in rows : Fitting(m, row.points, row.options, row.route)

DraftFits(m, d) ==
  d # NoDraft /\ d.route # NoRoute =>
    Fitting(m, d.user.points, d.user.options, d.route)

StoredFit ==
  /\ RowsFit(mixed, {saved[i] : i \in RouteIds} \ {NoRow})
  /\ RowsFit(mixed, {w.row : w \in writes})
  /\ RowsFit(mixed, {o.row : o \in opens} \ {NotServed, NoRow})
  /\ DraftFits(mixed, draft)

\* At most one opening can still be applied, and it is the wanted one.
OpensOrdered ==
  /\ \A o \in opens :
       /\ o.seq <= loadSeq
       /\ o.seq = loadSeq => wanted = IF o.edit THEN o.id ELSE None
  /\ \A o, p \in opens : o.seq = loadSeq /\ p.seq = loadSeq => o = p

IInv ==
  /\ TypeOK
  /\ ComputesFresh
  /\ EnrichesFollowRef
  /\ AlternativesFresh
  /\ StoredFit
  /\ OpensOrdered
  /\ RouteMatchesScreen
  /\ EditModeFollowsLastOpen

\* The invariant holds on a page opened for the first time.
LEMMA InitIInv == Init => IInv
<1> SUFFICES ASSUME Init PROVE IInv
  OBVIOUS
<1>1. TypeOK
  BY InitTypeOK
<1>2. ComputesFresh /\ EnrichesFollowRef /\ AlternativesFresh /\ OpensOrdered
  BY DEF Init, ComputesFresh, EnrichesFollowRef, AlternativesFresh, OpensOrdered
<1>3. StoredFit
  <2>1. \A i \in RouteIds : Stock[i] # NoRow =>
          Fits(Stock[i].points, Stock[i].options, Stock[i].route)
    <3> SUFFICES ASSUME NEW i \in RouteIds, Stock[i] # NoRow
                 PROVE  Fits(Stock[i].points, Stock[i].options, Stock[i].route)
      OBVIOUS
    <3>1. Stock[i].route = [points |-> Stock[i].points,
                            options |-> Stock[i].options, kind |-> "loaded"]
      BY EditorAssumption
    <3>2. QED
      BY <3>1 DEF Fits
  <2>2. QED
    BY <2>1 DEF Init, StoredFit, RowsFit, DraftFits, Fitting
<1>4. RouteMatchesScreen /\ EditModeFollowsLastOpen
  BY DEF Init, RouteMatchesScreen, EditModeFollowsLastOpen
<1>5. QED
  BY <1>1, <1>2, <1>3, <1>4 DEF IInv

\* A change of points or options cancels or replaces the live computation.
LEMMA ComputesStep == IInv /\ Next => ComputesFresh'
<1> SUFFICES ASSUME IInv, Next PROVE ComputesFresh'
  OBVIOUS
<1> USE DEF IInv, TypeOK, ComputeTypeOK, Computes, ComputesFresh, storeVars, computeVars
<1>a. Recompute(waypoints', options') => ComputesFresh'
  BY DEF Recompute
<1>1. CASE EditPoints \/ EditOptions \/ UndoRedo \/ ResetRoute
  BY <1>1, <1>a DEF EditPoints, EditOptions, UndoRedo, ResetRoute, UserChanged
<1>2. CASE ComputeAnswered \/ ComputeFailed \/ EnrichAnswered
           \/ PickAlternative
  BY <1>2
     DEF ComputeAnswered, ComputeFailed, EnrichAnswered, PickAlternative,
         ShowRoute
<1>3. CASE OpenRoute \/ ServeOpen \/ OpenFailed \/ EnrichFailed
  BY <1>3 DEF OpenRoute, ServeOpen, OpenFailed, EnrichFailed
<1>4. CASE OpenAnswered
  <2>1. CASE UNCHANGED <<storeVars, computeVars, enriches, altVars,
                         saveDisabled, updateDisabled, draftVars>>
    BY <2>1
  <2>2. ASSUME NEW o \in opens, o.row \notin {NotServed, NoRow},
               o.seq = loadSeq, ApplyLoadedRoute(o)
        PROVE  ComputesFresh'
    BY <2>2 DEF ApplyLoadedRoute
  <2>3. QED
    BY <1>4, <2>1, <2>2, OpenAnsweredCases
<1>5. CASE ShowAlternatives \/ AltAnswered \/ AltFailed \/ ServeWrite
  BY <1>5 DEF ShowAlternatives, AltAnswered, AltFailed, ServeWrite
<1>6. CASE SaveRoute \/ UpdateRoute
  BY <1>6 DEF SaveRoute, UpdateRoute, Send
<1>7. CASE WriteAnswered \/ WriteFailed \/ DeleteRoute \/ DeleteFailed
  BY <1>7 DEF WriteAnswered, WriteFailed, DeleteRoute, DeleteFailed
<1>8. CASE WriteMissing \/ DeleteAnswered
  BY <1>8 DEF WriteMissing, DeleteAnswered, LeaveEditMode
<1>9. CASE ImportStart \/ ImportFailed \/ TimerFires \/ PageHide \/ LoopChange
  BY <1>9 DEF ImportStart, ImportFailed, TimerFires, PageHide, LoopChange
<1>10. CASE ImportAnswered
  BY <1>10, <1>a DEF ImportAnswered, UserChanged
<1>11. CASE Reload
  <2>1. \A d, keep : Restore(d, keep) => ComputesFresh'
    BY DEF Restore
  <2>2. QED
    BY <1>11, <2>1 DEF Reload
<1>12. QED
  BY <1>1, <1>2, <1>3, <1>4, <1>5, <1>6, <1>7, <1>8, <1>9, <1>10, <1>11
     DEF Next

\* A new array of points never takes the identity of an older one.
LEMMA EnrichesStep == IInv /\ Next => EnrichesFollowRef'
<1> SUFFICES ASSUME IInv, Next PROVE EnrichesFollowRef'
  OBVIOUS
<1> USE DEF IInv, TypeOK, StoreTypeOK, OpenTypeOK, Enriches, EnrichesFollowRef,
            storeVars, openVars
<1>1. CASE EditPoints \/ EditOptions \/ UndoRedo \/ ResetRoute
  BY <1>1 DEF EditPoints, EditOptions, UndoRedo, ResetRoute
<1>2. CASE ComputeAnswered \/ ComputeFailed \/ EnrichAnswered
           \/ PickAlternative
  BY <1>2
     DEF ComputeAnswered, ComputeFailed, EnrichAnswered, PickAlternative,
         ShowRoute
<1>3. CASE OpenRoute \/ ServeOpen \/ OpenFailed \/ EnrichFailed
  BY <1>3 DEF OpenRoute, ServeOpen, OpenFailed, EnrichFailed
<1>4. CASE OpenAnswered
  <2>1. CASE UNCHANGED <<storeVars, computeVars, enriches, altVars,
                         saveDisabled, updateDisabled, draftVars>>
    BY <2>1
  <2>2. ASSUME NEW o \in opens, o.row \notin {NotServed, NoRow},
               o.seq = loadSeq, ApplyLoadedRoute(o)
        PROVE  EnrichesFollowRef'
    BY <2>2 DEF ApplyLoadedRoute
  <2>3. QED
    BY <1>4, <2>1, <2>2, OpenAnsweredCases
<1>5. CASE ShowAlternatives \/ AltAnswered \/ AltFailed \/ ServeWrite
  BY <1>5 DEF ShowAlternatives, AltAnswered, AltFailed, ServeWrite
<1>6. CASE SaveRoute \/ UpdateRoute
  BY <1>6 DEF SaveRoute, UpdateRoute, Send
<1>7. CASE WriteAnswered \/ WriteFailed \/ DeleteRoute \/ DeleteFailed
  BY <1>7 DEF WriteAnswered, WriteFailed, DeleteRoute, DeleteFailed
<1>8. CASE WriteMissing \/ DeleteAnswered
  BY <1>8 DEF WriteMissing, DeleteAnswered, LeaveEditMode
<1>9. CASE ImportStart \/ ImportAnswered \/ ImportFailed \/ TimerFires
  BY <1>9 DEF ImportStart, ImportAnswered, ImportFailed, TimerFires
<1>10. CASE PageHide \/ LoopChange \/ Reload
  BY <1>10 DEF PageHide, LoopChange, Reload
<1>11. QED
  BY <1>1, <1>2, <1>3, <1>4, <1>5, <1>6, <1>7, <1>8, <1>9, <1>10 DEF Next

\* New points empty the panel and forget its request.
LEMMA AlternativesStep == IInv /\ Next => AlternativesFresh'
<1> SUFFICES ASSUME IInv, Next PROVE AlternativesFresh'
  OBVIOUS
<1> USE DEF IInv, TypeOK, StoreTypeOK, ComputeTypeOK, AltTypeOK, Computes,
            AlternativesFresh, storeVars, computeVars, altVars
<1>a. ASSUME AlternativesFollow, ref' # ref \/ waypoints' = waypoints,
             controllers' \in Nat, controllers' >= controllers
      PROVE  AlternativesFresh'
  BY <1>a DEF AlternativesFollow, ResetAlternatives
<1>b. Recompute(waypoints', options') => controllers' \in Nat /\ controllers' >= controllers
  BY DEF Recompute
<1>1. CASE EditPoints \/ EditOptions \/ UndoRedo \/ ResetRoute
  <2>1. ref' # ref \/ waypoints' = waypoints
    BY <1>1 DEF EditPoints, EditOptions, UndoRedo, ResetRoute
  <2>2. QED
    BY <1>1, <1>a, <1>b, <2>1
       DEF EditPoints, EditOptions, UndoRedo, ResetRoute, UserChanged
<1>2. CASE ComputeAnswered \/ ComputeFailed \/ EnrichAnswered
           \/ PickAlternative
  BY <1>2
     DEF ComputeAnswered, ComputeFailed, EnrichAnswered, PickAlternative,
         ShowRoute
<1>3. CASE OpenRoute \/ ServeOpen \/ OpenFailed \/ EnrichFailed
  BY <1>3 DEF OpenRoute, ServeOpen, OpenFailed, EnrichFailed
<1>4. CASE OpenAnswered
  <2>1. CASE UNCHANGED <<storeVars, computeVars, enriches, altVars,
                         saveDisabled, updateDisabled, draftVars>>
    BY <2>1
  <2>2. ASSUME NEW o \in opens, o.row \notin {NotServed, NoRow},
               o.seq = loadSeq, ApplyLoadedRoute(o)
        PROVE  AlternativesFresh'
    BY <2>2, <1>a DEF ApplyLoadedRoute
  <2>3. QED
    BY <1>4, <2>1, <2>2, OpenAnsweredCases
<1>5. CASE ShowAlternatives
  BY <1>5 DEF ShowAlternatives, Offered
<1>6. CASE AltAnswered \/ AltFailed \/ ServeWrite \/ WriteAnswered
  BY <1>6 DEF AltAnswered, AltFailed, ServeWrite, WriteAnswered
<1>7. CASE SaveRoute \/ UpdateRoute
  BY <1>7 DEF SaveRoute, UpdateRoute, Send
<1>8. CASE WriteMissing \/ DeleteAnswered
  BY <1>8 DEF WriteMissing, DeleteAnswered, LeaveEditMode
<1>9. CASE WriteFailed \/ DeleteRoute \/ DeleteFailed \/ ImportStart
  BY <1>9 DEF WriteFailed, DeleteRoute, DeleteFailed, ImportStart
<1>10. CASE ImportAnswered
  <2>1. ref' # ref \/ waypoints' = waypoints
    BY <1>10 DEF ImportAnswered
  <2>2. QED
    BY <1>10, <1>a, <1>b, <2>1 DEF ImportAnswered, UserChanged
<1>11. CASE ImportFailed \/ TimerFires \/ PageHide \/ LoopChange \/ Reload
  BY <1>11 DEF ImportFailed, TimerFires, PageHide, LoopChange, Reload
<1>12. QED
  BY <1>1, <1>2, <1>3, <1>4, <1>5, <1>6, <1>7, <1>8, <1>9, <1>10, <1>11
     DEF Next

-----------------------------------------------------------------------------
(* What is stored. *)

\* What a step may put in the rows, the requests and the draft.
StoredEffects ==
  /\ mixed \subseteq mixed'
  /\ \A i \in RouteIds : saved'[i] \in {saved[i], NoRow} \cup {w.row : w \in writes}
  /\ \A w \in writes' :
       (\E v \in writes : w.row = v.row) \/ RowsFit(mixed', {w.row})
  /\ \A o \in opens' :
       o.row \in {NotServed} \cup {saved[i] : i \in RouteIds} \cup {p.row : p \in opens}
  /\ draft' \in {draft, NoDraft} \/ DraftFits(mixed', draft')

\* Every action stores what was on screen, what was stored already, or nothing.
LEMMA NextStores == IInv /\ Next => StoredEffects
<1> SUFFICES ASSUME IInv, Next PROVE StoredEffects
  OBVIOUS
<1> USE DEF StoredEffects, storeVars, computeVars, openVars, altVars, saveVars, draftVars
<1>a. \A t \in RouteIds \cup {None} : computedRoute # NoRoute /\ Send(t) => StoredEffects
  <2> SUFFICES ASSUME NEW t \in RouteIds \cup {None}, computedRoute # NoRoute, Send(t)
               PROVE  StoredEffects
    OBVIOUS
  <2> DEFINE r == [computedRoute EXCEPT !.kind = "loaded"]
             row == [points |-> waypoints, options |-> options, route |-> r]
  <2>1. Fitting(mixed', row.points, row.options, row.route)
    <3>1. computedRoute \in RouteValues
      BY DEF IInv, TypeOK, StoreTypeOK
    <3>2. r.points = computedRoute.points /\ r.options = computedRoute.options
      BY <3>1 DEF RouteValues
    <3>3. Fitting(mixed', waypoints, options, computedRoute)
      BY DEF Send, Mismatch, Fitting
    <3>4. Fitting(mixed', waypoints, options, r)
      BY <3>2, <3>3 DEF Fitting, Fits
    <3>5. QED
      BY <3>4
  <2>2. QED
    BY <2>1 DEF Send, RowsFit
<1>b. Draft!Flush /\ MixedDraft => DraftFits(mixed', draft') /\ mixed \subseteq mixed'
  BY DEF MixedDraft, Mismatch, DraftFits, Fitting
<1>c. ASSUME NEW w \in writes, NEW s, Served(w, s)
      PROVE  \A x \in writes' : \E v \in writes : x.row = v.row
  <2>1. [w EXCEPT !.state = s].row = w.row
    BY DEF IInv, TypeOK, SaveTypeOK, WriteRequests
  <2>2. QED
    BY <1>c, <2>1 DEF Served
<1>d. \A w \in writes : [w EXCEPT !.state = "orphan"].row = w.row
  BY DEF IInv, TypeOK, SaveTypeOK, WriteRequests
<1>1. CASE EditPoints \/ EditOptions \/ UndoRedo \/ ImportAnswered
  BY <1>1
     DEF EditPoints, EditOptions, UndoRedo, ImportAnswered, UserChanged,
         Draft!Notified
<1>2. CASE ResetRoute \/ WriteAnswered
  BY <1>2 DEF ResetRoute, WriteAnswered, Draft!Discard
<1>3. CASE ComputeAnswered \/ ComputeFailed \/ EnrichAnswered
           \/ PickAlternative
  BY <1>3
     DEF ComputeAnswered, ComputeFailed, EnrichAnswered, PickAlternative,
         ShowRoute, Draft!Notified
<1>4. CASE OpenRoute \/ OpenFailed \/ EnrichFailed \/ ShowAlternatives
  BY <1>4 DEF OpenRoute, OpenFailed, EnrichFailed, ShowAlternatives
<1>5. CASE ServeOpen
  <2>1. \A o \in opens : [o EXCEPT !.row = saved[o.id]].row = saved[o.id] /\ o.id \in RouteIds
    BY DEF IInv, TypeOK, OpenTypeOK, Opens
  <2>2. QED
    BY <1>5, <2>1 DEF ServeOpen
<1>6. CASE OpenAnswered
  <2>1. draft' \in {draft, NoDraft}
    BY <1>6, OpenAnsweredCases DEF ApplyLoadedRoute, Draft!Discard
  <2>2. QED
    BY <1>6, <2>1 DEF OpenAnswered
<1>7. CASE AltAnswered \/ AltFailed \/ DeleteFailed \/ ImportStart
  BY <1>7 DEF AltAnswered, AltFailed, DeleteFailed, ImportStart
<1>8. CASE SaveRoute
  BY <1>8, <1>a DEF SaveRoute
<1>9. CASE UpdateRoute
  <2>1. editingRouteId \in RouteIds \cup {None}
    BY DEF IInv, TypeOK, StoreTypeOK
  <2>2. QED
    BY <1>9, <1>a, <2>1 DEF UpdateRoute
<1>10. CASE ServeWrite
  <2>1. PICK w \in writes :
          /\ \/ saved' = saved
             \/ \E i \in RouteIds : saved' = [saved EXCEPT ![i] = w.row]
          /\ \E outcome \in {"done", "missing"} : Served(w, outcome)
          /\ UNCHANGED <<opens, draft, mixed>>
    BY <1>10 DEF ServeWrite, IInv, TypeOK, SaveTypeOK, WriteRequests
  <2>2. \A i \in RouteIds : saved'[i] \in {saved[i], w.row}
    BY <2>1 DEF IInv, TypeOK, SaveTypeOK
  <2>3. \A x \in writes' : \E v \in writes : x.row = v.row
    BY <2>1, <1>c
  <2>4. QED
    BY <2>1, <2>2, <2>3
<1>11. CASE WriteMissing \/ DeleteAnswered
  BY <1>11 DEF WriteMissing, DeleteAnswered, LeaveEditMode, Draft!Notified
<1>12. CASE WriteFailed
  BY <1>12, <1>d DEF WriteFailed
<1>13. CASE DeleteRoute
  <2>1. \A i \in RouteIds : saved'[i] \in {saved[i], NoRow}
    BY <1>13 DEF DeleteRoute, IInv, TypeOK, SaveTypeOK
  <2>2. QED
    BY <1>13, <2>1 DEF DeleteRoute
<1>14. CASE ImportFailed \/ LoopChange
  BY <1>14 DEF ImportFailed, LoopChange, Draft!Notified
<1>15. CASE TimerFires \/ PageHide
  BY <1>15, <1>b DEF TimerFires, PageHide
<1>16. CASE Reload
  <2>1. PICK kept \in SUBSET {w \in writes : w.state = "sent"} :
          writes' = {w \in writes : w.state = "orphan"}
                    \cup {[w EXCEPT !.state = "orphan"] : w \in kept}
    BY <1>16 DEF Reload
  <2>2. \A x \in writes' : \E v \in writes : x.row = v.row
    BY <1>d, <2>1
  <2>3. QED
    BY <1>16, <2>2 DEF Reload
<1>17. QED
  BY <1>1, <1>2, <1>3, <1>4, <1>5, <1>6, <1>7, <1>8, <1>9, <1>10, <1>11,
     <1>12, <1>13, <1>14, <1>15, <1>16
     DEF Next

\* The history of mismatches only grows.
LEMMA FittingGrows ==
  ASSUME NEW m, NEW n, m \subseteq n, NEW p, NEW o, NEW r, Fitting(m, p, o, r)
  PROVE  Fitting(n, p, o, r)
  BY DEF Fitting

\* What is stored fits together, or is in the history.
LEMMA StoredStep == IInv /\ Next => StoredFit'
<1> SUFFICES ASSUME IInv, Next PROVE StoredFit'
  OBVIOUS
<1>0. StoredEffects /\ StoredFit
  BY NextStores DEF IInv
<1>1. RowsFit(mixed', {w.row : w \in writes})
  BY <1>0, FittingGrows DEF StoredEffects, StoredFit, RowsFit
<1>2. RowsFit(mixed', {saved[i] : i \in RouteIds} \ {NoRow})
  BY <1>0, FittingGrows DEF StoredEffects, StoredFit, RowsFit
<1>3. RowsFit(mixed', {o.row : o \in opens} \ {NotServed, NoRow})
  BY <1>0, FittingGrows DEF StoredEffects, StoredFit, RowsFit
<1>4. RowsFit(mixed', {saved'[i] : i \in RouteIds} \ {NoRow})
  BY <1>0, <1>1, <1>2 DEF StoredEffects, RowsFit
<1>5. RowsFit(mixed', {w.row : w \in writes'})
  BY <1>0, <1>1 DEF StoredEffects, RowsFit
<1>6. RowsFit(mixed', {o.row : o \in opens'} \ {NotServed, NoRow})
  BY <1>0, <1>2, <1>3 DEF StoredEffects, RowsFit
<1>7. DraftFits(mixed', draft')
  BY <1>0, FittingGrows DEF StoredEffects, StoredFit, DraftFits
<1>8. QED
  BY <1>4, <1>5, <1>6, <1>7 DEF StoredFit

-----------------------------------------------------------------------------
(* The openings and the mode. *)

\* A new opening takes the place of the earlier ones.
LEMMA OpensStep == IInv /\ Next => OpensOrdered' /\ EditModeFollowsLastOpen'
<1> SUFFICES ASSUME IInv, Next PROVE OpensOrdered' /\ EditModeFollowsLastOpen'
  OBVIOUS
<1> USE DEF IInv, TypeOK, OpenTypeOK, Opens, OpensOrdered,
            EditModeFollowsLastOpen, storeVars, openVars
<1>1. CASE EditPoints \/ EditOptions \/ UndoRedo \/ ImportAnswered
  BY <1>1 DEF EditPoints, EditOptions, UndoRedo, ImportAnswered, UserChanged
<1>2. CASE ResetRoute \/ OpenFailed \/ EnrichFailed \/ ShowAlternatives
  BY <1>2 DEF ResetRoute, OpenFailed, EnrichFailed, ShowAlternatives
<1>3. CASE ComputeAnswered \/ ComputeFailed \/ EnrichAnswered
           \/ PickAlternative
  BY <1>3
     DEF ComputeAnswered, ComputeFailed, EnrichAnswered, PickAlternative,
         ShowRoute
<1>4. CASE OpenRoute
  <2>1. PICK i \in RouteIds, e \in BOOLEAN :
          /\ opens' = opens \cup
               {[seq |-> loadSeq + 1, id |-> i, edit |-> e, row |-> NotServed]}
          /\ wanted' = IF e THEN i ELSE None
          /\ loadSeq' = loadSeq + 1
    BY <1>4 DEF OpenRoute
  <2>2. \A o \in opens : o.seq <= loadSeq /\ o.seq \in Nat
    OBVIOUS
  <2>3. \A o \in opens' :
          \/ o.seq < loadSeq'
          \/ o = [seq |-> loadSeq + 1, id |-> i, edit |-> e, row |-> NotServed]
    BY <2>1, <2>2
  <2>4. \E o \in opens' : o.seq = loadSeq'
    <3>1. [seq |-> loadSeq + 1, id |-> i, edit |-> e, row |-> NotServed] \in opens'
      BY <2>1
    <3>2. QED
      BY <2>1, <3>1
  <2>5. OpensOrdered'
    BY <2>1, <2>3
  <2>6. QED
    BY <2>4, <2>5
<1>5. CASE ServeOpen
  <2>1. PICK o \in opens :
          /\ opens' = (opens \ {o}) \cup {[o EXCEPT !.row = saved[o.id]]}
          /\ UNCHANGED <<storeVars, loadSeq, wanted>>
    BY <1>5 DEF ServeOpen
  <2>2. LET p == [o EXCEPT !.row = saved[o.id]]
        IN  p.seq = o.seq /\ p.edit = o.edit /\ p.id = o.id
    OBVIOUS
  <2>3. OpensOrdered'
    BY <2>1, <2>2
  <2>4. EditModeFollowsLastOpen'
    BY <2>1, <2>2
  <2>5. QED
    BY <2>3, <2>4
<1>6. CASE OpenAnswered
  <2>1. CASE UNCHANGED storeVars
    <3>1. PICK o \in opens : o.seq # loadSeq /\ opens' = opens \ {o}
      <4>1. \A o \in opens : o.seq = loadSeq /\ ApplyLoadedRoute(o) => ref' # ref
        BY DEF ApplyLoadedRoute, StoreTypeOK
      <4>2. QED
        BY <1>6, <2>1, <4>1 DEF OpenAnswered
    <3>2. UNCHANGED <<loadSeq, wanted>>
      BY <1>6 DEF OpenAnswered
    <3>3. QED
      BY <2>1, <3>1, <3>2
  <2>2. ASSUME NEW o \in opens, opens' = opens \ {o}, o.seq = loadSeq,
               ApplyLoadedRoute(o), UNCHANGED <<loadSeq, wanted>>
        PROVE  OpensOrdered' /\ EditModeFollowsLastOpen'
    BY <2>2 DEF ApplyLoadedRoute
  <2>3. QED
    BY <1>6, <2>1, <2>2 DEF OpenAnswered
<1>7. CASE AltAnswered \/ AltFailed \/ ServeWrite \/ WriteAnswered
  BY <1>7 DEF AltAnswered, AltFailed, ServeWrite, WriteAnswered
<1>8. CASE SaveRoute \/ UpdateRoute
  BY <1>8 DEF SaveRoute, UpdateRoute, Send
<1>9. CASE WriteMissing \/ DeleteAnswered
  BY <1>9 DEF WriteMissing, DeleteAnswered, LeaveEditMode
<1>10. CASE WriteFailed \/ DeleteRoute \/ DeleteFailed \/ ImportStart
  BY <1>10 DEF WriteFailed, DeleteRoute, DeleteFailed, ImportStart
<1>11. CASE ImportFailed \/ TimerFires \/ PageHide \/ LoopChange
  BY <1>11 DEF ImportFailed, TimerFires, PageHide, LoopChange
<1>12. CASE Reload
  BY <1>12 DEF Reload, Restore
<1>13. QED
  BY <1>1, <1>2, <1>3, <1>4, <1>5, <1>6, <1>7, <1>8, <1>9, <1>10, <1>11, <1>12
     DEF Next

-----------------------------------------------------------------------------
(* The route on screen. *)

\* No action puts a route of other points on screen.
LEMMA RouteStep == IInv /\ Next => RouteMatchesScreen'
<1> SUFFICES ASSUME IInv, Next PROVE RouteMatchesScreen'
  OBVIOUS
<1> USE DEF IInv, RouteMatchesScreen, Computing, storeVars, computeVars
<1>0. mixed \subseteq mixed'
  BY NextStores DEF StoredEffects
<1>a. ASSUME Recompute(waypoints', options') PROVE RouteMatchesScreen'
  <2>1. CASE computedRoute' = NoRoute
    BY <2>1
  <2>2. CASE routeController' = controllers + 1
    <3>1. \E c \in computes' : c.id = routeController'
      <4>1. [id |-> controllers + 1, points |-> waypoints', options |-> options']
              \in computes'
        <5>1. routeController' # 0
          BY <2>2 DEF TypeOK, ComputeTypeOK
        <5>2. QED
          BY <1>a, <5>1 DEF Recompute
      <4>2. QED
        BY <2>2, <4>1
    <3>2. QED
      BY <3>1
  <2>3. QED
    BY <1>a, <2>1, <2>2 DEF Recompute
<1>b. ASSUME UNCHANGED <<waypoints, options, computedRoute, routeController, computes>>
      PROVE  RouteMatchesScreen'
  BY <1>0, <1>b
<1>1. CASE EditPoints \/ EditOptions \/ UndoRedo \/ ResetRoute
  BY <1>1, <1>a DEF EditPoints, EditOptions, UndoRedo, ResetRoute, UserChanged
<1>2. CASE ComputeAnswered
  <2>1. PICK c \in computes :
          /\ computes' = computes \ {c} /\ routeController' = routeController
          /\ \/ /\ c.id = routeController
                /\ ShowRoute([points |-> c.points, options |-> c.options,
                              kind |-> "computed"])
             \/ c.id # routeController /\ UNCHANGED storeVars
    BY <1>2 DEF ComputeAnswered
  <2>2. CASE c.id = routeController
    BY <2>1, <2>2 DEF ShowRoute, ComputesFresh
  <2>3. CASE c.id # routeController
    BY <1>0, <2>1, <2>3
  <2>4. QED
    BY <2>2, <2>3
<1>3. CASE ComputeFailed
  <2>1. PICK c \in computes :
          /\ computes' = computes \ {c} /\ routeController' = routeController
          /\ \/ c.id = routeController /\ ShowRoute(NoRoute)
             \/ c.id # routeController /\ UNCHANGED storeVars
    BY <1>3 DEF ComputeFailed
  <2>2. CASE c.id = routeController
    BY <2>1, <2>2 DEF ShowRoute
  <2>3. CASE c.id # routeController
    BY <1>0, <2>1, <2>3
  <2>4. QED
    BY <2>2, <2>3
<1>4. CASE OpenRoute \/ ServeOpen \/ OpenFailed \/ EnrichFailed
  BY <1>4, <1>b DEF OpenRoute, ServeOpen, OpenFailed, EnrichFailed
<1>5. CASE OpenAnswered
  <2>1. CASE UNCHANGED <<storeVars, computeVars, enriches, altVars,
                         saveDisabled, updateDisabled, draftVars>>
    BY <2>1, <1>b
  <2>2. ASSUME NEW o \in opens, o.row \notin {NotServed, NoRow},
               ApplyLoadedRoute(o), mixed' = mixed
        PROVE  RouteMatchesScreen'
    <3>1. Fitting(mixed, o.row.points, o.row.options, o.row.route)
      BY <2>2 DEF StoredFit, RowsFit
    <3>2. QED
      BY <2>2, <3>1 DEF ApplyLoadedRoute, Fitting, Fits
  <2>3. QED
    BY <1>5, <2>1, <2>2, OpenAnsweredCases
<1>6. CASE EnrichAnswered
  <2>1. PICK e \in enriches :
          /\ UNCHANGED computeVars
          /\ \/ /\ e.ref = ref
                /\ ShowRoute([points |-> e.points, options |-> e.options,
                              kind |-> "enriched"])
             \/ UNCHANGED storeVars
    BY <1>6 DEF EnrichAnswered
  <2>2. CASE UNCHANGED storeVars
    BY <1>b, <2>1, <2>2
  <2>3. CASE ~UNCHANGED storeVars
    <3>1. /\ e.ref = ref
          /\ ShowRoute([points |-> e.points, options |-> e.options,
                        kind |-> "enriched"])
      BY <2>1, <2>3
    <3>2. e.points = waypoints
      BY <3>1 DEF EnrichesFollowRef
    <3>3. /\ computedRoute'.points = waypoints'
          /\ computedRoute'.kind = "enriched"
      BY <3>1, <3>2 DEF ShowRoute
    <3>4. QED
      BY <3>3
  <2>4. QED
    BY <2>2, <2>3
<1>7. CASE ShowAlternatives \/ AltAnswered \/ AltFailed \/ ServeWrite
  BY <1>7, <1>b DEF ShowAlternatives, AltAnswered, AltFailed, ServeWrite
<1>8. CASE PickAlternative
  BY <1>8 DEF PickAlternative, ShowRoute, AlternativesFresh
<1>9. CASE SaveRoute \/ UpdateRoute
  BY <1>9, <1>b DEF SaveRoute, UpdateRoute, Send
<1>10. CASE WriteAnswered \/ WriteFailed \/ DeleteRoute \/ DeleteFailed
  BY <1>10, <1>b DEF WriteAnswered, WriteFailed, DeleteRoute, DeleteFailed
<1>11. CASE WriteMissing \/ DeleteAnswered
  BY <1>11, <1>b DEF WriteMissing, DeleteAnswered, LeaveEditMode
<1>12. CASE ImportStart \/ ImportFailed \/ TimerFires \/ PageHide \/ LoopChange
  BY <1>12, <1>b DEF ImportStart, ImportFailed, TimerFires, PageHide, LoopChange
<1>13. CASE ImportAnswered
  BY <1>13, <1>a DEF ImportAnswered, UserChanged
<1>14. CASE Reload
  <2>1. Restore(Draft!Fresh, FALSE) => RouteMatchesScreen'
    BY DEF Restore
  <2>2. ASSUME draft # NoDraft, NEW keep \in BOOLEAN, Restore(draft, keep), mixed' = mixed
        PROVE  RouteMatchesScreen'
    BY <2>2 DEF Restore, StoredFit, DraftFits, Fitting, Fits
  <2>3. QED
    BY <1>14, <2>1, <2>2 DEF Reload, Keeps
<1>15. QED
  BY <1>1, <1>2, <1>3, <1>4, <1>5, <1>6, <1>7, <1>8, <1>9, <1>10, <1>11,
     <1>12, <1>13, <1>14
     DEF Next

\* All parts of the invariant are kept by a step.
LEMMA StepIInv == IInv /\ [Next]_vars => IInv'
<1>1. IInv /\ Next => IInv'
  BY StepTypeOK, ComputesStep, EnrichesStep, AlternativesStep, StoredStep,
     OpensStep, RouteStep DEF IInv
<1>2. IInv /\ UNCHANGED vars => IInv'
  <2> SUFFICES ASSUME IInv, UNCHANGED vars PROVE IInv'
    OBVIOUS
  <2> USE DEF vars, storeVars, computeVars, openVars, altVars, saveVars, draftVars
  <2>1. TypeOK'
    BY StepTypeOK DEF IInv
  <2>2. ComputesFresh' /\ EnrichesFollowRef' /\ AlternativesFresh' /\ OpensOrdered'
    BY DEF IInv, ComputesFresh, EnrichesFollowRef, AlternativesFresh, OpensOrdered
  <2>3. StoredFit' /\ RouteMatchesScreen' /\ EditModeFollowsLastOpen'
    BY DEF IInv, StoredFit, RowsFit, DraftFits, Fitting, RouteMatchesScreen,
           Computing, EditModeFollowsLastOpen
  <2>4. QED
    BY <2>1, <2>2, <2>3 DEF IInv
<1>3. QED
  BY <1>1, <1>2

\* The invariant holds in every reachable state (all of the editor).
THEOREM Invariance == Spec => []IInv
  BY InitIInv, StepIInv, PTL DEF Spec

\* The route on screen is one of the points on screen, for any number of
\* edits, openings and answers in any order, or a mismatch once stored.
THEOREM RouteIsOfScreen == Spec => []RouteMatchesScreen
<1>1. IInv => RouteMatchesScreen
  BY DEF IInv
<1>2. QED
  BY <1>1, Invariance, PTL

\* An alternative that can be picked goes through the two markers.
THEOREM AlternativesAreOfScreen == Spec => []AlternativesMatchPoints
<1>1. IInv => AlternativesMatchPoints
  BY DEF IInv, AlternativesFresh, AlternativesMatchPoints
<1>2. QED
  BY <1>1, Invariance, PTL

\* A late answer to an earlier opening does not change what is updated.
THEOREM LastOpeningWins == Spec => []EditModeFollowsLastOpen
<1>1. IInv => EditModeFollowsLastOpen
  BY DEF IInv
<1>2. QED
  BY <1>1, Invariance, PTL

-----------------------------------------------------------------------------
(* The guarantees of the draft, of this screen. *)

\* The guarantees of DraftAutosave, and that only a user change makes a draft dirty.
DraftKept ==
  /\ Draft!TypeOK /\ (dirty => unsaved)
  /\ Draft!DraftIsScreen /\ Draft!NoGhostDraft /\ Draft!CleanDraftIsScreen

\* What DraftAutosave assumes of its constants holds of those of the editor.
LEMMA DraftConstants ==
  /\ [points |-> NoPoints, options |-> DefaultOptions] \in UserParts
  /\ NumPoints[NoPoints] = 0
  /\ NoLoop \in Loops
  /\ Writes \subseteq {"whole", "withoutRoute", "refused"}
BY EditorAssumption DEF UserParts

\* A screen with the loop of another, and with its own.
LEMMA LoopsApart ==
  ASSUME NEW s \in Draft!Screens
  PROVE  /\ [s EXCEPT !.loop = s.loop] = s
         /\ \A l \in Loops :
              /\ [s EXCEPT !.loop = l] \in Draft!Screens /\ [s EXCEPT !.loop = l].loop = l
              /\ \A k \in Loops : [[s EXCEPT !.loop = l] EXCEPT !.loop = k]
                                      = [s EXCEPT !.loop = k]
  BY DEF Draft!Screens

\* A loop that changes leaves the draft what it was.
LEMMA LoopChangeKeepsDraft ==
  ASSUME Draft!TypeOK, Draft!DraftIsScreen, NEW l \in Loops,
         Screen' = [Screen EXCEPT !.loop = l],
         behind' = (behind \/ Screen'.loop # Screen.loop),
         UNCHANGED <<dirty, timer, draft, lastWrite>>
  PROVE  Draft!DraftIsScreen'
<1>1. Screen \in Draft!Screens /\ behind \in BOOLEAN /\ Screen.loop \in Loops
  BY DEF Draft!TypeOK, Draft!Screens
<1>2. CASE l = Screen.loop
  <2>1. Screen' = Screen
    BY <1>1, <1>2, LoopsApart
  <2>2. behind' = behind
    BY <1>1, <2>1, Zenon
  <2>3. QED
    BY <2>1, <2>2 DEF Draft!DraftIsScreen
<1>3. CASE l # Screen.loop
  <2>1. Screen'.loop = l
    BY <1>1, LoopsApart
  <2>2. behind'
    BY <1>3, <2>1
  <2>3. \A k \in Loops : [Screen' EXCEPT !.loop = k] = [Screen EXCEPT !.loop = k]
    <3>1. \A k \in Loops : [[Screen EXCEPT !.loop = l] EXCEPT !.loop = k]
                              = [Screen EXCEPT !.loop = k]
      BY ONLY l \in Loops, <1>1, LoopsApart
    <3>2. QED
      BY <3>1
  <2>4. SUFFICES ASSUME dirty, ~timer, lastWrite # "refused" PROVE Draft!DraftIsScreen'
    BY DEF Draft!DraftIsScreen
  <2>5. PICK k \in Loops :
          \/ draft = [Screen EXCEPT !.loop = k]
          \/ /\ lastWrite = "withoutRoute"
             /\ draft = [[Screen EXCEPT !.loop = k] EXCEPT !.route = NoRoute]
    BY <1>1, <2>4 DEF Draft!DraftIsScreen
  <2>6. \/ draft' = [Screen' EXCEPT !.loop = k]
        \/ /\ lastWrite' = "withoutRoute"
           /\ draft' = [[Screen' EXCEPT !.loop = k] EXCEPT !.route = NoRoute]
    BY <2>3, <2>5
  <2>7. QED
    BY <2>2, <2>6 DEF Draft!DraftIsScreen
<1>4. QED
  BY <1>2, <1>3

\* What a flush leaves is of the screen: all of it, all but its route, or nothing.
LEMMA FlushKeepsDraft ==
  ASSUME DraftKept, Draft!Flush, Screen' = Screen
  PROVE  DraftKept'
<1> USE DEF DraftKept, Draft!TypeOK, Draft!NoGhostDraft, Draft!CleanDraftIsScreen
<1>1. CASE ~dirty
  <2>1. ~dirty'
    BY <1>1 DEF Draft!Flush
  <2>2. Draft!DraftIsScreen'
    BY <2>1 DEF Draft!DraftIsScreen
  <2>3. QED
    BY <1>1, <2>2 DEF Draft!Flush
<1>2. CASE dirty
  <2>1. Draft!Store(Screen)
    BY <1>2 DEF Draft!Flush
  <2>2. lastWrite' \in Writes /\ lastWrite' \in {"whole", "withoutRoute", "refused"}
    BY <2>1, DraftConstants DEF Draft!Store
  <2>3. \/ lastWrite' = "whole" /\ draft' = Screen
        \/ lastWrite' = "withoutRoute" /\ draft' = [Screen EXCEPT !.route = NoRoute]
        \/ lastWrite' = "refused" /\ draft' = draft
    BY <2>1, <2>2 DEF Draft!Store
  <2>4. draft' \in Draft!Screens \cup {NoDraft}
    BY <2>3 DEF Draft!Screens
  <2>5. behind' = (behind /\ lastWrite' = "refused") /\ behind' \in BOOLEAN
    BY <2>1 DEF Draft!Store
  <2>6. Draft!DraftIsScreen'
    <3>1. CASE lastWrite' = "refused"
      BY <3>1 DEF Draft!DraftIsScreen
    <3>2. CASE lastWrite' # "refused"
      <4>1. ~behind'
        BY <2>5, <3>2
      <4>2. [Screen' EXCEPT !.loop = Screen'.loop] = Screen'
        BY LoopsApart
      <4>3. draft' = Screen' \/ (lastWrite' = "withoutRoute"
                                /\ draft' = [Screen' EXCEPT !.route = NoRoute])
        BY <2>3, <3>2
      <4>4. QED
        BY <4>1, <4>2, <4>3 DEF Draft!DraftIsScreen
    <3>3. QED
      BY <3>1, <3>2
  <2>7. QED
    BY <1>2, <2>2, <2>3, <2>4, <2>5, <2>6 DEF Draft!Flush
<1>3. QED
  BY <1>1, <1>2

\* Nothing the editor does to the draft breaks them.
LEMMA DraftNextKeeps == DraftKept /\ [Draft!Next]_(Draft!vars) => DraftKept'
<1> SUFFICES ASSUME DraftKept, [Draft!Next]_(Draft!vars) PROVE DraftKept'
  OBVIOUS
<1> USE DEF DraftKept, Draft!TypeOK, Draft!NoGhostDraft, Draft!CleanDraftIsScreen
<1>1. CASE Draft!UserChange
  <2>1. Screen' \in Draft!Screens
    BY <1>1, DraftConstants DEF Draft!UserChange, Draft!Screens
  <2>2. dirty' = TRUE /\ timer' = TRUE /\ unsaved' = TRUE
    BY <1>1 DEF Draft!UserChange, Draft!Notified
  <2>3. behind' \in BOOLEAN
    BY <1>1 DEF Draft!UserChange, Draft!Notified
  <2>4. Draft!DraftIsScreen'
    BY <2>2 DEF Draft!DraftIsScreen
  <2>5. QED
    BY <1>1, <2>1, <2>2, <2>3, <2>4 DEF Draft!UserChange, Draft!Notified
<1>2. CASE Draft!SilentChange
  <2>1. Screen' \in Draft!Screens /\ Screen'.user = Screen.user
    BY <1>2 DEF Draft!SilentChange, Draft!Screens
  <2>2. dirty' = dirty /\ timer' = (timer \/ dirty) /\ unsaved' = unsaved
    BY <1>2, Zenon DEF Draft!SilentChange, Draft!Notified
  <2>3. dirty => timer'
    BY <2>2
  <2>4. timer' \in BOOLEAN /\ behind' \in BOOLEAN
    BY <1>2, <2>2 DEF Draft!SilentChange, Draft!Notified
  <2>5. Draft!DraftIsScreen'
    BY <2>2, <2>3 DEF Draft!DraftIsScreen
  <2>6. QED
    BY <1>2, <2>1, <2>2, <2>4, <2>5 DEF Draft!SilentChange, Draft!Notified
<1>3. CASE Draft!LoopChange
  <2>1. PICK l \in Loops : Screen' = [Screen EXCEPT !.loop = l]
    BY <1>3 DEF Draft!LoopChange
  <2>2. Draft!Notified(FALSE, FALSE)
    BY <1>3 DEF Draft!LoopChange
  <2>3. /\ dirty' = dirty /\ timer' = timer /\ unsaved' = unsaved
        /\ behind' = (behind \/ Screen'.loop # Screen.loop)
        /\ UNCHANGED <<draft, lastWrite>>
    BY <2>2, Zenon DEF Draft!Notified
  <2>4. Screen' \in Draft!Screens /\ Screen'.user = Screen.user
    BY <2>1 DEF Draft!Screens
  <2>5. behind' \in BOOLEAN
    BY <2>3
  <2>6. Draft!DraftIsScreen'
    BY <2>1, <2>3, LoopChangeKeepsDraft
  <2>7. QED
    BY <2>3, <2>4, <2>5, <2>6
<1>4. CASE Draft!Replace
  <2>1. Screen' \in Draft!Screens
    BY <1>4, DraftConstants DEF Draft!Replace, Draft!Screens
  <2>2. ~dirty' /\ Draft!Discard
    BY <1>4 DEF Draft!Replace, Draft!Discard
  <2>3. Draft!DraftIsScreen'
    BY <2>2 DEF Draft!DraftIsScreen
  <2>4. QED
    BY <2>1, <2>2, <2>3 DEF Draft!Discard
<1>5. CASE Draft!Saved
  <2>1. Screen' \in Draft!Screens
    BY <1>5 DEF Draft!Saved, Draft!Screens
  <2>2. ~dirty' /\ Draft!Discard
    BY <1>5 DEF Draft!Saved, Draft!Discard
  <2>3. Draft!DraftIsScreen'
    BY <2>2 DEF Draft!DraftIsScreen
  <2>4. QED
    BY <2>1, <2>2, <2>3 DEF Draft!Discard
<1>6. CASE Draft!TimerFires
  BY <1>6, FlushKeepsDraft DEF Draft!TimerFires
<1>7. CASE Draft!PageHide
  BY <1>7, FlushKeepsDraft DEF Draft!PageHide
<1>8. CASE Draft!Reload
  <2>1. Screen' \in Draft!Restorations(draft)
    BY <1>8 DEF Draft!Reload
  <2>2. Draft!Fresh \in Draft!Screens
    BY DraftConstants DEF Draft!Fresh, Draft!Screens
  <2>3. /\ Screen' \in Draft!Screens
        /\ draft # NoDraft /\ draft.user \notin {u \in UserParts : NumPoints[u.points] = 0} =>
             Screen'.user = draft.user
    <3>1. CASE draft = NoDraft \/ draft.user \in {u \in UserParts : NumPoints[u.points] = 0}
      BY <2>1, <2>2, <3>1 DEF Draft!Restorations
    <3>2. CASE ~(draft = NoDraft \/ draft.user \in {u \in UserParts : NumPoints[u.points] = 0})
      <4>1. draft \in Draft!Screens /\ Screen' \in {draft, [draft EXCEPT !.route = NoRoute]}
        BY <2>1, <3>2 DEF Draft!Restorations
      <4>2. QED
        BY <4>1 DEF Draft!Screens
    <3>3. QED
      BY <3>1, <3>2
  <2>4. Draft!DraftIsScreen'
    BY <1>8 DEF Draft!Reload, Draft!DraftIsScreen
  <2>5. QED
    BY <1>8, <2>3, <2>4 DEF Draft!Reload
<1>9. CASE UNCHANGED Draft!vars
  <2>1. Draft!DraftIsScreen'
    BY <1>9 DEF Draft!vars, Draft!DraftIsScreen
  <2>2. QED
    BY <1>9, <2>1 DEF Draft!vars
<1>10. QED
  BY <1>1, <1>2, <1>3, <1>4, <1>5, <1>6, <1>7, <1>8, <1>9 DEF Draft!Next

\* At first there is no draft.
LEMMA DraftInitKept == Init => DraftKept
<1>1. Init => TypeOK
  BY InitTypeOK
<1>2. Init => ~dirty /\ draft = NoDraft
  BY DEF Init
<1>3. QED
  BY <1>1, <1>2 DEF TypeOK, DraftKept, Draft!DraftIsScreen, Draft!NoGhostDraft,
     Draft!CleanDraftIsScreen

\* The draft of the real editor, whatever computations, openings, saves and deletions
\* are answered in whatever order.  Once the debounce has run out it is the screen, but
\* for a write that localStorage refused or took without the route, and for the points
\* of passage and the last loop, which may be those of the last write.  One given up by
\* a save, an opening or a clearing does not come back, however late the timer.  One on
\* a clean page is of the points on screen (draft-autosave.js:7-21,
\* draft-storage.js:13-47, route-controller.js, round-trip-controller.js, main.js).
THEOREM DraftOfEditor ==
  Spec => [](Draft!DraftIsScreen /\ Draft!NoGhostDraft /\ Draft!CleanDraftIsScreen)
<1>1. TypeOK /\ DraftKept /\ [Next]_vars => DraftKept'
  <2>1. UNCHANGED vars => UNCHANGED Draft!vars
    BY DEF vars, storeVars, draftVars, Draft!vars, Screen
  <2>2. QED
    BY <2>1, DraftStep, DraftNextKeeps
<1>2. DraftKept => Draft!DraftIsScreen /\ Draft!NoGhostDraft /\ Draft!CleanDraftIsScreen
  BY DEF DraftKept
<1>3. QED
  BY <1>1, <1>2, DraftInitKept, TypeCorrect, PTL DEF Spec

=============================================================================
