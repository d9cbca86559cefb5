---------------------------- MODULE ClientProofs ----------------------------
(***************************************************************************)
(* The guarantees of the two helpers the page is built on:                 *)
(* createLatestRequest, for any number of calls, and the autosave of the   *)
(* draft, for any contents of the store.                                   *)
(***************************************************************************)
EXTENDS LatestRequest, DraftAutosave, TLAPS

-----------------------------------------------------------------------------
(* LatestRequest. *)

\* The controller is the newest call's or null, calls not made yet have left
\* no trace, and of the calls made only the controller's may be unaborted.
ControllerIsNewest ==
  /\ started \in 0..MaxCalls
  /\ controller \in {0, started}
  /\ \A c \in Calls : c > started =>
       phase[c] = "unused" /\ c \notin aborted /\ result[c] = "none"
  /\ \A c \in Calls : c <= started /\ c # controller => c \in aborted
  /\ \A c \in Calls : c = controller => c \notin aborted

\* A call whose fetch has not settled has reported nothing.
PendingHasNoResult ==
  \A c \in Calls : phase[c] \in {"fetching", "reading"} => result[c] = "none"

RequestIInv == RequestTypeOK /\ ControllerIsNewest /\ PendingHasNoResult

\* Nothing has been called: the invariant holds.
LEMMA RequestInitIInv == RequestInit => RequestIInv
  BY MaxCallsAssumption DEF RequestInit, RequestIInv, RequestTypeOK, ControllerIsNewest,
     PendingHasNoResult, Calls, Phases, Results

\* Every step keeps the types: needed first, the rest relies on it.
LEMMA RequestStepTypes == RequestTypeOK /\ [RequestNext]_requestVars => RequestTypeOK'
<1> SUFFICES ASSUME RequestTypeOK, [RequestNext]_requestVars PROVE RequestTypeOK'
  OBVIOUS
<1> USE MaxCallsAssumption DEF RequestTypeOK, Calls, Phases, Results
<1>1. AbortCurrent \subseteq Calls
  BY DEF AbortCurrent
<1>2. CASE Run
  <2>1. started' \in 0..MaxCalls /\ controller' \in 0..MaxCalls
    BY <1>2 DEF Run
  <2>2. QED
    BY <1>1, <1>2, <2>1 DEF Run
<1>3. CASE Cancel
  BY <1>1, <1>3 DEF Cancel
<1>4. ASSUME NEW c \in Calls, FetchAborted(c) PROVE RequestTypeOK'
  BY <1>4 DEF FetchAborted
<1>5. ASSUME NEW c \in Calls, NEW r \in {"value", "error"}, Settle(c, r)
      PROVE  RequestTypeOK'
  BY <1>5 DEF Settle
<1>6. ASSUME NEW c \in Calls, HeadersArrive(c) PROVE RequestTypeOK'
  BY <1>6 DEF HeadersArrive
<1>7. CASE UNCHANGED requestVars
  BY <1>7 DEF requestVars
<1>8. QED
  BY <1>2, <1>3, <1>4, <1>5, <1>6, <1>7
     DEF RequestNext, FetchTimesOut, FetchFails, BodyArrives

\* No call, cancellation or answer breaks the invariant.
LEMMA RequestStepIInv == RequestIInv /\ [RequestNext]_requestVars => RequestIInv'
<1> SUFFICES ASSUME RequestIInv, [RequestNext]_requestVars
             PROVE  ControllerIsNewest' /\ PendingHasNoResult'
  BY RequestStepTypes DEF RequestIInv
<1> USE MaxCallsAssumption
    DEF RequestIInv, RequestTypeOK, ControllerIsNewest, PendingHasNoResult, Calls
<1>1. \A c \in Calls : c \in AbortCurrent <=> c \in aborted \/ c = controller
  BY DEF AbortCurrent
<1>2. CASE Run
  <2>1. /\ started' = started + 1
        /\ controller' = started + 1
        /\ started < MaxCalls
        /\ \A c \in Calls : c # started + 1 => phase'[c] = phase[c]
        /\ result' = result
        /\ \A c \in Calls : c \in aborted' <=> c \in aborted \/ c = controller
    BY <1>1, <1>2 DEF Run
  <2>2. QED
    BY <2>1
<1>3. CASE Cancel
  BY <1>1, <1>3 DEF Cancel
<1>4. ASSUME NEW c \in Calls, FetchAborted(c)
      PROVE  ControllerIsNewest' /\ PendingHasNoResult'
  BY <1>4 DEF FetchAborted
<1>5. ASSUME NEW c \in Calls, NEW r \in {"value", "error"},
             phase[c] \in {"fetching", "reading"}, Settle(c, r)
      PROVE  ControllerIsNewest' /\ PendingHasNoResult'
  BY <1>5 DEF Settle
<1>6. ASSUME NEW c \in Calls, HeadersArrive(c)
      PROVE  ControllerIsNewest' /\ PendingHasNoResult'
  BY <1>6 DEF HeadersArrive
<1>7. CASE UNCHANGED requestVars
  BY <1>7 DEF requestVars
<1>8. QED
  BY <1>2, <1>3, <1>4, <1>5, <1>6, <1>7
     DEF RequestNext, FetchTimesOut, FetchFails, BodyArrives

\* The invariant holds in every reachable state (latest-request.js).
THEOREM RequestInvariance == RequestSpec => []RequestIInv
  BY RequestInitIInv, RequestStepIInv, PTL DEF RequestSpec

\* Every variable keeps its type.
THEOREM RequestTypesCorrect == RequestSpec => []RequestTypeOK
<1>1. RequestIInv => RequestTypeOK
  BY DEF RequestIInv
<1>2. QED
  BY <1>1, RequestInvariance, PTL

\* At most one fetch that the server has not answered is left unaborted.
THEOREM SupersededFetchesAreAborted == RequestSpec => []OneLiveFetch
<1>1. RequestIInv => OneLiveFetch
  BY DEF RequestIInv, ControllerIsNewest, RequestTypeOK, OneLiveFetch, Calls
<1>2. QED
  BY <1>1, RequestInvariance, PTL

\* A caller is shown a value or an error only for the newest call, and only
\* while it has not been cancelled.
THEOREM RequestImplementation == RequestSpec => ImplementsLastCallWins
<1>1. RequestInit => Abstract!Init
  BY MaxCallsAssumption DEF RequestInit, Abstract!Init, Calls, Abstract!Calls
<1>2. RequestIInv /\ [RequestNext]_requestVars => [Abstract!Next]_Abstract!vars
  <2> SUFFICES ASSUME RequestIInv, [RequestNext]_requestVars
               PROVE  [Abstract!Next]_Abstract!vars
    OBVIOUS
  <2> USE MaxCallsAssumption DEF RequestIInv, RequestTypeOK, ControllerIsNewest,
          PendingHasNoResult, Calls, Abstract!Calls, Abstract!vars
  <2>1. CASE Run
    <3>1. Abstract!Call
      BY <2>1 DEF Run, Abstract!Call
    <3>2. QED
      BY <3>1 DEF Abstract!Next
  <2>2. CASE Cancel
    <3>1. Abstract!Cancel
      BY <2>2 DEF Cancel, Abstract!Cancel
    <3>2. QED
      BY <3>1 DEF Abstract!Next
  <2>3. ASSUME NEW c \in Calls, FetchAborted(c)
        PROVE  Abstract!Discard(c)
    <3>1. controller # c /\ c <= started
      BY <2>3 DEF FetchAborted
    <3>2. QED
      BY <2>3, <3>1 DEF FetchAborted, Abstract!Discard
  <2>4. ASSUME NEW c \in Calls, NEW r \in {"value", "error"},
               phase[c] \in {"fetching", "reading"}, Settle(c, r)
        PROVE  Abstract!Deliver(c) \/ Abstract!Discard(c)
    <3>1. CASE controller = c
      <4>1. c = started /\ controller # 0 /\ result[c] = "none"
        BY <2>4, <3>1
      <4>2. result' = [result EXCEPT ![c] = r]
        BY <2>4, <3>1 DEF Settle
      <4>3. UNCHANGED <<started, controller # 0>>
        BY <2>4 DEF Settle
      <4>4. QED
        BY <4>1, <4>2, <4>3 DEF Abstract!Deliver
    <3>2. CASE controller # c
      <4>1. c < started \/ (c = started /\ controller = 0)
        BY <2>4, <3>2
      <4>2. result[c] = "none" /\ result' = [result EXCEPT ![c] = "stale"]
        BY <2>4, <3>2 DEF Settle
      <4>3. QED
        BY <2>4, <4>1, <4>2 DEF Settle, Abstract!Discard
    <3>3. QED
      BY <3>1, <3>2
  <2>5. ASSUME NEW c \in Calls, HeadersArrive(c)
        PROVE  UNCHANGED Abstract!vars
    BY <2>5 DEF HeadersArrive
  <2>6. CASE UNCHANGED requestVars
    BY <2>6 DEF requestVars
  <2>7. QED
    BY <2>1, <2>2, <2>3, <2>4, <2>5, <2>6
       DEF RequestNext, FetchTimesOut, FetchFails, BodyArrives, Abstract!Next
<1>3. QED
  BY <1>1, <1>2, RequestInvariance, PTL
     DEF RequestSpec, ImplementsLastCallWins, Abstract!Spec

-----------------------------------------------------------------------------
(* DraftAutosave. *)

\* Only a user change makes the draft dirty.
DirtyIsUnsaved == dirty => unsaved

DraftIInv ==
  TypeOK /\ DirtyIsUnsaved /\ DraftIsScreen /\ NoGhostDraft /\ CleanDraftIsScreen

\* The screens a reload may show are screens, and show the draft's points.
LEMMA RestorationsAreScreens ==
  ASSUME NEW d \in Screens \cup {NoDraft}
  PROVE  /\ Restorations(d) \subseteq Screens
         /\ d # NoDraft /\ d.user \notin EmptyUsers =>
              \A s \in Restorations(d) : s.user = d.user
<1>1. CASE d = NoDraft \/ d.user \in EmptyUsers
  <2>1. Restorations(d) = {Fresh}
    BY <1>1 DEF Restorations
  <2>2. Fresh \in Screens
    BY DraftAssumption DEF Fresh, Screens
  <2>3. QED
    BY <1>1, <2>1, <2>2
<1>2. CASE ~(d = NoDraft \/ d.user \in EmptyUsers)
  <2>1. Restorations(d) = {d, [d EXCEPT !.route = NoRoute]}
    BY <1>2 DEF Restorations
  <2>2. d \in Screens
    BY <1>2
  <2>3. /\ [d EXCEPT !.route = NoRoute] \in Screens
        /\ [d EXCEPT !.route = NoRoute].user = d.user
    BY <2>2, DraftAssumption DEF Screens
  <2>4. QED
    BY <2>1, <2>2, <2>3
<1>3. QED
  BY <1>1, <1>2

\* A page without a draft satisfies the invariant.
LEMMA DraftInitIInv == Init => DraftIInv
<1> SUFFICES ASSUME Init PROVE DraftIInv
  OBVIOUS
<1>1. Fresh \in Screens
  BY DraftAssumption DEF Fresh, Screens
<1>2. TypeOK
  BY <1>1 DEF Init, TypeOK
<1>3. ~dirty /\ draft = NoDraft
  BY DEF Init
<1>4. QED
  BY <1>2, <1>3 DEF DraftIInv, DirtyIsUnsaved, DraftIsScreen, NoGhostDraft,
     CleanDraftIsScreen

\* A screen with the loop of another, and with its own.
LEMMA LoopsApart ==
  ASSUME NEW s \in Screens
  PROVE  /\ [s EXCEPT !.loop = s.loop] = s
         /\ \A l \in Loops :
              /\ [s EXCEPT !.loop = l] \in Screens /\ [s EXCEPT !.loop = l].loop = l
              /\ \A k \in Loops : [[s EXCEPT !.loop = l] EXCEPT !.loop = k]
                                      = [s EXCEPT !.loop = k]
  BY DEF Screens

\* A loop that changes leaves the draft what it was.
LEMMA LoopChangeKeepsDraft ==
  ASSUME TypeOK, DraftIsScreen, NEW l \in Loops, screen' = [screen EXCEPT !.loop = l],
         behind' = (behind \/ screen'.loop # screen.loop),
         UNCHANGED <<dirty, timer, draft, lastWrite>>
  PROVE  DraftIsScreen'
<1>1. screen \in Screens /\ behind \in BOOLEAN /\ screen.loop \in Loops
  BY DEF TypeOK, Screens
<1>2. CASE l = screen.loop
  <2>1. screen' = screen
    BY <1>1, <1>2, LoopsApart
  <2>2. behind' = behind
    BY <1>1, <2>1, Zenon
  <2>3. QED
    BY <2>1, <2>2 DEF DraftIsScreen
<1>3. CASE l # screen.loop
  <2>1. screen'.loop = l
    BY <1>1, LoopsApart
  <2>2. behind'
    BY <1>3, <2>1
  <2>3. \A k \in Loops : [screen' EXCEPT !.loop = k] = [screen EXCEPT !.loop = k]
    <3>1. \A k \in Loops : [[screen EXCEPT !.loop = l] EXCEPT !.loop = k]
                              = [screen EXCEPT !.loop = k]
      BY ONLY l \in Loops, <1>1, LoopsApart
    <3>2. QED
      BY <3>1
  <2>4. SUFFICES ASSUME dirty, ~timer, lastWrite # "refused" PROVE DraftIsScreen'
    BY DEF DraftIsScreen
  <2>5. PICK k \in Loops :
          \/ draft = [screen EXCEPT !.loop = k]
          \/ /\ lastWrite = "withoutRoute"
             /\ draft = [[screen EXCEPT !.loop = k] EXCEPT !.route = NoRoute]
    BY <1>1, <2>4 DEF DraftIsScreen
  <2>6. \/ draft' = [screen' EXCEPT !.loop = k]
        \/ /\ lastWrite' = "withoutRoute"
           /\ draft' = [[screen' EXCEPT !.loop = k] EXCEPT !.route = NoRoute]
    BY <2>3, <2>5
  <2>7. QED
    BY <2>2, <2>6 DEF DraftIsScreen
<1>4. QED
  BY <1>2, <1>3

\* A flush leaves the screen alone and stores all of it, all but its route,
\* or nothing.
LEMMA FlushKeepsIInv ==
  ASSUME DraftIInv, Flush, screen' = screen
  PROVE  DraftIInv'
<1> USE DEF DraftIInv, TypeOK, DirtyIsUnsaved, NoGhostDraft, CleanDraftIsScreen
<1>1. CASE ~dirty
  <2>1. ~dirty'
    BY <1>1 DEF Flush
  <2>2. DraftIsScreen'
    BY <2>1 DEF DraftIsScreen
  <2>3. QED
    BY <1>1, <2>2 DEF Flush
<1>2. CASE dirty
  <2>1. Store(screen)
    BY <1>2 DEF Flush
  <2>2. lastWrite' \in Writes /\ lastWrite' \in {"whole", "withoutRoute", "refused"}
    BY <2>1, DraftAssumption DEF Store
  <2>3. \/ lastWrite' = "whole" /\ draft' = screen
        \/ lastWrite' = "withoutRoute" /\ draft' = [screen EXCEPT !.route = NoRoute]
        \/ lastWrite' = "refused" /\ draft' = draft
    BY <2>1, <2>2 DEF Store
  <2>4. draft' \in Screens \cup {NoDraft}
    BY <2>3, DraftAssumption DEF Screens
  <2>5. behind' = (behind /\ lastWrite' = "refused") /\ behind' \in BOOLEAN
    BY <2>1 DEF Store
  <2>6. DraftIsScreen'
    <3>1. CASE lastWrite' = "refused"
      BY <3>1 DEF DraftIsScreen
    <3>2. CASE lastWrite' # "refused"
      <4>1. ~behind'
        BY <2>5, <3>2
      <4>2. [screen' EXCEPT !.loop = screen'.loop] = screen'
        BY LoopsApart
      <4>3. draft' = screen' \/ (lastWrite' = "withoutRoute"
                                /\ draft' = [screen' EXCEPT !.route = NoRoute])
        BY <2>3, <3>2
      <4>4. QED
        BY <4>1, <4>2, <4>3 DEF DraftIsScreen
    <3>3. QED
      BY <3>1, <3>2
  <2>7. QED
    BY <1>2, <2>2, <2>3, <2>4, <2>5, <2>6 DEF Flush
<1>3. QED
  BY <1>1, <1>2

\* No action of the autosave or of the program breaks the invariant.
LEMMA DraftStepIInv == DraftIInv /\ [Next]_vars => DraftIInv'
<1> SUFFICES ASSUME DraftIInv, [Next]_vars PROVE DraftIInv'
  OBVIOUS
<1> USE DraftAssumption
    DEF DraftIInv, TypeOK, DirtyIsUnsaved, NoGhostDraft, CleanDraftIsScreen
<1>1. CASE UserChange
  <2>1. screen' \in Screens
    BY <1>1 DEF UserChange, Screens
  <2>2. dirty' = TRUE /\ timer' = TRUE /\ unsaved' = TRUE
    BY <1>1 DEF UserChange, Notified
  <2>3. behind' \in BOOLEAN
    BY <1>1 DEF UserChange, Notified
  <2>4. DraftIsScreen'
    BY <2>2 DEF DraftIsScreen
  <2>5. QED
    BY <1>1, <2>1, <2>2, <2>3, <2>4 DEF UserChange, Notified
<1>2. CASE SilentChange
  <2>1. screen' \in Screens /\ screen'.user = screen.user
    BY <1>2 DEF SilentChange, Screens
  <2>2. dirty' = dirty /\ timer' = (timer \/ dirty) /\ unsaved' = unsaved
    BY <1>2, Zenon DEF SilentChange, Notified
  <2>3. dirty => timer'
    BY <2>2
  <2>4. timer' \in BOOLEAN /\ behind' \in BOOLEAN
    BY <1>2, <2>2 DEF SilentChange, Notified
  <2>5. DraftIsScreen'
    BY <2>2, <2>3 DEF DraftIsScreen
  <2>6. QED
    BY <1>2, <2>1, <2>2, <2>4, <2>5 DEF SilentChange, Notified
<1>3. CASE LoopChange
  <2>1. PICK l \in Loops : screen' = [screen EXCEPT !.loop = l]
    BY <1>3 DEF LoopChange
  <2>2. Notified(FALSE, FALSE)
    BY <1>3 DEF LoopChange
  <2>3. /\ dirty' = dirty /\ timer' = timer /\ unsaved' = unsaved
        /\ behind' = (behind \/ screen'.loop # screen.loop)
        /\ UNCHANGED <<draft, lastWrite>>
    BY <2>2, Zenon DEF Notified
  <2>4. screen' \in Screens /\ screen'.user = screen.user
    BY <2>1 DEF Screens
  <2>5. behind' \in BOOLEAN
    BY <2>3
  <2>6. DraftIsScreen'
    BY <2>1, <2>3, LoopChangeKeepsDraft
  <2>7. QED
    BY <2>3, <2>4, <2>5, <2>6
<1>4. CASE Replace
  <2>1. screen' \in Screens
    BY <1>4 DEF Replace, Screens
  <2>2. ~dirty' /\ Discard
    BY <1>4 DEF Replace, Discard
  <2>3. DraftIsScreen'
    BY <2>2 DEF DraftIsScreen
  <2>4. QED
    BY <2>1, <2>2, <2>3 DEF Discard
<1>5. CASE Saved
  <2>1. screen' \in Screens
    BY <1>5 DEF Saved, Screens
  <2>2. ~dirty' /\ Discard
    BY <1>5 DEF Saved, Discard
  <2>3. DraftIsScreen'
    BY <2>2 DEF DraftIsScreen
  <2>4. QED
    BY <2>1, <2>2, <2>3 DEF Discard
<1>6. CASE TimerFires
  BY <1>6, FlushKeepsIInv DEF TimerFires
<1>7. CASE PageHide
  BY <1>7, FlushKeepsIInv DEF PageHide
<1>8. CASE Reload
  <2>1. screen' \in Screens
    BY <1>8, RestorationsAreScreens DEF Reload
  <2>2. draft # NoDraft /\ draft.user \notin EmptyUsers => screen'.user = draft.user
    BY <1>8, RestorationsAreScreens DEF Reload
  <2>3. DraftIsScreen'
    BY <1>8 DEF Reload, DraftIsScreen
  <2>4. QED
    BY <1>8, <2>1, <2>2, <2>3 DEF Reload
<1>9. CASE UNCHANGED vars
  <2>1. DraftIsScreen'
    BY <1>9 DEF vars, DraftIsScreen
  <2>2. QED
    BY <1>9, <2>1 DEF vars
<1>10. QED
  BY <1>1, <1>2, <1>3, <1>4, <1>5, <1>6, <1>7, <1>8, <1>9 DEF Next

\* The invariant holds in every reachable state (draft-autosave.js).
THEOREM DraftInvariance == Spec => []DraftIInv
  BY DraftInitIInv, DraftStepIInv, PTL DEF Spec

\* Every variable keeps its type.
THEOREM DraftTypesCorrect == Spec => []TypeOK
<1>1. DraftIInv => TypeOK
  BY DEF DraftIInv
<1>2. QED
  BY <1>1, DraftInvariance, PTL

\* Once the debounce has run out, the stored draft is the screen, but for a write that
\* localStorage refused or took without the route, and for the points of passage and the
\* last loop, of which it may hold those of the last write (draft-autosave.js:7,
\* draft-storage.js:13-47).
THEOREM DraftFollowsScreen == Spec => []DraftIsScreen
<1>1. DraftIInv => DraftIsScreen
  BY DEF DraftIInv
<1>2. QED
  BY <1>1, DraftInvariance, PTL

\* A draft that was given up is never written again by a late timer.
THEOREM DiscardedDraftStaysAway == Spec => []NoGhostDraft
<1>1. DraftIInv => NoGhostDraft
  BY DEF DraftIInv
<1>2. QED
  BY <1>1, DraftInvariance, PTL

\* A draft kept without a pending change describes the points on screen.
THEOREM KeptDraftIsOnScreen == Spec => []CleanDraftIsScreen
<1>1. DraftIInv => CleanDraftIsScreen
  BY DEF DraftIInv
<1>2. QED
  BY <1>1, DraftInvariance, PTL

=============================================================================
