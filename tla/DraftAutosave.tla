---------------------------- MODULE DraftAutosave ---------------------------
(***************************************************************************)
(* initDraftAutosave (frontend/src/state/draft-autosave.js) over           *)
(* draft-storage.js: the debounced copy of the store that survives a       *)
(* reload of the page.                                                     *)
(*                                                                         *)
(* The store is seen here as the autosave sees it: `screen.user` is what   *)
(* user changes replace (points, zones, limits, vehicle), `screen.route`   *)
(* and `screen.editing` are the two keys it tracks when they change        *)
(* silently, and `screen.loop` two more that the draft holds, always       *)
(* change silently, and are not tracked: pendingForcedPoints and           *)
(* roundTripVariant.  RouteEditor instantiates this module with its own    *)
(* store.                                                                  *)
(***************************************************************************)
CONSTANTS
  Users,                \* Values of the user's part of the store.
  NoUser,               \* The one of a page opened without a draft.
  EmptyUsers,           \* Those without any point, NoUser among them.
  Routes,               \* Values of computedRoute ...
  NoRoute,              \* ... and null.
  EditingIds,           \* Values of editingRouteId ...
  NotEditing,           \* ... and null.
  Loops,                \* Values of pendingForcedPoints and roundTripVariant ...
  NoLoop,               \* ... and [] and null.
  NoDraft,              \* Nothing under the key in localStorage.
  Writes                \* What localStorage may do with a write: see Store.

ASSUME DraftAssumption ==
  /\ EmptyUsers \subseteq Users
  /\ NoUser \in EmptyUsers
  /\ NoRoute \in Routes
  /\ NotEditing \in EditingIds
  /\ NoLoop \in Loops
  /\ Writes \subseteq {"whole", "withoutRoute", "refused"}
  /\ Writes # {}

VARIABLES
  screen,               \* The store: a record of Screens.
  dirty,                \* A user change since the draft was last given up.
  timer,                \* The debounce timer is armed.
  draft,                \* The contents of localStorage.
  lastWrite,            \* What became of the last write.
  unsaved,              \* History: a user change is not saved or given up.
  behind                \* History: `loop` changed since the last write.

vars == <<screen, dirty, timer, draft, lastWrite, unsaved, behind>>

\* The keys of serializeDraft.
Screens == [user : Users, route : Routes, editing : EditingIds, loop : Loops]

Fresh == [user |-> NoUser, route |-> NoRoute, editing |-> NotEditing, loop |-> NoLoop]

TypeOK ==
  /\ screen \in Screens
  /\ dirty \in BOOLEAN
  /\ timer \in BOOLEAN
  /\ draft \in Screens \cup {NoDraft}
  /\ lastWrite \in Writes \cup {"none"}
  /\ unsaved \in BOOLEAN /\ behind \in BOOLEAN

Init ==
  /\ screen = Fresh
  /\ dirty = FALSE /\ timer = FALSE
  /\ draft = NoDraft /\ lastWrite = "none"
  /\ unsaved = FALSE /\ behind = FALSE

-----------------------------------------------------------------------------
(* The functions of draft-autosave.js and draft-storage.js. *)

\* Mutant: the tracked keys are not watched.
NotifiedUserOnly(userChange, trackedChanged) ==
  /\ dirty' = (dirty \/ userChange)
  /\ timer' = (timer \/ userChange)
  /\ unsaved' = (unsaved \/ userChange)
  /\ behind' = (behind \/ screen'.loop # screen.loop)
  /\ UNCHANGED <<draft, lastWrite>>

\* The listener: a user change makes the draft dirty and arms the timer; a
\* silent change of a tracked key arms it again, but only on a dirty draft.
Notified(userChange, trackedChanged) ==
  /\ dirty' = (dirty \/ userChange)
  /\ timer' = (timer \/ userChange \/ (dirty /\ trackedChanged))
  /\ unsaved' = (unsaved \/ userChange)
  /\ behind' = (behind \/ screen'.loop # screen.loop)
  /\ UNCHANGED <<draft, lastWrite>>

\* Mutant: the second attempt drops the key instead of writing null.
StoreUndefined(s) ==
  /\ lastWrite' \in Writes
  /\ draft' = CASE lastWrite' = "whole" -> s
                [] lastWrite' = "withoutRoute" -> [s EXCEPT !.route = "undefined"]
                [] lastWrite' = "refused" -> draft
  /\ behind' = (behind /\ lastWrite' = "refused")

\* saveDraft: over quota it tries again without the route, and gives up in
\* silence if that is refused too.
Store(s) ==
  /\ lastWrite' \in Writes
  /\ draft' = CASE lastWrite' = "whole" -> s
                [] lastWrite' = "withoutRoute" -> [s EXCEPT !.route = NoRoute]
                [] lastWrite' = "refused" -> draft
  /\ behind' = (behind /\ lastWrite' = "refused")

\* Mutant: the store is written even when nothing is dirty.
FlushAlways ==
  /\ timer' = FALSE
  /\ Store(screen)
  /\ UNCHANGED <<dirty, unsaved>>

\* flush: what is written is read now, not when the timer was armed.
Flush ==
  /\ timer' = FALSE
  /\ \/ dirty /\ Store(screen)
     \/ ~dirty /\ UNCHANGED <<draft, lastWrite, behind>>
  /\ UNCHANGED <<dirty, unsaved>>

\* discardDraft of the route controller: cancel() then clearDraft().
Discard ==
  /\ dirty' = FALSE /\ timer' = FALSE
  /\ draft' = NoDraft
  /\ unsaved' = FALSE /\ behind' = FALSE
  /\ UNCHANGED lastWrite

\* Mutant: a draft is restored over a page it does not describe: only its
\* route and its mode are taken.
RestorationsPartial(d) ==
  IF d = NoDraft \/ d.user \in EmptyUsers
  THEN {Fresh}
  ELSE {[d EXCEPT !.user = NoUser]}

\* main.js after loadDraft: a draft without points is ignored, and the route
\* is kept or recomputed.
Restorations(d) ==
  IF d = NoDraft \/ d.user \in EmptyUsers
  THEN {Fresh}
  ELSE {d, [d EXCEPT !.route = NoRoute]}

-----------------------------------------------------------------------------
(* The rest of the program, as far as the autosave can tell. *)

\* An edit; an import or a generated loop leaves edit mode as well.
UserChange ==
  /\ screen' \in [user : Users, route : {screen.route, NoRoute},
                  editing : {screen.editing, NotEditing}, loop : {screen.loop}]
  /\ Notified(TRUE, screen'.route # screen.route)

\* An answer from the router, a picked alternative, the end of edit mode.
SilentChange ==
  /\ screen' \in [user : {screen.user}, route : Routes,
                  editing : {screen.editing, NotEditing}, loop : {screen.loop}]
  /\ Notified(FALSE, TRUE)

\* A point of passage for the next loop is put down or taken away, or a loop has been
\* generated: nothing tells the autosave.
LoopChange ==
  /\ \E l \in Loops : screen' = [screen EXCEPT !.loop = l]
  /\ Notified(FALSE, FALSE)

\* A saved route is opened, or the editor cleared: the draft is given up.
Replace ==
  /\ screen' \in [user : Users, route : Routes, editing : EditingIds, loop : {NoLoop}]
  /\ Discard

\* The route is saved: the screen stays, but for edit mode after an update.
Saved ==
  /\ Discard
  /\ screen' \in {screen, [screen EXCEPT !.editing = NotEditing]}

TimerFires == timer /\ Flush /\ UNCHANGED screen

\* The pagehide listener of main.js; the page may come back.
PageHide == Flush /\ UNCHANGED screen

\* The page goes away, after pagehide or without it (a crash), and is opened
\* again.
Reload ==
  /\ screen' \in Restorations(draft)
  /\ dirty' = FALSE /\ timer' = FALSE
  /\ behind' = FALSE
  /\ UNCHANGED <<draft, lastWrite, unsaved>>

Next ==
  \/ UserChange
  \/ SilentChange
  \/ LoopChange
  \/ Replace
  \/ Saved
  \/ TimerFires
  \/ PageHide
  \/ Reload

Spec == Init /\ [][Next]_vars

-----------------------------------------------------------------------------
(* Properties. *)

\* "L'etat ecrit est lu au moment de l'ecriture" (draft-autosave.js:14): a
\* dirty draft with no write due is the screen itself, whatever arrived
\* between the change, the timer and the answers, unless localStorage
\* refused it or had no room for the route.  The exception is `loop`, the points
\* of passage of the next loop and the last loop generated: the draft holds them
\* (draft-storage.js:22, 25), and as long as they have changed since the last
\* write it holds earlier ones, since they are not tracked (draft-autosave.js:7,
\* round-trip-controller.js:90-96, 138).
DraftIsScreen ==
  dirty /\ ~timer /\ lastWrite # "refused" =>
    \E loop \in IF behind THEN Loops ELSE {screen.loop} :
      LET seen == [screen EXCEPT !.loop = loop] IN
        draft = seen \/ (lastWrite = "withoutRoute"
                         /\ draft = [seen EXCEPT !.route = NoRoute])

\* A draft given up (route saved, cleared or replaced) does not come back:
\* there is one only if a user change is still unsaved
\* (draft-autosave.js:18-21).
NoGhostDraft == draft # NoDraft => unsaved

\* What the screen shows of the user's work after a reload is what the draft
\* says: no draft is left over from other points.
CleanDraftIsScreen ==
  ~dirty /\ draft # NoDraft /\ draft.user \notin EmptyUsers => draft.user = screen.user

=============================================================================
