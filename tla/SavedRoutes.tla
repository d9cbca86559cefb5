---------------------------- MODULE SavedRoutes -----------------------------
(***************************************************************************)
(* The saved routes: their rows, the threads of the backend that read and  *)
(* write them (routers/routes.py), and the list of one tab with its        *)
(* favourite and delete buttons (ui/saved-routes-list.js, list-panel.js,   *)
(* confirm-button.js).                                                     *)
(*                                                                         *)
(* A handler of the backend reads its row, then commits: nothing locks the *)
(* row in between, and the update writes the columns whose value differs   *)
(* from the one it read.  A call may also come from another tab, or be one *)
(* this tab has given up: nobody waits for its answer, the backend does    *)
(* its work all the same.                                                  *)
(***************************************************************************)
EXTENDS Naturals, FiniteSets

CONSTANTS
  Ids,                  \* The ids SQLite may give.
  Contents,             \* What may be saved: [points, line, stops] ...
  NewContents,          \* ... and as a new route.
  Absent,               \* No row has this id.
  Stock,                \* The tables the page may start with.
  MaxCalls,             \* Bound on the calls that write ...
  MaxOthers             \* ... and on those the list does not send.

VARIABLES
  rows,                 \* The table.
  sent,                 \* Number of calls sent: numbers them and new rows ...
  others,               \* ... and of those the list did not send.
  calls,                \* The calls that write, until they are answered.
  listing,              \* The last refresh of the list.
  shown,                \* The list: what was read of each row.
  armed,                \* The delete buttons that wait for a second click.
  disabled,             \* The buttons that do not answer.
  outdated,             \* History: a write since the listing was read that
                        \* this tab will not hear of.
  clashed               \* History: rows written over a content not read.

vars == <<rows, sent, others, calls, listing, shown, armed, disabled, outdated, clashed>>
listVars == <<shown, armed, disabled>>

Numbers == 0..MaxCalls

\* birth: the call that created the row.
Row(content, favorite, birth) ==
  [points |-> content.points, line |-> content.line, stops |-> content.stops,
   favorite |-> favorite, birth |-> birth]

\* The columns of a row, each on its own: they may be of two contents.
Columns == [points : {c.points : c \in Contents}, line : {c.line : c \in Contents},
            stops : {c.stops : c \in Contents}, favorite : BOOLEAN, birth : Numbers]

ASSUME SavedRoutesAssumption ==
  /\ Ids \subseteq Nat \ {0}
  /\ Contents # {}
  /\ \A c \in Contents : c = [points |-> c.points, line |-> c.line, stops |-> c.stops]
  /\ NewContents \subseteq Contents
  /\ Absent \notin Columns
  /\ MaxCalls \in Nat /\ MaxOthers \in Nat
  /\ Stock \subseteq [Ids -> {Absent} \cup {Row(c, f, 0) : c \in Contents, f \in BOOLEAN}]

Content(row) == [points |-> row.points, line |-> row.line, stops |-> row.stops]

Whole(row) == Content(row) \in Contents

Present == {i \in Ids : rows[i] # Absent}

\* id: 0 for a creation.  button: the list's button that sent the call, until
\* the list is drawn again.  seen: the row as the call read it.
Call(kind, id, content, favorite, button, waits) ==
  [n |-> sent + 1, kind |-> kind, id |-> id, content |-> content,
   favorite |-> favorite, button |-> button, waits |-> waits,
   stage |-> "sent", seen |-> Absent]

\* What the summaries show, up to their order: favourites first, then the
\* latest.
Item(i) == [id |-> i, birth |-> rows[i].birth, favorite |-> rows[i].favorite]

Summaries == {Item(i) : i \in Present}

Items == [id : Ids, birth : Numbers, favorite : BOOLEAN]

Idle == [stage |-> "idle", items |-> {}]
Asked == [stage |-> "asked", items |-> {}]
Failed == [stage |-> "failed", items |-> {}]

TypeOK ==
  /\ rows \in [Ids -> Columns \cup {Absent}]
  /\ sent \in Numbers /\ others \in 0..MaxOthers
  /\ \A c \in calls :
       /\ c.n \in 1..sent /\ c.kind \in {"create", "update", "favorite", "delete"}
       /\ c.id \in Ids \cup {0} /\ c.content \in Contents
       /\ c.favorite \in BOOLEAN /\ c.waits \in BOOLEAN
       /\ c.button \in {"none", "favorite", "delete"}
       /\ c.stage \in {"sent", "read", "committed", "done", "refused"}
       /\ c.seen \in Columns \cup {Absent}
       /\ c.button # "none" => c.waits
  /\ \A c, d \in calls : c.n = d.n => c = d
  /\ listing.stage \in {"idle", "asked", "read", "failed"}
  /\ listing.items \subseteq Items
  /\ shown \subseteq Items
  /\ armed \subseteq Ids
  /\ disabled \subseteq (Ids \X {"favorite", "delete"})
  /\ outdated \in BOOLEAN
  /\ clashed \subseteq Numbers

\* The page asks for its list as it starts.
Init ==
  /\ rows \in Stock
  /\ sent = 0 /\ others = 0 /\ calls = {}
  /\ listing = Asked
  /\ shown = {} /\ armed = {} /\ disabled = {}
  /\ outdated = FALSE /\ clashed = {}

-----------------------------------------------------------------------------
(* The tab and the others send their calls. *)

Send(kind, id, content, favorite, button, waits) ==
  /\ sent < MaxCalls
  /\ sent' = sent + 1
  /\ calls' = calls \cup {Call(kind, id, content, favorite, button, waits)}

AnyContent == CHOOSE c \in Contents : TRUE

\* The favourite button: it asks for the opposite of what is shown.
ClickFavorite(e) ==
  /\ <<e.id, "favorite">> \notin disabled
  /\ Send("favorite", e.id, AnyContent, ~e.favorite, "favorite", TRUE)
  /\ disabled' = disabled \cup {<<e.id, "favorite">>}
  /\ UNCHANGED <<rows, others, listing, shown, armed, outdated, clashed>>

\* The delete button: a first click asks, the second deletes.
ClickDelete(e) ==
  /\ <<e.id, "delete">> \notin disabled
  /\ \/ /\ e.id \notin armed
        /\ armed' = armed \cup {e.id}
        /\ UNCHANGED <<sent, calls, disabled>>
     \/ /\ e.id \in armed
        /\ armed' = armed \ {e.id}
        /\ Send("delete", e.id, AnyContent, FALSE, "delete", TRUE)
        /\ disabled' = disabled \cup {<<e.id, "delete">>}
  /\ UNCHANGED <<rows, others, listing, shown, outdated, clashed>>

\* Four seconds pass, or the focus leaves the button.
Disarm(i) ==
  /\ i \in armed
  /\ armed' = armed \ {i}
  /\ UNCHANGED <<rows, sent, others, calls, listing, shown, disabled, outdated, clashed>>

Other(kind, id, content, favorite, waits) ==
  /\ others < MaxOthers
  /\ others' = others + 1
  /\ Send(kind, id, content, favorite, "none", waits)
  /\ UNCHANGED <<rows, listing, listVars, outdated, clashed>>

\* The editor of this tab, or another tab, saves or updates ...
Save == \E content \in NewContents, waits \in BOOLEAN : Other("create", 0, content, FALSE, waits)

Edit == \E i \in Ids, content \in Contents, waits \in BOOLEAN :
          Other("update", i, content, FALSE, waits)

\* ... and another tab toggles or deletes.
ToggleElsewhere == \E i \in Ids, f \in BOOLEAN : Other("favorite", i, AnyContent, f, FALSE)

DeleteElsewhere == \E i \in Ids : Other("delete", i, AnyContent, FALSE, FALSE)

-----------------------------------------------------------------------------
(* The backend. *)

\* An answer nobody waits for leaves nothing behind.
Resolved(c, outcome) ==
  (calls \ {c}) \cup (IF c.waits THEN {[c EXCEPT !.stage = outcome]} ELSE {})

Refuse(c) ==
  /\ calls' = Resolved(c, "refused")
  /\ UNCHANGED <<rows, sent, others, listing, listVars, outdated, clashed>>

\* _get_route_or_404, in every handler but the creation.
Read(c) ==
  /\ c.stage = "sent" /\ c.kind # "create"
  /\ \/ rows[c.id] = Absent /\ Refuse(c)
     \/ /\ rows[c.id] # Absent
        /\ calls' = (calls \ {c}) \cup {[c EXCEPT !.stage = "read", !.seen = rows[c.id]]}
        /\ UNCHANGED <<rows, sent, others, listing, listVars, outdated, clashed>>

CanCommit(c) == c.stage = (IF c.kind = "create" THEN "sent" ELSE "read")

\* The database stays locked by another writer for longer than the wait.
CommitLocked(c) == CanCommit(c) /\ Refuse(c)

\* A write is news to a tab that will not be told of it.
Committed(c, stage) ==
  /\ calls' = IF stage = "done" THEN Resolved(c, "done")
              ELSE (calls \ {c}) \cup {[c EXCEPT !.stage = stage]}
  /\ outdated' = (outdated \/ ~c.waits)
  /\ UNCHANGED <<sent, others, listing, listVars>>

\* SQLite gives the id that follows the largest one in use.
NewId == IF Present = {} THEN 1 ELSE 1 + CHOOSE i \in Present : \A j \in Present : j <= i

CommitCreate(c) ==
  /\ c.kind = "create" /\ c.stage = "sent"
  /\ NewId \in Ids
  /\ rows' = [rows EXCEPT ![NewId] = Row(c.content, FALSE, c.n)]
  /\ calls' = (calls \ {c}) \cup {[c EXCEPT !.stage = "committed", !.id = NewId]}
  /\ outdated' = (outdated \/ ~c.waits)
  /\ UNCHANGED <<sent, others, listing, listVars, clashed>>

\* Mutant: the stops of the old line are kept when the new one has none.
WantedKeepsStops(c) ==
  IF c.kind = "favorite" THEN [c.seen EXCEPT !.favorite = c.favorite]
  ELSE [c.seen EXCEPT !.points = c.content.points, !.line = c.content.line,
          !.stops = IF c.content.stops = "none" THEN @ ELSE c.content.stops]

\* The attributes of the row once the handler has set them.
Wanted(c) ==
  IF c.kind = "favorite" THEN [c.seen EXCEPT !.favorite = c.favorite]
  ELSE Row(c.content, c.seen.favorite, c.seen.birth)

\* The UPDATE sets the columns whose value is not the one read.
Written(row, seen, wanted) ==
  [f \in DOMAIN row |-> IF wanted[f] # seen[f] THEN wanted[f] ELSE row[f]]

\* A toggle to the value read writes nothing; the edit of a route always sets
\* updated_at.  An UPDATE that finds no row is an error.
CommitUpdate(c) ==
  /\ c.kind \in {"update", "favorite"} /\ c.stage = "read"
  /\ LET row == rows[c.id]
         writes == c.kind = "update" \/ Wanted(c) # c.seen
     IN  \/ writes /\ row = Absent /\ Refuse(c)
         \/ /\ ~writes
            /\ calls' = (calls \ {c}) \cup {[c EXCEPT !.stage = "committed"]}
            /\ UNCHANGED <<rows, sent, others, listing, listVars, outdated, clashed>>
         \/ /\ writes /\ row # Absent
            /\ rows' = [rows EXCEPT ![c.id] = Written(row, c.seen, Wanted(c))]
            /\ clashed' = clashed \cup
                 (IF c.kind = "update" /\ Content(row) # Content(c.seen) THEN {row.birth} ELSE {})
            /\ Committed(c, "committed")

\* The DELETE that finds no row is no error.
CommitDelete(c) ==
  /\ c.kind = "delete" /\ c.stage = "read"
  /\ rows' = [rows EXCEPT ![c.id] = Absent]
  /\ Committed(c, "done")
  /\ UNCHANGED clashed

\* The row is read once more for the answer: by now it may be gone.
RefreshRow(c) ==
  /\ c.stage = "committed"
  /\ calls' = Resolved(c, IF rows[c.id] = Absent THEN "refused" ELSE "done")
  /\ UNCHANGED <<rows, sent, others, listing, listVars, outdated, clashed>>

-----------------------------------------------------------------------------
(* The answers, in the tab. *)

\* Mutant: a refresh under way is thought to be enough.
RefreshListOnce == listing' = IF listing.stage \in {"asked", "read"} THEN listing ELSE Asked

\* refreshSavedRoutesList: the answer of an earlier refresh is dropped.
RefreshList == listing' = Asked

Answered(c) ==
  /\ c.waits /\ c.stage = "done"
  /\ calls' = calls \ {c}
  /\ RefreshList
  /\ UNCHANGED <<rows, sent, others, listVars, outdated, clashed>>

\* Mutant: the button waits for a success.
GiveBackNothing(c) == disabled' = disabled

\* The button of a call that failed, unless the list was drawn since.
GiveBack(c) == disabled' = disabled \ {<<c.id, c.button>>}

RefusalAnswered(c) ==
  /\ c.waits /\ c.stage = "refused"
  /\ calls' = calls \ {c}
  /\ GiveBack(c)
  /\ UNCHANGED <<rows, sent, others, listing, shown, armed, outdated, clashed>>

\* Mutant: a call given up is still its button's.
CallLostKeepsButton(c) ==
  /\ c.waits
  /\ calls' = (calls \ {c}) \cup {[c EXCEPT !.waits = FALSE]}
  /\ UNCHANGED <<rows, sent, others, listing, listVars, outdated, clashed>>

\* The call times out or its answer is lost: the backend goes on.
CallLost(c) ==
  /\ c.waits
  /\ calls' = (calls \ {c}) \cup
                (IF c.stage \in {"done", "refused"} THEN {}
                 ELSE {[c EXCEPT !.waits = FALSE, !.button = "none"]})
  /\ GiveBack(c)
  /\ outdated' = (outdated \/ c.stage \in {"committed", "done"})
  /\ UNCHANGED <<rows, sent, others, listing, shown, armed, clashed>>

ListingRead ==
  /\ listing.stage = "asked"
  /\ listing' = [stage |-> "read", items |-> Summaries]
  /\ outdated' = FALSE
  /\ UNCHANGED <<rows, sent, others, calls, listVars, clashed>>

\* renderListPanel draws new buttons.
ListDrawn ==
  /\ listing.stage = "read"
  /\ listing' = Idle
  /\ shown' = listing.items /\ armed' = {} /\ disabled' = {}
  /\ calls' = {[c EXCEPT !.button = "none"] : c \in calls}
  /\ UNCHANGED <<rows, sent, others, outdated, clashed>>

ListingFails ==
  /\ listing.stage \in {"asked", "read"}
  /\ listing' = Failed
  /\ UNCHANGED <<rows, sent, others, calls, listVars, outdated, clashed>>

-----------------------------------------------------------------------------
User ==
  \/ \E e \in shown : ClickFavorite(e) \/ ClickDelete(e)
  \/ \E i \in Ids : Disarm(i)
  \/ Save \/ Edit \/ ToggleElsewhere \/ DeleteElsewhere

Backend ==
  \E c \in calls : \/ Read(c) \/ CommitLocked(c) \/ CommitCreate(c)
                   \/ CommitUpdate(c) \/ CommitDelete(c) \/ RefreshRow(c)

Tab ==
  \/ \E c \in calls : Answered(c) \/ RefusalAnswered(c) \/ CallLost(c)
  \/ ListingRead \/ ListDrawn \/ ListingFails

Next == User \/ Backend \/ Tab

Spec == Init /\ [][Next]_vars

-----------------------------------------------------------------------------
(* Properties. *)

\* Once nothing is awaited, the list shows the table, whatever the order in
\* which toggles, deletions, savings and refreshes were answered; unless another
\* tab wrote, or an answer was lost, since the listing was read
\* (saved-routes-list.js:92-94,115-118, list-panel.js:15-34).
ListSettles ==
  (listing = Idle /\ ~outdated /\ \A c \in calls : ~c.waits) => shown = Summaries

\* A button that does not answer has its call or a new drawing of the list
\* under way; only a refresh that failed leaves it so
\* (saved-routes-list.js:91-98,114-122).
DisabledButtonsWait ==
  \A b \in disabled :
    \/ \E c \in calls : c.id = b[1] /\ c.button = b[2]
    \/ listing # Idle

\* A row has the points, the line and the charging stops of one save, as long
\* as no update was written over a content it had not read: favourites toggled
\* and routes deleted meanwhile do not mix two of them (routes.py:213-257,
\* comment at 236-239).
RowsStayWhole ==
  \A i \in Present : rows[i].birth \notin clashed => Whole(rows[i])
=============================================================================
