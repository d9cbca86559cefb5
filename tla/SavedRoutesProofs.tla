------------------------- MODULE SavedRoutesProofs --------------------------
(***************************************************************************)
(* What the saved routes guarantee for any contents, ids and number of     *)
(* calls, whatever their threads do to each other.                         *)
(***************************************************************************)
EXTENDS SavedRoutes, TLAPS

-----------------------------------------------------------------------------
(* Types. *)

Kinds == {"create", "update", "favorite", "delete"}
Stages == {"sent", "read", "committed", "done", "refused"}
Buttons == {"none", "favorite", "delete"}

CallSet == [n : Nat, kind : Kinds, id : Ids \cup {0}, content : Contents,
            favorite : BOOLEAN, button : Buttons, waits : BOOLEAN, stage : Stages,
            seen : Columns \cup {Absent}]

\* A button's call is waited for and is no creation; a call that has found or made
\* its row knows its id; one that has read it, what it read.
CallOK(c) ==
  /\ c \in CallSet
  /\ c.button # "none" => c.waits /\ c.kind # "create"
  /\ c.kind # "create" \/ c.stage \in {"committed", "done"} => c.id \in Ids
  /\ c.stage = "read" => c.seen \in Columns

CallsOK ==
  /\ sent \in Numbers
  /\ \A c \in calls : CallOK(c) /\ c.n \in 1..sent
  /\ \A c, d \in calls : c.n = d.n => c = d

RowsOK == rows \in [Ids -> Columns \cup {Absent}]

ListOK ==
  /\ others \in 0..MaxOthers
  /\ listing \in [stage : {"idle", "asked", "read", "failed"}, items : SUBSET Items]
  /\ shown \subseteq Items
  /\ armed \subseteq Ids
  /\ disabled \subseteq (Ids \X {"favorite", "delete"})
  /\ outdated \in BOOLEAN
  /\ clashed \subseteq Numbers

TypeInv == CallsOK /\ RowsOK /\ ListOK

LEMMA TypeInvTypes == TypeInv => TypeOK
<1> SUFFICES ASSUME TypeInv PROVE TypeOK
  OBVIOUS
<1>1. rows \in [Ids -> Columns \cup {Absent}]
  BY DEF TypeInv, RowsOK
<1>2. ASSUME NEW c \in calls
      PROVE  /\ c.n \in 1..sent /\ c.kind \in {"create", "update", "favorite", "delete"}
             /\ c.id \in Ids \cup {0} /\ c.content \in Contents
             /\ c.favorite \in BOOLEAN /\ c.waits \in BOOLEAN
             /\ c.button \in {"none", "favorite", "delete"}
             /\ c.stage \in {"sent", "read", "committed", "done", "refused"}
             /\ c.seen \in Columns \cup {Absent}
             /\ c.button # "none" => c.waits
  BY DEF TypeInv, CallsOK, CallOK, CallSet, Kinds, Stages, Buttons
<1>3. QED
  BY <1>1, <1>2 DEF TypeInv, CallsOK, ListOK, TypeOK

LEMMA InitTypes == Init => TypeInv
<1> SUFFICES ASSUME Init PROVE TypeInv
  OBVIOUS
<1>1. CallsOK
  BY SavedRoutesAssumption DEF Init, CallsOK, Numbers
<1>2. rows \in [Ids -> {Absent} \cup {Row(c, f, 0) : c \in Contents, f \in BOOLEAN}]
  BY SavedRoutesAssumption DEF Init
<1>3. \A c \in Contents, f \in BOOLEAN : Row(c, f, 0) \in Columns
  BY SavedRoutesAssumption DEF Row, Columns, Numbers
<1>4. RowsOK
  BY <1>2, <1>3 DEF RowsOK
<1>5. ListOK
  <2>1. listing \in [stage : {"idle", "asked", "read", "failed"}, items : SUBSET Items]
    BY DEF Init, Asked
  <2>2. others \in 0..MaxOthers
    BY SavedRoutesAssumption DEF Init
  <2>3. QED
    BY <2>1, <2>2 DEF Init, ListOK
<1>6. QED
  BY <1>1, <1>4, <1>5 DEF TypeInv

\* A call made now.
LEMMA NewCall ==
  ASSUME TypeInv, NEW kind \in Kinds, NEW id \in Ids \cup {0}, NEW content \in Contents,
         NEW favorite \in BOOLEAN, NEW button \in Buttons, NEW waits \in BOOLEAN,
         button # "none" => waits /\ kind # "create", kind # "create" => id \in Ids,
         Send(kind, id, content, favorite, button, waits)
  PROVE  /\ CallsOK'
         /\ CallOK(Call(kind, id, content, favorite, button, waits))
<1> DEFINE d == Call(kind, id, content, favorite, button, waits)
<1>1. sent \in Nat /\ sent' = sent + 1 /\ sent' \in Numbers
  BY SavedRoutesAssumption DEF TypeInv, CallsOK, Numbers, Send
<1>2. CallOK(d) /\ d.n = sent'
  BY <1>1 DEF Call, CallOK, CallSet, Stages
<1> HIDE DEF d
<1>3. calls' = calls \cup {d}
  BY DEF Send, d
<1>4. \A c \in calls : CallOK(c) /\ c.n \in 1..sent
  BY DEF TypeInv, CallsOK
<1>5. \A c \in calls' : CallOK(c) /\ c.n \in 1..sent'
  BY <1>1, <1>2, <1>3, <1>4
<1>6. \A b, c \in calls' : b.n = c.n => b = c
  BY <1>1, <1>2, <1>3, <1>4 DEF TypeInv, CallsOK
<1>7. QED
  BY <1>1, <1>2, <1>5, <1>6 DEF CallsOK, d

\* One call becomes another of the same number, or is over.
LEMMA MovedCall ==
  ASSUME TypeInv, NEW c \in calls, NEW d, CallOK(d), d.n = c.n, sent' = sent,
         calls' \subseteq (calls \ {c}) \cup {d}
  PROVE  CallsOK'
  BY DEF TypeInv, CallsOK

LEMMA UnchangedCalls ==
  ASSUME TypeInv, UNCHANGED <<sent, calls>>
  PROVE  CallsOK'
  BY DEF TypeInv, CallsOK

\* An answer nobody waits for leaves nothing, another is one of a call of its number.
LEMMA ResolvedCall ==
  ASSUME TypeInv, NEW c \in calls, NEW outcome \in {"done", "refused"},
         outcome = "done" => c.id \in Ids, sent' = sent, calls' = Resolved(c, outcome)
  PROVE  CallsOK'
<1> DEFINE d == [c EXCEPT !.stage = outcome]
<1>1. CallOK(c)
  BY DEF TypeInv, CallsOK
<1>2. CallOK(d) /\ d.n = c.n
  BY <1>1 DEF CallOK, CallSet, Stages
<1>3. calls' \subseteq (calls \ {c}) \cup {d}
  BY DEF Resolved
<1>4. QED
  BY <1>2, <1>3, MovedCall

\* What the user and the others send.
LEMMA UserCalls == TypeInv /\ User => CallsOK'
<1> SUFFICES ASSUME TypeInv, User PROVE CallsOK'
  OBVIOUS
<1>1. AnyContent \in Contents
  BY SavedRoutesAssumption DEF AnyContent
<1>2. \A e \in shown : e.id \in Ids /\ (~e.favorite) \in BOOLEAN
  BY DEF TypeInv, ListOK, Items
<1>3. ASSUME NEW e \in shown, ClickFavorite(e) PROVE CallsOK'
  BY <1>1, <1>2, <1>3, NewCall DEF ClickFavorite, Kinds, Buttons
<1>4. ASSUME NEW e \in shown, ClickDelete(e) PROVE CallsOK'
  BY <1>1, <1>2, <1>4, NewCall, UnchangedCalls DEF ClickDelete, Kinds, Buttons
<1>5. CASE Save
  <2>1. PICK content \in NewContents, waits \in BOOLEAN :
          Send("create", 0, content, FALSE, "none", waits)
    BY <1>5 DEF Save, Other
  <2>2. content \in Contents
    BY SavedRoutesAssumption
  <2>3. QED
    BY <2>1, <2>2, NewCall DEF Kinds, Buttons
<1>6. CASE Edit
  BY <1>6, NewCall DEF Edit, Other, Kinds, Buttons
<1>7. CASE ToggleElsewhere \/ DeleteElsewhere
  BY <1>1, <1>7, NewCall DEF ToggleElsewhere, DeleteElsewhere, Other, Kinds, Buttons
<1>8. ASSUME NEW i \in Ids, Disarm(i) PROVE CallsOK'
  BY <1>8, UnchangedCalls DEF Disarm
<1>9. QED
  BY <1>3, <1>4, <1>5, <1>6, <1>7, <1>8 DEF User

LEMMA RefusedCall ==
  ASSUME TypeInv, NEW c \in calls, Refuse(c)
  PROVE  CallsOK'
  BY ResolvedCall DEF Refuse

\* What the threads of the backend do.
LEMMA BackendCalls == TypeInv /\ Backend => CallsOK'
<1> SUFFICES ASSUME TypeInv, NEW c \in calls,
                    \/ Read(c) \/ CommitLocked(c) \/ CommitCreate(c)
                    \/ CommitUpdate(c) \/ CommitDelete(c) \/ RefreshRow(c)
             PROVE  CallsOK'
  BY DEF Backend
<1>0. CallOK(c)
  BY DEF TypeInv, CallsOK
<1>1. CASE Read(c)
  <2>1. CASE Refuse(c)
    BY <2>1, RefusedCall
  <2>2. CASE ~Refuse(c)
    <3> DEFINE d == [c EXCEPT !.stage = "read", !.seen = rows[c.id]]
    <3>1. /\ c.kind # "create" /\ rows[c.id] # Absent /\ sent' = sent
          /\ calls' = (calls \ {c}) \cup {d}
      BY <1>1, <2>2 DEF Read
    <3>2. rows[c.id] \in Columns
      BY <1>0, <3>1 DEF CallOK, TypeInv, RowsOK
    <3>3. CallOK(d) /\ d.n = c.n
      BY <1>0, <3>1, <3>2 DEF CallOK, CallSet, Stages
    <3>4. QED
      BY <3>1, <3>3, MovedCall
  <2>3. QED
    BY <2>1, <2>2
<1>2. CASE CommitLocked(c)
  BY <1>2, RefusedCall DEF CommitLocked
<1>3. CASE CommitCreate(c)
  <2> DEFINE d == [c EXCEPT !.stage = "committed", !.id = NewId]
  <2>1. CallOK(d) /\ d.n = c.n
    BY <1>0, <1>3 DEF CommitCreate, CallOK, CallSet, Stages
  <2>2. QED
    BY <1>3, <2>1, MovedCall DEF CommitCreate
<1>4. CASE CommitUpdate(c)
  <2> DEFINE d == [c EXCEPT !.stage = "committed"]
  <2>1. CallOK(d) /\ d.n = c.n
    BY <1>0, <1>4 DEF CommitUpdate, CallOK, CallSet, Stages
  <2>2. Refuse(c) \/ (sent' = sent /\ calls' = (calls \ {c}) \cup {d})
    BY <1>4 DEF CommitUpdate, Committed
  <2>3. QED
    BY <2>1, <2>2, MovedCall, RefusedCall
<1>5. CASE CommitDelete(c)
  <2>1. c.id \in Ids /\ sent' = sent /\ calls' = Resolved(c, "done")
    BY <1>0, <1>5 DEF CommitDelete, Committed, CallOK
  <2>2. QED
    BY <2>1, ResolvedCall
<1>6. CASE RefreshRow(c)
  BY <1>0, <1>6, ResolvedCall DEF RefreshRow, CallOK
<1>7. QED
  BY <1>1, <1>2, <1>3, <1>4, <1>5, <1>6

\* What comes back to the tab.
LEMMA TabCalls == TypeInv /\ Tab => CallsOK'
<1> SUFFICES ASSUME TypeInv, Tab PROVE CallsOK'
  OBVIOUS
<1>0. \A c \in calls : CallOK(c)
  BY DEF TypeInv, CallsOK
<1>1. ASSUME NEW c \in calls, Answered(c) \/ RefusalAnswered(c) PROVE CallsOK'
  BY <1>0, <1>1, MovedCall DEF Answered, RefusalAnswered
<1>2. ASSUME NEW c \in calls, CallLost(c) PROVE CallsOK'
  <2> DEFINE d == [c EXCEPT !.waits = FALSE, !.button = "none"]
  <2>1. CallOK(d) /\ d.n = c.n
    BY <1>0 DEF CallOK, CallSet, Buttons
  <2>2. sent' = sent /\ calls' \subseteq (calls \ {c}) \cup {d}
    BY <1>2 DEF CallLost
  <2>3. QED
    BY <2>1, <2>2, MovedCall
<1>3. CASE ListingRead \/ ListingFails
  BY <1>3, UnchangedCalls DEF ListingRead, ListingFails
<1>4. CASE ListDrawn
  <2>1. \A c \in calls : /\ CallOK([c EXCEPT !.button = "none"])
                         /\ [c EXCEPT !.button = "none"].n = c.n
    BY <1>0 DEF CallOK, CallSet, Buttons
  <2>2. sent' = sent /\ calls' = {[c EXCEPT !.button = "none"] : c \in calls}
    BY <1>4 DEF ListDrawn
  <2>3. \A c, d \in calls : c.n = d.n => c = d
    BY DEF TypeInv, CallsOK
  <2>4. \A c \in calls : c.n \in 1..sent
    BY DEF TypeInv, CallsOK
  <2>5. \A d \in calls' : CallOK(d) /\ d.n \in 1..sent'
    BY <2>1, <2>2, <2>4
  <2>6. ASSUME NEW b \in calls', NEW d \in calls', b.n = d.n PROVE b = d
    <3>1. PICK x \in calls : b = [x EXCEPT !.button = "none"]
      BY <2>2
    <3>2. PICK y \in calls : d = [y EXCEPT !.button = "none"]
      BY <2>2
    <3>3. x = y
      BY <2>1, <2>3, <2>6, <3>1, <3>2
    <3>4. QED
      BY <3>1, <3>2, <3>3
  <2>7. QED
    BY <2>2, <2>5, <2>6 DEF TypeInv, CallsOK
<1>5. QED
  BY <1>1, <1>2, <1>3, <1>4 DEF Tab

-----------------------------------------------------------------------------
(* Rows. *)

\* An UPDATE leaves a row of the same columns: those that are not the ones read are
\* new, the others are as they were.
LEMMA WrittenRow ==
  ASSUME NEW row \in Columns, NEW seen \in Columns, NEW wanted \in Columns
  PROVE  /\ Written(row, seen, wanted) \in Columns
         /\ \A f \in {"points", "line", "stops", "favorite", "birth"} :
              Written(row, seen, wanted)[f] =
                IF wanted[f] # seen[f] THEN wanted[f] ELSE row[f]
<1>1. DOMAIN row = {"points", "line", "stops", "favorite", "birth"}
  BY DEF Columns
<1>2. ASSUME NEW f \in {"points", "line", "stops", "favorite", "birth"}
      PROVE  Written(row, seen, wanted)[f] =
               IF wanted[f] # seen[f] THEN wanted[f] ELSE row[f]
  BY <1>1 DEF Written
<1>3. Written(row, seen, wanted) =
        [points |-> Written(row, seen, wanted).points, line |-> Written(row, seen, wanted).line,
         stops |-> Written(row, seen, wanted).stops,
         favorite |-> Written(row, seen, wanted).favorite,
         birth |-> Written(row, seen, wanted).birth]
  BY <1>1 DEF Written
<1>4. /\ Written(row, seen, wanted).points \in {c.points : c \in Contents}
      /\ Written(row, seen, wanted).line \in {c.line : c \in Contents}
      /\ Written(row, seen, wanted).stops \in {c.stops : c \in Contents}
      /\ Written(row, seen, wanted).favorite \in BOOLEAN
      /\ Written(row, seen, wanted).birth \in Numbers
  BY <1>2 DEF Columns
<1>5. QED
  BY <1>2, <1>3, <1>4 DEF Columns

LEMMA ContentRow ==
  ASSUME NEW c \in Contents, NEW favorite \in BOOLEAN, NEW birth \in Numbers
  PROVE  Row(c, favorite, birth) \in Columns
  BY DEF Row, Columns

LEMMA WantedRow ==
  ASSUME NEW c, CallOK(c), c.stage = "read"
  PROVE  Wanted(c) \in Columns /\ c.seen \in Columns
<1>1. c.seen \in Columns /\ c.content \in Contents /\ c.favorite \in BOOLEAN
  BY DEF CallOK, CallSet
<1>2. c.seen.favorite \in BOOLEAN /\ c.seen.birth \in Numbers
  BY <1>1 DEF Columns
<1>3. Row(c.content, c.seen.favorite, c.seen.birth) \in Columns
  BY <1>1, <1>2, ContentRow
<1>4. [c.seen EXCEPT !.favorite = c.favorite] \in Columns
  BY <1>1 DEF Columns
<1>5. QED
  BY <1>1, <1>3, <1>4 DEF Wanted

\* What a commit does to the table: nothing, or one row, which is new, another, or gone.
LEMMA RowChanges ==
  TypeInv /\ [Next]_vars =>
    \/ UNCHANGED <<rows, clashed>>
    \/ \E c \in calls : CommitCreate(c) \/ CommitDelete(c)
    \/ \E c \in calls : /\ CommitUpdate(c) /\ rows[c.id] # Absent
                         /\ rows' = [rows EXCEPT ![c.id] = Written(rows[c.id], c.seen, Wanted(c))]
                         /\ clashed' = clashed \cup
                              (IF c.kind = "update" /\ Content(rows[c.id]) # Content(c.seen)
                               THEN {rows[c.id].birth} ELSE {})
<1> SUFFICES ASSUME [Next]_vars
             PROVE \/ UNCHANGED <<rows, clashed>>
                   \/ \E c \in calls : CommitCreate(c) \/ CommitDelete(c)
                   \/ \E c \in calls :
                        /\ CommitUpdate(c) /\ rows[c.id] # Absent
                        /\ rows' = [rows EXCEPT ![c.id] = Written(rows[c.id], c.seen, Wanted(c))]
                        /\ clashed' = clashed \cup
                             (IF c.kind = "update" /\ Content(rows[c.id]) # Content(c.seen)
                              THEN {rows[c.id].birth} ELSE {})
  OBVIOUS
<1>1. CASE User
  BY <1>1 DEF User, ClickFavorite, ClickDelete, Disarm, Save, Edit, ToggleElsewhere,
     DeleteElsewhere, Other
<1>2. CASE Tab
  BY <1>2 DEF Tab, Answered, RefusalAnswered, CallLost, ListingRead, ListDrawn, ListingFails
<1>3. ASSUME NEW c \in calls, Read(c) \/ CommitLocked(c) \/ RefreshRow(c)
      PROVE  UNCHANGED <<rows, clashed>>
  BY <1>3 DEF Read, CommitLocked, RefreshRow, Refuse
<1>4. ASSUME NEW c \in calls, CommitUpdate(c)
      PROVE  \/ UNCHANGED <<rows, clashed>>
             \/ /\ rows[c.id] # Absent
                /\ rows' = [rows EXCEPT ![c.id] = Written(rows[c.id], c.seen, Wanted(c))]
                /\ clashed' = clashed \cup
                     (IF c.kind = "update" /\ Content(rows[c.id]) # Content(c.seen)
                      THEN {rows[c.id].birth} ELSE {})
  BY <1>4 DEF CommitUpdate, Refuse
<1>5. CASE UNCHANGED vars
  BY <1>5 DEF vars
<1>6. QED
  BY <1>1, <1>2, <1>3, <1>4, <1>5 DEF Next, Backend

LEMMA StepRows == TypeInv /\ [Next]_vars => RowsOK' /\ (clashed \subseteq Numbers)'
<1> SUFFICES ASSUME TypeInv, [Next]_vars PROVE RowsOK' /\ (clashed \subseteq Numbers)'
  OBVIOUS
<1>0. /\ rows \in [Ids -> Columns \cup {Absent}] /\ clashed \subseteq Numbers
      /\ \A c \in calls : CallOK(c) /\ c.n \in 1..sent
      /\ sent \in Numbers
  BY DEF TypeInv, RowsOK, ListOK, CallsOK
<1>1. CASE UNCHANGED <<rows, clashed>>
  BY <1>0, <1>1 DEF RowsOK
<1>2. ASSUME NEW c \in calls, CommitCreate(c) PROVE RowsOK' /\ (clashed \subseteq Numbers)'
  <2>1. c.content \in Contents /\ c.n \in Numbers
    BY <1>0, SavedRoutesAssumption DEF CallOK, CallSet, Numbers
  <2>2. Row(c.content, FALSE, c.n) \in Columns
    BY <2>1, ContentRow
  <2>3. QED
    BY <1>0, <1>2, <2>2 DEF CommitCreate, RowsOK
<1>3. ASSUME NEW c \in calls, CommitDelete(c) PROVE RowsOK' /\ (clashed \subseteq Numbers)'
  BY <1>0, <1>3 DEF CommitDelete, RowsOK
<1>4. ASSUME NEW c \in calls, CommitUpdate(c), rows[c.id] # Absent,
             rows' = [rows EXCEPT ![c.id] = Written(rows[c.id], c.seen, Wanted(c))],
             clashed' \subseteq clashed \cup {rows[c.id].birth}
      PROVE  RowsOK' /\ (clashed \subseteq Numbers)'
  <2>1. c.id \in Ids /\ c.stage = "read"
    BY <1>0, <1>4 DEF CommitUpdate, CallOK
  <2>2. rows[c.id] \in Columns
    BY <1>0, <1>4, <2>1
  <2>3. Written(rows[c.id], c.seen, Wanted(c)) \in Columns
    BY <1>0, <2>1, <2>2, WantedRow, WrittenRow
  <2>4. rows[c.id].birth \in Numbers
    BY <2>2 DEF Columns
  <2>5. QED
    BY <1>0, <1>4, <2>3, <2>4 DEF RowsOK
<1>5. QED
  BY <1>1, <1>2, <1>3, <1>4, RowChanges

\* The list's own variables.
LEMMA StepListOK == TypeInv /\ [Next]_vars => ListOK'
<1> SUFFICES ASSUME TypeInv, [Next]_vars PROVE ListOK'
  OBVIOUS
<1>0. (clashed \subseteq Numbers)'
  BY StepRows
<1>1. CASE User
  <2>1. UNCHANGED <<listing, shown, outdated>>
    BY <1>1 DEF User, ClickFavorite, ClickDelete, Disarm, Save, Edit, ToggleElsewhere,
       DeleteElsewhere, Other, listVars
  <2>2. others \in 0..MaxOthers /\ armed \subseteq Ids
        /\ disabled \subseteq (Ids \X {"favorite", "delete"})
        /\ \A e \in shown : e.id \in Ids
    BY DEF TypeInv, ListOK, Items
  <2>3. ASSUME NEW e \in shown, ClickFavorite(e) \/ ClickDelete(e)
        PROVE  /\ others' \in 0..MaxOthers /\ armed' \subseteq Ids
               /\ disabled' \subseteq (Ids \X {"favorite", "delete"})
    <3>1. others' = others /\ armed' \subseteq armed \cup {e.id}
      BY <2>3 DEF ClickFavorite, ClickDelete
    <3>2. disabled' \subseteq disabled \cup {<<e.id, "favorite">>, <<e.id, "delete">>}
      BY <2>3 DEF ClickFavorite, ClickDelete
    <3>3. <<e.id, "favorite">> \in Ids \X {"favorite", "delete"}
          /\ <<e.id, "delete">> \in Ids \X {"favorite", "delete"}
      BY <2>2
    <3>4. QED
      BY <2>2, <3>1, <3>2, <3>3
  <2>4. ASSUME NEW i \in Ids, Disarm(i)
        PROVE  /\ others' \in 0..MaxOthers /\ armed' \subseteq Ids
               /\ disabled' \subseteq (Ids \X {"favorite", "delete"})
    BY <2>2, <2>4 DEF Disarm
  <2>5. ASSUME Save \/ Edit \/ ToggleElsewhere \/ DeleteElsewhere
        PROVE  /\ others' \in 0..MaxOthers /\ armed' \subseteq Ids
               /\ disabled' \subseteq (Ids \X {"favorite", "delete"})
    <3>1. others < MaxOthers /\ others' = others + 1 /\ UNCHANGED listVars
      BY <2>5 DEF Save, Edit, ToggleElsewhere, DeleteElsewhere, Other
    <3>2. QED
      BY <2>2, <3>1, SavedRoutesAssumption DEF listVars
  <2>6. /\ others' \in 0..MaxOthers /\ armed' \subseteq Ids
        /\ disabled' \subseteq (Ids \X {"favorite", "delete"})
    BY <1>1, <2>3, <2>4, <2>5 DEF User
  <2>7. QED
    BY <1>0, <2>1, <2>6 DEF TypeInv, ListOK
<1>2. CASE Backend
  <2>1. UNCHANGED <<others, listing, listVars>> /\ outdated' \in BOOLEAN
    BY <1>2 DEF Backend, Read, CommitLocked, CommitCreate, CommitUpdate, CommitDelete,
       RefreshRow, Refuse, Committed, TypeInv, ListOK
  <2>2. QED
    BY <1>0, <2>1 DEF TypeInv, ListOK, listVars
<1>3. ASSUME NEW c \in calls, Answered(c) PROVE ListOK'
  BY <1>0, <1>3 DEF Answered, RefreshList, Asked, TypeInv, ListOK, listVars
<1>4. ASSUME NEW c \in calls, RefusalAnswered(c) \/ CallLost(c) PROVE ListOK'
  BY <1>0, <1>4 DEF RefusalAnswered, CallLost, GiveBack, TypeInv, ListOK
<1>5. CASE ListingRead
  <2>1. Summaries \subseteq Items
    BY DEF Summaries, Item, Items, Present, TypeInv, RowsOK, Columns
  <2>2. QED
    BY <1>0, <1>5, <2>1 DEF ListingRead, TypeInv, ListOK, listVars
<1>6. CASE ListDrawn
  BY <1>0, <1>6 DEF ListDrawn, Idle, TypeInv, ListOK
<1>7. CASE ListingFails
  BY <1>0, <1>7 DEF ListingFails, Failed, TypeInv, ListOK, listVars
<1>8. CASE UNCHANGED vars
  BY <1>8 DEF vars, TypeInv, ListOK
<1>9. QED
  BY <1>1, <1>2, <1>3, <1>4, <1>5, <1>6, <1>7, <1>8 DEF Next, Tab

LEMMA StepTypes == TypeInv /\ [Next]_vars => TypeInv'
<1>1. TypeInv /\ UNCHANGED vars => CallsOK'
  BY UnchangedCalls DEF vars
<1>2. QED
  BY <1>1, UserCalls, BackendCalls, TabCalls, StepRows, StepListOK DEF Next, TypeInv

\* Every variable keeps its type, whatever the calls do to each other.
THEOREM TypeCorrect == Spec => []TypeOK
  BY InitTypes, StepTypes, TypeInvTypes, PTL DEF Spec

-----------------------------------------------------------------------------
(* Rows stay whole. *)

\* An update over the content it has read leaves its own; one over another content
\* makes the row known as a clash; a favourite toggled touches no content.
LEMMA UpdateKeepsWhole ==
  ASSUME TypeInv, RowsStayWhole, NEW c \in calls, CommitUpdate(c), rows[c.id] # Absent,
         rows' = [rows EXCEPT ![c.id] = Written(rows[c.id], c.seen, Wanted(c))],
         clashed' = clashed \cup
           (IF c.kind = "update" /\ Content(rows[c.id]) # Content(c.seen)
            THEN {rows[c.id].birth} ELSE {})
  PROVE  RowsStayWhole'
<1> DEFINE row == rows[c.id]
           new == Written(row, c.seen, Wanted(c))
<1>1. CallOK(c) /\ c.stage = "read" /\ c.id \in Ids /\ c.kind \in {"update", "favorite"}
  BY DEF TypeInv, CallsOK, CommitUpdate, CallOK
<1>2. row \in Columns /\ c.seen \in Columns /\ Wanted(c) \in Columns
  BY <1>1, WantedRow DEF TypeInv, RowsOK
<1>3. \A f \in {"points", "line", "stops", "favorite", "birth"} :
        new[f] = IF Wanted(c)[f] # c.seen[f] THEN Wanted(c)[f] ELSE row[f]
  BY <1>2, WrittenRow
<1>4. rows'[c.id] = new /\ \A i \in Ids \ {c.id} : rows'[i] = rows[i]
  BY <1>1 DEF TypeInv, RowsOK
<1> HIDE DEF row, new
<1>5. Wanted(c).birth = c.seen.birth
  BY <1>2 DEF Wanted, Row, Columns
<1>6. new.birth = row.birth
  BY <1>3, <1>5
<1>7. CASE c.kind = "favorite"
  <2>1. /\ Wanted(c).points = c.seen.points /\ Wanted(c).line = c.seen.line
        /\ Wanted(c).stops = c.seen.stops
    BY <1>2, <1>7 DEF Wanted, Columns
  <2>2. Content(new) = Content(row)
    BY <1>3, <2>1 DEF Content
  <2>3. row.birth \notin clashed => Content(row) \in Contents
    BY <1>1 DEF RowsStayWhole, Present, Whole, row
  <2>4. clashed' = clashed
    BY <1>7
  <2>5. QED
    BY <1>4, <1>6, <2>2, <2>3, <2>4 DEF RowsStayWhole, Present, Whole
<1>8. CASE c.kind = "update"
  <2>1. /\ Wanted(c).points = c.content.points /\ Wanted(c).line = c.content.line
        /\ Wanted(c).stops = c.content.stops /\ c.content \in Contents
    BY <1>1, <1>8 DEF Wanted, Row, CallOK, CallSet
  <2>2. CASE Content(row) = Content(c.seen)
    <3>1. row.points = c.seen.points /\ row.line = c.seen.line /\ row.stops = c.seen.stops
      BY <2>2 DEF Content
    <3>2. new.points = c.content.points /\ new.line = c.content.line
          /\ new.stops = c.content.stops
      BY <1>3, <2>1, <3>1
    <3>3. Content(new) = c.content
      BY <2>1, <3>2, SavedRoutesAssumption DEF Content
    <3>4. clashed \subseteq clashed'
      OBVIOUS
    <3>5. QED
      BY <1>4, <2>1, <3>3, <3>4 DEF RowsStayWhole, Present, Whole
  <2>3. CASE Content(row) # Content(c.seen)
    <3>1. new.birth \in clashed' /\ clashed \subseteq clashed'
      BY <1>6, <1>8, <2>3 DEF row
    <3>2. QED
      BY <1>4, <3>1 DEF RowsStayWhole, Present
  <2>4. QED
    BY <2>2, <2>3
<1>9. QED
  BY <1>1, <1>7, <1>8

LEMMA StepWhole == TypeInv /\ RowsStayWhole /\ [Next]_vars => RowsStayWhole'
<1> SUFFICES ASSUME TypeInv, RowsStayWhole, [Next]_vars PROVE RowsStayWhole'
  OBVIOUS
<1>1. CASE UNCHANGED <<rows, clashed>>
  BY <1>1 DEF RowsStayWhole, Present
<1>2. ASSUME NEW c \in calls, CommitCreate(c) PROVE RowsStayWhole'
  <2>1. c.content \in Contents
    BY DEF TypeInv, CallsOK, CallOK, CallSet
  <2>2. Content(Row(c.content, FALSE, c.n)) \in Contents
    BY <2>1, SavedRoutesAssumption DEF Content, Row
  <2>3. rows' = [rows EXCEPT ![NewId] = Row(c.content, FALSE, c.n)] /\ clashed' = clashed
    BY <1>2 DEF CommitCreate
  <2>4. QED
    BY <2>2, <2>3 DEF TypeInv, RowsOK, RowsStayWhole, Present, Whole
<1>3. ASSUME NEW c \in calls, CommitDelete(c) PROVE RowsStayWhole'
  BY <1>3 DEF CommitDelete, TypeInv, RowsOK, RowsStayWhole, Present
<1>4. QED
  BY <1>1, <1>2, <1>3, UpdateKeepsWhole, RowChanges

LEMMA InitWhole == Init => RowsStayWhole
<1> SUFFICES ASSUME Init, NEW i \in Present PROVE Whole(rows[i])
  BY DEF RowsStayWhole
<1>1. PICK c \in Contents, f \in BOOLEAN : rows[i] = Row(c, f, 0)
  BY SavedRoutesAssumption DEF Init, Present
<1>2. QED
  BY <1>1, SavedRoutesAssumption DEF Whole, Content, Row

\* A row has the points, line and stops of one save, unless an update was written over
\* a content it had not read (routes.py:213-257).
THEOREM RowsWhole == Spec => []RowsStayWhole
  BY InitTypes, StepTypes, InitWhole, StepWhole, PTL DEF Spec

-----------------------------------------------------------------------------
(* Buttons wait for something. *)

\* Calls keep the button and the row they were sent for, unless they leave them to
\* the drawing of the list or to the button given back.
Keeps(c) == \E d \in calls' : d.id = c.id /\ d.button = c.button

\* As long as what a disabled button waits for goes on, so does its waiting.
LEMMA WaitingGoesOn ==
  ASSUME TypeInv, DisabledButtonsWait, disabled' \subseteq disabled,
         listing' = listing \/ listing' # Idle,
         \A c \in calls : c.button # "none" => Keeps(c) \/ <<c.id, c.button>> \notin disabled'
  PROVE  DisabledButtonsWait'
<1> SUFFICES ASSUME NEW b \in disabled', listing' = Idle
             PROVE  \E d \in calls' : d.id = b[1] /\ d.button = b[2]
  BY DEF DisabledButtonsWait
<1>1. b \in disabled /\ b \in Ids \X {"favorite", "delete"}
  BY DEF TypeInv, ListOK
<1>2. b = <<b[1], b[2]>> /\ b[2] # "none"
  BY <1>1
<1>3. PICK c \in calls : c.id = b[1] /\ c.button = b[2]
  BY <1>1 DEF DisabledButtonsWait
<1>4. Keeps(c)
  BY <1>2, <1>3
<1>5. QED
  BY <1>3, <1>4 DEF Keeps

\* A click disables the button of the call it sends.
LEMMA ClicksWait ==
  ASSUME TypeInv, DisabledButtonsWait, NEW e \in shown, ClickFavorite(e) \/ ClickDelete(e)
  PROVE  DisabledButtonsWait'
<1>1. listing' = listing /\ calls \subseteq calls'
  BY DEF ClickFavorite, ClickDelete, Send
<1>2. ASSUME NEW button, disabled' = disabled \cup {<<e.id, button>>},
             \E d \in calls' : d.id = e.id /\ d.button = button
      PROVE  DisabledButtonsWait'
  BY <1>1, <1>2 DEF DisabledButtonsWait
<1>3. CASE ClickFavorite(e)
  <2> DEFINE d == Call("favorite", e.id, AnyContent, ~e.favorite, "favorite", TRUE)
  <2>1. d.id = e.id /\ d.button = "favorite"
    BY DEF Call
  <2>2. d \in calls' /\ disabled' = disabled \cup {<<e.id, "favorite">>}
    BY <1>3 DEF ClickFavorite, Send
  <2> HIDE DEF d
  <2>3. QED
    BY <1>2, <2>1, <2>2
<1>4. CASE ClickDelete(e)
  <2>1. CASE disabled' = disabled
    BY <1>1, <2>1 DEF DisabledButtonsWait
  <2>2. CASE disabled' # disabled
    BY <1>2, <1>4, <2>2 DEF ClickDelete, Send, Call
  <2>3. QED
    BY <2>1, <2>2
<1>5. QED
  BY <1>3, <1>4

\* A call of a button that is resolved is still there to be answered.
LEMMA ResolvedKeeps ==
  ASSUME TypeInv, NEW c \in calls, NEW outcome \in Stages, calls' = Resolved(c, outcome)
  PROVE  \A b \in calls : b.button # "none" => Keeps(b)
<1>1. c.button # "none" => c.waits
  BY DEF TypeInv, CallsOK, CallOK
<1>2. [c EXCEPT !.stage = outcome].id = c.id /\ [c EXCEPT !.stage = outcome].button = c.button
  BY DEF TypeInv, CallsOK, CallOK, CallSet
<1>3. ASSUME NEW b \in calls, b.button # "none" PROVE Keeps(b)
  <2>1. CASE b = c
    <3>1. [c EXCEPT !.stage = outcome] \in calls'
      BY <1>1, <1>3, <2>1 DEF Resolved
    <3>2. QED
      BY <1>2, <2>1, <3>1 DEF Keeps
  <2>2. CASE b # c
    <3>1. b \in calls'
      BY <2>2 DEF Resolved
    <3>2. QED
      BY <3>1 DEF Keeps
  <2>3. QED
    BY <2>1, <2>2
<1>4. QED
  BY <1>3

LEMMA BackendWaits == TypeInv /\ DisabledButtonsWait /\ Backend => DisabledButtonsWait'
<1> SUFFICES ASSUME TypeInv, DisabledButtonsWait, NEW c \in calls,
                    \/ Read(c) \/ CommitLocked(c) \/ CommitCreate(c)
                    \/ CommitUpdate(c) \/ CommitDelete(c) \/ RefreshRow(c)
             PROVE  DisabledButtonsWait'
  BY DEF Backend
<1>0. CallOK(c)
  BY DEF TypeInv, CallsOK
<1>1. UNCHANGED <<disabled, listing>>
  BY DEF Read, CommitLocked, CommitCreate, CommitUpdate, CommitDelete, RefreshRow, Refuse,
     Committed, listVars
<1>2. \A b \in calls : b.button # "none" => Keeps(b)
  <2>1. ASSUME NEW outcome \in Stages, calls' = Resolved(c, outcome)
        PROVE  \A b \in calls : b.button # "none" => Keeps(b)
    BY <2>1, ResolvedKeeps
  <2>2. ASSUME NEW d, d.id = c.id /\ d.button = c.button, calls' = (calls \ {c}) \cup {d}
        PROVE  \A b \in calls : b.button # "none" => Keeps(b)
    BY <2>2 DEF Keeps
  <2>3. CASE Refuse(c)
    BY <2>1, <2>3 DEF Refuse, Stages
  <2>4. CASE Read(c) /\ ~Refuse(c)
    <3> DEFINE d == [c EXCEPT !.stage = "read", !.seen = rows[c.id]]
    <3>1. calls' = (calls \ {c}) \cup {d}
      BY <2>4 DEF Read
    <3>2. d.id = c.id /\ d.button = c.button
      BY <1>0 DEF CallOK, CallSet
    <3>3. QED
      BY <2>2, <3>1, <3>2
  <2>5. CASE CommitCreate(c)
    BY <1>0, <2>5 DEF CommitCreate, CallOK, Keeps
  <2>6. CASE CommitUpdate(c) /\ ~Refuse(c)
    <3> DEFINE d == [c EXCEPT !.stage = "committed"]
    <3>1. calls' = (calls \ {c}) \cup {d}
      BY <2>6 DEF CommitUpdate, Committed
    <3>2. d.id = c.id /\ d.button = c.button
      BY <1>0 DEF CallOK, CallSet
    <3>3. QED
      BY <2>2, <3>1, <3>2
  <2>7. CASE CommitDelete(c)
    BY <2>1, <2>7 DEF CommitDelete, Committed, Stages
  <2>8. CASE RefreshRow(c)
    BY <2>1, <2>8 DEF RefreshRow, Stages
  <2>9. QED
    BY <2>3, <2>4, <2>5, <2>6, <2>7, <2>8 DEF CommitLocked
<1>3. QED
  BY <1>1, <1>2, WaitingGoesOn

LEMMA StepWaits == TypeInv /\ DisabledButtonsWait /\ [Next]_vars => DisabledButtonsWait'
<1> SUFFICES ASSUME TypeInv, DisabledButtonsWait, [Next]_vars PROVE DisabledButtonsWait'
  OBVIOUS
<1>1. ASSUME UNCHANGED <<disabled, listing>>, calls \subseteq calls' PROVE DisabledButtonsWait'
  BY <1>1 DEF DisabledButtonsWait
<1>2. CASE User
  <2>1. ASSUME NEW i \in Ids, Disarm(i) PROVE DisabledButtonsWait'
    BY <1>1, <2>1 DEF Disarm
  <2>2. ASSUME Save \/ Edit \/ ToggleElsewhere \/ DeleteElsewhere PROVE DisabledButtonsWait'
    BY <1>1, <2>2 DEF Save, Edit, ToggleElsewhere, DeleteElsewhere, Other, Send, listVars
  <2>3. QED
    BY <1>2, <2>1, <2>2, ClicksWait DEF User
<1>3. ASSUME NEW c \in calls, Answered(c) PROVE DisabledButtonsWait'
  BY <1>3 DEF Answered, RefreshList, Asked, Idle, DisabledButtonsWait
<1>4. ASSUME NEW c \in calls, RefusalAnswered(c) \/ CallLost(c) PROVE DisabledButtonsWait'
  <2>1. /\ disabled' = disabled \ {<<c.id, c.button>>} /\ listing' = listing
        /\ calls \ {c} \subseteq calls'
    BY <1>4 DEF RefusalAnswered, CallLost, GiveBack
  <2>2. QED
    BY <2>1, WaitingGoesOn DEF Keeps
<1>5. CASE ListingRead \/ ListingFails
  BY <1>5 DEF ListingRead, ListingFails, Failed, Idle, listVars, DisabledButtonsWait
<1>6. CASE ListDrawn
  BY <1>6 DEF ListDrawn, DisabledButtonsWait
<1>7. CASE UNCHANGED vars
  BY <1>1, <1>7 DEF vars
<1>8. QED
  BY <1>2, <1>3, <1>4, <1>5, <1>6, <1>7, BackendWaits DEF Next, Tab

LEMMA InitWaits == Init => DisabledButtonsWait
  BY DEF Init, DisabledButtonsWait

\* A button that does not answer has its call, or a drawing of the list, to wait for
\* (saved-routes-list.js:91-98,114-122).
THEOREM ButtonsComeBack == Spec => []DisabledButtonsWait
  BY InitTypes, StepTypes, InitWaits, StepWaits, PTL DEF Spec

-----------------------------------------------------------------------------
(* The list settles. *)

\* The row of an id in a list, at most one.
At(items, i) == {e \in items : e.id = i}

\* A call of which the tab will hear that it changed this row, and will then ask for
\* its list again; a row that is gone since will make it a refusal.
News(i) ==
  \E c \in calls : /\ c.waits /\ c.id = i
                   /\ c.stage = "done" \/ (c.stage = "committed" /\ rows[i] # Absent)

\* What was listed of a row is the row, unless there are news of it to come.
ListedRight ==
  ~outdated =>
    \A i \in Ids : ~News(i) =>
      /\ listing.stage = "read" => At(listing.items, i) = At(Summaries, i)
      /\ listing.stage = "idle" => At(shown, i) = At(Summaries, i)

\* What a row adds to the list depends on this row only.
LEMMA RowListed ==
  ASSUME NEW i \in Ids, rows'[i] = rows[i]
  PROVE  At(Summaries, i)' = At(Summaries, i)
  BY DEF At, Summaries, Item, Present

\* Rows change where there are news of them, and no news is lost.
LEMMA NewsStay ==
  ASSUME ListedRight, UNCHANGED <<listing, shown>>, outdated => outdated',
         \A i \in Ids : ~outdated' /\ ~News(i)' => ~News(i) /\ rows'[i] = rows[i]
  PROVE  ListedRight'
  BY RowListed DEF ListedRight, At

\* An answer that is a refusal, or nobody waits for, was no news.
LEMMA RefuseListed ==
  ASSUME TypeInv, ListedRight, NEW c \in calls,
         c.stage \notin {"done", "committed"} \/ (c.stage = "committed" /\ rows[c.id] = Absent),
         UNCHANGED <<rows, listing, shown, outdated>>, calls' = Resolved(c, "refused")
  PROVE  ListedRight'
<1>1. \A i \in Ids : News(i) => News(i)'
  BY DEF News, Resolved
<1>2. QED
  BY <1>1, NewsStay

LEMMA BackendListed == TypeInv /\ ListedRight /\ Backend => ListedRight'
<1> SUFFICES ASSUME TypeInv, ListedRight, NEW c \in calls,
                    \/ Read(c) \/ CommitLocked(c) \/ CommitCreate(c)
                    \/ CommitUpdate(c) \/ CommitDelete(c) \/ RefreshRow(c)
             PROVE  ListedRight'
  BY DEF Backend
<1>0. CallOK(c)
  BY DEF TypeInv, CallsOK
<1>1. ASSUME Refuse(c), c.stage \in {"sent", "read"} PROVE ListedRight'
  BY <1>1, RefuseListed DEF Refuse, listVars
<1>2. CASE Read(c)
  <2>1. CASE Refuse(c)
    BY <1>1, <1>2, <2>1 DEF Read
  <2>2. CASE ~Refuse(c)
    <3>1. /\ c.stage = "sent" /\ calls \ {c} \subseteq calls'
          /\ UNCHANGED <<rows, listing, shown, outdated>>
      BY <1>2, <2>2 DEF Read, listVars
    <3>2. \A i \in Ids : News(i) => News(i)'
      BY <3>1 DEF News
    <3>3. QED
      BY <3>1, <3>2, NewsStay
  <2>3. QED
    BY <2>1, <2>2
<1>3. CASE CommitLocked(c)
  BY <1>1, <1>3 DEF CommitLocked, CanCommit
\* A commit is news of its own row, or makes the list outdated.
<1>4. ASSUME NEW d \in calls', c.stage \in {"sent", "read"}, calls \ {c} \subseteq calls',
             d.waits, d.id \in Ids, \A i \in Ids \ {d.id} : rows'[i] = rows[i],
             d.stage = "done" \/ (d.stage = "committed" /\ rows'[d.id] # Absent),
             UNCHANGED <<listing, shown>>, outdated => outdated'
      PROVE  ListedRight'
  <2>1. News(d.id)'
    BY <1>4 DEF News
  <2>2. \A i \in Ids \ {d.id} : News(i) => News(i)'
    BY <1>4 DEF News
  <2>3. QED
    BY <1>4, <2>1, <2>2, NewsStay
<1>5. ASSUME ~c.waits, outdated' = (outdated \/ ~c.waits) PROVE ListedRight'
  BY <1>5 DEF ListedRight
<1>6. CASE CommitCreate(c)
  <2> DEFINE d == [c EXCEPT !.stage = "committed", !.id = NewId]
  <2>1. /\ c.stage = "sent" /\ calls' = (calls \ {c}) \cup {d} /\ NewId \in Ids
        /\ rows' = [rows EXCEPT ![NewId] = Row(c.content, FALSE, c.n)]
        /\ UNCHANGED <<listing, shown>> /\ outdated' = (outdated \/ ~c.waits)
    BY <1>6 DEF CommitCreate, listVars
  <2>2. d.waits = c.waits /\ d.id = NewId /\ d.stage = "committed"
    BY <1>0 DEF CallOK, CallSet
  <2>3. /\ \A i \in Ids \ {NewId} : rows'[i] = rows[i]
        /\ rows'[NewId] = Row(c.content, FALSE, c.n)
    BY <2>1 DEF TypeInv, RowsOK
  <2>4. QED
    <3>1. c.content \in Contents /\ c.n \in Numbers
      BY <1>0, SavedRoutesAssumption DEF TypeInv, CallsOK, CallOK, CallSet, Numbers
    <3>2. rows'[NewId] # Absent
      <4>1. Row(c.content, FALSE, c.n) \in Columns
        BY <3>1, ContentRow
      <4>2. QED
        <5>1. Absent \notin Columns
          BY SavedRoutesAssumption
        <5>2. QED
          BY ONLY <2>3, <4>1, <5>1
    <3>3. ASSUME c.waits PROVE ListedRight'
      <4> HIDE DEF d
      <4>1. QED
        BY <1>4, <2>1, <2>2, <2>3, <3>2, <3>3
    <3>4. QED
      BY <1>5, <2>1, <3>3
<1>7. CASE CommitUpdate(c)
  <2> DEFINE d == [c EXCEPT !.stage = "committed"]
  <2>1. CASE Refuse(c)
    BY <1>1, <1>7, <2>1 DEF CommitUpdate
  <2>2. CASE ~Refuse(c)
    <3>1. /\ c.stage = "read" /\ c.kind # "create" /\ calls' = (calls \ {c}) \cup {d}
          /\ UNCHANGED <<listing, shown>>
      BY <1>7, <2>2 DEF CommitUpdate, Committed, listVars
    <3>2. d.waits = c.waits /\ d.id = c.id /\ d.stage = "committed" /\ c.id \in Ids
      BY <1>0, <3>1 DEF CallOK, CallSet
    <3>3. CASE UNCHANGED <<rows, outdated>>
      <4>1. \A i \in Ids : News(i) => News(i)'
        BY <3>1, <3>3 DEF News
      <4>2. QED
        BY <3>1, <3>3, <4>1, NewsStay
    <3>4. CASE /\ rows[c.id] # Absent /\ outdated' = (outdated \/ ~c.waits)
               /\ rows' = [rows EXCEPT ![c.id] = Written(rows[c.id], c.seen, Wanted(c))]
      <4>1. /\ \A i \in Ids \ {c.id} : rows'[i] = rows[i]
            /\ rows'[c.id] = Written(rows[c.id], c.seen, Wanted(c))
        BY <3>2, <3>4 DEF TypeInv, RowsOK
      <4>2. rows'[c.id] \in Columns
        BY <1>0, <3>1, <3>2, <3>4, <4>1, WantedRow, WrittenRow DEF TypeInv, RowsOK
      <4>3. rows'[c.id] # Absent
        BY <4>2, SavedRoutesAssumption
      <4>4. ASSUME c.waits PROVE ListedRight'
        <5> HIDE DEF d
        <5>1. QED
          BY <1>4, <3>1, <3>2, <3>4, <4>1, <4>3, <4>4
      <4>5. QED
        BY <1>5, <3>4, <4>4
    <3>5. QED
      BY <1>7, <2>2, <3>3, <3>4 DEF CommitUpdate, Committed
  <2>3. QED
    BY <2>1, <2>2
<1>8. CASE CommitDelete(c)
  <2> DEFINE d == [c EXCEPT !.stage = "done"]
  <2>1. /\ c.stage = "read" /\ c.kind # "create" /\ calls' = Resolved(c, "done")
        /\ rows' = [rows EXCEPT ![c.id] = Absent]
        /\ UNCHANGED <<listing, shown>> /\ outdated' = (outdated \/ ~c.waits)
    BY <1>8 DEF CommitDelete, Committed, listVars
  <2>2. d.waits = c.waits /\ d.id = c.id /\ d.stage = "done" /\ c.id \in Ids
    BY <1>0, <2>1 DEF CallOK, CallSet
  <2>3. calls \ {c} \subseteq calls' /\ (c.waits => d \in calls')
    BY <2>1 DEF Resolved
  <2>4. \A i \in Ids \ {c.id} : rows'[i] = rows[i]
    BY <2>1 DEF TypeInv, RowsOK
  <2>5. QED
    BY <1>4, <1>5, <2>1, <2>2, <2>3, <2>4 DEF TypeInv, ListOK
<1>9. CASE RefreshRow(c)
  <2>1. c.stage = "committed" /\ UNCHANGED <<rows, listing, shown, outdated>>
    BY <1>9 DEF RefreshRow, listVars
  <2>2. CASE rows[c.id] = Absent
    BY <1>9, <2>1, <2>2, RefuseListed DEF RefreshRow
  <2>3. CASE rows[c.id] # Absent
    <3> DEFINE d == [c EXCEPT !.stage = "done"]
    <3>1. calls \ {c} \subseteq calls' /\ (c.waits => d \in calls')
      BY <1>9, <2>3 DEF RefreshRow, Resolved
    <3>2. d.waits = c.waits /\ d.id = c.id /\ d.stage = "done"
      BY <1>0 DEF CallOK, CallSet
    <3>3. \A i \in Ids : News(i) => News(i)'
      BY <2>1, <3>1, <3>2 DEF News
    <3>4. QED
      BY <2>1, <3>3, NewsStay
  <2>4. QED
    BY <2>2, <2>3
<1>10. QED
  BY <1>2, <1>3, <1>6, <1>7, <1>8, <1>9

LEMMA StepListed == TypeInv /\ ListedRight /\ [Next]_vars => ListedRight'
<1> SUFFICES ASSUME TypeInv, ListedRight, [Next]_vars PROVE ListedRight'
  OBVIOUS
<1>0. \A c \in calls : CallOK(c)
  BY DEF TypeInv, CallsOK
<1>1. ASSUME UNCHANGED <<rows, listing, shown, outdated>>, calls \subseteq calls'
      PROVE  ListedRight'
  <2>1. \A i \in Ids : News(i) => News(i)'
    BY <1>1 DEF News
  <2>2. QED
    BY <1>1, <2>1, NewsStay
<1>2. CASE User
  <2>1. UNCHANGED <<rows, listing, shown, outdated>>
    BY <1>2 DEF User, ClickFavorite, ClickDelete, Disarm, Save, Edit, ToggleElsewhere,
       DeleteElsewhere, Other, listVars
  <2>2. calls \subseteq calls'
    BY <1>2 DEF User, ClickFavorite, ClickDelete, Disarm, Save, Edit, ToggleElsewhere,
       DeleteElsewhere, Other, Send
  <2>3. QED
    BY <1>1, <2>1, <2>2
<1>3. ASSUME NEW c \in calls, Answered(c) PROVE ListedRight'
  BY <1>3 DEF Answered, RefreshList, Asked, ListedRight
<1>4. ASSUME NEW c \in calls, RefusalAnswered(c) PROVE ListedRight'
  <2>1. /\ c.stage = "refused" /\ calls' = calls \ {c}
        /\ UNCHANGED <<rows, listing, shown, outdated>>
    BY <1>4 DEF RefusalAnswered
  <2>2. \A i \in Ids : News(i) => News(i)'
    BY <2>1 DEF News
  <2>3. QED
    BY <2>1, <2>2, NewsStay
<1>5. ASSUME NEW c \in calls, CallLost(c) PROVE ListedRight'
  <2>1. /\ calls \ {c} \subseteq calls' /\ UNCHANGED <<rows, listing, shown>>
        /\ outdated' = (outdated \/ c.stage \in {"committed", "done"})
    BY <1>5 DEF CallLost
  <2>2. CASE c.stage \in {"committed", "done"}
    BY <2>1, <2>2 DEF ListedRight
  <2>3. CASE c.stage \notin {"committed", "done"}
    <3>1. \A i \in Ids : News(i) => News(i)'
      BY <2>1, <2>3 DEF News
    <3>2. QED
      BY <2>1, <2>3, <3>1, NewsStay DEF TypeInv, ListOK
  <2>4. QED
    BY <2>2, <2>3
<1>6. CASE ListingRead
  <2>1. listing' = [stage |-> "read", items |-> Summaries] /\ rows' = rows
    BY <1>6 DEF ListingRead
  <2>2. Summaries' = Summaries
    BY <2>1 DEF Summaries, Item, Present
  <2>3. QED
    BY <2>1, <2>2 DEF ListedRight, At
<1>7. CASE ListDrawn
  <2>1. /\ listing.stage = "read" /\ listing' = Idle /\ shown' = listing.items
        /\ UNCHANGED <<rows, outdated>>
        /\ calls' = {[c EXCEPT !.button = "none"] : c \in calls}
    BY <1>7 DEF ListDrawn
  <2>2. \A c \in calls : LET d == [c EXCEPT !.button = "none"]
                         IN  d.waits = c.waits /\ d.id = c.id /\ d.stage = c.stage
    BY <1>0 DEF CallOK, CallSet
  <2>3. \A i \in Ids : News(i) => News(i)'
    BY <2>1, <2>2 DEF News
  <2>4. \A i \in Ids : At(Summaries, i)' = At(Summaries, i)
    BY <2>1, RowListed
  <2>5. QED
    BY <2>1, <2>3, <2>4 DEF ListedRight, At, Idle
<1>8. CASE ListingFails
  BY <1>8 DEF ListingFails, Failed, ListedRight
<1>9. CASE UNCHANGED vars
  BY <1>1, <1>9 DEF vars, listVars
<1>10. QED
  BY <1>2, <1>3, <1>4, <1>5, <1>6, <1>7, <1>8, <1>9, BackendListed DEF Next, Tab

LEMMA InitListed == Init => ListedRight
  BY DEF Init, Asked, ListedRight

\* With nothing left to hear of, the list is the table, whatever the order of the
\* writes, answers and refreshes (saved-routes-list.js:92-94,115-118).
THEOREM ListIsTable == Spec => []ListSettles
<1>1. TypeInv /\ ListedRight => ListSettles
  <2> SUFFICES ASSUME TypeInv, ListedRight, listing = Idle, ~outdated,
                      \A c \in calls : ~c.waits
               PROVE  shown = Summaries
    BY DEF ListSettles
  <2>1. \A i \in Ids : At(shown, i) = At(Summaries, i)
    BY DEF ListedRight, News, Idle
  <2>2. \A e \in shown : e.id \in Ids
    BY DEF TypeInv, ListOK, Items
  <2>3. \A e \in Summaries : e.id \in Ids
    BY DEF Summaries, Item, Present
  <2>4. QED
    BY <2>1, <2>2, <2>3 DEF At
<1>2. QED
  BY InitTypes, StepTypes, InitListed, StepListed, <1>1, PTL DEF Spec

=============================================================================
