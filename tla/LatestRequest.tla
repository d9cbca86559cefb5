---------------------------- MODULE LatestRequest ---------------------------
(***************************************************************************)
(* createLatestRequest (frontend/src/api/latest-request.js) and the fetch  *)
(* it wraps (frontend/src/api/http.js).  A call of run() aborts the fetch  *)
(* of the one before it, waits for its own answer and compares its         *)
(* controller with the current one only when the wait is over: everything  *)
(* between the two is open to other calls, to cancel() and to the network. *)
(*                                                                         *)
(* fetchWithTimeout arms its timer and forwards the caller's abort only    *)
(* until the response's headers are there; the body is then read by        *)
(* res.json() with neither.                                                *)
(***************************************************************************)
EXTENDS Naturals

CONSTANT MaxCalls       \* Bound on the number of calls of run().

ASSUME MaxCallsAssumption == MaxCalls \in Nat

VARIABLES
  started,              \* Calls of run() made so far.
  controller,           \* The call whose AbortController is current; 0: null.
  phase,                \* Where each call's fetch is.
  aborted,              \* The calls whose own AbortController was aborted.
  result                \* What run() has returned to each caller.

requestVars == <<started, controller, phase, aborted, result>>

Calls == 1..MaxCalls

Phases == {"unused", "fetching", "reading", "settled"}

Results == {"none", "value", "error", "stale"}

RequestTypeOK ==
  /\ started \in 0..MaxCalls
  /\ controller \in 0..MaxCalls
  /\ phase \in [Calls -> Phases]
  /\ aborted \subseteq Calls
  /\ result \in [Calls -> Results]

RequestInit ==
  /\ started = 0
  /\ controller = 0
  /\ phase = [c \in Calls |-> "unused"]
  /\ aborted = {}
  /\ result = [c \in Calls |-> "none"]

-----------------------------------------------------------------------------
(* The caller's side. *)

\* Mutant: a new run() that forgets to abort the one before it.
AbortCurrentForgotten == aborted

\* controller?.abort(): the signal of the current call, if there is one.
AbortCurrent ==
  aborted \cup {c \in Calls : c = controller}

Run ==
  /\ started < MaxCalls
  /\ started' = started + 1
  /\ aborted' = AbortCurrent
  /\ controller' = started + 1
  /\ phase' = [phase EXCEPT ![started + 1] = "fetching"]
  /\ UNCHANGED result

Cancel ==
  /\ aborted' = AbortCurrent
  /\ controller' = 0
  /\ UNCHANGED <<started, phase, result>>

-----------------------------------------------------------------------------
(* The end of the wait in run(): the answer counts only if the controller  *)
(* is still this call's.                                                   *)

\* Mutant: an answer taken without looking at the controller.
SettleUnchecked(c, r) ==
  /\ phase' = [phase EXCEPT ![c] = "settled"]
  /\ result' = [result EXCEPT ![c] = r]
  /\ UNCHANGED <<started, controller, aborted>>

\* Mutant: the branch of the stale answer lost its return statement.
SettleUndefined(c, r) ==
  /\ phase' = [phase EXCEPT ![c] = "settled"]
  /\ result' = [result EXCEPT ![c] = IF controller = c THEN r ELSE "undefined"]
  /\ UNCHANGED <<started, controller, aborted>>

Settle(c, r) ==
  /\ phase' = [phase EXCEPT ![c] = "settled"]
  /\ result' = [result EXCEPT ![c] = IF controller = c THEN r ELSE "stale"]
  /\ UNCHANGED <<started, controller, aborted>>

\* fetch() rejects with an AbortError, which run() always calls stale.
FetchAborted(c) ==
  /\ phase[c] = "fetching" /\ c \in aborted
  /\ phase' = [phase EXCEPT ![c] = "settled"]
  /\ result' = [result EXCEPT ![c] = "stale"]
  /\ UNCHANGED <<started, controller, aborted>>

\* Mutant: a timer that only ever ends calls already aborted.
FetchTimesOutIfAborted(c) ==
  /\ phase[c] = "fetching" /\ c \in aborted
  /\ Settle(c, "error")

\* The 35 s timer of fetchWithTimeout: an ordinary error for run().
FetchTimesOut(c) == phase[c] = "fetching" /\ Settle(c, "error")

FetchFails(c) == phase[c] = "fetching" /\ Settle(c, "error")

\* The finally of fetchWithTimeout: from here on no timer and no abort.
HeadersArrive(c) ==
  /\ phase[c] = "fetching"
  /\ phase' = [phase EXCEPT ![c] = "reading"]
  /\ UNCHANGED <<started, controller, aborted, result>>

\* apiFetch: the value of a 2xx answer, an ApiError for any other status,
\* or the failure of the body itself.
BodyArrives(c) ==
  /\ phase[c] = "reading"
  /\ \E r \in {"value", "error"} : Settle(c, r)

RequestNext ==
  \/ Run
  \/ Cancel
  \/ \E c \in Calls :
       \/ FetchAborted(c)
       \/ FetchTimesOut(c)
       \/ FetchFails(c)
       \/ HeadersArrive(c)
       \/ BodyArrives(c)

\* The browser fires timers and rejects aborted fetches; nothing makes the
\* server or the network finish a body.
Fairness ==
  \A c \in Calls : WF_requestVars(FetchAborted(c)) /\ WF_requestVars(FetchTimesOut(c))

RequestSpec == RequestInit /\ [][RequestNext]_requestVars

FairSpec == RequestSpec /\ Fairness

-----------------------------------------------------------------------------
(* Properties. *)

\* A superseded or cancelled computation is aborted rather than left running
\* (latest-request.js:8-16): of the fetches the server has not answered, at
\* most one is not aborted, whatever the order of calls and answers.
OneLiveFetch ==
  \A c, d \in Calls :
    /\ phase[c] = "fetching" /\ c \notin aborted
    /\ phase[d] = "fetching" /\ d \notin aborted
    => c = d

\* run() keeps the promise of LastCallWins: a call reports its own value or
\* error only if no call and no cancel() came after it.
Abstract ==
  INSTANCE LastCallWins WITH wanted <- controller # 0

ImplementsLastCallWins == Abstract!Spec

\* Waiting for the server to start answering ends: the timer of
\* fetchWithTimeout or an abort bounds it (http.js:19-23).
FetchEnds ==
  \A c \in Calls : phase[c] = "fetching" ~> phase[c] # "fetching"

=============================================================================
