---------------------------- MODULE LastCallWins ----------------------------
(***************************************************************************)
(* What createLatestRequest (frontend/src/api/latest-request.js) promises  *)
(* its callers, without controllers, signals or fetches: calls are made    *)
(* one after the other, the newest one is wanted until it is cancelled or  *)
(* superseded, only the wanted one may report a value or an error, and     *)
(* every other one reports that it is stale.                               *)
(***************************************************************************)
EXTENDS Naturals

CONSTANT MaxCalls       \* Bound on the number of calls of run().

VARIABLES
  started,              \* Calls made so far; calls are numbered 1, 2, ...
  wanted,               \* Is the newest call still the one to show?
  result                \* What each call has reported to its caller.

vars == <<started, wanted, result>>

Calls == 1..MaxCalls

Init ==
  /\ started = 0
  /\ wanted = FALSE
  /\ result = [c \in Calls |-> "none"]

Call ==
  /\ started < MaxCalls
  /\ started' = started + 1
  /\ wanted' = TRUE
  /\ UNCHANGED result

Cancel ==
  /\ wanted' = FALSE
  /\ UNCHANGED <<started, result>>

Deliver(c) ==
  /\ wanted /\ c = started
  /\ result[c] = "none"
  /\ \E r \in {"value", "error"} : result' = [result EXCEPT ![c] = r]
  /\ UNCHANGED <<started, wanted>>

Discard(c) ==
  /\ c < started \/ (c = started /\ ~wanted)
  /\ result[c] = "none"
  /\ result' = [result EXCEPT ![c] = "stale"]
  /\ UNCHANGED <<started, wanted>>

Next ==
  \/ Call
  \/ Cancel
  \/ \E c \in Calls : Deliver(c) \/ Discard(c)

Spec == Init /\ [][Next]_vars

=============================================================================
