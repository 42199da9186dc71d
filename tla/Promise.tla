------------------------------- MODULE Promise -------------------------------
(* What a connection promises to those who make requests: each request is   *)
(* asked once, under an id of its own, and answered at most once; while the *)
(* connection is up by an answer, good or bad, and after it is lost by the  *)
(* news of the loss and in no other way.  Messages, registry, producers and *)
(* the server do not show.                                                  *)

CONSTANTS Requests    \* the ids that requests may have

VARIABLES
  up,        \* is there a connection
  open,      \* the requests that wait for an answer
  result     \* of each request: "none" before it is made, "pending", or how
             \* it ended: "callback", "errback" or "lost"

vars == <<up, open, result>>

Init ==
  /\ up = TRUE
  /\ open = {}
  /\ result = [i \in Requests |-> "none"]

Ask(i) ==
  /\ result[i] = "none"
  /\ open' = open \cup {i}
  /\ result' = [result EXCEPT ![i] = "pending"]
  /\ UNCHANGED up

(* A request that nothing answers is over as soon as it is made. *)
Post(i) ==
  /\ result[i] = "none"
  /\ result' = [result EXCEPT ![i] = "callback"]
  /\ UNCHANGED <<up, open>>

Settle(i, how) ==
  /\ i \in open
  /\ open' = open \ {i}
  /\ result' = [result EXCEPT ![i] = how]
  /\ UNCHANGED up

Answer(i) == up /\ \E how \in {"callback", "errback"} : Settle(i, how)
Abort(i) == ~up /\ Settle(i, "lost")

Lose ==
  /\ up /\ up' = FALSE
  /\ UNCHANGED <<open, result>>

Next ==
  \/ \E i \in Requests : Ask(i) \/ Post(i) \/ Answer(i) \/ Abort(i)
  \/ Lose

Spec == Init /\ [][Next]_vars
=============================================================================
