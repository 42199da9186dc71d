----------------------------- MODULE ProxyTunnel -----------------------------
(* ProxyTunnelClient (proxy_tunnel.py): CONNECT to an https proxy, read its *)
(* reply, then hand the transport to the protocol that is to use it.        *)
(*                                                                          *)
(* The reply is a sequence of lines, a line is its kind: what lineReceived  *)
(* can tell apart.  Where the transport cuts the reply is a number of whole *)
(* lines and what has come of the next one.  dataReceived is one action per *)
(* pass of its loop.                                                        *)

EXTENDS Integers, Sequences

CONSTANT Replies    \* the replies that a proxy may send

(* "ok" has 200 as its second word: an accepting status line, but also a    *)
(* header line like "Content-Length: 200"; "refused" is a status line with  *)
(* another status; "header" any other line with a space; "bare" has no      *)
(* space; "long" is longer than MAX_LINE_LEN.                               *)
LineKind == {"ok", "refused", "header", "bare", "blank", "long"}

VARIABLES
  transport,        \* "connecting", "refused", "open", "closing" or "lost"
  reply,            \* the reply of this proxy
  arrived,          \* the lines of it that have arrived
  tail,             \* of the line behind them: "none", "short" or "long"
  parsed,           \* the lines taken out of the buffer
  receiving,        \* "yes" while the loop of dataReceived runs, or "no"
  status,           \* "none", "ok" or "other"
  negotiation_done, \* "yes" or "no"
  failures          \* history: calls of the inner clientConnectionFailed

vars == <<transport, reply, arrived, tail, parsed, receiving, status,
          negotiation_done, failures>>

Init ==
  /\ transport = "connecting"
  /\ reply \in Replies
  /\ arrived = 0 /\ tail = "none" /\ parsed = 0
  /\ receiving = "no"
  /\ status = "none"
  /\ negotiation_done = "no"
  /\ failures = 0

-----------------------------------------------------------------------------
(* ProxyTunnelFactory.clientConnectionFailed: the proxy is not there. *)
ConnectionFailed ==
  /\ transport = "connecting"
  /\ transport' = "refused"
  /\ failures' = failures + 1
  /\ UNCHANGED <<reply, arrived, tail, parsed, receiving, status,
                 negotiation_done>>

(* The request is written. *)
connectionMade ==
  /\ transport = "connecting"
  /\ transport' = "open"
  /\ negotiation_done' = "no"
  /\ UNCHANGED <<reply, arrived, tail, parsed, receiving, status, failures>>

error ==
  /\ failures' = failures + 1
  /\ transport' = IF transport = "lost" THEN "lost" ELSE "closing"

(* What can have come of the line behind the first k. *)
Tails(k) ==
  {"none"} \cup (IF k < Len(reply) THEN {"short"} ELSE {})
           \cup (IF k < Len(reply) /\ reply[k + 1] = "long" THEN {"long"} ELSE {})

Grows(old, new) ==
  <<old, new>> \in {<<"none", "short">>, <<"none", "long">>, <<"short", "long">>}

(* The transport calls dataReceived with the rest of the lines up to k and  *)
(* a part of the next.  A transport that is closing reads no more.          *)
dataReceived(k, t) ==
  /\ transport = "open" /\ negotiation_done = "no" /\ receiving = "no"
  /\ k \in arrived .. Len(reply) /\ t \in Tails(k)
  /\ k > arrived \/ Grows(tail, t)
  /\ arrived' = k /\ tail' = t
  /\ receiving' = "yes"
  /\ UNCHANGED <<transport, reply, parsed, status, negotiation_done, failures>>

-----------------------------------------------------------------------------
(* The passes of the loop. *)

(* lineReceived takes every line that is not empty for a status line. *)
lineReceived(line) == status' = IF line = "ok" THEN "ok" ELSE "other"

NextLine ==
  /\ receiving = "yes" /\ parsed < arrived
  /\ parsed' = parsed + 1

TakesLine ==
  /\ NextLine
  /\ reply[parsed + 1] \in {"ok", "refused", "header"}
  /\ lineReceived(reply[parsed + 1])
  /\ UNCHANGED <<transport, reply, arrived, tail, receiving,
                 negotiation_done, failures>>

(* Mutant: does not look at the status. *)
Accepted_Always == status # "none"
Accepted == status = "ok"

(* The empty line: negotiation_done is set before start runs, so the loop   *)
(* is over; ...                                                             *)
Starts ==
  /\ NextLine
  /\ reply[parsed + 1] = "blank" /\ Accepted
  /\ negotiation_done' = "yes"
  /\ receiving' = "no"
  /\ UNCHANGED <<reply, arrived, tail, status, failures>>

Opens == Starts /\ UNCHANGED transport

(* ... start raises: the reactor closes the connection, and connectionLost, *)
(* which takes the tunnel for open, does not report it; ...                 *)
StartRaises == Starts /\ transport' = "lost"

(* ... or error, and the loop goes on. *)
Refuses ==
  /\ NextLine
  /\ reply[parsed + 1] = "blank" /\ ~Accepted
  /\ error
  /\ UNCHANGED <<reply, arrived, tail, receiving, status, negotiation_done>>

LineTooLong ==
  /\ NextLine
  /\ reply[parsed + 1] = "long"
  /\ error
  /\ receiving' = "no"
  /\ UNCHANGED <<reply, arrived, tail, status, negotiation_done>>

(* A line without a space raises ValueError: the reactor closes the         *)
(* connection at once and connectionLost reports it.                        *)
LineRaises ==
  /\ NextLine
  /\ reply[parsed + 1] = "bare"
  /\ transport' = "lost"
  /\ failures' = failures + 1
  /\ receiving' = "no"
  /\ UNCHANGED <<reply, arrived, tail, status, negotiation_done>>

(* No whole line is left; the part of one may be too long already. *)
NoMoreLines ==
  /\ receiving = "yes" /\ parsed = arrived
  /\ receiving' = "no"
  /\ IF tail = "long" THEN error ELSE UNCHANGED <<transport, failures>>
  /\ UNCHANGED <<reply, arrived, tail, parsed, status, negotiation_done>>

Pass ==
  \/ TakesLine
  \/ Opens \/ StartRaises \/ Refuses
  \/ LineTooLong \/ LineRaises \/ NoMoreLines

-----------------------------------------------------------------------------
(* Mutant: taken for a connection that was closed on purpose. *)
connectionLost_OnlyWhenOpen ==
  /\ transport \in {"open", "closing"} /\ receiving = "no"
  /\ transport' = "lost"
  /\ failures' = failures
  /\ UNCHANGED <<reply, arrived, tail, parsed, receiving, status,
                 negotiation_done>>

(* connectionLost: an inner protocol is told, otherwise it is an error, a   *)
(* connection that an earlier error has closed included.                    *)
connectionLost ==
  /\ transport \in {"open", "closing"} /\ receiving = "no"
  /\ transport' = "lost"
  /\ failures' = IF negotiation_done = "yes" THEN failures ELSE failures + 1
  /\ UNCHANGED <<reply, arrived, tail, parsed, receiving, status,
                 negotiation_done>>

Next ==
  \/ ConnectionFailed
  \/ connectionMade
  \/ \E k \in 0 .. Len(reply) : \E t \in {"none", "short", "long"} :
       dataReceived(k, t)
  \/ Pass
  \/ connectionLost

Spec == Init /\ [][Next]_vars
=============================================================================
