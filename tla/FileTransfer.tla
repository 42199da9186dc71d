----------------------------- MODULE FileTransfer -----------------------------
(* What an upload promises to the server: for each upload a stream of       *)
(* messages that is the file, payload by payload, from the offset the       *)
(* server asked for, then EOF; it may be broken off by a CANCEL_REQUEST,    *)
(* and nothing follows one.  Producers, pauses, delayed calls and           *)
(* throttling do not show.                                                  *)

EXTENDS Integers, Sequences

CONSTANTS
  Transfers,       \* the transfers there are
  FileSize         \* payloads of a file

VARIABLES
  stream,          \* the messages of each transfer, in order
  from,            \* the offset the server asked for
  open             \* the transfers it has asked for

vars == <<stream, from, open>>

Payload(p) == [type |-> "BYTES", at |-> p]
End == [type |-> "EOF", at |-> FileSize]
BrokenOff == [type |-> "CANCEL_REQUEST", at |-> 0]

Init ==
  /\ stream = [u \in Transfers |-> <<>>]
  /\ from = [u \in Transfers |-> 0]
  /\ open = {}

Is(u, m) == stream[u] # <<>> /\ stream[u][Len(stream[u])] = m

(* The message that comes next, when there are so many already. *)
Part(off, n) == IF off + n < FileSize THEN Payload(off + n) ELSE End

Sends(u, off) == stream' = [stream EXCEPT ![u] = Append(@, Part(off, Len(@)))]

(* The server asks for the file; the first part may be sent at once. *)
Ask(u, off) ==
  /\ u \notin open
  /\ open' = open \cup {u}
  /\ from' = [from EXCEPT ![u] = off]
  /\ \/ UNCHANGED stream
     \/ ~Is(u, BrokenOff) /\ Sends(u, off)

SendPart(u) ==
  /\ u \in open
  /\ ~Is(u, End) /\ ~Is(u, BrokenOff)
  /\ Sends(u, from[u])
  /\ UNCHANGED <<from, open>>

(* One is cancelled, or all that are left when the connection is lost. *)
BreakOff(us) ==
  /\ \A u \in us : ~Is(u, BrokenOff)
  /\ stream' = [u \in Transfers |-> IF u \in us THEN Append(stream[u], BrokenOff)
                                    ELSE stream[u]]
  /\ UNCHANGED <<from, open>>

Next ==
  \/ \E u \in Transfers : SendPart(u) \/ \E off \in 0 .. FileSize : Ask(u, off)
  \/ \E us \in SUBSET Transfers : BreakOff(us)

Spec == Init /\ [][Next]_vars
=============================================================================
