------------------------------- MODULE Session -------------------------------
(* A connection through an https proxy and the StorageClient that is made   *)
(* at its far end: the tunnel (ProxyTunnel) builds the client when the      *)
(* proxy has accepted, and from then on passes data and the loss of the     *)
(* connection on to it (Notifications); an exception of the client leaves   *)
(* the tunnel's dataReceived and closes the connection.                     *)

EXTENDS Integers, Sequences

CONSTANTS Replies, Roots, MaxWaiters, MaxCallbacks

VARIABLES transport, reply, arrived, tail, parsed, receiving, status,
          negotiation_done, failures,
          client, dropped, dropper, callbacks,
          root_id, root_id_defers, firing, asked, answer

Tunnel == INSTANCE ProxyTunnel
Client == INSTANCE Notifications

ASSUME RepliesAssumption == Replies \subseteq Seq(Tunnel!LineKind)

ASSUME BoundsAssumption ==
  /\ MaxWaiters \in Nat /\ MaxCallbacks \in Nat
  /\ Roots \cap {"none", "waiting", "cancelled"} = {}

tunnelVars == <<transport, reply, arrived, tail, parsed, receiving, status,
                negotiation_done, failures>>
clientVars == <<client, dropped, dropper, callbacks, root_id, root_id_defers,
                firing, asked, answer>>
vars == <<tunnelVars, clientVars>>

Init == Tunnel!Init /\ Client!Init

-----------------------------------------------------------------------------
(* ProxyTunnelClient.start: buildProtocol and makeConnection. *)
start == Tunnel!Opens /\ Client!connectionMade

(* startTLS or buildProtocol raises, or buildProtocol returns None:         *)
(* connectionLost finds no client_protocol, and nobody is told.             *)
startRaises == Tunnel!StartRaises /\ UNCHANGED clientVars

(* makeConnection raises: connectionLost finds the client and tells it. *)
makeConnectionRaises == Tunnel!StartRaises /\ Client!connectionMadeRaises

(* The tunnel on its own, before there is a client. *)
Negotiates ==
  /\ \/ Tunnel!ConnectionFailed
     \/ Tunnel!connectionMade
     \/ \E k \in 0 .. Len(reply) : \E t \in {"none", "short", "long"} :
          Tunnel!dataReceived(k, t)
     \/ Tunnel!TakesLine \/ Tunnel!Refuses \/ Tunnel!LineTooLong
     \/ Tunnel!LineRaises \/ Tunnel!NoMoreLines
  /\ UNCHANGED clientVars

LostInNegotiation ==
  /\ negotiation_done = "no"
  /\ Tunnel!connectionLost
  /\ UNCHANGED clientVars

(* ProxyTunnelClient.connectionLost once there is a client. *)
LostWhenOpen ==
  /\ negotiation_done = "yes"
  /\ Tunnel!connectionLost
  /\ Client!connectionLost("network")
  /\ UNCHANGED dropper

(* Mutant: an exception of the client is taken for an error of the tunnel.  *)
ReceivesAndRaises_Error ==
  /\ negotiation_done = "yes"
  /\ \E t \in Client!PushType, v \in Client!Values :
       Client!Drops(Client!Push(t, v))
  /\ transport = "open" /\ Tunnel!error
  /\ UNCHANGED <<reply, arrived, tail, parsed, receiving, status,
                 negotiation_done>>

(* ProxyTunnelClient.dataReceived with a message for the client. *)
Receives ==
  /\ negotiation_done = "yes" /\ transport = "open" /\ receiving = "no"
  /\ \/ \E t \in Client!PushType, v \in Client!Values :
          Client!Notify(Client!Push(t, v))
     \/ \E r \in Roots : Client!handle_ROOT(r)
  /\ UNCHANGED tunnelVars

ReceivesAndRaises ==
  /\ negotiation_done = "yes"
  /\ \E t \in Client!PushType, v \in Client!Values :
       Client!Drops(Client!Push(t, v))
  /\ Tunnel!connectionLost

(* What the client, or its user, does without a message. *)
UserCalls ==
  /\ \/ \E t \in Client!CallbackType : Client!SetCallback(t)
     \/ \E t \in Client!CallbackType : Client!UnsetCallback(t)
     \/ Client!get_root
     \/ \E w \in Client!Waiters : Client!CancelWait(w)
     \/ Client!CallWaiter
  /\ UNCHANGED tunnelVars

Next ==
  \/ start
  \/ startRaises
  \/ makeConnectionRaises
  \/ Negotiates
  \/ LostInNegotiation
  \/ LostWhenOpen
  \/ Receives
  \/ ReceivesAndRaises
  \/ UserCalls

Spec == Init /\ [][Next]_vars

(* TCP connects or fails and the loops of dataReceived and handle_ROOT run  *)
(* on; a proxy sends the whole of its reply, and may then keep silent for   *)
(* ever; what is closing is closed in the end; the server sends ROOT.       *)
Fairness ==
  /\ WF_vars(Negotiates /\ (transport = "connecting" \/ receiving = "yes"))
  /\ WF_vars(Negotiates /\ tail' = "none" /\ arrived' > arrived)
  /\ WF_vars(start \/ startRaises \/ makeConnectionRaises)
  /\ WF_vars(LostInNegotiation /\ transport = "closing")
  /\ WF_vars(LostWhenOpen /\ transport = "closing")
  /\ WF_vars(root_id = "none" /\ Receives /\ root_id' # "none")
  /\ WF_vars(Client!CallWaiter /\ UNCHANGED tunnelVars)

FairSpec == Spec /\ Fairness

-----------------------------------------------------------------------------
(* Properties *)

TypeOK ==
  /\ transport \in {"connecting", "refused", "open", "closing", "lost"}
  /\ reply \in Replies
  /\ arrived \in 0 .. Len(reply) /\ parsed \in 0 .. arrived
  /\ tail \in {"none", "short", "long"}
  /\ receiving \in {"yes", "no"} /\ negotiation_done \in {"yes", "no"}
  /\ status \in {"none", "ok", "other"}
  /\ failures \in Nat
  /\ client \in {"none", "made", "lost"}
  /\ dropped \in {"no", "network", "invalid", "conversion", "callback"}
  /\ callbacks \subseteq Client!CallbackType
  /\ root_id \in Roots \cup {"none"}
  /\ root_id_defers \in Seq(Client!Waiters) /\ firing \in Seq(Client!Waiters)
  /\ asked \in 0 .. MaxWaiters
  /\ answer \in [Client!Waiters -> Roots \cup {"none", "waiting", "cancelled"}]

(* What nobody hears of: start has failed before it had a client_protocol.  *)
StartFailed == negotiation_done = "yes" /\ client = "none"

(* Whoever asked for the connection hears of its end, unless start fails:   *)
(* either the inner factory has been told of a failure, or the inner        *)
(* protocol has been told of the loss (ProxyTunnelClient.connectionLost,    *)
(* error, LineRaises; an exception of makeConnection or of the client's own *)
(* handlers).                                                               *)
SomebodyIsTold ==
  transport \in {"refused", "lost"} /\ ~StartFailed
    => failures > 0 \/ client = "lost"

(* Since lineReceived takes every line for a status line, the next two are  *)
(* about replies in which no line behind the first has 200 as its second    *)
(* word.                                                                    *)
OneStatusLine(r) == \A i \in 2 .. Len(r) : r[i] # "ok"

(* An attempt has one outcome: no failure is reported for a connection that *)
(* a client has been built on, although the loop of dataReceived goes on    *)
(* after an error and connectionLost comes after it once more.              *)
OneOutcome == OneStatusLine(reply) => ~(failures > 0 /\ client # "none")

(* The tunnel opens only if the proxy said 200 on the first line, wherever  *)
(* the reply is cut and however many empty lines, headers and lines of a    *)
(* body follow it.                                                          *)
OpenMeansAccepted ==
  OneStatusLine(reply) /\ negotiation_done = "yes" => reply[1] = "ok"

(* A message that is as protocol.proto has it closes the connection only if *)
(* the user's callback raises: the validators accept it, and what they      *)
(* accept the handlers convert.                                             *)
ConformingIsAccepted ==
  dropped \in {"invalid", "conversion"} => ~Client!Conforming(dropper)

(* The proxy has sent what it sends, and that decides nothing.  The tunnel  *)
(* has no timeout.                                                          *)
Undecided ==
  /\ transport = "open" /\ negotiation_done = "no"
  /\ receiving = "no" /\ arrived = Len(reply)

(* An attempt to connect ends with a client or with a report of failure,    *)
(* unless start fails or the proxy falls silent without an answer.          *)
AttemptEnds ==
  <>(client # "none" \/ failures > 0 \/ StartFailed) \/ <>[]Undecided

(* A deferred of get_root fires, on a connection that lives. *)
RootIsAnswered ==
  \A w \in Client!Waiters :
    answer[w] = "waiting" ~> answer[w] # "waiting" \/ client = "lost"

(* "Tunnel connections through a https proxy using the connect method": a  *)
(* proxy that answers 200 and some header lines, as HTTP has them, gets its *)
(* tunnel opened.                                                           *)
Accepts(r) ==
  /\ Len(r) > 1
  /\ r[1] = "ok" /\ r[Len(r)] = "blank"
  /\ \A i \in 2 .. Len(r) - 1 : r[i] = "header"
ProxyAcceptsMeansOpen ==
  Accepts(reply) /\ parsed = Len(reply) => negotiation_done = "yes"
=============================================================================
