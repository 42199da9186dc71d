---------------------------- MODULE SessionProofs ----------------------------
(* Proofs about Session, for every set of replies, roots and bounds: the    *)
(* negotiation, the messages of the server, and the callers of get_root.    *)

EXTENDS Session, TLAPS

TunnelTypes ==
  /\ transport \in {"connecting", "refused", "open", "closing", "lost"}
  /\ reply \in Replies
  /\ arrived \in 0 .. Len(reply) /\ parsed \in 0 .. arrived
  /\ tail \in {"none", "short", "long"}
  /\ receiving \in {"yes", "no"} /\ negotiation_done \in {"yes", "no"}
  /\ status \in {"none", "ok", "other"}
  /\ failures \in Nat

ClientTypes ==
  /\ client \in {"none", "made", "lost"}
  /\ dropped \in {"no", "network", "invalid", "conversion", "callback"}
  /\ callbacks \subseteq Client!CallbackType
  /\ root_id \in Roots \cup {"none"}
  /\ root_id_defers \in Seq(Client!Waiters) /\ firing \in Seq(Client!Waiters)
  /\ asked \in 0 .. MaxWaiters
  /\ answer \in [Client!Waiters -> Roots \cup {"none", "waiting", "cancelled"}]

(* There is a client from the moment the negotiation is done, or start has  *)
(* failed and the transport is lost; the loop of dataReceived is over then; *)
(* and a transport that connects is fresh.                                  *)
ClientIsMade ==
  /\ negotiation_done = "yes" => receiving = "no"
  /\ StartFailed => transport = "lost"
  /\ negotiation_done = "no" => client = "none"
  /\ transport = "connecting" =>
       negotiation_done = "no" /\ failures = 0 /\ receiving = "no"

(* A failure ends the attempt: what the loop still reads behind it cannot   *)
(* make the status 200 any more.                                            *)
FailureStays ==
  /\ failures > 0 => transport # "open"
  /\ OneStatusLine(reply) /\ failures > 0 /\ receiving = "yes"
       => status # "ok" /\ parsed >= 1

(* The status is 200 only if the first line says so. *)
StatusFromFirst == OneStatusLine(reply) /\ status = "ok" => reply[1] = "ok"

Negotiation ==
  /\ TunnelTypes /\ client \in {"none", "made", "lost"}
  /\ ClientIsMade /\ FailureStays /\ StatusFromFirst
  /\ SomebodyIsTold /\ OneOutcome /\ OpenMeansAccepted

-----------------------------------------------------------------------------
(* The steps of the tunnel. *)

LEMMA InitNegotiation == Init => Negotiation
  BY RepliesAssumption
     DEF Init, Tunnel!Init, Client!Init, Negotiation, TunnelTypes, ClientIsMade,
         FailureStays, StatusFromFirst, SomebodyIsTold, StartFailed, OneOutcome,
         OpenMeansAccepted

LEMMA LinesOfReply ==
  ASSUME TunnelTypes
  PROVE  /\ Len(reply) \in Nat /\ arrived \in Nat /\ parsed \in Nat
         /\ arrived <= Len(reply) /\ parsed <= arrived
BY RepliesAssumption DEF TunnelTypes

LEMMA StartKeeps ==
  ASSUME Negotiation, start \/ startRaises \/ makeConnectionRaises
  PROVE  Negotiation'
<1>. USE DEF Negotiation
<1>1. /\ receiving = "yes" /\ parsed < arrived /\ parsed' = parsed + 1
      /\ reply[parsed + 1] = "blank" /\ status = "ok"
      /\ negotiation_done' = "yes" /\ receiving' = "no"
      /\ UNCHANGED <<reply, arrived, tail, status, failures>>
  BY DEF start, startRaises, makeConnectionRaises, Tunnel!Opens,
         Tunnel!StartRaises, Tunnel!Starts, Tunnel!NextLine, Tunnel!Accepted
<1>0. client = "none" /\ negotiation_done = "no" /\ transport # "connecting"
  BY <1>1 DEF ClientIsMade, TunnelTypes
<1>a. \/ client' = "made" /\ transport' = transport
      \/ client' = "none" /\ transport' = "lost"
      \/ client' = "lost" /\ transport' = "lost"
  BY <1>0 DEF start, startRaises, makeConnectionRaises, clientVars, Tunnel!Opens,
     Tunnel!StartRaises, Client!connectionMade, Client!connectionMadeRaises
<1>2. TunnelTypes'
  BY <1>1, <1>a, LinesOfReply DEF TunnelTypes
<1>3. FailureStays' /\ StatusFromFirst' /\ OneOutcome' /\ OpenMeansAccepted'
  BY <1>1, <1>a DEF ClientIsMade, FailureStays, StatusFromFirst, OneOutcome,
     OpenMeansAccepted, OneStatusLine, TunnelTypes
<1>4. ClientIsMade' /\ SomebodyIsTold'
  BY <1>0, <1>1, <1>a DEF ClientIsMade, SomebodyIsTold, StartFailed
<1>. QED  BY <1>1, <1>a, <1>2, <1>3, <1>4

LEMMA NegotiatesKeeps == Negotiation /\ Negotiates => Negotiation'
<1>. SUFFICES ASSUME Negotiation, Negotiates
              PROVE  Negotiation'
  OBVIOUS
<1>. USE DEF Negotiation
<1>0. client' = client
  BY DEF Negotiates, clientVars
<1>1. CASE Tunnel!ConnectionFailed
  BY <1>0, <1>1 DEF Tunnel!ConnectionFailed, TunnelTypes, ClientIsMade, FailureStays,
     StatusFromFirst, SomebodyIsTold, StartFailed, OneOutcome,
     OpenMeansAccepted, OneStatusLine
<1>2. CASE Tunnel!connectionMade
  BY <1>0, <1>2 DEF Tunnel!connectionMade, TunnelTypes, ClientIsMade, FailureStays,
     StatusFromFirst, SomebodyIsTold, StartFailed, OneOutcome,
     OpenMeansAccepted, OneStatusLine
<1>3. ASSUME NEW k \in 0 .. Len(reply), NEW t \in {"none", "short", "long"},
             Tunnel!dataReceived(k, t)
      PROVE  Negotiation'
  BY <1>0, <1>3, LinesOfReply
     DEF Tunnel!dataReceived, TunnelTypes, ClientIsMade, FailureStays,
     StatusFromFirst, SomebodyIsTold, StartFailed, OneOutcome,
     OpenMeansAccepted, OneStatusLine
<1>4. CASE Tunnel!TakesLine
  <2>1. /\ receiving = "yes" /\ parsed < arrived /\ parsed' = parsed + 1
        /\ status' = IF reply[parsed + 1] = "ok" THEN "ok" ELSE "other"
        /\ UNCHANGED <<transport, reply, arrived, tail, receiving,
                       negotiation_done, failures>>
    BY <1>4 DEF Tunnel!TakesLine, Tunnel!NextLine, Tunnel!lineReceived
  <2>2. TunnelTypes'
    BY <2>1, LinesOfReply DEF TunnelTypes
  <2>3. OneStatusLine(reply) /\ reply[parsed + 1] = "ok" => parsed = 0
    BY <2>1, LinesOfReply DEF OneStatusLine
  <2>4. FailureStays' /\ StatusFromFirst'
    BY <2>1, <2>3, LinesOfReply DEF FailureStays, StatusFromFirst, OneStatusLine
  <2>5. ClientIsMade' /\ SomebodyIsTold' /\ OneOutcome' /\ OpenMeansAccepted'
    BY <1>0, <2>1 DEF ClientIsMade, SomebodyIsTold, StartFailed, OneOutcome,
       OpenMeansAccepted, OneStatusLine
  <2>. QED  BY <1>0, <2>2, <2>4, <2>5
<1>5. CASE Tunnel!Refuses
  BY <1>0, <1>5, LinesOfReply
     DEF Tunnel!Refuses, Tunnel!NextLine, Tunnel!Accepted, Tunnel!error,
     TunnelTypes, ClientIsMade, FailureStays,
     StatusFromFirst, SomebodyIsTold, StartFailed, OneOutcome,
     OpenMeansAccepted, OneStatusLine
<1>6. CASE Tunnel!LineTooLong
  BY <1>0, <1>6, LinesOfReply
     DEF Tunnel!LineTooLong, Tunnel!NextLine, Tunnel!error,
     TunnelTypes, ClientIsMade, FailureStays,
     StatusFromFirst, SomebodyIsTold, StartFailed, OneOutcome,
     OpenMeansAccepted, OneStatusLine
<1>7. CASE Tunnel!LineRaises
  BY <1>0, <1>7, LinesOfReply
     DEF Tunnel!LineRaises, Tunnel!NextLine, TunnelTypes, ClientIsMade, FailureStays,
     StatusFromFirst, SomebodyIsTold, StartFailed, OneOutcome,
     OpenMeansAccepted, OneStatusLine
<1>8. CASE Tunnel!NoMoreLines
  BY <1>0, <1>8, LinesOfReply
     DEF Tunnel!NoMoreLines, Tunnel!error, TunnelTypes, ClientIsMade, FailureStays,
     StatusFromFirst, SomebodyIsTold, StartFailed, OneOutcome,
     OpenMeansAccepted, OneStatusLine
<1>. QED
  BY <1>1, <1>2, <1>3, <1>4, <1>5, <1>6, <1>7, <1>8 DEF Negotiates

LEMMA LossKeeps ==
  Negotiation /\ (LostInNegotiation \/ LostWhenOpen) => Negotiation'
<1>. USE DEF Negotiation
<1>1. ASSUME Negotiation, LostInNegotiation
      PROVE  Negotiation'
  <2>1. /\ negotiation_done = "no" /\ receiving = "no" /\ client' = client
        /\ transport' = "lost" /\ failures' = failures + 1
        /\ UNCHANGED <<reply, arrived, tail, parsed, receiving, status,
                       negotiation_done>>
    BY <1>1 DEF LostInNegotiation, Tunnel!connectionLost, clientVars
  <2>. QED
    BY <1>1, <2>1 DEF TunnelTypes, ClientIsMade, FailureStays, StatusFromFirst,
       SomebodyIsTold, StartFailed, OneOutcome, OpenMeansAccepted, OneStatusLine
<1>2. ASSUME Negotiation, LostWhenOpen
      PROVE  Negotiation'
  <2>1. /\ negotiation_done = "yes" /\ client = "made" /\ client' = "lost"
        /\ transport' = "lost" /\ failures' = failures
        /\ UNCHANGED <<reply, arrived, tail, parsed, receiving, status,
                       negotiation_done>>
    BY <1>2 DEF LostWhenOpen, Tunnel!connectionLost, Client!connectionLost
  <2>. QED
    BY <1>2, <2>1 DEF TunnelTypes, ClientIsMade, FailureStays, StatusFromFirst,
       SomebodyIsTold, StartFailed, OneOutcome, OpenMeansAccepted, OneStatusLine
<1>. QED  BY <1>1, <1>2

(* Each way of dropping the connection loses the client over a message. *)
LEMMA DropsLoses ==
  ASSUME NEW m, Client!Drops(m)
  PROVE  /\ client = "made" /\ client' = "lost" /\ dropper' = m
         /\ dropped' \in {"invalid", "conversion", "callback"}
         /\ dropped' = "invalid" => ~Client!validate_message(m)
         /\ dropped' = "conversion" => ~Client!Converts(m)
         /\ UNCHANGED <<callbacks, root_id, root_id_defers, firing, asked, answer>>
BY DEF Client!Drops, Client!Invalid, Client!ConversionRaises,
       Client!CallbackRaises, Client!connectionLost, Client!rootVars

LEMMA RaisesKeeps == Negotiation /\ ReceivesAndRaises => Negotiation'
<1>. SUFFICES ASSUME Negotiation, ReceivesAndRaises
              PROVE  Negotiation'
  OBVIOUS
<1>1. client = "made" /\ client' = "lost"
  BY DropsLoses DEF ReceivesAndRaises
<1>2. /\ negotiation_done = "yes" /\ transport' = "lost"
      /\ failures' = failures
      /\ UNCHANGED <<reply, arrived, tail, parsed, receiving, status,
                     negotiation_done>>
  BY DEF ReceivesAndRaises, Tunnel!connectionLost
<1>. QED
  BY <1>1, <1>2 DEF Negotiation, TunnelTypes, ClientIsMade, FailureStays,
     StatusFromFirst, SomebodyIsTold, StartFailed, OneOutcome,
     OpenMeansAccepted, OneStatusLine

(* What leaves the tunnel alone leaves the client made, or not, as it was.  *)
LEMMA ClientStays == Receives \/ UserCalls => client' = client
BY DEF Receives, UserCalls, Client!Notify, Client!vars, Client!handle_ROOT,
       Client!SetCallback, Client!UnsetCallback, Client!get_root,
       Client!CancelWait, Client!CallWaiter

LEMMA QuietKeeps ==
  ASSUME Negotiation, UNCHANGED tunnelVars, client' = client
  PROVE  Negotiation'
BY DEF tunnelVars, Negotiation, TunnelTypes, ClientIsMade, FailureStays,
     StatusFromFirst, SomebodyIsTold, StartFailed, OneOutcome,
     OpenMeansAccepted, OneStatusLine

LEMMA NegotiationStep == Negotiation /\ [Next]_vars => Negotiation'
<1>. SUFFICES ASSUME Negotiation, [Next]_vars
              PROVE  Negotiation'
  OBVIOUS
<1>1. CASE start \/ startRaises \/ makeConnectionRaises
  BY <1>1, StartKeeps
<1>2. CASE Negotiates
  BY <1>2, NegotiatesKeeps
<1>3. CASE LostInNegotiation \/ LostWhenOpen
  BY <1>3, LossKeeps
<1>4. CASE ReceivesAndRaises
  BY <1>4, RaisesKeeps
<1>5. CASE Receives \/ UserCalls
  <2>1. UNCHANGED tunnelVars
    BY <1>5 DEF Receives, UserCalls
  <2>. QED  BY <1>5, <2>1, ClientStays, QuietKeeps
<1>6. CASE UNCHANGED vars
  BY <1>6, QuietKeeps DEF vars, clientVars
<1>. QED  BY <1>1, <1>2, <1>3, <1>4, <1>5, <1>6 DEF Next

(* The tunnel and the life of the client hang together: a client is made    *)
(* when the negotiation is done and at no other time, or start has failed   *)
(* and the transport is lost.                                               *)
THEOREM NegotiationCorrect == Spec => []Negotiation
<1>. QED  BY InitNegotiation, NegotiationStep, PTL DEF Spec

(* Whoever asked for the connection hears of its end, unless start fails    *)
(* before it has a client_protocol: of that nobody hears.                   *)
THEOREM EndIsTold == Spec => []SomebodyIsTold
<1>1. Negotiation => SomebodyIsTold
  BY DEF Negotiation
<1>. QED  BY <1>1, NegotiationCorrect, PTL

(* No failure is reported for a connection that a client is built on, if no *)
(* line of the reply behind the first has 200 as its second word.           *)
THEOREM OutcomeIsOne == Spec => []OneOutcome
<1>1. Negotiation => OneOutcome
  BY DEF Negotiation
<1>. QED  BY <1>1, NegotiationCorrect, PTL

(* The tunnel opens only if the first line of the reply says 200, if no     *)
(* line behind it has 200 as its second word ("Content-Length: 200" behind  *)
(* a refusal opens the tunnel).                                             *)
THEOREM OnlyIfAccepted == Spec => []OpenMeansAccepted
<1>1. Negotiation => OpenMeansAccepted
  BY DEF Negotiation
<1>. QED  BY <1>1, NegotiationCorrect, PTL

-----------------------------------------------------------------------------
(* The client. *)

LEMMA AcceptsConforming ==
  ASSUME NEW t \in Client!PushType, NEW v \in Client!Values,
         Client!Conforming(Client!Push(t, v))
  PROVE  /\ Client!validate_message(Client!Push(t, v))
         /\ Client!Converts(Client!Push(t, v))
BY DEF Client!Conforming, Client!Push, Client!validate_message, Client!Converts,
       Client!converts_NEW_GENERATION, Client!UUID, Client!is_valid_share,
       Client!is_valid_node, Client!PushType, Client!SharePush, Client!VolumePush,
       Client!Created, Client!RawPush, Client!Values,
       Client!SharesChecked, Client!NodesChecked

(* Only the steps that drop the connection touch dropped and dropper. *)
LEMMA NotDropped ==
  start \/ startRaises \/ Negotiates \/ LostInNegotiation \/ Receives \/ UserCalls
    => UNCHANGED <<dropped, dropper>>
BY DEF start, startRaises, Negotiates, LostInNegotiation, clientVars, Client!connectionMade,
       Receives, UserCalls, Client!Notify, Client!vars, Client!handle_ROOT,
       Client!SetCallback, Client!UnsetCallback, Client!get_root,
       Client!CancelWait, Client!CallWaiter

(* A message as protocol.proto has it is neither refused nor fails to be    *)
(* converted.                                                               *)
THEOREM ConformingPasses == Spec => []ConformingIsAccepted
<1>1. Init => ConformingIsAccepted
  BY DEF Init, Client!Init, ConformingIsAccepted
<1>2. ConformingIsAccepted /\ [Next]_vars => ConformingIsAccepted'
  <2>. SUFFICES ASSUME ConformingIsAccepted, [Next]_vars
                PROVE  ConformingIsAccepted'
    OBVIOUS
  <2>1. CASE start \/ startRaises \/ Negotiates \/ LostInNegotiation
               \/ Receives \/ UserCalls
    BY <2>1, NotDropped DEF ConformingIsAccepted
  <2>a. CASE makeConnectionRaises
    BY <2>a DEF makeConnectionRaises, Client!connectionMadeRaises,
       ConformingIsAccepted
  <2>2. CASE LostWhenOpen
    BY <2>2 DEF LostWhenOpen, Client!connectionLost, ConformingIsAccepted
  <2>3. CASE ReceivesAndRaises
    <3>1. PICK t \in Client!PushType, v \in Client!Values :
            Client!Drops(Client!Push(t, v))
      BY <2>3 DEF ReceivesAndRaises
    <3>2. /\ dropper' = Client!Push(t, v)
          /\ dropped' = "invalid" => ~Client!validate_message(Client!Push(t, v))
          /\ dropped' = "conversion" => ~Client!Converts(Client!Push(t, v))
      BY <3>1, DropsLoses
    <3>3. dropped' \in {"invalid", "conversion"} =>
            ~Client!Conforming(Client!Push(t, v))
      BY <3>2, AcceptsConforming
    <3>. QED  BY <3>2, <3>3 DEF ConformingIsAccepted
  <2>4. CASE UNCHANGED vars
    BY <2>4 DEF vars, clientVars, ConformingIsAccepted
  <2>. QED  BY <2>1, <2>a, <2>2, <2>3, <2>4 DEF Next
<1>. QED  BY <1>1, <1>2, PTL DEF Spec

LEMMA InitClientTypes == Init => ClientTypes
  BY BoundsAssumption DEF Init, Client!Init, ClientTypes

LEMMA ClientQuiet ==
  ASSUME ClientTypes, UNCHANGED clientVars
  PROVE  ClientTypes'
BY DEF ClientTypes, clientVars

LEMMA UserCallsTyped == ClientTypes /\ UserCalls => ClientTypes'
<1>. SUFFICES ASSUME ClientTypes, UserCalls
              PROVE  ClientTypes'
  OBVIOUS
<1>. USE DEF ClientTypes
<1>1. ASSUME NEW t \in Client!CallbackType, Client!SetCallback(t)
      PROVE  ClientTypes'
  BY <1>1 DEF Client!SetCallback, Client!rootVars
<1>2. ASSUME NEW t \in Client!CallbackType, Client!UnsetCallback(t)
      PROVE  ClientTypes'
  BY <1>2 DEF Client!UnsetCallback, Client!rootVars
<1>3. CASE Client!get_root
  <2>1. asked + 1 \in Client!Waiters /\ asked' = asked + 1
        /\ asked' \in 0 .. MaxWaiters
    BY <1>3, BoundsAssumption DEF Client!get_root, Client!Waiters
  <2>2. \E a \in Roots \cup {"none", "waiting", "cancelled"} :
          answer' = [answer EXCEPT ![asked + 1] = a]
    <3>1. CASE root_id # "none"
      <4>1. answer' = [answer EXCEPT ![asked + 1] = root_id]
        BY <1>3, <3>1 DEF Client!get_root
      <4>2. root_id \in Roots
        BY <3>1
      <4>. QED  BY <4>1, <4>2
    <3>2. CASE root_id = "none"
      <4>1. answer' = [answer EXCEPT ![asked + 1] = "waiting"]
        BY <1>3, <3>2 DEF Client!get_root
      <4>. QED  BY <4>1
    <3>. QED  BY <3>1, <3>2
  <2>3. answer' \in [Client!Waiters -> Roots \cup {"none", "waiting", "cancelled"}]
    <3>1. PICK a \in Roots \cup {"none", "waiting", "cancelled"} :
            answer' = [answer EXCEPT ![asked + 1] = a]
      BY <2>2
    <3>2. answer \in [Client!Waiters -> Roots \cup {"none", "waiting", "cancelled"}]
      OBVIOUS
    <3>. HIDE DEF ClientTypes
    <3>. QED  BY <2>1, <3>1, <3>2
  <2>4. root_id_defers' \in Seq(Client!Waiters)
    <3>1. root_id_defers' = root_id_defers
            \/ root_id_defers' = Append(root_id_defers, asked + 1)
      BY <1>3 DEF Client!get_root
    <3>. QED  BY <2>1, <3>1
  <2>. QED  BY <1>3, <2>1, <2>3, <2>4 DEF Client!get_root
<1>4. ASSUME NEW w \in Client!Waiters, Client!CancelWait(w)
      PROVE  ClientTypes'
  BY <1>4 DEF Client!CancelWait
<1>5. CASE Client!CallWaiter
  <2>1. /\ Head(firing) \in Client!Waiters /\ Tail(firing) \in Seq(Client!Waiters)
        /\ firing' = Tail(firing)
    BY <1>5 DEF Client!CallWaiter
  <2>2. answer' \in [Client!Waiters -> Roots \cup {"none", "waiting", "cancelled"}]
    BY <1>5, <2>1 DEF Client!CallWaiter
  <2>3. root_id_defers' \in Seq(Client!Waiters)
    BY <1>5 DEF Client!CallWaiter
  <2>. QED  BY <1>5, <2>1, <2>2, <2>3 DEF Client!CallWaiter
<1>. QED  BY <1>1, <1>2, <1>3, <1>4, <1>5 DEF UserCalls

LEMMA ClientTypesStep == ClientTypes /\ [Next]_vars => ClientTypes'
<1>. SUFFICES ASSUME ClientTypes, [Next]_vars
              PROVE  ClientTypes'
  OBVIOUS
<1>1. CASE start \/ makeConnectionRaises
  BY <1>1 DEF start, makeConnectionRaises, Client!connectionMade,
     Client!connectionMadeRaises, Client!rootVars, ClientTypes
<1>2. CASE startRaises \/ Negotiates \/ LostInNegotiation
  BY <1>2, ClientQuiet DEF startRaises, Negotiates, LostInNegotiation
<1>3. CASE LostWhenOpen
  BY <1>3 DEF LostWhenOpen, Client!connectionLost, Client!rootVars, ClientTypes
<1>4. CASE ReceivesAndRaises
  BY <1>4, DropsLoses DEF ReceivesAndRaises, ClientTypes
<1>5. CASE Receives
  <2>1. ASSUME NEW t \in Client!PushType, NEW v \in Client!Values,
               Client!Notify(Client!Push(t, v))
        PROVE  ClientTypes'
    BY <2>1 DEF Client!Notify, Client!vars, Client!rootVars, ClientTypes
  <2>2. ASSUME NEW r \in Roots, Client!handle_ROOT(r)
        PROVE  ClientTypes'
    BY <2>2 DEF Client!handle_ROOT, ClientTypes
  <2>. QED  BY <1>5, <2>1, <2>2 DEF Receives
<1>6. CASE UserCalls
  BY <1>6, UserCallsTyped
<1>7. CASE UNCHANGED vars
  BY <1>7, ClientQuiet DEF vars
<1>. QED  BY <1>1, <1>2, <1>3, <1>4, <1>5, <1>6, <1>7 DEF Next

(* The variables of tunnel and client have their types. *)
THEOREM TypeCorrect == Spec => []TypeOK
<1>1. Spec => []ClientTypes
  BY InitClientTypes, ClientTypesStep, PTL DEF Spec
<1>2. Negotiation /\ ClientTypes => TypeOK
  BY DEF Negotiation, TunnelTypes, ClientTypes, TypeOK
<1>. QED  BY <1>1, <1>2, NegotiationCorrect, PTL

-----------------------------------------------------------------------------
(* Seen through its own variables each of the two does what it may do by    *)
(* itself: the client does not disturb the tunnel, ...                      *)
THEOREM SessionIsTunnel == Spec => Tunnel!Spec
<1>1. Init => Tunnel!Init
  BY DEF Init
<1>2. [Next]_vars => [Tunnel!Next]_(Tunnel!vars)
  <2>. SUFFICES ASSUME [Next]_vars
                PROVE  Tunnel!Next \/ UNCHANGED tunnelVars
    BY DEF Tunnel!vars, tunnelVars
  <2>1. CASE start \/ startRaises \/ makeConnectionRaises
    BY <2>1 DEF start, startRaises, makeConnectionRaises, Tunnel!Next, Tunnel!Pass
  <2>2. CASE Negotiates
    BY <2>2 DEF Negotiates, Tunnel!Next, Tunnel!Pass
  <2>3. CASE LostInNegotiation \/ LostWhenOpen \/ ReceivesAndRaises
    BY <2>3 DEF LostInNegotiation, LostWhenOpen, ReceivesAndRaises, Tunnel!Next
  <2>4. CASE Receives \/ UserCalls
    BY <2>4 DEF Receives, UserCalls
  <2>5. CASE UNCHANGED vars
    BY <2>5 DEF vars
  <2>. QED  BY <2>1, <2>2, <2>3, <2>4, <2>5 DEF Next
<1>. QED  BY <1>1, <1>2, PTL DEF Spec, Tunnel!Spec

(* ... and the tunnel makes and loses the client as a transport would.      *)
THEOREM SessionIsClient == Spec => Client!Spec
<1>1. Init => Client!Init
  BY DEF Init
<1>2. [Next]_vars => [Client!Next]_(Client!vars)
  <2>. SUFFICES ASSUME [Next]_vars
                PROVE  Client!Next \/ UNCHANGED clientVars
    BY DEF Client!vars, Client!rootVars, clientVars
  <2>1. CASE start \/ makeConnectionRaises
    BY <2>1 DEF start, makeConnectionRaises, Client!Next
  <2>2. CASE startRaises \/ Negotiates \/ LostInNegotiation
    BY <2>2 DEF startRaises, Negotiates, LostInNegotiation
  <2>3. CASE LostWhenOpen
    BY <2>3 DEF LostWhenOpen, Client!Next
  <2>4. CASE ReceivesAndRaises
    BY <2>4 DEF ReceivesAndRaises, Client!Next
  <2>5. CASE Receives
    BY <2>5 DEF Receives, Client!Next
  <2>6. CASE UserCalls
    BY <2>6 DEF UserCalls, Client!Next
  <2>7. CASE UNCHANGED vars
    BY <2>7 DEF vars
  <2>. QED  BY <2>1, <2>2, <2>3, <2>4, <2>5, <2>6, <2>7 DEF Next
<1>. QED  BY <1>1, <1>2, PTL DEF Spec, Client!Spec
-----------------------------------------------------------------------------
(* get_root.  Whoever waits for the root is in the list that handle_ROOT    *)
(* will take, or, once it has taken it, in what its loop still has to fire; *)
(* who has not asked has no answer.                                         *)

Listed(w, s) == \E n \in 1 .. Len(s) : s[n] = w

WaitersKept ==
  /\ firing # <<>> => root_id # "none"
  /\ \A w \in Client!Waiters :
       answer[w] = "waiting" =>
         Listed(w, IF root_id = "none" THEN root_id_defers ELSE firing)
  /\ \A w \in Client!Waiters : w > asked => answer[w] = "none"

(* Nobody waits for a root that is known, but for those whom the loop of    *)
(* handle_ROOT has still to call.                                           *)
NobodyWaitsForKnownRoot ==
  root_id # "none" /\ firing = <<>> =>
    \A w \in Client!Waiters : answer[w] # "waiting"

(* The deferred of a get_root fires once: a root that comes later does not  *)
(* reach one that is cancelled, or answered, already.                       *)
AnswersStay ==
  [][\A w \in Client!Waiters :
       answer[w] \notin {"none", "waiting"} => answer'[w] = answer[w]]_vars

LEMMA ListedInAppend ==
  ASSUME NEW S, NEW s \in Seq(S), NEW e \in S
  PROVE  /\ Listed(e, Append(s, e))
         /\ \A w : Listed(w, s) => Listed(w, Append(s, e))
<1>1. /\ Len(Append(s, e)) = Len(s) + 1 /\ Len(s) \in Nat
      /\ Append(s, e)[Len(s) + 1] = e
      /\ \A n \in 1 .. Len(s) : Append(s, e)[n] = s[n]
  OBVIOUS
<1>2. Listed(e, Append(s, e))
  <2>1. Len(s) + 1 \in 1 .. Len(Append(s, e))
    BY <1>1
  <2>. QED  BY <1>1, <2>1 DEF Listed
<1>3. ASSUME NEW w, Listed(w, s)
      PROVE  Listed(w, Append(s, e))
  <2>1. PICK n \in 1 .. Len(s) : s[n] = w
    BY <1>3 DEF Listed
  <2>2. n \in 1 .. Len(Append(s, e)) /\ Append(s, e)[n] = w
    BY <1>1, <2>1
  <2>. QED  BY <2>2 DEF Listed
<1>. QED  BY <1>2, <1>3

LEMMA ListedInTail ==
  ASSUME NEW S, NEW s \in Seq(S), s # <<>>,
         NEW w, w # Head(s), Listed(w, s)
  PROVE  Listed(w, Tail(s))
<1>1. PICK n \in 1 .. Len(s) : s[n] = w
  BY DEF Listed
<1>2. n # 1 /\ n - 1 \in 1 .. Len(Tail(s)) /\ Tail(s)[n - 1] = w
  BY <1>1
<1>. QED  BY <1>2 DEF Listed

LEMMA InitWaiters == Init => WaitersKept
  BY DEF Init, Client!Init, WaitersKept

LEMMA GetRootKeeps ==
  ASSUME ClientTypes, WaitersKept, Client!get_root
  PROVE  /\ WaitersKept'
         /\ \A w \in Client!Waiters :
              answer[w] \notin {"none", "waiting"} => answer'[w] = answer[w]
<1>1. /\ asked + 1 \in Client!Waiters /\ asked' = asked + 1
      /\ asked \in Nat /\ Client!Waiters \subseteq Nat
      /\ UNCHANGED <<root_id, firing>>
  BY BoundsAssumption DEF Client!get_root, Client!Waiters, ClientTypes
<1>2. /\ answer \in [Client!Waiters -> Roots \cup {"none", "waiting", "cancelled"}]
      /\ root_id_defers \in Seq(Client!Waiters)
      /\ root_id \in Roots \cup {"none"}
  BY DEF ClientTypes
<1>3. answer[asked + 1] = "none"
  BY <1>1 DEF WaitersKept
<1>4. \A w \in Client!Waiters : w # asked + 1 => answer'[w] = answer[w]
  BY <1>1, <1>2 DEF Client!get_root
<1>5. \A w \in Client!Waiters : w > asked' => answer'[w] = "none"
  <2>. TAKE w \in Client!Waiters
  <2>1. w > asked + 1 => w # asked + 1 /\ w > asked
    BY <1>1
  <2>. QED  BY <1>1, <1>4, <2>1 DEF WaitersKept
<1>6. CASE root_id # "none"
  <2>1. answer'[asked + 1] = root_id /\ root_id # "waiting"
    BY <1>1, <1>2, <1>6, BoundsAssumption DEF Client!get_root
  <2>2. ASSUME NEW w \in Client!Waiters, answer'[w] = "waiting"
        PROVE  Listed(w, firing)
    <3>1. w # asked + 1 /\ answer[w] = "waiting"
      BY <1>4, <2>1, <2>2
    <3>. QED  BY <1>6, <3>1 DEF WaitersKept
  <2>. QED  BY <1>1, <1>3, <1>4, <1>5, <1>6, <2>2 DEF WaitersKept
<1>7. CASE root_id = "none"
  <2>1. root_id_defers' = Append(root_id_defers, asked + 1)
    BY <1>7 DEF Client!get_root
  <2>2. ASSUME NEW w \in Client!Waiters, answer'[w] = "waiting"
        PROVE  Listed(w, root_id_defers')
    <3>1. CASE w = asked + 1
      BY <1>1, <1>2, <2>1, <3>1, ListedInAppend
    <3>2. CASE w # asked + 1
      <4>1. Listed(w, root_id_defers)
        BY <1>4, <1>7, <2>2, <3>2 DEF WaitersKept
      <4>. QED  BY <1>1, <1>2, <2>1, <4>1, ListedInAppend
    <3>. QED  BY <3>1, <3>2
  <2>3. firing = <<>>
    BY <1>7 DEF WaitersKept
  <2>. QED  BY <1>1, <1>3, <1>4, <1>5, <1>7, <2>2, <2>3 DEF WaitersKept
<1>. QED  BY <1>6, <1>7

LEMMA CancelWaitKeeps ==
  ASSUME ClientTypes, WaitersKept, NEW v \in Client!Waiters, Client!CancelWait(v)
  PROVE  /\ WaitersKept'
         /\ \A w \in Client!Waiters :
              answer[w] \notin {"none", "waiting"} => answer'[w] = answer[w]
<1>1. /\ answer[v] = "waiting" /\ answer' = [answer EXCEPT ![v] = "cancelled"]
      /\ UNCHANGED <<root_id, root_id_defers, firing, asked>>
  BY DEF Client!CancelWait
<1>2. answer \in [Client!Waiters -> Roots \cup {"none", "waiting", "cancelled"}]
  BY DEF ClientTypes
<1>3. \A w \in Client!Waiters :
        /\ answer'[w] = "waiting" => answer[w] = "waiting"
        /\ w # v => answer'[w] = answer[w]
  BY <1>1, <1>2
<1>4. \A w \in Client!Waiters : w > asked => w # v
  BY <1>1 DEF WaitersKept
<1>. QED  BY <1>1, <1>3, <1>4 DEF WaitersKept

(* A turn of the loop takes one waiter from the list and answers it. *)
LEMMA CallWaiterKeeps ==
  ASSUME ClientTypes, WaitersKept, Client!CallWaiter
  PROVE  /\ WaitersKept'
         /\ \A w \in Client!Waiters :
              answer[w] \notin {"none", "waiting"} => answer'[w] = answer[w]
<1>1. /\ firing # <<>> /\ firing \in Seq(Client!Waiters)
      /\ Head(firing) \in Client!Waiters /\ firing' = Tail(firing)
      /\ UNCHANGED <<root_id, asked>>
      /\ root_id # "none" /\ root_id \in Roots
  BY DEF Client!CallWaiter, ClientTypes, WaitersKept
<1>2. root_id # "waiting"
  BY <1>1, BoundsAssumption
<1>3. answer \in [Client!Waiters -> Roots \cup {"none", "waiting", "cancelled"}]
  BY DEF ClientTypes
<1>4. answer' = IF answer[Head(firing)] = "waiting"
                THEN [answer EXCEPT ![Head(firing)] = root_id] ELSE answer
  BY DEF Client!CallWaiter
<1>5. \A w \in Client!Waiters :
        /\ answer[w] # "waiting" => answer'[w] = answer[w]
        /\ answer'[w] = "waiting" => w # Head(firing) /\ answer[w] = "waiting"
  BY <1>1, <1>2, <1>3, <1>4
<1>6. ASSUME NEW w \in Client!Waiters, answer'[w] = "waiting"
      PROVE  Listed(w, firing')
  <2>1. w # Head(firing) /\ Listed(w, firing)
    BY <1>1, <1>5, <1>6 DEF WaitersKept
  <2>2. Listed(w, Tail(firing))
    BY <1>1, <2>1, ListedInTail
  <2>. QED  BY <1>1, <2>2
<1>7. \A w \in Client!Waiters : w > asked' => answer'[w] = "none"
  BY <1>1, <1>5 DEF WaitersKept
<1>. QED  BY <1>1, <1>5, <1>6, <1>7 DEF WaitersKept

(* handle_ROOT starts the loop on the whole list. *)
LEMMA RootArrives ==
  ASSUME ClientTypes, WaitersKept, NEW r \in Roots, Client!handle_ROOT(r)
  PROVE  WaitersKept' /\ answer' = answer
<1>1. /\ firing = <<>> /\ root_id' = r /\ firing' = root_id_defers
      /\ UNCHANGED <<root_id_defers, asked, answer>>
  BY DEF Client!handle_ROOT, Client!Receiving, Client!Idle
<1>2. r # "none"
  BY BoundsAssumption
<1>3. ASSUME NEW w \in Client!Waiters, answer[w] = "waiting"
      PROVE  Listed(w, root_id_defers)
  <2>1. Listed(w, IF root_id = "none" THEN root_id_defers ELSE firing)
    BY <1>3 DEF WaitersKept
  <2>2. ~Listed(w, firing)
    BY <1>1 DEF Listed
  <2>. QED  BY <2>1, <2>2
<1>4. \A w \in Client!Waiters : answer'[w] = "waiting" => Listed(w, firing')
  BY <1>1, <1>3
<1>. QED  BY <1>1, <1>2, <1>4 DEF WaitersKept

LEMMA WaitersStep ==
  ClientTypes /\ WaitersKept /\ [Next]_vars =>
    /\ WaitersKept'
    /\ \A w \in Client!Waiters :
         answer[w] \notin {"none", "waiting"} => answer'[w] = answer[w]
<1>. SUFFICES ASSUME ClientTypes, WaitersKept, [Next]_vars
              PROVE  /\ WaitersKept'
                     /\ \A w \in Client!Waiters :
                          answer[w] \notin {"none", "waiting"}
                            => answer'[w] = answer[w]
  OBVIOUS
<1>0. ASSUME UNCHANGED <<root_id, root_id_defers, firing, asked, answer>>
      PROVE  WaitersKept' /\ answer' = answer
  BY <1>0 DEF WaitersKept
<1>1. CASE start \/ makeConnectionRaises
  BY <1>0, <1>1 DEF start, makeConnectionRaises, Client!connectionMade,
     Client!connectionMadeRaises, Client!rootVars
<1>2. CASE startRaises \/ Negotiates \/ LostInNegotiation \/ UNCHANGED vars
  BY <1>0, <1>2 DEF startRaises, Negotiates, LostInNegotiation, vars, clientVars
<1>3. CASE LostWhenOpen
  BY <1>0, <1>3 DEF LostWhenOpen, Client!connectionLost, Client!rootVars
<1>4. CASE ReceivesAndRaises
  BY <1>0, <1>4, DropsLoses DEF ReceivesAndRaises
<1>5. CASE Receives
  <2>1. ASSUME NEW m, Client!Notify(m)
        PROVE  UNCHANGED <<root_id, root_id_defers, firing, asked, answer>>
    BY <2>1 DEF Client!Notify, Client!vars, Client!rootVars
  <2>. QED  BY <1>0, <1>5, <2>1, RootArrives DEF Receives
<1>6. CASE UserCalls
  <2>1. CASE \E t \in Client!CallbackType : Client!SetCallback(t) \/ Client!UnsetCallback(t)
    BY <1>0, <2>1 DEF Client!SetCallback, Client!UnsetCallback, Client!rootVars
  <2>2. CASE Client!get_root
    BY <2>2, GetRootKeeps
  <2>3. CASE \E w \in Client!Waiters : Client!CancelWait(w)
    BY <2>3, CancelWaitKeeps
  <2>4. CASE Client!CallWaiter
    BY <2>4, CallWaiterKeeps
  <2>. QED  BY <1>6, <2>1, <2>2, <2>3, <2>4 DEF UserCalls
<1>. QED  BY <1>1, <1>2, <1>3, <1>4, <1>5, <1>6 DEF Next

(* No caller of get_root is forgotten, whatever is cancelled, whenever ROOT *)
(* comes, however often, and in whatever callback they ask.                 *)
THEOREM WaitersAreKept == Spec => []WaitersKept
<1>1. Spec => []ClientTypes
  BY InitClientTypes, ClientTypesStep, PTL DEF Spec
<1>2. ClientTypes /\ WaitersKept /\ [Next]_vars => WaitersKept'
  BY WaitersStep
<1>. QED  BY <1>1, <1>2, InitWaiters, PTL DEF Spec

(* Once the root is known and the loop is over, nobody waits. *)
THEOREM RootServesAll == Spec => []NobodyWaitsForKnownRoot
<1>1. WaitersKept => NobodyWaitsForKnownRoot
  BY DEF WaitersKept, NobodyWaitsForKnownRoot, Listed
<1>. QED  BY <1>1, WaitersAreKept, PTL

(* Every deferred of get_root fires at most once. *)
THEOREM RootFiresOnce == Spec => AnswersStay
<1>1. Spec => []ClientTypes
  BY InitClientTypes, ClientTypesStep, PTL DEF Spec
<1>2. ClientTypes /\ WaitersKept /\ [Next]_vars =>
        [\A w \in Client!Waiters :
           answer[w] \notin {"none", "waiting"} => answer'[w] = answer[w]]_vars
  BY WaitersStep
<1>. QED  BY <1>1, <1>2, WaitersAreKept, PTL DEF Spec, AnswersStay
=============================================================================
