--------------------------- MODULE RequestHandler ---------------------------
(* One client connection: the registry of outstanding requests kept by      *)
(* RequestHandler (request.py), the life of a Request from start to the     *)
(* firing of its deferred, and the dispatch of incoming messages, with the  *)
(* server and the two directions of the byte stream as the environment.     *)
(*                                                                          *)
(* The code runs in one thread, the reactor's: an action is a callback that *)
(* runs to its end.  connectionLost is the exception: it calls the errbacks *)
(* of the requests it aborts one after the other, and each of them may run  *)
(* user code that starts and cancels requests, so one action aborts one     *)
(* request.                                                                 *)

EXTENDS Requests, Integers, Sequences

CONSTANTS
  Kinds,              \* the request classes the user starts
  MaxId,              \* bound: no request id above this is allocated
  MaxItems,           \* bound: items the server sends for one request
  Pushes,             \* the types of message the server sends unasked
  MaxPushId,          \* bound: last id the server allocates for a push
  ServerEnds(_),      \* the final answers of the server to a request class
  HasLog              \* does the protocol object have a log attribute

ASSUME BoundsAssumption ==
  /\ MaxId \in Nat
  /\ MaxItems \in Nat
  /\ MaxPushId \in Int
  /\ HasLog \in BOOLEAN

ASSUME KindsAssumption == Kinds \subseteq AllKinds

ASSUME TypesAssumption ==
  /\ Pushes \subseteq MessageType
  /\ \A k \in Kinds \cup {"none"} : ServerEnds(k) \subseteq MessageType

(* The server keeps to the protocol: it ends a request with an answer that  *)
(* is legal for it, and sends of its own accord only what a client has a    *)
(* handler for, or what no validator lets pass.                             *)
ASSUME ServerAssumption ==
  /\ \A k \in Kinds : ServerEnds(k) \subseteq LegalEnds(k)
  /\ Pushes \subseteq AllPushes

VARIABLES
  request_counter,  \* RequestHandler.request_counter
  requests,         \* the keys of RequestHandler.requests
  kind,             \* the class of the request with each id
  cancelled,        \* the requests whose cancelled attribute is set
  deferred,         \* the state of the deferred of each request
  received,         \* items each request has kept
  producer,         \* the producer of the transport: "handler" or "none"
  conn,             \* "up", then "lost"
  aborting,         \* the requests connectionLost has copied and not done yet
  failed,           \* history: requests errored by an exception of a callback
  unsent,           \* history: requests whose _start raised
  dropped,          \* history: why the connection went down
  toServer,         \* messages written by the client, oldest first
  toClient,         \* messages written by the server, oldest first
  serving,          \* what the server is doing for each request
  sent,             \* items the server has sent for each request
  server_counter    \* the server's own request_counter

clientVars == <<request_counter, requests, kind, cancelled, deferred,
                received, producer, failed, unsent>>
connVars == <<conn, aborting, dropped>>
serverVars == <<serving, sent, server_counter>>
vars == <<clientVars, connVars, serverVars, toServer, toClient>>

Ids == 0 .. MaxId

(* Mutant: StorageClient does not override the start of its base class. *)
REQUEST_ID_START_OfServer == 0

REQUEST_ID_START == 1

Message(i, t) == [id |-> i, type |-> t]
Messages == [id : Nat, type : MessageType]

(* Where a deferred ends: "callback" and "errback" by done and error,       *)
(* "lost" by the error(reason) of connectionLost.                           *)
Fired == {"callback", "errback", "lost"}

Causes == {"none", "network", "unhandled", "invalid", "callback"}

-----------------------------------------------------------------------------
(* The pieces of RequestHandler and Request that the actions share.         *)

(* RequestHandler.__init__ and Request.__init__ *)
Init ==
  /\ request_counter = REQUEST_ID_START
  /\ requests = {}
  /\ kind = [i \in Ids |-> "none"]
  /\ cancelled = {}
  /\ deferred = [i \in Ids |-> "none"]
  /\ received = [i \in Ids |-> 0]
  /\ producer = "none"
  /\ conn = "up"
  /\ aborting = {}
  /\ failed = {}
  /\ unsent = {}
  /\ dropped = "none"
  /\ toServer = <<>>
  /\ toClient = <<>>
  /\ serving = [i \in Ids |-> "none"]
  /\ sent = [i \in Ids |-> 0]
  /\ server_counter = 0

(* Mutant: the counter runs the wrong way. *)
get_new_request_id_Backwards ==
  /\ request_counter \in Ids
  /\ request_counter' = request_counter - 2

get_new_request_id ==
  /\ request_counter \in Ids
  /\ request_counter' = request_counter + 2

(* Registers with the transport on the first request; a transport that has  *)
(* been disconnected does not take a producer.                              *)
addProducer ==
  producer' = IF requests = {} /\ conn = "up" THEN "handler" ELSE producer

(* Mutant: unregisters whatever requests remain. *)
removeProducer_Always(remaining) == producer' = "none"

removeProducer(remaining) ==
  producer' = IF remaining = {} THEN "none" ELSE producer

cleanup(i) ==
  /\ requests' = requests \ {i}
  /\ removeProducer(requests \ {i})

(* Mutant: fires the deferred and leaves the request in the registry. *)
done_WithoutCleanup(i) ==
  /\ deferred' = [deferred EXCEPT ![i] = "callback"]
  /\ UNCHANGED <<requests, producer>>

done(i) ==
  /\ cleanup(i)
  /\ deferred' = [deferred EXCEPT ![i] = "callback"]

error(i, how) ==
  /\ cleanup(i)
  /\ deferred' = [deferred EXCEPT ![i] = how]

(* What is written to a transport that was disconnected is discarded. *)
sendMessage(i, t) ==
  toServer' = IF conn = "up" THEN Append(toServer, Message(i, t)) ELSE toServer

(* Mutant: leaves the requests alone whose cancel is under way. *)
connectionLost_SkipsCancelled(why) ==
  /\ conn' = "lost"
  /\ dropped' = why
  /\ aborting' = requests \ cancelled
  /\ producer' = "none"
  /\ toServer' = <<>>
  /\ toClient' = <<>>

(* connectionLost up to its loop: the transport forgets its producer and    *)
(* its buffers, the outstanding requests are copied.                        *)
connectionLost(why) ==
  /\ conn' = "lost"
  /\ dropped' = why
  /\ aborting' = requests
  /\ producer' = "none"
  /\ toServer' = <<>>
  /\ toClient' = <<>>

-----------------------------------------------------------------------------
(* The user.  User code runs in its own reactor turns and in the callbacks  *)
(* the handler makes; in the middle of connectionLost only in an errback,   *)
(* so after the first abort.                                                *)

UserRuns ==
  \/ conn = "up"
  \/ aborting = {}
  \/ \E i \in Ids : deferred[i] = "lost"

(* Request.start, for the classes whose _start sends a message. *)
Start(k) ==
  LET id == request_counter IN
  /\ UserRuns
  /\ k # "Noop"
  /\ addProducer
  /\ get_new_request_id
  /\ requests' = requests \cup {id}
  /\ kind' = [kind EXCEPT ![id] = k]
  /\ deferred' = [deferred EXCEPT ![id] = "pending"]
  /\ sendMessage(id, Class[k].sends)
  /\ UNCHANGED <<cancelled, received, failed, unsent, connVars, serverVars,
                 toClient>>

(* Request.start when _start raises ValueError for a wrong argument. *)
StartRaises(k) ==
  LET id == request_counter IN
  /\ UserRuns
  /\ k \in ChecksArgumentInStart
  /\ addProducer
  /\ get_new_request_id
  /\ requests' = requests \cup {id}
  /\ kind' = [kind EXCEPT ![id] = k]
  /\ deferred' = [deferred EXCEPT ![id] = "pending"]
  /\ unsent' = unsent \cup {id}
  /\ UNCHANGED <<cancelled, received, failed, connVars, serverVars, toServer,
                 toClient>>

(* Request.start of a Noop, which calls done in its _start: it joins the    *)
(* registry and leaves it in one step.                                      *)
StartNoop ==
  LET id == request_counter IN
  /\ UserRuns
  /\ "Noop" \in Kinds
  /\ get_new_request_id
  /\ kind' = [kind EXCEPT ![id] = "Noop"]
  /\ deferred' = [deferred EXCEPT ![id] = "callback"]
  /\ removeProducer(requests)
  /\ sendMessage(id, Noop.sends)
  /\ UNCHANGED <<requests, cancelled, received, failed, unsent, connVars,
                 serverVars, toClient>>

(* Mutant: a cancel that errors the request itself, what the comment in     *)
(* connectionLost allows for ("cancel may already have error-ed").          *)
Cancel_Errors(i) ==
  /\ UserRuns
  /\ i \in requests
  /\ error(i, "errback")
  /\ cancelled' = cancelled \cup {i}
  /\ UNCHANGED <<request_counter, kind, received, failed, unsent, connVars,
                 serverVars, toServer, toClient>>

(* Request.cancel: nothing on a finished request; the first time on a       *)
(* started one, the _cancel of a class that has it.                         *)
Cancel(i) ==
  /\ UserRuns
  /\ kind[i] # "none"
  /\ IF deferred[i] \in Fired
     THEN UNCHANGED <<cancelled, toServer>>
     ELSE /\ cancelled' = cancelled \cup {i}
          /\ IF i \notin cancelled /\ Class[kind[i]].cancels
             THEN sendMessage(i, "CANCEL_REQUEST")
             ELSE UNCHANGED toServer
  /\ UNCHANGED <<request_counter, requests, kind, deferred, received,
                 producer, failed, unsent, connVars, serverVars, toClient>>

-----------------------------------------------------------------------------
(* RequestHandler.processMessage, one action for each way through it; m is  *)
(* the oldest message that has arrived.                                     *)

ForRequest(m) == m.type # "INVALID" /\ m.id \in requests

Consume == toClient' = Tail(toClient)

(* Mutant: the test of the cancelled attribute is lost. *)
Ignores_AllBytes(i, t) == kind[i] = "GetContent" /\ t = "BYTES"

(* GetContent.processMessage drops BYTES that arrive after the cancel. *)
Ignores(i, t) == kind[i] = "GetContent" /\ t = "BYTES" /\ i \in cancelled

(* An item: the request keeps it, or a cancelled download drops it. *)
KeepItem(m) ==
  /\ ForRequest(m)
  /\ m.type \in Class[kind[m.id]].items
  /\ received' = IF Ignores(m.id, m.type) THEN received
                 ELSE [received EXCEPT ![m.id] = @ + 1]
  /\ Consume
  /\ UNCHANGED <<request_counter, requests, kind, cancelled, deferred,
                 producer, failed, unsent, connVars, serverVars, toServer>>

(* The code an item is handed to raises: the request errors on its own,     *)
(* and the server is not told.                                              *)
ItemRaises(m) ==
  /\ ForRequest(m)
  /\ m.type \in Class[kind[m.id]].items
  /\ ~Ignores(m.id, m.type)
  /\ error(m.id, "errback")
  /\ failed' = failed \cup {m.id}
  /\ Consume
  /\ UNCHANGED <<request_counter, kind, cancelled, received, unsent,
                 connVars, serverVars, toServer>>

(* A final answer of the class. *)
End(m) ==
  /\ ForRequest(m)
  /\ m.type \in Class[kind[m.id]].ends
  /\ done(m.id)
  /\ Consume
  /\ UNCHANGED <<request_counter, kind, cancelled, received, failed, unsent,
                 connVars, serverVars, toServer>>

(* ERROR, CANCELLED and, by _default_process_message, any other type. *)
Refuse(m) ==
  /\ ForRequest(m)
  /\ m.type \notin Class[kind[m.id]].items \cup Class[kind[m.id]].ends
  /\ error(m.id, "errback")
  /\ Consume
  /\ UNCHANGED <<request_counter, kind, cancelled, received, failed, unsent,
                 connVars, serverVars, toServer>>

Unsolicited(m) == m.type # "INVALID" /\ m.id \notin requests

(* A handle_ method runs; handle_PING answers. *)
Handle(m) ==
  /\ Unsolicited(m)
  /\ m.type \in Handled
  /\ IF m.type = "PING" THEN sendMessage(m.id, "PONG") ELSE UNCHANGED toServer
  /\ Consume
  /\ UNCHANGED <<clientVars, connVars, serverVars>>

(* An exception of a notification callback, like the one raised when there  *)
(* is no handle_ method, leaves dataReceived and takes the connection down. *)
HandleRaises(m) ==
  /\ Unsolicited(m)
  /\ m.type \in Handled \ Silent
  /\ connectionLost("callback")
  /\ UNCHANGED <<request_counter, requests, kind, cancelled, deferred,
                 received, failed, unsent, serverVars>>

Unhandled(m) ==
  /\ Unsolicited(m)
  /\ m.type \notin Handled
  /\ connectionLost("unhandled")
  /\ UNCHANGED <<request_counter, requests, kind, cancelled, deferred,
                 received, failed, unsent, serverVars>>

(* validate_message refuses the message: the handler logs and answers with  *)
(* ERROR if it has a log, and raises AttributeError if it has none.         *)
Invalid(m) ==
  /\ m.type = "INVALID"
  /\ HasLog
  /\ sendMessage(m.id, "ERROR")
  /\ Consume
  /\ UNCHANGED <<clientVars, connVars, serverVars>>

InvalidRaises(m) ==
  /\ m.type = "INVALID"
  /\ ~HasLog
  /\ connectionLost("invalid")
  /\ UNCHANGED <<request_counter, requests, kind, cancelled, deferred,
                 received, failed, unsent, serverVars>>

processMessage ==
  /\ conn = "up"
  /\ toClient # <<>>
  /\ LET m == Head(toClient) IN
       \/ KeepItem(m) \/ ItemRaises(m) \/ End(m) \/ Refuse(m)
       \/ Handle(m) \/ HandleRaises(m) \/ Unhandled(m)
       \/ Invalid(m) \/ InvalidRaises(m)

-----------------------------------------------------------------------------
(* The end of the connection: closed by either side or broken. *)

ConnectionLost ==
  /\ conn = "up"
  /\ connectionLost("network")
  /\ UNCHANGED <<request_counter, requests, kind, cancelled, deferred,
                 received, failed, unsent, serverVars>>

(* One turn of the loop of connectionLost, in the order of the registry. *)
Abort(i) ==
  /\ i \in aborting
  /\ \A j \in aborting : i <= j
  /\ aborting' = aborting \ {i}
  /\ cancelled' = cancelled \cup {i}
  /\ error(i, "lost")
  /\ UNCHANGED <<request_counter, kind, received, failed, unsent, conn,
                 dropped, serverVars, toServer, toClient>>

-----------------------------------------------------------------------------
(* The server, as far as the client's code and its docs describe it: it     *)
(* answers a request with items and then one final answer, ERROR, or, after *)
(* CANCEL_REQUEST, CANCELLED; and it sends messages of its own under even   *)
(* ids.                                                                     *)

Write(m) == toClient' = Append(toClient, m)

ServerReceive ==
  /\ conn = "up"
  /\ toServer # <<>>
  /\ LET m == Head(toServer) IN
     serving' = IF m.id \notin Ids THEN serving
                ELSE CASE m.type = "CANCEL_REQUEST" /\ serving[m.id] = "open" ->
                            [serving EXCEPT ![m.id] = "cancelling"]
                       [] m.type \notin {"CANCEL_REQUEST", "NOOP", "PONG", "ERROR"} ->
                            [serving EXCEPT ![m.id] = "open"]
                       [] OTHER -> serving
  /\ toServer' = Tail(toServer)
  /\ UNCHANGED <<clientVars, connVars, sent, server_counter, toClient>>

Serving(i) == conn = "up" /\ serving[i] \in {"open", "cancelling"}

ServerItem(i) ==
  /\ Serving(i)
  /\ sent[i] < MaxItems
  /\ sent' = [sent EXCEPT ![i] = @ + 1]
  /\ \E t \in ProtoItems(kind[i]) : Write(Message(i, t))
  /\ UNCHANGED <<clientVars, connVars, serving, server_counter, toServer>>

(* A cancel is answered with OK or with CANCELLED, unless it came late. *)
ServerEnd(i) ==
  /\ Serving(i)
  /\ \E t \in ServerEnds(kind[i])
            \cup (IF serving[i] = "cancelling" THEN {"OK"} ELSE {}) :
       Write(Message(i, t))
  /\ serving' = [serving EXCEPT ![i] = "answered"]
  /\ UNCHANGED <<clientVars, connVars, sent, server_counter, toServer>>

ServerError(i) ==
  /\ Serving(i)
  /\ Write(Message(i, "ERROR"))
  /\ serving' = [serving EXCEPT ![i] = "refused"]
  /\ UNCHANGED <<clientVars, connVars, sent, server_counter, toServer>>

ServerCancelled(i) ==
  /\ conn = "up"
  /\ serving[i] = "cancelling"
  /\ Write(Message(i, "CANCELLED"))
  /\ serving' = [serving EXCEPT ![i] = "cancelled"]
  /\ UNCHANGED <<clientVars, connVars, sent, server_counter, toServer>>

(* The race handle_BEGIN_CONTENT is there for: the permission to upload     *)
(* comes after the answer to the cancel.                                    *)
ServerLateBegin(i) ==
  /\ conn = "up"
  /\ kind[i] = "PutContent"
  /\ i \in cancelled
  /\ serving[i] \in {"answered", "cancelled"}
  /\ sent[i] < MaxItems
  /\ sent' = [sent EXCEPT ![i] = @ + 1]
  /\ Write(Message(i, "BEGIN_CONTENT"))
  /\ UNCHANGED <<clientVars, connVars, serving, server_counter, toServer>>

ServerPush(t) ==
  /\ conn = "up"
  /\ server_counter <= MaxPushId
  /\ Write(Message(server_counter, t))
  /\ server_counter' = server_counter + 2
  /\ UNCHANGED <<clientVars, connVars, serving, sent, toServer>>

-----------------------------------------------------------------------------
Next ==
  \/ \E k \in Kinds : Start(k) \/ StartRaises(k)
  \/ StartNoop
  \/ \E i \in Ids : Cancel(i) \/ Abort(i)
  \/ processMessage
  \/ ConnectionLost
  \/ ServerReceive
  \/ \E i \in Ids : \/ ServerItem(i) \/ ServerEnd(i) \/ ServerError(i)
                    \/ ServerCancelled(i) \/ ServerLateBegin(i)
  \/ \E t \in Pushes : ServerPush(t)

Spec == Init /\ [][Next]_vars

(* The reactor reads what has arrived and runs connectionLost to its end;   *)
(* the server reads its socket and sooner or later finishes every request.  *)
Fairness ==
  /\ WF_vars(processMessage)
  /\ \A i \in Ids : WF_vars(Abort(i))
  /\ WF_vars(ServerReceive)
  /\ \A i \in Ids : WF_vars(ServerEnd(i) \/ ServerError(i) \/ ServerCancelled(i))

FairSpec == Spec /\ Fairness
-----------------------------------------------------------------------------
(* Properties *)

TypeOK ==
  /\ request_counter \in Nat
  /\ requests \subseteq Ids
  /\ kind \in [Ids -> Kinds \cup {"none"}]
  /\ cancelled \subseteq Ids
  /\ deferred \in [Ids -> {"none", "pending"} \cup Fired]
  /\ received \in [Ids -> Nat]
  /\ producer \in {"none", "handler"}
  /\ conn \in {"up", "lost"}
  /\ aborting \subseteq Ids
  /\ failed \subseteq Ids
  /\ unsent \subseteq Ids
  /\ dropped \in Causes
  /\ toServer \in Seq(Messages)
  /\ toClient \in Seq(Messages)
  /\ serving \in [Ids -> {"none", "open", "cancelling", "answered", "refused",
                         "cancelled"}]
  /\ sent \in [Ids -> Nat]
  /\ server_counter \in Nat

(* The registry holds exactly the requests whose deferred has not fired: an *)
(* entry that stays behind would catch later messages, one that goes early  *)
(* would leave its caller waiting for ever (Request.start, cleanup, done).  *)
RegistryExact == requests = {i \in Ids : deferred[i] = "pending"}

(* connectionLost works on a copy of the registry while the errbacks it     *)
(* calls run user code.  Every request left in the copy is still            *)
(* registered, so that the del in cleanup cannot raise KeyError and leave   *)
(* the rest unaborted.                                                      *)
CopyStillRegistered == aborting \subseteq requests

(* The transport has the handler as its producer exactly while requests are *)
(* outstanding on a live connection: a second registerProducer would raise  *)
(* in Request.start, a missing one would leave uploads without a            *)
(* pauseProducing (addProducer, removeProducer).                            *)
ProducerMatchesRegistry ==
  producer = "handler" <=> conn = "up" /\ requests # {}

(* The rest of what makes the three inductive: ids from request_counter on  *)
(* are unused, and connectionLost runs on a lost connection only.           *)
Unused == \A i \in Ids : i >= request_counter => deferred[i] = "none"
AbortsWhenLost == conn = "up" => aborting = {}

IndInv ==
  /\ TypeOK
  /\ Unused
  /\ AbortsWhenLost
  /\ RegistryExact
  /\ CopyStillRegistered
  /\ ProducerMatchesRegistry

(* A deferred fires once and keeps its result; firing twice raises          *)
(* AlreadyCalledError in Request.done and Request.error.                    *)
FiresOnce ==
  [][\A i \in Ids : deferred[i] \in Fired => deferred'[i] = deferred[i]]_vars

(* Seen through the deferreds alone, the handler keeps the Promise: fresh   *)
(* ids, one result each, answers while the connection is up and afterwards  *)
(* nothing but the errors of connectionLost, although errbacks start and    *)
(* cancel requests in its midst.                                            *)
Promised == INSTANCE Promise
              WITH Requests <- Ids, up <- (conn = "up"), open <- requests,
                   result <- deferred
KeepsPromise == Promised!Spec

(* A request reports success only if the server finished that very request: *)
(* neither a message the server sent unasked nor an answer to another       *)
(* request is taken for its answer (get_new_request_id, processMessage).    *)
DoneMeansAnswered ==
  \A i \in Ids : deferred[i] = "callback" /\ kind[i] # "Noop"
               => serving[i] = "answered"

(* The classes that know OK only (processMessage of DeleteShare and of      *)
(* DeleteVolume) and take the SHARE_DELETED and the VOLUME_DELETED that     *)
(* protocol.proto has as the answers to them for errors.                    *)
Misread == {"DeleteShare", "DeleteVolume"}

(* A request reports failure on a live connection only if the server        *)
(* refused or cancelled it, or a callback of the user raised; or it is one  *)
(* of the two deletions, and the server has carried it out.  In every other *)
(* class no legal answer falls through to _default_process_message.         *)
ErrorMeansRefused ==
  \A i \in Ids : deferred[i] = "errback" =>
    \/ i \in failed
    \/ serving[i] \in {"refused", "cancelled"}
    \/ serving[i] = "answered" /\ kind[i] \in Misread

(* A request that succeeds without having been cancelled has kept every     *)
(* item the server sent for it before the final answer.                     *)
DoneMeansComplete ==
  \A i \in Ids : deferred[i] = "callback" /\ i \notin cancelled
               => received[i] = sent[i]

(* The only requests whose messages can reach the "peer cant handle         *)
(* message" exception, and so take the connection down, are those a         *)
(* callback of the user made fail while the server was still answering: a   *)
(* cancel never does (handle_BEGIN_CONTENT takes the one late answer).      *)
UnhandledOnlyAfterFailure ==
  conn = "up" /\ toClient # <<>> =>
    LET m == Head(toClient) IN
      Unsolicited(m) /\ m.type \notin Handled => m.id \in failed

(* Every request started on a live connection, and really sent, has its     *)
(* deferred fired in the end: by the server's answer, by an exception or by *)
(* connectionLost.                                                          *)
RequestsSettle ==
  \A i \in Ids :
    (i \in requests \ unsent /\ conn = "up") ~> (deferred[i] \in Fired)

(* "Abort any outstanding requests when we lose our connection": when       *)
(* connectionLost returns, no request is left in the registry.              *)
LostLeavesNoRequest ==
  [][aborting # {} /\ aborting' = {} => requests' = {}]_vars
=============================================================================
