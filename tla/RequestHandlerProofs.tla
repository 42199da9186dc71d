------------------------ MODULE RequestHandlerProofs ------------------------
(* Proofs about RequestHandler, for every set of request classes, every     *)
(* server and every bound: the registry and the deferreds, the refinement   *)
(* of Promise, and what connectionLost leaves behind.                       *)

EXTENDS RequestHandler, TLAPS

(* A request class sends one of the message types. *)
LEMMA SendsMessageType == \A k \in AllKinds : Class[k].sends \in MessageType
<1>1. \A k \in AllKinds : k \in {"Ping", "Noop", "GetContent", "PutContent",
        "ListShares", "CreateShare", "AcceptShare", "DeleteShare",
        "CreateUDF", "ListVolumes", "DeleteVolume", "Unlink",
        "ChangePublicAccess", "ListPublicFiles", "Move", "Query", "MakeDir",
        "MakeFile", "GetDelta", "ProtocolVersion", "Authenticate",
        "QuerySetCaps", "FreeSpaceInquiry", "AccountInquiry"}
  BY DEF AllKinds, Class
<1>2. /\ Ping.sends \in MessageType
      /\ Noop.sends \in MessageType
      /\ GetContent.sends \in MessageType
      /\ PutContent.sends \in MessageType
      /\ ListShares.sends \in MessageType
      /\ CreateShare.sends \in MessageType
      /\ AcceptShare.sends \in MessageType
      /\ DeleteShare.sends \in MessageType
      /\ CreateUDF.sends \in MessageType
      /\ ListVolumes.sends \in MessageType
      /\ DeleteVolume.sends \in MessageType
      /\ Unlink.sends \in MessageType
      /\ ChangePublicAccess.sends \in MessageType
      /\ ListPublicFiles.sends \in MessageType
      /\ Move.sends \in MessageType
      /\ Query.sends \in MessageType
      /\ MakeDir.sends \in MessageType
      /\ MakeFile.sends \in MessageType
      /\ GetDelta.sends \in MessageType
      /\ ProtocolVersion.sends \in MessageType
      /\ Authenticate.sends \in MessageType
      /\ QuerySetCaps.sends \in MessageType
      /\ FreeSpaceInquiry.sends \in MessageType
      /\ AccountInquiry.sends \in MessageType
  BY DEF MessageType, Request, CancellableRequest, Ping, Noop, GetContent, PutContent, ListShares, CreateShare,
     AcceptShare, DeleteShare, CreateUDF, ListVolumes, DeleteVolume, Unlink,
     ChangePublicAccess, ListPublicFiles, Move, Query, MakeDir, MakeFile,
     GetDelta, ProtocolVersion, Authenticate, QuerySetCaps,
     FreeSpaceInquiry, AccountInquiry
<1>3. /\ Class["Ping"] = Ping
      /\ Class["Noop"] = Noop
      /\ Class["GetContent"] = GetContent
      /\ Class["PutContent"] = PutContent
      /\ Class["ListShares"] = ListShares
      /\ Class["CreateShare"] = CreateShare
      /\ Class["AcceptShare"] = AcceptShare
      /\ Class["DeleteShare"] = DeleteShare
      /\ Class["CreateUDF"] = CreateUDF
      /\ Class["ListVolumes"] = ListVolumes
      /\ Class["DeleteVolume"] = DeleteVolume
      /\ Class["Unlink"] = Unlink
      /\ Class["ChangePublicAccess"] = ChangePublicAccess
      /\ Class["ListPublicFiles"] = ListPublicFiles
      /\ Class["Move"] = Move
      /\ Class["Query"] = Query
      /\ Class["MakeDir"] = MakeDir
      /\ Class["MakeFile"] = MakeFile
      /\ Class["GetDelta"] = GetDelta
      /\ Class["ProtocolVersion"] = ProtocolVersion
      /\ Class["Authenticate"] = Authenticate
      /\ Class["QuerySetCaps"] = QuerySetCaps
      /\ Class["FreeSpaceInquiry"] = FreeSpaceInquiry
      /\ Class["AccountInquiry"] = AccountInquiry
  BY DEF Class
<1>. QED  BY <1>1, <1>2, <1>3

(* So are the items a server sends, for every request class. *)
LEMMA ItemsMessageType == \A k : ProtoItems(k) \subseteq MessageType
  BY DEF ProtoItems, MessageType

(* Request ids are natural numbers. *)
LEMMA IdsAreNat == Ids \subseteq Nat
  BY BoundsAssumption DEF Ids

(* A queue of messages stays one when a message is appended. *)
LEMMA AppendTyped ==
  \A q, m : q \in Seq(Messages) /\ m \in Messages
           => Append(q, m) \in Seq(Messages)
  OBVIOUS

-----------------------------------------------------------------------------
(* Type correctness, initially and by every step. *)

LEMMA TypeInit == Init => TypeOK
  BY DEF Init, TypeOK, Causes, REQUEST_ID_START

LEMMA TypeStep == TypeOK /\ [Next]_vars => TypeOK'
<1>. USE IdsAreNat
<1>. SUFFICES ASSUME TypeOK, [Next]_vars
              PROVE  TypeOK'
  OBVIOUS
<1>. USE DEF TypeOK
<1>1. ASSUME NEW k \in Kinds, Start(k)
      PROVE  TypeOK'
  <2>1. Message(request_counter, Class[k].sends) \in Messages
    BY SendsMessageType, KindsAssumption DEF Message, Messages
  <2>2. toServer' \in Seq(Messages)
    BY <1>1, <2>1 DEF Start, sendMessage
  <2>3. request_counter \in Ids /\ request_counter' = request_counter + 2
    BY <1>1 DEF Start, get_new_request_id
  <2>4. /\ requests' = requests \cup {request_counter}
        /\ kind' = [kind EXCEPT ![request_counter] = k]
        /\ deferred' = [deferred EXCEPT ![request_counter] = "pending"]
    BY <1>1 DEF Start
  <2>5. producer' \in {"none", "handler"}
    BY <1>1 DEF Start, addProducer
  <2>6. UNCHANGED <<cancelled, received, failed, unsent, connVars, serverVars,
                    toClient>>
    BY <1>1 DEF Start
  <2>7. request_counter' \in Nat /\ requests' \subseteq Ids
    BY <2>3, <2>4
  <2>8. kind' \in [Ids -> Kinds \cup {"none"}]
    BY <2>3, <2>4
  <2>9. deferred' \in [Ids -> {"none", "pending"} \cup Fired]
    BY <2>3, <2>4
  <2>. QED
    BY <2>2, <2>5, <2>6, <2>7, <2>8, <2>9 DEF connVars, serverVars
<1>2. ASSUME NEW k \in Kinds, StartRaises(k)
      PROVE  TypeOK'
  <2>1. request_counter \in Ids /\ request_counter' = request_counter + 2
    BY <1>2 DEF StartRaises, get_new_request_id
  <2>2. /\ requests' = requests \cup {request_counter}
        /\ kind' = [kind EXCEPT ![request_counter] = k]
        /\ deferred' = [deferred EXCEPT ![request_counter] = "pending"]
        /\ unsent' = unsent \cup {request_counter}
    BY <1>2 DEF StartRaises
  <2>3. producer' \in {"none", "handler"}
    BY <1>2 DEF StartRaises, addProducer
  <2>4. UNCHANGED <<cancelled, received, failed, connVars, serverVars,
                    toServer, toClient>>
    BY <1>2 DEF StartRaises
  <2>5. /\ request_counter' \in Nat
        /\ requests' \subseteq Ids
        /\ unsent' \subseteq Ids
    BY <2>1, <2>2
  <2>6. kind' \in [Ids -> Kinds \cup {"none"}]
    BY <2>1, <2>2
  <2>7. deferred' \in [Ids -> {"none", "pending"} \cup Fired]
    BY <2>1, <2>2
  <2>. QED
    BY <2>3, <2>4, <2>5, <2>6, <2>7 DEF connVars, serverVars
<1>3. CASE StartNoop
  <2>1. Message(request_counter, Noop.sends) \in Messages
    BY DEF Message, Messages, Noop, Request, MessageType
  <2>2. toServer' \in Seq(Messages)
    BY <1>3, <2>1 DEF StartNoop, sendMessage
  <2>3. request_counter \in Ids /\ request_counter' = request_counter + 2
    BY <1>3 DEF StartNoop, get_new_request_id
  <2>4. /\ kind' = [kind EXCEPT ![request_counter] = "Noop"]
        /\ deferred' = [deferred EXCEPT ![request_counter] = "callback"]
        /\ "Noop" \in Kinds
    BY <1>3 DEF StartNoop
  <2>5. producer' \in {"none", "handler"}
    BY <1>3 DEF StartNoop, removeProducer
  <2>6. UNCHANGED <<requests, cancelled, received, failed, unsent, connVars,
                    serverVars, toClient>>
    BY <1>3 DEF StartNoop
  <2>7. request_counter' \in Nat
    BY <2>3
  <2>8. kind' \in [Ids -> Kinds \cup {"none"}]
    BY <2>3, <2>4
  <2>9. deferred' \in [Ids -> {"none", "pending"} \cup Fired]
    BY <2>3, <2>4 DEF Fired
  <2>. QED
    BY <2>2, <2>5, <2>6, <2>7, <2>8, <2>9 DEF connVars, serverVars
<1>4. ASSUME NEW i \in Ids, Cancel(i)
      PROVE  TypeOK'
  <2>1. Message(i, "CANCEL_REQUEST") \in Messages
    BY DEF Message, Messages, MessageType
  <2>2. \/ toServer' = toServer
        \/ toServer' = Append(toServer, Message(i, "CANCEL_REQUEST"))
    <3>1. \/ UNCHANGED toServer
          \/ sendMessage(i, "CANCEL_REQUEST")
      BY <1>4 DEF Cancel
    <3>. QED
      BY <3>1 DEF sendMessage
  <2>3. toServer' \in Seq(Messages)
    <3>. HIDE DEF TypeOK
    <3>1. toServer \in Seq(Messages)
      BY DEF TypeOK
    <3>. QED
      BY <2>1, <2>2, <3>1, AppendTyped
  <2>4. cancelled' \subseteq Ids
    BY <1>4 DEF Cancel
  <2>5. UNCHANGED <<request_counter, requests, kind, deferred, received,
                    producer, failed, unsent, connVars, serverVars, toClient>>
    BY <1>4 DEF Cancel
  <2>. QED
    BY <2>3, <2>4, <2>5 DEF connVars, serverVars
<1>5. ASSUME NEW i \in Ids, Abort(i)
      PROVE  TypeOK'
  BY <1>5 DEF Abort, error, cleanup, removeProducer, serverVars, Fired
<1>6. CASE processMessage
  <2>. DEFINE m == Head(toClient)
  <2>1. /\ conn = "up"
        /\ m \in Messages
        /\ Tail(toClient) \in Seq(Messages)
    BY <1>6 DEF processMessage
  <2>. HIDE DEF m
  <2>2. CASE KeepItem(m)
    <3>1. \/ received' = received
          \/ received' = [received EXCEPT ![m.id] = received[m.id] + 1]
      BY <2>2 DEF KeepItem
    <3>2. m.id \in Ids
      BY <2>2 DEF KeepItem, ForRequest
    <3>3. received' \in [Ids -> Nat]
      BY <3>1, <3>2
    <3>. QED
      BY <2>1, <2>2, <3>3 DEF KeepItem, Consume, connVars, serverVars
  <2>3. CASE ItemRaises(m)
    BY <2>1, <2>3 DEF ItemRaises, ForRequest, Consume, error, cleanup,
       removeProducer, connVars, serverVars, Fired
  <2>4. CASE End(m)
    BY <2>1, <2>4 DEF End, ForRequest, Consume, done, cleanup,
       removeProducer, connVars, serverVars, Fired
  <2>5. CASE Refuse(m)
    BY <2>1, <2>5 DEF Refuse, ForRequest, Consume, error, cleanup,
       removeProducer, connVars, serverVars, Fired
  <2>6. CASE Handle(m)
    <3>1. Message(m.id, "PONG") \in Messages
      BY <2>1 DEF Message, Messages, MessageType
    <3>2. \/ toServer' = toServer
          \/ toServer' = Append(toServer, Message(m.id, "PONG"))
      <4>1. \/ UNCHANGED toServer
            \/ sendMessage(m.id, "PONG")
        BY <2>6 DEF Handle
      <4>. QED
        BY <4>1 DEF sendMessage
    <3>3. toServer' \in Seq(Messages)
      <4>. HIDE DEF TypeOK
      <4>1. toServer \in Seq(Messages)
        BY DEF TypeOK
      <4>. QED
        BY <3>1, <3>2, <4>1, AppendTyped
    <3>4. UNCHANGED <<clientVars, connVars, serverVars>> /\ Consume
      BY <2>6 DEF Handle
    <3>. QED
      BY <2>1, <3>3, <3>4 DEF Consume, clientVars, connVars, serverVars
  <2>7. CASE HandleRaises(m)
    BY <2>7 DEF HandleRaises, connectionLost, serverVars, Causes
  <2>8. CASE Unhandled(m)
    BY <2>8 DEF Unhandled, connectionLost, serverVars, Causes
  <2>9. CASE Invalid(m)
    <3>1. Message(m.id, "ERROR") \in Messages
      BY <2>1 DEF Message, Messages, MessageType
    <3>2. toServer' = Append(toServer, Message(m.id, "ERROR"))
      BY <2>1, <2>9 DEF Invalid, sendMessage
    <3>3. toServer' \in Seq(Messages)
      <4>. HIDE DEF TypeOK
      <4>1. toServer \in Seq(Messages)
        BY DEF TypeOK
      <4>. QED
        BY <3>1, <3>2, <4>1, AppendTyped
    <3>4. UNCHANGED <<clientVars, connVars, serverVars>> /\ Consume
      BY <2>9 DEF Invalid
    <3>. QED
      BY <2>1, <3>3, <3>4 DEF Consume, clientVars, connVars, serverVars
  <2>10. CASE InvalidRaises(m)
    BY <2>10 DEF InvalidRaises, connectionLost, serverVars, Causes
  <2>. QED
    BY <1>6, <2>2, <2>3, <2>4, <2>5, <2>6, <2>7, <2>8, <2>9, <2>10
    DEF processMessage, m
<1>7. CASE ConnectionLost
  BY <1>7 DEF ConnectionLost, connectionLost, serverVars, Causes
<1>8. CASE ServerReceive
  BY <1>8 DEF ServerReceive, clientVars, connVars
<1>9. ASSUME NEW i \in Ids, ServerItem(i)
      PROVE  TypeOK'
  <2>1. PICK t \in ProtoItems(kind[i]) : Write(Message(i, t))
    BY <1>9 DEF ServerItem
  <2>2. Message(i, t) \in Messages
    BY ItemsMessageType DEF Message, Messages
  <2>3. toClient' \in Seq(Messages)
    <3>. HIDE DEF TypeOK
    <3>1. toClient \in Seq(Messages)
      BY DEF TypeOK
    <3>. QED
      BY <2>1, <2>2, <3>1, AppendTyped DEF Write
  <2>4. sent' = [sent EXCEPT ![i] = sent[i] + 1]
    BY <1>9 DEF ServerItem
  <2>5. UNCHANGED <<clientVars, connVars, serving, server_counter, toServer>>
    BY <1>9 DEF ServerItem
  <2>6. sent' \in [Ids -> Nat]
    BY <2>4
  <2>. QED
    BY <2>3, <2>5, <2>6 DEF clientVars, connVars
<1>10. ASSUME NEW i \in Ids, ServerEnd(i)
       PROVE  TypeOK'
  <2>1. PICK t \in ServerEnds(kind[i]) \cup {"OK"} : Write(Message(i, t))
    BY <1>10 DEF ServerEnd
  <2>2. Message(i, t) \in Messages
    BY TypesAssumption DEF Message, Messages, MessageType
  <2>3. toClient' \in Seq(Messages)
    <3>. HIDE DEF TypeOK
    <3>1. toClient \in Seq(Messages)
      BY DEF TypeOK
    <3>. QED
      BY <2>1, <2>2, <3>1, AppendTyped DEF Write
  <2>4. serving' = [serving EXCEPT ![i] = "answered"]
    BY <1>10 DEF ServerEnd
  <2>5. UNCHANGED <<clientVars, connVars, sent, server_counter, toServer>>
    BY <1>10 DEF ServerEnd
  <2>. QED
    BY <2>3, <2>4, <2>5 DEF clientVars, connVars
<1>11. ASSUME NEW i \in Ids, ServerError(i)
       PROVE  TypeOK'
  <2>1. Message(i, "ERROR") \in Messages
    BY DEF Message, Messages, MessageType
  <2>2. toClient' \in Seq(Messages)
    <3>. HIDE DEF TypeOK
    <3>1. toClient \in Seq(Messages)
      BY DEF TypeOK
    <3>2. toClient' = Append(toClient, Message(i, "ERROR"))
      BY <1>11 DEF ServerError, Write
    <3>. QED
      BY <2>1, <3>1, <3>2, AppendTyped
  <2>3. serving' = [serving EXCEPT ![i] = "refused"]
    BY <1>11 DEF ServerError
  <2>4. UNCHANGED <<clientVars, connVars, sent, server_counter, toServer>>
    BY <1>11 DEF ServerError
  <2>. QED
    BY <2>2, <2>3, <2>4 DEF clientVars, connVars
<1>12. ASSUME NEW i \in Ids, ServerCancelled(i)
       PROVE  TypeOK'
  <2>1. Message(i, "CANCELLED") \in Messages
    BY DEF Message, Messages, MessageType
  <2>2. toClient' \in Seq(Messages)
    <3>. HIDE DEF TypeOK
    <3>1. toClient \in Seq(Messages)
      BY DEF TypeOK
    <3>2. toClient' = Append(toClient, Message(i, "CANCELLED"))
      BY <1>12 DEF ServerCancelled, Write
    <3>. QED
      BY <2>1, <3>1, <3>2, AppendTyped
  <2>3. serving' = [serving EXCEPT ![i] = "cancelled"]
    BY <1>12 DEF ServerCancelled
  <2>4. UNCHANGED <<clientVars, connVars, sent, server_counter, toServer>>
    BY <1>12 DEF ServerCancelled
  <2>. QED
    BY <2>2, <2>3, <2>4 DEF clientVars, connVars
<1>13. ASSUME NEW i \in Ids, ServerLateBegin(i)
       PROVE  TypeOK'
  <2>1. Message(i, "BEGIN_CONTENT") \in Messages
    BY DEF Message, Messages, MessageType
  <2>2. toClient' \in Seq(Messages)
    <3>. HIDE DEF TypeOK
    <3>1. toClient \in Seq(Messages)
      BY DEF TypeOK
    <3>2. toClient' = Append(toClient, Message(i, "BEGIN_CONTENT"))
      BY <1>13 DEF ServerLateBegin, Write
    <3>. QED
      BY <2>1, <3>1, <3>2, AppendTyped
  <2>3. sent' = [sent EXCEPT ![i] = sent[i] + 1]
    BY <1>13 DEF ServerLateBegin
  <2>4. UNCHANGED <<clientVars, connVars, serving, server_counter, toServer>>
    BY <1>13 DEF ServerLateBegin
  <2>5. sent' \in [Ids -> Nat]
    BY <2>3
  <2>. QED
    BY <2>2, <2>4, <2>5 DEF clientVars, connVars
<1>14. ASSUME NEW t \in Pushes, ServerPush(t)
       PROVE  TypeOK'
  <2>1. Message(server_counter, t) \in Messages
    BY TypesAssumption DEF Message, Messages
  <2>2. toClient' \in Seq(Messages)
    <3>. HIDE DEF TypeOK
    <3>1. toClient \in Seq(Messages)
      BY DEF TypeOK
    <3>2. toClient' = Append(toClient, Message(server_counter, t))
      BY <1>14 DEF ServerPush, Write
    <3>. QED
      BY <2>1, <3>1, <3>2, AppendTyped
  <2>3. server_counter' = server_counter + 2
    BY <1>14 DEF ServerPush
  <2>4. UNCHANGED <<clientVars, connVars, serving, sent, toServer>>
    BY <1>14 DEF ServerPush
  <2>. QED
    BY <2>2, <2>3, <2>4 DEF clientVars, connVars
<1>15. CASE UNCHANGED vars
  BY <1>15 DEF vars, clientVars, connVars, serverVars
<1>. QED
  BY <1>1, <1>2, <1>3, <1>4, <1>5, <1>6, <1>7, <1>8, <1>9, <1>10, <1>11,
     <1>12, <1>13, <1>14, <1>15 DEF Next

(* The state of the handler, of its requests and of the connection stays    *)
(* within its types.                                                        *)
THEOREM TypeCorrect == Spec => []TypeOK
  BY TypeInit, TypeStep, PTL DEF Spec

-----------------------------------------------------------------------------
(* The registry.  Three kinds of step touch it: a request joins, a request  *)
(* leaves, and the connection is lost.                                      *)

Registry ==
  /\ Unused
  /\ AbortsWhenLost
  /\ RegistryExact
  /\ CopyStillRegistered
  /\ ProducerMatchesRegistry

registryVars ==
  <<request_counter, requests, deferred, producer, conn, aborting>>

(* Request.start up to the call of _start. *)
LEMMA Joining ==
  ASSUME TypeOK, Registry, addProducer, get_new_request_id,
         requests' = requests \cup {request_counter},
         deferred' = [deferred EXCEPT ![request_counter] = "pending"],
         UNCHANGED <<conn, aborting>>
  PROVE  Registry'
<1>1. request_counter \in Ids /\ request_counter' = request_counter + 2
  BY DEF get_new_request_id
<1>2. deferred \in [Ids -> {"none", "pending"} \cup Fired]
  BY DEF TypeOK
<1>3. Unused'
  BY <1>1, <1>2, IdsAreNat DEF Registry, Unused
<1>4. RegistryExact'
  BY <1>1, <1>2 DEF Registry, RegistryExact
<1>5. AbortsWhenLost' /\ CopyStillRegistered'
  BY DEF Registry, AbortsWhenLost, CopyStillRegistered
<1>6. ProducerMatchesRegistry'
  BY DEF Registry, ProducerMatchesRegistry, addProducer, TypeOK
<1>. QED  BY <1>3, <1>4, <1>5, <1>6 DEF Registry

(* Request.done and Request.error, on a live connection or in the loop of   *)
(* connectionLost.                                                          *)
LEMMA Leaving ==
  ASSUME TypeOK, Registry, NEW i \in requests, NEW how \in Fired,
         cleanup(i),
         deferred' = [deferred EXCEPT ![i] = how],
         UNCHANGED <<request_counter, conn>>,
         aborting' = aborting \ {i}
  PROVE  Registry'
<1>1. deferred \in [Ids -> {"none", "pending"} \cup Fired] /\ i \in Ids
  BY DEF TypeOK
<1>2. how # "pending"
  BY DEF Fired
<1>3. deferred[i] = "pending"
  BY DEF Registry, RegistryExact
<1>4. Unused'
  BY <1>1, <1>3 DEF Registry, Unused
<1>5. RegistryExact'
  BY <1>1, <1>2 DEF Registry, RegistryExact, cleanup
<1>6. AbortsWhenLost' /\ CopyStillRegistered'
  BY DEF Registry, AbortsWhenLost, CopyStillRegistered, cleanup
<1>7. ProducerMatchesRegistry'
  BY DEF Registry, ProducerMatchesRegistry, cleanup, removeProducer
<1>. QED  BY <1>4, <1>5, <1>6, <1>7 DEF Registry

(* connectionLost up to its loop. *)
LEMMA Losing ==
  ASSUME Registry, NEW why, connectionLost(why),
         UNCHANGED <<request_counter, requests, deferred>>
  PROVE  Registry'
  BY DEF Registry, Unused, AbortsWhenLost, RegistryExact,
     CopyStillRegistered, ProducerMatchesRegistry, connectionLost

LEMMA RegistryStep == TypeOK /\ Registry /\ [Next]_vars => Registry'
<1>. SUFFICES ASSUME TypeOK, Registry, [Next]_vars
              PROVE  Registry'
  OBVIOUS
<1>0. ASSUME UNCHANGED registryVars
      PROVE  Registry'
  BY <1>0 DEF registryVars, Registry, Unused, AbortsWhenLost, RegistryExact,
     CopyStillRegistered, ProducerMatchesRegistry
<1>1. ASSUME NEW k \in Kinds, Start(k)
      PROVE  Registry'
  BY <1>1, Joining DEF Start, connVars
<1>2. ASSUME NEW k \in Kinds, StartRaises(k)
      PROVE  Registry'
  BY <1>2, Joining DEF StartRaises, connVars
<1>3. CASE StartNoop
  <2>1. /\ request_counter \in Ids
        /\ request_counter' = request_counter + 2
        /\ deferred' = [deferred EXCEPT ![request_counter] = "callback"]
        /\ UNCHANGED <<requests, conn, aborting>>
    BY <1>3 DEF StartNoop, get_new_request_id, connVars
  <2>2. deferred \in [Ids -> {"none", "pending"} \cup Fired]
    BY DEF TypeOK
  <2>3. Unused'
    BY <2>1, <2>2, IdsAreNat DEF Registry, Unused
  <2>4. deferred[request_counter] # "pending"
    BY <2>1, IdsAreNat DEF Registry, Unused
  <2>5. RegistryExact'
    BY <2>1, <2>2, <2>4 DEF Registry, RegistryExact
  <2>6. AbortsWhenLost' /\ CopyStillRegistered'
    BY <2>1 DEF Registry, AbortsWhenLost, CopyStillRegistered
  <2>7. ProducerMatchesRegistry'
    BY <1>3, <2>1 DEF StartNoop, removeProducer, Registry,
       ProducerMatchesRegistry
  <2>. QED  BY <2>3, <2>5, <2>6, <2>7 DEF Registry
<1>4. ASSUME NEW i \in Ids, Cancel(i)
      PROVE  Registry'
  BY <1>0, <1>4 DEF Cancel, registryVars, connVars
<1>5. ASSUME NEW i \in Ids, Abort(i)
      PROVE  Registry'
  <2>1. i \in requests
    BY <1>5 DEF Abort, Registry, CopyStillRegistered
  <2>. QED
    BY <1>5, <2>1, Leaving DEF Abort, error, Fired
<1>6. CASE processMessage
  <2>. DEFINE m == Head(toClient)
  <2>1. aborting = {}
    BY <1>6 DEF processMessage, Registry, AbortsWhenLost
  <2>. HIDE DEF m
  <2>2. CASE KeepItem(m)
    BY <1>0, <2>2 DEF KeepItem, registryVars, connVars
  <2>3. CASE ItemRaises(m)
    BY <2>1, <2>3, Leaving DEF ItemRaises, ForRequest, error, connVars, Fired
  <2>4. CASE End(m)
    BY <2>1, <2>4, Leaving DEF End, ForRequest, done, connVars, Fired
  <2>5. CASE Refuse(m)
    BY <2>1, <2>5, Leaving DEF Refuse, ForRequest, error, connVars, Fired
  <2>6. CASE Handle(m)
    BY <1>0, <2>6 DEF Handle, registryVars, clientVars, connVars
  <2>7. CASE HandleRaises(m)
    BY <2>7, Losing DEF HandleRaises
  <2>8. CASE Unhandled(m)
    BY <2>8, Losing DEF Unhandled
  <2>9. CASE Invalid(m)
    BY <1>0, <2>9 DEF Invalid, registryVars, clientVars, connVars
  <2>10. CASE InvalidRaises(m)
    BY <2>10, Losing DEF InvalidRaises
  <2>. QED
    BY <1>6, <2>2, <2>3, <2>4, <2>5, <2>6, <2>7, <2>8, <2>9, <2>10
    DEF processMessage, m
<1>7. CASE ConnectionLost
  BY <1>7, Losing DEF ConnectionLost
<1>8. CASE ServerReceive
  BY <1>0, <1>8 DEF ServerReceive, registryVars, clientVars, connVars
<1>9. ASSUME NEW i \in Ids, ServerItem(i)
      PROVE  Registry'
  BY <1>0, <1>9 DEF ServerItem, registryVars, clientVars, connVars
<1>10. ASSUME NEW i \in Ids, ServerEnd(i)
       PROVE  Registry'
  BY <1>0, <1>10 DEF ServerEnd, registryVars, clientVars, connVars
<1>11. ASSUME NEW i \in Ids, ServerError(i)
       PROVE  Registry'
  BY <1>0, <1>11 DEF ServerError, registryVars, clientVars, connVars
<1>12. ASSUME NEW i \in Ids, ServerCancelled(i)
       PROVE  Registry'
  BY <1>0, <1>12 DEF ServerCancelled, registryVars, clientVars, connVars
<1>13. ASSUME NEW i \in Ids, ServerLateBegin(i)
       PROVE  Registry'
  BY <1>0, <1>13 DEF ServerLateBegin, registryVars, clientVars, connVars
<1>14. ASSUME NEW t \in Pushes, ServerPush(t)
       PROVE  Registry'
  BY <1>0, <1>14 DEF ServerPush, registryVars, clientVars, connVars
<1>15. CASE UNCHANGED vars
  BY <1>0, <1>15 DEF vars, registryVars, clientVars, connVars
<1>. QED
  BY <1>1, <1>2, <1>3, <1>4, <1>5, <1>6, <1>7, <1>8, <1>9, <1>10, <1>11,
     <1>12, <1>13, <1>14, <1>15 DEF Next

LEMMA RegistryInit == Init => Registry
  BY DEF Init, Registry, Unused, AbortsWhenLost, RegistryExact,
     CopyStillRegistered, ProducerMatchesRegistry

(* The inductive invariant holds in every reachable state: the registry     *)
(* mirrors the deferreds, connectionLost can finish its loop, and the       *)
(* transport has a producer exactly when it needs one.                      *)
THEOREM HandlerCorrect == Spec => []IndInv
<1>1. TypeOK /\ Registry <=> IndInv
  BY DEF Registry, IndInv
<1>. QED  BY <1>1, TypeInit, TypeStep, RegistryInit, RegistryStep, PTL DEF Spec

(* The registry holds exactly the requests whose deferred has not fired. *)
THEOREM RegistryIsExact == Spec => []RegistryExact
<1>1. IndInv => RegistryExact
  BY DEF IndInv
<1>. QED  BY <1>1, HandlerCorrect, PTL

(* No KeyError in the loop of connectionLost, whatever the errbacks do. *)
THEOREM ConnectionLostFinishes == Spec => []CopyStillRegistered
<1>1. IndInv => CopyStillRegistered
  BY DEF IndInv
<1>. QED  BY <1>1, HandlerCorrect, PTL

(* The handler is its transport's producer exactly while requests are       *)
(* outstanding on a live connection.                                        *)
THEOREM ProducerIsRight == Spec => []ProducerMatchesRegistry
<1>1. IndInv => ProducerMatchesRegistry
  BY DEF IndInv
<1>. QED  BY <1>1, HandlerCorrect, PTL

-----------------------------------------------------------------------------
(* The result of a deferred is changed by no step. *)
LEMMA FiredStays ==
  ASSUME IndInv, Next, NEW j \in Ids, deferred[j] \in Fired
  PROVE  deferred'[j] = deferred[j]
<1>1. /\ deferred \in [Ids -> {"none", "pending"} \cup Fired]
      /\ request_counter \in Nat
  BY DEF IndInv, TypeOK
<1>2. deferred[j] \notin {"none", "pending"}
  BY DEF Fired
<1>3. j \notin requests
  BY <1>2 DEF IndInv, RegistryExact
<1>4. j # request_counter
  BY <1>1, <1>2 DEF IndInv, Unused
<1>5. ASSUME NEW k \in Kinds, Start(k) \/ StartRaises(k)
      PROVE  deferred'[j] = deferred[j]
  BY <1>1, <1>4, <1>5 DEF Start, StartRaises
<1>6. CASE StartNoop
  BY <1>1, <1>4, <1>6 DEF StartNoop
<1>7. ASSUME NEW i \in Ids, Abort(i)
      PROVE  deferred'[j] = deferred[j]
  <2>1. i \in requests
    BY <1>7 DEF Abort, IndInv, CopyStillRegistered
  <2>. QED
    BY <1>1, <1>3, <1>7, <2>1 DEF Abort, error
<1>8. CASE processMessage
  <2>. DEFINE m == Head(toClient)
  <2>1. ASSUME m.id \in requests, NEW how,
               deferred' = [deferred EXCEPT ![m.id] = how]
        PROVE  deferred'[j] = deferred[j]
    BY <1>1, <1>3, <2>1
  <2>. HIDE DEF m
  <2>2. CASE ItemRaises(m) \/ End(m) \/ Refuse(m)
    BY <2>1, <2>2 DEF ItemRaises, End, Refuse, ForRequest, error, done
  <2>3. CASE KeepItem(m) \/ Handle(m) \/ HandleRaises(m) \/ Unhandled(m)
             \/ Invalid(m) \/ InvalidRaises(m)
    BY <2>3 DEF KeepItem, Handle, HandleRaises, Unhandled, Invalid,
       InvalidRaises, clientVars
  <2>. QED
    BY <1>8, <2>2, <2>3 DEF processMessage, m
<1>9. CASE \/ ConnectionLost
           \/ ServerReceive
           \/ \E i \in Ids : \/ Cancel(i) \/ ServerItem(i) \/ ServerEnd(i)
                             \/ ServerError(i) \/ ServerCancelled(i)
                             \/ ServerLateBegin(i)
           \/ \E t \in Pushes : ServerPush(t)
  BY <1>9 DEF ConnectionLost, ServerReceive, Cancel, ServerItem, ServerEnd,
     ServerError, ServerCancelled, ServerLateBegin, ServerPush, clientVars
<1>. QED  BY <1>5, <1>6, <1>7, <1>8, <1>9 DEF Next

(* Every deferred fires at most once: neither done nor error can raise      *)
(* AlreadyCalledError.                                                      *)
THEOREM DeferredsFireOnce == Spec => FiresOnce
<1>1. IndInv /\ [Next]_vars =>
        [\A i \in Ids : deferred[i] \in Fired => deferred'[i] = deferred[i]]_vars
  BY FiredStays
<1>. QED  BY <1>1, HandlerCorrect, PTL DEF Spec, FiresOnce

-----------------------------------------------------------------------------
(* What the docstring of connectionLost says, "Abort any outstanding        *)
(* requests when we lose our connection", holds as long as the errbacks it  *)
(* calls start no request.  (The run of LostLeavesNoRequest shows one that  *)
(* does.)                                                                   *)

QuietErrbacks == [][aborting # {} => requests' \subseteq requests]_vars

(* The copy is the registry until the loop is over. *)
CopyIsAll == aborting # {} => requests = aborting

LEMMA CopyStep ==
  ASSUME IndInv, CopyIsAll, [Next]_vars,
         aborting # {} => requests' \subseteq requests
  PROVE  /\ CopyIsAll'
         /\ aborting # {} /\ aborting' = {} => requests' = {}
<1>0. ASSUME UNCHANGED <<requests, aborting>>
      PROVE  CopyIsAll' /\ ~(aborting # {} /\ aborting' = {})
  BY <1>0 DEF CopyIsAll
<1>1. ASSUME requests' = requests \cup {request_counter}, aborting' = aborting,
             request_counter \in Ids
      PROVE  CopyIsAll' /\ ~(aborting # {} /\ aborting' = {})
  <2>1. request_counter \in Nat
    BY DEF IndInv, TypeOK
  <2>2. deferred[request_counter] = "none"
    BY <1>1, <2>1 DEF IndInv, Unused
  <2>3. request_counter \notin requests
    BY <2>2 DEF IndInv, RegistryExact
  <2>4. aborting = {}
    BY <1>1, <2>3
  <2>. QED  BY <1>1, <2>4 DEF CopyIsAll
<1>2. ASSUME NEW why, connectionLost(why), requests' = requests, conn = "up"
      PROVE  CopyIsAll' /\ ~(aborting # {} /\ aborting' = {})
  BY <1>2 DEF connectionLost, CopyIsAll, IndInv, AbortsWhenLost
<1>3. ASSUME NEW k \in Kinds, Start(k)
      PROVE  CopyIsAll' /\ ~(aborting # {} /\ aborting' = {})
  BY <1>1, <1>3 DEF Start, get_new_request_id, connVars
<1>4. ASSUME NEW k \in Kinds, StartRaises(k)
      PROVE  CopyIsAll' /\ ~(aborting # {} /\ aborting' = {})
  BY <1>1, <1>4 DEF StartRaises, get_new_request_id, connVars
<1>5. ASSUME NEW i \in Ids, Abort(i)
      PROVE  CopyIsAll' /\ (aborting' = {} => requests' = {})
  <2>1. requests = aborting
    BY <1>5 DEF Abort, CopyIsAll
  <2>2. requests' = requests \ {i} /\ aborting' = aborting \ {i}
    BY <1>5 DEF Abort, error, cleanup
  <2>. QED  BY <2>1, <2>2 DEF CopyIsAll
<1>6. CASE processMessage
  <2>. DEFINE m == Head(toClient)
  <2>1. conn = "up" /\ aborting = {}
    BY <1>6 DEF processMessage, IndInv, AbortsWhenLost
  <2>. HIDE DEF m
  <2>2. CASE HandleRaises(m) \/ Unhandled(m) \/ InvalidRaises(m)
    BY <1>2, <2>1, <2>2 DEF HandleRaises, Unhandled, InvalidRaises
  <2>3. CASE ItemRaises(m) \/ End(m) \/ Refuse(m)
    BY <2>1, <2>3 DEF ItemRaises, End, Refuse, connVars, CopyIsAll
  <2>4. CASE KeepItem(m) \/ Handle(m) \/ Invalid(m)
    BY <2>1, <2>4 DEF KeepItem, Handle, Invalid, clientVars, connVars, CopyIsAll
  <2>. QED  BY <1>6, <2>2, <2>3, <2>4 DEF processMessage, m
<1>7. CASE ConnectionLost
  BY <1>2, <1>7 DEF ConnectionLost
<1>8. CASE \/ StartNoop \/ ServerReceive
           \/ \E i \in Ids : \/ Cancel(i) \/ ServerItem(i) \/ ServerEnd(i)
                             \/ ServerError(i) \/ ServerCancelled(i)
                             \/ ServerLateBegin(i)
           \/ \E t \in Pushes : ServerPush(t)
           \/ UNCHANGED vars
  BY <1>0, <1>8 DEF StartNoop, ServerReceive, Cancel, ServerItem, ServerEnd,
     ServerError, ServerCancelled, ServerLateBegin, ServerPush, clientVars,
     connVars, vars
<1>. QED  BY <1>3, <1>4, <1>5, <1>6, <1>7, <1>8 DEF Next

(* When connectionLost returns no request is left in the registry, if no    *)
(* errback it called has put one there.                                     *)
THEOREM QuietLossLeavesNone == Spec /\ QuietErrbacks => LostLeavesNoRequest
<1>1. Init => CopyIsAll
  BY DEF Init, CopyIsAll
<1>2. /\ IndInv /\ CopyIsAll /\ [Next]_vars
      /\ [aborting # {} => requests' \subseteq requests]_vars
      => CopyIsAll'
  <2>. SUFFICES ASSUME IndInv, CopyIsAll, [Next]_vars,
                       [aborting # {} => requests' \subseteq requests]_vars
                PROVE  CopyIsAll'
    OBVIOUS
  <2>1. CASE UNCHANGED vars
    BY <2>1 DEF vars, clientVars, connVars, CopyIsAll
  <2>2. CASE aborting # {} => requests' \subseteq requests
    BY <2>2, CopyStep
  <2>. QED  BY <2>1, <2>2
<1>3. /\ IndInv /\ CopyIsAll /\ [Next]_vars
      /\ [aborting # {} => requests' \subseteq requests]_vars
      => [aborting # {} /\ aborting' = {} => requests' = {}]_vars
  <2>. SUFFICES ASSUME IndInv, CopyIsAll, [Next]_vars,
                       aborting # {} => requests' \subseteq requests
                PROVE  aborting # {} /\ aborting' = {} => requests' = {}
    OBVIOUS
  <2>. QED  BY CopyStep
<1>. QED
  BY <1>1, <1>2, <1>3, HandlerCorrect, PTL
  DEF Spec, QuietErrbacks, LostLeavesNoRequest

-----------------------------------------------------------------------------
(* The refinement: every step of the handler is a step of Promise or does   *)
(* not show in the deferreds.                                               *)

promiseVars == <<requests, deferred, conn>>

LEMMA HiddenStep ==
  ASSUME UNCHANGED promiseVars
  PROVE  UNCHANGED Promised!vars
BY DEF promiseVars, Promised!vars

(* A request is made: its id is in no use, by Unused. *)
LEMMA StartIsAsk ==
  ASSUME IndInv, NEW k \in Kinds, Start(k) \/ StartRaises(k)
  PROVE  Promised!Next
<1>1. /\ request_counter \in Ids
      /\ requests' = requests \cup {request_counter}
      /\ deferred' = [deferred EXCEPT ![request_counter] = "pending"]
      /\ conn' = conn
  BY DEF Start, StartRaises, get_new_request_id, connVars
<1>2. deferred[request_counter] = "none"
  BY <1>1, IdsAreNat DEF IndInv, Unused
<1>3. Promised!Ask(request_counter)
  BY <1>1, <1>2 DEF Promised!Ask
<1> QED
  BY <1>1, <1>3 DEF Promised!Next

LEMMA NoopIsPost == IndInv /\ StartNoop => Promised!Next
<1> SUFFICES ASSUME IndInv, StartNoop PROVE Promised!Next
  OBVIOUS
<1>1. /\ request_counter \in Ids
      /\ deferred' = [deferred EXCEPT ![request_counter] = "callback"]
      /\ requests' = requests /\ conn' = conn
  BY DEF StartNoop, get_new_request_id, connVars
<1>2. deferred[request_counter] = "none"
  BY <1>1, IdsAreNat DEF IndInv, Unused
<1>3. Promised!Post(request_counter)
  BY <1>1, <1>2 DEF Promised!Post
<1> QED
  BY <1>1, <1>3 DEF Promised!Next

(* done and error settle a request that is open. *)
LEMMA SettleStep ==
  ASSUME NEW i \in requests, NEW how,
         requests' = requests \ {i},
         deferred' = [deferred EXCEPT ![i] = how],
         conn' = conn
  PROVE  Promised!Settle(i, how)
BY DEF Promised!Settle

LEMMA AbortIsAbort ==
  ASSUME IndInv, NEW i \in Ids, Abort(i)
  PROVE  Promised!Next
<1>1. i \in aborting /\ conn' = conn
  BY DEF Abort
<1>2. i \in requests /\ conn # "up"
  BY <1>1 DEF IndInv, CopyStillRegistered, AbortsWhenLost
<1>3. requests' = requests \ {i} /\ deferred' = [deferred EXCEPT ![i] = "lost"]
  BY DEF Abort, error, cleanup
<1>4. Promised!Abort(i)
  BY <1>1, <1>2, <1>3, SettleStep DEF Promised!Abort
<1> QED
  BY <1>4 DEF Promised!Next

LEMMA LosingIsLose ==
  ASSUME conn = "up", NEW why, connectionLost(why), UNCHANGED <<requests, deferred>>
  PROVE  Promised!Next
<1>1. Promised!Lose
  BY DEF connectionLost, Promised!Lose
<1> QED
  BY <1>1 DEF Promised!Next

LEMMA MessageIsAnswer ==
  ASSUME IndInv, processMessage
  PROVE  Promised!Next \/ UNCHANGED Promised!vars
<1> DEFINE m == Head(toClient)
<1>1. conn = "up"
  BY DEF processMessage
<1> HIDE DEF m
<1>2. ASSUME m.id \in requests, NEW how \in {"callback", "errback"},
             requests' = requests \ {m.id},
             deferred' = [deferred EXCEPT ![m.id] = how],
             conn' = conn
      PROVE  Promised!Next
  <2>1. m.id \in Ids
    BY <1>2 DEF IndInv, TypeOK
  <2>2. Promised!Settle(m.id, how)
    BY <1>2, SettleStep
  <2>3. Promised!Answer(m.id)
    BY <1>1, <2>2 DEF Promised!Answer
  <2> QED
    BY <2>1, <2>3 DEF Promised!Next
<1>3. CASE ItemRaises(m) \/ Refuse(m)
  BY <1>2, <1>3 DEF ItemRaises, Refuse, ForRequest, error, cleanup, connVars
<1>4. CASE End(m)
  BY <1>2, <1>4 DEF End, ForRequest, done, cleanup, connVars
<1>5. CASE KeepItem(m) \/ Handle(m) \/ Invalid(m)
  BY <1>5, HiddenStep
  DEF KeepItem, Handle, Invalid, clientVars, connVars, promiseVars
<1>6. CASE HandleRaises(m) \/ Unhandled(m) \/ InvalidRaises(m)
  BY <1>1, <1>6, LosingIsLose DEF HandleRaises, Unhandled, InvalidRaises
<1> QED
  BY <1>3, <1>4, <1>5, <1>6 DEF processMessage, m

LEMMA PromiseStep ==
  IndInv /\ [Next]_vars => [Promised!Next]_(Promised!vars)
<1> SUFFICES ASSUME IndInv, [Next]_vars
             PROVE  Promised!Next \/ UNCHANGED Promised!vars
  OBVIOUS
<1>1. CASE \E k \in Kinds : Start(k) \/ StartRaises(k)
  BY <1>1, StartIsAsk
<1>2. CASE StartNoop
  BY <1>2, NoopIsPost
<1>3. CASE \E i \in Ids : Abort(i)
  BY <1>3, AbortIsAbort
<1>4. CASE processMessage
  BY <1>4, MessageIsAnswer
<1>5. CASE ConnectionLost
  BY <1>5, LosingIsLose DEF ConnectionLost
<1>6. CASE \/ ServerReceive
           \/ \E i \in Ids : \/ Cancel(i) \/ ServerItem(i) \/ ServerEnd(i)
                             \/ ServerError(i) \/ ServerCancelled(i)
                             \/ ServerLateBegin(i)
           \/ \E t \in Pushes : ServerPush(t)
           \/ UNCHANGED vars
  <2>1. UNCHANGED promiseVars
    BY <1>6 DEF ServerReceive, Cancel, ServerItem, ServerEnd, ServerError,
       ServerCancelled, ServerLateBegin, ServerPush, clientVars, connVars,
       promiseVars, vars
  <2> QED
    BY <2>1, HiddenStep
<1> QED
  BY <1>1, <1>2, <1>3, <1>4, <1>5, <1>6 DEF Next

(* The handler implements Promise: every request gets one result, from an   *)
(* answer while the connection is up, from the loss when it is not.         *)
THEOREM HandlerKeepsPromise == Spec => KeepsPromise
<1>1. Init => Promised!Init
  BY DEF Init, Promised!Init
<1>2. IndInv /\ [Next]_vars => [Promised!Next]_(Promised!vars)
  BY PromiseStep
<1> QED
  BY <1>1, <1>2, HandlerCorrect, PTL DEF Spec, KeepsPromise, Promised!Spec
=============================================================================
