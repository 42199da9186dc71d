---------------------------- MODULE AnswersProofs ----------------------------
(* Proofs about what RequestHandler makes of the server's answers, for any  *)
(* request classes, any order of events and any bounds: a request reports   *)
(* success only when the server finished it, and with all of its items; it  *)
(* reports failure only when the server refused it, but for the two classes *)
(* that take a documented answer for an error; no late answer to it         *)
(* takes the connection down, unless a callback of the user raised; and     *)
(* while it is outstanding its answer is on its way.                        *)
(*                                                                          *)
(* The argument follows a request through the two queues: it is asked once, *)
(* so the server opens it once, so its final answer is written once, and    *)
(* what is behind that answer in the queue can only be a late permission to *)
(* upload.                                                                  *)

EXTENDS RequestHandlerProofs, FiniteSetTheorems, FunctionTheorems,
        SequenceTheorems

-----------------------------------------------------------------------------
(* The table of request classes: what LegalEnds and ProtoItems allow the    *)
(* server to answer is what the class keeps or ends with, except for the    *)
(* documented answers to the two deletions.                                 *)

ItemTypes ==
  {"NODE_ATTR", "BYTES", "BEGIN_CONTENT", "NODE_STATE", "SHARES_INFO",
   "VOLUMES_INFO", "DELTA_INFO", "PUBLIC_FILE_INFO"}

MisreadEnds(k) ==
  IF k \in Misread THEN {"SHARE_DELETED", "VOLUME_DELETED"} ELSE {}

Understands(k, c) ==
  /\ ProtoItems(k) \subseteq c.items
  /\ c.items \subseteq ItemTypes
  /\ \A t \in c.ends :
       t \notin ItemTypes /\ t \notin {"ERROR", "CANCELLED", "INVALID"}
  /\ k # "Noop" => LegalEnds(k) \subseteq c.ends \cup MisreadEnds(k)
  /\ c.cancels => "OK" \in c.ends
  /\ k # "Noop" => c.sends \notin {"CANCEL_REQUEST", "NOOP", "PONG", "ERROR"}

(* Apart from these no legal answer of a server falls through to            *)
(* _default_process_message, in any of the 24 classes.                      *)
LEMMA ClassesUnderstand == \A k \in AllKinds : Understands(k, Class[k])
<1>. USE DEF Understands, ProtoItems, ItemTypes, LegalEnds, ProtoEnds,
     Misread, MisreadEnds,
     Request, CancellableRequest
<1>1. Understands("Ping", Ping)
  BY DEF Ping
<1>2. Understands("Noop", Noop)
  BY DEF Noop
<1>3. Understands("GetContent", GetContent)
  BY DEF GetContent
<1>4. Understands("PutContent", PutContent)
  BY DEF PutContent
<1>5. Understands("ListShares", ListShares)
  BY DEF ListShares
<1>6. Understands("CreateShare", CreateShare)
  BY DEF CreateShare
<1>7. Understands("AcceptShare", AcceptShare)
  BY DEF AcceptShare
<1>8. Understands("DeleteShare", DeleteShare)
  BY DEF DeleteShare
<1>9. Understands("CreateUDF", CreateUDF)
  BY DEF CreateUDF
<1>10. Understands("ListVolumes", ListVolumes)
  BY DEF ListVolumes
<1>11. Understands("DeleteVolume", DeleteVolume)
  BY DEF DeleteVolume
<1>12. Understands("Unlink", Unlink)
  BY DEF Unlink
<1>13. Understands("ChangePublicAccess", ChangePublicAccess)
  BY DEF ChangePublicAccess
<1>14. Understands("ListPublicFiles", ListPublicFiles)
  BY DEF ListPublicFiles
<1>15. Understands("Move", Move)
  BY DEF Move
<1>16. Understands("Query", Query)
  BY DEF Query
<1>17. Understands("MakeDir", MakeDir)
  BY DEF MakeDir
<1>18. Understands("MakeFile", MakeFile)
  BY DEF MakeFile
<1>19. Understands("GetDelta", GetDelta)
  BY DEF GetDelta
<1>20. Understands("ProtocolVersion", ProtocolVersion)
  BY DEF ProtocolVersion
<1>21. Understands("Authenticate", Authenticate)
  BY DEF Authenticate
<1>22. Understands("QuerySetCaps", QuerySetCaps)
  BY DEF QuerySetCaps
<1>23. Understands("FreeSpaceInquiry", FreeSpaceInquiry)
  BY DEF FreeSpaceInquiry
<1>24. Understands("AccountInquiry", AccountInquiry)
  BY DEF AccountInquiry
<1>25. /\ AllKinds = {"Ping", "Noop", "GetContent", "PutContent",
        "ListShares", "CreateShare", "AcceptShare", "DeleteShare",
        "CreateUDF", "ListVolumes", "DeleteVolume", "Unlink",
        "ChangePublicAccess", "ListPublicFiles", "Move", "Query", "MakeDir",
        "MakeFile", "GetDelta", "ProtocolVersion", "Authenticate",
        "QuerySetCaps", "FreeSpaceInquiry", "AccountInquiry"}
      /\ Class["Ping"] = Ping
      /\ Class["Noop"] = Noop
      /\ Class["GetContent"] = GetContent
      /\ Class["PutContent"] = PutContent
      /\ Class["ListShares"] = ListShares
      /\ Class["CreateShare"] = CreateShare
      /\ Class["AcceptShare"] = AcceptShare
      /\ Class["DeleteShare"] = DeleteShare
      /\ Class["CreateUDF"] = CreateUDF
      /\ Class["ListVolumes"] = ListVolumes
      /\ Class["DeleteVolume"] = DeleteVolume
      /\ Class["Unlink"] = Unlink
      /\ Class["ChangePublicAccess"] = ChangePublicAccess
      /\ Class["ListPublicFiles"] = ListPublicFiles
      /\ Class["Move"] = Move
      /\ Class["Query"] = Query
      /\ Class["MakeDir"] = MakeDir
      /\ Class["MakeFile"] = MakeFile
      /\ Class["GetDelta"] = GetDelta
      /\ Class["ProtocolVersion"] = ProtocolVersion
      /\ Class["Authenticate"] = Authenticate
      /\ Class["QuerySetCaps"] = QuerySetCaps
      /\ Class["FreeSpaceInquiry"] = FreeSpaceInquiry
      /\ Class["AccountInquiry"] = AccountInquiry
  BY DEF AllKinds, Class
<1>. HIDE DEF Understands
<1>. QED
  BY <1>1, <1>2, <1>3, <1>4, <1>5, <1>6, <1>7, <1>8, <1>9, <1>10, <1>11,
          <1>12, <1>13, <1>14, <1>15, <1>16, <1>17, <1>18, <1>19, <1>20,
          <1>21, <1>22, <1>23, <1>24, <1>25

-----------------------------------------------------------------------------
(* The queues: what is in one, and what comes before what. *)

Contains(q, m) == \E n \in 1 .. Len(q) : q[n] = m
Precedes(q, m, x) ==
  \E n, p \in 1 .. Len(q) : n < p /\ q[n] = m /\ q[p] = x

(* What is left of a queue when messages have been taken from its front, or *)
(* when connectionLost has emptied it.                                      *)
LeftOf(rest, q) ==
  /\ \A m : Contains(rest, m) => Contains(q, m)
  /\ \A m, x : Precedes(rest, m, x) => Precedes(q, m, x)

LEMMA NothingLeft == \A q : LeftOf(<<>>, q) /\ LeftOf(q, q)
  BY EmptySeq DEF LeftOf, Contains, Precedes

LEMMA TailLeft ==
  ASSUME NEW q \in Seq(Messages), q # <<>>
  PROVE  /\ Head(q) \in Messages /\ Contains(q, Head(q))
         /\ Tail(q) \in Seq(Messages) /\ LeftOf(Tail(q), q)
         /\ \A m : Contains(Tail(q), m) => Precedes(q, Head(q), m)
<1>1. /\ Head(q) = q[1] /\ Head(q) \in Messages /\ Tail(q) \in Seq(Messages)
      /\ Len(Tail(q)) = Len(q) - 1
      /\ \A n \in 1 .. Len(Tail(q)) : Tail(q)[n] = q[n + 1]
  BY HeadTailProperties
<1>2. Len(q) \in Nat /\ Len(q) >= 1
  BY LenProperties, EmptySeq
<1>3. 1 \in 1 .. Len(q) /\ \A n \in 1 .. Len(Tail(q)) : n + 1 \in 2 .. Len(q)
  BY <1>1, <1>2
<1>4. Contains(q, Head(q))
  BY <1>1, <1>3 DEF Contains
<1>5. ASSUME NEW m, Contains(Tail(q), m)
      PROVE  Contains(q, m) /\ Precedes(q, Head(q), m)
  <2>1. PICK n \in 1 .. Len(Tail(q)) : Tail(q)[n] = m
    BY <1>5 DEF Contains
  <2>2. /\ n + 1 \in 1 .. Len(q) /\ 1 < n + 1
        /\ q[1] = Head(q) /\ q[n + 1] = m
    BY <1>1, <1>2, <2>1
  <2>. QED  BY <1>3, <2>2 DEF Contains, Precedes
<1>6. ASSUME NEW m, NEW x, Precedes(Tail(q), m, x)
      PROVE  Precedes(q, m, x)
  <2>1. PICK n \in 1 .. Len(Tail(q)), p \in 1 .. Len(Tail(q)) :
          n < p /\ Tail(q)[n] = m /\ Tail(q)[p] = x
    BY <1>6 DEF Precedes
  <2>2. /\ n + 1 \in 1 .. Len(q) /\ p + 1 \in 1 .. Len(q) /\ n + 1 < p + 1
        /\ q[n + 1] = m /\ q[p + 1] = x
    BY <1>1, <1>2, <2>1
  <2>. QED  BY <2>2 DEF Precedes
<1>. QED  BY <1>1, <1>4, <1>5, <1>6 DEF LeftOf

LEMMA AppendAdds ==
  ASSUME NEW q \in Seq(Messages), NEW y \in Messages
  PROVE  /\ Append(q, y) \in Seq(Messages)
         /\ \A m : Contains(Append(q, y), m) => Contains(q, m) \/ m = y
         /\ \A m, x : Precedes(Append(q, y), m, x)
                        => Precedes(q, m, x) \/ (Contains(q, m) /\ x = y)
<1>1. /\ Append(q, y) \in Seq(Messages)
      /\ Len(Append(q, y)) = Len(q) + 1
      /\ \A n \in 1 .. Len(q) : Append(q, y)[n] = q[n]
      /\ Append(q, y)[Len(q) + 1] = y
  BY AppendProperties
<1>2. Len(q) \in Nat
  BY LenProperties
<1>3. ASSUME NEW m, Contains(Append(q, y), m)
      PROVE  Contains(q, m) \/ m = y
  <2>1. PICK n \in 1 .. Len(q) + 1 : Append(q, y)[n] = m
    BY <1>1, <1>3 DEF Contains
  <2>2. n \in 1 .. Len(q) \/ n = Len(q) + 1
    BY <1>2
  <2>. QED  BY <1>1, <2>1, <2>2 DEF Contains
<1>4. ASSUME NEW m, NEW x, Precedes(Append(q, y), m, x)
      PROVE  Precedes(q, m, x) \/ (Contains(q, m) /\ x = y)
  <2>1. PICK n \in 1 .. Len(q) + 1, p \in 1 .. Len(q) + 1 :
          n < p /\ Append(q, y)[n] = m /\ Append(q, y)[p] = x
    BY <1>1, <1>4 DEF Precedes
  <2>2. n \in 1 .. Len(q) /\ (p \in 1 .. Len(q) \/ p = Len(q) + 1)
    BY <1>2, <2>1
  <2>. QED  BY <1>1, <2>1, <2>2 DEF Contains, Precedes
<1>. QED  BY <1>1, <1>3, <1>4

-----------------------------------------------------------------------------
(* Requests on their way to the server.  Ids tell who asked: the client's   *)
(* are odd, the server's even.  A request is taken when it has been started *)
(* and is not over at once, as a Noop is.                                   *)

Taken(i) == i \in Ids /\ deferred[i] # "none" /\ kind[i] \in Kinds \ {"Noop"}

Parity ==
  /\ request_counter % 2 = 1 /\ server_counter % 2 = 0
  /\ \A i \in Ids : deferred[i] # "none" => i % 2 = 1

(* The messages by which the server opens a request. *)
Opens(m) == m.type \notin {"CANCEL_REQUEST", "NOOP", "PONG", "ERROR"}

(* No request is opened twice, and only what can be cancelled is. *)
OpensOnce ==
  \A m \in Messages : Contains(toServer, m) =>
    /\ Opens(m) => Taken(m.id) /\ serving[m.id] = "none"
    /\ m.type = "CANCEL_REQUEST" => Taken(m.id) /\ Class[kind[m.id]].cancels
    /\ \A x \in Messages :
         Precedes(toServer, m, x) /\ Opens(m) /\ Opens(x) => m.id # x.id

Served ==
  \A i \in Ids :
    /\ serving[i] # "none" => Taken(i)
    /\ serving[i] = "cancelling" => Class[kind[i]].cancels
    /\ serving[i] = "none" => sent[i] = 0
    /\ deferred[i] = "none" => kind[i] = "none" /\ received[i] = 0

AskInv == Parity /\ OpensOnce /\ Served

(* The answers of the server.  A final answer is one that fits what the     *)
(* server has done with the request.                                        *)
Over == {"answered", "refused", "cancelled"}

Finals(i) ==
  CASE serving[i] = "answered"  ->
         LegalEnds(kind[i]) \cup (IF Class[kind[i]].cancels THEN {"OK"} ELSE {})
    [] serving[i] = "refused"   -> {"ERROR"}
    [] serving[i] = "cancelled" -> {"CANCELLED"}
    [] OTHER                    -> {}

IsPush(m) == m.id % 2 = 0 /\ m.type \in Pushes
IsItem(m) ==
  m.id \in Ids /\ serving[m.id] # "none" /\ m.type \in ProtoItems(kind[m.id])
IsFinal(m) == m.id \in Ids /\ m.type \in Finals(m.id)
IsLate(m) == m.type = "BEGIN_CONTENT" /\ m.id \in cancelled

FromServer ==
  \A m \in Messages : Contains(toClient, m) => IsPush(m) \/ IsItem(m) \/ IsFinal(m)

FinalIsLast ==
  \A m, x \in Messages :
    Precedes(toClient, m, x) /\ IsFinal(m) /\ x.id = m.id => IsLate(x)

ReplyInv == FromServer /\ FinalIsLast

(* Once a request is over for the client, only the late permission to       *)
(* upload can still come for it, unless the client gave up on its own.      *)
NothingMore ==
  \A m \in Messages :
    Contains(toClient, m) /\ m.id \in Ids \ failed
      /\ deferred[m.id] \in {"callback", "errback"} => IsLate(m)

LostIsDown == \A i \in Ids : deferred[i] = "lost" => conn = "lost"

VerdictInv == DoneMeansAnswered /\ ErrorMeansRefused /\ NothingMore /\ LostIsDown

(* Items are not lost between the server and a request that is not          *)
(* cancelled.                                                               *)
Places(q, i) == {n \in 1 .. Len(q) : q[n].id = i /\ q[n].type \in ItemTypes}

Balanced ==
  conn = "up" =>
    \A i \in requests \ cancelled :
      received[i] + Cardinality(Places(toClient, i)) = sent[i]

CountInv == Balanced /\ DoneMeansComplete

(* While the connection lives no request waits for nothing: it is on its    *)
(* way to the server, or the server has it, or its final answer is on its   *)
(* way back.  RequestsSettle needs it, besides the fairness.                *)
OnItsWay(i) ==
  \/ \E m \in Messages : Contains(toServer, m) /\ Opens(m) /\ m.id = i
  \/ serving[i] \in {"open", "cancelling"}
  \/ \E m \in Messages : Contains(toClient, m) /\ IsFinal(m) /\ m.id = i

NoneForgotten == conn = "up" => \A i \in requests \ unsent : OnItsWay(i)

-----------------------------------------------------------------------------
(* What an id stands for does not change, and nobody is un-cancelled. *)
NothingUndone ==
  /\ \A i \in Ids :
       /\ deferred[i] # "none" => deferred'[i] # "none" /\ kind'[i] = kind[i]
       /\ deferred'[i] = "none" => kind'[i] = kind[i]
  /\ cancelled \subseteq cancelled'
  /\ failed \subseteq failed'

LEMMA Forward == IndInv /\ [Next]_vars => NothingUndone
<1>. SUFFICES ASSUME IndInv, [Next]_vars
              PROVE  NothingUndone
  OBVIOUS
<1>. USE DEF NothingUndone
<1>1. /\ kind \in [Ids -> Kinds \cup {"none"}]
      /\ deferred \in [Ids -> {"none", "pending"} \cup Fired]
      /\ Unused
  BY DEF IndInv, TypeOK
<1>2. request_counter \in Ids => deferred[request_counter] = "none"
  BY <1>1, IdsAreNat DEF Unused
<1>3. ASSUME NEW k \in Kinds, Start(k) \/ StartRaises(k)
      PROVE  NothingUndone
  <2>1. request_counter \in Ids
    BY <1>3 DEF Start, StartRaises, get_new_request_id
  <2>. QED  BY <1>1, <1>2, <1>3, <2>1 DEF Start, StartRaises
<1>4. CASE StartNoop
  BY <1>1, <1>2, <1>4 DEF StartNoop, get_new_request_id
<1>5. ASSUME NEW i \in Ids, Cancel(i)
      PROVE  NothingUndone
  BY <1>5 DEF Cancel
<1>6. ASSUME NEW i \in Ids, Abort(i)
      PROVE  NothingUndone
  BY <1>1, <1>6 DEF Abort, error
<1>7. CASE processMessage
  <2>. DEFINE m == Head(toClient)
  <2>. HIDE DEF m
  <2>1. CASE ItemRaises(m) \/ End(m) \/ Refuse(m)
    BY <1>1, <2>1 DEF ItemRaises, End, Refuse, error, done
  <2>2. CASE KeepItem(m) \/ Handle(m) \/ HandleRaises(m) \/ Unhandled(m)
             \/ Invalid(m) \/ InvalidRaises(m)
    BY <2>2 DEF KeepItem, Handle, HandleRaises, Unhandled, Invalid,
       InvalidRaises, clientVars
  <2>. QED  BY <1>7, <2>1, <2>2 DEF processMessage, m
<1>8. CASE \/ ConnectionLost \/ ServerReceive
           \/ \E i \in Ids : \/ ServerItem(i) \/ ServerEnd(i) \/ ServerError(i)
                             \/ ServerCancelled(i) \/ ServerLateBegin(i)
           \/ \E t \in Pushes : ServerPush(t)
  BY <1>8 DEF ConnectionLost, ServerReceive, ServerItem, ServerEnd,
     ServerError, ServerCancelled, ServerLateBegin, ServerPush, clientVars
<1>9. CASE UNCHANGED vars
  BY <1>9 DEF vars, clientVars
<1>. QED  BY <1>3, <1>4, <1>5, <1>6, <1>7, <1>8, <1>9 DEF Next

-----------------------------------------------------------------------------
(* AskInv is inductive. *)

LEMMA TakenStays ==
  ASSUME NothingUndone, NEW i, Taken(i)
  PROVE  Taken(i)' /\ kind'[i] = kind[i]
BY DEF NothingUndone, Taken

LEMMA OpensStay ==
  ASSUME TypeOK, OpensOnce, NothingUndone, LeftOf(toServer', toServer),
         \A i \in Ids : Taken(i) /\ serving[i] = "none" => serving'[i] = "none"
  PROVE  OpensOnce'
<1>. SUFFICES ASSUME NEW m \in Messages, Contains(toServer', m)
              PROVE  /\ Opens(m) => Taken(m.id)' /\ serving'[m.id] = "none"
                     /\ m.type = "CANCEL_REQUEST" =>
                          Taken(m.id)' /\ Class[kind'[m.id]].cancels
                     /\ \A x \in Messages :
                          Precedes(toServer', m, x) /\ Opens(m) /\ Opens(x)
                            => m.id # x.id
  BY DEF OpensOnce
<1>1. /\ Contains(toServer, m)
      /\ \A x : Precedes(toServer', m, x) => Precedes(toServer, m, x)
  BY DEF LeftOf
<1>2. Taken(m.id) => Taken(m.id)' /\ kind'[m.id] = kind[m.id]
  BY TakenStays
<1>. QED  BY <1>1, <1>2 DEF OpensOnce, Taken

LEMMA OpensSend ==
  ASSUME TypeOK, OpensOnce, NothingUndone, serving' = serving,
         NEW y \in Messages, toServer' = Append(toServer, y),
         Opens(y) => /\ Taken(y.id)' /\ deferred[y.id] = "none"
                     /\ serving[y.id] = "none",
         y.type = "CANCEL_REQUEST" => Taken(y.id) /\ Class[kind[y.id]].cancels
  PROVE  OpensOnce'
<1>. SUFFICES ASSUME NEW m \in Messages, Contains(toServer', m)
              PROVE  /\ Opens(m) => Taken(m.id)' /\ serving'[m.id] = "none"
                     /\ m.type = "CANCEL_REQUEST" =>
                          Taken(m.id)' /\ Class[kind'[m.id]].cancels
                     /\ \A x \in Messages :
                          Precedes(toServer', m, x) /\ Opens(m) /\ Opens(x)
                            => m.id # x.id
  BY DEF OpensOnce
<1>1. /\ Contains(toServer, m) \/ m = y
      /\ \A x : Precedes(toServer', m, x)
                  => Precedes(toServer, m, x) \/ (Contains(toServer, m) /\ x = y)
  BY AppendAdds DEF TypeOK
<1>2. /\ Taken(m.id) => Taken(m.id)' /\ kind'[m.id] = kind[m.id]
      /\ Taken(y.id) => Taken(y.id)' /\ kind'[y.id] = kind[y.id]
  BY TakenStays
<1>3. Contains(toServer, m) /\ Opens(m) => deferred[m.id] # "none"
  BY DEF OpensOnce, Taken
<1>4. \A x \in Messages : Precedes(toServer', m, x) /\ Opens(m) /\ Opens(x)
                            => m.id # x.id
  <2>. SUFFICES ASSUME NEW x \in Messages, Precedes(toServer', m, x),
                       Opens(m), Opens(x)
                PROVE  m.id # x.id
    OBVIOUS
  <2>1. CASE Precedes(toServer, m, x)
    <3>1. Contains(toServer, m)
      BY <2>1 DEF Precedes, Contains
    <3>. QED  BY <2>1, <3>1 DEF OpensOnce
  <2>2. CASE Contains(toServer, m) /\ x = y
    BY <1>3, <2>2
  <2>. QED  BY <1>1, <2>1, <2>2
<1>5. Contains(toServer, m) =>
        /\ Opens(m) => Taken(m.id)' /\ serving'[m.id] = "none"
        /\ m.type = "CANCEL_REQUEST" => Taken(m.id)' /\ Class[kind'[m.id]].cancels
  BY <1>2 DEF OpensOnce
<1>6. m = y =>
        /\ Opens(m) => Taken(m.id)' /\ serving'[m.id] = "none"
        /\ m.type = "CANCEL_REQUEST" => Taken(m.id)' /\ Class[kind'[m.id]].cancels
  BY <1>2
<1>. QED  BY <1>1, <1>4, <1>5, <1>6

LEMMA ServedStays ==
  ASSUME TypeOK, Served, NothingUndone, UNCHANGED <<serving, sent, received>>
  PROVE  Served'
<1>. SUFFICES ASSUME NEW i \in Ids
              PROVE  /\ serving'[i] # "none" => Taken(i)'
                     /\ serving'[i] = "cancelling" => Class[kind'[i]].cancels
                     /\ serving'[i] = "none" => sent'[i] = 0
                     /\ deferred'[i] = "none" =>
                          kind'[i] = "none" /\ received'[i] = 0
  BY DEF Served
<1>1. Taken(i) => Taken(i)' /\ kind'[i] = kind[i]
  BY TakenStays
<1>2. deferred'[i] = "none" => deferred[i] = "none" /\ kind'[i] = kind[i]
  BY DEF NothingUndone
<1>. QED  BY <1>1, <1>2 DEF Served

(* The id that get_new_request_id gives out is odd, and nobody has heard of *)
(* it.                                                                      *)
LEMMA NewId ==
  ASSUME IndInv, AskInv, request_counter \in Ids
  PROVE  /\ request_counter \in Nat /\ request_counter % 2 = 1
         /\ (request_counter + 2) % 2 = 1
         /\ deferred[request_counter] = "none"
         /\ serving[request_counter] = "none"
         /\ sent[request_counter] = 0 /\ received[request_counter] = 0
<1>1. request_counter \in Nat /\ request_counter % 2 = 1
  BY IdsAreNat DEF AskInv, Parity
<1>2. (request_counter + 2) % 2 = 1
  BY <1>1
<1>3. deferred[request_counter] = "none"
  BY <1>1 DEF IndInv, Unused
<1>4. serving[request_counter] = "none"
  BY <1>3 DEF AskInv, Served, Taken
<1>. QED  BY <1>1, <1>2, <1>3, <1>4 DEF AskInv, Served

LEMMA StartAsks ==
  ASSUME IndInv, AskInv, NothingUndone, NEW k \in Kinds,
         Start(k) \/ StartRaises(k)
  PROVE  AskInv'
<1>. PICK i \in Ids : i = request_counter
  BY DEF Start, StartRaises, get_new_request_id
<1>0. TypeOK /\ Parity /\ OpensOnce /\ Served
  BY DEF IndInv, AskInv
<1>1. /\ i \in Ids /\ request_counter' = i + 2
      /\ kind' = [kind EXCEPT ![i] = k]
      /\ deferred' = [deferred EXCEPT ![i] = "pending"]
      /\ UNCHANGED <<received, serving, sent, server_counter>>
  BY DEF Start, StartRaises, get_new_request_id, serverVars
<1>2. /\ i \in Nat /\ i % 2 = 1 /\ (i + 2) % 2 = 1 /\ deferred[i] = "none"
      /\ serving[i] = "none"
  BY <1>1, NewId
<1>3. Parity'
  BY <1>0, <1>1, <1>2 DEF Parity, TypeOK
<1>4. Served'
  BY <1>0, <1>1, ServedStays
<1>5. OpensOnce'
  <2>1. CASE toServer' = toServer
    BY <1>0, <1>1, <2>1, OpensStay, NothingLeft
  <2>2. CASE k # "Noop" /\ toServer' = Append(toServer, Message(i, Class[k].sends))
    <3>. DEFINE m == Message(i, Class[k].sends)
    <3>1. k \in AllKinds
      BY KindsAssumption
    <3>2. m \in Messages /\ m.id = i /\ m.type # "CANCEL_REQUEST"
      BY <1>2, <2>2, <3>1, SendsMessageType, ClassesUnderstand
      DEF Message, Messages, Understands
    <3>. HIDE DEF m
    <3>3. Taken(i)'
      BY <1>0, <1>1, <2>2 DEF Taken, TypeOK
    <3>4. toServer' = Append(toServer, m) /\ serving' = serving
      BY <1>1, <2>2 DEF m
    <3>. QED  BY <1>0, <1>2, <3>2, <3>3, <3>4, OpensSend
  <2>. QED
    BY <2>1, <2>2 DEF Start, StartRaises, sendMessage
<1>. QED  BY <1>3, <1>4, <1>5 DEF AskInv

LEMMA NoopAsks ==
  ASSUME IndInv, AskInv, NothingUndone, StartNoop
  PROVE  AskInv'
<1>. PICK i \in Ids : i = request_counter
  BY DEF StartNoop, get_new_request_id
<1>0. TypeOK /\ Parity /\ OpensOnce /\ Served
  BY DEF IndInv, AskInv
<1>1. /\ i \in Ids /\ request_counter' = i + 2
      /\ kind' = [kind EXCEPT ![i] = "Noop"]
      /\ deferred' = [deferred EXCEPT ![i] = "callback"]
      /\ UNCHANGED <<received, serving, sent, server_counter>>
  BY DEF StartNoop, get_new_request_id, serverVars
<1>2. i \in Nat /\ i % 2 = 1 /\ (i + 2) % 2 = 1
  BY <1>1, NewId
<1>3. Parity'
  BY <1>0, <1>1, <1>2 DEF Parity, TypeOK
<1>4. Served'
  BY <1>0, <1>1, ServedStays
<1>5. OpensOnce'
  <2>1. CASE toServer' = toServer
    BY <1>0, <1>1, <2>1, OpensStay, NothingLeft
  <2>2. CASE toServer' = Append(toServer, Message(i, "NOOP"))
    <3>. DEFINE m == Message(i, "NOOP")
    <3>1. m \in Messages /\ m.type = "NOOP"
      BY <1>2 DEF Message, Messages, MessageType
    <3>. HIDE DEF m
    <3>2. toServer' = Append(toServer, m) /\ serving' = serving
      BY <1>1, <2>2 DEF m
    <3>3. ~Opens(m) /\ m.type # "CANCEL_REQUEST"
      BY <3>1 DEF Opens
    <3>. QED  BY <1>0, <3>1, <3>2, <3>3, OpensSend
  <2>. QED
    BY <2>1, <2>2 DEF StartNoop, sendMessage, Noop, Request
<1>. QED  BY <1>3, <1>4, <1>5 DEF AskInv

LEMMA CancelAsks ==
  ASSUME IndInv, AskInv, NothingUndone, NEW i \in Ids, Cancel(i)
  PROVE  AskInv'
<1>0. TypeOK /\ Parity /\ OpensOnce /\ Served
  BY DEF IndInv, AskInv
<1>1. UNCHANGED <<request_counter, kind, deferred, received, serving, sent,
                  server_counter>>
  BY DEF Cancel, serverVars
<1>2. Parity'
  BY <1>0, <1>1 DEF Parity
<1>3. Served'
  BY <1>0, <1>1, ServedStays
<1>4. OpensOnce'
  <2>1. CASE toServer' = toServer
    BY <1>0, <1>1, <2>1, OpensStay, NothingLeft
  <2>2. CASE /\ Class[kind[i]].cancels /\ deferred[i] \notin Fired
             /\ toServer' = Append(toServer, Message(i, "CANCEL_REQUEST"))
    <3>. DEFINE m == Message(i, "CANCEL_REQUEST")
    <3>1. m \in Messages /\ m.id = i /\ m.type = "CANCEL_REQUEST"
      BY IdsAreNat DEF Message, Messages, MessageType
    <3>2. toServer' = Append(toServer, m)
      BY <2>2
    <3>. HIDE DEF m
    <3>3. kind[i] \in Kinds /\ kind[i] # "Noop" /\ kind[i] # "none"
      BY <1>0, <2>2 DEF Cancel, TypeOK, Class, Noop, Request
    <3>4. Taken(i)
      BY <1>0, <3>3 DEF Taken, Served
    <3>5. ~Opens(m)
      BY <3>1 DEF Opens
    <3>. QED  BY <1>0, <1>1, <2>2, <3>1, <3>2, <3>4, <3>5, OpensSend
  <2>. QED
    BY <2>1, <2>2 DEF Cancel, sendMessage
<1>. QED  BY <1>2, <1>3, <1>4 DEF AskInv

LEMMA ParityStays ==
  ASSUME TypeOK, Parity, request_counter' = request_counter,
         server_counter' \in {server_counter, server_counter + 2},
         \A i \in Ids : deferred'[i] # "none" => deferred[i] # "none"
  PROVE  Parity'
<1>1. server_counter \in Nat
  BY DEF TypeOK
<1>2. server_counter % 2 = 0
  BY DEF Parity
<1>3. (server_counter + 2) % 2 = 0
  BY <1>1, <1>2
<1>. QED  BY <1>2, <1>3 DEF Parity

(* done and error: the request was in the registry. *)
LEMMA FiringKeepsTaken ==
  ASSUME IndInv, NEW i \in requests, NEW how,
         deferred' = [deferred EXCEPT ![i] = how]
  PROVE  \A j \in Ids : deferred'[j] # "none" => deferred[j] # "none"
BY DEF IndInv, RegistryExact, TypeOK

(* PONG and ERROR open nothing. *)
LEMMA ReplyOpensNothing ==
  ASSUME TypeOK, OpensOnce, NothingUndone, serving' = serving,
         NEW i \in Nat, NEW t \in {"PONG", "ERROR"},
         sendMessage(i, t)
  PROVE  OpensOnce'
<1>. DEFINE y == Message(i, t)
<1>1. y \in Messages /\ y.type = t
  BY DEF Message, Messages, MessageType
<1>2. toServer' = Append(toServer, y) \/ toServer' = toServer
  BY DEF sendMessage
<1>. HIDE DEF y
<1>3. CASE toServer' = Append(toServer, y)
  <2>1. ~Opens(y) /\ y.type # "CANCEL_REQUEST"
    BY <1>1 DEF Opens
  <2>. QED  BY <1>1, <1>3, <2>1, OpensSend
<1>4. CASE toServer' = toServer
  BY <1>4, OpensStay, NothingLeft
<1>. QED  BY <1>2, <1>3, <1>4

LEMMA MessageAsks ==
  ASSUME IndInv, AskInv, NothingUndone, processMessage
  PROVE  AskInv'
<1>. PICK m \in Messages : m = Head(toClient)
  BY TailLeft DEF processMessage, IndInv, TypeOK
<1>0. TypeOK /\ Parity /\ OpensOnce /\ Served
  BY DEF IndInv, AskInv
<1>1. CASE KeepItem(m)
  <2>1. /\ m.id \in requests /\ m.id \in Ids
        /\ UNCHANGED <<request_counter, deferred, serving, sent, server_counter,
                       toServer, kind>>
        /\ received' = received \/ received' = [received EXCEPT ![m.id] = @ + 1]
    BY <1>0, <1>1 DEF KeepItem, ForRequest, serverVars, TypeOK
  <2>2. deferred[m.id] # "none"
    BY <2>1 DEF IndInv, RegistryExact
  <2>3. \A i \in Ids : deferred[i] = "none" => received'[i] = received[i]
    BY <1>0, <2>1, <2>2 DEF TypeOK
  <2>4. Served'
    BY <1>0, <2>1, <2>3 DEF Served, Taken
  <2>5. Parity' /\ OpensOnce'
    BY <1>0, <2>1, ParityStays, OpensStay, NothingLeft
  <2>. QED  BY <2>4, <2>5 DEF AskInv
<1>2. CASE ItemRaises(m) \/ End(m) \/ Refuse(m)
  <2>1. /\ m.id \in requests
        /\ UNCHANGED <<request_counter, received, serving, sent, server_counter,
                       toServer>>
        /\ \/ deferred' = [deferred EXCEPT ![m.id] = "callback"]
           \/ deferred' = [deferred EXCEPT ![m.id] = "errback"]
    BY <1>2 DEF ItemRaises, End, Refuse, ForRequest, serverVars, done, error
  <2>2. \A j \in Ids : deferred'[j] # "none" => deferred[j] # "none"
    BY <2>1, FiringKeepsTaken
  <2>. QED
    BY <1>0, <2>1, <2>2, ParityStays, ServedStays, OpensStay, NothingLeft
    DEF AskInv
<1>3. CASE HandleRaises(m) \/ Unhandled(m) \/ InvalidRaises(m)
  <2>1. /\ UNCHANGED <<request_counter, deferred, received, serving, sent,
                       server_counter>>
        /\ toServer' = <<>>
    BY <1>3 DEF HandleRaises, Unhandled, InvalidRaises, serverVars, connectionLost
  <2>. QED
    BY <1>0, <2>1, ParityStays, ServedStays, OpensStay, NothingLeft DEF AskInv
<1>4. CASE Handle(m) \/ Invalid(m)
  <2>1. UNCHANGED <<request_counter, deferred, received, serving, sent,
                    server_counter>>
    BY <1>4 DEF Handle, Invalid, clientVars, serverVars
  <2>2. \/ toServer' = toServer
        \/ sendMessage(m.id, "PONG") \/ sendMessage(m.id, "ERROR")
    BY <1>4 DEF Handle, Invalid
  <2>3. OpensOnce'
    <3>1. m.id \in Nat
      BY DEF Messages
    <3>. QED
      BY <1>0, <2>1, <2>2, <3>1, ReplyOpensNothing, OpensStay, NothingLeft
  <2>. QED  BY <1>0, <2>1, <2>3, ParityStays, ServedStays DEF AskInv
<1>. QED  BY <1>1, <1>2, <1>3, <1>4 DEF processMessage

(* The server reads a message: if it opens a request, no other message in   *)
(* the queue opens it again.                                                *)
LEMMA ReceiveAsks ==
  ASSUME IndInv, AskInv, NothingUndone, ServerReceive
  PROVE  AskInv'
<1>0. TypeOK /\ Parity /\ OpensOnce /\ Served
  BY DEF IndInv, AskInv
<1>1. /\ toServer \in Seq(Messages) /\ toServer # <<>>
      /\ toServer' = Tail(toServer)
      /\ UNCHANGED <<request_counter, deferred, kind, received, sent,
                     server_counter>>
  BY <1>0 DEF ServerReceive, clientVars, TypeOK
<1>. PICK m \in Messages : m = Head(toServer)
  BY <1>1, TailLeft
<1>2. /\ Contains(toServer, m) /\ LeftOf(toServer', toServer)
      /\ \A x : Contains(toServer', x) => Precedes(toServer, m, x)
  BY <1>1, TailLeft
<1>3. \/ serving' = serving
      \/ /\ m.type = "CANCEL_REQUEST" /\ m.id \in Ids
         /\ serving[m.id] = "open"
         /\ serving' = [serving EXCEPT ![m.id] = "cancelling"]
      \/ /\ Opens(m) /\ m.id \in Ids
         /\ serving' = [serving EXCEPT ![m.id] = "open"]
  <2>1. CASE m.id \notin Ids
    BY <2>1 DEF ServerReceive
  <2>2. CASE m.id \in Ids /\ m.type = "CANCEL_REQUEST" /\ serving[m.id] = "open"
    BY <2>2 DEF ServerReceive
  <2>3. CASE m.id \in Ids /\ Opens(m)
    BY <2>3 DEF ServerReceive, Opens
  <2>4. CASE /\ m.id \in Ids /\ ~Opens(m)
             /\ ~(m.type = "CANCEL_REQUEST" /\ serving[m.id] = "open")
    BY <2>4 DEF ServerReceive, Opens
  <2>. QED  BY <2>1, <2>2, <2>3, <2>4
<1>4. Parity'
  BY <1>0, <1>1, ParityStays
<1>5. CASE serving' = serving
  BY <1>0, <1>1, <1>2, <1>4, <1>5, ServedStays, OpensStay DEF AskInv
<1>6. CASE /\ m.type = "CANCEL_REQUEST" /\ m.id \in Ids
           /\ serving[m.id] = "open"
           /\ serving' = [serving EXCEPT ![m.id] = "cancelling"]
  <2>1. Class[kind[m.id]].cancels /\ Taken(m.id)
    BY <1>0, <1>2, <1>6 DEF OpensOnce
  <2>2. /\ serving'[m.id] = "cancelling"
        /\ \A i \in Ids \ {m.id} : serving'[i] = serving[i]
    BY <1>0, <1>6 DEF TypeOK
  <2>3. Served'
    BY <1>0, <1>1, <1>6, <2>1, <2>2 DEF Served, Taken
  <2>4. OpensOnce'
    BY <1>0, <1>2, <1>6, <2>2, OpensStay
  <2>. QED  BY <1>4, <2>3, <2>4 DEF AskInv
<1>7. CASE /\ Opens(m) /\ m.id \in Ids
           /\ serving' = [serving EXCEPT ![m.id] = "open"]
  <2>1. Taken(m.id) /\ serving[m.id] = "none"
    BY <1>0, <1>2, <1>7 DEF OpensOnce
  <2>2. /\ serving'[m.id] = "open"
        /\ \A i \in Ids \ {m.id} : serving'[i] = serving[i]
    BY <1>0, <1>7 DEF TypeOK
  <2>3. Served'
    BY <1>0, <1>1, <1>7, <2>1, <2>2 DEF Served, Taken
  <2>4. OpensOnce'
    <3>. SUFFICES ASSUME NEW y \in Messages, Contains(toServer', y)
                  PROVE  /\ Opens(y) => Taken(y.id)' /\ serving'[y.id] = "none"
                         /\ y.type = "CANCEL_REQUEST" =>
                              Taken(y.id)' /\ Class[kind'[y.id]].cancels
                         /\ \A x \in Messages :
                              Precedes(toServer', y, x) /\ Opens(y) /\ Opens(x)
                                => y.id # x.id
      BY DEF OpensOnce
    <3>1. /\ Contains(toServer, y) /\ Precedes(toServer, m, y)
          /\ \A x : Precedes(toServer', y, x) => Precedes(toServer, y, x)
      BY <1>2 DEF LeftOf
    <3>2. Opens(y) => y.id # m.id
      BY <1>0, <1>2, <1>7, <3>1 DEF OpensOnce
    <3>. QED
      BY <1>0, <1>1, <2>2, <3>1, <3>2 DEF OpensOnce, Taken
  <2>. QED  BY <1>4, <2>3, <2>4 DEF AskInv
<1>. QED  BY <1>3, <1>5, <1>6, <1>7

(* The server works on a request it has opened. *)
LEMMA ServerAsks ==
  ASSUME IndInv, AskInv, NothingUndone, NEW i \in Ids,
         \/ ServerItem(i) \/ ServerLateBegin(i)
         \/ ServerEnd(i) \/ ServerError(i) \/ ServerCancelled(i)
  PROVE  AskInv'
<1>0. TypeOK /\ Parity /\ OpensOnce /\ Served
  BY DEF IndInv, AskInv
<1>1. /\ UNCHANGED <<request_counter, deferred, kind, received, server_counter,
                     toServer>>
      /\ serving[i] # "none"
  BY DEF ServerItem, ServerLateBegin, ServerEnd, ServerError, ServerCancelled,
     Serving, clientVars
<1>2. Parity'
  BY <1>0, <1>1, ParityStays
<1>3. /\ \/ serving' = serving
         \/ \E v \in Over : serving' = [serving EXCEPT ![i] = v] /\ sent' = sent
      /\ sent' = sent \/ sent' = [sent EXCEPT ![i] = @ + 1]
  BY DEF ServerItem, ServerLateBegin, ServerEnd, ServerError, ServerCancelled,
     Over
<1>4. /\ serving'[i] = serving[i] \/ serving'[i] \in Over
      /\ \A j \in Ids \ {i} : serving'[j] = serving[j] /\ sent'[j] = sent[j]
  BY <1>0, <1>3 DEF TypeOK
<1>5. Served'
  BY <1>0, <1>1, <1>4 DEF Served, Taken, Over
<1>6. OpensOnce'
  BY <1>0, <1>1, <1>4, OpensStay, NothingLeft
<1>. QED  BY <1>2, <1>5, <1>6 DEF AskInv

LEMMA AskInit == Init => AskInv
<1>. SUFFICES ASSUME Init PROVE AskInv
  OBVIOUS
<1>1. Parity
  BY DEF Init, Parity, REQUEST_ID_START
<1>2. OpensOnce
  BY EmptySeq DEF Init, OpensOnce, Contains
<1>. QED  BY <1>1, <1>2 DEF Init, AskInv, Served

LEMMA AskStep == IndInv /\ AskInv /\ [Next]_vars => AskInv'
<1>. SUFFICES ASSUME IndInv, AskInv, [Next]_vars
              PROVE  AskInv'
  OBVIOUS
<1>0. /\ TypeOK /\ Parity /\ OpensOnce /\ Served
      /\ NothingUndone
  BY Forward DEF IndInv, AskInv
<1>1. ASSUME NEW k \in Kinds, Start(k) \/ StartRaises(k)
      PROVE  AskInv'
  BY <1>0, <1>1, StartAsks
<1>2. CASE StartNoop
  BY <1>0, <1>2, NoopAsks
<1>3. ASSUME NEW i \in Ids, Cancel(i)
      PROVE  AskInv'
  BY <1>0, <1>3, CancelAsks
<1>4. ASSUME NEW i \in Ids, Abort(i)
      PROVE  AskInv'
  <2>1. /\ i \in requests
        /\ deferred' = [deferred EXCEPT ![i] = "lost"]
        /\ UNCHANGED <<request_counter, received, serving, sent, server_counter,
                       toServer>>
    BY <1>4 DEF Abort, error, serverVars, IndInv, CopyStillRegistered
  <2>2. \A j \in Ids : deferred'[j] # "none" => deferred[j] # "none"
    BY <2>1, FiringKeepsTaken
  <2>. QED
    BY <1>0, <2>1, <2>2, ParityStays, ServedStays, OpensStay, NothingLeft
    DEF AskInv
<1>5. CASE processMessage
  BY <1>0, <1>5, MessageAsks
<1>6. CASE ConnectionLost
  <2>1. /\ UNCHANGED <<request_counter, deferred, received, serving, sent,
                       server_counter>>
        /\ toServer' = <<>>
    BY <1>6 DEF ConnectionLost, connectionLost, serverVars
  <2>. QED
    BY <1>0, <2>1, ParityStays, ServedStays, OpensStay, NothingLeft DEF AskInv
<1>7. CASE ServerReceive
  BY <1>0, <1>7, ReceiveAsks
<1>8. ASSUME NEW i \in Ids,
             \/ ServerItem(i) \/ ServerEnd(i) \/ ServerError(i)
             \/ ServerCancelled(i) \/ ServerLateBegin(i)
      PROVE  AskInv'
  BY <1>0, <1>8, ServerAsks
<1>9. CASE (\E t \in Pushes : ServerPush(t)) \/ UNCHANGED vars
  <2>1. /\ UNCHANGED <<request_counter, deferred, received, serving, sent,
                       toServer>>
        /\ server_counter' \in {server_counter, server_counter + 2}
    BY <1>9 DEF ServerPush, vars, clientVars, serverVars
  <2>. QED
    BY <1>0, <2>1, ParityStays, ServedStays, OpensStay, NothingLeft DEF AskInv
<1>. QED
  BY <1>1, <1>2, <1>3, <1>4, <1>5, <1>6, <1>7, <1>8, <1>9 DEF Next

(* Every request is opened by the server once at most, and no id that the   *)
(* client gives out is one the server pushes under.                         *)
THEOREM RequestsOpenOnce == Spec => []AskInv
  BY AskInit, AskStep, HandlerCorrect, PTL DEF Spec

-----------------------------------------------------------------------------
(* ReplyInv is inductive. *)

(* A final answer is for a request that the server is through with, and     *)
(* cannot be taken for an item.                                             *)
LEMMA FinalFacts ==
  ASSUME TypeOK, Served, NEW m, IsFinal(m)
  PROVE  /\ m.id \in Ids /\ Taken(m.id) /\ serving[m.id] \in Over
         /\ m.type \notin ItemTypes \cup {"INVALID"}
         /\ serving[m.id] = "answered" =>
              \/ m.type \in Class[kind[m.id]].ends
              \/ kind[m.id] \in Misread
         /\ serving[m.id] # "answered" =>
              m.type \in {"ERROR", "CANCELLED"}
<1>1. m.id \in Ids /\ m.type \in Finals(m.id)
  BY DEF IsFinal
<1>2. serving[m.id] \in Over
  BY <1>1 DEF Finals, Over
<1>3. Taken(m.id) /\ kind[m.id] \in Kinds \ {"Noop"}
  BY <1>1, <1>2 DEF Served, Over, Taken
<1>4. Understands(kind[m.id], Class[kind[m.id]])
  BY <1>3, ClassesUnderstand, KindsAssumption
<1>5. CASE serving[m.id] = "answered"
  <2>1. m.type \in LegalEnds(kind[m.id])
          \cup (IF Class[kind[m.id]].cancels THEN {"OK"} ELSE {})
    BY <1>1, <1>5 DEF Finals
  <2>2. m.type \in Class[kind[m.id]].ends \cup MisreadEnds(kind[m.id])
    BY <1>3, <1>4, <2>1 DEF Understands
  <2>3. m.type \notin ItemTypes \cup {"INVALID"}
    BY <1>4, <2>2 DEF Understands, MisreadEnds, ItemTypes
  <2>. QED  BY <1>1, <1>2, <1>3, <1>5, <2>2, <2>3 DEF MisreadEnds
<1>6. CASE serving[m.id] # "answered"
  <2>1. m.type \in {"ERROR", "CANCELLED"}
    BY <1>1, <1>2, <1>6 DEF Finals, Over
  <2>. QED  BY <1>1, <1>2, <1>3, <1>6, <2>1 DEF ItemTypes
<1>. QED  BY <1>5, <1>6

LEMMA ItemFacts ==
  ASSUME TypeOK, Served, NEW m, IsItem(m)
  PROVE  /\ m.id \in Ids /\ Taken(m.id) /\ m.type \in ItemTypes
         /\ m.type \in Class[kind[m.id]].items
<1>1. m.id \in Ids /\ Taken(m.id) /\ m.type \in ProtoItems(kind[m.id])
  BY DEF IsItem, Served
<1>2. Understands(kind[m.id], Class[kind[m.id]])
  BY <1>1, ClassesUnderstand, KindsAssumption DEF Taken
<1>. QED  BY <1>1, <1>2 DEF Understands

(* What an answer is depends on the request and on what the server has done *)
(* with it.                                                                 *)
LEMMA AnswerStays ==
  ASSUME TypeOK, Served, NothingUndone, NEW m,
         m.id \in Ids =>
           \/ serving'[m.id] = serving[m.id]
           \/ serving[m.id] \notin Over /\ serving'[m.id] \in {"open", "cancelling"}
  PROVE  /\ IsItem(m) => IsItem(m)'
         /\ IsFinal(m)' <=> IsFinal(m)
<1>1. ASSUME IsItem(m)
      PROVE  IsItem(m)'
  <2>1. m.id \in Ids /\ serving[m.id] # "none" /\ Taken(m.id)
    BY <1>1 DEF IsItem, Served
  <2>2. kind'[m.id] = kind[m.id] /\ serving'[m.id] # "none"
    BY <2>1, TakenStays
  <2>. QED  BY <1>1, <2>2 DEF IsItem
<1>2. ASSUME m.id \in Ids, serving[m.id] \in Over, serving'[m.id] = serving[m.id]
      PROVE  IsFinal(m)' <=> IsFinal(m)
  <2>1. kind'[m.id] = kind[m.id]
    BY <1>2, TakenStays DEF Served, Over
  <2>. QED  BY <1>2, <2>1 DEF IsFinal, Finals
<1>3. ASSUME m.id \in Ids, serving[m.id] \notin Over, serving'[m.id] \notin Over
      PROVE  IsFinal(m)' <=> IsFinal(m)
  BY <1>3 DEF IsFinal, Finals, Over
<1>4. m.id \notin Ids => (IsFinal(m)' <=> IsFinal(m))
  BY DEF IsFinal
<1>. QED  BY <1>1, <1>2, <1>3, <1>4 DEF Over

(* Nothing is written. *)
LEMMA ReplyStays ==
  ASSUME TypeOK, Served, ReplyInv, NothingUndone, LeftOf(toClient', toClient),
         \A i \in Ids :
           \/ serving'[i] = serving[i]
           \/ serving[i] \notin Over /\ serving'[i] \in {"open", "cancelling"}
  PROVE  ReplyInv'
<1>1. FromServer'
  <2>. SUFFICES ASSUME NEW m \in Messages, Contains(toClient', m)
                PROVE  IsPush(m) \/ IsItem(m)' \/ IsFinal(m)'
    BY DEF FromServer, IsPush
  <2>1. IsPush(m) \/ IsItem(m) \/ IsFinal(m)
    BY DEF ReplyInv, FromServer, LeftOf
  <2>. QED  BY <2>1, AnswerStays
<1>2. FinalIsLast'
  <2>. SUFFICES ASSUME NEW m \in Messages, NEW x \in Messages,
                       Precedes(toClient', m, x), IsFinal(m)', x.id = m.id
                PROVE  IsLate(x)'
    BY DEF FinalIsLast
  <2>1. Precedes(toClient, m, x) /\ IsFinal(m)
    BY AnswerStays DEF LeftOf
  <2>2. IsLate(x)
    BY <2>1 DEF ReplyInv, FinalIsLast
  <2>. QED  BY <2>2 DEF IsLate, NothingUndone
<1>. QED  BY <1>1, <1>2 DEF ReplyInv

(* The server writes y: of its own accord, or for a request, in which case  *)
(* it may be done with it by that.                                          *)
LEMMA ReplySend ==
  ASSUME TypeOK, Served, Parity, ReplyInv, NothingUndone,
         NEW y \in Messages, toClient' = Append(toClient, y),
         \A i \in Ids \ {y.id} : serving'[i] = serving[i],
         \/ IsPush(y) /\ serving' = serving
         \/ /\ IsItem(y) /\ serving' = serving
            /\ serving[y.id] \notin Over \/ IsLate(y)
         \/ /\ IsFinal(y)' /\ y.id \in Ids
            /\ serving[y.id] \in {"open", "cancelling"}
            /\ Served'
            /\ TypeOK'
  PROVE  ReplyInv'
<1>1. /\ \A m : Contains(toClient', m) => Contains(toClient, m) \/ m = y
      /\ \A m, x : Precedes(toClient', m, x)
                     => Precedes(toClient, m, x) \/ (Contains(toClient, m) /\ x = y)
  BY AppendAdds DEF TypeOK
<1>2. ASSUME NEW m, m.id # y.id \/ serving' = serving
      PROVE  /\ IsItem(m) => IsItem(m)'
             /\ IsFinal(m)' <=> IsFinal(m)
  BY <1>2, AnswerStays
<1>3. ASSUME serving[y.id] \in {"open", "cancelling"}, y.id \in Ids, NEW m \in Messages,
             Contains(toClient, m), m.id = y.id
      PROVE  IsItem(m)
  <2>1. y.id % 2 = 1
    BY <1>3 DEF Served, Taken, Parity
  <2>2. ~IsPush(m)
    BY <1>3, <2>1 DEF IsPush
  <2>3. ~IsFinal(m)
    BY <1>3 DEF IsFinal, Finals
  <2>. QED  BY <1>3, <2>2, <2>3 DEF ReplyInv, FromServer
<1>4. CASE IsPush(y) /\ serving' = serving
  <2>1. FromServer'
    <3>. SUFFICES ASSUME NEW m \in Messages, Contains(toClient', m)
                  PROVE  IsPush(m) \/ IsItem(m)' \/ IsFinal(m)'
      BY DEF FromServer, IsPush
    <3>. QED  BY <1>1, <1>2, <1>4 DEF ReplyInv, FromServer
  <2>2. ASSUME NEW m \in Messages, IsFinal(m)
        PROVE  m.id # y.id
    <3>1. m.id % 2 = 1
      BY <2>2, FinalFacts DEF Taken, Parity
    <3>. QED  BY <1>4, <3>1 DEF IsPush
  <2>3. FinalIsLast'
    <3>. SUFFICES ASSUME NEW m \in Messages, NEW x \in Messages,
                         Precedes(toClient', m, x), IsFinal(m)', x.id = m.id
                  PROVE  IsLate(x)'
      BY DEF FinalIsLast
    <3>1. IsFinal(m)
      BY <1>2, <1>4
    <3>2. Precedes(toClient, m, x)
      BY <1>1, <2>2, <3>1
    <3>. QED  BY <3>1, <3>2 DEF ReplyInv, FinalIsLast, IsLate, NothingUndone
  <2>. QED  BY <2>1, <2>3 DEF ReplyInv
<1>5. CASE /\ IsItem(y) /\ serving' = serving
           /\ serving[y.id] \notin Over \/ IsLate(y)
  <2>1. FromServer'
    <3>. SUFFICES ASSUME NEW m \in Messages, Contains(toClient', m)
                  PROVE  IsPush(m) \/ IsItem(m)' \/ IsFinal(m)'
      BY DEF FromServer, IsPush
    <3>. QED  BY <1>1, <1>2, <1>5 DEF ReplyInv, FromServer
  <2>2. FinalIsLast'
    <3>. SUFFICES ASSUME NEW m \in Messages, NEW x \in Messages,
                         Precedes(toClient', m, x), IsFinal(m)', x.id = m.id
                  PROVE  IsLate(x)
      BY DEF FinalIsLast, IsLate, NothingUndone
    <3>1. IsFinal(m)
      BY <1>2, <1>5
    <3>2. CASE Precedes(toClient, m, x)
      BY <3>1, <3>2 DEF ReplyInv, FinalIsLast
    <3>3. CASE x = y
      <4>1. serving[y.id] \in Over
        BY <3>1, <3>3, FinalFacts
      <4>. QED  BY <1>5, <3>3, <4>1
    <3>. QED  BY <1>1, <3>2, <3>3
  <2>. QED  BY <2>1, <2>2 DEF ReplyInv
<1>6. CASE /\ IsFinal(y)' /\ y.id \in Ids
           /\ serving[y.id] \in {"open", "cancelling"} /\ Served' /\ TypeOK'
  <2>1. ASSUME NEW m, IsItem(m)
        PROVE  IsItem(m)'
    <3>1. CASE m.id = y.id
      <4>1. serving'[y.id] \in Over
        BY <1>6 DEF IsFinal, Finals, Over
      <4>2. kind'[y.id] = kind[y.id]
        BY <1>6, TakenStays DEF Served
      <4>. QED  BY <2>1, <3>1, <4>1, <4>2 DEF IsItem, Over
    <3>2. CASE m.id # y.id
      BY <1>2, <2>1, <3>2
    <3>. QED  BY <3>1, <3>2
  <2>2. ASSUME NEW m \in Messages, Contains(toClient, m), IsFinal(m) \/ IsFinal(m)'
        PROVE  m.id # y.id /\ IsFinal(m) /\ IsFinal(m)'
    <3>1. ASSUME m.id = y.id
          PROVE  FALSE
      <4>1. IsItem(m) /\ m.type \in ItemTypes
        BY <1>3, <1>6, <2>2, <3>1, ItemFacts
      <4>2. ~IsFinal(m)
        BY <4>1, FinalFacts
      <4>3. m.id \in Ids /\ m.type \in Finals(m.id)'
        BY <2>2, <4>2 DEF IsFinal
      <4>4. Understands(kind'[m.id], Class[kind'[m.id]]) /\ kind'[m.id] # "Noop"
            /\ serving'[m.id] \in Over
        <5>1. serving'[m.id] \in Over
          BY <4>3 DEF Finals, Over
        <5>2. kind'[m.id] \in Kinds \ {"Noop"}
          BY <1>6, <4>3, <5>1 DEF Served, Taken, Over
        <5>. QED  BY <5>1, <5>2, ClassesUnderstand, KindsAssumption
      <4>5. m.type \in Class[kind'[m.id]].ends \cup MisreadEnds(kind'[m.id])
                         \cup {"ERROR", "CANCELLED"}
        BY <4>3, <4>4 DEF Finals, Understands, Over
      <4>. QED  BY <4>1, <4>4, <4>5 DEF Understands, MisreadEnds, ItemTypes
    <3>. QED  BY <1>2, <2>2, <3>1
  <2>3. FromServer'
    <3>. SUFFICES ASSUME NEW m \in Messages, Contains(toClient', m)
                  PROVE  IsPush(m) \/ IsItem(m)' \/ IsFinal(m)'
      BY DEF FromServer, IsPush
    <3>. QED  BY <1>1, <1>6, <2>1, <2>2 DEF ReplyInv, FromServer
  <2>4. FinalIsLast'
    <3>. SUFFICES ASSUME NEW m \in Messages, NEW x \in Messages,
                         Precedes(toClient', m, x), IsFinal(m)', x.id = m.id
                  PROVE  IsLate(x)
      BY DEF FinalIsLast, IsLate, NothingUndone
    <3>1. Contains(toClient, m)
      BY <1>1 DEF Precedes, Contains
    <3>2. IsFinal(m) /\ Precedes(toClient, m, x)
      BY <1>1, <2>2, <3>1
    <3>. QED  BY <3>2 DEF ReplyInv, FinalIsLast
  <2>. QED  BY <2>3, <2>4 DEF ReplyInv
<1>. QED  BY <1>4, <1>5, <1>6

LEMMA ReplyItem ==
  ASSUME IndInv, AskInv, ReplyInv, NothingUndone, NEW i \in Ids,
         ServerItem(i) \/ ServerLateBegin(i)
  PROVE  ReplyInv'
<1>0. TypeOK /\ Served /\ Parity
  BY DEF IndInv, AskInv
<1>1. PICK t \in ProtoItems(kind[i]) :
        /\ toClient' = Append(toClient, Message(i, t))
        /\ serving' = serving /\ serving[i] # "none"
        /\ serving[i] \notin Over \/ (t = "BEGIN_CONTENT" /\ i \in cancelled)
  BY DEF ServerItem, ServerLateBegin, Serving, Write, Over, ProtoItems
<1>. DEFINE y == Message(i, t)
<1>2. y \in Messages /\ y.id = i /\ y.type = t
  BY IdsAreNat, ItemsMessageType DEF Message, Messages
<1>3. toClient' = Append(toClient, y)
  BY <1>1
<1>. HIDE DEF y
<1>4. IsItem(y)
  BY <1>1, <1>2 DEF IsItem
<1>5. serving[y.id] \notin Over \/ IsLate(y)
  BY <1>1, <1>2 DEF IsLate
<1>. QED  BY <1>0, <1>1, <1>2, <1>3, <1>4, <1>5, ReplySend

(* ServerEnd, ServerError and ServerCancelled: the final answer fits what    *)
(* the server has done.                                                     *)
LEMMA FinalWritten ==
  ASSUME IndInv, AskInv, NothingUndone, NEW i \in Ids,
         ServerEnd(i) \/ ServerError(i) \/ ServerCancelled(i)
  PROVE  /\ serving[i] \in {"open", "cancelling"}
         /\ \A j \in Ids \ {i} : serving'[j] = serving[j]
         /\ \E y \in Messages :
              toClient' = Append(toClient, y) /\ y.id = i /\ IsFinal(y)'
<1>0. TypeOK /\ Served /\ Parity
  BY DEF IndInv, AskInv
<1>1. /\ serving[i] \in {"open", "cancelling"}
      /\ \A j \in Ids \ {i} : serving'[j] = serving[j]
  BY <1>0 DEF ServerEnd, ServerError, ServerCancelled, Serving, TypeOK
<1>2. /\ kind[i] \in Kinds /\ kind'[i] = kind[i]
      /\ serving[i] = "cancelling" => Class[kind[i]].cancels
  BY <1>0, <1>1, TakenStays DEF Served, Taken
<1>3. \E t \in MessageType :
        toClient' = Append(toClient, Message(i, t)) /\ t \in Finals(i)'
  <2>1. CASE ServerEnd(i)
    <3>1. PICK t \in ServerEnds(kind[i])
                 \cup (IF serving[i] = "cancelling" THEN {"OK"} ELSE {}) :
            toClient' = Append(toClient, Message(i, t))
      BY <2>1 DEF ServerEnd, Write
    <3>2. serving'[i] = "answered"
      BY <1>0, <2>1 DEF ServerEnd, TypeOK
    <3>3. t \in Finals(i)'
      BY <1>2, <3>1, <3>2, ServerAssumption DEF Finals
    <3>4. t \in MessageType
      BY <1>2, <3>1, TypesAssumption DEF MessageType
    <3>. QED  BY <3>1, <3>3, <3>4
  <2>2. CASE ServerError(i)
    <3>1. serving'[i] = "refused"
      BY <1>0, <2>2 DEF ServerError, TypeOK
    <3>. QED  BY <2>2, <3>1 DEF ServerError, Write, Finals, MessageType
  <2>3. CASE ServerCancelled(i)
    <3>1. serving'[i] = "cancelled"
      BY <1>0, <2>3 DEF ServerCancelled, TypeOK
    <3>. QED  BY <2>3, <3>1 DEF ServerCancelled, Write, Finals, MessageType
  <2>. QED  BY <2>1, <2>2, <2>3
<1>4. PICK t \in MessageType :
        toClient' = Append(toClient, Message(i, t)) /\ t \in Finals(i)'
  BY <1>3
<1>5. PICK y \in Messages : y = Message(i, t)
  BY IdsAreNat DEF Message, Messages
<1>6. y.id = i /\ y.type = t
  BY <1>5 DEF Message
<1>7. IsFinal(y)'
  BY <1>4, <1>6 DEF IsFinal
<1>. QED  BY <1>1, <1>4, <1>5, <1>6, <1>7

LEMMA ReplyFinal ==
  ASSUME IndInv, AskInv, ReplyInv, NothingUndone, TypeOK', AskInv', NEW i \in Ids,
         ServerEnd(i) \/ ServerError(i) \/ ServerCancelled(i)
  PROVE  ReplyInv'
<1>1. TypeOK /\ Served /\ Parity /\ Served'
  BY DEF IndInv, AskInv
<1>2. PICK y \in Messages :
        toClient' = Append(toClient, y) /\ y.id = i /\ IsFinal(y)'
  BY FinalWritten
<1>3. /\ serving[i] \in {"open", "cancelling"}
      /\ \A j \in Ids \ {i} : serving'[j] = serving[j]
  BY FinalWritten
<1>. QED  BY <1>1, <1>2, <1>3, ReplySend

LEMMA ReplyPush ==
  ASSUME IndInv, AskInv, ReplyInv, NothingUndone, NEW t \in Pushes, ServerPush(t)
  PROVE  ReplyInv'
<1>0. TypeOK /\ Served /\ Parity
  BY DEF IndInv, AskInv
<1>1. /\ toClient' = Append(toClient, Message(server_counter, t))
      /\ serving' = serving
  BY DEF ServerPush, Write
<1>2. PICK y \in Messages : y = Message(server_counter, t)
  BY <1>0, TypesAssumption DEF Message, Messages, TypeOK
<1>3. IsPush(y)
  BY <1>0, <1>2 DEF IsPush, Message, Parity
<1>. QED
  BY <1>0, <1>1, <1>2, <1>3, ReplySend

(* What serving says of a request when its opening or its cancel arrives. *)
LEMMA ReceiveOpens ==
  ASSUME IndInv, AskInv, ServerReceive
  PROVE  \A i \in Ids :
           \/ serving'[i] = serving[i]
           \/ serving[i] = "none" /\ serving'[i] = "open"
           \/ serving[i] = "open" /\ serving'[i] = "cancelling"
<1>. PICK m \in Messages : m = Head(toServer)
  BY TailLeft DEF ServerReceive, IndInv, TypeOK
<1>0. TypeOK /\ OpensOnce /\ Contains(toServer, m)
  BY TailLeft DEF ServerReceive, IndInv, AskInv, TypeOK
<1>1. CASE m.type = "CANCEL_REQUEST"
  BY <1>0, <1>1 DEF ServerReceive, TypeOK
<1>2. CASE Opens(m)
  BY <1>0, <1>2 DEF ServerReceive, TypeOK, OpensOnce, Opens
<1>3. CASE ~Opens(m) /\ m.type # "CANCEL_REQUEST"
  BY <1>0, <1>3 DEF ServerReceive, Opens
<1>. QED  BY <1>1, <1>2, <1>3

LEMMA ReplyInit == Init => ReplyInv
  BY EmptySeq DEF Init, ReplyInv, FromServer, FinalIsLast, Contains, Precedes

LEMMA ReplyStep ==
  IndInv /\ AskInv /\ ReplyInv /\ [Next]_vars => ReplyInv'
<1>. SUFFICES ASSUME IndInv, AskInv, ReplyInv, [Next]_vars
              PROVE  ReplyInv'
  OBVIOUS
<1>0. TypeOK /\ Served /\ NothingUndone /\ TypeOK' /\ AskInv'
  BY Forward, TypeStep, AskStep DEF IndInv, AskInv
<1>1. CASE /\ serving' = serving
           /\ toClient' \in {toClient, Tail(toClient), <<>>}
           /\ toClient' = Tail(toClient) => toClient # <<>>
  <2>1. LeftOf(toClient', toClient)
    BY <1>0, <1>1, NothingLeft, TailLeft DEF TypeOK
  <2>. QED  BY <1>0, <1>1, <2>1, ReplyStays
<1>2. CASE ServerReceive
  <2>1. toClient' = toClient
    BY <1>2 DEF ServerReceive
  <2>. QED  BY <1>0, <1>2, <2>1, ReceiveOpens, ReplyStays, NothingLeft DEF Over
<1>3. ASSUME NEW i \in Ids, ServerItem(i) \/ ServerLateBegin(i)
      PROVE  ReplyInv'
  BY <1>0, <1>3, ReplyItem
<1>4. ASSUME NEW i \in Ids,
             ServerEnd(i) \/ ServerError(i) \/ ServerCancelled(i)
      PROVE  ReplyInv'
  BY <1>0, <1>4, ReplyFinal
<1>5. ASSUME NEW t \in Pushes, ServerPush(t)
      PROVE  ReplyInv'
  BY <1>0, <1>5, ReplyPush
<1>6. CASE \/ \E k \in Kinds : Start(k) \/ StartRaises(k)
           \/ StartNoop
           \/ \E i \in Ids : Cancel(i) \/ Abort(i)
           \/ UNCHANGED vars
  <2>1. serving' = serving /\ toClient' = toClient
    BY <1>6 DEF Start, StartRaises, StartNoop, Cancel, Abort, serverVars, vars
  <2>. QED  BY <1>0, <2>1, NothingLeft, ReplyStays
<1>7. CASE processMessage
  <2>1. PICK m : toClient # <<>> /\
          \/ KeepItem(m) \/ ItemRaises(m) \/ End(m) \/ Refuse(m)
          \/ Handle(m) \/ HandleRaises(m) \/ Unhandled(m)
          \/ Invalid(m) \/ InvalidRaises(m)
    BY <1>7 DEF processMessage
  <2>2. serving' = serving /\ toClient' \in {Tail(toClient), <<>>}
    BY <2>1 DEF KeepItem, ItemRaises, End, Refuse, Handle, HandleRaises,
       Unhandled, Invalid, InvalidRaises, Consume, connectionLost, serverVars
  <2>. QED  BY <1>1, <2>1, <2>2
<1>8. CASE ConnectionLost
  BY <1>0, <1>8, NothingLeft, ReplyStays DEF ConnectionLost, connectionLost, serverVars
<1>. QED
  BY <1>2, <1>3, <1>4, <1>5, <1>6, <1>7, <1>8 DEF Next

(* A final answer of the server is in the queue once, and behind it comes   *)
(* nothing for the same request but a permission to upload that the cancel  *)
(* has crossed.                                                             *)
THEOREM AnswersAreInOrder == Spec => []ReplyInv
  BY ReplyInit, ReplyStep, HandlerCorrect, RequestsOpenOnce, PTL DEF Spec

-----------------------------------------------------------------------------
(* VerdictInv is inductive. *)

Settled(i) == deferred[i] \in {"callback", "errback"}

Refused(i) ==
  \/ serving[i] \in {"refused", "cancelled"}
  \/ serving[i] = "answered" /\ kind[i] \in Misread

Judged(i) ==
  /\ deferred[i] = "callback" /\ kind[i] # "Noop" => serving[i] = "answered"
  /\ deferred[i] = "errback" => i \in failed \/ Refused(i)
  /\ \A m \in Messages :
       Contains(toClient, m) /\ m.id = i /\ i \notin failed => IsLate(m)

LEMMA VerdictJudges ==
  VerdictInv <=> (\A i \in Ids : Settled(i) => Judged(i)) /\ LostIsDown
  BY DEF VerdictInv, DoneMeansAnswered, ErrorMeansRefused, NothingMore, Settled,
     Judged, Refused

(* The server is not told of a settled request anything that it would have  *)
(* to answer: it is through with it.                                        *)
LEMMA SettledIsOver ==
  ASSUME IndInv, AskInv, VerdictInv, NEW i \in Ids, Settled(i), i \notin failed,
         serving[i] # "none"
  PROVE  serving[i] \in Over
BY DEF AskInv, Served, Taken, VerdictInv, DoneMeansAnswered, ErrorMeansRefused,
   Settled, Over

(* Nothing is written, and every request that is settled by the step is     *)
(* settled rightly.                                                         *)
LEMMA VerdictStays ==
  ASSUME VerdictInv, NothingUndone, LeftOf(toClient', toClient),
         \A i \in Ids : serving[i] \in Over => serving'[i] = serving[i],
         \A i \in Ids : Settled(i)' => deferred'[i] = deferred[i] \/ Judged(i)',
         \A i \in Ids : deferred'[i] = "lost" => conn' = "lost"
  PROVE  VerdictInv'
<1>1. ASSUME NEW i \in Ids, Settled(i)'
      PROVE  Judged(i)'
  <2>1. CASE deferred'[i] = deferred[i]
    <3>1. Settled(i) /\ Judged(i) /\ kind'[i] = kind[i]
      BY <1>1, <2>1, VerdictJudges DEF Settled, NothingUndone
    <3>2. \A m \in Messages :
            Contains(toClient', m) /\ m.id = i /\ i \notin failed'
              => IsLate(m)'
      BY <3>1 DEF Judged, LeftOf, IsLate, NothingUndone
    <3>. QED
      BY <1>1, <2>1, <3>1, <3>2 DEF Judged, Refused, Settled, Over, NothingUndone
  <2>. QED  BY <1>1, <2>1
<1>2. LostIsDown'
  BY DEF LostIsDown
<1>. QED  BY <1>1, <1>2
  DEF VerdictInv, DoneMeansAnswered, ErrorMeansRefused, NothingMore, Settled,
      Judged, Refused

(* The server writes y. *)
LEMMA VerdictSend ==
  ASSUME TypeOK, VerdictInv, UNCHANGED <<deferred, kind, failed, cancelled, conn>>,
         NEW y \in Messages, toClient' = Append(toClient, y),
         y.id \in Ids \ failed /\ Settled(y.id) => IsLate(y),
         \A i \in Ids : serving[i] \in Over => serving'[i] = serving[i]
  PROVE  VerdictInv'
<1>1. \A m : Contains(toClient', m) => Contains(toClient, m) \/ m = y
  BY AppendAdds DEF TypeOK
<1>2. ASSUME NEW i \in Ids, Settled(i)'
      PROVE  Judged(i)'
  <2>1. Settled(i) /\ Judged(i)
    BY <1>2, VerdictJudges DEF Settled
  <2>2. \A m \in Messages :
          Contains(toClient', m) /\ m.id = i /\ i \notin failed => IsLate(m)
    BY <1>1, <2>1 DEF Judged
  <2>. QED  BY <1>2, <2>1, <2>2 DEF Judged, Refused, Over, IsLate
<1>3. LostIsDown'
  BY DEF VerdictInv, LostIsDown
<1>. QED  BY <1>2, <1>3
  DEF VerdictInv, DoneMeansAnswered, ErrorMeansRefused, NothingMore, Settled,
      Judged, Refused

(* The message that a request is handed. *)
LEMMA HeadFacts ==
  ASSUME IndInv, AskInv, ReplyInv, toClient # <<>>,
         NEW m \in Messages, m = Head(toClient), m.id \in requests
  PROVE  /\ m.id \in Ids /\ Taken(m.id) /\ deferred[m.id] = "pending"
         /\ IsItem(m) \/ IsFinal(m)
         /\ Understands(kind[m.id], Class[kind[m.id]])
         /\ \A x \in Messages :
              Contains(Tail(toClient), x) /\ x.id = m.id /\ IsFinal(m) => IsLate(x)
<1>0. TypeOK /\ Served /\ Parity
  BY DEF IndInv, AskInv
<1>1. /\ Contains(toClient, m)
      /\ \A x : Contains(Tail(toClient), x) => Precedes(toClient, m, x)
  BY <1>0, TailLeft DEF TypeOK
<1>2. m.id \in Ids /\ deferred[m.id] = "pending"
  BY DEF IndInv, RegistryExact
<1>3. m.id % 2 = 1
  BY <1>0, <1>2 DEF Parity
<1>4. IsItem(m) \/ IsFinal(m)
  BY <1>1, <1>3 DEF ReplyInv, FromServer, IsPush
<1>5. Taken(m.id)
  BY <1>0, <1>4, ItemFacts, FinalFacts
<1>6. Understands(kind[m.id], Class[kind[m.id]])
  BY <1>5, ClassesUnderstand, KindsAssumption DEF Taken
<1>. QED  BY <1>1, <1>2, <1>4, <1>5, <1>6 DEF ReplyInv, FinalIsLast

(* End and Refuse: the message is the final answer, and the verdict is that *)
(* of the server.                                                           *)
LEMMA EndFacts ==
  ASSUME IndInv, AskInv, ReplyInv, toClient # <<>>,
         NEW m \in Messages, m = Head(toClient), m.id \in requests
  PROVE  /\ m.type \in Class[kind[m.id]].ends =>
              IsFinal(m) /\ serving[m.id] = "answered"
         /\ m.type \notin Class[kind[m.id]].items \cup Class[kind[m.id]].ends =>
              IsFinal(m) /\ Refused(m.id)
<1>0. TypeOK /\ Served
  BY DEF IndInv, AskInv
<1>1. (IsItem(m) \/ IsFinal(m)) /\ Understands(kind[m.id], Class[kind[m.id]])
  BY HeadFacts
<1>2. IsItem(m) =>
        m.type \in Class[kind[m.id]].items /\ m.type \notin Class[kind[m.id]].ends
  BY <1>0, <1>1, ItemFacts DEF Understands
<1>3. IsFinal(m) =>
        /\ serving[m.id] \in Over
        /\ serving[m.id] = "answered" =>
             m.type \in Class[kind[m.id]].ends \/ kind[m.id] \in Misread
        /\ serving[m.id] # "answered" => m.type \notin Class[kind[m.id]].ends
  BY <1>0, <1>1, FinalFacts DEF Understands
<1>. QED  BY <1>1, <1>2, <1>3 DEF Over, Refused

LEMMA MessageJudges ==
  ASSUME IndInv, AskInv, ReplyInv, VerdictInv, NothingUndone, processMessage
  PROVE  VerdictInv'
<1>0. TypeOK /\ LostIsDown /\ conn = "up" /\ toClient # <<>>
  BY DEF IndInv, VerdictInv, processMessage
<1>. PICK m \in Messages : m = Head(toClient)
  BY <1>0, TailLeft DEF TypeOK
<1>1. \/ KeepItem(m) \/ ItemRaises(m) \/ End(m) \/ Refuse(m)
      \/ Handle(m) \/ HandleRaises(m) \/ Unhandled(m)
      \/ Invalid(m) \/ InvalidRaises(m)
  BY DEF processMessage
<1>2. LeftOf(Tail(toClient), toClient) /\ LeftOf(<<>>, toClient)
  BY <1>0, TailLeft, NothingLeft DEF TypeOK
<1>3. CASE \/ KeepItem(m) \/ Handle(m) \/ Invalid(m)
           \/ HandleRaises(m) \/ Unhandled(m) \/ InvalidRaises(m)
  <2>1. /\ UNCHANGED <<serving, deferred>>
        /\ toClient' \in {Tail(toClient), <<>>}
    BY <1>3 DEF KeepItem, Handle, HandleRaises, Unhandled, Invalid, InvalidRaises,
       Consume, connectionLost, serverVars, clientVars
  <2>2. \A i \in Ids : deferred'[i] # "lost"
    BY <1>0, <2>1 DEF LostIsDown
  <2>. QED  BY <1>2, <2>1, <2>2, VerdictStays
<1>4. CASE ItemRaises(m) \/ End(m) \/ Refuse(m)
  <2>1. /\ m.id \in requests /\ toClient' = Tail(toClient)
        /\ serving' = serving /\ kind' = kind /\ cancelled' = cancelled
        /\ \E how \in {"callback", "errback"} :
             deferred' = [deferred EXCEPT ![m.id] = how]
    BY <1>4 DEF ItemRaises, End, Refuse, ForRequest, serverVars, done, error, Consume
  <2>2. /\ m.id \in Ids
        /\ \A i \in Ids \ {m.id} : deferred'[i] = deferred[i]
        /\ deferred'[m.id] \in {"callback", "errback"}
    BY <1>0, <2>1, HeadFacts DEF TypeOK
  <2>3. Judged(m.id)'
    <3>1. CASE ItemRaises(m)
      <4>1. m.id \in failed' /\ deferred'[m.id] = "errback"
        BY <1>0, <2>2, <3>1 DEF ItemRaises, error, TypeOK
      <4>. QED  BY <4>1 DEF Judged
    <3>2. CASE End(m) \/ Refuse(m)
      <4>1. /\ IsFinal(m)
            /\ deferred'[m.id] = "callback" => serving[m.id] = "answered"
            /\ deferred'[m.id] = "errback" => Refused(m.id)
        BY <1>0, <2>1, <2>2, <3>2, EndFacts DEF End, Refuse, done, error, TypeOK
      <4>2. \A x \in Messages :
              Contains(toClient', x) /\ x.id = m.id => IsLate(x)
        BY <1>0, <2>1, <4>1, HeadFacts
      <4>. QED  BY <2>1, <4>1, <4>2 DEF Judged, Refused, IsLate
    <3>. QED  BY <1>4, <3>1, <3>2
  <2>4. \A i \in Ids : deferred'[i] # "lost"
    BY <1>0, <2>2 DEF LostIsDown
  <2>. QED  BY <1>2, <2>1, <2>2, <2>3, <2>4, VerdictStays
<1>. QED  BY <1>1, <1>3, <1>4

LEMMA VerdictInit == Init => VerdictInv
  BY DEF Init, VerdictInv, DoneMeansAnswered, ErrorMeansRefused, NothingMore,
     LostIsDown

(* Nothing has been written under the id that is given out next. *)
LEMMA NewIdUnheard ==
  ASSUME IndInv, AskInv, ReplyInv, request_counter \in Ids
  PROVE  \A m \in Messages : Contains(toClient, m) => m.id # request_counter
<1>. SUFFICES ASSUME NEW m \in Messages, Contains(toClient, m),
                     m.id = request_counter
              PROVE  FALSE
  OBVIOUS
<1>0. TypeOK /\ Served
  BY DEF IndInv, AskInv
<1>1. m.id % 2 = 1 /\ deferred[m.id] = "none"
  BY NewId
<1>2. IsItem(m) \/ IsFinal(m)
  BY <1>1 DEF ReplyInv, FromServer, IsPush
<1>. QED  BY <1>0, <1>1, <1>2, ItemFacts, FinalFacts DEF Taken

LEMMA NoopJudges ==
  ASSUME IndInv, AskInv, ReplyInv, VerdictInv, NothingUndone, StartNoop
  PROVE  VerdictInv'
<1>. PICK i \in Ids : i = request_counter
  BY DEF StartNoop, get_new_request_id
<1>0. TypeOK /\ LostIsDown
  BY DEF IndInv, VerdictInv
<1>1. /\ deferred' = [deferred EXCEPT ![i] = "callback"]
      /\ kind' = [kind EXCEPT ![i] = "Noop"]
      /\ UNCHANGED <<conn, serving, toClient>>
  BY DEF StartNoop, connVars, serverVars
<1>2. /\ \A j \in Ids \ {i} : deferred'[j] = deferred[j]
      /\ deferred'[i] = "callback" /\ kind'[i] = "Noop"
  BY <1>0, <1>1 DEF TypeOK
<1>3. \A m \in Messages : Contains(toClient, m) => m.id # i
  BY NewIdUnheard
<1>4. Judged(i)'
  BY <1>1, <1>2, <1>3 DEF Judged
<1>5. \A j \in Ids : deferred'[j] = "lost" => conn' = "lost"
  BY <1>0, <1>1, <1>2 DEF LostIsDown
<1>. QED  BY <1>1, <1>2, <1>4, <1>5, NothingLeft, VerdictStays

LEMMA ServerJudges ==
  ASSUME IndInv, AskInv, VerdictInv, NEW i \in Ids,
         \/ ServerItem(i) \/ ServerLateBegin(i)
         \/ ServerEnd(i) \/ ServerError(i) \/ ServerCancelled(i)
  PROVE  VerdictInv'
<1>0. TypeOK
  BY DEF IndInv
<1>1. UNCHANGED <<deferred, kind, failed, cancelled, conn>>
  BY DEF ServerItem, ServerLateBegin, ServerEnd, ServerError, ServerCancelled,
     clientVars, connVars
<1>2. \E t \in MessageType :
        /\ toClient' = Append(toClient, Message(i, t))
        /\ \/ serving[i] \in {"open", "cancelling"}
           \/ /\ serving[i] # "none" /\ serving' = serving
              /\ t = "BEGIN_CONTENT" /\ i \in cancelled
  <2>1. CASE ServerItem(i) \/ ServerLateBegin(i)
    BY <2>1, ItemsMessageType
    DEF ServerItem, ServerLateBegin, Serving, Write, MessageType
  <2>2. CASE ServerEnd(i) \/ ServerError(i) \/ ServerCancelled(i)
    <3>1. kind[i] \in Kinds \cup {"none"}
      BY <1>0 DEF TypeOK
    <3>. QED
      BY <2>2, <3>1, TypesAssumption
      DEF ServerEnd, ServerError, ServerCancelled, Serving, Write, MessageType
  <2>. QED  BY <2>1, <2>2
<1>3. PICK t \in MessageType :
        /\ toClient' = Append(toClient, Message(i, t))
        /\ \/ serving[i] \in {"open", "cancelling"}
           \/ /\ serving[i] # "none" /\ serving' = serving
              /\ t = "BEGIN_CONTENT" /\ i \in cancelled
  BY <1>2
<1>4. PICK y \in Messages : y = Message(i, t)
  BY IdsAreNat DEF Message, Messages
<1>5. y.id = i /\ y.type = t
  BY <1>4 DEF Message
<1>6. i \notin failed /\ Settled(i) => IsLate(y)
  BY <1>3, <1>5, SettledIsOver DEF IsLate, Over
<1>7. \A j \in Ids : serving[j] \in Over => serving'[j] = serving[j]
  <2>1. CASE serving[i] \in {"open", "cancelling"}
    BY <1>0, <2>1 DEF ServerItem, ServerLateBegin, ServerEnd, ServerError,
       ServerCancelled, TypeOK, Over
  <2>. QED  BY <1>3, <2>1
<1>. QED  BY <1>0, <1>1, <1>3, <1>4, <1>5, <1>6, <1>7, VerdictSend

LEMMA PushJudges ==
  ASSUME IndInv, AskInv, VerdictInv, NEW t \in Pushes, ServerPush(t)
  PROVE  VerdictInv'
<1>0. TypeOK /\ Parity
  BY DEF IndInv, AskInv
<1>1. /\ UNCHANGED <<deferred, kind, failed, cancelled, conn, serving>>
      /\ toClient' = Append(toClient, Message(server_counter, t))
  BY DEF ServerPush, Write, clientVars, connVars
<1>2. PICK y \in Messages : y = Message(server_counter, t)
  BY <1>0, TypesAssumption DEF Message, Messages, TypeOK
<1>3. y.id % 2 = 0
  BY <1>0, <1>2 DEF Message, Parity
<1>4. ~(y.id \in Ids /\ Settled(y.id))
  BY <1>0, <1>3 DEF Parity, Settled
<1>. QED  BY <1>0, <1>1, <1>2, <1>4, VerdictSend

LEMMA VerdictStep ==
  IndInv /\ AskInv /\ ReplyInv /\ VerdictInv /\ [Next]_vars => VerdictInv'
<1>. SUFFICES ASSUME IndInv, AskInv, ReplyInv, VerdictInv, [Next]_vars
              PROVE  VerdictInv'
  OBVIOUS
<1>0. TypeOK /\ LostIsDown /\ NothingUndone
  BY Forward DEF IndInv, VerdictInv
<1>1. ASSUME NEW k \in Kinds, Start(k) \/ StartRaises(k)
      PROVE  VerdictInv'
  <2>1. /\ deferred' = [deferred EXCEPT ![request_counter] = "pending"]
        /\ UNCHANGED <<conn, serving, toClient>>
    BY <1>1 DEF Start, StartRaises, connVars, serverVars
  <2>2. \A i \in Ids : deferred'[i] \in {deferred[i], "pending"}
    BY <1>0, <2>1 DEF TypeOK
  <2>3. /\ \A i \in Ids : Settled(i)' => deferred'[i] = deferred[i]
        /\ \A i \in Ids : deferred'[i] = "lost" => conn' = "lost"
    BY <1>0, <2>1, <2>2 DEF Settled, LostIsDown
  <2>. QED  BY <1>0, <2>1, <2>3, NothingLeft, VerdictStays
<1>2. CASE StartNoop
  BY <1>0, <1>2, NoopJudges
<1>3. ASSUME NEW i \in Ids, Abort(i)
      PROVE  VerdictInv'
  <2>1. /\ deferred' = [deferred EXCEPT ![i] = "lost"]
        /\ UNCHANGED <<conn, serving, toClient>>
        /\ conn = "lost"
    BY <1>0, <1>3 DEF Abort, error, serverVars, IndInv, AbortsWhenLost, TypeOK
  <2>2. \A j \in Ids : deferred'[j] \in {deferred[j], "lost"}
    BY <1>0, <2>1 DEF TypeOK
  <2>3. \A j \in Ids : Settled(j)' => deferred'[j] = deferred[j]
    BY <2>2 DEF Settled
  <2>. QED  BY <1>0, <2>1, <2>3, NothingLeft, VerdictStays
<1>4. CASE \/ \E i \in Ids : Cancel(i)
           \/ ConnectionLost
           \/ UNCHANGED vars
  <2>1. /\ UNCHANGED <<deferred, serving>>
        /\ conn' \in {conn, "lost"} /\ toClient' \in {toClient, <<>>}
    BY <1>4 DEF Cancel, ConnectionLost, connectionLost, serverVars, connVars, vars,
       clientVars
  <2>2. \A i \in Ids : deferred'[i] = "lost" => conn' = "lost"
    BY <1>0, <2>1 DEF LostIsDown
  <2>. QED  BY <1>0, <2>1, <2>2, NothingLeft, VerdictStays
<1>5. CASE processMessage
  BY <1>0, <1>5, MessageJudges
<1>6. CASE ServerReceive
  <2>1. UNCHANGED <<deferred, conn, toClient>>
    BY <1>6 DEF ServerReceive, clientVars, connVars
  <2>2. \A i \in Ids : serving[i] \in Over => serving'[i] = serving[i]
    BY <1>6, ReceiveOpens DEF Over
  <2>3. \A i \in Ids : deferred'[i] = "lost" => conn' = "lost"
    BY <1>0, <2>1 DEF LostIsDown
  <2>. QED  BY <1>0, <2>1, <2>2, <2>3, NothingLeft, VerdictStays
<1>7. ASSUME NEW i \in Ids,
             \/ ServerItem(i) \/ ServerEnd(i) \/ ServerError(i)
             \/ ServerCancelled(i) \/ ServerLateBegin(i)
      PROVE  VerdictInv'
  BY <1>7, ServerJudges
<1>8. ASSUME NEW t \in Pushes, ServerPush(t)
      PROVE  VerdictInv'
  BY <1>8, PushJudges
<1>. QED
  BY <1>1, <1>2, <1>3, <1>4, <1>5, <1>6, <1>7, <1>8 DEF Next

(* The verdict of a request is the server's, or the connection is lost, or  *)
(* a callback raised; and once it is in, nothing but the late permission to *)
(* upload is on its way to the request.                                     *)
THEOREM VerdictsAreTheServers == Spec => []VerdictInv
  BY VerdictInit, VerdictStep, HandlerCorrect, RequestsOpenOnce, AnswersAreInOrder,
     PTL DEF Spec

(* A request reports success only if the server finished that very request. *)
THEOREM SuccessIsAnswered == Spec => []DoneMeansAnswered
<1>1. VerdictInv => DoneMeansAnswered
  BY DEF VerdictInv
<1>. QED  BY <1>1, VerdictsAreTheServers, PTL

(* On a live connection a request reports failure only if the server        *)
(* refused or cancelled it, or a callback raised, or it is a DeleteShare or *)
(* a DeleteVolume that the server has answered as protocol.proto has it: in *)
(* the other 22 classes no legal answer falls through to                    *)
(* _default_process_message.                                                *)
THEOREM FailureIsRefused == Spec => []ErrorMeansRefused
<1>1. VerdictInv => ErrorMeansRefused
  BY DEF VerdictInv
<1>. QED  BY <1>1, VerdictsAreTheServers, PTL

(* What is not for a registered request and has no handler is for one that  *)
(* a callback made fail.                                                    *)
LEMMA LateIsHandled ==
  IndInv /\ AskInv /\ ReplyInv /\ VerdictInv => UnhandledOnlyAfterFailure
<1>. SUFFICES ASSUME IndInv, AskInv, ReplyInv, VerdictInv, conn = "up",
                     toClient # <<>>, NEW m \in Messages, m = Head(toClient),
                     m.type # "INVALID", m.id \notin requests, m.type \notin Handled
              PROVE  m.id \in failed
  BY TailLeft DEF UnhandledOnlyAfterFailure, Unsolicited, IndInv, TypeOK
<1>0. TypeOK /\ Served /\ LostIsDown /\ Contains(toClient, m)
  BY TailLeft DEF IndInv, AskInv, VerdictInv, TypeOK
<1>1. ~IsPush(m)
  BY ServerAssumption DEF IsPush, AllPushes
<1>2. Taken(m.id)
  BY <1>0, <1>1, ItemFacts, FinalFacts DEF ReplyInv, FromServer
<1>3. m.id \in Ids /\ deferred[m.id] \notin {"none", "pending"}
  BY <1>2 DEF Taken, IndInv, RegistryExact
<1>4. deferred[m.id] \in {"callback", "errback"}
  BY <1>0, <1>3 DEF LostIsDown, TypeOK, Fired
<1>5. ~IsLate(m)
  BY DEF IsLate, Handled, Silent
<1>. QED  BY <1>0, <1>3, <1>4, <1>5 DEF VerdictInv, NothingMore

(* A late answer takes the connection down only for a request that a        *)
(* callback of the user made fail: a cancel never does.                     *)
THEOREM LateAnswersAreHandled == Spec => []UnhandledOnlyAfterFailure
  BY LateIsHandled, HandlerCorrect, RequestsOpenOnce, AnswersAreInOrder,
     VerdictsAreTheServers, PTL

-----------------------------------------------------------------------------
(* The items for one request in a queue, counted. *)

Counts(m, i) == m.id = i /\ m.type \in ItemTypes

LEMMA PlacesFinite ==
  ASSUME NEW q \in Seq(Messages), NEW i
  PROVE  IsFiniteSet(Places(q, i)) /\ Cardinality(Places(q, i)) \in Nat
<1>1. Len(q) \in Nat
  BY LenProperties
<1>2. IsFiniteSet(1 .. Len(q))
  BY <1>1, FS_Interval
<1>3. Places(q, i) \in SUBSET (1 .. Len(q))
  BY DEF Places
<1>4. IsFiniteSet(Places(q, i))
  BY <1>2, <1>3, FS_Subset
<1>. QED  BY <1>4, FS_CardinalityType

LEMMA NoPlaces ==
  ASSUME NEW q, NEW i, \A m : Contains(q, m) => ~Counts(m, i)
  PROVE  Cardinality(Places(q, i)) = 0
<1>1. Places(q, i) = {}
  BY DEF Places, Contains, Counts
<1>. QED  BY <1>1, FS_EmptySet

LEMMA PlacesAppend ==
  ASSUME NEW q \in Seq(Messages), NEW y \in Messages, NEW i
  PROVE  Cardinality(Places(Append(q, y), i)) =
           Cardinality(Places(q, i)) + (IF Counts(y, i) THEN 1 ELSE 0)
<1>1. /\ Len(Append(q, y)) = Len(q) + 1
      /\ \A n \in 1 .. Len(q) : Append(q, y)[n] = q[n]
      /\ Append(q, y)[Len(q) + 1] = y
      /\ Len(q) \in Nat
  BY AppendProperties, LenProperties
<1>2. \A n : n \in 1 .. Len(q) + 1 <=> n \in 1 .. Len(q) \/ n = Len(q) + 1
  BY <1>1
<1>3. Len(q) + 1 \notin Places(q, i)
  BY <1>1 DEF Places
<1>4. CASE Counts(y, i)
  <2>1. Places(Append(q, y), i) = Places(q, i) \cup {Len(q) + 1}
    BY <1>1, <1>2, <1>4 DEF Places, Counts
  <2>. QED  BY <1>3, <1>4, <2>1, PlacesFinite, FS_AddElement
<1>5. CASE ~Counts(y, i)
  <2>1. Places(Append(q, y), i) = Places(q, i)
    BY <1>1, <1>2, <1>5 DEF Places, Counts
  <2>. QED  BY <1>5, <2>1, PlacesFinite
<1>. QED  BY <1>4, <1>5

LEMMA PlacesTail ==
  ASSUME NEW q \in Seq(Messages), q # <<>>, NEW i
  PROVE  Cardinality(Places(q, i)) =
           Cardinality(Places(Tail(q), i)) + (IF Counts(Head(q), i) THEN 1 ELSE 0)
<1>1. /\ Head(q) = q[1] /\ Tail(q) \in Seq(Messages)
      /\ Len(Tail(q)) = Len(q) - 1
      /\ \A n \in 1 .. Len(Tail(q)) : Tail(q)[n] = q[n + 1]
      /\ Len(q) \in Nat /\ Len(q) >= 1
  BY HeadTailProperties, LenProperties, EmptySeq
<1>. DEFINE T == Places(Tail(q), i)
            R == Places(q, i) \ {1}
            shift == [n \in T |-> n + 1]
<1>2. \A n : n \in 1 .. Len(Tail(q)) <=> n \in Nat /\ n >= 1 /\ n <= Len(q) - 1
  BY <1>1
<1>3. \A n \in T : n \in Nat /\ n + 1 \in R
  BY <1>1, <1>2 DEF Places
<1>4. \A n \in R : n - 1 \in T /\ (n - 1) + 1 = n
  <2>. SUFFICES ASSUME NEW n \in R
                PROVE  n - 1 \in T /\ (n - 1) + 1 = n
    OBVIOUS
  <2>1. n \in 2 .. Len(q) /\ q[n].id = i /\ q[n].type \in ItemTypes
    BY <1>1 DEF Places
  <2>2. n - 1 \in 1 .. Len(Tail(q)) /\ (n - 1) + 1 = n
    BY <1>1, <2>1
  <2>3. Tail(q)[n - 1] = q[n]
    BY <1>1, <2>2
  <2>. QED  BY <2>1, <2>2, <2>3 DEF Places
<1>5. shift \in Bijection(T, R)
  <2>1. shift \in [T -> R]
    BY <1>3
  <2>2. \A a, b \in T : shift[a] = shift[b] => a = b
    BY <1>3
  <2>3. \A r \in R : \E a \in T : shift[a] = r
    BY <1>4
  <2>. QED  BY <2>1, <2>2, <2>3, Fun_IsBij
<1>6. Cardinality(R) = Cardinality(T) /\ IsFiniteSet(R) /\ Cardinality(T) \in Nat
  <2>1. IsFiniteSet(T) /\ Cardinality(T) \in Nat
    BY <1>1, PlacesFinite
  <2>2. ExistsBijection(T, R)
    BY <1>5 DEF ExistsBijection
  <2>. HIDE DEF T, R
  <2>. QED  BY <2>1, <2>2, FS_Bijection
<1>7. 1 \in Places(q, i) <=> Counts(Head(q), i)
  BY <1>1 DEF Places, Counts
<1>8. CASE Counts(Head(q), i)
  <2>1. Places(q, i) = R \cup {1}
    BY <1>7, <1>8
  <2>. QED  BY <1>6, <1>8, <2>1, FS_AddElement
<1>9. CASE ~Counts(Head(q), i)
  <2>1. Places(q, i) = R
    BY <1>7, <1>9
  <2>2. Cardinality(Places(q, i)) = Cardinality(T)
    BY <1>6, <2>1
  <2>3. Cardinality(T) = Cardinality(T) + 0
    BY <1>6
  <2>. QED  BY <1>9, <2>2, <2>3
<1>. QED  BY <1>8, <1>9

-----------------------------------------------------------------------------
(* CountInv is inductive. *)

Kept(i) == received[i] + Cardinality(Places(toClient, i))

(* No request joins, and nothing is written for one that is not cancelled.  *)
LEMMA CountStays ==
  ASSUME CountInv, NothingUndone, conn' \in {conn, "lost"},
         requests' \subseteq requests,
         conn' = "up" =>
           \A i \in requests' \ cancelled : Kept(i)' = Kept(i) /\ sent'[i] = sent[i],
         \A i \in Ids \ cancelled : deferred'[i] = "callback" =>
           \/ deferred[i] = "callback" /\ received'[i] - sent'[i] = received[i] - sent[i]
           \/ received'[i] = sent'[i],
         TypeOK, TypeOK'
  PROVE  CountInv'
<1>1. cancelled \subseteq cancelled'
  BY DEF NothingUndone
<1>2. Balanced'
  <2>. SUFFICES ASSUME conn' = "up", NEW i \in requests' \ cancelled'
                PROVE  Kept(i)' = sent'[i]
    BY DEF Balanced, Kept
  <2>1. conn = "up" /\ i \in requests \ cancelled
    BY <1>1
  <2>2. Kept(i) = sent[i]
    BY <2>1 DEF CountInv, Balanced, Kept
  <2>. QED  BY <1>1, <2>2
<1>3. DoneMeansComplete'
  <2>. SUFFICES ASSUME NEW i \in Ids, deferred'[i] = "callback", i \notin cancelled'
                PROVE  received'[i] = sent'[i]
    BY DEF DoneMeansComplete
  <2>1. CASE deferred[i] = "callback" /\ received'[i] - sent'[i] = received[i] - sent[i]
    <3>1. received[i] = sent[i]
      BY <1>1, <2>1 DEF CountInv, DoneMeansComplete
    <3>2. /\ received[i] \in Nat /\ sent[i] \in Nat
          /\ received'[i] \in Nat /\ sent'[i] \in Nat
      BY DEF TypeOK
    <3>. QED  BY <2>1, <3>1, <3>2
  <2>. QED  BY <1>1, <2>1
<1>. QED  BY <1>2, <1>3 DEF CountInv

(* A request joins with nothing sent for it and nothing kept.               *)
LEMMA StartCounts ==
  ASSUME IndInv, TypeOK', AskInv, ReplyInv, CountInv, NothingUndone, NEW k \in Kinds,
         Start(k) \/ StartRaises(k)
  PROVE  CountInv'
<1>. PICK i \in Ids : i = request_counter
  BY DEF Start, StartRaises, get_new_request_id
<1>0. TypeOK
  BY DEF IndInv
<1>1. /\ requests' = requests \cup {i}
      /\ deferred' = [deferred EXCEPT ![i] = "pending"]
      /\ UNCHANGED <<conn, cancelled, received, sent, toClient>>
  BY DEF Start, StartRaises, connVars, serverVars
<1>2. sent[i] = 0 /\ received[i] = 0
  BY NewId
<1>3. Cardinality(Places(toClient, i)) = 0
  <2>1. \A m : Contains(toClient, m) => m \in Messages
    BY <1>0, ElementOfSeq DEF TypeOK, Contains
  <2>2. \A m : Contains(toClient, m) => ~Counts(m, i)
    BY <2>1, NewIdUnheard DEF Counts
  <2>. QED  BY <2>2, NoPlaces
<1>4. Balanced'
  BY <1>1, <1>2, <1>3 DEF CountInv, Balanced
<1>5. DoneMeansComplete'
  BY <1>0, <1>1 DEF CountInv, DoneMeansComplete, TypeOK
<1>. QED  BY <1>4, <1>5 DEF CountInv

LEMMA NoopCounts ==
  ASSUME IndInv, TypeOK', AskInv, CountInv, NothingUndone, StartNoop
  PROVE  CountInv'
<1>. PICK i \in Ids : i = request_counter
  BY DEF StartNoop, get_new_request_id
<1>0. TypeOK
  BY DEF IndInv
<1>1. /\ deferred' = [deferred EXCEPT ![i] = "callback"]
      /\ UNCHANGED <<requests, conn, cancelled, received, sent, toClient>>
  BY DEF StartNoop, connVars, serverVars
<1>2. received[i] = sent[i]
  BY NewId
<1>3. \A j \in Ids \ {i} : deferred'[j] = deferred[j]
  BY <1>0, <1>1 DEF TypeOK
<1>. QED  BY <1>0, <1>1, <1>2, <1>3, CountStays DEF Kept

(* An item taken from the queue is kept: only a cancelled download drops    *)
(* what comes.                                                              *)
LEMMA KeepCounts ==
  ASSUME IndInv, TypeOK', AskInv, ReplyInv, CountInv, NothingUndone, toClient # <<>>,
         NEW m \in Messages, m = Head(toClient), KeepItem(m)
  PROVE  CountInv'
<1>0. TypeOK
  BY DEF IndInv
<1>1. /\ m.id \in requests /\ toClient' = Tail(toClient)
      /\ m.type \in Class[kind[m.id]].items
      /\ m.id \notin cancelled => received' = [received EXCEPT ![m.id] = @ + 1]
      /\ received' = received \/ received' = [received EXCEPT ![m.id] = @ + 1]
      /\ UNCHANGED <<requests, conn, cancelled, deferred, sent>>
  BY DEF KeepItem, ForRequest, Ignores, Consume, connVars, serverVars
<1>2. m.id \in Ids /\ deferred[m.id] = "pending" /\ m.type \in ItemTypes
  BY <1>1, HeadFacts DEF Understands
<1>3. ASSUME NEW i \in requests \ cancelled
      PROVE  Kept(i)' = Kept(i)
  <2>1. /\ i \in Ids
        /\ Cardinality(Places(toClient, i)) =
             Cardinality(Places(Tail(toClient), i)) + (IF Counts(m, i) THEN 1 ELSE 0)
        /\ Cardinality(Places(Tail(toClient), i)) \in Nat
    BY <1>0, TailLeft, PlacesTail, PlacesFinite DEF TypeOK
  <2>2. Counts(m, i) <=> m.id = i
    BY <1>2 DEF Counts
  <2>3. received[i] \in Nat /\ received'[i] = received[i] + (IF m.id = i THEN 1 ELSE 0)
    <3>1. CASE m.id = i
      BY <1>0, <1>1, <2>1, <3>1 DEF TypeOK
    <3>2. CASE m.id # i
      <4>1. received'[i] = received[i] /\ received[i] \in Nat
        BY <1>0, <1>1, <1>2, <2>1, <3>2 DEF TypeOK
      <4>2. received[i] = received[i] + 0
        BY <4>1
      <4>. QED  BY <3>2, <4>1, <4>2
    <3>. QED  BY <3>1, <3>2
  <2>. QED  BY <1>1, <2>1, <2>2, <2>3 DEF Kept
<1>4. \A i \in Ids : deferred[i] = "callback" => received'[i] = received[i]
  BY <1>0, <1>1, <1>2 DEF TypeOK
<1>. QED  BY <1>0, <1>1, <1>3, <1>4, CountStays

(* done and error: the request is settled, by its final answer when it      *)
(* succeeds.                                                                *)
LEMMA SettleCounts ==
  ASSUME IndInv, TypeOK', AskInv, ReplyInv, CountInv, NothingUndone, conn = "up", toClient # <<>>,
         NEW m \in Messages, m = Head(toClient),
         ItemRaises(m) \/ End(m) \/ Refuse(m)
  PROVE  CountInv'
<1>0. TypeOK
  BY DEF IndInv
<1>1. /\ m.id \in requests /\ toClient' = Tail(toClient)
      /\ requests' = requests \ {m.id}
      /\ UNCHANGED <<conn, cancelled, received, sent>>
      /\ \/ deferred' = [deferred EXCEPT ![m.id] = "errback"]
         \/ /\ deferred' = [deferred EXCEPT ![m.id] = "callback"]
            /\ m.type \in Class[kind[m.id]].ends
  BY DEF ItemRaises, End, Refuse, ForRequest, done, error, cleanup, Consume, connVars,
     serverVars
<1>2. ASSUME NEW i \in requests' \ cancelled
      PROVE  Kept(i)' = Kept(i)
  <2>1. /\ Cardinality(Places(toClient, i)) =
             Cardinality(Places(Tail(toClient), i)) + (IF Counts(m, i) THEN 1 ELSE 0)
        /\ Cardinality(Places(Tail(toClient), i)) \in Nat
    BY <1>0, TailLeft, PlacesTail, PlacesFinite DEF TypeOK
  <2>2. ~Counts(m, i)
    BY <1>1 DEF Counts
  <2>. QED  BY <1>1, <2>1, <2>2 DEF Kept
<1>3. ASSUME m.type \in Class[kind[m.id]].ends, m.id \notin cancelled
      PROVE  received[m.id] = sent[m.id]
  <2>1. IsFinal(m) /\ m.id \in Ids
    BY <1>1, <1>3, EndFacts, HeadFacts
  <2>2. ASSUME NEW x, Contains(Tail(toClient), x)
        PROVE  ~Counts(x, m.id)
    <3>1. x \in Messages
      BY <1>0, <2>2, TailLeft, ElementOfSeq DEF TypeOK, Contains
    <3>2. x.id = m.id => IsLate(x)
      BY <1>1, <2>1, <2>2, <3>1, HeadFacts
    <3>. QED  BY <1>3, <3>2 DEF Counts, IsLate
  <2>3. Cardinality(Places(Tail(toClient), m.id)) = 0
    BY <2>2, NoPlaces
  <2>4. ~Counts(m, m.id)
    BY <1>0, <2>1, FinalFacts DEF Counts, AskInv
  <2>5. Cardinality(Places(toClient, m.id)) = 0
    BY <1>0, <2>3, <2>4, PlacesTail DEF TypeOK
  <2>6. received[m.id] + 0 = sent[m.id]
    BY <1>1, <1>3, <2>5 DEF CountInv, Balanced
  <2>. QED  BY <1>0, <2>1, <2>6 DEF TypeOK
<1>4. \A i \in Ids \ cancelled : deferred'[i] = "callback" =>
        deferred[i] = "callback" \/ received[i] = sent[i]
  BY <1>0, <1>1, <1>3 DEF TypeOK
<1>. QED  BY <1>0, <1>1, <1>2, <1>4, CountStays

LEMMA MessageCounts ==
  ASSUME IndInv, TypeOK', AskInv, ReplyInv, CountInv, NothingUndone, processMessage
  PROVE  CountInv'
<1>0. TypeOK /\ conn = "up" /\ toClient # <<>>
  BY DEF IndInv, processMessage
<1>. PICK m \in Messages : m = Head(toClient)
  BY <1>0, TailLeft DEF TypeOK
<1>1. CASE KeepItem(m)
  BY <1>0, <1>1, KeepCounts
<1>2. CASE ItemRaises(m) \/ End(m) \/ Refuse(m)
  BY <1>0, <1>2, SettleCounts
<1>3. CASE Handle(m) \/ Invalid(m)
  <2>1. /\ m.id \notin requests \/ m.type = "INVALID"
        /\ toClient' = Tail(toClient)
        /\ UNCHANGED <<requests, conn, cancelled, deferred, received, sent>>
    BY <1>3 DEF Handle, Invalid, Unsolicited, Consume, clientVars, connVars, serverVars
  <2>2. ASSUME NEW i \in requests
        PROVE  Kept(i)' = Kept(i)
    <3>1. /\ Cardinality(Places(toClient, i)) =
               Cardinality(Places(Tail(toClient), i)) + (IF Counts(m, i) THEN 1 ELSE 0)
          /\ Cardinality(Places(Tail(toClient), i)) \in Nat
      BY <1>0, TailLeft, PlacesTail, PlacesFinite DEF TypeOK
    <3>2. ~Counts(m, i)
      BY <2>1 DEF Counts, ItemTypes
    <3>. QED  BY <2>1, <3>1, <3>2 DEF Kept
  <2>. QED  BY <1>0, <2>1, <2>2, CountStays
<1>4. CASE HandleRaises(m) \/ Unhandled(m) \/ InvalidRaises(m)
  <2>1. /\ conn' = "lost"
        /\ UNCHANGED <<requests, cancelled, deferred, received, sent>>
    BY <1>4 DEF HandleRaises, Unhandled, InvalidRaises, connectionLost, serverVars
  <2>. QED  BY <1>0, <2>1, CountStays
<1>. QED  BY <1>1, <1>2, <1>3, <1>4 DEF processMessage

(* The server writes y, and counts it among the items it has sent when it   *)
(* is one.                                                                  *)
LEMMA SendCounts ==
  ASSUME TypeOK, TypeOK', CountInv, NEW y \in Messages,
         toClient' = Append(toClient, y),
         UNCHANGED <<requests, conn, cancelled, deferred, received>>,
         \A i \in requests \ cancelled :
           sent'[i] = sent[i] + (IF Counts(y, i) THEN 1 ELSE 0),
         \A i \in Ids \ cancelled : deferred[i] = "callback" => sent'[i] = sent[i]
  PROVE  CountInv'
<1>1. ASSUME conn = "up", NEW i \in requests \ cancelled
      PROVE  Kept(i)' = sent'[i]
  <2>1. /\ Cardinality(Places(toClient', i)) =
             Cardinality(Places(toClient, i)) + (IF Counts(y, i) THEN 1 ELSE 0)
        /\ Cardinality(Places(toClient, i)) \in Nat
    BY PlacesAppend, PlacesFinite DEF TypeOK
  <2>2. received[i] + Cardinality(Places(toClient, i)) = sent[i] /\ received[i] \in Nat
    BY <1>1 DEF CountInv, Balanced, TypeOK
  <2>. QED  BY <2>1, <2>2 DEF Kept
<1>2. Balanced'
  BY <1>1 DEF Balanced, Kept
<1>3. DoneMeansComplete'
  BY DEF CountInv, DoneMeansComplete
<1>. QED  BY <1>2, <1>3 DEF CountInv

LEMMA ItemCounts ==
  ASSUME IndInv, TypeOK', AskInv, VerdictInv, CountInv, NEW i \in Ids,
         ServerItem(i) \/ ServerLateBegin(i)
  PROVE  CountInv'
<1>0. TypeOK /\ Served
  BY DEF IndInv, AskInv
<1>1. PICK t \in ProtoItems(kind[i]) :
        /\ toClient' = Append(toClient, Message(i, t))
        /\ sent' = [sent EXCEPT ![i] = @ + 1]
        /\ serving[i] \in {"open", "cancelling"} \/ i \in cancelled
        /\ serving[i] # "none"
        /\ UNCHANGED <<requests, conn, cancelled, deferred, received>>
  BY DEF ServerItem, ServerLateBegin, Serving, Write, ProtoItems, clientVars, connVars
<1>2. PICK y \in Messages : y = Message(i, t)
  BY IdsAreNat, ItemsMessageType DEF Message, Messages
<1>3. y.id = i /\ y.type \in ItemTypes
  <2>1. Understands(kind[i], Class[kind[i]])
    BY <1>0, <1>1, ClassesUnderstand, KindsAssumption DEF Served, Taken
  <2>. QED  BY <1>2, <2>1 DEF Message, Understands
<1>4. \A j \in Ids : Counts(y, j) <=> j = i
  BY <1>3 DEF Counts
<1>5. \A j \in requests : sent'[j] = sent[j] + (IF Counts(y, j) THEN 1 ELSE 0)
  <2>1. \A j \in Ids : sent[j] = sent[j] + 0
    BY <1>0 DEF TypeOK
  <2>. QED  BY <1>0, <1>1, <1>4, <2>1 DEF TypeOK
<1>6. \A j \in Ids \ cancelled : deferred[j] = "callback" => sent'[j] = sent[j]
  <2>1. i \notin cancelled => deferred[i] # "callback"
    BY <1>0, <1>1 DEF Served, Taken, VerdictInv, DoneMeansAnswered
  <2>. QED  BY <1>0, <1>1, <2>1 DEF TypeOK
<1>. QED  BY <1>0, <1>1, <1>2, <1>5, <1>6, SendCounts

(* Final answers and pushes are not items of a request that the client has  *)
(* made.                                                                    *)
LEMMA AnswerCounts ==
  ASSUME IndInv, TypeOK', AskInv, CountInv, NEW i \in Ids,
         ServerEnd(i) \/ ServerError(i) \/ ServerCancelled(i)
  PROVE  CountInv'
<1>0. TypeOK /\ Served
  BY DEF IndInv, AskInv
<1>1. /\ serving[i] \in {"open", "cancelling"}
      /\ UNCHANGED <<requests, conn, cancelled, deferred, received, sent>>
  BY DEF ServerEnd, ServerError, ServerCancelled, Serving, clientVars, connVars
<1>2. /\ kind[i] \in Kinds \ {"Noop"} /\ Understands(kind[i], Class[kind[i]])
  BY <1>0, <1>1, ClassesUnderstand, KindsAssumption DEF Served, Taken
<1>3. PICK t \in LegalEnds(kind[i]) \cup {"OK", "ERROR", "CANCELLED"} :
        t \in MessageType /\ toClient' = Append(toClient, Message(i, t))
  <2>1. CASE ServerEnd(i)
    BY <1>2, <2>1, ServerAssumption, TypesAssumption DEF ServerEnd, Write, MessageType
  <2>2. CASE ServerError(i) \/ ServerCancelled(i)
    BY <2>2 DEF ServerError, ServerCancelled, Write, MessageType
  <2>. QED  BY <2>1, <2>2
<1>4. PICK y \in Messages : y = Message(i, t)
  BY IdsAreNat, <1>3 DEF Message, Messages
<1>5. t \notin ItemTypes
  <2>1. CASE t \in LegalEnds(kind[i])
    BY <1>2, <2>1 DEF Understands, MisreadEnds, ItemTypes
  <2>2. CASE t \in {"OK", "ERROR", "CANCELLED"}
    BY <2>2 DEF ItemTypes
  <2>. QED  BY <1>3, <2>1, <2>2
<1>6. \A j : ~Counts(y, j)
  BY <1>4, <1>5 DEF Message, Counts
<1>7. \A j \in Ids : sent[j] = sent[j] + 0
  BY <1>0 DEF TypeOK
<1>. QED  BY <1>0, <1>1, <1>3, <1>4, <1>6, <1>7, SendCounts DEF TypeOK

LEMMA PushCounts ==
  ASSUME IndInv, TypeOK', AskInv, CountInv, NEW t \in Pushes, ServerPush(t)
  PROVE  CountInv'
<1>0. TypeOK /\ Parity
  BY DEF IndInv, AskInv
<1>1. /\ UNCHANGED <<requests, conn, cancelled, deferred, received, sent>>
      /\ toClient' = Append(toClient, Message(server_counter, t))
  BY DEF ServerPush, Write, clientVars, connVars
<1>2. PICK y \in Messages : y = Message(server_counter, t)
  BY <1>0, TypesAssumption DEF Message, Messages, TypeOK
<1>3. y.id % 2 = 0
  BY <1>0, <1>2 DEF Message, Parity
<1>4. \A j \in requests : ~Counts(y, j)
  BY <1>0, <1>3 DEF Counts, Parity, IndInv, RegistryExact
<1>5. \A j \in Ids : sent[j] = sent[j] + 0
  BY <1>0 DEF TypeOK
<1>. QED  BY <1>0, <1>1, <1>2, <1>4, <1>5, SendCounts DEF TypeOK

LEMMA CountInit == Init => CountInv
  BY DEF Init, CountInv, Balanced, DoneMeansComplete

LEMMA CountStep ==
  IndInv /\ AskInv /\ ReplyInv /\ VerdictInv /\ CountInv /\ [Next]_vars
    => CountInv'
<1>. SUFFICES ASSUME IndInv, AskInv, ReplyInv, VerdictInv, CountInv, [Next]_vars
              PROVE  CountInv'
  OBVIOUS
<1>0. TypeOK /\ TypeOK' /\ NothingUndone
  BY Forward, TypeStep DEF IndInv
<1>1. ASSUME NEW k \in Kinds, Start(k) \/ StartRaises(k)
      PROVE  CountInv'
  BY <1>0, <1>1, StartCounts
<1>2. CASE StartNoop
  BY <1>0, <1>2, NoopCounts
<1>3. ASSUME NEW i \in Ids, Abort(i)
      PROVE  CountInv'
  <2>1. /\ deferred' = [deferred EXCEPT ![i] = "lost"]
        /\ requests' = requests \ {i}
        /\ UNCHANGED <<conn, received, sent, toClient>>
        /\ conn # "up"
    BY <1>3 DEF Abort, error, cleanup, serverVars, IndInv, AbortsWhenLost
  <2>2. \A j \in Ids : deferred'[j] = "callback" => deferred[j] = "callback"
    BY <1>0, <2>1 DEF TypeOK
  <2>. QED  BY <1>0, <2>1, <2>2, CountStays
<1>4. CASE \/ \E i \in Ids : Cancel(i)
           \/ ServerReceive
           \/ UNCHANGED vars
  <2>1. UNCHANGED <<requests, conn, deferred, received, sent, toClient>>
    BY <1>4 DEF Cancel, ServerReceive, serverVars, connVars, vars, clientVars
  <2>. QED  BY <1>0, <2>1, CountStays DEF Kept
<1>5. CASE ConnectionLost
  <2>1. /\ conn' = "lost"
        /\ UNCHANGED <<requests, deferred, received, sent>>
    BY <1>5 DEF ConnectionLost, connectionLost, serverVars
  <2>. QED  BY <1>0, <2>1, CountStays
<1>6. CASE processMessage
  BY <1>0, <1>6, MessageCounts
<1>7. ASSUME NEW i \in Ids, ServerItem(i) \/ ServerLateBegin(i)
      PROVE  CountInv'
  BY <1>0, <1>7, ItemCounts
<1>8. ASSUME NEW i \in Ids,
             ServerEnd(i) \/ ServerError(i) \/ ServerCancelled(i)
      PROVE  CountInv'
  BY <1>0, <1>8, AnswerCounts
<1>9. ASSUME NEW t \in Pushes, ServerPush(t)
      PROVE  CountInv'
  BY <1>0, <1>9, PushCounts
<1>. QED
  BY <1>1, <1>2, <1>3, <1>4, <1>5, <1>6, <1>7, <1>8, <1>9 DEF Next

(* A request that succeeds without having been cancelled has kept every     *)
(* item that the server sent for it, whatever else the connection carried   *)
(* in between.                                                              *)
THEOREM SuccessIsComplete == Spec => []DoneMeansComplete
<1>1. CountInv => DoneMeansComplete
  BY DEF CountInv
<1>. QED
  BY <1>1, CountInit, CountStep, HandlerCorrect, RequestsOpenOnce, AnswersAreInOrder,
     VerdictsAreTheServers, PTL DEF Spec

-----------------------------------------------------------------------------
(* NoneForgotten is inductive. *)

LEMMA TailKeeps ==
  ASSUME NEW q \in Seq(Messages), q # <<>>, NEW m, Contains(q, m), m # Head(q)
  PROVE  Contains(Tail(q), m)
<1>1. /\ Head(q) = q[1]
      /\ Len(Tail(q)) = Len(q) - 1
      /\ \A n \in 1 .. Len(Tail(q)) : Tail(q)[n] = q[n + 1]
      /\ Len(q) \in Nat
  BY HeadTailProperties, LenProperties
<1>2. PICK n \in 1 .. Len(q) : q[n] = m
  BY DEF Contains
<1>3. n # 1
  BY <1>1, <1>2
<1>4. n - 1 \in 1 .. Len(Tail(q)) /\ (n - 1) + 1 = n
  BY <1>1, <1>2, <1>3
<1>5. Tail(q)[n - 1] = m
  BY <1>1, <1>2, <1>4
<1>. QED  BY <1>4, <1>5 DEF Contains

LEMMA AppendKeeps ==
  ASSUME NEW q \in Seq(Messages), NEW y \in Messages
  PROVE  /\ Contains(Append(q, y), y)
         /\ \A m : Contains(q, m) => Contains(Append(q, y), m)
<1>1. /\ Len(Append(q, y)) = Len(q) + 1
      /\ \A n \in 1 .. Len(q) : Append(q, y)[n] = q[n]
      /\ Append(q, y)[Len(q) + 1] = y
      /\ Len(q) \in Nat
  BY AppendProperties, LenProperties
<1>2. 1 .. Len(q) \subseteq 1 .. Len(q) + 1 /\ Len(q) + 1 \in 1 .. Len(q) + 1
  BY <1>1
<1>. QED  BY <1>1, <1>2 DEF Contains

(* The queues only grow, and the server is not through with a request       *)
(* before its final answer is written.                                      *)
LEMMA WayStays ==
  ASSUME TypeOK, Served, NothingUndone, NEW i \in Ids, OnItsWay(i),
         \A m : Contains(toServer, m) => Contains(toServer', m),
         \A m : Contains(toClient, m) => Contains(toClient', m),
         serving'[i] = serving[i]
  PROVE  OnItsWay(i)'
<1>1. ASSUME NEW m \in Messages, Contains(toClient, m), IsFinal(m), m.id = i
      PROVE  OnItsWay(i)'
  BY <1>1, AnswerStays DEF OnItsWay
<1>. QED  BY <1>1 DEF OnItsWay

LEMMA SendKeepsWay ==
  ASSUME TypeOK, Served, NothingUndone, NoneForgotten, conn' = conn,
         requests' \ unsent' \subseteq requests \ unsent,
         serving' = serving, toClient' = toClient,
         \/ toServer' = toServer
         \/ \E y \in Messages : toServer' = Append(toServer, y)
  PROVE  NoneForgotten'
<1>. SUFFICES ASSUME conn = "up", NEW i \in requests' \ unsent'
              PROVE  OnItsWay(i)'
  BY DEF NoneForgotten
<1>1. i \in Ids /\ OnItsWay(i)
  BY DEF NoneForgotten, TypeOK
<1>2. \A m : Contains(toServer, m) => Contains(toServer', m)
  BY AppendKeeps DEF TypeOK
<1>. QED  BY <1>1, <1>2, WayStays

LEMMA StartKeepsWay ==
  ASSUME IndInv, AskInv, NothingUndone, NoneForgotten, NEW k \in Kinds, Start(k)
  PROVE  NoneForgotten'
<1>. PICK i \in Ids : i = request_counter
  BY DEF Start, get_new_request_id
<1>0. TypeOK /\ Served
  BY DEF IndInv, AskInv
<1>1. /\ k # "Noop" /\ k \in AllKinds
      /\ requests' = requests \cup {i}
      /\ conn = "up" => toServer' = Append(toServer, Message(i, Class[k].sends))
      /\ UNCHANGED <<conn, unsent, serving, toClient>>
  BY KindsAssumption DEF Start, sendMessage, connVars, serverVars
<1>2. PICK y \in Messages : y = Message(i, Class[k].sends)
  BY <1>1, IdsAreNat, SendsMessageType DEF Message, Messages
<1>3. y.id = i /\ Opens(y)
  BY <1>1, <1>2, ClassesUnderstand DEF Message, Opens, Understands
<1>. SUFFICES ASSUME conn = "up", NEW j \in requests' \ unsent'
              PROVE  OnItsWay(j)'
  BY <1>1 DEF NoneForgotten
<1>4. /\ \A m : Contains(toServer, m) => Contains(toServer', m)
      /\ Contains(toServer', y)
  <2>1. toServer' = Append(toServer, y) /\ toServer \in Seq(Messages)
    BY <1>0, <1>1, <1>2 DEF TypeOK
  <2>. QED  BY <2>1, AppendKeeps
<1>5. CASE j = i
  BY <1>3, <1>4, <1>5 DEF OnItsWay
<1>6. CASE j # i
  <2>1. j \in Ids /\ OnItsWay(j)
    BY <1>0, <1>1, <1>6 DEF NoneForgotten, TypeOK
  <2>. QED  BY <1>0, <1>1, <1>4, <2>1, WayStays
<1>. QED  BY <1>5, <1>6

(* Taking the final answer out of the queue takes the request out of the    *)
(* registry.                                                                *)
LEMMA MessageKeepsWay ==
  ASSUME IndInv, AskInv, ReplyInv, NothingUndone, NoneForgotten, processMessage
  PROVE  NoneForgotten'
<1>0. TypeOK /\ Served /\ conn = "up" /\ toClient # <<>>
  BY DEF IndInv, AskInv, processMessage
<1>. PICK m \in Messages : m = Head(toClient)
  BY <1>0, TailLeft DEF TypeOK
<1>1. \/ KeepItem(m) \/ ItemRaises(m) \/ End(m) \/ Refuse(m)
      \/ Handle(m) \/ HandleRaises(m) \/ Unhandled(m)
      \/ Invalid(m) \/ InvalidRaises(m)
  BY DEF processMessage
<1>2. ASSUME toClient' = Tail(toClient), serving' = serving, unsent' = unsent,
             requests' \subseteq requests,
             \A x : Contains(toServer, x) => Contains(toServer', x),
             m.id \in requests' => ~IsFinal(m)
      PROVE  NoneForgotten'
  <2>. SUFFICES ASSUME NEW i \in requests' \ unsent'
                PROVE  OnItsWay(i)'
    BY DEF NoneForgotten
  <2>1. i \in Ids /\ OnItsWay(i)
    BY <1>0, <1>2 DEF NoneForgotten, TypeOK
  <2>2. ASSUME NEW x \in Messages, Contains(toClient, x), IsFinal(x), x.id = i
        PROVE  OnItsWay(i)'
    <3>1. Contains(toClient', x)
      BY <1>0, <1>2, <2>2, TailKeeps DEF TypeOK
    <3>2. IsFinal(x)'
      BY <1>0, <1>2, <2>2, AnswerStays
    <3>. QED  BY <2>2, <3>1, <3>2 DEF OnItsWay
  <2>. QED  BY <1>2, <2>1, <2>2 DEF OnItsWay
<1>3. CASE KeepItem(m)
  <2>1. /\ m.id \in requests /\ m.type \in Class[kind[m.id]].items
        /\ UNCHANGED <<serving, unsent, requests, toServer>>
        /\ toClient' = Tail(toClient)
    BY <1>3 DEF KeepItem, ForRequest, Consume, serverVars
  <2>2. m.type \in ItemTypes
    BY <1>0, <2>1, HeadFacts DEF Understands
  <2>3. ~IsFinal(m)
    BY <1>0, <2>2, FinalFacts
  <2>. QED  BY <1>2, <2>1, <2>3
<1>4. CASE ItemRaises(m) \/ End(m) \/ Refuse(m)
  <2>1. /\ requests' = requests \ {m.id}
        /\ UNCHANGED <<serving, unsent, toServer>>
        /\ toClient' = Tail(toClient)
    BY <1>4 DEF ItemRaises, End, Refuse, done, error, cleanup, Consume, serverVars
  <2>. QED  BY <1>2, <2>1
<1>5. CASE Handle(m) \/ Invalid(m)
  <2>1. /\ m.id \notin requests \/ m.type = "INVALID"
        /\ UNCHANGED <<serving, unsent, requests>>
        /\ toClient' = Tail(toClient)
        /\ \/ toServer' = toServer
           \/ sendMessage(m.id, "PONG") \/ sendMessage(m.id, "ERROR")
    BY <1>5 DEF Handle, Invalid, Unsolicited, Consume, clientVars, serverVars
  <2>2. m.id \in requests => ~IsFinal(m)
    <3>1. ASSUME m.type = "INVALID", IsFinal(m)
          PROVE  FALSE
      BY <1>0, <3>1, FinalFacts
    <3>. QED  BY <2>1, <3>1
  <2>3. \A x : Contains(toServer, x) => Contains(toServer', x)
    <3>1. ASSUME NEW t \in {"PONG", "ERROR"}, sendMessage(m.id, t),
                 NEW x, Contains(toServer, x)
          PROVE  Contains(toServer', x)
      <4>1. PICK y \in Messages : y = Message(m.id, t)
        BY DEF Message, Messages, MessageType
      <4>2. toServer' = Append(toServer, y) \/ toServer' = toServer
        BY <3>1, <4>1 DEF sendMessage
      <4>. QED  BY <1>0, <3>1, <4>2, AppendKeeps DEF TypeOK
    <3>. QED  BY <2>1, <3>1
  <2>. QED  BY <1>2, <2>1, <2>2, <2>3
<1>6. CASE HandleRaises(m) \/ Unhandled(m) \/ InvalidRaises(m)
  <2>1. conn' = "lost"
    BY <1>6 DEF HandleRaises, Unhandled, InvalidRaises, connectionLost
  <2>. QED  BY <2>1 DEF NoneForgotten
<1>. QED  BY <1>1, <1>3, <1>4, <1>5, <1>6

LEMMA ReceiveKeepsWay ==
  ASSUME IndInv, AskInv, NothingUndone, NoneForgotten, ServerReceive
  PROVE  NoneForgotten'
<1>0. TypeOK /\ Served /\ OpensOnce /\ toServer # <<>> /\ conn = "up"
  BY DEF IndInv, AskInv, ServerReceive
<1>. PICK m \in Messages : m = Head(toServer)
  BY <1>0, TailLeft DEF TypeOK
<1>1. /\ UNCHANGED <<requests, unsent, toClient>>
      /\ toServer' = Tail(toServer)
  BY DEF ServerReceive, clientVars
<1>. SUFFICES ASSUME NEW i \in requests \ unsent
              PROVE  OnItsWay(i)'
  BY <1>1 DEF NoneForgotten
<1>2. i \in Ids /\ OnItsWay(i)
  BY <1>0 DEF NoneForgotten, TypeOK
<1>3. CASE \E x \in Messages : Contains(toServer, x) /\ Opens(x) /\ x.id = i
  <2>1. PICK x \in Messages : Contains(toServer, x) /\ Opens(x) /\ x.id = i
    BY <1>3
  <2>2. CASE x = m
    <3>1. serving'[i] = "open"
      BY <1>0, <1>2, <2>1, <2>2 DEF ServerReceive, Opens, TypeOK
    <3>. QED  BY <3>1 DEF OnItsWay
  <2>3. CASE x # m
    <3>1. Contains(toServer', x)
      BY <1>0, <1>1, <2>1, <2>3, TailKeeps DEF TypeOK
    <3>. QED  BY <2>1, <3>1 DEF OnItsWay
  <2>. QED  BY <2>2, <2>3
<1>4. CASE serving[i] \in {"open", "cancelling"}
  <2>1. serving'[i] \in {"open", "cancelling"}
    BY <1>2, <1>4, ReceiveOpens
  <2>. QED  BY <2>1 DEF OnItsWay
<1>5. CASE \E x \in Messages : Contains(toClient, x) /\ IsFinal(x) /\ x.id = i
  <2>1. PICK x \in Messages : Contains(toClient, x) /\ IsFinal(x) /\ x.id = i
    BY <1>5
  <2>2. IsFinal(x)'
    BY <1>0, <1>2, <2>1, AnswerStays, ReceiveOpens DEF Over
  <2>. QED  BY <1>1, <2>1, <2>2 DEF OnItsWay
<1>. QED  BY <1>2, <1>3, <1>4, <1>5 DEF OnItsWay

(* The server writes: an item or a push, or a final answer, which takes the *)
(* place of what it was working on.                                         *)
LEMMA WriteKeepsWay ==
  ASSUME IndInv, AskInv, NothingUndone, NoneForgotten,
         \/ \E i \in Ids : \/ ServerItem(i) \/ ServerLateBegin(i)
                           \/ ServerEnd(i) \/ ServerError(i) \/ ServerCancelled(i)
         \/ \E t \in Pushes : ServerPush(t)
  PROVE  NoneForgotten'
<1>0. TypeOK /\ Served
  BY DEF IndInv, AskInv
<1>1. UNCHANGED <<requests, unsent, conn, toServer>>
  BY DEF ServerItem, ServerLateBegin, ServerEnd, ServerError, ServerCancelled,
     ServerPush, clientVars, connVars
<1>2. ASSUME NEW y \in Messages, toClient' = Append(toClient, y),
             \A i \in Ids : serving'[i] = serving[i] \/ (i = y.id /\ IsFinal(y)')
      PROVE  NoneForgotten'
  <2>. SUFFICES ASSUME conn = "up", NEW i \in requests \ unsent
                PROVE  OnItsWay(i)'
    BY <1>1 DEF NoneForgotten
  <2>1. /\ \A m : Contains(toClient, m) => Contains(toClient', m)
        /\ Contains(toClient', y)
    BY <1>0, <1>2, AppendKeeps DEF TypeOK
  <2>2. i \in Ids /\ OnItsWay(i)
    BY <1>0 DEF NoneForgotten, TypeOK
  <2>3. CASE serving'[i] = serving[i]
    BY <1>0, <1>1, <2>1, <2>2, <2>3, WayStays
  <2>4. CASE i = y.id /\ IsFinal(y)'
    BY <2>1, <2>4 DEF OnItsWay
  <2>. QED  BY <1>2, <2>2, <2>3, <2>4
<1>3. ASSUME NEW i \in Ids, ServerItem(i) \/ ServerLateBegin(i)
      PROVE  NoneForgotten'
  <2>1. PICK t \in ProtoItems(kind[i]) :
          toClient' = Append(toClient, Message(i, t)) /\ serving' = serving
    BY <1>3 DEF ServerItem, ServerLateBegin, Write, ProtoItems
  <2>2. PICK y \in Messages : y = Message(i, t)
    BY IdsAreNat, ItemsMessageType DEF Message, Messages
  <2>. QED  BY <1>2, <2>1, <2>2
<1>4. ASSUME NEW i \in Ids, ServerEnd(i) \/ ServerError(i) \/ ServerCancelled(i)
      PROVE  NoneForgotten'
  <2>1. /\ \A j \in Ids \ {i} : serving'[j] = serving[j]
        /\ \E y \in Messages :
             toClient' = Append(toClient, y) /\ y.id = i /\ IsFinal(y)'
    BY <1>4, FinalWritten
  <2>. QED  BY <1>2, <2>1
<1>5. ASSUME NEW t \in Pushes, ServerPush(t)
      PROVE  NoneForgotten'
  <2>1. toClient' = Append(toClient, Message(server_counter, t)) /\ serving' = serving
    BY <1>5 DEF ServerPush, Write
  <2>2. PICK y \in Messages : y = Message(server_counter, t)
    BY <1>0, TypesAssumption DEF Message, Messages, TypeOK
  <2>. QED  BY <1>2, <2>1, <2>2
<1>. QED  BY <1>3, <1>4, <1>5

LEMMA WayStep ==
  IndInv /\ AskInv /\ ReplyInv /\ NoneForgotten /\ [Next]_vars => NoneForgotten'
<1>. SUFFICES ASSUME IndInv, AskInv, ReplyInv, NoneForgotten, [Next]_vars
              PROVE  NoneForgotten'
  OBVIOUS
<1>0. TypeOK /\ Served /\ NothingUndone
  BY Forward DEF IndInv, AskInv
<1>1. ASSUME NEW k \in Kinds, Start(k)
      PROVE  NoneForgotten'
  BY <1>0, <1>1, StartKeepsWay
<1>2. ASSUME NEW k \in Kinds, StartRaises(k)
      PROVE  NoneForgotten'
  <2>1. /\ requests' = requests \cup {request_counter}
        /\ unsent' = unsent \cup {request_counter}
        /\ UNCHANGED <<conn, serving, toClient, toServer>>
    BY <1>2 DEF StartRaises, connVars, serverVars
  <2>. QED  BY <1>0, <2>1, SendKeepsWay
<1>3. CASE StartNoop
  <2>1. UNCHANGED <<requests, unsent, conn, serving, toClient>>
    BY <1>3 DEF StartNoop, connVars, serverVars
  <2>2. PICK i \in Ids : i = request_counter
    BY <1>3 DEF StartNoop, get_new_request_id
  <2>3. Message(i, Noop.sends) \in Messages
    BY IdsAreNat DEF Message, Messages, Noop, Request, MessageType
  <2>4. \/ toServer' = toServer
        \/ toServer' = Append(toServer, Message(i, Noop.sends))
    BY <1>3, <2>2 DEF StartNoop, sendMessage
  <2>. QED  BY <1>0, <2>1, <2>3, <2>4, SendKeepsWay
<1>4. ASSUME NEW i \in Ids, Cancel(i)
      PROVE  NoneForgotten'
  <2>1. UNCHANGED <<requests, unsent, conn, serving, toClient>>
    BY <1>4 DEF Cancel, connVars, serverVars
  <2>2. Message(i, "CANCEL_REQUEST") \in Messages
    BY IdsAreNat DEF Message, Messages, MessageType
  <2>3. \/ toServer' = toServer
        \/ toServer' = Append(toServer, Message(i, "CANCEL_REQUEST"))
    BY <1>4 DEF Cancel, sendMessage
  <2>. QED  BY <1>0, <2>1, <2>2, <2>3, SendKeepsWay
<1>5. CASE ConnectionLost \/ \E i \in Ids : Abort(i)
  <2>1. conn' # "up"
    BY <1>5 DEF ConnectionLost, connectionLost, Abort, IndInv, AbortsWhenLost
  <2>. QED  BY <2>1 DEF NoneForgotten
<1>6. CASE processMessage
  BY <1>0, <1>6, MessageKeepsWay
<1>7. CASE ServerReceive
  BY <1>0, <1>7, ReceiveKeepsWay
<1>8. CASE \/ \E i \in Ids : \/ ServerItem(i) \/ ServerEnd(i) \/ ServerError(i)
                             \/ ServerCancelled(i) \/ ServerLateBegin(i)
           \/ \E t \in Pushes : ServerPush(t)
  BY <1>0, <1>8, WriteKeepsWay
<1>9. CASE UNCHANGED vars
  BY <1>0, <1>9, SendKeepsWay DEF vars, clientVars, connVars, serverVars
<1>. QED
  BY <1>1, <1>2, <1>3, <1>4, <1>5, <1>6, <1>7, <1>8, <1>9 DEF Next

(* While the connection lives no request waits for nothing, except one      *)
(* whose _start raised: the server has been asked, or works on it, or has   *)
(* answered.  With the fairness of RequestsSettle that makes it end.        *)
THEOREM NoRequestIsForgotten == Spec => []NoneForgotten
<1>1. Init => NoneForgotten
  BY DEF Init, NoneForgotten
<1>. QED
  BY <1>1, WayStep, HandlerCorrect, RequestsOpenOnce, AnswersAreInOrder, PTL DEF Spec
=============================================================================
