----------------------------- MODULE UploadProofs -----------------------------
(* Proofs about Upload, for any number of uploads of files of any size: if  *)
(* they are handed over at their start each is sent in order from the       *)
(* offset asked for, nothing follows a CANCEL_REQUEST, and Upload           *)
(* implements FileTransfer; and none is ever stuck.                         *)

EXTENDS Upload, SequenceTheorems, TLAPS

LEMMA MessageTypes ==
  /\ EOF \in Message /\ CancelRequest \in Message
  /\ \A p \in 0 .. FileSize - 1 : Bytes(p) \in Message
BY DEF Message

LEMMA AppendTyped ==
  ASSUME NEW s \in [Uploads -> Seq(Message)], NEW u \in Uploads, NEW m \in Message
  PROVE  [s EXCEPT ![u] = Append(@, m)] \in [Uploads -> Seq(Message)]
<1>1. Append(s[u], m) \in Seq(Message)
  BY AppendProperties
<1> QED
  BY <1>1

LEMMA PausedTyped ==
  ASSUME NEW rs, NEW pauses, NEW S, NEW who \in SUBSET S
  PROVE  Paused(rs, pauses, who) \in SUBSET S
BY DEF Paused

LEMMA HandlerTyped ==
  ASSUME NEW pauses, handler_producing \in {"yes", "no"}
  PROVE  /\ HandlerPaused(pauses) \in {"yes", "no"}
         /\ AllResumed(pauses) \in {"yes", "no"}
BY DEF HandlerPaused, AllResumed

(* What a write leaves of the connection. *)
ConnTypes ==
  /\ buffer \in {"empty", "some", "full"}
  /\ producerPaused \in {"yes", "no"} /\ throttled \in {"yes", "no"}

LEMMA WriteTyped ==
  ASSUME ConnTypes, NEW rs, NEW pauses, Write(rs, pauses)
  PROVE  ConnTypes'
BY DEF ConnTypes, Write

ProducerTypes ==
  /\ going \in SUBSET begun /\ finished \in SUBSET begun
  /\ offset \in [Uploads -> 0 .. FileSize]
  /\ position \in [Uploads -> 0 .. FileSize]
  /\ go_calls \in [Uploads -> Nat]
  /\ sent \in [Uploads -> Seq(Message)]

LEMMA GoTyped ==
  ASSUME ConnTypes, ProducerTypes,
         NEW u \in Uploads, NEW on \in SUBSET begun', NEW off \in 0 .. FileSize,
         NEW calls \in [Uploads -> Nat], NEW pauses,
         begun \subseteq begun', u \in begun',
         go(u, on, off, calls, pauses)
  PROVE  ConnTypes' /\ ProducerTypes'
<1> DEFINE p == ReadsAt(u, off)
<1>1. p \in 0 .. FileSize /\ FileSize \in Nat
  BY UploadAssumption DEF ReadsAt, ProducerTypes
<1>2. CASE ~Goes(u, on)
  <2>1. /\ going' = on /\ go_calls' = calls
        /\ offset' = [offset EXCEPT ![u] = off]
        /\ UNCHANGED <<finished, position, buffer, producerPaused,
                       throttled, sent>>
    BY <1>2 DEF go
  <2> QED
    BY <2>1 DEF ConnTypes, ProducerTypes
<1>3. CASE Goes(u, on)
  <2>1. ConnTypes'
    BY <1>3, WriteTyped DEF go
  <2>2. CASE p < FileSize
    <3>1. /\ sent' = [sent EXCEPT ![u] = Append(@, Bytes(p))]
          /\ offset' = [offset EXCEPT ![u] = Advanced(off)]
          /\ position' = [position EXCEPT ![u] = p + 1]
          /\ go_calls' = [calls EXCEPT ![u] = @ + 1]
          /\ going' = Paused(Live, pauses, on)
          /\ finished' = finished
      BY <1>3, <2>2 DEF go
    <3>2. sent' \in [Uploads -> Seq(Message)]
      BY <1>1, <2>2, <3>1, AppendTyped, MessageTypes DEF ProducerTypes
    <3>3. Advanced(off) \in 0 .. FileSize
      BY <1>1, <2>2 DEF Advanced, ReadsAt
    <3>4. /\ offset' \in [Uploads -> 0 .. FileSize]
          /\ position' \in [Uploads -> 0 .. FileSize]
          /\ go_calls' \in [Uploads -> Nat]
      BY <1>1, <2>2, <3>1, <3>3 DEF ProducerTypes
    <3>5. going' \in SUBSET begun' /\ finished' \in SUBSET begun'
      BY <3>1, PausedTyped DEF ProducerTypes
    <3> QED
      BY <2>1, <3>2, <3>4, <3>5 DEF ProducerTypes
  <2>3. CASE ~(p < FileSize)
    <3>1. /\ sent' = [sent EXCEPT ![u] = Append(@, EOF)]
          /\ offset' = [offset EXCEPT ![u] = off]
          /\ position' = [position EXCEPT ![u] = p]
          /\ go_calls' = calls
          /\ going' = Paused(Live, pauses, on) \ {u}
          /\ finished' = finished \cup {u}
      BY <1>3, <2>3 DEF go
    <3>2. sent' \in [Uploads -> Seq(Message)]
      BY <3>1, AppendTyped, MessageTypes DEF ProducerTypes
    <3>4. /\ offset' \in [Uploads -> 0 .. FileSize]
          /\ position' \in [Uploads -> 0 .. FileSize]
          /\ go_calls' \in [Uploads -> Nat]
      BY <1>1, <3>1 DEF ProducerTypes
    <3>5. going' \in SUBSET begun' /\ finished' \in SUBSET begun'
      BY <3>1, PausedTyped DEF ProducerTypes
    <3> QED
      BY <2>1, <3>2, <3>4, <3>5 DEF ProducerTypes
  <2> QED
    BY <2>2, <2>3
<1> QED
  BY <1>2, <1>3

-----------------------------------------------------------------------------
(* The type invariant, with the facts that only an upload that has begun    *)
(* produces or finishes.                                                    *)

RestTypes ==
  /\ handler_producing \in {"yes", "no"}
  /\ resuming \in SUBSET Uploads
  /\ state \in [Uploads -> {"new", "live", "over"}]
  /\ cancelled \in SUBSET Uploads /\ producing \in SUBSET Uploads
  /\ begun \in SUBSET Uploads
  /\ conn \in {"open", "lost"}
  /\ asked \in [Uploads -> 0 .. FileSize]

TypeInv == ConnTypes /\ ProducerTypes /\ RestTypes

LEMMA TypeInit == Init => TypeInv
<1> SUFFICES ASSUME Init PROVE TypeInv
  OBVIOUS
<1> USE UploadAssumption DEF Init
<1>1. position \in [Uploads -> 0 .. FileSize]
  OBVIOUS
<1>2. <<>> \in Seq(Message)
  OBVIOUS
<1>3. ConnTypes
  BY DEF ConnTypes
<1>4. ProducerTypes
  BY <1>1, <1>2 DEF ProducerTypes
<1>5. RestTypes
  BY DEF RestTypes
<1> QED
  BY <1>3, <1>4, <1>5 DEF TypeInv

LEMMA LiveAreUploads == Live \in SUBSET Uploads
BY DEF Live

(* A write that pauses producers leaves the rest of them as they were. *)
LEMMA WriteKeeps ==
  ASSUME TypeInv, NEW rs, NEW pauses, Write(rs, pauses),
         going' \in SUBSET going,
         sent' \in [Uploads -> Seq(Message)],
         UNCHANGED <<begun, finished, offset, position, go_calls>>
  PROVE  ConnTypes' /\ ProducerTypes'
<1>1. ConnTypes'
  BY WriteTyped DEF TypeInv
<1> QED
  BY <1>1 DEF TypeInv, ProducerTypes

LEMMA TypeStep == TypeInv /\ [Next]_vars => TypeInv'
<1> SUFFICES ASSUME TypeInv, [Next]_vars PROVE TypeInv'
  OBVIOUS
<1>0. ConnTypes /\ ProducerTypes /\ RestTypes
  BY DEF TypeInv
<1>1. ASSUME NEW u \in Uploads, RunGo(u) PROVE TypeInv'
  <2>1. PICK pauses \in BOOLEAN :
          /\ go(u, going, offset[u], [go_calls EXCEPT ![u] = @ - 1], pauses)
          /\ producing' = Paused(Live, pauses, producing)
          /\ handler_producing' = HandlerPaused(pauses)
    BY <1>1 DEF RunGo
  <2>2. /\ go_calls[u] > 0
        /\ UNCHANGED <<resuming, state, cancelled, begun, conn, asked>>
    BY <1>1 DEF RunGo
  <2>3. u \in begun \/ u \notin going
    BY <1>0 DEF ProducerTypes
  <2>4. /\ going \in SUBSET begun' /\ offset[u] \in 0 .. FileSize
        /\ [go_calls EXCEPT ![u] = @ - 1] \in [Uploads -> Nat]
    BY <1>0, <2>2 DEF ProducerTypes
  <2>5. ConnTypes' /\ ProducerTypes'
    <3>1. CASE u \in begun
      BY <1>0, <2>1, <2>2, <2>4, <3>1, GoTyped
    <3>2. CASE u \notin begun
      <4>1. ~Goes(u, going)
        BY <2>3, <3>2 DEF Goes
      <4>2. /\ going' = going
            /\ go_calls' = [go_calls EXCEPT ![u] = @ - 1]
            /\ offset' = [offset EXCEPT ![u] = offset[u]]
            /\ UNCHANGED <<finished, position, buffer, producerPaused,
                           throttled, sent>>
        BY <2>1, <4>1 DEF go
      <4> QED
        BY <1>0, <2>2, <2>4, <4>2 DEF ConnTypes, ProducerTypes
    <3> QED
      BY <3>1, <3>2
  <2>6. RestTypes'
    BY <1>0, <2>1, <2>2, PausedTyped, HandlerTyped DEF RestTypes
  <2> QED
    BY <2>5, <2>6 DEF TypeInv
<1>2. ASSUME NEW u \in Uploads, Start(u) PROVE TypeInv'
  <2>1. PICK pauses \in BOOLEAN :
          /\ Write(Live \cup {u}, pauses)
          /\ producing' = Paused(Live \cup {u}, pauses,
                            IF handler_producing = "yes" THEN producing \cup {u}
                            ELSE producing)
          /\ going' = Paused(Live, pauses, going)
          /\ handler_producing' = HandlerPaused(pauses)
    BY <1>2 DEF Start
  <2>2. /\ state' = [state EXCEPT ![u] = "live"]
        /\ UNCHANGED <<resuming, cancelled, begun, finished, offset, position,
                       go_calls, conn, sent, asked>>
    BY <1>2 DEF Start
  <2>3. going' \in SUBSET going
    BY <2>1, PausedTyped
  <2>4. ConnTypes' /\ ProducerTypes'
    BY <1>0, <2>1, <2>2, <2>3, WriteKeeps DEF ProducerTypes
  <2>5. producing' \in SUBSET Uploads
    BY <1>0, <2>1, PausedTyped DEF RestTypes
  <2>6. RestTypes'
    BY <1>0, <2>1, <2>2, <2>5, HandlerTyped DEF RestTypes
  <2> QED
    BY <2>4, <2>6 DEF TypeInv
<1>3. ASSUME NEW u \in Uploads, NEW off \in Offsets, BeginContent(u, off)
      PROVE  TypeInv'
  <2>1. PICK pauses \in BOOLEAN :
          /\ go(u, IF u \in producing THEN going \cup {u} ELSE going, off,
                go_calls, pauses)
          /\ producing' = Paused(Live, pauses, producing)
          /\ handler_producing' = HandlerPaused(pauses)
    BY <1>3 DEF BeginContent
  <2>2. /\ begun' = begun \cup {u} /\ asked' = [asked EXCEPT ![u] = off]
        /\ UNCHANGED <<resuming, state, cancelled, conn>>
    BY <1>3 DEF BeginContent
  <2>3. off \in 0 .. FileSize
    BY UploadAssumption
  <2>4. (IF u \in producing THEN going \cup {u} ELSE going) \in SUBSET begun'
    BY <1>0, <2>2 DEF ProducerTypes
  <2>5. go_calls \in [Uploads -> Nat]
    BY <1>0 DEF ProducerTypes
  <2>6. ConnTypes' /\ ProducerTypes'
    BY <1>0, <2>1, <2>2, <2>3, <2>4, <2>5, GoTyped
  <2>7. RestTypes'
    BY <1>0, <2>1, <2>2, <2>3, PausedTyped, HandlerTyped DEF RestTypes
  <2> QED
    BY <2>6, <2>7 DEF TypeInv
<1>4. ASSUME NEW u \in Uploads, Cancel(u) PROVE TypeInv'
  <2>1. PICK pauses \in BOOLEAN :
          /\ Write(Live, pauses)
          /\ going' = Paused(Live, pauses, going \ (begun \cap {u}))
          /\ producing' = Paused(Live, pauses, producing)
          /\ handler_producing' = HandlerPaused(pauses)
    BY <1>4 DEF Cancel
  <2>2. /\ cancelled' = cancelled \cup {u}
        /\ sent' = [sent EXCEPT ![u] = Append(@, CancelRequest)]
        /\ UNCHANGED <<resuming, state, begun, finished, offset, position,
                       go_calls, conn, asked>>
    BY <1>4 DEF Cancel
  <2>3. going' \in SUBSET going
    BY <2>1, PausedTyped
  <2>4. sent' \in [Uploads -> Seq(Message)]
    BY <1>0, <2>2, AppendTyped, MessageTypes DEF ProducerTypes
  <2>5. ConnTypes' /\ ProducerTypes'
    BY <2>1, <2>2, <2>3, <2>4, WriteKeeps
  <2>6. RestTypes'
    BY <1>0, <2>1, <2>2, PausedTyped, HandlerTyped DEF RestTypes
  <2> QED
    BY <2>5, <2>6 DEF TypeInv
<1>5. ASSUME NEW u \in Uploads, EndsWell(u) \/ Refused(u) PROVE TypeInv'
  <2>1. /\ state' = [state EXCEPT ![u] = "over"]
        /\ UNCHANGED <<handler_producing, resuming, cancelled, producing,
                       producerVars, connVars, sent, asked>>
    BY <1>5 DEF EndsWell, Refused, Ends
  <2> QED
    BY <1>0, <2>1
    DEF TypeInv, ConnTypes, ProducerTypes, RestTypes, producerVars, connVars
<1>6. ASSUME NEW u \in Uploads, ResumeRequest(u) PROVE TypeInv'
  <2>1. PICK pauses \in BOOLEAN :
          /\ IF u \in begun
             THEN go(u, going \cup {u}, offset[u], go_calls, pauses)
             ELSE UNCHANGED <<going, finished, offset, position, go_calls,
                              buffer, producerPaused, throttled, sent>>
          /\ producing' = Paused(Live, pauses, producing) \cup {u}
          /\ handler_producing' = IF resuming' = {} THEN AllResumed(pauses)
                                  ELSE HandlerPaused(pauses)
    BY <1>6 DEF ResumeRequest
  <2>2. /\ resuming' = resuming \ {u}
        /\ UNCHANGED <<state, cancelled, begun, conn, asked>>
    BY <1>6 DEF ResumeRequest
  <2>3. /\ offset[u] \in 0 .. FileSize /\ go_calls \in [Uploads -> Nat]
        /\ u \in begun => going \cup {u} \in SUBSET begun'
    BY <1>0, <2>2 DEF ProducerTypes
  <2>4. ConnTypes' /\ ProducerTypes'
    <3>1. CASE u \in begun
      BY <1>0, <2>1, <2>2, <2>3, <3>1, GoTyped
    <3>2. CASE u \notin begun
      BY <1>0, <2>1, <2>2, <3>2 DEF ConnTypes, ProducerTypes
    <3> QED
      BY <3>1, <3>2
  <2>5. producing' \in SUBSET Uploads
    BY <1>0, <2>1, PausedTyped DEF RestTypes
  <2>6. RestTypes'
    BY <1>0, <2>1, <2>2, <2>5, HandlerTyped DEF RestTypes
  <2> QED
    BY <2>4, <2>6 DEF TypeInv
<1>7. CASE Drain \/ UnthrottleWrites
  <2>1. /\ buffer' \in {"empty", buffer} /\ producerPaused' \in {"no", producerPaused}
        /\ throttled' \in {"no", throttled}
        /\ resuming' \in {Live, resuming}
        /\ handler_producing' \in {"yes", handler_producing}
        /\ UNCHANGED <<requestVars, producerVars, conn, sent, asked>>
    BY <1>7 DEF Drain, UnthrottleWrites, resumeProducing, AllResumed
  <2>2. RestTypes'
    BY <1>0, <2>1, LiveAreUploads DEF RestTypes, requestVars, producerVars
  <2>3. ConnTypes' /\ ProducerTypes'
    BY <1>0, <2>1 DEF ConnTypes, ProducerTypes, producerVars
  <2> QED
    BY <2>2, <2>3 DEF TypeInv
<1>8. CASE ConnectionLost
  <2>1. sent' \in [Uploads -> Seq(Message)]
    <3>1. \A u \in Uploads : Append(sent[u], CancelRequest) \in Seq(Message)
      BY <1>0, AppendProperties, MessageTypes DEF ProducerTypes
    <3> QED
      BY <1>0, <1>8, <3>1 DEF ConnectionLost, ProducerTypes
  <2>2. ConnTypes' /\ ProducerTypes'
    BY <1>0, <1>8, <2>1 DEF ConnectionLost, ConnTypes, ProducerTypes
  <2>3. RestTypes'
    BY <1>0, <1>8, LiveAreUploads DEF ConnectionLost, RestTypes
  <2> QED
    BY <2>2, <2>3 DEF TypeInv
<1>9. CASE UNCHANGED vars
  BY <1>0, <1>9 DEF vars, TypeInv, ConnTypes, ProducerTypes, RestTypes,
     requestVars, producerVars, connVars
<1> QED
  BY <1>1, <1>2, <1>3, <1>4, <1>5, <1>6, <1>7, <1>8, <1>9 DEF Next

(* Every variable of the uploads keeps its type. *)
THEOREM TypeCorrect == Spec => []TypeOK
<1>1. TypeInv => TypeOK
  BY DEF TypeInv, ConnTypes, ProducerTypes, RestTypes, TypeOK
<1> QED
  BY <1>1, TypeInit, TypeStep, PTL DEF Spec

-----------------------------------------------------------------------------
(* The messages of one upload: s, when the server has asked for ask. *)

StreamOK(s, ask) ==
  \A i \in 1 .. Len(s) :
    /\ s[i] = CancelRequest => i = Len(s)
    /\ s[i] # CancelRequest =>
         /\ ask + i - 1 <= FileSize
         /\ s[i] = IF ask + i - 1 < FileSize THEN Bytes(ask + i - 1) ELSE EOF
Without(s, m) == \A i \in 1 .. Len(s) : s[i] # m

(* Where an upload that goes on stands: its offset is that of the next      *)
(* payload, or 0, and then the file stands at the next payload.             *)
AtNext(off, pos, ask, n) ==
  /\ ask + n <= FileSize
  /\ off # 0 => off = ask + n
  /\ off = 0 => ask = 0 /\ pos = n

Sending == begun \ (cancelled \cup finished)

Stream ==
  \A u \in Uploads :
    /\ StreamOK(sent[u], asked[u])
    /\ u \notin cancelled => Without(sent[u], CancelRequest)
    /\ u \notin cancelled \cup finished => Without(sent[u], EOF)
    /\ u \in Sending =>
         AtNext(offset[u], position[u], asked[u], Len(sent[u]))
    /\ u \notin begun => /\ \A i \in 1 .. Len(sent[u]) : sent[u][i] = CancelRequest
                         /\ position[u] = 0

LEMMA Distinct ==
  /\ CancelRequest # EOF
  /\ \A p : Bytes(p) # EOF /\ Bytes(p) # CancelRequest
BY DEF CancelRequest, EOF, Bytes

LEMMA AppendFacts ==
  ASSUME NEW s \in Seq(Message), NEW m \in Message
  PROVE  /\ Len(s) \in Nat /\ Len(Append(s, m)) = Len(s) + 1
         /\ \A i \in 1 .. Len(s) : Append(s, m)[i] = s[i]
         /\ Append(s, m)[Len(s) + 1] = m
BY AppendProperties, LenProperties

LEMMA AppendPart ==
  ASSUME NEW s \in Seq(Message), NEW ask \in Nat,
         StreamOK(s, ask), Without(s, CancelRequest), Without(s, EOF),
         ask + Len(s) <= FileSize,
         NEW m \in Message,
         m = IF ask + Len(s) < FileSize THEN Bytes(ask + Len(s)) ELSE EOF
  PROVE  /\ StreamOK(Append(s, m), ask)
         /\ Without(Append(s, m), CancelRequest)
         /\ ask + Len(s) < FileSize => Without(Append(s, m), EOF)
<1>1. /\ Len(s) \in Nat /\ Len(Append(s, m)) = Len(s) + 1
      /\ \A i \in 1 .. Len(s) : Append(s, m)[i] = s[i]
      /\ Append(s, m)[Len(s) + 1] = m
  BY AppendFacts
<1>2. FileSize \in Nat
  BY UploadAssumption
<1>3. m # CancelRequest /\ (ask + Len(s) < FileSize => m # EOF)
  BY Distinct
<1>4. Without(Append(s, m), CancelRequest)
  <2> SUFFICES ASSUME NEW i \in 1 .. Len(s) + 1
               PROVE  Append(s, m)[i] # CancelRequest
    BY <1>1 DEF Without
  <2> QED
    BY <1>1, <1>3 DEF Without
<1>5. ask + Len(s) < FileSize => Without(Append(s, m), EOF)
  <2> SUFFICES ASSUME ask + Len(s) < FileSize, NEW i \in 1 .. Len(s) + 1
               PROVE  Append(s, m)[i] # EOF
    BY <1>1 DEF Without
  <2> QED
    BY <1>1, <1>3 DEF Without
<1>6. StreamOK(Append(s, m), ask)
  <2> SUFFICES ASSUME NEW i \in 1 .. Len(s) + 1
               PROVE  /\ ask + i - 1 <= FileSize
                      /\ Append(s, m)[i] =
                           IF ask + i - 1 < FileSize THEN Bytes(ask + i - 1) ELSE EOF
    BY <1>1, <1>4 DEF StreamOK, Without
  <2>1. CASE i = Len(s) + 1
    <3>1. ask + i - 1 = ask + Len(s)
      BY <1>1, <2>1
    <3> QED
      BY <1>1, <2>1, <3>1
  <2>2. CASE i \in 1 .. Len(s)
    BY <1>1, <2>2 DEF StreamOK, Without
  <2> QED
    BY <1>1, <2>1, <2>2
<1> QED
  BY <1>4, <1>5, <1>6

LEMMA AppendCancel ==
  ASSUME NEW s \in Seq(Message), NEW ask \in Nat,
         StreamOK(s, ask), Without(s, CancelRequest)
  PROVE  StreamOK(Append(s, CancelRequest), ask)
<1>1. /\ Len(s) \in Nat /\ Len(Append(s, CancelRequest)) = Len(s) + 1
      /\ \A i \in 1 .. Len(s) : Append(s, CancelRequest)[i] = s[i]
      /\ Append(s, CancelRequest)[Len(s) + 1] = CancelRequest
  BY AppendFacts, MessageTypes
<1> QED
  BY <1>1 DEF StreamOK, Without

-----------------------------------------------------------------------------
(* The steps, as the streams see them. *)

LEMMA StreamInit ==
  ASSUME StartPositions = {0}
  PROVE  Init => Stream
BY DEF Init, Stream, StreamOK, Without, Sending

(* A step that sends nothing and moves no producer. *)
LEMMA StreamHidden ==
  ASSUME Stream,
         UNCHANGED <<sent, asked, cancelled, begun, finished, offset, position>>
  PROVE  Stream'
BY DEF Stream, Sending

(* go sends the next part of the file or nothing. *)
SendsPart(u, ask) ==
  /\ u \notin cancelled /\ u \notin finished
  /\ sent' = [sent EXCEPT ![u] = Append(@,
                IF ask + Len(@) < FileSize THEN Bytes(ask + Len(@)) ELSE EOF)]

LEMMA StreamGo ==
  ASSUME TypeInv, Stream,
         NEW u \in Uploads, NEW on, NEW off \in 0 .. FileSize,
         NEW ask \in 0 .. FileSize, NEW calls, NEW pauses,
         go(u, on, off, calls, pauses),
         begun' = begun \cup {u}, asked' = [asked EXCEPT ![u] = ask],
         cancelled' = cancelled,
         StreamOK(sent[u], ask),
         u \notin cancelled \cup finished =>
           AtNext(off, position[u], ask, Len(sent[u]))
  PROVE  /\ Stream'
         /\ UNCHANGED sent \/ SendsPart(u, ask)
<1>1. /\ sent \in [Uploads -> Seq(Message)] /\ asked \in [Uploads -> 0 .. FileSize]
      /\ offset \in [Uploads -> 0 .. FileSize]
      /\ position \in [Uploads -> 0 .. FileSize]
      /\ FileSize \in Nat
  BY UploadAssumption DEF TypeInv, ProducerTypes, RestTypes
<1>2. sent[u] \in Seq(Message) /\ Len(sent[u]) \in Nat
  BY <1>1, LenProperties
<1>3. SUFFICES ASSUME UNCHANGED sent \/ SendsPart(u, ask),
                      \A v \in Uploads \ {u} : UNCHANGED <<sent[v], offset[v], position[v], asked[v]>>,
                      finished' \ {u} = finished \ {u},
                      /\ StreamOK(sent'[u], ask)
                      /\ u \notin cancelled => Without(sent'[u], CancelRequest)
                      /\ u \notin cancelled \cup finished' =>
                           /\ Without(sent'[u], EOF)
                           /\ AtNext(offset'[u], position'[u], ask, Len(sent'[u]))
               PROVE  Stream' /\ (UNCHANGED sent \/ SendsPart(u, ask))
  <2>1. CASE ~Goes(u, on)
    <3>1. /\ offset' = [offset EXCEPT ![u] = off]
          /\ UNCHANGED <<finished, position, sent>>
      BY <2>1 DEF go
    <3>2. /\ u \notin cancelled => Without(sent[u], CancelRequest)
          /\ u \notin cancelled \cup finished => Without(sent[u], EOF)
      BY DEF Stream
    <3>3. offset'[u] = off
      BY <1>1, <3>1
    <3>4. \A v \in Uploads \ {u} : UNCHANGED <<sent[v], offset[v], position[v], asked[v]>>
      BY <1>1, <3>1
    <3> QED
      BY <1>3, <3>1, <3>2, <3>3, <3>4
  <2>2. CASE Goes(u, on)
    <3> DEFINE n == Len(sent[u])
    <3>1. u \notin cancelled /\ u \notin finished
      BY <2>2 DEF Goes
    <3>2. /\ AtNext(off, position[u], ask, n)
          /\ Without(sent[u], CancelRequest) /\ Without(sent[u], EOF)
      BY <3>1 DEF Stream
    <3>3. ReadsAt(u, off) = ask + n /\ ask + n <= FileSize
      BY <1>2, <3>2 DEF AtNext, ReadsAt
    <3>4. CASE ask + n < FileSize
      <4>1. /\ sent' = [sent EXCEPT ![u] = Append(@, Bytes(ask + n))]
            /\ offset' = [offset EXCEPT ![u] = Advanced(off)]
            /\ position' = [position EXCEPT ![u] = ask + n + 1]
            /\ finished' = finished
        BY <2>2, <3>3, <3>4 DEF go
      <4>2. Bytes(ask + n) \in Message
        BY <1>1, <1>2, <3>4, MessageTypes
      <4>3. /\ StreamOK(Append(sent[u], Bytes(ask + n)), ask)
            /\ Without(Append(sent[u], Bytes(ask + n)), CancelRequest)
            /\ Without(Append(sent[u], Bytes(ask + n)), EOF)
        BY <1>1, <1>2, <3>2, <3>3, <3>4, <4>2, AppendPart
      <4>4. Len(Append(sent[u], Bytes(ask + n))) = n + 1
        BY <1>2, <4>2, AppendFacts
      <4>5. /\ sent'[u] = Append(sent[u], Bytes(ask + n))
            /\ offset'[u] = Advanced(off) /\ position'[u] = ask + n + 1
            /\ \A v \in Uploads \ {u} : UNCHANGED <<sent[v], offset[v], position[v], asked[v]>>
        BY <1>1, <4>1
      <4>6. AtNext(Advanced(off), ask + n + 1, ask, n + 1)
        BY <1>1, <1>2, <3>2, <3>4 DEF AtNext, Advanced
      <4>7. SendsPart(u, ask)
        BY <3>1, <3>4, <4>1 DEF SendsPart
      <4> QED
        BY <1>3, <4>1, <4>3, <4>4, <4>5, <4>6, <4>7
    <3>5. CASE ask + n = FileSize
      <4>1. /\ sent' = [sent EXCEPT ![u] = Append(@, EOF)]
            /\ offset' = [offset EXCEPT ![u] = off]
            /\ position' = [position EXCEPT ![u] = ask + n]
            /\ finished' = finished \cup {u}
        BY <1>1, <2>2, <3>3, <3>5 DEF go
      <4>2. ~(ask + n < FileSize) /\ ask \in Nat /\ EOF \in Message
        BY <1>1, <3>5, MessageTypes
      <4>4. EOF = IF ask + n < FileSize THEN Bytes(ask + n) ELSE EOF
        BY <4>2
      <4>3. /\ StreamOK(Append(sent[u], EOF), ask)
            /\ Without(Append(sent[u], EOF), CancelRequest)
        BY <1>2, <3>2, <3>3, <4>2, <4>4, AppendPart
      <4>5. /\ sent'[u] = Append(sent[u], EOF)
            /\ \A v \in Uploads \ {u} : UNCHANGED <<sent[v], offset[v], position[v], asked[v]>>
        BY <1>1, <4>1
      <4>7. SendsPart(u, ask)
        BY <3>1, <4>1, <4>4 DEF SendsPart
      <4> QED
        BY <1>3, <4>1, <4>3, <4>5, <4>7
    <3>6. ask + n < FileSize \/ ask + n = FileSize
      <4>1. FileSize \in Nat /\ ask \in Nat /\ n \in Nat
        BY <1>1, <1>2
      <4>2. ask + n <= FileSize
        BY <3>3
      <4> HIDE DEF n
      <4> QED
        BY <4>1, <4>2
    <3> QED
      BY <3>4, <3>5, <3>6
  <2> QED
    BY <2>1, <2>2
<1>4. \A v \in Uploads \ {u} :
        /\ v \in begun' <=> v \in begun
        /\ v \in finished' <=> v \in finished
  BY <1>3
<1>5. asked'[u] = ask /\ u \in begun'
  BY <1>1
<1>6. ASSUME NEW v \in Uploads
      PROVE  /\ StreamOK(sent'[v], asked'[v])
             /\ v \notin cancelled' => Without(sent'[v], CancelRequest)
             /\ v \notin cancelled' \cup finished' => Without(sent'[v], EOF)
             /\ v \in Sending' =>
                  AtNext(offset'[v], position'[v], asked'[v], Len(sent'[v]))
             /\ v \notin begun' =>
                  /\ \A i \in 1 .. Len(sent'[v]) : sent'[v][i] = CancelRequest
                  /\ position'[v] = 0
  <2>1. CASE v = u
    BY <1>3, <1>5, <2>1 DEF Sending
  <2>2. CASE v # u
    BY <1>3, <1>4, <2>2 DEF Stream, Sending
  <2> QED
    BY <2>1, <2>2
<1> QED
  BY <1>3, <1>6 DEF Stream

(* CANCEL_REQUEST is sent for us, which are cancelled with it. *)
LEMMA StreamCancel ==
  ASSUME TypeInv, Stream, NEW us \in SUBSET Uploads,
         us \cap cancelled = {}, cancelled' = cancelled \cup us,
         sent' = [u \in Uploads |-> IF u \in us
                                    THEN Append(sent[u], CancelRequest)
                                    ELSE sent[u]],
         UNCHANGED <<asked, begun, finished, offset, position>>
  PROVE  Stream'
<1>1. /\ sent \in [Uploads -> Seq(Message)] /\ asked \in [Uploads -> 0 .. FileSize]
      /\ FileSize \in Nat
  BY UploadAssumption DEF TypeInv, ProducerTypes, RestTypes
<1>2. SUFFICES ASSUME NEW v \in Uploads
      PROVE  /\ StreamOK(sent'[v], asked'[v])
             /\ v \notin cancelled' => Without(sent'[v], CancelRequest)
             /\ v \notin cancelled' \cup finished' => Without(sent'[v], EOF)
             /\ v \in Sending' =>
                  AtNext(offset'[v], position'[v], asked'[v], Len(sent'[v]))
             /\ v \notin begun' =>
                  /\ \A i \in 1 .. Len(sent'[v]) : sent'[v][i] = CancelRequest
                  /\ position'[v] = 0
  BY DEF Stream
<1>3. CASE v \in us
  <2>1. sent'[v] = Append(sent[v], CancelRequest) /\ sent[v] \in Seq(Message)
    BY <1>1, <1>3
  <2>2. asked[v] \in Nat /\ v \notin cancelled /\ v \in cancelled'
    BY <1>1, <1>3
  <2>3. StreamOK(sent'[v], asked'[v])
    BY <2>1, <2>2, AppendCancel DEF Stream
  <2>4. v \notin begun' =>
          \A i \in 1 .. Len(sent'[v]) : sent'[v][i] = CancelRequest
    <3>1. /\ Len(sent[v]) \in Nat /\ Len(sent'[v]) = Len(sent[v]) + 1
          /\ \A i \in 1 .. Len(sent[v]) : sent'[v][i] = sent[v][i]
          /\ sent'[v][Len(sent[v]) + 1] = CancelRequest
      BY <2>1, AppendFacts, MessageTypes
    <3> QED
      BY <3>1 DEF Stream
  <2> QED
    BY <2>2, <2>3, <2>4 DEF Stream, Sending
<1>4. CASE v \notin us
  BY <1>4 DEF Stream, Sending
<1> QED
  BY <1>3, <1>4

IndInv == TypeInv /\ Stream

(* BEGIN_CONTENT for an upload that has sent nothing yet, but perhaps its   *)
(* CANCEL_REQUEST.                                                          *)
LEMMA BeginReady ==
  ASSUME IndInv, NEW u \in Uploads, u \notin begun, NEW off \in 0 .. FileSize
  PROVE  /\ StreamOK(sent[u], off)
         /\ u \notin cancelled \cup finished =>
              AtNext(off, position[u], off, Len(sent[u]))
<1>1. sent[u] \in Seq(Message) /\ FileSize \in Nat
  BY UploadAssumption DEF IndInv, TypeInv, ProducerTypes
<1>2. Len(sent[u]) \in Nat
  BY <1>1, LenProperties
<1>3. /\ \A i \in 1 .. Len(sent[u]) : /\ sent[u][i] = CancelRequest
                                      /\ sent[u][i] = CancelRequest => i = Len(sent[u])
      /\ position[u] = 0
      /\ u \notin cancelled => Without(sent[u], CancelRequest)
  BY DEF IndInv, Stream, StreamOK
<1>4. StreamOK(sent[u], off)
  BY <1>3 DEF StreamOK
<1>5. u \notin cancelled => Len(sent[u]) = 0
  BY <1>2, <1>3 DEF Without
<1> QED
  BY <1>1, <1>3, <1>4, <1>5 DEF AtNext

(* What a step does to the streams is one of these. *)
HiddenStep == UNCHANGED <<sent, asked, begun>>
PartStep(u) ==
  /\ u \in begun /\ SendsPart(u, asked[u])
  /\ UNCHANGED <<asked, begun>>
AskStep(u, off) ==
  /\ u \notin begun /\ begun' = begun \cup {u}
  /\ asked' = [asked EXCEPT ![u] = off]
  /\ UNCHANGED sent \/ SendsPart(u, off)
CancelStep(us) ==
  /\ us \cap cancelled = {}
  /\ sent' = [u \in Uploads |-> IF u \in us THEN Append(sent[u], CancelRequest)
                                ELSE sent[u]]
  /\ UNCHANGED <<asked, begun>>

StreamStep ==
  \/ HiddenStep
  \/ \E u \in Uploads : PartStep(u) \/ \E off \in 0 .. FileSize : AskStep(u, off)
  \/ \E us \in SUBSET Uploads : CancelStep(us)

(* go of an upload that has begun, from where it stands. *)
LEMMA GoOn ==
  ASSUME IndInv, NEW u \in Uploads, NEW on, NEW calls, NEW pauses,
         go(u, on, offset[u], calls, pauses),
         u \in begun \/ u \notin on,
         UNCHANGED <<begun, asked, cancelled>>
  PROVE  Stream' /\ StreamStep
<1>1. /\ TypeInv /\ Stream
      /\ offset \in [Uploads -> 0 .. FileSize]
      /\ asked \in [Uploads -> 0 .. FileSize]
      /\ begun \in SUBSET Uploads
  BY DEF IndInv, TypeInv, ProducerTypes, RestTypes
<1>2. CASE u \in begun
  <2>1. /\ offset[u] \in 0 .. FileSize /\ asked[u] \in 0 .. FileSize
        /\ begun' = begun \cup {u}
        /\ asked' = [asked EXCEPT ![u] = asked[u]]
        /\ cancelled' = cancelled
    BY <1>1, <1>2
  <2>2. /\ StreamOK(sent[u], asked[u])
        /\ u \notin cancelled \cup finished =>
             AtNext(offset[u], position[u], asked[u], Len(sent[u]))
    BY <1>1, <1>2 DEF Stream, Sending
  <2>3. Stream' /\ (UNCHANGED sent \/ SendsPart(u, asked[u]))
    BY <1>1, <2>1, <2>2, StreamGo
  <2>4. HiddenStep \/ PartStep(u)
    BY <1>2, <2>3 DEF HiddenStep, PartStep
  <2> QED
    BY <2>3, <2>4 DEF StreamStep
<1>3. CASE u \notin begun
  <2>1. /\ offset' = [offset EXCEPT ![u] = offset[u]]
        /\ UNCHANGED <<finished, position, sent>>
    BY <1>3 DEF go, Goes
  <2>2. offset' = offset
    BY <1>1, <2>1
  <2>3. Stream'
    BY <1>1, <2>1, <2>2, StreamHidden
  <2> QED
    BY <2>1, <2>3 DEF StreamStep, HiddenStep
<1> QED
  BY <1>2, <1>3

LEMMA Hidden ==
  ASSUME IndInv,
         UNCHANGED <<sent, asked, cancelled, begun, finished, offset, position>>
  PROVE  Stream' /\ StreamStep
BY StreamHidden DEF IndInv, StreamStep, HiddenStep

LEMMA EveryStep ==
  ASSUME IndInv, [Next]_vars
  PROVE  Stream' /\ StreamStep
<1>0. TypeInv /\ Stream
  BY DEF IndInv
<1>1. ASSUME NEW u \in Uploads, RunGo(u) PROVE Stream' /\ StreamStep
  <2>1. PICK pauses \in BOOLEAN :
          go(u, going, offset[u], [go_calls EXCEPT ![u] = @ - 1], pauses)
    BY <1>1 DEF RunGo
  <2>2. UNCHANGED <<begun, asked, cancelled>>
    BY <1>1 DEF RunGo
  <2>3. u \in begun \/ u \notin going
    BY <1>0 DEF TypeInv, ProducerTypes
  <2> QED
    BY <2>1, <2>2, <2>3, GoOn
<1>2. ASSUME NEW u \in Uploads, Start(u) PROVE Stream' /\ StreamStep
  BY <1>2, Hidden DEF Start
<1>3. ASSUME NEW u \in Uploads, NEW off \in Offsets, BeginContent(u, off)
      PROVE  Stream' /\ StreamStep
  <2>1. PICK pauses \in BOOLEAN :
          go(u, IF u \in producing THEN going \cup {u} ELSE going, off,
             go_calls, pauses)
    BY <1>3 DEF BeginContent
  <2>2. /\ u \notin begun /\ begun' = begun \cup {u}
        /\ asked' = [asked EXCEPT ![u] = off]
        /\ cancelled' = cancelled
    BY <1>3 DEF BeginContent
  <2>3. off \in 0 .. FileSize
    BY UploadAssumption
  <2>4. /\ StreamOK(sent[u], off)
        /\ u \notin cancelled \cup finished =>
             AtNext(off, position[u], off, Len(sent[u]))
    BY <2>2, <2>3, BeginReady
  <2>5. Stream' /\ (UNCHANGED sent \/ SendsPart(u, off))
    BY <1>0, <2>1, <2>2, <2>3, <2>4, StreamGo
  <2>6. AskStep(u, off)
    BY <2>2, <2>5 DEF AskStep
  <2> QED
    BY <2>3, <2>5, <2>6 DEF StreamStep
<1>4. ASSUME NEW u \in Uploads, Cancel(u) PROVE Stream' /\ StreamStep
  <2>1. /\ u \notin cancelled /\ cancelled' = cancelled \cup {u}
        /\ sent' = [sent EXCEPT ![u] = Append(@, CancelRequest)]
        /\ UNCHANGED <<asked, begun, finished, offset, position>>
    BY <1>4 DEF Cancel
  <2>2. sent \in [Uploads -> Seq(Message)]
    BY <1>0 DEF TypeInv, ProducerTypes
  <2>3. sent' = [v \in Uploads |-> IF v \in {u} THEN Append(sent[v], CancelRequest)
                                   ELSE sent[v]]
    BY <2>1, <2>2
  <2>4. {u} \in SUBSET Uploads /\ {u} \cap cancelled = {}
    BY <2>1
  <2>5. Stream'
    BY <1>0, <2>1, <2>3, <2>4, StreamCancel
  <2>6. CancelStep({u})
    BY <2>1, <2>3, <2>4 DEF CancelStep
  <2> QED
    BY <2>4, <2>5, <2>6 DEF StreamStep
<1>5. ASSUME NEW u \in Uploads, EndsWell(u) \/ Refused(u)
      PROVE  Stream' /\ StreamStep
  BY <1>5, Hidden DEF EndsWell, Refused, Ends, producerVars
<1>6. ASSUME NEW u \in Uploads, ResumeRequest(u) PROVE Stream' /\ StreamStep
  <2>1. CASE u \in begun
    <3>1. PICK pauses \in BOOLEAN :
            go(u, going \cup {u}, offset[u], go_calls, pauses)
      BY <1>6, <2>1 DEF ResumeRequest
    <3>2. UNCHANGED <<begun, asked, cancelled>>
      BY <1>6 DEF ResumeRequest
    <3> QED
      BY <2>1, <3>1, <3>2, GoOn
  <2>2. CASE u \notin begun
    BY <1>6, <2>2, Hidden DEF ResumeRequest
  <2> QED
    BY <2>1, <2>2
<1>7. CASE Drain \/ UnthrottleWrites
  BY <1>7, Hidden DEF Drain, UnthrottleWrites, requestVars, producerVars
<1>8. CASE ConnectionLost
  <2> DEFINE us == Live \ cancelled
  <2>1. /\ us \in SUBSET Uploads /\ us \cap cancelled = {}
        /\ cancelled' = cancelled \cup us
        /\ UNCHANGED <<asked, begun, finished, offset, position>>
    BY <1>8, LiveAreUploads DEF ConnectionLost
  <2>2. sent' = [v \in Uploads |-> IF v \in us THEN Append(sent[v], CancelRequest)
                                   ELSE sent[v]]
    BY <1>8 DEF ConnectionLost
  <2> HIDE DEF us
  <2>3. Stream'
    BY <1>0, <2>1, <2>2, StreamCancel
  <2>4. CancelStep(us)
    BY <2>1, <2>2 DEF CancelStep
  <2> QED
    BY <2>1, <2>3, <2>4 DEF StreamStep
<1>9. CASE UNCHANGED vars
  BY <1>9, Hidden DEF vars, requestVars, producerVars
<1> QED
  BY <1>1, <1>2, <1>3, <1>4, <1>5, <1>6, <1>7, <1>8, <1>9 DEF Next

LEMMA StreamsKept ==
  ASSUME StartPositions = {0}
  PROVE  Spec => []IndInv
<1>1. Init => IndInv
  BY TypeInit, StreamInit DEF IndInv
<1>2. IndInv /\ [Next]_vars => IndInv'
  BY TypeStep, EveryStep DEF IndInv
<1> QED
  BY <1>1, <1>2, PTL DEF Spec

(* A file that is handed over at its start is sent in order, from the       *)
(* offset asked for, through every pause, resumption and delayed call.      *)
THEOREM FilesAreSentInOrder ==
  ASSUME StartPositions = {0}
  PROVE  Spec => []ContentFromOffset
<1>1. IndInv => ContentFromOffset
  BY DEF IndInv, Stream, StreamOK, ContentFromOffset
<1> QED
  BY <1>1, StreamsKept, PTL

(* Nothing of an upload follows its CANCEL_REQUEST. *)
THEOREM NothingAfterCancel ==
  ASSUME StartPositions = {0}
  PROVE  Spec => []CancelIsLast
<1>1. IndInv => CancelIsLast
  BY DEF IndInv, Stream, StreamOK, CancelIsLast
<1> QED
  BY <1>1, StreamsKept, PTL

-----------------------------------------------------------------------------
(* The refinement. *)

LEMMA SameMessages ==
  /\ File!End = EOF /\ File!BrokenOff = CancelRequest
  /\ \A p : File!Payload(p) = Bytes(p)
BY DEF File!End, File!BrokenOff, File!Payload, EOF, CancelRequest, Bytes

(* An upload that is not cancelled is not broken off, and one that goes on  *)
(* has not come to its end.                                                 *)
LEMMA LastMessage ==
  ASSUME IndInv, NEW u \in Uploads
  PROVE  /\ u \notin cancelled => ~File!Is(u, File!BrokenOff)
         /\ u \notin cancelled \cup finished => ~File!Is(u, File!End)
<1>1. sent[u] \in Seq(Message)
  BY DEF IndInv, TypeInv, ProducerTypes
<1>2. sent[u] # <<>> => Len(sent[u]) \in 1 .. Len(sent[u])
  BY <1>1, EmptySeq, LenProperties
<1> QED
  BY <1>2, SameMessages DEF IndInv, Stream, Without, File!Is

LEMMA PartIsSent ==
  ASSUME IndInv, NEW u \in Uploads, NEW ask, SendsPart(u, ask)
  PROVE  /\ File!Sends(u, ask)
         /\ ~File!Is(u, File!BrokenOff) /\ ~File!Is(u, File!End)
<1>1. sent' = [sent EXCEPT ![u] = Append(@,
                 IF ask + Len(@) < FileSize THEN File!Payload(ask + Len(@))
                 ELSE File!End)]
  BY SameMessages DEF SendsPart
<1>2. File!Sends(u, ask)
  BY <1>1 DEF File!Sends, File!Part
<1> QED
  BY <1>2, LastMessage DEF SendsPart

LEMMA FileStep ==
  ASSUME IndInv, StreamStep
  PROVE  File!Next \/ UNCHANGED File!vars
<1>1. CASE HiddenStep
  BY <1>1 DEF HiddenStep, File!vars
<1>2. ASSUME NEW u \in Uploads, PartStep(u) PROVE File!Next
  <2>1. File!SendPart(u)
    BY <1>2, PartIsSent DEF PartStep, File!SendPart
  <2> QED
    BY <2>1 DEF File!Next
<1>3. ASSUME NEW u \in Uploads, NEW off \in 0 .. FileSize, AskStep(u, off)
      PROVE  File!Next
  <2>1. File!Ask(u, off)
    BY <1>3, PartIsSent DEF AskStep, File!Ask
  <2> QED
    BY <2>1 DEF File!Next
<1>4. ASSUME NEW us \in SUBSET Uploads, CancelStep(us) PROVE File!Next
  <2>1. \A u \in us : ~File!Is(u, File!BrokenOff)
    BY <1>4, LastMessage DEF CancelStep
  <2>2. File!BreakOff(us)
    BY <1>4, <2>1, SameMessages DEF CancelStep, File!BreakOff
  <2> QED
    BY <2>2 DEF File!Next
<1> QED
  BY <1>1, <1>2, <1>3, <1>4 DEF StreamStep

(* Upload implements FileTransfer. *)
THEOREM UploadsAreTransfers ==
  ASSUME StartPositions = {0}
  PROVE  Spec => TransfersFiles
<1>1. Init => File!Init
  BY DEF Init, File!Init
<1>2. IndInv /\ [Next]_vars => [File!Next]_(File!vars)
  BY EveryStep, FileStep
<1> QED
  BY <1>1, <1>2, StreamsKept, PTL DEF Spec, TransfersFiles, File!Spec

-----------------------------------------------------------------------------
(* The safety behind UploadsFinish, for files handed over at any position:  *)
(* an upload that has begun is never stuck.  Until it is sent, or the       *)
(* request or the connection is over, one of those who can make it go on is *)
(* about to: the reactor has a call of go pending and its producer is       *)
(* producing, resumeProducing has still to come to it, the factory has a    *)
(* call to unthrottleWrites pending, or the transport has paused its        *)
(* producer and has something to write, after which it resumes it.          *)

Unsent == Live \ (cancelled \cup finished)

NothingIsStuck ==
  conn = "open" =>
    \A u \in Unsent \cap begun :
      \/ u \in going /\ go_calls[u] > 0
      \/ u \in resuming
      \/ throttled = "yes"
      \/ producerPaused = "yes" /\ buffer # "empty"

(* Who is paused is paused by the throttling or by the transport, and that  *)
(* is also why the handler starts a request paused; while there are         *)
(* requests, the transport that has paused them has something to write.     *)
WaitsForTurn == throttled = "yes" \/ producerPaused = "yes"

BufferIsPending == Live # {} /\ producerPaused = "yes" => buffer # "empty"
HandlerWaits == handler_producing = "no" => WaitsForTurn \/ resuming # {}
RequestsWait ==
  \A u \in Unsent :
    \/ u \in begun /\ u \in going
    \/ u \notin begun /\ u \in producing
    \/ u \in resuming
    \/ WaitsForTurn
GoIsPending == \A u \in Unsent \cap going : go_calls[u] > 0

BegunIsStarted == \A u \in begun : state[u] # "new"

GoesOn ==
  BegunIsStarted /\ BufferIsPending /\ HandlerWaits /\ RequestsWait /\ GoIsPending

LEMMA WriteWaits ==
  ASSUME ConnTypes, conn = "open", NEW rs, NEW pauses, Write(rs, pauses)
  PROVE  /\ pauses => WaitsForTurn'
         /\ WaitsForTurn => WaitsForTurn'
         /\ buffer' # "empty"
BY DEF ConnTypes, Write, WaitsForTurn

LEMMA GoWaits ==
  ASSUME TypeInv, conn = "open",
         NEW u \in Uploads, NEW on, NEW off, NEW calls \in [Uploads -> Nat],
         NEW pauses, go(u, on, off, calls, pauses)
  PROVE  /\ pauses => WaitsForTurn'
         /\ WaitsForTurn => WaitsForTurn'
         /\ buffer' # "empty" \/ UNCHANGED <<buffer, producerPaused>>
         /\ going' \subseteq on /\ finished \subseteq finished'
         /\ \A v \in on : v \in going' \/ v \in finished' \/ WaitsForTurn'
         /\ \A v \in Uploads : v # u => go_calls'[v] = calls[v]
         /\ u \in going' => go_calls'[u] > 0 \/ u \in cancelled \cup finished'
<1>1. CASE ~Goes(u, on)
  <2>1. /\ going' = on /\ go_calls' = calls /\ pauses = FALSE
        /\ UNCHANGED <<finished, buffer, producerPaused, throttled>>
    BY <1>1 DEF go
  <2>2. u \in on => u \in cancelled \cup finished
    BY <1>1 DEF Goes
  <2> QED
    BY <2>1, <2>2 DEF WaitsForTurn
<1>2. CASE Goes(u, on)
  <2> DEFINE p == ReadsAt(u, off)
  <2>1. Write(Live, pauses)
    BY <1>2 DEF go
  <2>2. /\ pauses => WaitsForTurn'
        /\ WaitsForTurn => WaitsForTurn'
        /\ buffer' # "empty"
    BY <2>1, WriteWaits DEF TypeInv
  <2>3. /\ Paused(Live, pauses, on) \subseteq on
        /\ \A v \in on : v \in Paused(Live, pauses, on) \/ WaitsForTurn'
    BY <2>2 DEF Paused
  <2>4. CASE p < FileSize
    <3>1. /\ go_calls' = [calls EXCEPT ![u] = @ + 1]
          /\ going' = Paused(Live, pauses, on)
          /\ finished' = finished
      BY <1>2, <2>4 DEF go
    <3>2. go_calls'[u] > 0 /\ \A v \in Uploads : v # u => go_calls'[v] = calls[v]
      BY <3>1
    <3> QED
      BY <2>2, <2>3, <3>1, <3>2
  <2>5. CASE ~(p < FileSize)
    <3>1. /\ go_calls' = calls
          /\ going' = Paused(Live, pauses, on) \ {u}
          /\ finished' = finished \cup {u}
      BY <1>2, <2>5 DEF go
    <3> QED
      BY <2>2, <2>3, <3>1
  <2> QED
    BY <2>4, <2>5
<1> QED
  BY <1>1, <1>2

LEMMA PausedKeeps ==
  ASSUME NEW rs, NEW pauses, NEW who, NEW v \in who
  PROVE  v \in Paused(rs, pauses, who) \/ pauses
BY DEF Paused

LEMMA RunGoGoesOn ==
  ASSUME TypeInv, conn = "open", GoesOn, NEW u \in Uploads, RunGo(u)
  PROVE  GoesOn'
<1> DEFINE calls == [go_calls EXCEPT ![u] = @ - 1]
<1>1. PICK pauses \in BOOLEAN :
        /\ go(u, going, offset[u], calls, pauses)
        /\ producing' = Paused(Live, pauses, producing)
        /\ handler_producing' = HandlerPaused(pauses)
  BY DEF RunGo
<1>2. /\ resuming = {} /\ go_calls[u] > 0
      /\ UNCHANGED <<resuming, state, cancelled, begun, conn>>
  BY DEF RunGo, Idle
<1>3. go_calls \in [Uploads -> Nat]
  BY DEF TypeInv, ProducerTypes
<1>4. calls \in [Uploads -> Nat] /\ \A v \in Uploads : v # u => calls[v] = go_calls[v]
  BY <1>2, <1>3
<1> HIDE DEF calls
<1>5. /\ pauses => WaitsForTurn'
      /\ WaitsForTurn => WaitsForTurn'
      /\ buffer' # "empty" \/ UNCHANGED <<buffer, producerPaused>>
      /\ going' \subseteq going /\ finished \subseteq finished'
      /\ \A v \in going : v \in going' \/ v \in finished' \/ WaitsForTurn'
      /\ \A v \in Uploads : v # u => go_calls'[v] = calls[v]
      /\ u \in going' => go_calls'[u] > 0 \/ u \in cancelled \cup finished'
  BY <1>1, <1>4, GoWaits
<1>6. Live' = Live /\ Live \subseteq Uploads
  BY <1>2, LiveAreUploads DEF Live
<1>7. Unsent' = Live \ (cancelled \cup finished') /\ Unsent' \subseteq Unsent
  BY <1>2, <1>5, <1>6 DEF Unsent
<1>8. BufferIsPending'
  BY <1>5, <1>6 DEF GoesOn, BufferIsPending
<1>9. HandlerWaits'
  BY <1>1, <1>2, <1>5 DEF GoesOn, HandlerWaits, HandlerPaused
<1>10. RequestsWait'
  <2>1. ASSUME NEW v \in Unsent', ~WaitsForTurn'
        PROVE  \/ v \in begun /\ v \in going'
               \/ v \notin begun /\ v \in producing'
               \/ v \in resuming
    <3>1. v \in Unsent /\ v \notin finished'
      BY <1>7
    <3>2. ~WaitsForTurn /\ ~pauses
      BY <1>5, <2>1
    <3>3. (v \in begun /\ v \in going) \/ (v \notin begun /\ v \in producing)
      BY <1>2, <3>1, <3>2 DEF GoesOn, RequestsWait
    <3>4. v \in producing => v \in producing'
      BY <1>1, <3>2, PausedKeeps
    <3> QED
      BY <1>5, <2>1, <3>1, <3>3, <3>4
  <2> QED
    BY <1>2, <2>1 DEF RequestsWait
<1>11. GoIsPending'
  <2>1. ASSUME NEW v \in Unsent', v \in going'
        PROVE  go_calls'[v] > 0
    <3>1. v \in Unsent \cap going /\ v \in Uploads /\ v \notin cancelled \cup finished'
      BY <1>5, <1>6, <1>7, <2>1 DEF Unsent
    <3>2. go_calls[v] > 0
      BY <3>1 DEF GoesOn, GoIsPending
    <3> QED
      BY <1>4, <1>5, <2>1, <3>1, <3>2
  <2> QED
    BY <2>1 DEF GoIsPending
<1>12. BegunIsStarted'
  BY <1>2 DEF GoesOn, BegunIsStarted
<1> QED
  BY <1>8, <1>9, <1>10, <1>11, <1>12 DEF GoesOn

LEMMA BeginGoesOn ==
  ASSUME TypeInv, conn = "open", GoesOn, NEW u \in Uploads, NEW off,
         BeginContent(u, off)
  PROVE  GoesOn'
<1> DEFINE on == IF u \in producing THEN going \cup {u} ELSE going
<1>1. PICK pauses \in BOOLEAN :
        /\ go(u, on, off, go_calls, pauses)
        /\ producing' = Paused(Live, pauses, producing)
        /\ handler_producing' = HandlerPaused(pauses)
  BY DEF BeginContent
<1>2. /\ resuming = {} /\ u \notin begun /\ begun' = begun \cup {u}
      /\ UNCHANGED <<resuming, state, cancelled, conn>>
  BY DEF BeginContent, Idle
<1>3. go_calls \in [Uploads -> Nat]
  BY DEF TypeInv, ProducerTypes
<1>4. /\ going \subseteq on /\ on \subseteq going \cup {u}
      /\ u \in producing => u \in on
  OBVIOUS
<1> HIDE DEF on
<1>5. /\ pauses => WaitsForTurn'
      /\ WaitsForTurn => WaitsForTurn'
      /\ buffer' # "empty" \/ UNCHANGED <<buffer, producerPaused>>
      /\ going' \subseteq on /\ finished \subseteq finished'
      /\ \A v \in on : v \in going' \/ v \in finished' \/ WaitsForTurn'
      /\ \A v \in Uploads : v # u => go_calls'[v] = go_calls[v]
      /\ u \in going' => go_calls'[u] > 0 \/ u \in cancelled \cup finished'
  BY <1>1, <1>3, GoWaits
<1>6. Live' = Live /\ Live \subseteq Uploads
  BY <1>2, LiveAreUploads DEF Live
<1>7. Unsent' = Live \ (cancelled \cup finished') /\ Unsent' \subseteq Unsent
  BY <1>2, <1>5, <1>6 DEF Unsent
<1>8. BufferIsPending'
  BY <1>5, <1>6 DEF GoesOn, BufferIsPending
<1>9. HandlerWaits'
  BY <1>1, <1>2, <1>5 DEF GoesOn, HandlerWaits, HandlerPaused
<1>10. RequestsWait'
  <2>1. ASSUME NEW v \in Unsent', ~WaitsForTurn'
        PROVE  \/ v \in begun' /\ v \in going'
               \/ v \notin begun' /\ v \in producing'
               \/ v \in resuming
    <3>1. v \in Unsent /\ v \notin finished'
      BY <1>7
    <3>2. ~WaitsForTurn /\ ~pauses
      BY <1>5, <2>1
    <3>3. (v \in begun /\ v \in going) \/ (v \notin begun /\ v \in producing)
      BY <1>2, <3>1, <3>2 DEF GoesOn, RequestsWait
    <3>4. v \in producing => v \in producing'
      BY <1>1, <3>2, PausedKeeps
    <3>5. v \in on => v \in going'
      BY <1>5, <2>1, <3>1
    <3> QED
      BY <1>2, <1>4, <3>3, <3>4, <3>5
  <2> QED
    BY <1>2, <2>1 DEF RequestsWait
<1>11. GoIsPending'
  <2>1. ASSUME NEW v \in Unsent', v \in going'
        PROVE  go_calls'[v] > 0
    <3>1. v \in Unsent /\ v \in Uploads /\ v \notin cancelled \cup finished'
      BY <1>5, <1>6, <1>7, <2>1 DEF Unsent
    <3>2. v # u => v \in going /\ go_calls[v] > 0
      BY <1>4, <1>5, <2>1, <3>1 DEF GoesOn, GoIsPending
    <3> QED
      BY <1>5, <2>1, <3>1, <3>2
  <2> QED
    BY <2>1 DEF GoIsPending
<1>12. BegunIsStarted'
  BY <1>2 DEF GoesOn, BegunIsStarted, BeginContent
<1> QED
  BY <1>8, <1>9, <1>10, <1>11, <1>12 DEF GoesOn

(* A turn of resumeProducing: the write of one producer may pause those     *)
(* that were resumed before it, and the handler's flag is set at the end.   *)
LEMMA ResumeGoesOn ==
  ASSUME TypeInv, conn = "open", GoesOn, NEW u \in Uploads, ResumeRequest(u)
  PROVE  GoesOn'
<1>1. PICK pauses \in BOOLEAN :
        /\ IF u \in begun
           THEN go(u, going \cup {u}, offset[u], go_calls, pauses)
           ELSE /\ pauses = FALSE
                /\ UNCHANGED <<going, finished, offset, position, go_calls,
                               buffer, producerPaused, throttled, sent>>
        /\ producing' = Paused(Live, pauses, producing) \cup {u}
        /\ handler_producing' = IF resuming' = {} THEN AllResumed(pauses)
                                ELSE HandlerPaused(pauses)
  BY DEF ResumeRequest
<1>2. /\ resuming' = resuming \ {u} /\ u \in resuming
      /\ UNCHANGED <<state, cancelled, begun, conn>>
  BY DEF ResumeRequest
<1>3. go_calls \in [Uploads -> Nat] /\ going \subseteq begun
  BY DEF TypeInv, ProducerTypes
<1>5. /\ pauses => WaitsForTurn'
      /\ WaitsForTurn => WaitsForTurn'
      /\ buffer' # "empty" \/ UNCHANGED <<buffer, producerPaused>>
      /\ going' \subseteq going \cup {u} /\ finished \subseteq finished'
      /\ \A v \in going : v \in going' \/ v \in finished' \/ WaitsForTurn'
      /\ u \in begun => u \in going' \/ u \in finished' \/ WaitsForTurn'
      /\ \A v \in Uploads : v # u => go_calls'[v] = go_calls[v]
      /\ u \in going' => go_calls'[u] > 0 \/ u \in cancelled \cup finished'
  <2>1. CASE u \in begun
    <3> DEFINE on == going \cup {u}
    <3>1. go(u, on, offset[u], go_calls, pauses)
      BY <1>1, <2>1
    <3>2. u \in on /\ going \subseteq on /\ on \subseteq going \cup {u}
      OBVIOUS
    <3> HIDE DEF on
    <3>3. /\ pauses => WaitsForTurn'
          /\ WaitsForTurn => WaitsForTurn'
          /\ buffer' # "empty" \/ UNCHANGED <<buffer, producerPaused>>
          /\ going' \subseteq on /\ finished \subseteq finished'
          /\ \A v \in on : v \in going' \/ v \in finished' \/ WaitsForTurn'
          /\ \A v \in Uploads : v # u => go_calls'[v] = go_calls[v]
          /\ u \in going' => go_calls'[u] > 0 \/ u \in cancelled \cup finished'
      BY <1>3, <3>1, GoWaits
    <3> QED
      BY <3>2, <3>3
  <2>2. CASE u \notin begun
    BY <1>1, <1>3, <2>2 DEF WaitsForTurn
  <2> QED
    BY <2>1, <2>2
<1>6. Live' = Live /\ Live \subseteq Uploads
  BY <1>2, LiveAreUploads DEF Live
<1>7. Unsent' = Live \ (cancelled \cup finished') /\ Unsent' \subseteq Unsent
  BY <1>2, <1>5, <1>6 DEF Unsent
<1>8. BufferIsPending'
  BY <1>5, <1>6 DEF GoesOn, BufferIsPending
<1>9. HandlerWaits'
  BY <1>1 DEF HandlerWaits, AllResumed
<1>10. RequestsWait'
  <2>1. ASSUME NEW v \in Unsent', ~WaitsForTurn'
        PROVE  \/ v \in begun /\ v \in going'
               \/ v \notin begun /\ v \in producing'
               \/ v \in resuming'
    <3>1. v \in Unsent /\ v \notin finished'
      BY <1>7
    <3>2. ~WaitsForTurn /\ ~pauses
      BY <1>5, <2>1
    <3>3. \/ v \in begun /\ v \in going
          \/ v \notin begun /\ v \in producing
          \/ v \in resuming
      BY <3>1, <3>2 DEF GoesOn, RequestsWait
    <3>4. /\ v \in producing => v \in producing'
          /\ v = u => v \in producing'
      BY <1>1, <3>2, PausedKeeps
    <3>5. /\ v \in going => v \in going'
          /\ v = u /\ u \in begun => v \in going'
      BY <1>5, <2>1, <3>1
    <3> QED
      BY <1>2, <3>3, <3>4, <3>5
  <2> QED
    BY <1>2, <2>1 DEF RequestsWait
<1>11. GoIsPending'
  <2>1. ASSUME NEW v \in Unsent', v \in going'
        PROVE  go_calls'[v] > 0
    <3>1. v \in Unsent /\ v \in Uploads /\ v \notin cancelled \cup finished'
      BY <1>5, <1>6, <1>7, <2>1 DEF Unsent
    <3>2. v # u => v \in going /\ go_calls[v] > 0
      BY <1>5, <2>1, <3>1 DEF GoesOn, GoIsPending
    <3> QED
      BY <1>5, <2>1, <3>1, <3>2
  <2> QED
    BY <2>1 DEF GoIsPending
<1>12. BegunIsStarted'
  BY <1>2 DEF GoesOn, BegunIsStarted
<1> QED
  BY <1>8, <1>9, <1>10, <1>11, <1>12 DEF GoesOn

(* The steps of the user and the server that send nothing of a file. *)
LEMMA StartGoesOn ==
  ASSUME TypeInv, conn = "open", GoesOn, NEW u \in Uploads, Start(u)
  PROVE  GoesOn'
<1> DEFINE on == IF handler_producing = "yes" THEN producing \cup {u}
                 ELSE producing
<1>0. /\ state \in [Uploads -> {"new", "live", "over"}]
      /\ handler_producing \in {"yes", "no"}
  BY DEF TypeInv, RestTypes
<1>1. PICK pauses \in BOOLEAN :
        /\ Write(Live \cup {u}, pauses)
        /\ producing' = Paused(Live \cup {u}, pauses, on)
        /\ going' = Paused(Live, pauses, going)
        /\ handler_producing' = HandlerPaused(pauses)
  BY DEF Start
<1>2. /\ state' = [state EXCEPT ![u] = "live"] /\ resuming = {}
      /\ UNCHANGED <<resuming, cancelled, begun, finished, go_calls, conn>>
      /\ state[u] = "new"
  BY DEF Start, Idle
<1>3. /\ pauses => WaitsForTurn'
      /\ WaitsForTurn => WaitsForTurn'
      /\ buffer' # "empty"
  BY <1>1, WriteWaits DEF TypeInv
<1>4. u \notin begun
  BY <1>2 DEF GoesOn, BegunIsStarted
<1>5. Live' = Live \cup {u}
  BY <1>0, <1>2 DEF Live
<1>6. Unsent' \subseteq Unsent \cup {u}
  BY <1>2, <1>5 DEF Unsent
<1>7. BegunIsStarted' /\ BufferIsPending' /\ HandlerWaits'
  BY <1>0, <1>1, <1>2, <1>3
  DEF GoesOn, BegunIsStarted, BufferIsPending, HandlerWaits, HandlerPaused
<1>8. RequestsWait'
  <2>1. ASSUME NEW v \in Unsent', ~WaitsForTurn'
        PROVE  (v \in begun /\ v \in going') \/ (v \notin begun /\ v \in producing')
    <3>1. ~WaitsForTurn /\ ~pauses
      BY <1>3, <2>1
    <3>2. producing' = on /\ going' = going
      BY <1>1, <3>1 DEF Paused
    <3>3. handler_producing = "yes"
      BY <1>0, <1>2, <3>1 DEF GoesOn, HandlerWaits
    <3>4. CASE v \in Unsent
      <4>1. (v \in begun /\ v \in going) \/ (v \notin begun /\ v \in producing)
        BY <1>2, <3>1, <3>4 DEF GoesOn, RequestsWait
      <4> QED
        BY <3>2, <4>1
    <3>5. CASE v = u
      BY <1>4, <3>2, <3>3, <3>5
    <3> QED
      BY <1>6, <2>1, <3>4, <3>5
  <2> QED
    BY <1>2, <2>1 DEF RequestsWait
<1>9. GoIsPending'
  <2>1. going' \subseteq going
    BY <1>1 DEF Paused
  <2>2. u \notin going
    BY <1>4 DEF TypeInv, ProducerTypes
  <2> QED
    BY <1>2, <1>6, <2>1, <2>2 DEF GoesOn, GoIsPending
<1> QED
  BY <1>7, <1>8, <1>9 DEF GoesOn

LEMMA CancelGoesOn ==
  ASSUME TypeInv, conn = "open", GoesOn, NEW u \in Uploads, Cancel(u)
  PROVE  GoesOn'
<1>1. PICK pauses \in BOOLEAN :
        /\ Write(Live, pauses)
        /\ going' = Paused(Live, pauses, going \ (begun \cap {u}))
        /\ producing' = Paused(Live, pauses, producing)
        /\ handler_producing' = HandlerPaused(pauses)
  BY DEF Cancel
<1>2. /\ cancelled' = cancelled \cup {u} /\ resuming = {}
      /\ UNCHANGED <<resuming, state, begun, finished, go_calls, conn>>
  BY DEF Cancel, Idle
<1>3. /\ pauses => WaitsForTurn'
      /\ WaitsForTurn => WaitsForTurn'
      /\ buffer' # "empty"
  BY <1>1, WriteWaits DEF TypeInv
<1>4. Unsent' = Unsent \ {u}
  BY <1>2 DEF Live, Unsent
<1>5. BegunIsStarted' /\ BufferIsPending' /\ HandlerWaits'
  BY <1>1, <1>2, <1>3
  DEF GoesOn, BegunIsStarted, BufferIsPending, HandlerWaits, HandlerPaused
<1>6. RequestsWait'
  <2>1. ASSUME NEW v \in Unsent', ~WaitsForTurn'
        PROVE  (v \in begun /\ v \in going') \/ (v \notin begun /\ v \in producing')
    <3>1. ~WaitsForTurn /\ ~pauses
      BY <1>3, <2>1
    <3>2. producing' = producing /\ going' = going \ (begun \cap {u})
      BY <1>1, <3>1 DEF Paused
    <3>3. v \in Unsent /\ v # u
      BY <1>4
    <3>4. (v \in begun /\ v \in going) \/ (v \notin begun /\ v \in producing)
      BY <1>2, <3>1, <3>3 DEF GoesOn, RequestsWait
    <3> QED
      BY <3>2, <3>3, <3>4
  <2> QED
    BY <1>2, <2>1 DEF RequestsWait
<1>7. GoIsPending'
  <2>1. going' \subseteq going
    BY <1>1 DEF Paused
  <2> QED
    BY <1>2, <1>4, <2>1 DEF GoesOn, GoIsPending
<1> QED
  BY <1>5, <1>6, <1>7 DEF GoesOn

LEMMA EndGoesOn ==
  ASSUME TypeInv, conn = "open", GoesOn, NEW u \in Uploads, Ends(u)
  PROVE  GoesOn'
<1>1. /\ state' = [state EXCEPT ![u] = "over"]
      /\ UNCHANGED <<handler_producing, resuming, cancelled, producing, begun,
                     going, finished, go_calls, buffer, producerPaused,
                     throttled>>
  BY DEF Ends, producerVars, connVars
<1>2. state \in [Uploads -> {"new", "live", "over"}]
  BY DEF TypeInv, RestTypes
<1>3. Live' = Live \ {u} /\ Unsent' = Unsent \ {u}
  BY <1>1, <1>2 DEF Live, Unsent
<1>4. BegunIsStarted'
  BY <1>1, <1>2 DEF GoesOn, BegunIsStarted, TypeInv, RestTypes
<1> QED
  BY <1>1, <1>3, <1>4 DEF GoesOn, BufferIsPending, HandlerWaits, RequestsWait,
     GoIsPending, WaitsForTurn

(* Everybody who waited is resumed. *)
LEMMA AllGoOn ==
  ASSUME TypeInv, conn = "open", GoesOn, Drain \/ UnthrottleWrites
  PROVE  GoesOn'
<1>1. UNCHANGED <<state, cancelled, producing, begun, going, finished, go_calls>>
  BY DEF Drain, UnthrottleWrites, requestVars, producerVars
<1>2. Live' = Live /\ Unsent' = Unsent /\ Unsent \subseteq Live
  BY <1>1 DEF Live, Unsent
<1>3. BegunIsStarted' /\ GoIsPending'
  BY <1>1, <1>2 DEF GoesOn, BegunIsStarted, GoIsPending
<1>4. CASE resumeProducing
  <2>1. resuming' = Live /\ (Live = {} => handler_producing' = "yes")
    BY <1>4 DEF resumeProducing, AllResumed
  <2>2. HandlerWaits' /\ RequestsWait'
    BY <1>2, <2>1 DEF HandlerWaits, RequestsWait
  <2>3. BufferIsPending'
    BY <1>2 DEF Drain, UnthrottleWrites, GoesOn, BufferIsPending
  <2> QED
    BY <1>3, <2>2, <2>3 DEF GoesOn
<1>5. CASE ~resumeProducing
  <2>1. /\ UNCHANGED <<producerPaused, resuming, handler_producing, throttled>>
        /\ ~(producerPaused = "yes" /\ Live # {})
    BY <1>5 DEF Drain, UnthrottleWrites
  <2> QED
    BY <1>1, <1>2, <1>3, <2>1 DEF GoesOn, HandlerWaits, RequestsWait,
       BufferIsPending, WaitsForTurn
<1> QED
  BY <1>4, <1>5

Progress == conn = "open" => GoesOn

LEMMA ProgressStep == TypeInv /\ Progress /\ [Next]_vars => Progress'
<1> SUFFICES ASSUME TypeInv, Progress, [Next]_vars, conn' = "open"
             PROVE  GoesOn'
  BY DEF Progress
<1>1. conn = "open"
  BY DEF Next, RunGo, Start, BeginContent, Cancel, EndsWell, Refused, Ends,
     ResumeRequest, Drain, UnthrottleWrites, ConnectionLost, connVars, vars
<1>2. GoesOn
  BY <1>1 DEF Progress
<1>3. ASSUME NEW u \in Uploads,
             RunGo(u) \/ Start(u) \/ Cancel(u) \/ EndsWell(u) \/ Refused(u)
               \/ ResumeRequest(u)
      PROVE  GoesOn'
  BY <1>1, <1>2, <1>3, RunGoGoesOn, StartGoesOn, CancelGoesOn, EndGoesOn,
     ResumeGoesOn DEF EndsWell, Refused
<1>4. ASSUME NEW u \in Uploads, NEW off \in Offsets, BeginContent(u, off)
      PROVE  GoesOn'
  BY <1>1, <1>2, <1>4, BeginGoesOn
<1>5. CASE Drain \/ UnthrottleWrites
  BY <1>1, <1>2, <1>5, AllGoOn
<1>6. ~ConnectionLost
  BY DEF ConnectionLost
<1>7. CASE UNCHANGED vars
  BY <1>2, <1>7 DEF vars, requestVars, producerVars, connVars, GoesOn,
     BegunIsStarted, BufferIsPending, HandlerWaits, RequestsWait, GoIsPending,
     WaitsForTurn, Live, Unsent
<1> QED
  BY <1>3, <1>4, <1>5, <1>6, <1>7 DEF Next

(* No upload is ever stuck: whatever pauses it, on whatever path, leaves    *)
(* something behind that resumes it.                                        *)
THEOREM UploadsGoOn == Spec => []NothingIsStuck
<1>1. Init => Progress
  BY DEF Init, Progress, GoesOn, BegunIsStarted, BufferIsPending, HandlerWaits,
     RequestsWait, GoIsPending, Live, Unsent
<1>2. Spec => []TypeInv
  BY TypeInit, TypeStep, PTL DEF Spec
<1>3. Progress => NothingIsStuck
  BY DEF Progress, GoesOn, BufferIsPending, RequestsWait, GoIsPending,
     WaitsForTurn, Unsent, NothingIsStuck
<1> QED
  BY <1>1, <1>2, <1>3, ProgressStep, PTL DEF Spec
=============================================================================
