--------------------------- MODULE FramingProofs ---------------------------
(* Proofs about Framing, for every stream and every way of cutting it; what *)
(* they say of the frames is under the condition that no chunk ends between *)
(* the CR and the LF of the hello line (split = "no").                      *)

EXTENDS Framing, TLAPS

Ranges == [from : Nat, to : Nat]

(* The size field of a frame is read as the length of that frame. *)
LEMMA SizeOfFrame ==
  ASSUME NEW k \in 1 .. N
  PROVE  SizeAt(Offset[k]) = {FrameLength[k]}
<1>1. ASSUME NEW j \in 1 .. N, Offset[j] = Offset[k]
      PROVE  j = k
  <2>1. j \in 1 .. N + 1 /\ k \in 1 .. N + 1
    BY LengthAssumption
  <2>2. ~(Offset[j] < Offset[k]) /\ ~(Offset[k] < Offset[j])
    BY <1>1, <2>1, OffsetAssumption
  <2>3. ~(j < k) /\ ~(k < j)
    BY <2>1, <2>2, OffsetAssumption
  <2>. QED  BY <2>1, <2>3, LengthAssumption
<1>. QED  BY <1>1 DEF SizeAt

LEMMA OffsetTyped ==
  /\ \A k \in 1 .. N + 1 : Offset[k] \in Nat
  /\ \A k \in 1 .. N : FrameLength[k] \in Nat /\ FrameLength[k] > 0
  BY LengthAssumption, OffsetAssumption

LEMMA LineEndTyped ==
  \A e \in LineEnds : e \in Nat /\ HelloLength <= e /\ e <= Offset[N + 1]
<1>1. HelloLength \in Nat /\ Offset[N + 1] \in Nat
  BY LengthAssumption, OffsetTyped
<1>. QED  BY <1>1, LineEndsAssumption

(* When a buildMessage pass runs, the hello line has been found and the     *)
(* transport is open; unless the hello line was split, there is a frame the *)
(* parser stands in.                                                        *)
LEMMA InFrame ==
  ASSUME IndInv, chunk > 0
  PROVE  /\ line_mode = "no" /\ transport = "open"
         /\ split = "no" => frame \in 1 .. N
<1>1. line_mode = "no" /\ transport = "open"
  BY DEF IndInv, TypeOK, HelloFirst, ClosedIsIdle
<1>2. Len(delivered) \in Nat
  BY DEF IndInv, TypeOK
<1>. SUFFICES ASSUME split = "no"
              PROVE  frame \in 1 .. N
  BY <1>1
<1>3. frame <= N + 1
  BY <1>1 DEF IndInv, Aligned
<1>4. frame # N + 1
  <2>. SUFFICES ASSUME frame = N + 1
                PROVE  FALSE
    OBVIOUS
  <2>1. start = Offset[N + 1] /\ start <= pos /\ pos + chunk <= Offset[N + 1]
    BY <1>1, LengthAssumption DEF IndInv, Aligned, TypeOK
  <2>. QED
    BY <2>1, OffsetTyped, LengthAssumption DEF IndInv, TypeOK
<1>. QED  BY <1>1, <1>2, <1>3, <1>4, LengthAssumption DEF frame

LEMMA InitHolds == Init => IndInv
  BY LengthAssumption DEF Init, IndInv, TypeOK, HelloFirst, ClosedIsIdle, Aligned, FramesIntact,
     SIZE_FMT_SIZE

(* A call of dataReceived. *)
LEMMA ArrivalKeeps ==
  ASSUME IndInv, NEW n \in Nat, dataReceived(n)
  PROVE  IndInv'
<1>. USE LengthAssumption, OffsetTyped DEF IndInv
<1>1. CASE HelloLine(n)
  <2>1. PICK e \in LinesIn(n) :
          /\ \A f \in LinesIn(n) : e <= f
          /\ pos' = e /\ start' = e /\ chunk' = pos + n - e
    BY <1>1 DEF HelloLine
  <2>2. /\ e \in LineEnds /\ e \in Nat /\ pos + 2 <= e /\ e <= pos + n
        /\ HelloLength <= e
    BY <2>1, LineEndTyped DEF LinesIn
  <2>3. /\ delivered = <<>> /\ waiting_for = "SIZE"
        /\ pending_length = SIZE_FMT_SIZE /\ transport = "open"
        /\ line_mode' = "no" /\ pos + n <= Offset[N + 1]
        /\ UNCHANGED <<waiting_for, pending_length, delivered, transport, split>>
    BY <1>1 DEF HelloLine, Arrives, HelloFirst
  <2>4. TypeOK'
    BY <2>1, <2>2, <2>3 DEF TypeOK
  <2>5. HelloFirst' /\ ClosedIsIdle' /\ FramesIntact'
    BY <2>3 DEF HelloFirst, ClosedIsIdle, FramesIntact
  <2>6. ASSUME split = "no"
        PROVE  e = HelloLength
    <3>1. pos + 2 <= HelloLength
      BY <1>1, <2>6 DEF HelloLine, HelloFirst
    <3>2. HelloLength \in LinesIn(n)
      BY <2>2, <3>1, LineEndsAssumption DEF LinesIn, TypeOK
    <3>. QED  BY <2>1, <2>2, <3>2
  <2>7. Aligned'
    <3>. SUFFICES ASSUME split = "no"
                  PROVE  Aligned'
      BY <2>3 DEF Aligned
    <3>1. 1 \in 1 .. N + 1 /\ Offset[1] = HelloLength
      BY OffsetAssumption
    <3>2. frame' = 1
      BY <2>3 DEF frame
    <3>3. pos' + chunk' = pos + n
      BY <2>1, <2>2 DEF TypeOK
    <3>4. Offset[frame'] = HelloLength /\ frame' <= N + 1
      BY <3>1, <3>2
    <3>. QED
      BY <2>1, <2>2, <2>3, <2>6, <3>3, <3>4 DEF Aligned, SIZE_FMT_SIZE
  <2>. QED  BY <2>4, <2>5, <2>7
<1>2. CASE NoHelloLine(n)
  <2>1. /\ line_mode = "yes" /\ line_mode' = "yes" /\ LinesIn(n) = {}
        /\ pos' = pos + n
        /\ split' = IF pos' = HelloLength - 1 THEN "yes" ELSE split
        /\ UNCHANGED <<chunk, waiting_for, pending_length, start, delivered,
                       transport>>
    BY <1>2 DEF NoHelloLine
  <2>2. TypeOK' /\ ClosedIsIdle' /\ Aligned' /\ FramesIntact'
    BY <2>1 DEF TypeOK, HelloFirst, ClosedIsIdle, Aligned, FramesIntact
  <2>3. ASSUME split' = "no"
        PROVE  pos' + 2 <= HelloLength
    <3>1. split = "no" /\ pos' # HelloLength - 1
      BY <2>1, <2>3
    <3>2. pos + 2 <= HelloLength
      BY <2>1, <3>1 DEF HelloFirst
    <3>3. ~(HelloLength <= pos + n)
      BY <2>1, <3>2, LineEndsAssumption DEF LinesIn
    <3>4. pos \in Nat /\ HelloLength \in Nat
      BY DEF TypeOK
    <3>. QED  BY <2>1, <3>1, <3>3, <3>4
  <2>4. HelloFirst'
    BY <2>1, <2>3 DEF HelloFirst
  <2>. QED  BY <2>2, <2>4
<1>3. CASE Data(n)
  <2>1. TypeOK' /\ HelloFirst' /\ ClosedIsIdle' /\ FramesIntact'
    BY <1>3 DEF Data, Arrives, TypeOK, HelloFirst, ClosedIsIdle, FramesIntact
  <2>2. Aligned'
    BY <1>3 DEF Data, Arrives, Aligned, frame, TypeOK
  <2>. QED  BY <2>1, <2>2
<1>. QED  BY <1>1, <1>2, <1>3 DEF dataReceived

(* A pass of buildMessage, wherever the parser stands: out of step too the  *)
(* variables keep their types.                                              *)
LEMMA BuildTyped ==
  ASSUME IndInv, buildMessage
  PROVE  /\ TypeOK' /\ HelloFirst' /\ ClosedIsIdle'
         /\ split' = split
<1>1. chunk > 0
  BY DEF buildMessage, JustMoreData, SizeKnown, SizeTooBig, MessageComplete,
     MessageRaises, Finishes
<1>2. line_mode = "no" /\ transport = "open"
  BY <1>1, InFrame
<1>3. line_mode' = line_mode /\ split' = split
  BY DEF buildMessage, JustMoreData, SizeKnown, SizeTooBig, MessageComplete,
     MessageRaises, Finishes
<1>4. TypeOK
  BY DEF IndInv
<1>5. HelloFirst'
  BY <1>2, <1>3 DEF HelloFirst
<1>6. \A p : SizeAt(p) \subseteq Nat
  BY LengthAssumption DEF SizeAt
<1>7. CASE JustMoreData
  BY <1>2, <1>4, <1>5, <1>7
  DEF JustMoreData, CompletesPart, TypeOK, ClosedIsIdle
<1>8. CASE SizeKnown
  <2>1. pending_length' \in Nat
    BY <1>6, <1>8 DEF SizeKnown
  <2>. QED
    BY <1>2, <1>4, <1>5, <1>8, <2>1
    DEF SizeKnown, Finishes, CompletesPart, TypeOK, ClosedIsIdle
<1>9. CASE SizeTooBig
  BY <1>4, <1>5, <1>9 DEF SizeTooBig, Finishes, TypeOK, ClosedIsIdle
<1>10. CASE MessageComplete \/ MessageRaises
  <2>1. /\ pos' = pos + pending_length /\ start' = pos + pending_length
        /\ waiting_for' = "SIZE" /\ pending_length' = SIZE_FMT_SIZE
        /\ delivered' = Append(delivered, [from |-> start, to |-> pos'])
        /\ chunk >= pending_length
        /\ \/ chunk' = chunk - pending_length /\ UNCHANGED transport
           \/ chunk' = 0 /\ transport' = "closed"
    BY <1>10 DEF MessageComplete, MessageRaises, Finishes, CompletesPart
  <2>2. pos' \in Nat /\ start' \in Nat /\ chunk' \in Nat
    BY <1>4, <2>1 DEF TypeOK
  <2>3. [from |-> start, to |-> pos'] \in Ranges /\ delivered \in Seq(Ranges)
    BY <1>4, <2>2 DEF TypeOK, Ranges
  <2>4. delivered' \in Seq(Ranges)
    BY <2>1, <2>3
  <2>5. TypeOK'
    BY <1>3, <1>4, <2>1, <2>2, <2>4 DEF TypeOK, Ranges, SIZE_FMT_SIZE
  <2>6. ClosedIsIdle'
    BY <1>2, <2>1 DEF ClosedIsIdle
  <2>. QED  BY <1>3, <1>5, <2>5, <2>6
<1>. QED  BY <1>3, <1>7, <1>8, <1>9, <1>10 DEF buildMessage

(* A pass of buildMessage. *)
LEMMA BuildKeeps ==
  ASSUME IndInv, buildMessage
  PROVE  IndInv'
<1>a. TypeOK' /\ HelloFirst' /\ ClosedIsIdle' /\ split' = split
  BY BuildTyped
<1>. SUFFICES ASSUME split = "no"
              PROVE  IndInv'
  BY <1>a DEF IndInv, Aligned, FramesIntact
<1>. DEFINE k == frame
<1>0. chunk > 0
  BY DEF buildMessage, JustMoreData, SizeKnown, SizeTooBig, MessageComplete,
     MessageRaises, Finishes
<1>1. /\ line_mode = "no" /\ transport = "open"
      /\ k \in 1 .. N
  BY <1>0, InFrame
<1>2. /\ TypeOK /\ Len(delivered) \in Nat /\ k = Len(delivered) + 1
      /\ pos \in Nat /\ chunk \in Nat /\ pending_length \in Nat
      /\ start \in Nat /\ start <= pos /\ pending_length > 0
      /\ pos + chunk <= Offset[N + 1]
      /\ Offset[k + 1] = Offset[k] + SIZE_FMT_SIZE + FrameLength[k]
      /\ Offset[k] \in Nat /\ FrameLength[k] \in Nat /\ FrameLength[k] > 0
  <2>1. /\ TypeOK /\ Len(delivered) \in Nat /\ k = Len(delivered) + 1
        /\ pos \in Nat /\ chunk \in Nat /\ pending_length \in Nat
        /\ start \in Nat
    BY DEF IndInv, TypeOK, frame
  <2>2. start <= pos /\ pending_length > 0 /\ pos + chunk <= Offset[N + 1]
    BY <1>1 DEF IndInv, Aligned
  <2>3. k \in 1 .. N + 1
    BY <1>1, LengthAssumption
  <2>. QED  BY <1>1, <2>1, <2>2, <2>3, OffsetAssumption, OffsetTyped
<1>3. waiting_for = "SIZE" =>
        start = Offset[k] /\ pos + pending_length = Offset[k] + SIZE_FMT_SIZE
  BY <1>1 DEF IndInv, Aligned
<1>4. waiting_for = "MESSAGE" =>
        /\ FrameLength[k] <= MAX_MESSAGE_SIZE
        /\ start = Offset[k] + SIZE_FMT_SIZE
        /\ pos + pending_length = Offset[k + 1]
  BY <1>1 DEF IndInv, Aligned
<1>5. FramesIntact
  BY DEF IndInv
<1>. HIDE DEF k
<1>6. CASE JustMoreData
  <2>1. FramesIntact'
    BY <1>5, <1>6 DEF JustMoreData, FramesIntact
  <2>2. /\ frame' = k /\ frame = k
        /\ pos' = pos + chunk /\ pos' + chunk' = pos + chunk
        /\ pending_length' = pending_length - chunk /\ pending_length' > 0
        /\ UNCHANGED <<waiting_for, start>>
    BY <1>2, <1>6 DEF JustMoreData, CompletesPart, frame, k
  <2>3. Aligned'
    BY <1>1, <1>2, <1>3, <1>4, <2>2, LengthAssumption DEF Aligned, SIZE_FMT_SIZE
  <2>. QED  BY <1>a, <2>1, <2>3 DEF IndInv
<1>7. CASE SizeKnown
  <2>1. /\ pending_length' = FrameLength[k]
        /\ FrameLength[k] <= MAX_MESSAGE_SIZE
    BY <1>1, <1>3, <1>7, SizeOfFrame DEF SizeKnown, Finishes
  <2>2. /\ waiting_for = "SIZE" /\ waiting_for' = "MESSAGE"
        /\ chunk >= pending_length /\ chunk' = chunk - pending_length
        /\ pos' = pos + pending_length /\ start' = pos + pending_length
        /\ UNCHANGED <<line_mode, delivered, transport>>
    BY <1>7 DEF SizeKnown, Finishes, CompletesPart
  <2>3. FramesIntact'
    BY <1>5, <2>2, <1>a DEF FramesIntact
  <2>4. /\ frame' = k
        /\ pos' = Offset[k] + SIZE_FMT_SIZE /\ start' = pos'
        /\ pos' + chunk' = pos + chunk
    <3>2. frame' = k
      BY <2>2 DEF frame, k
    <3>3. pos' = Offset[k] + SIZE_FMT_SIZE
      BY <1>3, <2>2
    <3>4. pos' + chunk' = pos + chunk
      BY <1>2, <2>2
    <3>. QED
      BY <2>2, <3>2, <3>3, <3>4
  <2>5. Aligned'
    <3>1. /\ frame' = k /\ k <= N /\ waiting_for' = "MESSAGE"
          /\ FrameLength[k] <= MAX_MESSAGE_SIZE
      BY <1>1, <2>1, <2>2, <2>4, LengthAssumption
    <3>2. pos' + chunk' <= Offset[N + 1] /\ start' <= pos'
      BY <1>2, <2>2, <2>4
    <3>3. pos' + pending_length' = Offset[k + 1] /\ pending_length' > 0
      BY <1>2, <2>1, <2>4
    <3>4. k <= N + 1
      BY <1>1, LengthAssumption
    <3>. QED
      BY <2>4, <3>1, <3>2, <3>3, <3>4 DEF Aligned
  <2>. QED  BY <1>a, <2>3, <2>5 DEF IndInv
<1>8. CASE SizeTooBig
  <2>1. FramesIntact'
    BY <1>5, <1>8, <1>a DEF SizeTooBig, FramesIntact
  <2>2. Aligned'
    BY <1>8 DEF SizeTooBig, Aligned
  <2>. QED  BY <1>a, <2>1, <2>2 DEF IndInv
<1>9. CASE MessageComplete \/ MessageRaises
  <2>1. /\ waiting_for = "MESSAGE" /\ waiting_for' = "SIZE"
        /\ chunk >= pending_length
        /\ pos' = pos + pending_length /\ start' = pos + pending_length
        /\ pending_length' = SIZE_FMT_SIZE
        /\ delivered' = Append(delivered, [from |-> start, to |-> pos'])
        /\ UNCHANGED line_mode
    BY <1>9 DEF MessageComplete, MessageRaises, Finishes, CompletesPart
  <2>2. \/ chunk' = chunk - pending_length /\ UNCHANGED transport
        \/ chunk' = 0 /\ transport' = "closed"
    BY <1>9 DEF MessageComplete, MessageRaises
  <2>3. /\ pos' \in Nat /\ pos' + (chunk - pending_length) = pos + chunk
        /\ pos' = Offset[k + 1] /\ start = Offset[k] + SIZE_FMT_SIZE
        /\ FrameLength[k] <= MAX_MESSAGE_SIZE
    <3>2. start = Offset[k] + SIZE_FMT_SIZE /\ FrameLength[k] <= MAX_MESSAGE_SIZE
      BY <1>4, <2>1
    <3>4. pos' = pos + pending_length
      BY <2>1
    <3>5. pos' = Offset[k + 1] /\ pos' \in Nat
      BY <1>2, <1>4, <2>1, <3>4
    <3>6. pos' + (chunk - pending_length) = pos + chunk
      BY <1>2, <3>4
    <3>. QED
      BY <3>2, <3>5, <3>6
  <2>4. delivered \in Seq(Ranges)
    BY <1>2 DEF TypeOK, Ranges
  <2>5. [from |-> start, to |-> pos'] \in Ranges
    BY <1>2, <2>3 DEF Ranges
  <2>6. /\ delivered' \in Seq(Ranges)
        /\ Len(delivered') = k /\ frame' = k + 1
        /\ \A j \in 1 .. Len(delivered) : delivered'[j] = delivered[j]
        /\ delivered'[k] = [from |-> start, to |-> pos']
    BY <1>2, <2>1, <2>4, <2>5 DEF frame
  <2>9. FramesIntact'
    <3>. SUFFICES ASSUME NEW j \in 1 .. k
                  PROVE  /\ j <= N
                         /\ delivered'[j] = [from |-> Offset[j] + SIZE_FMT_SIZE,
                                             to |-> Offset[j + 1]]
                         /\ FrameLength[j] <= MAX_MESSAGE_SIZE
      BY <2>6 DEF FramesIntact
    <3>1. CASE j = k
      BY <1>1, <2>3, <2>6, <3>1
    <3>2. CASE j # k
      <4>1. j \in 1 .. Len(delivered)
        BY <1>2, <3>2
      <4>. QED
        BY <1>5, <2>6, <4>1 DEF FramesIntact
    <3>. QED  BY <3>1, <3>2
  <2>10. Aligned'
    <3>1. frame' = k + 1 /\ k + 1 <= N + 1 /\ waiting_for' = "SIZE"
      BY <1>1, <2>1, <2>6, LengthAssumption
    <3>2. start' = Offset[k + 1] /\ start' <= pos'
      BY <2>1, <2>3
    <3>3. /\ pos' + pending_length' = Offset[k + 1] + SIZE_FMT_SIZE
          /\ pending_length' > 0
      BY <2>1, <2>3 DEF SIZE_FMT_SIZE
    <3>4. transport' = "open" => pos' + chunk' <= Offset[N + 1]
      BY <1>2, <2>2, <2>3
    <3>. QED
      BY <3>1, <3>2, <3>3, <3>4 DEF Aligned
  <2>. QED  BY <1>a, <2>9, <2>10 DEF IndInv
<1>. QED  BY <1>6, <1>7, <1>8, <1>9 DEF buildMessage

-----------------------------------------------------------------------------
(* IndInv is an invariant: unless the CR LF of the hello line is split over *)
(* two chunks, the parser is always aligned with the frames of the stream.  *)
THEOREM ParserAligned == Spec => []IndInv
<1>1. IndInv /\ [Next]_vars => IndInv'
  <2>. SUFFICES ASSUME IndInv, [Next]_vars
                PROVE  IndInv'
    OBVIOUS
  <2>1. ASSUME NEW n \in 1 .. Offset[N + 1], dataReceived(n)
        PROVE  IndInv'
    BY <2>1, ArrivalKeeps, OffsetTyped, LengthAssumption
  <2>2. CASE buildMessage
    BY <2>2, BuildKeeps
  <2>3. CASE UNCHANGED vars
    BY <2>3 DEF vars, IndInv, TypeOK, HelloFirst, ClosedIsIdle, Aligned,
       frame, FramesIntact
  <2>. QED  BY <2>1, <2>2, <2>3 DEF Next
<1>. QED  BY <1>1, InitHolds, PTL DEF Spec

(* Unless the CR LF of the hello line is split, the messages handed to      *)
(* processMessage are the frames of the server.                             *)
THEOREM MessagesAreFrames == Spec => []FramesIntact
<1>1. IndInv => FramesIntact
  BY DEF IndInv
<1>. QED  BY <1>1, ParserAligned, PTL

(* Unless the CR LF of the hello line is split, a frame that has come in    *)
(* full has been delivered when dataReceived returns.                       *)
THEOREM FramesAreDelivered == Spec => []NothingHeldBack
<1>1. IndInv => NothingHeldBack
  <2>. SUFFICES ASSUME IndInv, split = "no", line_mode = "no", chunk = 0,
                       transport = "open", NEW k \in 1 .. N,
                       Offset[k + 1] <= pos
                PROVE  k <= Len(delivered)
    BY DEF NothingHeldBack
  <2>. DEFINE j == frame
  <2>1. /\ j \in 1 .. N + 1 /\ Len(delivered) \in Nat
        /\ pos \in Nat /\ start \in Nat /\ pending_length \in Nat
        /\ pending_length > 0
    BY LengthAssumption DEF IndInv, TypeOK, Aligned, frame
  <2>2. CASE j = N + 1
    BY <2>1, <2>2, LengthAssumption DEF frame
  <2>3. CASE j \in 1 .. N
    <3>1. pos < Offset[j + 1]
      <4>1. CASE waiting_for = "SIZE"
        <5>1. pos + pending_length = Offset[j] + SIZE_FMT_SIZE
          BY <4>1 DEF IndInv, Aligned
        <5>2. /\ Offset[j + 1] = Offset[j] + SIZE_FMT_SIZE + FrameLength[j]
              /\ Offset[j] \in Nat
              /\ FrameLength[j] \in Nat
          BY <2>1, <2>3, OffsetAssumption, OffsetTyped
        <5>. HIDE DEF j
        <5>. QED  BY <2>1, <5>1, <5>2 DEF SIZE_FMT_SIZE
      <4>2. CASE waiting_for = "MESSAGE"
        <5>1. pos + pending_length = Offset[j + 1]
          BY <4>2 DEF IndInv, Aligned
        <5>2. Offset[j + 1] \in Nat
          BY <2>3, LengthAssumption, OffsetTyped
        <5>. HIDE DEF j
        <5>. QED  BY <2>1, <5>1, <5>2
      <4>. QED  BY <4>1, <4>2 DEF IndInv, TypeOK
    <3>2. Offset[k + 1] < Offset[j + 1]
      BY <2>1, <2>3, <3>1, OffsetTyped, LengthAssumption
    <3>3. ~(j + 1 <= k + 1)
      <4>. HIDE DEF j
      <4>1. j + 1 \in 1 .. N + 1 /\ k + 1 \in 1 .. N + 1
        BY <2>3, LengthAssumption
      <4>2. j + 1 < k + 1 => Offset[j + 1] < Offset[k + 1]
        BY <4>1, OffsetAssumption
      <4>. QED
        BY <3>2, <4>1, <4>2, OffsetTyped
    <3>. QED
      BY <2>1, <3>3, LengthAssumption DEF frame
  <2>. QED  BY <2>1, <2>2, <2>3, LengthAssumption
<1>. QED  BY <1>1, ParserAligned, PTL

(* The variables have their types. *)
THEOREM TypeCorrect == Spec => []TypeOK
<1>1. IndInv => TypeOK
  BY DEF IndInv
<1>. QED  BY <1>1, ParserAligned, PTL

(* Unless the CR LF of the hello line is split, the size of a message above *)
(* the limit has closed the transport when dataReceived returns.            *)
THEOREM OversizeIsRefused == Spec => []OversizeCloses
<1>1. IndInv => OversizeCloses
  <2>. SUFFICES ASSUME IndInv, split = "no", line_mode = "no", chunk = 0,
                       transport = "open",
                       NEW k \in 1 .. N, FrameLength[k] > MAX_MESSAGE_SIZE,
                       Offset[k] + SIZE_FMT_SIZE <= pos
                PROVE  FALSE
    BY DEF OversizeCloses, IndInv, TypeOK
  <2>. DEFINE j == frame
  <2>1. /\ j \in 1 .. N + 1 /\ Len(delivered) \in Nat
        /\ pos \in Nat /\ start \in Nat /\ pending_length \in Nat
        /\ pending_length > 0
    BY LengthAssumption DEF IndInv, TypeOK, Aligned, frame
  <2>2. FrameLength[k] \in Nat /\ MAX_MESSAGE_SIZE \in Nat
    BY LengthAssumption
  <2>3. ~(k <= Len(delivered))
    <3>1. k \in 1 .. Len(delivered) => FrameLength[k] <= MAX_MESSAGE_SIZE
      BY DEF IndInv, FramesIntact
    <3>2. k \in Nat /\ k >= 1
      BY LengthAssumption
    <3>. QED  BY <2>1, <2>2, <3>1, <3>2
  <2>4. j <= k /\ j \in 1 .. N
    BY <2>1, <2>3, LengthAssumption DEF frame
  <2>5. CASE waiting_for = "SIZE"
    <3>1. pos < Offset[j] + SIZE_FMT_SIZE
      <4>1. pos + pending_length = Offset[j] + SIZE_FMT_SIZE
        BY <2>5 DEF IndInv, Aligned
      <4>2. Offset[j] \in Nat
        BY <2>1, OffsetTyped
      <4>. HIDE DEF j
      <4>. QED  BY <2>1, <4>1, <4>2 DEF SIZE_FMT_SIZE
    <3>2. j < k => Offset[j] < Offset[k]
      BY <2>1, OffsetAssumption, LengthAssumption
    <3>3. Offset[j] <= Offset[k]
      <4>. HIDE DEF j
      <4>1. Offset[j] \in Nat /\ Offset[k] \in Nat
        BY <2>1, OffsetTyped, LengthAssumption
      <4>. QED  BY <2>1, <2>4, <3>2, <4>1
    <3>4. Offset[j] \in Nat /\ Offset[k] \in Nat
      BY <2>1, OffsetTyped, LengthAssumption
    <3>. HIDE DEF j
    <3>. QED  BY <2>1, <3>1, <3>3, <3>4 DEF SIZE_FMT_SIZE
  <2>6. CASE waiting_for = "MESSAGE"
    <3>1. /\ FrameLength[j] <= MAX_MESSAGE_SIZE
          /\ pos + pending_length = Offset[j + 1]
      BY <2>6 DEF IndInv, Aligned
    <3>. HIDE DEF j
    <3>2. j # k
      BY <2>2, <3>1
    <3>3. /\ j + 1 \in 1 .. N + 1 /\ k \in 1 .. N + 1
          /\ j + 1 < k \/ j + 1 = k
      BY <2>4, <3>2, LengthAssumption
    <3>4. Offset[j + 1] \in Nat /\ Offset[k] \in Nat
      BY <3>3, OffsetTyped
    <3>5. j + 1 < k => Offset[j + 1] < Offset[k]
      BY <3>3, OffsetAssumption
    <3>. QED  BY <2>1, <3>1, <3>3, <3>4, <3>5 DEF SIZE_FMT_SIZE
  <2>. QED  BY <2>5, <2>6 DEF IndInv, TypeOK
<1>. QED  BY <1>1, ParserAligned, PTL

-----------------------------------------------------------------------------
(* The hello line is found however the stream is cut, except between its CR *)
(* and its LF: dataReceived looks for the pair in each chunk.               *)
THEOREM HelloIsFound == Spec => []HelloLineFound
<1>1. IndInv => HelloLineFound
  BY LengthAssumption DEF IndInv, TypeOK, HelloFirst, HelloLineFound
<1>. QED  BY <1>1, ParserAligned, PTL
=============================================================================
