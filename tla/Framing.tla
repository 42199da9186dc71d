------------------------------ MODULE Framing ------------------------------
(* How the client cuts the byte stream from the server into messages:       *)
(* StorageClient.dataReceived (the hello line) and                          *)
(* RequestHandler.buildMessage (four bytes of length, then the message).    *)
(*                                                                          *)
(* The stream is HelloLength bytes that end in CR LF, then N frames, whose  *)
(* messages may hold CR LF too.  Bytes are identified by their position in  *)
(* the stream; the transport hands them over in chunks of any size.         *)

EXTENDS Integers, Sequences

CONSTANTS
  HelloLength,        \* length of the hello line with its CR LF
  N,                  \* number of frames in the stream
  FrameLength,        \* the length of each message, without its size field
  Offset,             \* where each frame starts, and where the stream ends
  LineEnds,           \* the positions just behind a CR LF
  MAX_MESSAGE_SIZE

SIZE_FMT_SIZE == 4

ASSUME LengthAssumption ==
  /\ N \in Nat
  /\ HelloLength \in Nat /\ HelloLength >= 2
  /\ FrameLength \in [1 .. N -> Nat \ {0}]
  /\ MAX_MESSAGE_SIZE \in Nat

(* The last conjunct follows from the others by induction. *)
ASSUME OffsetAssumption ==
  /\ Offset \in [1 .. N + 1 -> Nat]
  /\ Offset[1] = HelloLength
  /\ \A k \in 1 .. N : Offset[k + 1] = Offset[k] + SIZE_FMT_SIZE + FrameLength[k]
  /\ \A j, k \in 1 .. N + 1 : j < k => Offset[j] < Offset[k]

(* The first CR LF of the stream ends the hello line. *)
ASSUME LineEndsAssumption ==
  /\ HelloLength \in LineEnds
  /\ LineEnds \subseteq HelloLength .. Offset[N + 1]

VARIABLES
  pos,             \* bytes of the stream consumed so far
  chunk,           \* bytes of the current dataReceived call not consumed yet
  line_mode,
  waiting_for,     \* "SIZE" or "MESSAGE"
  pending_length,
  start,           \* the position of the first byte in pending_parts
  delivered,       \* the messages handed to processMessage, as byte ranges
  transport,       \* "open", "closed" once loseConnection is called
  split            \* history: "yes" once a chunk has ended between the CR
                   \* and the LF of the hello line

vars == <<pos, chunk, line_mode, waiting_for, pending_length, start,
          delivered, transport, split>>

Init ==
  /\ pos = 0
  /\ chunk = 0
  /\ line_mode = "yes"
  /\ waiting_for = "SIZE"
  /\ pending_length = SIZE_FMT_SIZE
  /\ start = 0
  /\ delivered = <<>>
  /\ transport = "open"
  /\ split = "no"

(* What struct.unpack makes of the four bytes at a position: the length of  *)
(* a frame if they are its size field, and otherwise any number.            *)
SizeAt(p) ==
  IF \E k \in 1 .. N : Offset[k] = p
  THEN {FrameLength[k] : k \in {j \in 1 .. N : Offset[j] = p}}
  ELSE 0 .. MAX_MESSAGE_SIZE + 1

-----------------------------------------------------------------------------
(* dataReceived is called with the next n bytes, once the previous call has *)
(* returned.                                                                *)

Arrives(n) ==
  /\ transport = "open"
  /\ chunk = 0
  /\ n > 0
  /\ pos + n <= Offset[N + 1]

(* The CR LFs that the next n bytes hold whole. *)
LinesIn(n) == {e \in LineEnds : pos + 2 <= e /\ e <= pos + n}

(* The chunk holds a CR LF: what is behind the first one goes to            *)
(* buildMessage.  It need not be the CR LF of the hello line.               *)
HelloLine(n) ==
  /\ line_mode = "yes"
  /\ Arrives(n)
  /\ \E e \in LinesIn(n) :
       /\ \A f \in LinesIn(n) : e <= f
       /\ pos' = e
       /\ start' = e
       /\ chunk' = pos + n - e
  /\ line_mode' = "no"
  /\ UNCHANGED <<waiting_for, pending_length, delivered, transport, split>>

(* The chunk does not hold CR LF: dataReceived returns, the bytes are gone. *)
NoHelloLine(n) ==
  /\ line_mode = "yes"
  /\ Arrives(n)
  /\ LinesIn(n) = {}
  /\ pos' = pos + n
  /\ split' = IF pos' = HelloLength - 1 THEN "yes" ELSE split
  /\ UNCHANGED <<chunk, line_mode, waiting_for, pending_length, start,
                 delivered, transport>>

Data(n) ==
  /\ line_mode = "no"
  /\ Arrives(n)
  /\ chunk' = n
  /\ UNCHANGED <<pos, line_mode, waiting_for, pending_length, start,
                 delivered, transport, split>>

-----------------------------------------------------------------------------
(* buildMessage, one action for each pass through its else branch.          *)

(* Mutant: a part that ends with its chunk is not seen to be complete. *)
CompletesPart_NextCall == chunk > pending_length
(* Mutant: a chunk is never split. *)
CompletesPart_NoSplit == chunk = pending_length
CompletesPart == chunk >= pending_length

(* All that is left of the chunk, and it does not finish the part. *)
JustMoreData ==
  /\ chunk > 0 /\ ~CompletesPart
  /\ pos' = pos + chunk
  /\ pending_length' = pending_length - chunk
  /\ chunk' = 0
  /\ UNCHANGED <<line_mode, waiting_for, start, delivered, transport, split>>

Finishes(what) ==
  /\ chunk > 0 /\ CompletesPart
  /\ waiting_for = what
  /\ pos' = pos + pending_length
  /\ start' = pos + pending_length
  /\ UNCHANGED <<line_mode, split>>

(* Mutant: the length is taken to count the size field. *)
SizeKnown_CountsItself ==
  /\ Finishes("SIZE")
  /\ \E sz \in SizeAt(start) :
       /\ sz <= MAX_MESSAGE_SIZE
       /\ pending_length' = sz + SIZE_FMT_SIZE
  /\ waiting_for' = "MESSAGE"
  /\ chunk' = chunk - pending_length
  /\ UNCHANGED <<delivered, transport>>

(* Mutant: without the limit. *)
SizeKnown_NoLimit ==
  /\ Finishes("SIZE")
  /\ pending_length' \in SizeAt(start)
  /\ waiting_for' = "MESSAGE"
  /\ chunk' = chunk - pending_length
  /\ UNCHANGED <<delivered, transport>>

(* The size field is complete. *)
SizeKnown ==
  /\ Finishes("SIZE")
  /\ \E sz \in SizeAt(start) :
       /\ sz <= MAX_MESSAGE_SIZE
       /\ pending_length' = sz
  /\ waiting_for' = "MESSAGE"
  /\ chunk' = chunk - pending_length
  /\ UNCHANGED <<delivered, transport>>

(* StorageProtocolErrorSizeTooBig leaves buildMessage; dataReceived catches *)
(* it and the rest of the chunk is dropped.                                 *)
SizeTooBig ==
  /\ Finishes("SIZE")
  /\ \E sz \in SizeAt(start) : sz > MAX_MESSAGE_SIZE
  /\ pending_length' = 0
  /\ transport' = "closed"
  /\ chunk' = 0
  /\ UNCHANGED <<waiting_for, delivered>>

(* The message is complete and processMessage gets it. *)
MessageComplete ==
  /\ Finishes("MESSAGE")
  /\ delivered' = Append(delivered, [from |-> start, to |-> pos'])
  /\ waiting_for' = "SIZE"
  /\ pending_length' = SIZE_FMT_SIZE
  /\ chunk' = chunk - pending_length
  /\ UNCHANGED transport

(* ParseFromString or processMessage raises: the exception ends             *)
(* dataReceived, and the reactor drops the connection.                      *)
MessageRaises ==
  /\ Finishes("MESSAGE")
  /\ delivered' = Append(delivered, [from |-> start, to |-> pos'])
  /\ waiting_for' = "SIZE"
  /\ pending_length' = SIZE_FMT_SIZE
  /\ chunk' = 0
  /\ transport' = "closed"

buildMessage ==
  JustMoreData \/ SizeKnown \/ SizeTooBig \/ MessageComplete \/ MessageRaises

dataReceived(n) == HelloLine(n) \/ NoHelloLine(n) \/ Data(n)

Next ==
  \/ \E n \in 1 .. Offset[N + 1] : dataReceived(n)
  \/ buildMessage

Spec == Init /\ [][Next]_vars

(* The transport hands over what arrives, and a call that has begun runs on. *)
FairSpec ==
  /\ Spec
  /\ WF_vars(\E n \in 1 .. Offset[N + 1] : dataReceived(n))
  /\ WF_vars(buildMessage)

-----------------------------------------------------------------------------
(* Properties *)

TypeOK ==
  /\ pos \in Nat
  /\ chunk \in Nat
  /\ line_mode \in {"yes", "no"}
  /\ waiting_for \in {"SIZE", "MESSAGE"}
  /\ pending_length \in Nat
  /\ start \in Nat
  /\ delivered \in Seq([from : Nat, to : Nat])
  /\ transport \in {"open", "closed"}
  /\ split \in {"yes", "no"}

(* However the stream is cut into chunks, except between the CR and the LF  *)
(* of the hello line, the messages that reach processMessage are the frames *)
(* the server wrote, whole, in order and none of them skipped; and none is  *)
(* above the limit.                                                         *)
FramesIntact ==
  split = "no" => \A k \in 1 .. Len(delivered) :
    /\ k <= N
    /\ delivered[k] = [from |-> Offset[k] + SIZE_FMT_SIZE, to |-> Offset[k + 1]]
    /\ FrameLength[k] <= MAX_MESSAGE_SIZE

(* A message is not held back: when dataReceived returns, every frame whose *)
(* last byte has come has been delivered, although a message and the size   *)
(* field of the next share a chunk; with the same exception.                *)
NothingHeldBack ==
  split = "no" /\ line_mode = "no" /\ chunk = 0 /\ transport = "open" =>
    \A k \in 1 .. N : Offset[k + 1] <= pos => k <= Len(delivered)

(* Why: unless the hello line was split, the parser stands inside the frame *)
(* after the last one delivered, and pending_length is what is missing of   *)
(* its size field or its message.                                           *)
frame == Len(delivered) + 1

Aligned ==
  split = "no" /\ line_mode = "no" /\ transport = "open" =>
    /\ frame <= N + 1
    /\ pos + chunk <= Offset[N + 1]
    /\ waiting_for = "SIZE" =>
         /\ start = Offset[frame]
         /\ pos + pending_length = Offset[frame] + SIZE_FMT_SIZE
    /\ waiting_for = "MESSAGE" =>
         /\ frame <= N
         /\ FrameLength[frame] <= MAX_MESSAGE_SIZE
         /\ start = Offset[frame] + SIZE_FMT_SIZE
         /\ pos + pending_length = Offset[frame + 1]
    /\ start <= pos
    /\ pending_length > 0

(* Before CR LF has been found nothing has been parsed, and unless it was   *)
(* split the one of the hello line is still to come, in one piece.          *)
HelloFirst ==
  line_mode = "yes" => /\ waiting_for = "SIZE"
                       /\ pending_length = SIZE_FMT_SIZE
                       /\ delivered = <<>>
                       /\ chunk = 0
                       /\ transport = "open"
                       /\ split = "no" => pos + 2 <= HelloLength

(* Nothing is parsed on a transport that has been given up. *)
ClosedIsIdle == transport = "closed" => chunk = 0

IndInv ==
  TypeOK /\ HelloFirst /\ ClosedIsIdle /\ Aligned /\ FramesIntact

(* As soon as the size field of a message above the limit has come the      *)
(* connection is given up: nothing behind it is parsed.  Of a split hello   *)
(* line it says nothing: the sizes read then are not those of the frames.   *)
OversizeCloses ==
  split = "no" /\ line_mode = "no" /\ chunk = 0 =>
    \A k \in 1 .. N :
      FrameLength[k] > MAX_MESSAGE_SIZE /\ Offset[k] + SIZE_FMT_SIZE <= pos
        => transport = "closed"

(* "First reads the protocol hello line then switch back to len+data": once *)
(* the hello line has come, dataReceived is out of line mode, unless its CR *)
(* LF was split over two chunks.                                            *)
HelloLineFound == split = "no" /\ pos >= HelloLength => line_mode = "no"

(* Every message of the stream that has none above the limit before it is   *)
(* delivered in the end, unless the processing of one before it raises or   *)
(* the CR LF of the hello line is split.                                    *)
AllDelivered ==
  \A k \in 1 .. N :
    (\A j \in 1 .. k : FrameLength[j] <= MAX_MESSAGE_SIZE)
      => <>(Len(delivered) >= k \/ transport = "closed" \/ split = "yes")
=============================================================================
