------------------------------- MODULE Upload -------------------------------
(* Uploads on one connection: PutContent requests, the BytesMessageProducer *)
(* that each BEGIN_CONTENT creates, and what pauses and resumes them: the   *)
(* transport, whose producer the request handler is, and the throttling     *)
(* factory.  All run in the reactor's thread, but a message written from    *)
(* within resumeProducing may pause the handler before resumeProducing has  *)
(* gone through its requests.                                               *)
(*                                                                          *)
(* A file is FileSize payloads; a position is a number of payloads.         *)

EXTENDS Integers, Sequences

CONSTANTS
  NUploads,         \* uploads that are started, one after the other
  FileSize,
  Offsets,          \* the offsets the server's BEGIN_CONTENT may carry
  StartPositions,   \* where the file object stands when it is handed over
  BufferFills,      \* is the transport slow enough for its buffer to fill
  Throttles         \* is there a limit for writes

Uploads == 1 .. NUploads

ASSUME UploadAssumption ==
  /\ NUploads \in Nat /\ FileSize \in Nat
  /\ Offsets \subseteq 0 .. FileSize
  /\ StartPositions \subseteq 0 .. FileSize
  /\ BufferFills \in BOOLEAN /\ Throttles \in BOOLEAN

VARIABLES
  (* RequestHandler *)
  handler_producing,   \* "yes" or "no"
  resuming,            \* the requests resumeProducing has still to resume
  (* Request *)
  state,               \* "new", "live" in the registry, or "over"
  cancelled,
  producing,           \* the requests whose producing is set
  (* BytesMessageProducer *)
  begun,               \* the uploads that have a producer
  going,               \* the producers whose producing is set
  finished,
  offset,
  position,            \* of the file object
  go_calls,            \* calls of go that the reactor has pending
  (* the connection *)
  conn,                \* "open" or "lost"
  buffer,              \* "empty", "some", or "full"
  producerPaused,      \* the transport has paused the handler
  throttled,           \* a call to unthrottleWrites is pending
  (* history *)
  sent,                \* the messages of each upload, in order
  asked                \* the offset the server asked for

requestVars == <<state, cancelled, producing>>
producerVars == <<begun, going, finished, offset, position, go_calls>>
connVars == <<conn, buffer, producerPaused, throttled>>
vars == <<handler_producing, resuming, requestVars, producerVars, connVars,
          sent, asked>>

Live == {u \in Uploads : state[u] = "live"}

Bytes(p) == [type |-> "BYTES", at |-> p]
EOF == [type |-> "EOF", at |-> FileSize]
CancelRequest == [type |-> "CANCEL_REQUEST", at |-> 0]

Init ==
  /\ handler_producing = "yes"
  /\ resuming = {}
  /\ state = [u \in Uploads |-> "new"]
  /\ cancelled = {} /\ producing = {}
  /\ begun = {} /\ going = {} /\ finished = {}
  /\ offset = [u \in Uploads |-> 0]
  /\ position \in [Uploads -> StartPositions]
  /\ go_calls = [u \in Uploads |-> 0]
  /\ conn = "open" /\ buffer = "empty"
  /\ producerPaused = "no" /\ throttled = "no"
  /\ sent = [u \in Uploads |-> <<>>]
  /\ asked = [u \in Uploads |-> 0]

(* The reactor is in no call: it may make the next one. *)
Idle == resuming = {}

-----------------------------------------------------------------------------
(* Writing.  A message is counted, and throttled if it reaches the limit    *)
(* and no unthrottling is pending; then the transport takes it, and pauses  *)
(* its producer if the buffer is full.                                      *)

Write(rs, pauses) ==
  IF conn = "lost"
  THEN pauses = FALSE /\ UNCHANGED <<buffer, producerPaused, throttled>>
  ELSE /\ \/ Throttles /\ throttled = "no" /\ throttled' = "yes"
          \/ UNCHANGED throttled
       /\ \/ buffer' = IF buffer = "full" THEN "full" ELSE "some"
          \/ BufferFills /\ buffer' = "full"
       /\ producerPaused' = IF buffer' = "full" /\ rs # {} THEN "yes"
                            ELSE producerPaused
       /\ pauses = (throttled' # throttled \/ (buffer' = "full" /\ rs # {}))

(* RequestHandler.pauseProducing, if a write has called it, pauses the      *)
(* requests rs and their producers: who of "who" is producing then.         *)
Paused(rs, pauses, who) == IF pauses THEN who \ rs ELSE who
HandlerPaused(pauses) == IF pauses THEN "no" ELSE handler_producing

-----------------------------------------------------------------------------
(* BytesMessageProducer *)

(* Mutant: goes on although the request is cancelled. *)
Goes_Cancelled(u, on) == u \in on /\ u \notin finished
(* Mutant: goes on after EOF. *)
Goes_Finished(u, on) == u \in on /\ u \notin cancelled
Goes(u, on) == u \in on /\ u \notin cancelled /\ u \notin finished

(* Where fh.read reads: it seeks first, unless the offset is 0. *)
ReadsAt(u, off) == IF off # 0 THEN off ELSE position[u]

(* A producer that was given offset 0 does not keep one. *)
Advanced(off) == IF off # 0 THEN off + 1 ELSE 0

(* go of the producer of u, when the producers "on" are producing: off is   *)
(* its offset, and "calls" are pending.  Its write may pause the handler.   *)
go(u, on, off, calls, pauses) ==
  LET p == ReadsAt(u, off)
  IN IF ~Goes(u, on)
     THEN /\ going' = on
          /\ go_calls' = calls
          /\ offset' = [offset EXCEPT ![u] = off]
          /\ pauses = FALSE
          /\ UNCHANGED <<finished, position, buffer, producerPaused,
                         throttled, sent>>
     ELSE /\ Write(Live, pauses)
          /\ IF p < FileSize
             THEN /\ sent' = [sent EXCEPT ![u] = Append(@, Bytes(p))]
                  /\ offset' = [offset EXCEPT ![u] = Advanced(off)]
                  /\ position' = [position EXCEPT ![u] = p + 1]
                  /\ go_calls' = [calls EXCEPT ![u] = @ + 1]
                  /\ going' = Paused(Live, pauses, on)
                  /\ UNCHANGED finished
             ELSE /\ sent' = [sent EXCEPT ![u] = Append(@, EOF)]
                  /\ offset' = [offset EXCEPT ![u] = off]
                  /\ position' = [position EXCEPT ![u] = p]
                  /\ go_calls' = calls
                  /\ going' = Paused(Live, pauses, on) \ {u}
                  /\ finished' = finished \cup {u}

(* Mutant: go is called without the reactor having been asked to. *)
RunGo_Uncounted(u) ==
  /\ Idle
  /\ u \in begun
  /\ \E pauses \in BOOLEAN :
       /\ go(u, going, offset[u], [go_calls EXCEPT ![u] = @ - 1], pauses)
       /\ producing' = Paused(Live, pauses, producing)
       /\ handler_producing' = HandlerPaused(pauses)
  /\ UNCHANGED <<resuming, state, cancelled, begun, conn, asked>>

(* The reactor makes the call that go asked for. *)
RunGo(u) ==
  /\ Idle
  /\ go_calls[u] > 0
  /\ \E pauses \in BOOLEAN :
       /\ go(u, going, offset[u], [go_calls EXCEPT ![u] = @ - 1], pauses)
       /\ producing' = Paused(Live, pauses, producing)
       /\ handler_producing' = HandlerPaused(pauses)
  /\ UNCHANGED <<resuming, state, cancelled, begun, conn, asked>>

-----------------------------------------------------------------------------
(* Requests *)

(* Request.start: addProducer, then PUT_CONTENT is written. *)
Start(u) ==
  /\ Idle
  /\ conn = "open"
  /\ state[u] = "new"
  /\ \A v \in Uploads : v < u => state[v] # "new"
  /\ state' = [state EXCEPT ![u] = "live"]
  /\ \E pauses \in BOOLEAN :
       /\ Write(Live \cup {u}, pauses)
       /\ LET on == IF handler_producing = "yes" THEN producing \cup {u}
                    ELSE producing
          IN producing' = Paused(Live \cup {u}, pauses, on)
       /\ going' = Paused(Live, pauses, going)
       /\ handler_producing' = HandlerPaused(pauses)
  /\ UNCHANGED <<resuming, cancelled, begun, finished, offset, position,
                 go_calls, conn, sent, asked>>

(* BEGIN_CONTENT: the producer is registered, and resumed unless the        *)
(* request is paused.                                                       *)
BeginContent(u, off) ==
  /\ Idle
  /\ conn = "open"
  /\ state[u] = "live" /\ u \notin begun
  /\ begun' = begun \cup {u}
  /\ asked' = [asked EXCEPT ![u] = off]
  /\ \E pauses \in BOOLEAN :
       /\ go(u, IF u \in producing THEN going \cup {u} ELSE going, off,
             go_calls, pauses)
       /\ producing' = Paused(Live, pauses, producing)
       /\ handler_producing' = HandlerPaused(pauses)
  /\ UNCHANGED <<resuming, state, cancelled, conn>>

(* cancel, with _cancel of PutContent. *)
Cancel(u) ==
  /\ Idle
  /\ conn = "open"
  /\ state[u] = "live" /\ u \notin cancelled
  /\ cancelled' = cancelled \cup {u}
  /\ sent' = [sent EXCEPT ![u] = Append(@, CancelRequest)]
  /\ \E pauses \in BOOLEAN :
       /\ Write(Live, pauses)
       /\ going' = Paused(Live, pauses, going \ (begun \cap {u}))
       /\ producing' = Paused(Live, pauses, producing)
       /\ handler_producing' = HandlerPaused(pauses)
  /\ UNCHANGED <<resuming, state, begun, finished, offset, position, go_calls,
                 conn, asked>>

(* The request ends: with OK once the server has the content, with          *)
(* CANCELLED, or with ERROR at any time.                                    *)
Ends(u) ==
  /\ Idle
  /\ conn = "open"
  /\ state[u] = "live"
  /\ state' = [state EXCEPT ![u] = "over"]
  /\ UNCHANGED <<handler_producing, resuming, cancelled, producing,
                 producerVars, connVars, sent, asked>>

EndsWell(u) == (u \in finished \/ u \in cancelled) /\ Ends(u)
Refused(u) == Ends(u)

-----------------------------------------------------------------------------
(* RequestHandler.resumeProducing, one action for each request. *)

(* Mutant: the handler's own flag is left. *)
AllResumed_FlagLeft(pauses) == HandlerPaused(pauses)
AllResumed(pauses) == "yes"

resumeProducing ==
  /\ resuming' = Live
  /\ handler_producing' = IF Live = {} THEN AllResumed(FALSE)
                          ELSE handler_producing

ResumeRequest(u) ==
  /\ u \in resuming
  /\ \A v \in resuming : u <= v
  /\ resuming' = resuming \ {u}
  /\ \E pauses \in BOOLEAN :
       /\ IF u \in begun
          THEN go(u, going \cup {u}, offset[u], go_calls, pauses)
          ELSE /\ pauses = FALSE
               /\ UNCHANGED <<going, finished, offset, position, go_calls,
                              buffer, producerPaused, throttled, sent>>
       /\ producing' = Paused(Live, pauses, producing) \cup {u}
       /\ handler_producing' = IF resuming' = {} THEN AllResumed(pauses)
                               ELSE HandlerPaused(pauses)
  /\ UNCHANGED <<state, cancelled, begun, conn, asked>>

(* The transport has written what it had.  It resumes the handler if it has *)
(* paused it, or whoever it had as its producer at that time.               *)
Drain ==
  /\ Idle
  /\ conn = "open" /\ buffer # "empty"
  /\ buffer' = "empty"
  /\ IF producerPaused = "yes" /\ Live # {}
     THEN producerPaused' = "no" /\ resumeProducing
     ELSE UNCHANGED <<producerPaused, resuming, handler_producing>>
  /\ UNCHANGED <<requestVars, producerVars, conn, throttled, sent, asked>>

(* The factory's call to unthrottleWrites runs. *)
UnthrottleWrites ==
  /\ Idle
  /\ conn = "open" /\ throttled = "yes"
  /\ throttled' = "no"
  /\ resumeProducing
  /\ UNCHANGED <<requestVars, producerVars, conn, buffer, producerPaused,
                 sent, asked>>

(* The transport stops its producer, then connectionLost stops, cancels and *)
(* errs each request.                                                       *)
ConnectionLost ==
  /\ Idle
  /\ conn = "open"
  /\ conn' = "lost"
  /\ handler_producing' = IF Live # {} THEN "no" ELSE handler_producing
  /\ producing' = producing \ Live
  /\ going' = going \ Live
  /\ cancelled' = cancelled \cup Live
  /\ state' = [u \in Uploads |-> IF u \in Live THEN "over" ELSE state[u]]
  /\ sent' = [u \in Uploads |->
                IF u \in Live \ cancelled THEN Append(sent[u], CancelRequest)
                ELSE sent[u]]
  /\ throttled' = "no"
  /\ UNCHANGED <<resuming, begun, finished, offset, position, go_calls, buffer,
                 producerPaused, asked>>

-----------------------------------------------------------------------------
Next ==
  \/ \E u \in Uploads : RunGo(u)
  \/ \E u \in Uploads : Start(u)
  \/ \E u \in Uploads, off \in Offsets : BeginContent(u, off)
  \/ \E u \in Uploads : Cancel(u)
  \/ \E u \in Uploads : EndsWell(u)
  \/ \E u \in Uploads : Refused(u)
  \/ \E u \in Uploads : ResumeRequest(u)
  \/ Drain
  \/ UnthrottleWrites
  \/ ConnectionLost

Spec == Init /\ [][Next]_vars

(* A call of resumeProducing runs on, and the reactor makes the calls it    *)
(* holds; the peer reads, so that the transport can write.                  *)
FairSpec ==
  /\ Spec
  /\ \A u \in Uploads : WF_vars(RunGo(u)) /\ WF_vars(ResumeRequest(u))
  /\ WF_vars(Drain)
  /\ WF_vars(UnthrottleWrites)

-----------------------------------------------------------------------------
(* Properties *)

Message == {EOF, CancelRequest} \cup {Bytes(p) : p \in 0 .. FileSize - 1}

TypeOK ==
  /\ handler_producing \in {"yes", "no"}
  /\ resuming \subseteq Uploads
  /\ state \in [Uploads -> {"new", "live", "over"}]
  /\ cancelled \subseteq Uploads /\ producing \subseteq Uploads
  /\ begun \subseteq Uploads /\ going \subseteq Uploads
  /\ finished \subseteq Uploads
  /\ offset \in [Uploads -> 0 .. FileSize]
  /\ position \in [Uploads -> 0 .. FileSize]
  /\ go_calls \in [Uploads -> Nat]
  /\ conn \in {"open", "lost"} /\ buffer \in {"empty", "some", "full"}
  /\ producerPaused \in {"yes", "no"} /\ throttled \in {"yes", "no"}
  /\ sent \in [Uploads -> Seq(Message)]
  /\ asked \in [Uploads -> 0 .. FileSize]

(* What the server gets of a file is the file from the offset it asked for: *)
(* payload by payload, none twice and none left out, and EOF once, behind   *)
(* the last; however often the upload is paused and resumed, and although   *)
(* several calls of go may be pending at a time.                            *)
ContentFromOffset ==
  \A u \in Uploads :
    \A i \in 1 .. Len(sent[u]) :
      LET p == asked[u] + i - 1
      IN sent[u][i] # CancelRequest =>
           /\ p <= FileSize
           /\ sent[u][i] = IF p < FileSize THEN Bytes(p) ELSE EOF

(* Nothing of a cancelled upload follows its CANCEL_REQUEST, although it    *)
(* may be resumed and calls of go may be pending.                           *)
CancelIsLast ==
  \A u \in Uploads : \A i \in 1 .. Len(sent[u]) :
    sent[u][i] = CancelRequest => i = Len(sent[u])

(* Both at once and in every step: seen through the messages alone, the     *)
(* uploads are the transfers of FileTransfer, whatever is paused, throttled *)
(* or called late.                                                          *)
File == INSTANCE FileTransfer
          WITH Transfers <- Uploads, stream <- sent, from <- asked, open <- begun
TransfersFiles == File!Spec

(* An upload never stays paused: once begun it is sent to its end, unless   *)
(* it is cancelled, ends before, or the connection is lost.                 *)
UploadsFinish ==
  \A u \in Uploads :
    u \in begun ~> u \in finished \/ u \in cancelled \/ state[u] = "over"

StillProducing == going \ (cancelled \cup finished)

(* "Throttle writes on all protocols", by "Pause producing": while the      *)
(* writes are throttled no request's producer produces.                     *)
ThrottledMeansPaused ==
  throttled = "yes" /\ Idle => StillProducing \cap Live = {}
=============================================================================
