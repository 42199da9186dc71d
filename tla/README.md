# Verification of the magicicada protocol client

This directory holds TLA+ models of the Python client library in
`src/magicicadaprotocol/`, TLC configurations that check them on small
instances, and TLAPS proofs of their main invariants. It is written for
somebody who works on that code. Names in the modules are those of the code
wherever TLA+ allows it, and `PROJECT.json` gives the source lines each
definition stands for.

## 1. The system

The library is the client side of a file-storage protocol over one TLS stream,
written with Twisted: a single thread, the reactor's, calls the library when
bytes arrive, when a delayed call is due, when the transport wants its producer
to pause or go on, and when the connection is lost. User code calls it from
callbacks and from reactor turns of its own. The server is another program; what
we know of it is `protocol.proto` and what the client expects.

What makes it hard is not threads but re-entrancy and order: a deferred fired
inside a loop runs user code that changes what the loop is about, a write inside
`resumeProducing` calls `pauseProducing`, a delayed call that was cancelled stays
in the attribute that says it is running, an answer crosses a cancel.

| component | state | operations | hard behaviour | what makes it correct | where |
|---|---|---|---|---|---|
| Request handler (`request.py`, class `RequestHandler`) and life of a `Request` | `request_counter`, the registry `requests`, `cancelled`, the deferred, the transport's producer | start, cancel, `processMessage`, done, error, `connectionLost` | errbacks that start and cancel requests inside `connectionLost`; answers that cross a cancel or a local failure; `_start` that raises | the registry is exactly the unfired deferreds; each deferred fires once, and in the end; no answer is taken for another's; the loop of `connectionLost` cannot fail half way | `RequestHandler`, `Promise`, `RequestHandlerProofs`, `AnswersProofs` |
| Request classes (`client.py`, `request.py`) | what has been received | the message sent, the answers kept, the answers that end it, `_cancel` | an answer of a type the class does not expect | every legal answer is accepted, a success is complete | `Requests`, `AnswersProofs` |
| Framing and hello line (`StorageClient.dataReceived`, `RequestHandler.buildMessage`) | `line_mode`, `waiting_for`, `pending_length`, `pending_parts` | `dataReceived` | chunks cut anywhere; a message above the limit; an exception in the middle of a chunk | the messages are the frames of the stream, in order, none late | `Framing`, `MCFraming`, `FramingProofs` |
| Throttling (`ThrottlingStorageClient`, its factory) | limits, counters, flags, four delayed-call IDs, the monitored connection | `registerRead`/`registerWritten`, the four delayed calls, enabling, disabling, `set_read_limit`/`set_write_limit`, connections made and lost | several parties that cancel and start the same delayed calls; a resume that writes and throttles again; reconnection | no stray call; what is paused is resumed; the counters are reset | `Throttling`, `ThrottlingProofs` |
| Uploads (`PutContent`, `BytesMessageProducer`), back-pressure | `producing` at three levels (handler, request, producer), the file and its offset, pending calls of `go`, the transport's buffer | `BEGIN_CONTENT`, `go`, cancel, pause, resume, the end of a request | two parties, transport and throttling, that pause and resume one handler; several pending `go` | the file is sent once, in order, from the offset asked for; nothing after a cancel; an upload does not stay paused | `Upload`, `FileTransfer`, `UploadProofs` |
| Notifications and `get_root` (`StorageClient.handle_*`, `validators.py`, the conversions in `volumes.py` and `sharersp.py`) | callbacks, `root_id`, its waiting deferreds | `handle_*`, `set_*_callback`, `handle_ROOT`, `get_root` | a callback that raises; what the validators accept and a conversion does not; callers of `get_root` inside the loop that fires the others | a message as `protocol.proto` has it does no harm; every waiter fires once, on a connection that lives | `Notifications`, `Session`, `SessionProofs` |
| Proxy tunnel (`proxy_tunnel.py`) | status, buffer, `negotiation_done` | `connectionMade`, `dataReceived`, `lineReceived`, `error`, `start`, `connectionLost` | a reply cut anywhere, cut off, or with lines of its own; a loop that goes on after an error; a failure reported more than once | one outcome; the caller hears of it; the tunnel opens if and only if the proxy accepts | `ProxyTunnel`, `Session`, `SessionProofs` |
| `MultiQuery`, `Query` | the iterator, items, overflow, the queries and their responses | splitting, start, answers, the `DeferredList` | an item at the size limit; one query that fails while the others go on | every item is asked for once, in messages as full as they can be; the deferred fires with the last query | `Queries`, `QueriesProofs` |
| Timestamp checker (`utils.py`) | `skew`, `next_check` | `get_faithful_time` | checks that overlap and are answered in another order; rounding; a local clock that is set | the result is the server's time, to a second and a trip; checks keep their interval | `Timestamps`, `TimestampsProofs` |
| Directory contents (`dircontent.py`) | none | validate, normalise, order names | - | - | not modelled, see section 7 |
| Hashes, SSL context, value objects, errors, samples | none of their own | conversions | - | - | not modelled, see section 7 |

How they interact. The transport calls `dataReceived`; framing hands each
message to `processMessage`; that finds the request in the registry or a
`handle_` method. A request's answer calls `done` or `error`, which take it out
of the registry, unregister the handler as producer when it was the last, and
fire the deferred, whose callbacks are user code. Uploads are driven from below:
the handler is the transport's producer, and pausing it pauses every request and
its `BytesMessageProducer`. The throttling client counts bytes in `dataReceived`
and `write`, and pauses the transport's reading, or the same producers, through
the factory. Behind a proxy the transport belongs to `ProxyTunnelClient`, which
negotiates, builds the storage client and from then on passes data and the loss
on to it. A lost connection comes in through `ThrottlingStorageClient`, which
first unregisters from the factory and then lets `RequestHandler` abort.

## 2. The modules

**`Requests`** has no state. A request class is a record of the message it
sends, the answers that are items, the answers that end it, and whether it has a
`_cancel`. `ProtoItems` and `ProtoEnds` are written from the comments of
`protocol.proto`, independently of the classes, so that the two can disagree;
`LegalEnds`, what the server of the runs may answer, is all of `ProtoEnds` and,
besides, the answers that only the classes know: OK to the two deletions, and OK
to CREATE_SHARE from a server of version 1.

**`RequestHandler`** is one connection with the user on one side and the server
on the other, joined by two FIFO queues of messages (one per direction of the
stream). One action is one callback run to its end: `Start`, `StartRaises` and
`StartNoop` are `Request.start` for the three things `_start` does; `Cancel` is
`Request.cancel`; the nine disjuncts of `processMessage` are the ways through
that method. `connectionLost` alone is several actions: it copies the registry,
then `Abort` handles one request of the copy, because between two of them the
errback has run user code (`UserRuns`) that may start and cancel requests. Time
between `Abort`s is only open to user code after a first errback has run.
Uploads and throttling are left out here: for this module a message is written
or, on a lost connection, discarded. The writing of the size and of the message
is one write. A request that is created and never started does nothing and is
not in the model.

The server is external: it answers with items, then one final answer, or ERROR;
after `CANCEL_REQUEST` it answers CANCELLED, OK, or the final answer that was
already on its way; it may send `BEGIN_CONTENT` after the end of a cancelled
upload, the race that `handle_BEGIN_CONTENT` is there for; and it pushes messages
under even ids of its own.

**`Framing`** is the receiving side of the stream. A byte is its position, a
chunk a number of bytes, a message the range of positions it was cut from.
`dataReceived(n)` is the call with the next `n` bytes: `HelloLine`, `NoHelloLine`
and `Data` are its ways through, and `JustMoreData`, `SizeKnown`, `SizeTooBig`,
`MessageComplete` and `MessageRaises` the passes of the loop in `buildMessage`.
The loop is one action per pass so that the invariant can be stated inside it;
nothing else happens before the chunk is used up.
`LineEnds` says where in the stream a CR LF ends: that of the hello line is one,
and a message may hold others. `HelloLine` takes the first that the chunk holds
whole, as `split(b"\r\n", 1)` does, also when the hello line's was split and it
stands inside a frame; `NoHelloLine` notes the split in the history variable
`split`. `SizeAt` is `struct.unpack`:
at the start of a frame it gives its length, anywhere else any number, so that a
parser that loses its place is not helped by the model. **`MCFraming`** gives
lengths and offsets.

**`Throttling`** is the factory and the connections it builds, one after the
other. Each ID attribute is `none`, `active` or `cancelled` (the code leaves a
cancelled `DelayedCall` in the attribute), and the reactor's pending calls are
counted apart from the attributes, so that the two can come apart. Two calls the
code makes in the middle of others are where the module is finer than it seems:
`client.unthrottleWrites()` resumes uploads, and an upload writes a message at
once, so `Unthrottle`, `disable_throttling` and `unregisterProtocol` carry a
number `n` of bytes written before they end. The direction is a parameter: the
read and the write half of the factory are copies of one another in the code.

**`Promise`** is the abstract specification of the request handler: requests are
asked once and answered once, on a live connection by an answer, after the loss
by the news of the loss. `RequestHandler` implements it with the registry as
`open` and the deferreds as `result` (`KeepsPromise`); messages, ids' order,
producers and the server do not show.

**`Upload`** is the sending side: two uploads, the three levels of `producing`,
the calls of `go` that the reactor holds, the transport's buffer with Twisted's
rule (pause the producer when the buffer is full, resume it when it has drained
if it was paused), and the factory's throttling of writes reduced to one flag.
`resumeProducing` is one action per request because a write in the middle of it
may call `pauseProducing`. A file is a number of payloads.

**`FileTransfer`** is what an upload promises to the server: a stream that is the
file from the offset asked for, then EOF, perhaps broken off by a
CANCEL_REQUEST that nothing follows. `Upload` implements it with `sent`, `asked`
and `begun` (`TransfersFiles`).

**`ProxyTunnel`** is `ProxyTunnelClient` and its factory. A reply is a sequence
of lines and a line is the kind that `lineReceived` can tell: `ok` is any line
whose second word is 200, so also `Content-Length: 200`; `bare` has no space, and
unpacking it raises ValueError. `dataReceived(k, t)` is a call after which `k`
lines have arrived in full and a part `t` of the next; `TakesLine`, `Opens`,
`Refuses`, `LineTooLong`, `LineRaises` and `NoMoreLines` are the passes of its
loop. `Opens` is `start` running to its end; in `StartRaises` an exception leaves
it after `negotiation_done` has been set, and the reactor closes the connection.
`Refuses` does not end the loop, as in the code. `failures` counts the
calls of the inner factory's `clientConnectionFailed`.

**`Notifications`** is `StorageClient` outside of its requests. Of an unsolicited
message its type matters, which of its identifiers is looked at, and the value of
that one: a UUID, the empty string, not set, or other text. `validate_message` is which fields have a validator, by
name, in `validators.py`; `Converts` is what `uuid.UUID` and the `from_msg`
methods do with it once a callback is set. A message is then one of four actions:
harmless (`Notify`), `Invalid`, `ConversionRaises`, `CallbackRaises`; the last
three close the connection. `handle_ROOT` and `CallWaiter` are the loop over the
waiting deferreds, with user code between its passes.

**`Session`** composes the two by conjoining their actions: `start` is the tunnel
opening and the client being made, `startRaises` the failure of `startTLS` or
`buildProtocol` (there is no `client_protocol`, and `connectionLost` raises
AttributeError), `makeConnectionRaises` the failure of `makeConnection` (the client
is told of the loss), `LostWhenOpen` the loss passed on, and
`ReceivesAndRaises` an exception of the client that leaves the tunnel's
`dataReceived` and has the reactor close the connection. **`MCSession`** gives
twelve replies: with and without headers, refusals with a body, long lines, bare
lines, a 200 behind a refusal, replies cut off.

**`Queries`** is the constructors of `MultiQuery` and `Query` (`AddItem`,
`Overflow`, `LastQuery` are the passes of their two nested loops), `start`, and
the life of the queries: node states, a callback that raises, what arrives for a
query that is over, QUERY_END, ERROR, the loss. An item is its place in the list
and the bytes it adds; `IdExtra` is what an id takes more than the 0 that `Query`
measures with. The server takes queries in order, answers them in any, and hangs
up on a message above the limit. **`MCQueries`** gives all lists of up to four
items of four sizes.

**`Timestamps`** is `get_faithful_time`, which yields while it asks the server.
Times are in ticks, with several to a second, so that the two roundings (the Date
header and `int()`) are in the model. The local clock may be set. `called`,
`answers`, `measured` and `basis` are history, for the properties.

## 3. The runs

Every run ends within three minutes on two cores.

| run | instance | shows |
|---|---|---|
| `request_handler` | 2 requests at a time of 5 kinds (download, upload, one with a push of the same type as its answer, one whose `_start` may raise, Noop), 1 item each, one push (valid, unhandled by a request, or invalid, without a log), loss at any time | `TypeOK`, `RegistryExact`, `CopyStillRegistered`, `ProducerMatchesRegistry`, `DoneMeansAnswered`, `DoneMeansComplete`, `KeepsPromise` |
| `all_requests` | each of the 24 classes, one request, 2 items, every push, with a log, fairness | the classes against every legal answer, those of `protocol.proto` and those the classes wait for, the two deletions excepted by name: `ErrorMeansRefused`, `UnhandledOnlyAfterFailure`, `RequestsSettle` |
| `framing` | hello line and 5 messages of lengths 3, 1, 6, 7, 2, every cutting, limit 6: one message exactly at the limit, one above it, one behind that; a second CR LF in the middle of a message | `TypeOK`, `FramesIntact`, `NothingHeldBack`, `OversizeCloses`, `AllDelivered` |
| `throttling` | 2 connections, limits 2, 3 or None in both directions, chunks of 1 and 2 bytes, switched at any time | `TypeOK`, `NoStrayCalls`, `ThrottledIsResumed`, `ReadsPausedIffThrottled`, `ReadsResume` |
| `upload` | 2 uploads of 2 payloads, offsets 0 and 1, a buffer that fills, throttling, fairness | `TypeOK`, `ContentFromOffset`, `UploadsFinish`, `TransfersFiles` |
| `session` | 12 replies cut anywhere, a start that fails, 3 calls of `get_root`, 2 roots, 2 callbacks at a time, every push with every identifier, fairness | `SomebodyIsTold`, `OneOutcome`, `OpenMeansAccepted`, `ConformingIsAccepted`, `AttemptEnds`, `RootIsAnswered` |
| `queries` | all lists of at most 4 items of sizes 1, 2, 4, 5; a message has room for 4; ids from 5 on take a byte more; at most 5 queries; fairness | `TypeOK`, `ItemsAskedOnce`, `PackedFull`, `NoEmptyQuery`, `RefusedOnlyForWideId`, `DoneMeansAllStates`, `FiresWithTheLast`, `MultiQueryFires` |
| `timestamps` | 3 calls, 2 ticks to a second, intervals of 4 and 2 ticks, 6 ticks of time, the clock set once | `FaithfulTime`, `Paced` |

Four more runs, `start_while_losing`, `reset_after_reconnect`,
`drain_while_throttled` and `proxy_headers`, expect a violation (section 4).

Bounds, and why they suffice. Two requests are what it takes for one to disturb
another (a shared registry entry, a producer unregistered too early, an abort
that meets a later one). `MaxId = 3` allows exactly two ids, 1 and 3;
`start_while_losing` uses a third, because its story needs one request aborted,
one still to abort and one started in between. One item per request, two where
there is one request, show an item lost, late, or after the cancel. One push
under id 0 is next to the first client id. The framing lengths cover a size field
and a message that end with a chunk, share a chunk, span several, and a message
at the limit and above it; the second CR LF, behind byte 23, is inside a
message, so that a split hello line has the parser start in the midst of a frame. For throttling, chunks of 1 and 2 against limits of 2
and 3 reach, meet and pass a limit, and `MaxBytes = 5` leaves room to go on after
it; two connections are one reconnection. Two payloads make a first, a last and
an EOF, and the number of pending `go` is bounded by the number of payloads.
Three
callers of `get_root` are one that waits, one that asks in between and one that
asks later. The item sizes are one that fits several times, one that fits twice
and fills the message exactly, one that fills it alone and one that never fits;
four items make up to five queries, the last with a wide id. Three calls of
`get_faithful_time` are two that overlap and one that sees what they left; half
seconds show both roundings, and the two values of the clock differ by an odd
number of them.
`CHECK_DEADLOCK FALSE` is set for `Framing` (the stream ends), `Throttling` and
`Upload` (the last connection may be lost, all uploads over), and for `Session`,
`Queries` and `Timestamps`, which end too; the request handler
never stops, since a cancel of a finished request is always possible.

Fairness. `all_requests`: the reactor reads what has arrived and
`connectionLost`, once entered, runs to its end (weak fairness of
`processMessage` and `Abort`); the server reads its socket and ends every
request it has taken (`ServerReceive` and the three ways to end). Nothing is
assumed of the user, of the network staying up, or of which answer comes. A
request that raised in `_start` is excepted by name (`unsent`), since
nothing fires it while the connection lives (section 4). `framing`: bytes that the server sends
arrive, and a call of `dataReceived` runs on. `throttling`: the reactor runs
delayed calls. `upload`: a call of `resumeProducing` runs on, the
reactor runs the calls of `go` and of the factory, and the peer reads so that
the transport's buffer drains. `session`: TCP connects or fails, the loops run
on, the proxy sends the whole of its reply, a transport that was told to close does
close, and the server sends ROOT. The proxy need not hang up: if what it has sent
decides nothing it may keep silent for ever, and since the code has no timeout the
attempt then never ends. `AttemptEnds` excepts just that (`Undecided`). `queries`:
the constructors and `start` run on, and the server reads its socket and ends
every query it has taken.

## 4. What the models found

Four are violation runs: TLC refutes one property that quotes a docstring.
`PROJECT.json` has lines and quotations.

| run | what the code does |
|---|---|
| `start_while_losing` | a request that an errback starts while `connectionLost` runs is never aborted: its deferred never fires |
| `reset_after_reconnect` | the counters are not reset on a second connection, nor after disabling and enabling |
| `drain_while_throttled` | a drained transport resumes throttled uploads |
| `proxy_headers` | a proxy that accepts and sends a header line, as HTTP proxies do, is taken for one that refuses |

Others can be seen in the actions of the modules, and the properties are worded
around them:

- `CreateShare` and `AcceptShare` raise ValueError in `_start`, after the request
  has been registered; it stays in the registry for as long as the connection
  lives (`StartRaises`, the exception `unsent` in `RequestsSettle`).
- The hello line is missed if its CR and LF come in two chunks, and the stream is
  discarded up to the next CR LF, wherever that is, also inside a message; from
  there on the parser is out of step (`NoHelloLine`, `HelloLine`, the variable
  `split`).
- An upload refused half way goes on sending its file under an id no longer in
  use, with nobody to pause it (`Refused`, `Goes`).
- The client's ids are odd (`REQUEST_ID_START == 1`), the comment in
  `get_new_request_id` and `src/README.md` say even. Nothing depends on which
  side has which.
- `DELETE_SHARE` and `DELETE_VOLUME` fail when the server answers as
  `protocol.proto` documents: "answer to DELETE_VOLUME (the volume was deleted)"
  (`protocol.proto:82`, and 74 for shares) falls through to
  `_default_process_message`, since `DeleteVolume` and `DeleteShare` know OK only
  (`client.py:1004`, `client.py:891`). The server of the runs gives both answers;
  `ErrorMeansRefused` excepts the two classes by name (`Misread`).
- `ProxyTunnelClient.lineReceived` sets `negotiation_done` before it calls
  `start`. If `startTLS` or `buildProtocol` raises there, or `buildProtocol`
  returns None, `connectionLost` takes the tunnel for open and calls
  `connectionLost` of None: neither the factory nor a client is told that the
  attempt has failed (`startRaises`, the exception `StartFailed`).
- A proxy that accepts the connection and never finishes its reply leaves the
  attempt open for ever (`Undecided`).
- The empty string as the share of a NOTIFY_SHARE, SHARE_DELETED or
  SHARE_ACCEPTED, or of the VOLUME_CREATED of a share, passes `is_valid_share`
  and makes `uuid.UUID` raise once a callback is set, which closes the connection
  (`ConversionRaises`). `Conforming` does not count it as a message that
  `protocol.proto` allows.
- A cancelled download whose content was already on its way calls `done` without
  `data` (`Ignores`, `End`): `DoneMeansComplete` speaks of requests not cancelled.
- `factory.client` stays the first connection: a second one is neither counted
  nor throttled (`connectionMade`, `Transfers`).
- `disable_throttling` resumes uploads before it clears the flag: a message
  written then may leave the writes throttled, with a call pending that ends it.
- `ThrottlingStorageClient.connectionLost` unregisters before the requests are
  aborted: the CANCEL_REQUESTs written may start a new delayed call
  (`unregisterProtocol`).
- `RequestHandler.resumeProducing` sets its flag last: if a message written
  inside it throttles the writes, the handler ends up producing (`AllResumed`).
- With offset 0 a file is read from where it stands, so that a second attempt
  with the same file object is not sent from its start (`ReadsAt`,
  `StartPositions`).
- A refusing proxy whose reply has a later line with 200 as its second word, and
  an empty line behind it, opens the tunnel after the failure has been reported:
  the loop of `dataReceived` goes on after `error` (`Refuses`, `OneStatusLine`).
- After an `error` the connection closes and `connectionLost` calls
  `clientConnectionFailed` again: `SomebodyIsTold` says at least once, and no
  property says once.
- If the connection is lost first, the deferreds of `get_root` never fire
  (`RootIsAnswered` excepts it).
- An item that does not fit into a message of its own makes `MultiQuery` loop for
  ever over empty queries (`Overflow`, `MaxQueries`; `FitAlone` in the
  properties).
- A query is measured with the id 0, and may be above the limit by the width of
  its real id (`SentSize`, `RefusedOnlyForWideId`).
- Overlapping checks of the time may move `next_check` back, and a local clock
  that is set leaves the skew wrong until the next check, an hour later at most
  if the clock was set forward (`Overlapped`, `sets` in `FaithfulTime`).

Where a finding limits a property that is otherwise right, the passing run
states the limit: `RequestsSettle` (live connection, really sent),
`DoneMeansComplete` (not cancelled), `UnhandledOnlyAfterFailure` (a callback
failed before), `OneOutcome` and `OpenMeansAccepted` (no second line with 200),
`NoEmptyQuery` and `MultiQueryFires` (items that fit alone), `ErrorMeansRefused`
(not the two deletions), `SomebodyIsTold` (start had a client), `AttemptEnds` (the
proxy did not fall silent), the properties of `framing` (the hello line was not
split). `upload` hands files over at their start (`StartPositions`).

## 5. What is proved

TLAPS proves these for all values of the constants that satisfy the named
assumptions of the modules (which TLC evaluates in the runs).

*`RequestHandlerProofs`*, from `BoundsAssumption`, `KindsAssumption`,
`TypesAssumption`: any request classes, any number of ids, items and pushes,
whatever the server answers. The invariant `IndInv` is

- `TypeOK`, proved first and by itself (`TypeCorrect`);
- `RegistryExact`: the registry is the set of pending deferreds;
- `CopyStillRegistered`: what `connectionLost` has still to abort is registered;
- `ProducerMatchesRegistry`;
- `Unused`: an id not allocated yet has no deferred. Without it `Start` could put
  an id into the registry that a finished request has used;
- `AbortsWhenLost`: on a live connection nothing is being aborted. Without it an
  answer could remove a request from the registry and leave it in the copy.

Three lemmas carry the argument: `Joining` (a request joins the registry),
`Leaving` (one leaves it, by `done`, `error` or `Abort`) and `Losing` (the
connection is lost); each action is one of these or leaves the variables alone.
`DeferredsFireOnce` follows: `done` and `error` are reached through the registry,
and what is in it has not fired. `HandlerKeepsPromise` is the refinement of
`Promise`: each action maps to `Ask`, `Post`, `Answer`, `Abort`, `Lose` or a
stutter, and needs the invariant, since only what is registered is pending and
only on a lost connection is there something to abort. `QuietLossLeavesNone` is
the other side of the finding `start_while_losing`: `LostLeavesNoRequest`, which
that run refutes, holds of every behaviour in which no errback starts a request
(`QuietErrbacks`), since then the copy `connectionLost` works on is the registry
to the end.

*`AnswersProofs`* is about the answers, and assumes `ServerAssumption` besides: the
server ends a request with one of its legal answers (`LegalEnds`) and pushes only
what a client has a handler for or no validator lets pass (`AllPushes`). Without
it the properties are false, as they should be: an answer no class knows takes
the connection down. The argument follows a request through the two queues.

- `RequestsOpenOnce`: its opening message is in `toServer` at most once, and then
  the server has not seen it, so the server opens a request once.
- `AnswersAreInOrder`: the final answer is therefore written once. In `toClient`
  what is for the request are items, then at most one final answer, the one
  `serving` says was given (`FromServer`), and behind it only the late permission
  of a cancelled upload (`FinalIsLast`).
- `VerdictsAreTheServers`: by the table of the 24 classes (`ClassesUnderstand`) a
  class keeps every item it can get and ends with every end it can get, the two
  deletions excepted, which take one of theirs for a failure (`MisreadEnds`); so
  what the deferred reports is what the server wrote. `SuccessIsAnswered`,
  `FailureIsRefused` and `LateAnswersAreHandled` follow.
- `SuccessIsComplete`: for a request that is outstanding and not cancelled, what
  it has kept and the items for it in `toClient` (the cardinality of their places)
  are together what the server has sent (`Balanced`); when the final answer is at
  the head there is none left.
- `NoRequestIsForgotten`: while a request is outstanding on a live connection,
  either its opening message is in `toServer`, or the server is at work on it, or
  its final answer is in `toClient`. This is the safety half of `RequestsSettle`:
  there is always a step that brings it nearer to its answer, and fairness of
  those steps is all that is left to TLC.

*`FramingProofs`*, from `LengthAssumption` and `OffsetAssumption` (offsets add up
and are increasing; the second follows from the first by induction, which the
prover cannot do) and `LineEndsAssumption` (a CR LF ends where the hello line
does, and anywhere behind it): any stream, any cutting. What follows a hello line
that was split is in the model, and is what the invariants except. `IndInv` is `TypeOK`, `FramesIntact`,
`HelloFirst` (nothing parsed in line mode), `ClosedIsIdle` (nothing parsed once
the transport is given up) and `Aligned`, the core: the parser stands in the
frame behind the last one delivered and `pending_length` is what is missing of
its size field or message. `MessagesAreFrames`, `FramesAreDelivered` and
`OversizeIsRefused` follow, each for the behaviours in which the CR LF of the
hello line was not split, and `HelloIsFound`, that it is then found, with them.

*`ThrottlingProofs`*, from `LimitsAssumption` and `SizesAssumption`: any number
of connections, any limits and sizes. `IndInv` adds to `TypeOK`, `NoStrayCalls`,
`ThrottledIsResumed` and `ReadsPausedIffThrottled` the two facts they need:
`PendingMeansThrottled` (a call that unthrottles belongs to a set flag, on a lost
connection too, where the other direction fails) and `ClientIsMade` (who the
monitored connection is, and that a connection not yet made is not paused).

*`UploadProofs`*, from `UploadAssumption`: any number of uploads, any sizes and
offsets, any pauses. `TypeCorrect` holds as it is. What is sent
(`FilesAreSentInOrder`, `NothingAfterCancel`, `UploadsAreTransfers`) assumes
`StartPositions = {0}`, without which it is false (section 4). The invariant
`Stream` says of each upload that what has been sent is right so far, and, while
it may still send, that the producer's offset, the file's position and the
number of messages sent agree (`AtNext`); this is what makes several pending
calls of `go` harmless. `UploadsAreTransfers` is the refinement of
`FileTransfer`: `go` in all the places it is called from is one `SendPart` or a
stutter, and the loss of the connection breaks off all live uploads at once.
`UploadsGoOn` is the safety half of `UploadsFinish` and needs no assumption on
where the files stand: an upload that has begun and is neither sent nor over has,
on a live connection, a call of `go` pending while its producer is producing, or
is still to be resumed by the `resumeProducing` under way, or waits for a pending
`unthrottleWrites`, or for a transport that has paused its producer and has
something to write. The invariant `GoesOn` has to speak of more than the uploads
that have begun: why the handler is paused (`HandlerWaits`), which decides whether
the next request starts paused; why a request without a producer is
(`RequestsWait`), which decides whether BEGIN_CONTENT resumes it; and that a
transport that has paused the handler cannot have drained while there are requests
(`BufferIsPending`).

*`SessionProofs`*, from `RepliesAssumption` and `BoundsAssumption`: any set of
replies, of any length. `Negotiation` is `SomebodyIsTold`, `OneOutcome` and
`OpenMeansAccepted` with `ClientIsMade` (there is a client only when the
negotiation is done, and none then only if `start` failed on the way, which ends
the connection), `FailureStays` (after a failure the transport is not open,
and what the loop still reads cannot make the status 200) and `StatusFromFirst`.
`ConformingPasses` is inductive by itself. `SessionIsTunnel` and
`SessionIsClient` show that the composition restricts its parts and adds nothing:
each of its behaviours is one of `ProxyTunnel` and one of `Notifications`.
`WaitersAreKept` is about `get_root`: who waits is in the list that `handle_ROOT`
will take or in what its loop has still to call, although users ask and cancel in
the midst of that loop and ROOT may come again. Hence `RootServesAll` (once the
root is known and the loop over, nobody waits: the safety half of
`RootIsAnswered`) and `RootFiresOnce` (a deferred that has fired, or was cancelled,
keeps its result).

*`QueriesProofs`*, from `SizesAssumption`: any list of items, sizes and ids.
`SplitInv` (`ItemsAskedOnce`, `NoEmptyQuery`, messages within the limit, and that
a message without items comes first or in front of one that did not fit) is about
the two loops, `LifeInv` about the queries: `InStep` relates what a query has kept
to what the server has sent, and `Counted` says that the `DeferredList` has heard
of the queries that are over and of no other. `MessagesAreFull` needs to know who
closed a message: an item that did not fit (`ClosedByItem`), and since `MultiQuery`
puts it back in front of the iterator, it is the first item of the list that
neither this message nor one before it asks for (`ComesBehind`); there is only
one such item.

*`TimestampsProofs`*, from `TimesAssumption`: any number of calls, any clocks. The
invariant behind `TimeIsFaithful` is `EvenClock` (calls made between the same two
settings of the clock see it ahead by the same) and `GoodSkew` (the skew corrects
every call made under the setting it was measured in, to a second and the trip of
the question). `TypeCorrect` comes with it. `ChecksAreSpaced` follows from
what `next_check` keeps (`NextCheckPaced`): it is an interval behind each answer
in the list `answers`, unless a check that was under way when that one came has
been answered after it. Each new answer sets `next_check` from a call that had
itself kept away from all answers before it but those it overlapped.

Only model-checked: the liveness properties (`RequestsSettle`, `AllDelivered`,
`ReadsResume`, `UploadsFinish`, `AttemptEnds`, `RootIsAnswered`,
`MultiQueryFires`): temporal reasoning with fairness and ENABLED is out of the
prover's reach. Of four of them the safety half is proved, as far as it says that
somebody is always about to take the next step: `NoRequestIsForgotten`,
`ThrottlingEnds`, `UploadsGoOn` and `WaitersAreKept`. What the four violation runs
refute has no theorem, except that `QuietLossLeavesNone` says when one of them
does hold.

Flags that the code keeps as booleans are the strings "yes" and "no" where a
module is proved about: the provers treat them better.

## 6. Plan

Done, with runs and proofs: `RequestHandler` over `Requests`, `Framing`,
`Throttling`, `Upload`, `ProxyTunnel` and `Notifications` composed in `Session`,
`Queries`, `Timestamps`, and the abstract specifications `Promise` and
`FileTransfer`. Every safety property that a passing run checks, and every
refinement, is also a theorem.

Left, in this order:

1. The safety halves of the other liveness properties: of `AttemptEnds` (a
   negotiation that is not over has a line to take, a reply to come or a transport
   to lose) and of `MultiQueryFires` (a query that is not over is in one of the
   queues or with the server), as for `RequestsSettle` and `UploadsFinish`.
2. `Upload` composed with `Throttling` in place of the flag `throttled`, and the
   refinement that shows the flag is what `Throttling` makes it.
3. `RequestHandler` as the client of `Session`, so that a loss in the tunnel
   aborts requests.

## 7. Abstractions, and what is not modelled

- Time: a delayed call that is pending may run at any moment. No property is
  about how many bytes pass in a second.
- The transport is Twisted's `FileDescriptor`: writes after the loss are
  discarded, producers are paused on a full buffer. TLS transports wrap the
  producer once more; whether a request that is started just after an upload
  ended while paused is always resumed there is not covered.
- After `loseConnection` the transport delivers no more data. The bytes of the
  hello line do not contain CR LF, and messages are at least one byte long (the
  `type` field of every message is sent).
- Message contents, wording, logging and serialisation. A message is its id and
  its type; in `RequestHandler` one
  that `validators.py` refuses has the type `INVALID`.
- `RequestResponse`, the answering side of requests, which the client does not
  use.
- Throttled writes are dropped to one flag in `Upload`, and uploads to a number
  of bytes in `Throttling`; composing the two is step 2 of section 6.
- Of the proxy tunnel: the bytes of the request and of the credentials. What
  follows the empty line in the same chunk stays in the buffer and is lost; the
  server speaks only after the client's TLS hello, so nothing should. TLS itself
  is below the transport.
- Of the notifications: ROOT is sent with a valid node; the answer in a
  SHARE_ACCEPTED is Yes or No; one identifier stands for all those of a message.
- Of the timestamp checker: seconds are whole ticks and both clocks run evenly.
  `int()` cuts towards zero and `\div` rounds down, which is the same for times
  after 1970.
- Hashes (`content_hash.py`) are arithmetic on bytes done by libraries;
  `dircontent.py`, which nothing in the client calls, normalises and orders names
  by the Unicode tables and byte strings of Python; `context.py` reads files into
  a pyOpenSSL context; `delta.py`, `public_file_info.py` and the rest of
  `volumes.py` and `sharersp.py` convert protocol buffers to objects; `errors.py`
  is a table: nothing in them takes more than one step.
- Not bounded in the code and bounded here: request ids (int32 on the wire, 2^30
  requests on one connection to overflow).
