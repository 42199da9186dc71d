------------------------------- MODULE Queries -------------------------------
(* MultiQuery and Query (client.py): the items of a query are split over as *)
(* many QUERY messages as it takes, each a request of its own, and one      *)
(* deferred tells the caller when the last of them is over.                 *)
(*                                                                          *)
(* An item is a position in the caller's list; what matters of it is the    *)
(* number of bytes it adds to a message.  The constructors run through one  *)
(* iterator: Query takes items until one does not fit, MultiQuery puts that *)
(* one back in front of the iterator.  One action is one pass of a loop.    *)
(* Once the queries are started the connection is up or lost and each       *)
(* message of the server is one action, in the client and in the server.    *)

EXTENDS Integers, Sequences

CONSTANTS
  Inputs,             \* lists of items, as sequences of their sizes
  Overhead,           \* size of a QUERY with id 0 and no items
  MAX_MESSAGE_SIZE,
  IdExtra(_),         \* bytes that an id takes more than the id 0
  FirstId,            \* the request_counter before the queries start
  MaxQueries          \* bound: a split that needs more is cut off

ASSUME SizesAssumption ==
  /\ Inputs \subseteq Seq(Nat)
  /\ Overhead \in Nat /\ MAX_MESSAGE_SIZE \in Nat
  /\ Overhead <= MAX_MESSAGE_SIZE
  /\ FirstId \in Nat /\ MaxQueries \in Nat
  /\ \A q \in 1 .. MaxQueries : IdExtra(FirstId + 2 * (q - 1)) \in Nat

VARIABLES
  items,      \* the list the caller gave
  next,       \* the item at the head of the iterator
  fits,       \* items_that_fit of the Query under construction
  bytes,      \* the ByteSize of its message
  queries,    \* the messages of the queries that are made
  phase,      \* "splitting", "split", then "started"
  conn,       \* "up" or "lost"
  cause,      \* history: why it was lost
  refused,    \* history: the query that the server hung up over, 0 if none
  state,      \* of each query: "new", "asked", "done" or "error"
  response,   \* the node states that each query has kept
  finished,   \* queries the DeferredList has heard of
  fired,      \* has its deferred fired
  serving,    \* what the server does for each query
  reported    \* the node states it has sent for it, in order

splitVars == <<items, next, fits, bytes, queries>>
requestVars == <<state, response, finished, fired>>
serverVars == <<serving, reported>>
connVars == <<conn, cause, refused>>
vars == <<splitVars, phase, requestVars, serverVars, connVars>>

Slots == 1 .. MaxQueries

Init ==
  /\ items \in Inputs
  /\ next = 1 /\ fits = {} /\ bytes = Overhead
  /\ queries = <<>>
  /\ phase = "splitting"
  /\ conn = "up" /\ cause = "none" /\ refused = 0
  /\ state = [q \in Slots |-> "new"]
  /\ response = [q \in Slots |-> <<>>]
  /\ finished = 0 /\ fired = "no"
  /\ serving = [q \in Slots |-> "none"]
  /\ reported = [q \in Slots |-> <<>>]

-----------------------------------------------------------------------------
(* Query.__init__ and MultiQuery.__init__ *)

(* Mutant: the size is looked at before the item is added. *)
Fits_Late(i) == bytes <= MAX_MESSAGE_SIZE
(* Mutant: a message that is just full counts as too long. *)
Fits_Strict(i) == bytes + items[i] < MAX_MESSAGE_SIZE
Fits(i) == bytes + items[i] <= MAX_MESSAGE_SIZE

Made(is, n) == Append(queries, [items |-> is, bytes |-> n])

(* Mutant: the iterator is advanced twice, by the loop and by the query. *)
AddItem_Twice ==
  /\ phase = "splitting" /\ next <= Len(items)
  /\ Fits(next)
  /\ fits' = fits \cup {next}
  /\ bytes' = bytes + items[next]
  /\ next' = next + 2
  /\ UNCHANGED <<items, queries, phase, requestVars, serverVars, connVars>>

(* The item is added to the message and fits. *)
AddItem ==
  /\ phase = "splitting" /\ next <= Len(items)
  /\ Fits(next)
  /\ fits' = fits \cup {next}
  /\ bytes' = bytes + items[next]
  /\ next' = next + 1
  /\ UNCHANGED <<items, queries, phase, requestVars, serverVars, connVars>>

(* Mutant: the item that did not fit is not put back. *)
Overflow_Drops ==
  /\ phase = "splitting" /\ next <= Len(items)
  /\ ~Fits(next)
  /\ Len(queries) < MaxQueries - 1
  /\ queries' = Made(fits, bytes)
  /\ fits' = {} /\ bytes' = Overhead
  /\ next' = next + 1
  /\ UNCHANGED <<items, phase, requestVars, serverVars, connVars>>

(* It does not fit: the message is made anew with those before it, and the  *)
(* next Query starts with it.                                               *)
Overflow ==
  /\ phase = "splitting" /\ next <= Len(items)
  /\ ~Fits(next)
  /\ Len(queries) < MaxQueries - 1
  /\ queries' = Made(fits, bytes)
  /\ fits' = {} /\ bytes' = Overhead
  /\ UNCHANGED <<items, next, phase, requestVars, serverVars, connVars>>

(* No overflow: this Query is the last. *)
LastQuery ==
  /\ phase = "splitting" /\ next > Len(items)
  /\ Len(queries) < MaxQueries
  /\ queries' = Made(fits, bytes)
  /\ fits' = {} /\ bytes' = Overhead
  /\ phase' = "split"
  /\ UNCHANGED <<items, next, requestVars, serverVars, connVars>>

-----------------------------------------------------------------------------
(* The life of the queries *)

MadeQueries == 1 .. Len(queries)
Id(q) == FirstId + 2 * (q - 1)
SentSize(q) == queries[q].bytes + IdExtra(Id(q))

(* MultiQuery.start *)
start ==
  /\ phase = "split" /\ conn = "up"
  /\ phase' = "started"
  /\ state' = [q \in Slots |-> IF q \in MadeQueries THEN "asked" ELSE "new"]
  /\ UNCHANGED <<splitVars, response, finished, fired, serverVars, connVars>>

(* Mutant: fires its deferred with the first failure. *)
Over_FirstError(q, how) ==
  /\ state' = [state EXCEPT ![q] = how]
  /\ finished' = finished + 1
  /\ fired' = IF finished' = Len(queries) \/ how = "error" THEN "yes" ELSE fired

(* A query's deferred fires, and the DeferredList hears of it. *)
Over(q, how) ==
  /\ state' = [state EXCEPT ![q] = how]
  /\ finished' = finished + 1
  /\ fired' = IF finished' = Len(queries) THEN "yes" ELSE fired

(* Mutant: only the first of the outstanding requests is aborted. *)
connectionLost_First(why) ==
  /\ conn' = "lost" /\ cause' = why
  /\ IF \E q \in Slots : state[q] = "asked"
     THEN Over(CHOOSE q \in Slots : state[q] = "asked", "error")
     ELSE UNCHANGED <<state, finished, fired>>

(* RequestHandler.connectionLost aborts what is outstanding. *)
connectionLost(why) ==
  /\ conn' = "lost" /\ cause' = why
  /\ state' = [q \in Slots |-> IF state[q] = "asked" THEN "error" ELSE state[q]]
  /\ finished' = Len(queries)
  /\ fired' = "yes"

Live == phase = "started" /\ conn = "up"

ConnectionLost ==
  /\ Live
  /\ connectionLost("network")
  /\ UNCHANGED <<splitVars, phase, response, serverVars, refused>>

(* The server takes the queries in order; it hangs up on a message that is  *)
(* too long, as the client itself would (RequestHandler.buildMessage).      *)
NextForServer(q) == serving[q] = "none" /\ \A r \in 1 .. q - 1 : serving[r] # "none"

ServerTakes(q) ==
  /\ Live /\ q \in MadeQueries
  /\ NextForServer(q)
  /\ SentSize(q) <= MAX_MESSAGE_SIZE
  /\ serving' = [serving EXCEPT ![q] = "open"]
  /\ UNCHANGED <<splitVars, phase, requestVars, reported, connVars>>

ServerHangsUp(q) ==
  /\ Live /\ q \in MadeQueries
  /\ NextForServer(q)
  /\ SentSize(q) > MAX_MESSAGE_SIZE
  /\ refused' = q
  /\ connectionLost("too long")
  /\ UNCHANGED <<splitVars, phase, response, serverVars>>

(* NODE_STATE for an item of a query, those of one query in the order of    *)
(* its items: only for items that have changed.                             *)
Reports(q, i) ==
  /\ Live /\ q \in MadeQueries
  /\ serving[q] = "open"
  /\ i \in queries[q].items
  /\ \A k \in 1 .. Len(reported[q]) : reported[q][k] < i
  /\ reported' = [reported EXCEPT ![q] = Append(@, i)]

(* Mutant: each node state takes the place of the one before. *)
NodeState_KeepsLast(q, i) ==
  /\ Reports(q, i)
  /\ state[q] = "asked"
  /\ response' = [response EXCEPT ![q] = <<i>>]
  /\ UNCHANGED <<splitVars, phase, state, finished, fired, serving, connVars>>

(* Query.processMessage keeps it and calls the node state callback, ... *)
NodeState(q, i) ==
  /\ Reports(q, i)
  /\ state[q] = "asked"
  /\ response' = [response EXCEPT ![q] = Append(@, i)]
  /\ UNCHANGED <<splitVars, phase, state, finished, fired, serving, connVars>>

(* ... which may raise: the request errors, the server is not told. *)
NodeStateRaises(q, i) ==
  /\ Reports(q, i)
  /\ state[q] = "asked"
  /\ response' = [response EXCEPT ![q] = Append(@, i)]
  /\ Over(q, "error")
  /\ UNCHANGED <<splitVars, phase, serving, connVars>>

(* What comes for a query that is over goes to handle_NODE_STATE: the same  *)
(* callback, and if it raises the connection is closed.                     *)
StrayNodeState(q, i) ==
  /\ Reports(q, i)
  /\ state[q] # "asked"
  /\ UNCHANGED <<splitVars, phase, requestVars, serving, connVars>>

StrayNodeStateRaises(q, i) ==
  /\ Reports(q, i)
  /\ state[q] # "asked"
  /\ connectionLost("callback")
  /\ UNCHANGED <<splitVars, phase, response, serving, refused>>

Ends(q) ==
  /\ Live /\ q \in MadeQueries
  /\ serving[q] = "open"
  /\ serving' = [serving EXCEPT ![q] = "ended"]

(* QUERY_END or ERROR for a query that waits for it, ... *)
QueryEnd(q) ==
  /\ Ends(q)
  /\ state[q] = "asked"
  /\ \E how \in {"done", "error"} : Over(q, how)
  /\ UNCHANGED <<splitVars, phase, response, reported, connVars>>

(* ... or for one that is over: nothing handles it. *)
StrayEnd(q) ==
  /\ Ends(q)
  /\ state[q] # "asked"
  /\ connectionLost("unhandled")
  /\ UNCHANGED <<splitVars, phase, response, reported, refused>>

-----------------------------------------------------------------------------
Next ==
  \/ AddItem
  \/ Overflow
  \/ LastQuery
  \/ start
  \/ ConnectionLost
  \/ \E q \in Slots :
       \/ ServerTakes(q)
       \/ ServerHangsUp(q)
       \/ \E i \in 1 .. Len(items) :
            \/ NodeState(q, i) \/ NodeStateRaises(q, i)
            \/ StrayNodeState(q, i) \/ StrayNodeStateRaises(q, i)
       \/ QueryEnd(q) \/ StrayEnd(q)

Spec == Init /\ [][Next]_vars

(* The constructors and start are one call that runs on; the server reads   *)
(* its socket and ends every query it has taken.                            *)
Fairness ==
  /\ WF_vars(AddItem \/ Overflow \/ LastQuery \/ start)
  /\ \A q \in Slots : /\ WF_vars(ServerTakes(q) \/ ServerHangsUp(q))
                      /\ WF_vars(QueryEnd(q) \/ StrayEnd(q))

FairSpec == Spec /\ Fairness

-----------------------------------------------------------------------------
(* Properties *)

Query == [items : SUBSET Nat, bytes : Nat]

TypeOK ==
  /\ items \in Seq(Nat)
  /\ next \in 1 .. Len(items) + 1
  /\ fits \in SUBSET Nat
  /\ bytes \in Nat
  /\ queries \in Seq(Query) /\ Len(queries) <= MaxQueries
  /\ phase \in {"splitting", "split", "started"}
  /\ conn \in {"up", "lost"}
  /\ cause \in {"none", "network", "too long", "callback", "unhandled"}
  /\ refused \in Nat
  /\ state \in [Slots -> {"new", "asked", "done", "error"}]
  /\ response \in [Slots -> Seq(Nat)]
  /\ finished \in Nat
  /\ fired \in {"no", "yes"}
  /\ serving \in [Slots -> {"none", "open", "ended"}]
  /\ reported \in [Slots -> Seq(Nat)]

FitAlone == \A i \in 1 .. Len(items) : Overhead + items[i] <= MAX_MESSAGE_SIZE

(* Every item that has left the iterator is asked for in exactly one        *)
(* message, the items of an earlier message before those of a later one:    *)
(* none is lost and none asked twice where one message ends and the next    *)
(* begins (the overflow that MultiQuery puts back).                         *)
ItemsAskedOnce ==
  /\ \A i \in 1 .. next - 1 :
       i \in fits \/ \E q \in MadeQueries : i \in queries[q].items
  /\ \A q \in MadeQueries : \A i \in queries[q].items :
       /\ i < next
       /\ \A j \in fits : i < j
       /\ \A r \in q + 1 .. Len(queries) : \A j \in queries[r].items : i < j
  /\ phase # "splitting" => fits = {} /\ next = Len(items) + 1

(* No message is longer than MAX_MESSAGE_SIZE as Query measures it, and     *)
(* none has been closed while the next item would still have fitted ("Put   *)
(* as much items as it can inside the message").                            *)
Closed(q) == q < Len(queries) \/ phase = "splitting"
FirstBehind(q) ==
  CHOOSE i \in 1 .. Len(items) :
    /\ \A r \in 1 .. q : \A j \in queries[r].items : j < i
    /\ \A k \in 1 .. i - 1 : \E r \in 1 .. q : k \in queries[r].items
PackedFull ==
  \A q \in MadeQueries :
    /\ queries[q].bytes <= MAX_MESSAGE_SIZE
    /\ Closed(q) => queries[q].bytes + items[FirstBehind(q)] > MAX_MESSAGE_SIZE

(* If every item fits into a message of its own, no message but that of an  *)
(* empty list is without items: each pass of MultiQuery's loop gets on.     *)
NoEmptyQuery ==
  FitAlone => \A q \in MadeQueries : queries[q].items # {} \/ items = <<>>

(* The server hangs up on a query only if its id takes more room than the   *)
(* id 0 that Query puts in when it measures.                                *)
RefusedOnlyForWideId ==
  cause = "too long" => refused \in MadeQueries /\ IdExtra(Id(refused)) > 0

(* A query that reports success has kept every node state the server sent   *)
(* for it, in order, though the callbacks run in between may have failed    *)
(* other queries of the same MultiQuery.                                    *)
DoneMeansAllStates ==
  \A q \in Slots : state[q] = "done" => response[q] = reported[q]

(* The deferred of the MultiQuery fires when the last of its queries is     *)
(* over, and not before: by answer, failed callback or lost connection.     *)
FiresWithTheLast ==
  fired = "yes" <=> phase = "started" /\ \A q \in MadeQueries : state[q] # "asked"

(* A MultiQuery whose items fit one by one tells its caller in the end: the *)
(* splitting ends, and each of its queries is answered or aborted.          *)
MultiQueryFires == FitAlone ~> fired = "yes"
=============================================================================
