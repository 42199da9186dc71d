---------------------------- MODULE QueriesProofs ----------------------------
(* Proofs about Queries, for any list of items, any sizes and any limit:    *)
(* the split asks for every item once, in messages within the limit, a      *)
(* query that succeeds has every node state the server sent for it, and the *)
(* caller's deferred fires exactly when the last query is over.             *)

EXTENDS Queries, FiniteSetTheorems, SequenceTheorems, TLAPS

(* Types, those of the split apart from those of the life of the queries. *)
SplitTypes ==
  /\ items \in Seq(Nat)
  /\ next \in 1 .. Len(items) + 1
  /\ fits \in SUBSET Nat
  /\ bytes \in Nat
  /\ queries \in Seq(Query) /\ Len(queries) <= MaxQueries
  /\ phase \in {"splitting", "split", "started"}
LifeTypes ==
  /\ conn \in {"up", "lost"}
  /\ cause \in {"none", "network", "too long", "callback", "unhandled"}
  /\ refused \in Nat
  /\ state \in [Slots -> {"new", "asked", "done", "error"}]
  /\ response \in [Slots -> Seq(Nat)]
  /\ finished \in Nat
  /\ fired \in {"no", "yes"}
  /\ serving \in [Slots -> {"none", "open", "ended"}]
  /\ reported \in [Slots -> Seq(Nat)]

(* What the split keeps up while it runs: a message under construction is   *)
(* within the limit; one without items has the size of an empty one, and    *)
(* comes first or in front of an item that did not fit.                     *)
MessagesFit ==
  /\ bytes <= MAX_MESSAGE_SIZE
  /\ \A q \in MadeQueries : queries[q].bytes <= MAX_MESSAGE_SIZE
FitsBehind == \A i \in fits : i < next
EmptyIsNew ==
  fits = {} => /\ bytes = Overhead
               /\ phase = "splitting" => next = 1 \/ next <= Len(items)

SplitInv ==
  /\ SplitTypes
  /\ ItemsAskedOnce
  /\ FitsBehind
  /\ MessagesFit
  /\ EmptyIsNew
  /\ NoEmptyQuery

(* What holds between the client and the server: before a query is over it  *)
(* has what the server sent for it, and once it is done the server has      *)
(* ended it too.                                                            *)
InStep ==
  \A q \in Slots :
    /\ state[q] \in {"new", "asked"} => response[q] = reported[q]
    /\ state[q] = "new" => phase # "started" \/ q \notin MadeQueries
    /\ state[q] = "done" => serving[q] = "ended"
    /\ phase # "started" => state[q] = "new"
    /\ state[q] = "done" => response[q] = reported[q]

(* The DeferredList counts: as long as the connection is up it has heard of *)
(* the queries that are over, of no other.                                  *)
OverQueries == {q \in MadeQueries : state[q] # "asked"}
Counted ==
  /\ phase # "splitting" => Len(queries) >= 1
  /\ phase # "started" =>
       fired = "no" /\ finished = 0 /\ conn = "up" /\ cause = "none"
  /\ phase = "started" /\ conn = "up" => finished = Cardinality(OverQueries)
  /\ FiresWithTheLast

LifeInv ==
  /\ LifeTypes
  /\ InStep
  /\ Counted
  /\ RefusedOnlyForWideId

IndInv == SplitInv /\ LifeInv

-----------------------------------------------------------------------------
LEMMA InitEstablishes == Init => IndInv
<1> SUFFICES ASSUME Init PROVE IndInv
  OBVIOUS
<1> USE SizesAssumption DEF Init, Slots, MadeQueries
<1>1. items \in Seq(Nat) /\ Len(items) \in Nat
  BY LenProperties
<1>2. SplitTypes /\ LifeTypes
  BY <1>1, EmptySeq DEF SplitTypes, LifeTypes, Query
<1>3. ItemsAskedOnce
  BY <1>1 DEF ItemsAskedOnce
<1>4. FitsBehind /\ MessagesFit /\ EmptyIsNew
  BY <1>1 DEF FitsBehind, MessagesFit, EmptyIsNew
<1>5. NoEmptyQuery
  BY <1>1 DEF NoEmptyQuery
<1>6. InStep
  BY DEF InStep
<1>7. RefusedOnlyForWideId
  BY DEF RefusedOnlyForWideId
<1>8. Counted
  BY DEF Counted, FiresWithTheLast
<1> QED
  BY <1>2, <1>3, <1>4, <1>5, <1>6, <1>7, <1>8 DEF IndInv, SplitInv, LifeInv

-----------------------------------------------------------------------------
LEMMA Lengths ==
  ASSUME SplitTypes
  PROVE  /\ items \in Seq(Nat) /\ Len(items) \in Nat
         /\ queries \in Seq(Query) /\ Len(queries) \in Nat
         /\ \A i \in 1 .. Len(items) : items[i] \in Nat
         /\ \A q \in MadeQueries : /\ queries[q].items \subseteq Nat
                                   /\ queries[q].bytes \in Nat
         /\ next \in 1 .. Len(items) + 1
         /\ bytes \in Nat
         /\ fits \subseteq Nat
         /\ Len(queries) <= MaxQueries
<1>1. items \in Seq(Nat) /\ queries \in Seq(Query)
  BY DEF SplitTypes
<1>2. Len(items) \in Nat /\ Len(queries) \in Nat
  BY <1>1, LenProperties
<1>3. \A i \in 1 .. Len(items) : items[i] \in Nat
  BY <1>1, ElementOfSeq
<1>4. \A q \in MadeQueries : queries[q] \in Query
  BY <1>1, ElementOfSeq DEF MadeQueries
<1>5. \A q \in MadeQueries : /\ queries[q].items \subseteq Nat
                             /\ queries[q].bytes \in Nat
  BY <1>4 DEF Query
<1> QED
  BY <1>1, <1>2, <1>3, <1>5 DEF SplitTypes

-----------------------------------------------------------------------------
(* The constructors. *)

(* While the split runs, the life of the queries has not begun. *)
LEMMA LifeUntouched ==
  ASSUME LifeInv, phase = "splitting", phase' \in {"splitting", "split"},
         UNCHANGED <<requestVars, serverVars, connVars>>,
         phase' = "split" => Len(queries') >= 1
  PROVE  LifeInv'
<1>1. LifeTypes'
  BY DEF LifeInv, LifeTypes, requestVars, serverVars, connVars
<1>2. InStep'
  BY DEF LifeInv, InStep, requestVars, serverVars
<1>3. Counted'
  <2>1. fired = "no" /\ finished = 0 /\ conn = "up" /\ cause = "none"
    BY DEF LifeInv, Counted
  <2>2. fired' = "no" /\ finished' = 0 /\ conn' = "up" /\ cause' = "none"
    BY <2>1 DEF requestVars, connVars
  <2> QED
    BY <2>2 DEF Counted, FiresWithTheLast
<1>4. cause = "none"
  BY DEF LifeInv, LifeTypes, Counted
<1>5. RefusedOnlyForWideId'
  BY <1>4 DEF RefusedOnlyForWideId, connVars
<1> QED
  BY <1>1, <1>2, <1>3, <1>5 DEF LifeInv

LEMMA AddItemKeeps == IndInv /\ AddItem => IndInv'
<1> SUFFICES ASSUME IndInv, AddItem PROVE IndInv'
  OBVIOUS
<1>0. /\ SplitTypes /\ LifeInv
      /\ ItemsAskedOnce /\ FitsBehind /\ MessagesFit /\ EmptyIsNew /\ NoEmptyQuery
  BY DEF IndInv, SplitInv
<1>1. /\ Len(items) \in Nat /\ Len(queries) \in Nat
      /\ next \in 1 .. Len(items) /\ items[next] \in Nat
      /\ bytes \in Nat /\ fits \subseteq Nat
      /\ \A q \in MadeQueries : queries[q].items \subseteq Nat
  BY <1>0, Lengths DEF AddItem
<1>2. SplitTypes'
  BY <1>0, <1>1 DEF SplitTypes, AddItem
<1>3. ItemsAskedOnce'
  BY <1>0, <1>1 DEF ItemsAskedOnce, FitsBehind, AddItem, MadeQueries
<1>4. FitsBehind' /\ MessagesFit' /\ EmptyIsNew'
  BY <1>0, <1>1 DEF FitsBehind, MessagesFit, EmptyIsNew, AddItem, Fits, MadeQueries
<1>5. NoEmptyQuery'
  BY <1>0 DEF NoEmptyQuery, AddItem, FitAlone, MadeQueries
<1>6. LifeInv'
  BY <1>0, LifeUntouched DEF AddItem
<1> QED
  BY <1>2, <1>3, <1>4, <1>5, <1>6 DEF IndInv, SplitInv

(* Overflow and LastQuery both make a query of the items collected so far. *)
LEMMA MadeAppends ==
  ASSUME SplitTypes, queries' = Made(fits, bytes)
  PROVE  /\ queries' \in Seq(Query)
         /\ Len(queries') = Len(queries) + 1
         /\ \A q \in MadeQueries : queries'[q] = queries[q]
         /\ queries'[Len(queries) + 1] = [items |-> fits, bytes |-> bytes]
<1> DEFINE new == [items |-> fits, bytes |-> bytes]
<1>1. queries \in Seq(Query) /\ new \in Query
  BY Lengths DEF Query
<1>2. queries' = Append(queries, new)
  BY DEF Made
<1> HIDE DEF new
<1>3. /\ queries' \in Seq(Query)
      /\ Len(queries') = Len(queries) + 1
      /\ \A q \in 1 .. Len(queries) : queries'[q] = queries[q]
      /\ queries'[Len(queries) + 1] = new
  BY <1>1, <1>2, AppendProperties
<1> QED
  BY <1>3 DEF new, MadeQueries

LEMMA MadeKeepsOnce ==
  ASSUME SplitTypes, ItemsAskedOnce, FitsBehind, phase = "splitting",
         queries' = Made(fits, bytes), fits' = {}, next' = next,
         items' = items, phase' # "splitting" => next = Len(items) + 1
  PROVE  ItemsAskedOnce'
<1>1. /\ Len(queries') = Len(queries) + 1
      /\ \A q \in 1 .. Len(queries) : queries'[q] = queries[q]
      /\ queries'[Len(queries) + 1].items = fits
  BY MadeAppends DEF MadeQueries
<1>2. Len(queries) \in Nat
  BY Lengths
<1>3. \A i \in 1 .. next - 1 :
        \E q \in 1 .. Len(queries') : i \in queries'[q].items
  <2> TAKE i \in 1 .. next - 1
  <2>1. CASE i \in fits
    BY <1>1, <1>2, <2>1
  <2>2. CASE \E q \in 1 .. Len(queries) : i \in queries[q].items
    BY <1>1, <1>2, <2>2
  <2> QED
    BY <2>1, <2>2 DEF ItemsAskedOnce, MadeQueries
<1>4. \A i \in fits : i < next
  BY DEF FitsBehind
<1>5. \A q \in 1 .. Len(queries') : \A i \in queries'[q].items :
        /\ i < next
        /\ \A r \in q + 1 .. Len(queries') : \A j \in queries'[r].items : i < j
  <2> TAKE q \in 1 .. Len(queries')
  <2> TAKE i \in queries'[q].items
  <2>1. CASE q = Len(queries) + 1
    BY <1>1, <1>2, <1>4, <2>1
  <2>2. CASE q \in 1 .. Len(queries)
    BY <1>1, <1>2, <2>2 DEF ItemsAskedOnce, MadeQueries
  <2> QED
    BY <1>1, <1>2, <2>1, <2>2
<1> QED
  BY <1>3, <1>5 DEF ItemsAskedOnce, MadeQueries

LEMMA OverflowKeeps == IndInv /\ Overflow => IndInv'
<1> SUFFICES ASSUME IndInv, Overflow PROVE IndInv'
  OBVIOUS
<1>0. /\ SplitTypes /\ LifeInv
      /\ ItemsAskedOnce /\ FitsBehind /\ MessagesFit /\ EmptyIsNew /\ NoEmptyQuery
  BY DEF IndInv, SplitInv
<1>1. /\ queries' \in Seq(Query)
      /\ Len(queries') = Len(queries) + 1
      /\ \A q \in MadeQueries : queries'[q] = queries[q]
      /\ queries'[Len(queries) + 1] = [items |-> fits, bytes |-> bytes]
  BY <1>0, MadeAppends DEF Overflow
<1>2. /\ Len(items) \in Nat /\ Len(queries) \in Nat
      /\ next \in 1 .. Len(items) /\ items[next] \in Nat
      /\ bytes \in Nat /\ fits \subseteq Nat
      /\ \A q \in MadeQueries : queries[q].items \subseteq Nat
  BY <1>0, Lengths DEF Overflow
<1>3. SplitTypes'
  BY <1>0, <1>1, <1>2, SizesAssumption DEF SplitTypes, Overflow
<1>4. ItemsAskedOnce'
  BY <1>0, <1>1, <1>2, MadeKeepsOnce DEF Overflow
<1>5. FitsBehind' /\ MessagesFit' /\ EmptyIsNew'
  BY <1>0, <1>1, <1>2, SizesAssumption
  DEF FitsBehind, MessagesFit, EmptyIsNew, Overflow, MadeQueries
<1>6. FitAlone => fits # {}
  BY <1>0, <1>2 DEF EmptyIsNew, FitAlone, Overflow, Fits
<1>7. NoEmptyQuery'
  <2> SUFFICES ASSUME FitAlone, NEW q \in 1 .. Len(queries) + 1
               PROVE  queries'[q].items # {} \/ items = <<>>
    BY <1>1 DEF NoEmptyQuery, Overflow, MadeQueries, FitAlone
  <2>1. CASE q = Len(queries) + 1
    BY <1>1, <1>6, <2>1
  <2>2. CASE q \in MadeQueries
    BY <1>0, <1>1, <2>2 DEF NoEmptyQuery
  <2> QED
    BY <1>2, <2>1, <2>2 DEF MadeQueries
<1>8. LifeInv'
  BY <1>0, <1>1, <1>2, LifeUntouched DEF Overflow
<1> QED
  BY <1>3, <1>4, <1>5, <1>7, <1>8 DEF IndInv, SplitInv

LEMMA LastQueryKeeps == IndInv /\ LastQuery => IndInv'
<1> SUFFICES ASSUME IndInv, LastQuery PROVE IndInv'
  OBVIOUS
<1>0. /\ SplitTypes /\ LifeInv
      /\ ItemsAskedOnce /\ FitsBehind /\ MessagesFit /\ EmptyIsNew /\ NoEmptyQuery
  BY DEF IndInv, SplitInv
<1>1. /\ queries' \in Seq(Query)
      /\ Len(queries') = Len(queries) + 1
      /\ \A q \in MadeQueries : queries'[q] = queries[q]
      /\ queries'[Len(queries) + 1] = [items |-> fits, bytes |-> bytes]
  BY <1>0, MadeAppends DEF LastQuery
<1>2. /\ Len(items) \in Nat /\ Len(queries) \in Nat
      /\ next = Len(items) + 1
      /\ bytes \in Nat /\ fits \subseteq Nat
      /\ \A q \in MadeQueries : queries[q].items \subseteq Nat
  BY <1>0, Lengths DEF LastQuery
<1>3. SplitTypes'
  BY <1>0, <1>1, <1>2, SizesAssumption DEF SplitTypes, LastQuery
<1>4. ItemsAskedOnce'
  BY <1>0, <1>1, <1>2, MadeKeepsOnce DEF LastQuery
<1>5. FitsBehind' /\ MessagesFit' /\ EmptyIsNew'
  BY <1>0, <1>1, <1>2, SizesAssumption
  DEF FitsBehind, MessagesFit, EmptyIsNew, LastQuery, MadeQueries
<1>6. fits # {} \/ items = <<>>
  <2>1. items \in Seq(Nat)
    BY <1>0, Lengths
  <2> QED
    BY <1>0, <1>2, <2>1, EmptySeq DEF EmptyIsNew, LastQuery
<1>7. NoEmptyQuery'
  BY <1>0, <1>1, <1>2, <1>6 DEF NoEmptyQuery, LastQuery, MadeQueries, FitAlone
<1>8. LifeInv'
  BY <1>0, <1>1, <1>2, LifeUntouched DEF LastQuery
<1> QED
  BY <1>3, <1>4, <1>5, <1>7, <1>8 DEF IndInv, SplitInv

-----------------------------------------------------------------------------
(* The life of the queries, which leaves the split alone. *)

LEMMA SplitUntouched ==
  ASSUME SplitInv, UNCHANGED splitVars,
         phase # "splitting", phase' \in {"split", "started"}
  PROVE  SplitInv'
<1> USE DEF splitVars
<1>1. SplitTypes'
  BY DEF SplitInv, SplitTypes
<1>2. ItemsAskedOnce' /\ FitsBehind'
  BY DEF SplitInv, ItemsAskedOnce, FitsBehind, MadeQueries
<1>3. MessagesFit' /\ EmptyIsNew' /\ NoEmptyQuery'
  BY DEF SplitInv, MessagesFit, EmptyIsNew, NoEmptyQuery, FitAlone, MadeQueries
<1> QED
  BY <1>1, <1>2, <1>3 DEF SplitInv

LEMMA MadeAreSlots ==
  ASSUME SplitTypes
  PROVE  MadeQueries \subseteq Slots
BY Lengths, SizesAssumption DEF MadeQueries, Slots

LEMMA startKeeps == IndInv /\ start => IndInv'
<1> SUFFICES ASSUME IndInv, start PROVE IndInv'
  OBVIOUS
<1> USE DEF start
<1>0. SplitInv /\ LifeTypes /\ InStep /\ Counted /\ RefusedOnlyForWideId
  BY DEF IndInv, LifeInv
<1>1. SplitInv'
  BY <1>0, SplitUntouched
<1>2. /\ MadeQueries \subseteq Slots /\ MadeQueries' = MadeQueries
      /\ Len(queries) \in Nat /\ Len(queries) >= 1
  BY <1>0, MadeAreSlots, Lengths DEF SplitInv, Counted, MadeQueries, splitVars
<1>3. LifeTypes'
  BY <1>0 DEF LifeTypes, serverVars, connVars
<1>4. InStep'
  BY <1>0, <1>2 DEF InStep, serverVars
<1>5. Counted'
  <2>1. fired' = "no" /\ finished' = 0 /\ conn' = "up"
    BY <1>0 DEF Counted, connVars
  <2>2. \A q \in MadeQueries : state'[q] = "asked"
    BY <1>2
  <2>3. OverQueries' = {}
    BY <1>2, <2>2 DEF OverQueries
  <2>4. 1 \in MadeQueries
    BY <1>2 DEF MadeQueries
  <2>5. Len(queries') >= 1
    BY <1>2 DEF splitVars
  <2> QED
    BY <1>2, <2>1, <2>2, <2>3, <2>4, <2>5, FS_EmptySet
    DEF Counted, FiresWithTheLast
<1>6. RefusedOnlyForWideId'
  BY <1>0, <1>2 DEF RefusedOnlyForWideId, connVars, Id
<1> QED
  BY <1>1, <1>3, <1>4, <1>5, <1>6 DEF IndInv, LifeInv

(* connectionLost, whatever the server did in the same step: nothing more   *)
(* can come for a query that is done.                                       *)
LEMMA LostSettles ==
  ASSUME IndInv, Live,
         NEW why \in {"network", "too long", "callback", "unhandled"},
         connectionLost(why), UNCHANGED <<splitVars, phase, response>>,
         refused' \in Nat,
         serving' \in [Slots -> {"none", "open", "ended"}],
         reported' \in [Slots -> Seq(Nat)],
         why = "too long" => refused' \in MadeQueries /\ IdExtra(Id(refused')) > 0,
         \A q \in Slots : state[q] \in {"new", "done"} =>
            /\ reported'[q] = reported[q]
            /\ serving[q] = "ended" => serving'[q] = "ended"
  PROVE  IndInv'
<1> USE DEF connectionLost
<1>0. SplitInv /\ LifeTypes /\ InStep /\ Counted /\ phase = "started"
  BY DEF IndInv, LifeInv, Live
<1>1. SplitInv'
  BY <1>0, SplitUntouched
<1>2. /\ MadeQueries' = MadeQueries /\ MadeQueries \subseteq Slots
      /\ Len(queries) \in Nat /\ Len(queries') = Len(queries)
  BY <1>0, MadeAreSlots, Lengths DEF SplitInv, MadeQueries, splitVars
<1>3. LifeTypes'
  BY <1>0, <1>2 DEF LifeTypes
<1>4. \A q \in Slots : /\ state'[q] # "asked"
                       /\ state'[q] # "error" => state'[q] = state[q]
  BY <1>0 DEF LifeTypes
<1>5. InStep'
  BY <1>0, <1>2, <1>4 DEF InStep
<1>6. Counted'
  BY <1>0, <1>2, <1>4 DEF Counted, FiresWithTheLast
<1>7. RefusedOnlyForWideId'
  BY <1>2 DEF RefusedOnlyForWideId, Id
<1> QED
  BY <1>1, <1>3, <1>5, <1>6, <1>7 DEF IndInv, LifeInv

(* The DeferredList hears of one query. *)
LEMMA OverCounts ==
  ASSUME IndInv, Live, NEW q \in MadeQueries, state[q] = "asked",
         NEW how \in {"done", "error"}, Over(q, how),
         UNCHANGED <<splitVars, phase, conn, cause>>
  PROVE  Counted' /\ finished' \in Nat /\ fired' \in {"no", "yes"}
<1>0. SplitInv /\ LifeTypes /\ Counted /\ phase = "started" /\ conn = "up"
  BY DEF IndInv, LifeInv, Live
<1>1. /\ MadeQueries' = MadeQueries /\ MadeQueries \subseteq Slots
      /\ Len(queries) \in Nat /\ Len(queries') = Len(queries)
  BY <1>0, MadeAreSlots, Lengths DEF SplitInv, MadeQueries, splitVars
<1>2. /\ IsFiniteSet(MadeQueries)
      /\ Cardinality(MadeQueries) = Len(queries)
  <2>1. 1 \in Int /\ Len(queries) \in Int /\ Len(queries) >= 0
    BY <1>1
  <2>2. /\ IsFiniteSet(1 .. Len(queries))
        /\ Cardinality(1 .. Len(queries)) =
             IF 1 > Len(queries) THEN 0 ELSE Len(queries) - 1 + 1
    BY <2>1, FS_Interval
  <2> QED
    BY <2>1, <2>2 DEF MadeQueries
<1>3. state' = [state EXCEPT ![q] = how] /\ state \in [Slots -> {"new", "asked", "done", "error"}]
  BY <1>0 DEF Over, LifeTypes
<1>4. OverQueries' = OverQueries \cup {q} /\ q \notin OverQueries
  BY <1>1, <1>3 DEF OverQueries
<1>5. OverQueries' \subseteq MadeQueries /\ OverQueries \subseteq MadeQueries
  BY <1>1 DEF OverQueries
<1>6. Cardinality(OverQueries') = Cardinality(OverQueries) + 1
  BY <1>2, <1>4, <1>5, FS_Subset, FS_AddElement
<1>7. finished = Cardinality(OverQueries) /\ finished' = Cardinality(OverQueries')
  BY <1>0, <1>6 DEF Counted, Over
<1>8. fired = "no"
  BY <1>0 DEF Counted, FiresWithTheLast, LifeTypes
<1>9. (finished' = Len(queries)) <=> (OverQueries' = MadeQueries)
  BY <1>2, <1>5, <1>7, FS_Subset
<1>10. (OverQueries' = MadeQueries) <=> (\A r \in MadeQueries : state'[r] # "asked")
  BY <1>1 DEF OverQueries
<1>11. FiresWithTheLast'
  BY <1>0, <1>1, <1>8, <1>9, <1>10 DEF FiresWithTheLast, Over
<1>12. finished' \in Nat
  <2>1. finished \in Nat
    BY <1>0 DEF LifeTypes
  <2> QED
    BY <2>1 DEF Over
<1>13. fired' \in {"no", "yes"}
  BY <1>8 DEF Over
<1> QED
  <2>1. phase' = "started" /\ Len(queries') >= 1
    BY <1>0, <1>1 DEF Counted
  <2> QED
    BY <1>7, <1>11, <1>12, <1>13, <2>1 DEF Counted

(* A step that is about one query q on a live connection. *)
LEMMA OneQuery ==
  ASSUME IndInv, Live, NEW q \in MadeQueries,
         UNCHANGED <<splitVars, phase, connVars>>,
         LifeTypes', Counted',
         \A r \in Slots \ {q} : /\ state'[r] = state[r]
                                /\ response'[r] = response[r]
                                /\ reported'[r] = reported[r]
                                /\ serving'[r] = serving[r],
         state[q] = "done" => serving[q] = "ended",
         state'[q] # "new",
         state'[q] \in {"asked", "done"} => response'[q] = reported'[q],
         state'[q] = "done" => serving'[q] = "ended"
  PROVE  IndInv'
<1>0. SplitInv /\ InStep /\ RefusedOnlyForWideId /\ phase = "started"
  BY DEF IndInv, LifeInv, Live
<1>1. SplitInv'
  BY <1>0, SplitUntouched
<1>2. MadeQueries' = MadeQueries /\ q \in Slots
  BY <1>0, MadeAreSlots DEF SplitInv, MadeQueries, splitVars
<1>3. InStep'
  BY <1>0, <1>2 DEF InStep
<1>4. RefusedOnlyForWideId'
  BY <1>0, <1>2 DEF RefusedOnlyForWideId, connVars, Id
<1> QED
  BY <1>1, <1>3, <1>4 DEF IndInv, LifeInv

LEMMA LiveFacts ==
  ASSUME IndInv, Live
  PROVE  /\ LifeTypes /\ InStep /\ Counted /\ MessagesFit
         /\ phase = "started" /\ conn = "up"
         /\ MadeQueries \subseteq Slots
         /\ Len(queries) \in Nat
         /\ \A q \in MadeQueries : queries[q].bytes \in Nat
BY MadeAreSlots, Lengths DEF IndInv, SplitInv, LifeInv, Live

(* The items of a query are numbers, so what it reports stays a sequence of *)
(* numbers.                                                                 *)
LEMMA ReportTypes ==
  ASSUME IndInv, NEW q \in Slots, NEW i, Reports(q, i)
  PROVE  /\ Live /\ q \in MadeQueries /\ serving[q] = "open"
         /\ reported' = [reported EXCEPT ![q] = Append(@, i)]
         /\ reported' \in [Slots -> Seq(Nat)]
         /\ [response EXCEPT ![q] = Append(@, i)] \in [Slots -> Seq(Nat)]
<1>1. /\ Live /\ q \in MadeQueries /\ serving[q] = "open"
      /\ reported' = [reported EXCEPT ![q] = Append(@, i)]
      /\ i \in queries[q].items
  BY DEF Reports
<1>2. i \in Nat
  BY <1>1, Lengths DEF IndInv, SplitInv
<1>3. reported \in [Slots -> Seq(Nat)] /\ response \in [Slots -> Seq(Nat)]
  BY DEF IndInv, LifeInv, LifeTypes
<1>4. /\ Append(reported[q], i) \in Seq(Nat)
      /\ Append(response[q], i) \in Seq(Nat)
  BY <1>2, <1>3, AppendProperties
<1> QED
  BY <1>1, <1>3, <1>4

LEMMA NodeStateKeeps ==
  ASSUME IndInv, NEW q \in Slots, NEW i,
         NodeState(q, i) \/ NodeStateRaises(q, i)
  PROVE  IndInv'
<1>1. Reports(q, i) /\ state[q] = "asked"
      /\ response' = [response EXCEPT ![q] = Append(@, i)]
      /\ UNCHANGED <<splitVars, phase, serving, connVars>>
  BY DEF NodeState, NodeStateRaises
<1>2. /\ Live /\ q \in MadeQueries
      /\ reported' = [reported EXCEPT ![q] = Append(@, i)]
      /\ reported' \in [Slots -> Seq(Nat)] /\ response' \in [Slots -> Seq(Nat)]
  BY <1>1, ReportTypes
<1>3. LifeTypes /\ InStep /\ Counted /\ phase = "started"
  BY <1>2, LiveFacts
<1>4. response'[q] = reported'[q]
  BY <1>1, <1>2, <1>3 DEF InStep, LifeTypes
<1>5. \A r \in Slots \ {q} : /\ response'[r] = response[r]
                             /\ reported'[r] = reported[r]
                             /\ serving'[r] = serving[r]
  BY <1>1, <1>2, <1>3 DEF LifeTypes
<1>6. CASE NodeState(q, i)
  <2>1. state' = state /\ finished' = finished /\ fired' = fired
    BY <1>6 DEF NodeState
  <2>2. LifeTypes'
    BY <1>1, <1>2, <1>3, <2>1 DEF LifeTypes, connVars
  <2>3. Counted'
    BY <1>1, <1>3, <2>1
    DEF Counted, FiresWithTheLast, OverQueries, MadeQueries, splitVars, connVars
  <2> QED
    BY <1>1, <1>2, <1>4, <1>5, <2>1, <2>2, <2>3, OneQuery
<1>7. CASE NodeStateRaises(q, i)
  <2>1. Over(q, "error")
    BY <1>7 DEF NodeStateRaises
  <2>2. Counted' /\ finished' \in Nat /\ fired' \in {"no", "yes"}
    BY <1>1, <1>2, <2>1, OverCounts DEF connVars
  <2>3. state' = [state EXCEPT ![q] = "error"]
    BY <2>1 DEF Over
  <2>4. LifeTypes'
    BY <1>1, <1>2, <1>3, <2>2, <2>3 DEF LifeTypes, connVars
  <2> QED
    BY <1>1, <1>2, <1>3, <1>5, <2>2, <2>3, <2>4, OneQuery DEF LifeTypes
<1> QED
  BY <1>6, <1>7

LEMMA StrayNodeStateKeeps ==
  ASSUME IndInv, NEW q \in Slots, NEW i,
         StrayNodeState(q, i) \/ StrayNodeStateRaises(q, i)
  PROVE  IndInv'
<1>1. Reports(q, i) /\ state[q] # "asked"
      /\ UNCHANGED <<splitVars, phase, response, serving>>
  BY DEF StrayNodeState, StrayNodeStateRaises, requestVars
<1>2. /\ Live /\ q \in MadeQueries /\ serving[q] = "open"
      /\ reported' = [reported EXCEPT ![q] = Append(@, i)]
      /\ reported' \in [Slots -> Seq(Nat)]
  BY <1>1, ReportTypes
<1>3. LifeTypes /\ InStep /\ Counted /\ phase = "started"
  BY <1>2, LiveFacts
<1>4. state[q] = "error"
  BY <1>1, <1>2, <1>3 DEF InStep, LifeTypes
<1>5. \A r \in Slots \ {q} : reported'[r] = reported[r]
  BY <1>2, <1>3 DEF LifeTypes
<1>6. CASE StrayNodeState(q, i)
  <2>1. UNCHANGED <<requestVars, connVars>>
    BY <1>6 DEF StrayNodeState
  <2>2. LifeTypes'
    BY <1>1, <1>2, <1>3, <2>1 DEF LifeTypes, requestVars, connVars
  <2>3. Counted'
    BY <1>1, <1>3, <2>1
    DEF Counted, FiresWithTheLast, OverQueries, MadeQueries, splitVars,
        requestVars, connVars
  <2> QED
    BY <1>1, <1>2, <1>4, <1>5, <2>1, <2>2, <2>3, OneQuery DEF requestVars
<1>7. CASE StrayNodeStateRaises(q, i)
  <2>1. connectionLost("callback") /\ refused' = refused
    BY <1>7 DEF StrayNodeStateRaises
  <2>2. refused' \in Nat /\ serving' \in [Slots -> {"none", "open", "ended"}]
    BY <1>1, <1>3, <2>1 DEF LifeTypes
  <2> QED
    BY <1>1, <1>2, <1>4, <1>5, <2>1, <2>2, LostSettles
<1> QED
  BY <1>6, <1>7

LEMMA ConnectionLostKeeps == IndInv /\ ConnectionLost => IndInv'
<1> SUFFICES ASSUME IndInv, ConnectionLost PROVE IndInv'
  OBVIOUS
<1>1. /\ Live /\ connectionLost("network")
      /\ UNCHANGED <<splitVars, phase, response, serverVars, refused>>
  BY DEF ConnectionLost
<1>2. LifeTypes
  BY <1>1, LiveFacts
<1>3. /\ refused' \in Nat
      /\ serving' \in [Slots -> {"none", "open", "ended"}]
      /\ reported' \in [Slots -> Seq(Nat)]
      /\ serving' = serving /\ reported' = reported
  BY <1>1, <1>2 DEF LifeTypes, serverVars
<1> QED
  BY <1>1, <1>3, LostSettles

(* The message that is too long is so because of its id: without it Query   *)
(* has measured it.                                                         *)
LEMMA ServerHangsUpKeeps ==
  ASSUME IndInv, NEW q \in Slots, ServerHangsUp(q)
  PROVE  IndInv'
<1>1. /\ Live /\ q \in MadeQueries /\ SentSize(q) > MAX_MESSAGE_SIZE
      /\ refused' = q /\ connectionLost("too long")
      /\ UNCHANGED <<splitVars, phase, response, serverVars>>
  BY DEF ServerHangsUp
<1>2. LifeTypes /\ queries[q].bytes \in Nat /\ queries[q].bytes <= MAX_MESSAGE_SIZE
  BY <1>1, LiveFacts DEF MessagesFit
<1>3. IdExtra(Id(q)) \in Nat /\ MAX_MESSAGE_SIZE \in Nat /\ q \in Nat
  BY SizesAssumption DEF Slots, Id
<1>4. IdExtra(Id(refused')) > 0
  <2>1. queries[q].bytes + IdExtra(Id(q)) > MAX_MESSAGE_SIZE
    BY <1>1 DEF SentSize
  <2>2. IdExtra(Id(q)) > 0
    BY <1>2, <1>3, <2>1
  <2> QED
    BY <1>1, <2>2
<1>5. /\ serving' \in [Slots -> {"none", "open", "ended"}]
      /\ reported' \in [Slots -> Seq(Nat)]
      /\ serving' = serving /\ reported' = reported
  BY <1>1, <1>2 DEF LifeTypes, serverVars
<1> QED
  BY <1>1, <1>3, <1>4, <1>5, LostSettles

LEMMA ServerTakesKeeps ==
  ASSUME IndInv, NEW q \in Slots, ServerTakes(q)
  PROVE  IndInv'
<1>1. /\ Live /\ q \in MadeQueries /\ serving[q] = "none"
      /\ serving' = [serving EXCEPT ![q] = "open"]
      /\ UNCHANGED <<splitVars, phase, requestVars, reported, connVars>>
  BY DEF ServerTakes, NextForServer
<1>2. LifeTypes /\ InStep /\ Counted /\ phase = "started"
  BY <1>1, LiveFacts
<1>3. LifeTypes'
  BY <1>1, <1>2 DEF LifeTypes, requestVars, connVars
<1>4. Counted'
  BY <1>1, <1>2 DEF Counted, FiresWithTheLast, OverQueries, MadeQueries,
                    splitVars, requestVars, connVars
<1>5. state[q] \notin {"new", "done"} /\ state' = state /\ response' = response
  BY <1>1, <1>2 DEF InStep, requestVars
<1>6. state[q] \in {"asked", "done"} => response'[q] = reported'[q]
  BY <1>1, <1>2, <1>5 DEF InStep
<1>7. \A r \in Slots \ {q} : serving'[r] = serving[r]
  BY <1>1, <1>2 DEF LifeTypes
<1> QED
  BY <1>1, <1>3, <1>4, <1>5, <1>6, <1>7, OneQuery

LEMMA EndsFacts ==
  ASSUME IndInv, NEW q \in Slots, Ends(q)
  PROVE  /\ Live /\ q \in MadeQueries /\ LifeTypes /\ InStep /\ Counted
         /\ serving[q] = "open" /\ state[q] \notin {"new", "done"}
         /\ serving' = [serving EXCEPT ![q] = "ended"]
         /\ serving' \in [Slots -> {"none", "open", "ended"}]
<1>1. /\ Live /\ q \in MadeQueries /\ serving[q] = "open"
      /\ serving' = [serving EXCEPT ![q] = "ended"]
  BY DEF Ends
<1>2. LifeTypes /\ InStep /\ Counted /\ phase = "started"
  BY <1>1, LiveFacts
<1> QED
  BY <1>1, <1>2 DEF LifeTypes, InStep

LEMMA QueryEndKeeps ==
  ASSUME IndInv, NEW q \in Slots, QueryEnd(q)
  PROVE  IndInv'
<1>1. PICK how \in {"done", "error"} : Over(q, how)
  BY DEF QueryEnd
<1>2. /\ Ends(q) /\ state[q] = "asked"
      /\ UNCHANGED <<splitVars, phase, response, reported, connVars>>
  BY DEF QueryEnd
<1>3. /\ Live /\ q \in MadeQueries /\ LifeTypes /\ InStep
      /\ serving' = [serving EXCEPT ![q] = "ended"]
      /\ serving' \in [Slots -> {"none", "open", "ended"}]
  BY <1>2, EndsFacts
<1>4. Counted' /\ finished' \in Nat /\ fired' \in {"no", "yes"}
  BY <1>1, <1>2, <1>3, OverCounts DEF connVars
<1>5. state' = [state EXCEPT ![q] = how]
  BY <1>1 DEF Over
<1>6. LifeTypes'
  BY <1>2, <1>3, <1>4, <1>5 DEF LifeTypes, connVars
<1>7. /\ state'[q] = how /\ serving'[q] = "ended"
      /\ \A r \in Slots \ {q} : state'[r] = state[r] /\ serving'[r] = serving[r]
  BY <1>3, <1>5 DEF LifeTypes
<1>8. response'[q] = reported'[q]
  BY <1>2, <1>3 DEF InStep
<1> QED
  BY <1>2, <1>3, <1>4, <1>6, <1>7, <1>8, OneQuery

LEMMA StrayEndKeeps ==
  ASSUME IndInv, NEW q \in Slots, StrayEnd(q)
  PROVE  IndInv'
<1>1. /\ Ends(q) /\ connectionLost("unhandled")
      /\ UNCHANGED <<splitVars, phase, response, reported, refused>>
  BY DEF StrayEnd
<1>2. /\ Live /\ LifeTypes
      /\ serving' = [serving EXCEPT ![q] = "ended"]
      /\ serving' \in [Slots -> {"none", "open", "ended"}]
  BY <1>1, EndsFacts
<1>3. refused' \in Nat /\ reported' \in [Slots -> Seq(Nat)]
  BY <1>1, <1>2 DEF LifeTypes
<1>4. \A r \in Slots : serving[r] = "ended" => serving'[r] = "ended"
  BY <1>2 DEF LifeTypes
<1> QED
  BY <1>1, <1>2, <1>3, <1>4, LostSettles

-----------------------------------------------------------------------------
(* Every step. *)

LEMMA StutterKeeps == IndInv /\ UNCHANGED vars => IndInv'
<1> SUFFICES ASSUME IndInv, UNCHANGED vars PROVE IndInv'
  OBVIOUS
<1> USE DEF vars, splitVars, requestVars, serverVars, connVars
<1>1. SplitTypes' /\ LifeTypes'
  BY DEF IndInv, SplitInv, LifeInv, SplitTypes, LifeTypes
<1>2. ItemsAskedOnce' /\ FitsBehind'
  BY DEF IndInv, SplitInv, ItemsAskedOnce, FitsBehind, MadeQueries
<1>3. MessagesFit' /\ EmptyIsNew' /\ NoEmptyQuery'
  BY DEF IndInv, SplitInv, MessagesFit, EmptyIsNew, NoEmptyQuery, FitAlone,
         MadeQueries
<1>4. InStep' /\ RefusedOnlyForWideId'
  BY DEF IndInv, LifeInv, InStep, RefusedOnlyForWideId, MadeQueries, Id
<1>5. Counted'
  BY DEF IndInv, LifeInv, Counted, FiresWithTheLast, OverQueries, MadeQueries
<1> QED
  BY <1>1, <1>2, <1>3, <1>4, <1>5 DEF IndInv, SplitInv, LifeInv

LEMMA StepKeeps == IndInv /\ [Next]_vars => IndInv'
<1> SUFFICES ASSUME IndInv, [Next]_vars PROVE IndInv'
  OBVIOUS
<1>1. CASE AddItem \/ Overflow \/ LastQuery
  BY <1>1, AddItemKeeps, OverflowKeeps, LastQueryKeeps
<1>2. CASE start \/ ConnectionLost
  BY <1>2, startKeeps, ConnectionLostKeeps
<1>3. ASSUME NEW q \in Slots,
             ServerTakes(q) \/ ServerHangsUp(q) \/ QueryEnd(q) \/ StrayEnd(q)
      PROVE  IndInv'
  BY <1>3, ServerTakesKeeps, ServerHangsUpKeeps, QueryEndKeeps, StrayEndKeeps
<1>4. ASSUME NEW q \in Slots, NEW i \in 1 .. Len(items),
             \/ NodeState(q, i) \/ NodeStateRaises(q, i)
             \/ StrayNodeState(q, i) \/ StrayNodeStateRaises(q, i)
      PROVE  IndInv'
  BY <1>4, NodeStateKeeps, StrayNodeStateKeeps
<1>5. CASE UNCHANGED vars
  BY <1>5, StutterKeeps
<1> QED
  BY <1>1, <1>2, <1>3, <1>4, <1>5 DEF Next

(* The inductive invariant holds for every list, limit and numbering.       *)
THEOREM Invariant == Spec => []IndInv
<1>1. Init => IndInv
  BY InitEstablishes
<1>2. IndInv /\ [Next]_vars => IndInv'
  BY StepKeeps
<1> QED
  BY <1>1, <1>2, PTL DEF Spec

(* All variables of the split and of the queries keep their types.          *)
THEOREM TypeCorrect == Spec => []TypeOK
<1>1. IndInv => TypeOK
  BY DEF IndInv, SplitInv, LifeInv, SplitTypes, LifeTypes, TypeOK
<1> QED
  BY <1>1, Invariant, PTL

(* However the sizes fall, MultiQuery asks for every item exactly once and  *)
(* in order.                                                                *)
THEOREM AskedOnce == Spec => []ItemsAskedOnce
<1>1. IndInv => ItemsAskedOnce
  BY DEF IndInv, SplitInv
<1> QED
  BY <1>1, Invariant, PTL

(* Items that fit one by one never give a message without items, so         *)
(* MultiQuery's loop gets on with every pass.                               *)
THEOREM LoopGetsOn == Spec => []NoEmptyQuery
<1>1. IndInv => NoEmptyQuery
  BY DEF IndInv, SplitInv
<1> QED
  BY <1>1, Invariant, PTL

(* The only messages of a MultiQuery that are longer than allowed are those *)
(* whose id is longer than the 0 that they were measured with.              *)
THEOREM RefusedForId == Spec => []RefusedOnlyForWideId
<1>1. IndInv => RefusedOnlyForWideId
  BY DEF IndInv, LifeInv
<1> QED
  BY <1>1, Invariant, PTL

(* A query that succeeds has every node state that was sent for it.         *)
THEOREM DoneIsComplete == Spec => []DoneMeansAllStates
<1>1. IndInv => DoneMeansAllStates
  BY DEF IndInv, LifeInv, InStep, DoneMeansAllStates
<1> QED
  BY <1>1, Invariant, PTL

(* The caller's deferred fires when the last query is over, not before and  *)
(* not later.                                                               *)
THEOREM FiresWithLast == Spec => []FiresWithTheLast
<1>1. IndInv => FiresWithTheLast
  BY DEF IndInv, LifeInv, Counted
<1> QED
  BY <1>1, Invariant, PTL

-----------------------------------------------------------------------------
(* The filling of the messages.  A message that is closed was closed by an  *)
(* item, and the first item that neither it nor a message before it asks    *)
(* for is that one: MultiQuery puts it back in front of the iterator.       *)

ComesBehind(q, i) ==
  /\ \A r \in 1 .. q : \A j \in queries[r].items : j < i
  /\ \A k \in 1 .. i - 1 : \E r \in 1 .. q : k \in queries[r].items

ClosedByItem ==
  \A q \in MadeQueries : Closed(q) =>
    \E i \in 1 .. Len(items) :
      ComesBehind(q, i) /\ queries[q].bytes + items[i] > MAX_MESSAGE_SIZE

(* There is one first item behind a message. *)
LEMMA OneComesBehind ==
  ASSUME SplitTypes, NEW q \in MadeQueries, NEW i \in 1 .. Len(items),
         ComesBehind(q, i)
  PROVE  FirstBehind(q) = i
<1>1. Len(items) \in Nat
  BY Lengths
<1>2. ASSUME NEW j \in 1 .. Len(items), NEW k \in 1 .. Len(items),
             ComesBehind(q, j), ComesBehind(q, k), j < k
      PROVE  FALSE
  <2>1. j \in 1 .. k - 1
    BY <1>1, <1>2
  <2>2. PICK r \in 1 .. q : j \in queries[r].items
    BY <1>2, <2>1 DEF ComesBehind
  <2>3. j < j
    BY <1>2, <2>2 DEF ComesBehind
  <2>. QED  BY <1>1, <2>3
<1>3. \A j \in 1 .. Len(items) : ComesBehind(q, j) => j = i
  <2>. TAKE j \in 1 .. Len(items)
  <2>1. j < i \/ i < j \/ j = i
    BY <1>1
  <2>. QED  BY <1>2, <2>1
<1>4. FirstBehind(q) = CHOOSE j \in 1 .. Len(items) : ComesBehind(q, j)
  BY DEF FirstBehind, ComesBehind
<1>5. (CHOOSE j \in 1 .. Len(items) : ComesBehind(q, j)) = i
  BY <1>3
<1>. QED  BY <1>4, <1>5

(* What is behind a message depends on it and the ones before it. *)
LEMMA BehindStays ==
  ASSUME SplitTypes, NEW q \in MadeQueries, NEW i \in 1 .. Len(items),
         ComesBehind(q, i), \A r \in MadeQueries : queries'[r] = queries[r]
  PROVE  ComesBehind(q, i)'
<1>1. \A r \in 1 .. q : queries'[r] = queries[r]
  BY Lengths DEF MadeQueries
<1>. QED  BY <1>1 DEF ComesBehind

LEMMA OverflowCloses ==
  ASSUME IndInv, ClosedByItem, Overflow
  PROVE  ClosedByItem'
<1>0. SplitTypes /\ ItemsAskedOnce /\ FitsBehind
  BY DEF IndInv, SplitInv
<1>1. /\ Len(queries') = Len(queries) + 1
      /\ \A q \in MadeQueries : queries'[q] = queries[q]
      /\ queries'[Len(queries) + 1] = [items |-> fits, bytes |-> bytes]
  BY <1>0, MadeAppends DEF Overflow
<1>2. /\ Len(items) \in Nat /\ Len(queries) \in Nat
      /\ next \in 1 .. Len(items) /\ items[next] \in Nat
      /\ bytes \in Nat /\ fits \subseteq Nat
      /\ phase = "splitting" /\ items' = items
      /\ MAX_MESSAGE_SIZE \in Nat
  BY <1>0, Lengths, SizesAssumption DEF Overflow
<1>3. ASSUME NEW q \in 1 .. Len(queries) + 1, NEW i \in 1 .. Len(items),
             q = Len(queries) + 1, i = next
      PROVE  ComesBehind(q, i)'
  <2>1. \A r \in 1 .. q : \A j \in queries'[r].items : j < i
    <3>. SUFFICES ASSUME NEW r \in 1 .. q, NEW j \in queries'[r].items
                  PROVE  j < i
      OBVIOUS
    <3>1. CASE r = q
      BY <1>0, <1>1, <1>3, <3>1 DEF FitsBehind
    <3>2. CASE r \in MadeQueries
      BY <1>0, <1>1, <1>3, <3>2 DEF ItemsAskedOnce
    <3>. QED  BY <1>2, <1>3, <3>1, <3>2 DEF MadeQueries
  <2>2. ASSUME NEW k \in 1 .. i - 1
        PROVE  \E r \in 1 .. q : k \in queries'[r].items
    <3>1. CASE k \in fits
      BY <1>1, <1>2, <1>3, <3>1
    <3>2. CASE \E r \in MadeQueries : k \in queries[r].items
      BY <1>1, <1>2, <1>3, <3>2 DEF MadeQueries
    <3>. QED  BY <1>0, <1>3, <3>1, <3>2 DEF ItemsAskedOnce
  <2>. QED  BY <2>1, <2>2 DEF ComesBehind
<1>4. ASSUME NEW q \in 1 .. Len(queries) + 1
      PROVE  \E i \in 1 .. Len(items) :
               ComesBehind(q, i)' /\ queries'[q].bytes + items[i] > MAX_MESSAGE_SIZE
  <2>1. CASE q = Len(queries) + 1
    <3>1. queries'[q].bytes + items[next] > MAX_MESSAGE_SIZE
      BY <1>1, <1>2, <2>1 DEF Overflow, Fits
    <3>. QED  BY <1>2, <1>3, <2>1, <3>1
  <2>2. CASE q \in MadeQueries
    <3>1. PICK i \in 1 .. Len(items) :
            ComesBehind(q, i) /\ queries[q].bytes + items[i] > MAX_MESSAGE_SIZE
      BY <1>2, <2>2 DEF ClosedByItem, Closed
    <3>2. ComesBehind(q, i)'
      BY <1>0, <1>1, <2>2, <3>1, BehindStays
    <3>. QED  BY <1>1, <2>2, <3>1, <3>2
  <2>. QED  BY <1>2, <2>1, <2>2 DEF MadeQueries
<1>5. \A q \in MadeQueries' : q \in 1 .. Len(queries) + 1
  BY <1>1 DEF MadeQueries
<1>. QED  BY <1>2, <1>4, <1>5 DEF ClosedByItem

(* Every other step leaves the closed messages and the list as they are. *)
LEMMA ClosedStays ==
  ASSUME IndInv, ClosedByItem, items' = items,
         \A q \in MadeQueries : queries'[q] = queries[q],
         \A q \in MadeQueries' : Closed(q)' => q \in MadeQueries /\ Closed(q)
  PROVE  ClosedByItem'
<1>0. SplitTypes
  BY DEF IndInv, SplitInv
<1>1. ASSUME NEW q \in MadeQueries', Closed(q)'
      PROVE  \E i \in 1 .. Len(items) :
               ComesBehind(q, i)' /\ queries'[q].bytes + items[i] > MAX_MESSAGE_SIZE
  <2>1. q \in MadeQueries /\ Closed(q)
    BY <1>1
  <2>2. PICK i \in 1 .. Len(items) :
          ComesBehind(q, i) /\ queries[q].bytes + items[i] > MAX_MESSAGE_SIZE
    BY <2>1 DEF ClosedByItem
  <2>3. ComesBehind(q, i)'
    BY <1>0, <2>1, <2>2, BehindStays
  <2>. QED  BY <2>1, <2>2, <2>3
<1>. QED  BY <1>1 DEF ClosedByItem

LEMMA ClosedStep == IndInv /\ ClosedByItem /\ [Next]_vars => ClosedByItem'
<1>. SUFFICES ASSUME IndInv, ClosedByItem, [Next]_vars
              PROVE  ClosedByItem'
  OBVIOUS
<1>0. SplitTypes /\ Len(queries) \in Nat
  BY Lengths DEF IndInv, SplitInv
<1>1. CASE Overflow
  BY <1>1, OverflowCloses
<1>2. CASE LastQuery
  <2>1. /\ Len(queries') = Len(queries) + 1
        /\ \A q \in MadeQueries : queries'[q] = queries[q]
    BY <1>0, <1>2, MadeAppends DEF LastQuery
  <2>2. items' = items /\ phase = "splitting" /\ phase' = "split"
    BY <1>2 DEF LastQuery
  <2>3. \A q \in MadeQueries' : Closed(q)' => q \in MadeQueries /\ Closed(q)
    BY <1>0, <2>1, <2>2 DEF MadeQueries, Closed
  <2>. QED  BY <2>1, <2>2, <2>3, ClosedStays
<1>3. CASE AddItem
  BY <1>3, ClosedStays DEF AddItem, MadeQueries, Closed
<1>4. ASSUME UNCHANGED splitVars, phase' = phase \/ phase' = "started"
      PROVE  ClosedByItem'
  <2>1. items' = items /\ queries' = queries
    BY <1>4 DEF splitVars
  <2>2. \A q \in MadeQueries' : Closed(q)' => q \in MadeQueries /\ Closed(q)
    BY <1>4, <2>1 DEF MadeQueries, Closed
  <2>. QED  BY <2>1, <2>2, ClosedStays
<1>5. CASE start \/ ConnectionLost
  BY <1>4, <1>5 DEF start, ConnectionLost
<1>6. ASSUME NEW q \in Slots,
             ServerTakes(q) \/ ServerHangsUp(q) \/ QueryEnd(q) \/ StrayEnd(q)
      PROVE  ClosedByItem'
  BY <1>4, <1>6 DEF ServerTakes, ServerHangsUp, QueryEnd, StrayEnd
<1>7. ASSUME NEW q \in Slots, NEW i \in 1 .. Len(items),
             \/ NodeState(q, i) \/ NodeStateRaises(q, i)
             \/ StrayNodeState(q, i) \/ StrayNodeStateRaises(q, i)
      PROVE  ClosedByItem'
  BY <1>4, <1>7 DEF NodeState, NodeStateRaises, StrayNodeState,
     StrayNodeStateRaises
<1>8. CASE UNCHANGED vars
  BY <1>4, <1>8 DEF vars
<1>. QED
  BY <1>1, <1>2, <1>3, <1>5, <1>6, <1>7, <1>8 DEF Next

(* "As much items as it can": no message is longer than allowed, and none   *)
(* but the last could have taken the item that follows it.                  *)
THEOREM MessagesAreFull == Spec => []PackedFull
<1>1. Init => ClosedByItem
  BY DEF Init, ClosedByItem, MadeQueries
<1>2. IndInv /\ ClosedByItem => PackedFull
  <2>. SUFFICES ASSUME IndInv, ClosedByItem, NEW q \in MadeQueries
                PROVE  /\ queries[q].bytes <= MAX_MESSAGE_SIZE
                       /\ Closed(q) => queries[q].bytes + items[FirstBehind(q)]
                                         > MAX_MESSAGE_SIZE
    BY DEF PackedFull
  <2>1. SplitTypes /\ MessagesFit
    BY DEF IndInv, SplitInv
  <2>2. ASSUME Closed(q)
        PROVE  queries[q].bytes + items[FirstBehind(q)] > MAX_MESSAGE_SIZE
    <3>1. PICK i \in 1 .. Len(items) :
            ComesBehind(q, i) /\ queries[q].bytes + items[i] > MAX_MESSAGE_SIZE
      BY <2>2 DEF ClosedByItem
    <3>2. FirstBehind(q) = i
      BY <2>1, <3>1, OneComesBehind
    <3>. QED  BY <3>1, <3>2
  <2>. QED  BY <2>1, <2>2 DEF MessagesFit
<1>. QED  BY <1>1, <1>2, Invariant, ClosedStep, PTL DEF Spec
=============================================================================
