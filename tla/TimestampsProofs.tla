-------------------------- MODULE TimestampsProofs --------------------------
(* Proofs about Timestamps, for any intervals, clocks and number of calls.  *)

EXTENDS Timestamps, TLAPS

(* By how much the local clock was ahead when c was made. *)
AheadFor(c) == local_time[c] - called[c].at

Made == {c \in Calls : state[c] # "new"}

(* Between two settings of the clock it is ahead by the same. *)
EvenClock ==
  /\ \A c \in Made : called[c].sets <= sets
  /\ \A c \in Made : called[c].sets = sets => AheadFor(c) = ahead
  /\ \A c, d \in Made : called[c].sets = called[d].sets => AheadFor(c) = AheadFor(d)

(* What the skew makes of a clock that is ahead by a is the server's clock, *)
(* to a second and the trip of the question.                                *)
Corrects(a) ==
  /\ skew + a >= ServerStart - (SECOND - 1)
  /\ skew + a <= ServerStart + measured.trip

GoodSkew ==
  /\ measured.sets <= sets
  /\ measured.sets = sets => Corrects(ahead)
  /\ \A c \in Made : called[c].sets = measured.sets => Corrects(AheadFor(c))

CalledBefore == \A c \in Calls : called[c].at <= elapsed

Faithful(c) ==
  state[c] = "returned" /\ basis[c].sets = called[c].sets =>
    /\ result[c] >= (ServerClock(called[c].at) - (SECOND - 1)) \div SECOND
    /\ result[c] <= (ServerClock(called[c].at) + basis[c].trip) \div SECOND

AllFaithful == \A c \in Calls : Faithful(c)

IndInv == TypeOK /\ CalledBefore /\ EvenClock /\ GoodSkew /\ AllFaithful

-----------------------------------------------------------------------------
(* Whole seconds. *)

LEMMA Division ==
  ASSUME NEW s \in Nat \ {0}, NEW x \in Int
  PROVE  x \div s \in Int /\ s * (x \div s) <= x /\ x < s * (x \div s) + s
  BY Z3

LEMMA Multiples ==
  ASSUME NEW s \in Nat \ {0}, NEW a \in Int, NEW b \in Int, s * a < s * b + s
  PROVE  a <= b
<1>1. ASSUME a >= b + 1
      PROVE  FALSE
  <2>1. s * a >= s * (b + 1)
    BY <1>1, SMTT(20)
  <2>2. s * (b + 1) = s * b + s
    BY SMT
  <2>. QED  BY <1>1, <2>1, <2>2
<1>. QED  BY <1>1

LEMMA DivisionMonotonic ==
  ASSUME NEW s \in Nat \ {0}, NEW x \in Int, NEW y \in Int, x <= y
  PROVE  x \div s <= y \div s
<1>. DEFINE q == x \div s
            r == y \div s
<1>1. q \in Int /\ r \in Int /\ s * q <= x /\ y < s * r + s
  BY Division
<1>2. s * q \in Int /\ s * r \in Int
  BY <1>1, SMT
<1>. HIDE DEF q, r
<1>3. s * q < s * r + s
  BY <1>1, <1>2
<1>. QED  BY <1>1, <1>3, Multiples DEF q, r

LEMMA HeaderIsRecent ==
  ASSUME NEW t \in Nat
  PROVE  /\ DateHeader(t) \in Int
         /\ DateHeader(t) <= ServerStart + t
         /\ DateHeader(t) >= ServerStart + t - (SECOND - 1)
<1>. DEFINE x == ServerStart + t
            q == x \div SECOND
<1>1. x \in Int /\ SECOND \in Nat \ {0}
  BY TimesAssumption
<1>2. q \in Int /\ SECOND * q <= x /\ x < SECOND * q + SECOND
  BY <1>1, Division
<1>. DEFINE p == SECOND * q
<1>3. p \in Int /\ q * SECOND = p
  BY <1>1, <1>2, SMT
<1>4. DateHeader(t) = q * SECOND
  BY DEF DateHeader, ServerClock
<1>5. DateHeader(t) = p /\ p <= x /\ x < p + SECOND
  BY <1>2, <1>3, <1>4
<1>. HIDE DEF p
<1>6. ServerStart \in Nat
  BY TimesAssumption
<1>. QED  BY <1>1, <1>3, <1>5, <1>6
-----------------------------------------------------------------------------
LEMMA InitHolds == Init => IndInv
  BY TimesAssumption DEF Init, IndInv, TypeOK, CalledBefore, EvenClock, GoodSkew,
     AllFaithful, Faithful, Made, Unmeasured, Measure, clock

(* A call that returns with a skew that corrects its clock is faithful. *)
LEMMA ResultIsFaithful ==
  ASSUME NEW at \in Nat, NEW value \in Int, NEW trip \in Nat,
         value >= ServerStart + at - (SECOND - 1),
         value <= ServerStart + at + trip
  PROVE  /\ value \div SECOND >= (ServerClock(at) - (SECOND - 1)) \div SECOND
         /\ value \div SECOND <= (ServerClock(at) + trip) \div SECOND
<1>1. ServerStart \in Nat /\ SECOND \in Nat \ {0}
  BY TimesAssumption
<1>2. /\ ServerStart + at - (SECOND - 1) \in Int
      /\ ServerStart + at + trip \in Int
  BY <1>1
<1>. QED  BY <1>1, <1>2, DivisionMonotonic DEF ServerClock

(* A call is made: clock and skew are seen by one more. *)
LEMMA CallMade ==
  ASSUME IndInv, NEW c \in Calls, Begins(c), NEW v \in {"asking", "returned"},
         state' = [state EXCEPT ![c] = v],
         UNCHANGED <<skew, elapsed, ahead, sets, measured>>
  PROVE  /\ CalledBefore' /\ EvenClock' /\ GoodSkew'
         /\ called'[c].at = elapsed /\ called'[c].sets = sets
<1>. USE DEF IndInv
<1>1. /\ state[c] = "new"
      /\ local_time' = [local_time EXCEPT ![c] = elapsed + ahead]
      /\ called' = [called EXCEPT ![c] = [at |-> elapsed, sets |-> sets,
                                          answers |-> Len(answers)]]
  BY DEF Begins, clock
<1>2. elapsed \in Nat /\ ahead \in Nat /\ sets \in Nat
  BY DEF TypeOK
<1>3. /\ Made' = Made \cup {c} /\ c \notin Made
      /\ \A d \in Made : called'[d] = called[d] /\ local_time'[d] = local_time[d]
      /\ called'[c].at = elapsed /\ called'[c].sets = sets
      /\ local_time'[c] = elapsed + ahead
  BY <1>1 DEF Made, TypeOK
<1>4. CalledBefore'
  BY <1>1, <1>2 DEF CalledBefore, TypeOK
<1>5. EvenClock'
  <2>1. (local_time[c] - called[c].at)' = ahead
    BY <1>2, <1>3
  <2>2. /\ \A d \in Made : AheadFor(d)' = AheadFor(d)
        /\ AheadFor(c)' = ahead
    BY <1>3, <2>1 DEF AheadFor
  <2>3. \A d \in Made : called'[d].sets = sets => AheadFor(d)' = ahead
    BY <1>3, <2>2 DEF EvenClock
  <2>4. \A d \in Made : called'[d].sets <= sets
    BY <1>3 DEF EvenClock
  <2>5. \A d, e \in Made : called'[d].sets = called'[e].sets
                            => AheadFor(d)' = AheadFor(e)'
    BY <1>3, <2>2 DEF EvenClock
  <2>6. sets <= sets
    BY <1>2
  <2>. QED
    BY <1>1, <1>3, <2>2, <2>3, <2>4, <2>5, <2>6 DEF EvenClock
<1>6. GoodSkew'
  <2>1. (local_time[c] - called[c].at)' = ahead
    BY <1>2, <1>3
  <2>. QED  BY <1>1, <1>3, <2>1 DEF GoodSkew, Corrects, AheadFor
<1>. QED  BY <1>3, <1>4, <1>5, <1>6

LEMMA AtOnceKeeps ==
  ASSUME IndInv, NEW c \in Calls, ReturnsAtOnce(c)
  PROVE  IndInv'
<1>. USE TimesAssumption DEF IndInv
<1>1. /\ state[c] = "new" /\ state' = [state EXCEPT ![c] = "returned"]
      /\ local_time' = [local_time EXCEPT ![c] = elapsed + ahead]
      /\ called' = [called EXCEPT ![c] = [at |-> elapsed, sets |-> sets,
                                          answers |-> Len(answers)]]
      /\ result' = [result EXCEPT ![c] = (elapsed + ahead + skew) \div SECOND]
      /\ basis' = [basis EXCEPT ![c] = measured]
      /\ UNCHANGED <<next_check, skew, elapsed, ahead, sets, answers, measured>>
  BY DEF ReturnsAtOnce, Begins, Returns, clockVars, clock
<1>2. /\ elapsed \in Nat /\ ahead \in Nat /\ sets \in Nat /\ skew \in Int
      /\ measured \in Measure /\ Len(answers) \in Nat
  BY DEF TypeOK
<1>3. (elapsed + ahead + skew) \div SECOND \in Int
  BY <1>2, Division
<1>4. TypeOK'
  BY <1>1, <1>2, <1>3 DEF TypeOK
<1>5. /\ CalledBefore' /\ EvenClock' /\ GoodSkew'
      /\ called'[c].at = elapsed /\ called'[c].sets = sets
  BY <1>1, CallMade DEF ReturnsAtOnce
<1>6. AllFaithful'
  <2>1. ASSUME NEW d \in Calls, d # c
        PROVE  Faithful(d)'
    BY <1>1, <2>1 DEF AllFaithful, Faithful, TypeOK
  <2>2. ASSUME basis'[c].sets = called'[c].sets
        PROVE  Faithful(c)'
    <3>1. basis'[c] = measured /\ measured.sets = sets /\ measured.trip \in Nat
      BY <1>1, <1>2, <1>5, <2>2 DEF TypeOK, Measure
    <3>2. Corrects(ahead)
      BY <3>1 DEF GoodSkew
    <3>3. /\ elapsed + ahead + skew >= ServerStart + elapsed - (SECOND - 1)
          /\ elapsed + ahead + skew <= ServerStart + elapsed + measured.trip
      BY <1>2, <3>1, <3>2 DEF Corrects
    <3>4. result'[c] = (elapsed + ahead + skew) \div SECOND
      BY <1>1 DEF TypeOK
    <3>5. elapsed + ahead + skew \in Int
      BY <1>2
    <3>6. /\ result'[c] >= (ServerClock(elapsed) - (SECOND - 1)) \div SECOND
          /\ result'[c] <= (ServerClock(elapsed) + measured.trip) \div SECOND
      BY <1>2, <3>1, <3>3, <3>4, <3>5, ResultIsFaithful
    <3>. QED  BY <1>5, <3>1, <3>6 DEF Faithful, ServerClock
  <2>3. basis'[c].sets # called'[c].sets => Faithful(c)'
    BY DEF Faithful
  <2>. QED  BY <2>1, <2>2, <2>3 DEF AllFaithful
<1>. QED  BY <1>4, <1>5, <1>6

LEMMA AsksKeeps ==
  ASSUME IndInv, NEW c \in Calls, Asks(c)
  PROVE  IndInv'
<1>. USE TimesAssumption DEF IndInv
<1>1. /\ state' = [state EXCEPT ![c] = "asking"]
      /\ UNCHANGED <<next_check, skew, result, elapsed, ahead, sets, answers,
                     measured, basis>>
  BY DEF Asks, clockVars
<1>2. CalledBefore' /\ EvenClock' /\ GoodSkew'
  BY <1>1, CallMade DEF Asks
<1>3. /\ local_time' = [local_time EXCEPT ![c] = elapsed + ahead]
      /\ called' = [called EXCEPT ![c] = [at |-> elapsed, sets |-> sets,
                                          answers |-> Len(answers)]]
  BY DEF Asks, Begins, clock
<1>4. TypeOK'
  BY <1>1, <1>3 DEF TypeOK
<1>5. AllFaithful'
  BY <1>1, <1>3 DEF AllFaithful, Faithful, TypeOK
<1>. QED  BY <1>2, <1>4, <1>5

LEMMA AnsweredKeeps ==
  ASSUME IndInv, NEW c \in Calls, NEW t \in 0 .. MaxTime, Answered(c, t)
  PROVE  IndInv'
<1>. USE TimesAssumption DEF IndInv
<1>. DEFINE trip == t - called[c].at
            m == [trip |-> trip, sets |-> called[c].sets]
            header == DateHeader(t)
            value == local_time[c] + (header - local_time[c])
<1>1. /\ state[c] = "asking" /\ state' = [state EXCEPT ![c] = "returned"]
      /\ t \in called[c].at .. elapsed
      /\ next_check' = local_time[c] + CHECKING_INTERVAL
      /\ skew' = header - local_time[c]
      /\ measured' = m
      /\ result' = [result EXCEPT ![c] = value \div SECOND]
      /\ basis' = [basis EXCEPT ![c] = m]
      /\ answers' = Append(answers, [call |-> c, ok |-> TRUE])
      /\ UNCHANGED <<local_time, elapsed, ahead, sets, called>>
  BY DEF Answered, Returns, IsOver, clockVars
<1>2. /\ t \in Nat /\ local_time[c] \in Nat /\ sets \in Nat
      /\ called[c].at \in Nat /\ called[c].sets \in Nat
  BY DEF TypeOK
<1>3. /\ header \in Int /\ header <= ServerStart + t
      /\ header >= ServerStart + t - (SECOND - 1)
  BY <1>2, HeaderIsRecent
<1>4. trip \in Nat /\ called[c].at + trip = t
  BY <1>1, <1>2
<1>. HIDE DEF header, trip
<1>5. value \in Int /\ value = header /\ value \div SECOND \in Int
  BY <1>2, <1>3, Division
<1>. HIDE DEF value
<1>6. TypeOK'
  <2>1. m \in Measure
    BY <1>2, <1>4 DEF Measure
  <2>2. next_check' \in Nat /\ skew' \in Int
    BY <1>1, <1>2, <1>3
  <2>3. answers' \in Seq([call : Calls, ok : BOOLEAN])
    BY <1>1 DEF TypeOK
  <2>. HIDE DEF m
  <2>. QED  BY <1>1, <1>5, <2>1, <2>2, <2>3 DEF TypeOK
<1>7. c \in Made /\ Made' = Made
  BY <1>1 DEF Made, TypeOK
<1>8. CalledBefore' /\ EvenClock'
  BY <1>1, <1>7 DEF CalledBefore, EvenClock, AheadFor
<1>9. GoodSkew'
  <2>1. ASSUME NEW a \in Int, a = AheadFor(c)
        PROVE  Corrects(a)'
    <3>1. skew' = header - local_time[c] /\ measured'.trip = trip
      BY <1>1
    <3>2. a = local_time[c] - called[c].at
      BY <2>1 DEF AheadFor
    <3>3. skew' + a = header - called[c].at
      BY <1>2, <1>3, <3>1, <3>2
    <3>4. ServerStart \in Nat /\ SECOND \in Nat
      BY TimesAssumption
    <3>. QED
      BY <1>2, <1>3, <1>4, <3>1, <3>3, <3>4 DEF Corrects
  <2>2. AheadFor(c) \in Int
    BY <1>2 DEF AheadFor
  <2>3. measured'.sets = called[c].sets
    BY <1>1
  <2>4. measured'.sets <= sets'
    BY <1>1, <1>7, <2>3 DEF EvenClock
  <2>5. measured'.sets = sets' => Corrects(ahead)'
    BY <1>1, <1>7, <2>1, <2>2, <2>3 DEF EvenClock
  <2>6. ASSUME NEW d \in Made, called[d].sets = called[c].sets
        PROVE  Corrects(AheadFor(d))'
    <3>1. AheadFor(d) = AheadFor(c) /\ AheadFor(d)' = AheadFor(d)
      BY <1>1, <1>7, <2>6 DEF EvenClock, AheadFor
    <3>. QED  BY <2>1, <2>2, <3>1 DEF Corrects
  <2>. QED  BY <1>1, <1>7, <2>3, <2>4, <2>5, <2>6 DEF GoodSkew
<1>10. AllFaithful'
  <2>1. ASSUME NEW d \in Calls, d # c
        PROVE  Faithful(d)'
    BY <1>1, <2>1 DEF AllFaithful, Faithful, TypeOK
  <2>2. /\ value >= ServerStart + called[c].at - (SECOND - 1)
        /\ value <= ServerStart + called[c].at + trip
    BY <1>2, <1>3, <1>4, <1>5
  <2>3. Faithful(c)'
    <3>1. /\ value \div SECOND
               >= (ServerClock(called[c].at) - (SECOND - 1)) \div SECOND
          /\ value \div SECOND <= (ServerClock(called[c].at) + trip) \div SECOND
      BY <1>2, <1>4, <1>5, <2>2, ResultIsFaithful
    <3>2. /\ result'[c] = value \div SECOND /\ basis'[c].trip = trip
          /\ called' = called
      BY <1>1 DEF TypeOK
    <3>. QED  BY <3>1, <3>2 DEF Faithful, ServerClock
  <2>. QED  BY <2>1, <2>3 DEF AllFaithful
<1>. QED  BY <1>6, <1>8, <1>9, <1>10

LEMMA FailsKeeps ==
  ASSUME IndInv, NEW c \in Calls, Fails(c)
  PROVE  IndInv'
<1>. USE TimesAssumption DEF IndInv
<1>1. /\ state[c] = "asking" /\ state' = [state EXCEPT ![c] = "returned"]
      /\ next_check' = local_time[c] + ERROR_INTERVAL
      /\ result' = [result EXCEPT ![c] = (local_time[c] + skew) \div SECOND]
      /\ basis' = [basis EXCEPT ![c] = measured]
      /\ answers' = Append(answers, [call |-> c, ok |-> FALSE])
      /\ UNCHANGED <<skew, local_time, elapsed, ahead, sets, called, measured>>
  BY DEF Fails, Returns, IsOver, clockVars
<1>2. /\ local_time[c] \in Nat /\ skew \in Int /\ called[c].at \in Nat
      /\ measured \in Measure /\ called[c].sets \in Nat
  BY DEF TypeOK
<1>. DEFINE value == local_time[c] + skew
<1>3. value \in Int /\ value \div SECOND \in Int
  BY <1>2, Division
<1>4. TypeOK'
  <2>1. answers' \in Seq([call : Calls, ok : BOOLEAN])
    BY <1>1 DEF TypeOK
  <2>2. next_check' \in Nat
    BY <1>1, <1>2
  <2>. QED  BY <1>1, <1>2, <1>3, <2>1, <2>2 DEF TypeOK
<1>5. c \in Made /\ Made' = Made
  BY <1>1 DEF Made, TypeOK
<1>6. CalledBefore' /\ EvenClock' /\ GoodSkew'
  BY <1>1, <1>5 DEF CalledBefore, EvenClock, GoodSkew, Corrects, AheadFor
<1>7. AllFaithful'
  <2>1. ASSUME NEW d \in Calls, d # c
        PROVE  Faithful(d)'
    BY <1>1, <2>1 DEF AllFaithful, Faithful, TypeOK
  <2>2. ASSUME measured.sets = called[c].sets
        PROVE  Faithful(c)'
    <3>1. Corrects(local_time[c] - called[c].at) /\ measured.trip \in Nat
      <4>1. measured.trip \in Nat
        BY <1>2, <2>2 DEF Measure
      <4>. QED  BY <1>5, <2>2, <4>1 DEF GoodSkew, AheadFor
    <3>2. /\ value >= ServerStart + called[c].at - (SECOND - 1)
          /\ value <= ServerStart + called[c].at + measured.trip
      BY <1>2, <3>1 DEF Corrects
    <3>3. /\ value \div SECOND
               >= (ServerClock(called[c].at) - (SECOND - 1)) \div SECOND
          /\ value \div SECOND
               <= (ServerClock(called[c].at) + measured.trip) \div SECOND
      BY <1>2, <1>3, <3>1, <3>2, ResultIsFaithful
    <3>4. /\ result'[c] = value \div SECOND /\ basis'[c] = measured
          /\ called' = called
      BY <1>1 DEF TypeOK
    <3>. QED  BY <3>3, <3>4 DEF Faithful, ServerClock
  <2>3. ASSUME measured.sets # called[c].sets
        PROVE  Faithful(c)'
    BY <1>1, <2>3 DEF Faithful, TypeOK
  <2>. QED  BY <2>1, <2>2, <2>3 DEF AllFaithful
<1>. QED  BY <1>4, <1>6, <1>7

LEMMA ClockKeeps ==
  ASSUME IndInv, Tick \/ SetClock \/ UNCHANGED vars
  PROVE  IndInv'
<1>. USE TimesAssumption DEF IndInv
<1>1. UNCHANGED checkerVars /\ UNCHANGED historyVars
  BY DEF Tick, SetClock, vars
<1>2. /\ elapsed' \in Nat /\ elapsed' >= elapsed /\ ahead' \in Nat
      /\ sets' \in Nat
      /\ (sets' = sets /\ ahead' = ahead) \/ sets' = sets + 1
  <2>. elapsed \in Nat /\ ahead \in Nat /\ sets \in Nat
    BY DEF TypeOK
  <2>1. CASE Tick
    BY <2>1 DEF Tick
  <2>2. CASE SetClock
    BY <2>2 DEF SetClock
  <2>3. CASE UNCHANGED vars
    BY <2>3 DEF vars, clockVars
  <2>. QED  BY <2>1, <2>2, <2>3
<1>3. TypeOK' /\ AllFaithful'
  BY <1>1, <1>2 DEF checkerVars, historyVars, TypeOK, AllFaithful, Faithful
<1>4. CalledBefore'
  BY <1>1, <1>2 DEF historyVars, CalledBefore, TypeOK
<1>5. /\ Made' = Made
      /\ \A c \in Made : called[c].sets \in Nat
      /\ measured.sets \in Int /\ sets \in Nat
  BY <1>1 DEF checkerVars, Made, TypeOK, Measure
<1>6. EvenClock'
  BY <1>1, <1>2, <1>5 DEF checkerVars, historyVars, EvenClock, AheadFor
<1>7. GoodSkew'
  BY <1>1, <1>2, <1>5 DEF checkerVars, historyVars, GoodSkew, Corrects, AheadFor
<1>. QED  BY <1>3, <1>4, <1>6, <1>7

LEMMA StepKeeps == IndInv /\ [Next]_vars => IndInv'
  BY AtOnceKeeps, AsksKeeps, AnsweredKeeps, FailsKeeps, ClockKeeps DEF Next

(* The clocks and the skew stay consistent, whatever overlaps. *)
THEOREM CheckerCorrect == Spec => []IndInv
  BY InitHolds, StepKeeps, PTL DEF Spec

(* The variables have their types. *)
THEOREM TypeCorrect == Spec => []TypeOK
<1>1. IndInv => TypeOK
  BY DEF IndInv
<1>. QED  BY <1>1, CheckerCorrect, PTL

(* The timestamps are accurate to a second and the trip of the question. *)
THEOREM TimeIsFaithful == Spec => []FaithfulTime
<1>1. IndInv => FaithfulTime
  BY DEF IndInv, AllFaithful, Faithful, FaithfulTime
<1>. QED  BY <1>1, CheckerCorrect, PTL

-----------------------------------------------------------------------------
(* The pace of the checks.  next_check is from the last answer; the call    *)
(* that got it had itself kept away from the answers before, but for those  *)
(* that came while it was under way.                                        *)

Recorded ==
  /\ \A k \in 1 .. Len(answers) : state[answers[k].call] = "returned"
  /\ \A c \in Calls : called[c].answers <= Len(answers)

(* Calls made at the time t, on the answers that have come by then, keep    *)
(* the interval of the k-th answer.                                         *)
KeepsAway(t, k, n) ==
  \/ t >= local_time[answers[k].call] + Interval(answers[k])
  \/ Overlapped(k, n)

NextCheckPaced == \A k \in 1 .. Len(answers) : KeepsAway(next_check, k, Len(answers))

Checks(d) ==
  state[d] = "asking" \/ \E j \in 1 .. Len(answers) : answers[j].call = d

ChecksPaced ==
  \A d \in Calls : state[d] # "new" /\ Checks(d) =>
    \A k \in 1 .. called[d].answers : KeepsAway(local_time[d], k, called[d].answers)

PaceInv == Recorded /\ NextCheckPaced /\ ChecksPaced

LEMMA AnswersTyped ==
  ASSUME TypeOK
  PROVE  /\ Len(answers) \in Nat
         /\ \A k \in 1 .. Len(answers) : answers[k].call \in Calls
         /\ \A c \in Calls : called[c].answers \in Nat /\ local_time[c] \in Nat
         /\ \A a : Interval(a) \in Nat
<1>1. answers \in Seq([call : Calls, ok : BOOLEAN])
  BY DEF TypeOK
<1>2. ASSUME NEW S, answers \in Seq(S)
      PROVE  Len(answers) \in Nat /\ \A k \in 1 .. Len(answers) : answers[k] \in S
  BY <1>2
<1>3. /\ Len(answers) \in Nat
      /\ \A k \in 1 .. Len(answers) : answers[k] \in [call : Calls, ok : BOOLEAN]
  BY <1>1, <1>2
<1>4. \A k \in 1 .. Len(answers) : answers[k].call \in Calls
  BY <1>3
<1>. QED  BY <1>3, <1>4, TimesAssumption DEF TypeOK, Interval

(* Nothing that a call is judged by is touched by the making of another.    *)
LEMMA MadeKeepsPace ==
  ASSUME TypeOK, PaceInv, NEW c \in Calls, Begins(c),
         NEW v \in {"asking", "returned"},
         state' = [state EXCEPT ![c] = v],
         v = "asking" => clock >= next_check,
         UNCHANGED <<next_check, answers>>
  PROVE  PaceInv'
<1>1. /\ state[c] = "new"
      /\ local_time' = [local_time EXCEPT ![c] = clock]
      /\ called' = [called EXCEPT ![c] = [at |-> elapsed, sets |-> sets,
                                          answers |-> Len(answers)]]
  BY DEF Begins
<1>2. /\ Len(answers) \in Nat
      /\ \A k \in 1 .. Len(answers) : answers[k].call \in Calls
      /\ \A d \in Calls : called[d].answers \in Nat /\ local_time[d] \in Nat
      /\ \A a : Interval(a) \in Nat
  BY AnswersTyped
<1>3. \A k \in 1 .. Len(answers) : answers[k].call # c
  BY <1>1 DEF PaceInv, Recorded
<1>4. \A d \in Calls \ {c} : /\ state'[d] = state[d]
                             /\ local_time'[d] = local_time[d]
                             /\ called'[d] = called[d]
  BY <1>1 DEF TypeOK
<1>5. /\ state'[c] = v /\ local_time'[c] = clock
      /\ called'[c].answers = Len(answers)
  BY <1>1 DEF TypeOK
<1>6. Recorded'
  BY <1>2, <1>3, <1>4, <1>5 DEF PaceInv, Recorded
<1>7. \A k \in 1 .. Len(answers) : \A n \in 1 .. Len(answers) :
        Overlapped(k, n)' <=> Overlapped(k, n)
  BY <1>2, <1>3, <1>4 DEF Overlapped
<1>8. \A k \in 1 .. Len(answers), n \in 1 .. Len(answers) : \A t :
        /\ local_time'[answers[k].call] = local_time[answers[k].call]
        /\ Overlapped(k, n)' <=> Overlapped(k, n)
  BY <1>2, <1>3, <1>4, <1>7
<1>9. NextCheckPaced'
  BY <1>2, <1>8 DEF PaceInv, NextCheckPaced, KeepsAway, Interval
<1>10. ASSUME NEW d \in Calls, (state[d] # "new" /\ Checks(d))',
              NEW k \in 1 .. called'[d].answers
       PROVE  KeepsAway(local_time[d], k, called[d].answers)'
  <2>1. CASE d = c
    <3>1. v = "asking"
      BY <1>3, <1>5, <1>10, <2>1 DEF Checks
    <3>2. clock >= next_check /\ k \in 1 .. Len(answers)
      BY <1>5, <2>1, <3>1
    <3>3. KeepsAway(next_check, k, Len(answers))
      BY <3>2 DEF PaceInv, NextCheckPaced
    <3>4. next_check \in Nat /\ clock \in Nat
      BY DEF TypeOK, clock
    <3>. QED
      <4>1. Len(answers) \in 1 .. Len(answers)
        BY <1>2, <3>2
      <4>2. CASE Overlapped(k, Len(answers))
        BY <1>5, <1>8, <2>1, <3>2, <4>1, <4>2 DEF KeepsAway
      <4>3. CASE next_check >= local_time[answers[k].call] + Interval(answers[k])
        BY <1>2, <1>5, <1>8, <2>1, <3>2, <3>4, <4>3 DEF KeepsAway, Interval
      <4>. QED  BY <3>3, <4>2, <4>3 DEF KeepsAway
  <2>2. CASE d # c
    <3>1. state[d] # "new" /\ Checks(d) /\ called'[d] = called[d]
      BY <1>4, <1>10, <2>2 DEF Checks
    <3>2. KeepsAway(local_time[d], k, called[d].answers)
      BY <1>10, <3>1 DEF PaceInv, ChecksPaced
    <3>3. /\ k \in 1 .. Len(answers)
          /\ called[d].answers \in 1 .. Len(answers)
      BY <1>2, <1>10, <3>1 DEF PaceInv, Recorded
    <3>. QED
      BY <1>4, <1>8, <2>2, <3>1, <3>2, <3>3 DEF KeepsAway, Interval
  <2>. QED  BY <2>1, <2>2
<1>11. ChecksPaced'
  BY <1>10 DEF ChecksPaced
<1>. QED  BY <1>6, <1>9, <1>11 DEF PaceInv

(* An answer comes: next_check is from the time of the call that gets it.   *)
LEMMA AnswerKeepsPace ==
  ASSUME TypeOK, PaceInv, NEW c \in Calls, NEW ok \in BOOLEAN,
         state[c] = "asking",
         state' = [state EXCEPT ![c] = "returned"],
         IsOver(c, ok),
         next_check' = local_time[c] + Interval([call |-> c, ok |-> ok]),
         UNCHANGED <<local_time, called>>
  PROVE  PaceInv'
<1>. DEFINE a == [call |-> c, ok |-> ok]
<1>1. /\ Len(answers) \in Nat
      /\ \A k \in 1 .. Len(answers) : answers[k].call \in Calls
      /\ \A d \in Calls : called[d].answers \in Nat /\ local_time[d] \in Nat
      /\ \A b : Interval(b) \in Nat
  BY AnswersTyped
<1>2. /\ Len(answers') = Len(answers) + 1
      /\ \A k \in 1 .. Len(answers) : answers'[k] = answers[k]
      /\ answers'[Len(answers) + 1] = a
  BY DEF IsOver, TypeOK
<1>. HIDE DEF a
<1>3. a.call = c
  BY DEF a
<1>4. state'[c] = "returned" /\ \A d \in Calls \ {c} : state'[d] = state[d]
  BY DEF TypeOK
<1>5. Recorded'
  <2>1. ASSUME NEW k \in 1 .. Len(answers')
        PROVE  state'[answers'[k].call] = "returned"
    <3>1. CASE k = Len(answers) + 1
      BY <1>2, <1>3, <1>4, <3>1
    <3>2. CASE k \in 1 .. Len(answers)
      BY <1>1, <1>2, <1>4, <3>2 DEF PaceInv, Recorded
    <3>. QED  BY <1>1, <1>2, <2>1, <3>1, <3>2
  <2>. QED  BY <1>1, <1>2, <2>1 DEF PaceInv, Recorded
<1>6. ASSUME NEW k \in 1 .. Len(answers), NEW n \in 1 .. Len(answers)
      PROVE  Overlapped(k, n)' <=> Overlapped(k, n)
  <2>1. \A j \in k + 1 .. n : answers'[j] = answers[j]
    BY <1>1, <1>2
  <2>. QED  BY <2>1 DEF Overlapped
<1>7. ASSUME NEW k \in 1 .. Len(answers), NEW n \in 1 .. Len(answers),
             Overlapped(k, n)
      PROVE  Overlapped(k, Len(answers))'
  <2>1. PICK j \in k + 1 .. n : called[answers[j].call].answers < k
    BY <1>7 DEF Overlapped
  <2>2. j \in k + 1 .. Len(answers') /\ answers'[j] = answers[j]
    BY <1>1, <1>2
  <2>. QED  BY <2>1, <2>2 DEF Overlapped
<1>8. NextCheckPaced'
  <2>. SUFFICES ASSUME NEW k \in 1 .. Len(answers) + 1
                PROVE  KeepsAway(next_check, k, Len(answers))'
    BY <1>2 DEF NextCheckPaced
  <2>1. CASE k = Len(answers) + 1
    <3>1. Interval(answers[k])' = Interval(a)
      BY <1>2, <2>1 DEF Interval
    <3>. QED
      BY <1>1, <1>2, <1>3, <2>1, <3>1 DEF KeepsAway, a
  <2>2. CASE k \in 1 .. Len(answers)
    <3>1. CASE k \in 1 .. called[c].answers
      <4>1. KeepsAway(local_time[c], k, called[c].answers)
        BY <3>1 DEF PaceInv, ChecksPaced, Checks
      <4>2. called[c].answers \in 1 .. Len(answers)
        BY <1>1, <3>1 DEF PaceInv, Recorded
      <4>3. CASE Overlapped(k, called[c].answers)
        BY <1>2, <1>7, <2>2, <4>2, <4>3 DEF KeepsAway
      <4>4. CASE local_time[c] >= local_time[answers[k].call] + Interval(answers[k])
        <5>1. next_check' >= local_time[c] /\ next_check' \in Nat
          BY <1>1 DEF a
        <5>2. Interval(answers[k])' = Interval(answers[k])
          BY <1>2, <2>2 DEF Interval
        <5>3. next_check' >= local_time[answers[k].call] + Interval(answers[k])
          BY <1>1, <2>2, <4>4, <5>1
        <5>. QED  BY <1>2, <2>2, <5>2, <5>3 DEF KeepsAway
      <4>. QED  BY <4>1, <4>3, <4>4 DEF KeepsAway
    <3>2. CASE called[c].answers < k
      BY <1>1, <1>2, <1>3, <2>2, <3>2 DEF KeepsAway, Overlapped
    <3>. QED  BY <1>1, <2>2, <3>1, <3>2
  <2>. QED  BY <1>1, <2>1, <2>2
<1>9. ASSUME NEW d \in Calls, (state[d] # "new" /\ Checks(d))',
             NEW k \in 1 .. called[d].answers
      PROVE  KeepsAway(local_time[d], k, called[d].answers)'
  <2>1. state[d] # "new" /\ Checks(d)
    <3>1. CASE d = c
      BY <3>1 DEF Checks
    <3>2. CASE d # c
      BY <1>1, <1>2, <1>3, <1>4, <1>9, <3>2 DEF Checks
    <3>. QED  BY <3>1, <3>2
  <2>2. KeepsAway(local_time[d], k, called[d].answers)
    BY <1>9, <2>1 DEF PaceInv, ChecksPaced
  <2>3. k \in 1 .. Len(answers) /\ called[d].answers \in 1 .. Len(answers)
    BY <1>1, <1>9 DEF PaceInv, Recorded
  <2>4. Interval(answers[k])' = Interval(answers[k])
    BY <1>2, <2>3 DEF Interval
  <2>. QED  BY <1>2, <1>6, <2>2, <2>3, <2>4 DEF KeepsAway
<1>10. ChecksPaced'
  BY <1>9 DEF ChecksPaced
<1>. QED  BY <1>5, <1>8, <1>10 DEF PaceInv

LEMMA PaceInit == Init => PaceInv
  BY DEF Init, PaceInv, Recorded, NextCheckPaced, ChecksPaced, Checks

LEMMA PaceStep == TypeOK /\ PaceInv /\ [Next]_vars => PaceInv'
<1>. SUFFICES ASSUME TypeOK, PaceInv, [Next]_vars
              PROVE  PaceInv'
  OBVIOUS
<1>1. ASSUME NEW c \in Calls, ReturnsAtOnce(c)
      PROVE  PaceInv'
  BY <1>1, MadeKeepsPace DEF ReturnsAtOnce, Returns
<1>2. ASSUME NEW c \in Calls, Asks(c)
      PROVE  PaceInv'
  BY <1>2, MadeKeepsPace DEF Asks
<1>3. ASSUME NEW c \in Calls, NEW t \in 0 .. MaxTime, Answered(c, t)
      PROVE  PaceInv'
  <2>1. Interval([call |-> c, ok |-> TRUE]) = CHECKING_INTERVAL
    BY DEF Interval
  <2>. QED
    BY <1>3, <2>1, AnswerKeepsPace DEF Answered, Returns
<1>4. ASSUME NEW c \in Calls, Fails(c)
      PROVE  PaceInv'
  <2>1. Interval([call |-> c, ok |-> FALSE]) = ERROR_INTERVAL
    BY DEF Interval
  <2>. QED
    BY <1>4, <2>1, AnswerKeepsPace DEF Fails, Returns
<1>5. CASE Tick \/ SetClock \/ UNCHANGED vars
  <2>1. UNCHANGED <<next_check, state, local_time, called, answers>>
    BY <1>5 DEF Tick, SetClock, vars, checkerVars, historyVars
  <2>. QED
    BY <2>1 DEF PaceInv, Recorded, NextCheckPaced, ChecksPaced, Checks,
       KeepsAway, Overlapped, Interval
<1>. QED  BY <1>1, <1>2, <1>3, <1>4, <1>5 DEF Next

(* The server is asked no more often than the intervals allow, but for the  *)
(* checks that overlap one another.                                         *)
THEOREM ChecksAreSpaced == Spec => []Paced
<1>1. PaceInv => Paced
  BY DEF PaceInv, ChecksPaced, Checks, KeepsAway, Paced
<1>. QED  BY <1>1, TypeCorrect, PaceInit, PaceStep, PTL DEF Spec
=============================================================================
