------------------------------ MODULE Timestamps ------------------------------
(* BaseTimestampChecker (utils.py): the time of the server, from the local  *)
(* clock and a skew that is measured now and then.  get_faithful_time       *)
(* yields while the server is asked, and other calls run meanwhile: the     *)
(* answers may come in another order than the questions.                    *)
(*                                                                          *)
(* Times are ticks, several to a second: the local clock is read in ticks,  *)
(* the Date header and the result are in seconds.  Both clocks run evenly;  *)
(* the local one may be set.                                                *)

EXTENDS Integers, Sequences

CONSTANTS
  NCalls,             \* calls of get_faithful_time
  SECOND,             \* ticks of a second
  CHECKING_INTERVAL, ERROR_INTERVAL,
  ServerStart,        \* the server's clock at the beginning
  Clocks,             \* what the local clock may be ahead of elapsed time
  MaxTime, MaxSets    \* bounds: ticks that pass, times the clock is set

ASSUME TimesAssumption ==
  /\ NCalls \in Nat /\ SECOND \in Nat \ {0}
  /\ CHECKING_INTERVAL \in Nat /\ ERROR_INTERVAL \in Nat
  /\ ERROR_INTERVAL <= CHECKING_INTERVAL
  /\ ServerStart \in Nat /\ Clocks \subseteq Nat
  /\ MaxTime \in Nat /\ MaxSets \in Nat

Calls == 1 .. NCalls

VARIABLES
  next_check, skew,
  state,        \* of each call: "new", "asking" or "returned"
  local_time,   \* the local variable of each call
  result,       \* what each call has returned
  elapsed,      \* since the beginning
  ahead,        \* the local clock is ahead of it by this
  (* history *)
  sets,         \* how often the clock has been set
  called,       \* for each call: elapsed and sets when it was made, and the
                \* number of answers that had come
  answers,      \* the checks that are over, in order, and if they succeeded
  measured,     \* what the skew is from: the trip of the question to the
                \* server, and sets when it was asked
  basis         \* what each result is from

checkerVars == <<next_check, skew, state, local_time, result>>
clockVars == <<elapsed, ahead, sets>>
historyVars == <<called, answers, measured, basis>>
vars == <<checkerVars, clockVars, historyVars>>

Unmeasured == [trip |-> 0, sets |-> -1]

clock == elapsed + ahead
ServerClock(t) == ServerStart + t

Init ==
  /\ elapsed = 0 /\ ahead \in Clocks /\ sets = 0
  /\ next_check = clock
  /\ skew = 0
  /\ state = [c \in Calls |-> "new"]
  /\ local_time = [c \in Calls |-> 0]
  /\ result = [c \in Calls |-> 0]
  /\ called = [c \in Calls |-> [at |-> 0, sets |-> 0, answers |-> 0]]
  /\ answers = <<>>
  /\ measured = Unmeasured
  /\ basis = [c \in Calls |-> Unmeasured]

-----------------------------------------------------------------------------
(* time.time() is read first. *)
Begins(c) ==
  /\ state[c] = "new"
  /\ \A d \in Calls : d < c => state[d] # "new"
  /\ local_time' = [local_time EXCEPT ![c] = clock]
  /\ called' = [called EXCEPT ![c] = [at |-> elapsed, sets |-> sets,
                                      answers |-> Len(answers)]]

(* int(local_time + self.skew): the skew as it is now. *)
Returns(c, local, skewNow, from) ==
  /\ state' = [state EXCEPT ![c] = "returned"]
  /\ result' = [result EXCEPT ![c] = (local + skewNow) \div SECOND]
  /\ basis' = [basis EXCEPT ![c] = from]

(* It is too early for a check. *)
ReturnsAtOnce(c) ==
  /\ Begins(c)
  /\ clock < next_check
  /\ Returns(c, clock, skew, measured)
  /\ UNCHANGED <<next_check, skew, clockVars, answers, measured>>

Asks(c) ==
  /\ Begins(c)
  /\ clock >= next_check
  /\ state' = [state EXCEPT ![c] = "asking"]
  /\ UNCHANGED <<next_check, skew, result, clockVars, answers, measured, basis>>

IsOver(c, ok) == answers' = Append(answers, [call |-> c, ok |-> ok])

(* The Date header: the server's clock at some moment of the exchange, in   *)
(* whole seconds.                                                           *)
DateHeader(t) == (ServerClock(t) \div SECOND) * SECOND

(* Mutant: the local time is read again when the answer is there. *)
Answered_NewLocalTime(c, t) ==
  /\ state[c] = "asking"
  /\ t \in called[c].at .. elapsed
  /\ next_check' = clock + CHECKING_INTERVAL
  /\ skew' = DateHeader(t) - clock
  /\ measured' = [trip |-> t - called[c].at, sets |-> called[c].sets]
  /\ Returns(c, local_time[c], skew', measured')
  /\ IsOver(c, TRUE)
  /\ UNCHANGED <<local_time, clockVars, called>>

(* The server answers: t is when it wrote the header. *)
Answered(c, t) ==
  /\ state[c] = "asking"
  /\ t \in called[c].at .. elapsed
  /\ next_check' = local_time[c] + CHECKING_INTERVAL
  /\ skew' = DateHeader(t) - local_time[c]
  /\ measured' = [trip |-> t - called[c].at, sets |-> called[c].sets]
  /\ Returns(c, local_time[c], skew', measured')
  /\ IsOver(c, TRUE)
  /\ UNCHANGED <<local_time, clockVars, called>>

(* Mutant: after a failure the next call may check again. *)
Fails_NoInterval(c) ==
  /\ state[c] = "asking"
  /\ Returns(c, local_time[c], skew, measured)
  /\ IsOver(c, FALSE)
  /\ UNCHANGED <<next_check, skew, local_time, clockVars, called, measured>>

(* The web client fails, or its answer is no date. *)
Fails(c) ==
  /\ state[c] = "asking"
  /\ next_check' = local_time[c] + ERROR_INTERVAL
  /\ Returns(c, local_time[c], skew, measured)
  /\ IsOver(c, FALSE)
  /\ UNCHANGED <<skew, local_time, clockVars, called, measured>>

Tick ==
  /\ elapsed < MaxTime
  /\ elapsed' = elapsed + 1
  /\ UNCHANGED <<checkerVars, ahead, sets, historyVars>>

SetClock ==
  /\ sets < MaxSets
  /\ ahead' \in Clocks \ {ahead}
  /\ sets' = sets + 1
  /\ UNCHANGED <<checkerVars, elapsed, historyVars>>

Next ==
  \/ \E c \in Calls : \/ ReturnsAtOnce(c)
                      \/ Asks(c)
                      \/ \E t \in 0 .. MaxTime : Answered(c, t)
                      \/ Fails(c)
  \/ Tick
  \/ SetClock

Spec == Init /\ [][Next]_vars

-----------------------------------------------------------------------------
(* Properties *)

Measure == [trip : Nat, sets : Nat \cup {-1}]

TypeOK ==
  /\ next_check \in Nat /\ skew \in Int
  /\ state \in [Calls -> {"new", "asking", "returned"}]
  /\ local_time \in [Calls -> Nat]
  /\ result \in [Calls -> Int]
  /\ elapsed \in Nat /\ ahead \in Nat /\ sets \in Nat
  /\ called \in [Calls -> [at : Nat, sets : Nat, answers : Nat]]
  /\ answers \in Seq([call : Calls, ok : BOOLEAN])
  /\ measured \in Measure
  /\ basis \in [Calls -> Measure]

(* Once a skew has been measured, "an accurate timestamp" is at most a      *)
(* second behind the server's clock at the time of the call, and ahead of   *)
(* it by no more than the question took to get to the server: in whatever   *)
(* order overlapping checks are answered, after failures too, and whoever's *)
(* skew a call ends up with.  It says nothing of a call for which the local *)
(* clock has been set since the check began.                                *)
FaithfulTime ==
  \A c \in Calls :
    state[c] = "returned" /\ basis[c].sets = called[c].sets =>
      LET server == ServerClock(called[c].at)
      IN /\ result[c] >= (server - (SECOND - 1)) \div SECOND
         /\ result[c] <= (server + basis[c].trip) \div SECOND

(* "Regularly checked": a call asks the server within CHECKING_INTERVAL of  *)
(* a check that succeeded only if another check, which was under way when   *)
(* that one was answered, is answered after it and so takes next_check      *)
(* back; and within ERROR_INTERVAL of one that failed on the same terms.    *)
Interval(a) == IF a.ok THEN CHECKING_INTERVAL ELSE ERROR_INTERVAL
Overlapped(k, n) ==
  \E j \in k + 1 .. n : called[answers[j].call].answers < k
Paced ==
  \A d \in Calls : state[d] # "new" /\ (state[d] = "asking"
                       \/ \E j \in 1 .. Len(answers) : answers[j].call = d) =>
    \A k \in 1 .. called[d].answers :
      \/ local_time[d] >= local_time[answers[k].call] + Interval(answers[k])
      \/ Overlapped(k, called[d].answers)
=============================================================================
