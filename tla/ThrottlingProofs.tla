-------------------------- MODULE ThrottlingProofs --------------------------
(* Proofs about Throttling, for any number of connections, any limits, any  *)
(* sizes.                                                                   *)

EXTENDS Throttling, TLAPS

USE DEF Directions, None, DelayedCall

LEMMA ConnectionsTyped ==
  /\ Connections \subseteq Nat \ {None}
  /\ 0 .. MaxChunk \subseteq Nat
  BY SizesAssumption DEF Connections

LEMMA InitHolds == Init => IndInv
<1>. SUFFICES ASSUME Init
              PROVE  IndInv
  OBVIOUS
<1>1. TypeOK
  BY LimitsAssumption DEF Init, TypeOK
<1>2. NoStrayCalls
  BY DEF Init, NoStrayCalls
<1>3. ThrottledIsResumed /\ PendingMeansThrottled /\ ClientIsMade
  BY DEF Init, ThrottledIsResumed, MonitoredOpen, PendingMeansThrottled,
     ClientIsMade
<1>4. ReadsPausedIffThrottled
  BY DEF Init, ReadsPausedIffThrottled
<1>. QED  BY <1>1, <1>2, <1>3, <1>4 DEF IndInv

(* Bytes are counted on the monitored connection: the effect of register.   *)
LEMMA RegisterKeeps ==
  ASSUME IndInv, NEW c \in Connections, NEW d \in Directions, NEW n \in Nat,
         conn[c] = "open", Transfers(c, d, n)
  PROVE  IndInv'
<1>. USE DEF IndInv
<1>0. UNCHANGED <<throttling_enabled, limit, resetID, reset_calls, client, conn>>
  BY DEF Transfers
<1>1. CASE UNCHANGED <<throttling, unthrottleID, unthrottle_calls, reading>>
  <2>1. thisSecond' \in [Directions -> Nat]
    BY <1>1 DEF Transfers, register, TypeOK
  <2>. QED
    BY <1>0, <1>1, <2>1 DEF TypeOK, NoStrayCalls, ThrottledIsResumed,
       MonitoredOpen, ReadsPausedIffThrottled, PendingMeansThrottled,
       ClientIsMade
<1>2. CASE ~UNCHANGED <<throttling, unthrottleID, unthrottle_calls, reading>>
  <2>1. /\ client = c
        /\ thisSecond' = [thisSecond EXCEPT ![d] = thisSecond[d] + n]
        /\ unthrottleID[d] = "none"
        /\ throttling' = throttling \cup {d}
        /\ unthrottleID' = [unthrottleID EXCEPT ![d] = "active"]
        /\ unthrottle_calls' = [unthrottle_calls EXCEPT ![d] = @ + 1]
        /\ PauseClient(d)
    BY <1>2 DEF Transfers, register, ShouldCheck
  <2>2. TypeOK'
    BY <1>0, <2>1 DEF TypeOK, PauseClient
  <2>3. NoStrayCalls'
    BY <1>0, <2>1 DEF TypeOK, NoStrayCalls
  <2>4. ThrottledIsResumed' /\ PendingMeansThrottled'
    BY <1>0, <2>1 DEF TypeOK, ThrottledIsResumed, MonitoredOpen,
       PendingMeansThrottled
  <2>5. ReadsPausedIffThrottled'
    BY <1>0, <2>1, ConnectionsTyped
    DEF TypeOK, ReadsPausedIffThrottled, PauseClient
  <2>6. ClientIsMade'
    BY <1>0, <2>1, ConnectionsTyped DEF TypeOK, ClientIsMade, PauseClient
  <2>. QED  BY <2>2, <2>3, <2>4, <2>5, <2>6
<1>. QED  BY <1>1, <1>2

(* A direction that is to be unthrottled is throttled, on a connection that *)
(* has been made.                                                           *)
LEMMA UnthrottledIsThrottled ==
  ASSUME IndInv, NEW d \in Directions, unthrottle_calls[d] > 0
  PROVE  /\ d \in throttling /\ unthrottleID[d] = "active"
         /\ unthrottle_calls[d] = 1
         /\ client \in Connections
  BY DEF IndInv, TypeOK, NoStrayCalls, PendingMeansThrottled, ClientIsMade

LEMMA UnthrottleKeeps ==
  ASSUME IndInv, NEW d \in Directions, NEW n \in Nat, Unthrottle(d, n)
  PROVE  IndInv'
<1>. USE DEF IndInv
<1>1. /\ d \in throttling /\ unthrottleID[d] = "active"
      /\ unthrottle_calls[d] = 1 /\ client \in Connections
  BY UnthrottledIsThrottled DEF Unthrottle
<1>2. /\ UNCHANGED <<throttling_enabled, limit, resetID, reset_calls, client,
                     conn>>
      /\ Count(n) /\ ResumeClient({d}) /\ WritesOnResume({d}, n)
  BY DEF Unthrottle
<1>3. thisSecond' \in [Directions -> Nat]
  BY <1>2 DEF Count, TypeOK
<1>4. reading' \in [Connections -> {"on", "paused"}]
  BY <1>2 DEF ResumeClient, TypeOK
<1>5. CASE ThrottlesAgain(n)
  <2>1. /\ UNCHANGED <<throttling, unthrottleID, unthrottle_calls>>
        /\ d = "write" /\ UNCHANGED reading
    <3>1. d = "write"
      BY <1>2, <1>5 DEF WritesOnResume, ThrottlesAgain
    <3>2. UNCHANGED reading
      BY <1>2, <3>1 DEF ResumeClient
    <3>3. /\ UNCHANGED <<throttling, unthrottle_calls>>
          /\ unthrottleID' = [unthrottleID EXCEPT ![d] = "active"]
      BY <1>5 DEF Unthrottle
    <3>4. UNCHANGED unthrottleID
      BY <1>1, <3>3 DEF TypeOK
    <3>. QED  BY <3>1, <3>2, <3>3, <3>4
  <2>. QED
    BY <1>2, <1>3, <2>1 DEF TypeOK, NoStrayCalls, ThrottledIsResumed,
       MonitoredOpen, ReadsPausedIffThrottled, PendingMeansThrottled,
       ClientIsMade
<1>6. CASE ~ThrottlesAgain(n)
  <2>1. /\ unthrottleID' = [unthrottleID EXCEPT ![d] = "none"]
        /\ unthrottle_calls' = [unthrottle_calls EXCEPT ![d] = @ - 1]
        /\ throttling' = throttling \ {d}
    BY <1>6 DEF Unthrottle
  <2>2. TypeOK'
    BY <1>1, <1>2, <1>3, <1>4, <2>1 DEF TypeOK
  <2>3. NoStrayCalls'
    BY <1>1, <1>2, <2>1 DEF TypeOK, NoStrayCalls
  <2>4. ThrottledIsResumed' /\ PendingMeansThrottled'
    BY <1>1, <1>2, <2>1 DEF TypeOK, ThrottledIsResumed, MonitoredOpen,
       PendingMeansThrottled
  <2>5. ReadsPausedIffThrottled'
    BY <1>1, <1>2, <2>1 DEF TypeOK, ReadsPausedIffThrottled, ResumeClient
  <2>6. ClientIsMade'
    BY <1>1, <1>2, <2>1, ConnectionsTyped
    DEF TypeOK, ClientIsMade, ResumeClient
  <2>. QED  BY <2>2, <2>3, <2>4, <2>5, <2>6
<1>. QED  BY <1>5, <1>6

LEMMA ResetKeeps ==
  ASSUME IndInv, NEW d \in Directions, ResetThisSecond(d)
  PROVE  IndInv'
<1>. USE DEF IndInv
<1>1. resetID[d] = "active"
  BY DEF ResetThisSecond, NoStrayCalls, TypeOK
<1>2. UNCHANGED resetID
  BY <1>1 DEF ResetThisSecond, TypeOK
<1>. QED
  BY <1>2 DEF ResetThisSecond, calls, TypeOK, NoStrayCalls, ThrottledIsResumed,
     MonitoredOpen, ReadsPausedIffThrottled, PendingMeansThrottled, ClientIsMade

(* Starting and stopping the reset loops. *)
LEMMA LoopsKept ==
  ASSUME IndInv, StartLoops \/ StopLoops
  PROVE  /\ resetID' \in [Directions -> DelayedCall]
         /\ reset_calls' \in [Directions -> Nat]
         /\ \A d \in Directions :
              reset_calls'[d] = IF resetID'[d] = "active" THEN 1 ELSE 0
<1>. USE DEF IndInv
<1>1. CASE StartLoops
  BY <1>1 DEF StartLoops, LoopMissing, TypeOK, NoStrayCalls
<1>2. CASE StopLoops
  BY <1>2 DEF StopLoops, Cancelled, Remaining, TypeOK, NoStrayCalls
<1>. QED  BY <1>1, <1>2

LEMMA EnableKeeps ==
  ASSUME IndInv, enable_throttling
  PROVE  IndInv'
<1>. USE DEF IndInv
<1>1. /\ StartLoops /\ throttling_enabled' = "yes"
      /\ UNCHANGED <<limit, throttling, unthrottleID, unthrottle_calls, client,
                     conn, reading>>
  BY DEF enable_throttling
<1>2. thisSecond' \in [Directions -> Nat]
  BY <1>1 DEF StartLoops, TypeOK
<1>. QED
  BY <1>1, <1>2, LoopsKept DEF TypeOK, NoStrayCalls, ThrottledIsResumed,
     MonitoredOpen, ReadsPausedIffThrottled, PendingMeansThrottled, ClientIsMade

LEMMA DisableKeeps ==
  ASSUME IndInv, NEW n \in Nat, disable_throttling(n)
  PROVE  IndInv'
<1>. USE DEF IndInv
<1>. DEFINE again == ThrottlesAgain(n)
<1>1. /\ WritesOnResume(throttling, n) /\ StopLoops /\ Count(n)
      /\ ResumeClient(throttling)
      /\ throttling' = IF again THEN {"write"} ELSE {}
      /\ unthrottleID' = [d \in Directions |->
                            IF d \in throttling' THEN "active"
                            ELSE IF d \in throttling
                            THEN "none" ELSE Cancelled(unthrottleID[d])]
      /\ unthrottle_calls' = [d \in Directions |->
                                IF d \in throttling' THEN unthrottle_calls[d]
                                ELSE Remaining(unthrottleID[d], unthrottle_calls[d])]
      /\ throttling_enabled' = "no"
      /\ UNCHANGED <<limit, client, conn>>
  BY DEF disable_throttling
<1>2. again => /\ "write" \in throttling /\ unthrottleID["write"] = "active"
               /\ client # None
  BY <1>1 DEF WritesOnResume, ThrottlesAgain, ThrottledIsResumed, MonitoredOpen
<1>. HIDE DEF again
<1>3. thisSecond' \in [Directions -> Nat]
  BY <1>1 DEF Count, TypeOK
<1>4. throttling # {} => client \in Connections
  BY DEF ClientIsMade, TypeOK
<1>5. reading' \in [Connections -> {"on", "paused"}]
  BY <1>1, <1>4 DEF ResumeClient, TypeOK
<1>6. \A d \in Directions : unthrottleID'[d] = "active" <=> d \in throttling'
  BY <1>1, <1>2 DEF Cancelled, TypeOK
<1>7. TypeOK'
  BY <1>1, <1>2, <1>3, <1>5, LoopsKept DEF TypeOK, Cancelled, Remaining,
     NoStrayCalls
<1>8. NoStrayCalls'
  BY <1>1, <1>2, LoopsKept DEF TypeOK, NoStrayCalls, Cancelled, Remaining
<1>9. ThrottledIsResumed' /\ PendingMeansThrottled'
  BY <1>6 DEF ThrottledIsResumed, PendingMeansThrottled
<1>10. ReadsPausedIffThrottled'
  BY <1>1, <1>4 DEF TypeOK, ReadsPausedIffThrottled, ResumeClient
<1>11. ClientIsMade'
  BY <1>1, <1>2, <1>4, <1>5, ConnectionsTyped
  DEF TypeOK, ClientIsMade, ResumeClient
<1>. QED  BY <1>7, <1>8, <1>9, <1>10, <1>11

LEMMA ConnectKeeps ==
  ASSUME IndInv, NEW c \in Connections, connectionMade(c)
  PROVE  IndInv'
<1>. USE DEF IndInv
<1>1. /\ conn[c] = "new" /\ reading[c] = "on" /\ client # c
      /\ conn' = [conn EXCEPT ![c] = "open"]
      /\ client' = IF client = None THEN c ELSE client
      /\ UNCHANGED <<throttling_enabled, limit, throttling, unthrottleID,
                     unthrottle_calls, reading>>
      /\ StartLoops \/ UNCHANGED <<thisSecond, resetID, reset_calls>>
  BY ConnectionsTyped DEF connectionMade, ClientIsMade
<1>2. thisSecond' \in [Directions -> Nat]
  BY <1>1 DEF StartLoops, TypeOK
<1>3. /\ resetID' \in [Directions -> DelayedCall]
      /\ reset_calls' \in [Directions -> Nat]
      /\ \A d \in Directions :
           reset_calls'[d] = IF resetID'[d] = "active" THEN 1 ELSE 0
  BY <1>1, LoopsKept DEF TypeOK, NoStrayCalls
<1>4. TypeOK'
  BY <1>1, <1>2, <1>3 DEF TypeOK
<1>5. NoStrayCalls'
  BY <1>1, <1>3 DEF NoStrayCalls
<1>6. ThrottledIsResumed' /\ PendingMeansThrottled'
  <2>1. CASE client = None
    <3>1. throttling = {}
      BY <2>1 DEF ClientIsMade
    <3>. QED
      BY <1>1, <3>1 DEF ThrottledIsResumed, PendingMeansThrottled
  <2>2. CASE client # None
    BY <1>1, <2>2 DEF ThrottledIsResumed, MonitoredOpen, PendingMeansThrottled,
       TypeOK
  <2>. QED  BY <2>1, <2>2
<1>7. ReadsPausedIffThrottled'
  BY <1>1 DEF TypeOK, ReadsPausedIffThrottled, ClientIsMade
<1>8. ClientIsMade'
  BY <1>1, ConnectionsTyped DEF TypeOK, ClientIsMade
<1>. QED  BY <1>4, <1>5, <1>6, <1>7, <1>8

LEMMA LoseKeeps ==
  ASSUME IndInv, NEW c \in Connections, NEW n \in Nat, connectionLost(c, n)
  PROVE  IndInv'
<1>. USE DEF IndInv
<1>1. /\ conn[c] = "open" /\ conn' = [conn EXCEPT ![c] = "lost"]
      /\ UNCHANGED <<throttling_enabled, limit, client, reading>>
  BY DEF connectionLost
<1>2. CASE client = c
  <2>. DEFINE again == /\ throttling_enabled = "yes" /\ n > 0
                       /\ ShouldCheck("write", thisSecond["write"] + n)
  <2>1. /\ StopLoops /\ Count(n)
        /\ throttling' = IF again THEN throttling \cup {"write"} ELSE throttling
        /\ unthrottleID' = [d \in Directions |->
                              IF again /\ d = "write" THEN "active"
                              ELSE Cancelled(unthrottleID[d])]
        /\ unthrottle_calls' = [d \in Directions |->
                                  IF again /\ d = "write" THEN unthrottle_calls[d] + 1
                                  ELSE Remaining(unthrottleID[d], unthrottle_calls[d])]
    BY <1>2 DEF connectionLost, unregisterProtocol
  <2>2. again => unthrottleID["write"] = "none"
    BY DEF ShouldCheck
  <2>. HIDE DEF again
  <2>3. thisSecond' \in [Directions -> Nat]
    BY <2>1 DEF Count, TypeOK
  <2>4. TypeOK'
    BY <1>1, <2>1, <2>2, <2>3, LoopsKept DEF TypeOK, Cancelled, Remaining,
       NoStrayCalls
  <2>5. NoStrayCalls'
    BY <2>1, <2>2, LoopsKept DEF TypeOK, NoStrayCalls, Cancelled, Remaining
  <2>6. ThrottledIsResumed' /\ ReadsPausedIffThrottled'
    BY <1>1, <1>2 DEF ThrottledIsResumed, MonitoredOpen,
       ReadsPausedIffThrottled, TypeOK
  <2>7. PendingMeansThrottled'
    BY <2>1 DEF PendingMeansThrottled, Cancelled, TypeOK
  <2>8. ClientIsMade'
    BY <1>1, <1>2, ConnectionsTyped DEF ClientIsMade, TypeOK
  <2>. QED  BY <2>4, <2>5, <2>6, <2>7, <2>8
<1>3. CASE client # c
  <2>1. UNCHANGED <<thisSecond, throttling, unthrottleID, resetID,
                    unthrottle_calls, reset_calls>>
    BY <1>3 DEF connectionLost, ids, calls
  <2>2. TypeOK' /\ NoStrayCalls' /\ PendingMeansThrottled'
    BY <1>1, <2>1 DEF TypeOK, NoStrayCalls, PendingMeansThrottled
  <2>3. ThrottledIsResumed'
    BY <1>1, <1>3, <2>1 DEF ThrottledIsResumed, MonitoredOpen, TypeOK
  <2>4. ReadsPausedIffThrottled'
    BY <1>1, <2>1 DEF ReadsPausedIffThrottled, TypeOK
  <2>5. ClientIsMade'
    BY <1>1, <2>1, ConnectionsTyped DEF ClientIsMade, TypeOK
  <2>. QED  BY <2>2, <2>3, <2>4, <2>5
<1>. QED  BY <1>2, <1>3

LEMMA StutterKeeps ==
  ASSUME IndInv,
         UNCHANGED <<throttling_enabled, thisSecond, throttling, ids, calls,
                     client, conn, reading>>,
         limit' \in [Directions -> Limits \cup {None}]
  PROVE  IndInv'
  BY DEF ids, calls, IndInv, TypeOK, NoStrayCalls, ThrottledIsResumed,
     MonitoredOpen, ReadsPausedIffThrottled, PendingMeansThrottled, ClientIsMade

-----------------------------------------------------------------------------
(* The flags, the delayed calls and the transport stay in step. *)
THEOREM FactoryCorrect == Spec => []IndInv
<1>1. IndInv /\ [Next]_vars => IndInv'
  <2>. SUFFICES ASSUME IndInv, [Next]_vars
                PROVE  IndInv'
    OBVIOUS
  <2>1. ASSUME NEW c \in Connections, NEW n \in 1 .. MaxChunk,
               dataReceived(c, n) \/ write(c, n)
        PROVE  IndInv'
    <3>1. n \in Nat
      BY SizesAssumption
    <3>2. CASE dataReceived(c, n)
      BY <3>1, <3>2, RegisterKeeps DEF dataReceived
    <3>3. CASE write(c, n)
      BY <3>1, <3>3, RegisterKeeps DEF write
    <3>. QED  BY <2>1, <3>2, <3>3
  <2>2. ASSUME NEW d \in Directions, NEW n \in 0 .. MaxChunk, Unthrottle(d, n)
        PROVE  IndInv'
    BY <2>2, UnthrottleKeeps, ConnectionsTyped
  <2>3. ASSUME NEW d \in Directions, ResetThisSecond(d)
        PROVE  IndInv'
    BY <2>3, ResetKeeps
  <2>4. ASSUME NEW d \in Directions, NEW l \in Limits \cup {None},
               _set_limit(d, l)
        PROVE  IndInv'
    <3>1. limit' \in [Directions -> Limits \cup {None}]
      BY <2>4 DEF _set_limit, IndInv, TypeOK
    <3>. QED
      BY <2>4, <3>1, StutterKeeps DEF _set_limit
  <2>5. CASE enable_throttling
    BY <2>5, EnableKeeps
  <2>6. ASSUME NEW n \in 0 .. MaxChunk, disable_throttling(n)
        PROVE  IndInv'
    BY <2>6, DisableKeeps, ConnectionsTyped
  <2>7. ASSUME NEW c \in Connections, connectionMade(c)
        PROVE  IndInv'
    BY <2>7, ConnectKeeps
  <2>8. ASSUME NEW c \in Connections, NEW n \in 0 .. MaxChunk,
               connectionLost(c, n)
        PROVE  IndInv'
    BY <2>8, LoseKeeps, ConnectionsTyped
  <2>9. CASE UNCHANGED vars
    <3>1. limit' \in [Directions -> Limits \cup {None}]
      BY <2>9 DEF vars, IndInv, TypeOK
    <3>. QED
      BY <2>9, <3>1, StutterKeeps DEF vars
  <2>. QED
    BY <2>1, <2>2, <2>3, <2>4, <2>5, <2>6, <2>7, <2>8, <2>9 DEF Next
<1>. QED  BY <1>1, InitHolds, PTL DEF Spec

(* No delayed call is lost track of, and none is doubled. *)
THEOREM NoCallIsStray == Spec => []NoStrayCalls
<1>1. IndInv => NoStrayCalls
  BY DEF IndInv
<1>. QED  BY <1>1, FactoryCorrect, PTL

(* A throttled live connection has a pending call that resumes it. *)
THEOREM ThrottlingEnds == Spec => []ThrottledIsResumed
<1>1. IndInv => ThrottledIsResumed
  BY DEF IndInv
<1>. QED  BY <1>1, FactoryCorrect, PTL

(* A live transport is paused exactly while its reads are throttled. *)
THEOREM PausedMeansThrottled == Spec => []ReadsPausedIffThrottled
<1>1. IndInv => ReadsPausedIffThrottled
  BY DEF IndInv
<1>. QED  BY <1>1, FactoryCorrect, PTL

(* The variables have their types. *)
THEOREM TypeCorrect == Spec => []TypeOK
<1>1. IndInv => TypeOK
  BY DEF IndInv
<1>. QED  BY <1>1, FactoryCorrect, PTL
=============================================================================
