----------------------------- MODULE Throttling -----------------------------
(* ThrottlingStorageClientFactory and the connections it builds: counting   *)
(* the bytes of a second, pausing a connection at the limit, and the        *)
(* delayed calls that resume it and that reset the counters.                *)
(*                                                                          *)
(* Time is abstracted: a delayed call the reactor holds may run at any      *)
(* moment.  Connections follow one another, none begins before the one      *)
(* before it is lost.                                                       *)

EXTENDS Integers

CONSTANTS
  NConnections,   \* how many connections the factory builds
  Limits,         \* the limits that are set, besides None
  MaxChunk,       \* bytes of one read or write
  MaxBytes,       \* bound: bytes a counter reaches
  TogglesAtRuntime \* are enable_throttling and disable_throttling called

Directions == {"read", "write"}
Connections == 1 .. NConnections
None == 0

ASSUME LimitsAssumption == Limits \subseteq Nat \ {0}
ASSUME SizesAssumption ==
  /\ NConnections \in Nat /\ MaxChunk \in Nat /\ MaxBytes \in Nat
  /\ TogglesAtRuntime \in BOOLEAN

VARIABLES
  throttling_enabled,   \* "yes" or "no"
  limit,                \* readLimit and writeLimit
  thisSecond,           \* readThisSecond and writtenThisSecond
  throttling,           \* the directions whose _throttling_ flag is set
  unthrottleID,         \* the delayed call each ...ID attribute holds
  resetID,
  unthrottle_calls,     \* how many such calls the reactor has pending
  reset_calls,
  client,               \* the connection the factory monitors, or None
  conn,                 \* "new", "open" or "lost"
  reading               \* "on", or "paused" by transport.pauseProducing

ids == <<unthrottleID, resetID>>
calls == <<unthrottle_calls, reset_calls>>
vars == <<throttling_enabled, limit, thisSecond, throttling, ids, calls,
          client, conn, reading>>

-----------------------------------------------------------------------------
(* Delayed calls.  An ID holds None, a pending call, or a cancelled one.    *)

DelayedCall == {"none", "active", "cancelled"}

Cancelled(id) == IF id = "active" THEN "cancelled" ELSE id

(* Mutant: cancels a call whether it is pending or not. *)
Remaining_Always(id, n) == n - 1
Remaining(id, n) == IF id = "active" THEN n - 1 ELSE n

(* Mutant: as if cancelling an ID also cleared it, and an ID that is set    *)
(* did not mean that its loop runs.                                         *)
LoopMissing_Always(id) == TRUE
LoopMissing(id) == id = "none"

(* _resetReadThisSecond and _resetWrittenThisSecond, for the loops that     *)
(* enable_throttling finds not started.                                     *)
StartLoops ==
  LET missing == {d \in Directions : LoopMissing(resetID[d])}
  IN /\ thisSecond' = [d \in Directions |->
                         IF d \in missing THEN 0 ELSE thisSecond[d]]
     /\ resetID' = [d \in Directions |->
                      IF d \in missing THEN "active" ELSE resetID[d]]
     /\ reset_calls' = [d \in Directions |->
                          IF d \in missing THEN reset_calls[d] + 1
                          ELSE reset_calls[d]]

StopLoops ==
  /\ resetID' = [d \in Directions |-> Cancelled(resetID[d])]
  /\ reset_calls' = [d \in Directions |-> Remaining(resetID[d], reset_calls[d])]

(* A factory is built with throttling enabled or not; if it is, with the    *)
(* loops running.                                                           *)
Init ==
  /\ throttling_enabled \in {"yes", "no"}
  /\ limit \in [Directions -> Limits \cup {None}]
  /\ thisSecond = [d \in Directions |-> 0]
  /\ throttling = {}
  /\ unthrottleID = [d \in Directions |-> "none"]
  /\ unthrottle_calls = [d \in Directions |-> 0]
  /\ resetID = [d \in Directions |->
                  IF throttling_enabled = "yes" THEN "active" ELSE "none"]
  /\ reset_calls = [d \in Directions |->
                      IF throttling_enabled = "yes" THEN 1 ELSE 0]
  /\ client = None
  /\ conn = [c \in Connections |-> "new"]
  /\ reading = [c \in Connections |-> "on"]

-----------------------------------------------------------------------------
(* Counting and throttling *)

(* checkReadBandwidth, checkWriteBandwidth: is the limit reached. *)
Reached(d, bytes) == limit[d] # None /\ bytes >= limit[d]

(* client.throttleReads pauses the transport, client.throttleWrites the     *)
(* producers of the uploads.                                                *)
PauseClient(d) ==
  reading' = IF d = "read" THEN [reading EXCEPT ![client] = "paused"]
             ELSE reading

ShouldCheck(d, bytes) == Reached(d, bytes) /\ unthrottleID[d] = "none"

(* registerRead, registerWritten.  A throttle time of 0 is a call like any  *)
(* other.                                                                   *)
register(d, n) ==
  LET bytes == thisSecond[d] + n
  IN IF throttling_enabled = "no"
     THEN UNCHANGED <<thisSecond, throttling, unthrottleID, unthrottle_calls,
                      reading>>
     ELSE /\ bytes <= MaxBytes
          /\ thisSecond' = [thisSecond EXCEPT ![d] = bytes]
          /\ IF ShouldCheck(d, bytes)
             THEN /\ throttling' = throttling \cup {d}
                  /\ PauseClient(d)
                  /\ unthrottleID' = [unthrottleID EXCEPT ![d] = "active"]
                  /\ unthrottle_calls' = [unthrottle_calls EXCEPT ![d] = @ + 1]
             ELSE UNCHANGED <<throttling, reading, unthrottleID,
                              unthrottle_calls>>

(* ThrottlingStorageClient.dataReceived and write.  Only the connection     *)
(* that is factory.client is counted.                                       *)
Transfers(c, d, n) ==
  /\ IF client = c THEN register(d, n)
     ELSE UNCHANGED <<thisSecond, throttling, unthrottleID, unthrottle_calls,
                      reading>>
  /\ UNCHANGED <<throttling_enabled, limit, resetID, reset_calls, client, conn>>

dataReceived(c, n) ==
  /\ conn[c] = "open" /\ reading[c] = "on"
  /\ Transfers(c, "read", n)

write(c, n) ==
  /\ conn[c] = "open"
  /\ Transfers(c, "write", n)

-----------------------------------------------------------------------------
(* Unthrottling *)

(* client.unthrottleReads *)
ResumeClient(ds) ==
  reading' = IF "read" \in ds THEN [reading EXCEPT ![client] = "on"]
             ELSE reading

(* client.unthrottleWrites resumes the producers, and an upload's producer  *)
(* writes its next message before resumeProducing returns: n bytes.  They   *)
(* are counted like any others, while the unthrottling is under way.        *)
WritesOnResume(ds, n) ==
  IF "write" \in ds /\ client # None /\ conn[client] = "open"
  THEN n \in 0 .. MaxChunk /\ thisSecond["write"] + n <= MaxBytes
  ELSE n = 0

ThrottlesAgain(n) ==
  n > 0 /\ throttling_enabled = "yes" /\ Reached("write", thisSecond["write"] + n)

Count(n) ==
  thisSecond' = IF throttling_enabled = "yes"
                THEN [thisSecond EXCEPT !["write"] = @ + n] ELSE thisSecond

(* The call that unthrottles direction d runs. *)
Unthrottle(d, n) ==
  /\ unthrottle_calls[d] > 0
  /\ WritesOnResume({d}, n)
  /\ Count(n)
  /\ ResumeClient({d})
  /\ IF ThrottlesAgain(n)
     THEN /\ unthrottleID' = [unthrottleID EXCEPT ![d] = "active"]
          /\ UNCHANGED <<throttling, unthrottle_calls>>
     ELSE /\ unthrottleID' = [unthrottleID EXCEPT ![d] = "none"]
          /\ unthrottle_calls' = [unthrottle_calls EXCEPT ![d] = @ - 1]
          /\ throttling' = throttling \ {d}
  /\ UNCHANGED <<throttling_enabled, limit, resetID, reset_calls, client, conn>>


(* _resetReadThisSecond or _resetWrittenThisSecond runs and calls itself    *)
(* again a second later.                                                    *)
ResetThisSecond(d) ==
  /\ reset_calls[d] > 0
  /\ thisSecond' = [thisSecond EXCEPT ![d] = 0]
  /\ resetID' = [resetID EXCEPT ![d] = "active"]
  /\ UNCHANGED <<throttling_enabled, limit, throttling, unthrottleID, calls,
                 client, conn, reading>>

-----------------------------------------------------------------------------
(* Setting limits, enabling and disabling *)

_set_limit(d, l) ==
  /\ limit[d] # l
  /\ limit' = [limit EXCEPT ![d] = l]
  /\ UNCHANGED <<throttling_enabled, thisSecond, throttling, ids, calls,
                 client, conn, reading>>

enable_throttling ==
  /\ TogglesAtRuntime
  /\ StartLoops
  /\ throttling_enabled' = "yes"
  /\ UNCHANGED <<limit, throttling, unthrottleID, unthrottle_calls, client,
                 conn, reading>>

(* Mutant: cancels the calls that would unthrottle, and leaves it at that. *)
disable_throttling_Paused(n) ==
  /\ TogglesAtRuntime /\ n = 0
  /\ StopLoops
  /\ unthrottleID' = [d \in Directions |-> Cancelled(unthrottleID[d])]
  /\ unthrottle_calls' = [d \in Directions |->
                            Remaining(unthrottleID[d], unthrottle_calls[d])]
  /\ throttling_enabled' = "no"
  /\ UNCHANGED <<limit, thisSecond, throttling, client, conn, reading>>

(* The calls are cancelled, then what is throttled is unthrottled, and last *)
(* of all the flag is cleared: a write in between may throttle again.       *)
disable_throttling(n) ==
  /\ TogglesAtRuntime
  /\ WritesOnResume(throttling, n)
  /\ StopLoops
  /\ Count(n)
  /\ ResumeClient(throttling)
  /\ throttling' = IF ThrottlesAgain(n) THEN {"write"} ELSE {}
  /\ unthrottleID' = [d \in Directions |->
                        IF d \in throttling'
                        THEN "active"
                        ELSE IF d \in throttling
                        THEN "none" ELSE Cancelled(unthrottleID[d])]
  /\ unthrottle_calls' = [d \in Directions |->
                            IF d \in throttling' THEN unthrottle_calls[d]
                            ELSE Remaining(unthrottleID[d], unthrottle_calls[d])]
  /\ throttling_enabled' = "no"
  /\ UNCHANGED <<limit, client, conn>>

-----------------------------------------------------------------------------
(* Connections *)

(* Mutant: the factory monitors the latest connection. *)
connectionMade_Latest(c) ==
  /\ conn[c] = "new"
  /\ \A b \in Connections : IF b < c THEN conn[b] = "lost" ELSE conn[b] = "new"
  /\ conn' = [conn EXCEPT ![c] = "open"]
  /\ client' = c
  /\ IF throttling_enabled = "yes" THEN StartLoops
     ELSE UNCHANGED <<thisSecond, resetID, reset_calls>>
  /\ UNCHANGED <<throttling_enabled, limit, throttling, unthrottleID,
                 unthrottle_calls, reading>>

(* buildProtocol, and connectionMade right after it. *)
connectionMade(c) ==
  /\ conn[c] = "new"
  /\ \A b \in Connections : IF b < c THEN conn[b] = "lost" ELSE conn[b] = "new"
  /\ conn' = [conn EXCEPT ![c] = "open"]
  /\ client' = IF client = None THEN c ELSE client
  /\ IF throttling_enabled = "yes" THEN StartLoops
     ELSE UNCHANGED <<thisSecond, resetID, reset_calls>>
  /\ UNCHANGED <<throttling_enabled, limit, throttling, unthrottleID,
                 unthrottle_calls, reading>>

(* unregisterProtocol cancels the four calls; StorageClient.connectionLost  *)
(* then cancels the requests under way, which write n bytes.                *)
unregisterProtocol(n) ==
  LET again == /\ throttling_enabled = "yes" /\ n > 0
               /\ ShouldCheck("write", thisSecond["write"] + n)
  IN /\ StopLoops
     /\ n \in 0 .. MaxChunk /\ thisSecond["write"] + n <= MaxBytes
     /\ Count(n)
     /\ throttling' = IF again THEN throttling \cup {"write"} ELSE throttling
     /\ unthrottleID' = [d \in Directions |->
                           IF again /\ d = "write" THEN "active"
                           ELSE Cancelled(unthrottleID[d])]
     /\ unthrottle_calls' = [d \in Directions |->
                               IF again /\ d = "write" THEN unthrottle_calls[d] + 1
                               ELSE Remaining(unthrottleID[d], unthrottle_calls[d])]

connectionLost(c, n) ==
  /\ conn[c] = "open"
  /\ conn' = [conn EXCEPT ![c] = "lost"]
  /\ IF client = c THEN unregisterProtocol(n)
     ELSE /\ n = 0
          /\ UNCHANGED <<thisSecond, throttling, ids, calls>>
  /\ UNCHANGED <<throttling_enabled, limit, client, reading>>

-----------------------------------------------------------------------------
Next ==
  \/ \E c \in Connections, n \in 1 .. MaxChunk : dataReceived(c, n)
  \/ \E c \in Connections, n \in 1 .. MaxChunk : write(c, n)
  \/ \E d \in Directions, n \in 0 .. MaxChunk : Unthrottle(d, n)
  \/ \E d \in Directions : ResetThisSecond(d)
  \/ \E d \in Directions, l \in Limits \cup {None} : _set_limit(d, l)
  \/ enable_throttling
  \/ \E n \in 0 .. MaxChunk : disable_throttling(n)
  \/ \E c \in Connections : connectionMade(c)
  \/ \E c \in Connections, n \in 0 .. MaxChunk : connectionLost(c, n)

Spec == Init /\ [][Next]_vars

(* The reactor runs a delayed call when its time has come. *)
FairSpec ==
  /\ Spec
  /\ \A d \in Directions : WF_vars(\E n \in 0 .. MaxChunk : Unthrottle(d, n))
  /\ \A d \in Directions : WF_vars(ResetThisSecond(d))

-----------------------------------------------------------------------------
(* Properties *)

TypeOK ==
  /\ throttling_enabled \in {"yes", "no"}
  /\ limit \in [Directions -> Limits \cup {None}]
  /\ thisSecond \in [Directions -> Nat]
  /\ throttling \subseteq Directions
  /\ unthrottleID \in [Directions -> DelayedCall]
  /\ resetID \in [Directions -> DelayedCall]
  /\ unthrottle_calls \in [Directions -> Nat]
  /\ reset_calls \in [Directions -> Nat]
  /\ client \in Connections \cup {None}
  /\ conn \in [Connections -> {"new", "open", "lost"}]
  /\ reading \in [Connections -> {"on", "paused"}]

(* The reactor never holds a delayed call that the factory has lost track   *)
(* of: each pending call is the one its ID attribute names, so that it can  *)
(* be cancelled, and there are never two for one purpose.  enable_throttling*)
(* is called by the constructor, by each buildProtocol and by the user.     *)
NoStrayCalls ==
  \A d \in Directions :
    /\ unthrottle_calls[d] = IF unthrottleID[d] = "active" THEN 1 ELSE 0
    /\ reset_calls[d] = IF resetID[d] = "active" THEN 1 ELSE 0

MonitoredOpen == client # None /\ conn[client] = "open"

(* A live connection that is throttled has a pending call that resumes it,  *)
(* whatever limits are changed and whenever throttling is switched off or   *)
(* on; and there is such a call only while it is throttled.                 *)
ThrottledIsResumed ==
  MonitoredOpen =>
    \A d \in Directions : d \in throttling <=> unthrottleID[d] = "active"

(* The transport of a live connection is paused exactly while the factory   *)
(* has the reads throttled: what pauses it and the flag do not come apart,  *)
(* and a connection that is not monitored is never paused.                  *)
ReadsPausedIffThrottled ==
  \A c \in Connections :
    conn[c] = "open" =>
      (reading[c] = "paused" <=> client = c /\ "read" \in throttling)

(* A paused connection reads on in the end. *)
ReadsResume ==
  \A c \in Connections :
    conn[c] = "open" /\ reading[c] = "paused"
      ~> reading[c] = "on" \/ conn[c] = "lost"

(* What makes them inductive: only what is throttled has a pending call to  *)
(* unthrottle it, only the monitored connection can be throttled, and it    *)
(* has been made.                                                           *)
PendingMeansThrottled ==
  \A d \in Directions : unthrottleID[d] = "active" => d \in throttling

ClientIsMade ==
  /\ throttling # {} => client # None
  /\ client # None => conn[client] # "new"
  /\ client = None => \A c \in Connections : conn[c] = "new"
  /\ \A c \in Connections : conn[c] = "new" => reading[c] = "on"

IndInv ==
  /\ TypeOK
  /\ NoStrayCalls
  /\ ThrottledIsResumed
  /\ ReadsPausedIffThrottled
  /\ PendingMeansThrottled
  /\ ClientIsMade

(* "Enable throttling and start the counter reset loops": with throttling   *)
(* enabled on an open connection both counters are reset every second.      *)
EnabledMeansResetting ==
  throttling_enabled = "yes" /\ (\E c \in Connections : conn[c] = "open") =>
    \A d \in Directions : reset_calls[d] > 0
=============================================================================
