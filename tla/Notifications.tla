---------------------------- MODULE Notifications ----------------------------
(* What StorageClient (client.py) does outside of its requests: the         *)
(* callbacks for what the server sends unasked, with the checks of          *)
(* validators.py before them and the conversions to the client's own        *)
(* objects, and the deferreds of get_root that wait for ROOT.               *)
(*                                                                          *)
(* Of a message its type matters and the value of one identifier in it that *)
(* is checked or converted: "uuid" for the text of a UUID, "root" for the   *)
(* empty string (request.ROOT), "unset" for a field that is not set, which  *)
(* reads as the empty string too, "other" for any other text.  A message    *)
(* with several identifiers has a type for each of them: the node (or       *)
(* subtree) of a VOLUME_CREATED, the share_id of its share and the volume   *)
(* of its UDF, and the second identifier of NODE_STATE and NOTIFY_SHARE.    *)

EXTENDS Integers, Sequences, FiniteSets

CONSTANTS
  Roots,          \* root ids a server may send
  MaxWaiters,     \* bound: calls of get_root
  MaxCallbacks    \* bound: callbacks that are set at a time

Waiters == 1 .. MaxWaiters

VARIABLES
  client,         \* "none", then "made", then "lost"
  dropped,        \* why it was lost: "no", "network", "callback", ...
  dropper,        \* history: the message it was lost over
  callbacks,      \* the types whose callback is set
  root_id,        \* "none" or a root
  root_id_defers, \* the waiters whose deferred get_root has kept
  firing,         \* those the loop of handle_ROOT has still to call
  asked,          \* calls of get_root so far
  answer          \* what the deferred of each has fired with

rootVars == <<root_id, root_id_defers, firing, asked, answer>>
vars == <<client, dropped, dropper, callbacks, rootVars>>

Push(t, v) == [type |-> t, value |-> v]
NoPush == Push("NONE", "root")
Values == {"uuid", "root", "unset", "other"}

Created == {"VOLUME_CREATED_NODE", "VOLUME_CREATED_SHARE", "VOLUME_CREATED_UDF"}
SharePush == {"NOTIFY_SHARE", "SHARE_DELETED", "SHARE_ACCEPTED"}
VolumePush == Created \cup {"VOLUME_DELETED", "VOLUME_NEW_GENERATION"}
RawPush == {"NODE_STATE", "NODE_STATE_SHARE", "NOTIFY_SHARE_SUBTREE",
            "FREE_SPACE_INFO", "ACCOUNT_INFO"}
PushType == SharePush \cup VolumePush \cup RawPush

CallbackOf(t) ==
  CASE t \in Created               -> "VOLUME_CREATED"
    [] t = "NODE_STATE_SHARE"      -> "NODE_STATE"
    [] t = "NOTIFY_SHARE_SUBTREE"  -> "NOTIFY_SHARE"
    [] OTHER                       -> t
CallbackType == {CallbackOf(t) : t \in PushType}

Init ==
  /\ client = "none" /\ dropped = "no" /\ dropper = NoPush
  /\ callbacks = {}
  /\ root_id = "none" /\ root_id_defers = <<>> /\ firing = <<>>
  /\ asked = 0
  /\ answer = [w \in Waiters |-> "none"]

-----------------------------------------------------------------------------
(* validators.py.  The validator of a field is found by the field's name.   *)

is_valid_node(v) == v = "uuid"

(* Mutant: the root share is forgotten. *)
is_valid_share_NodeOnly(v) == is_valid_node(v)
is_valid_share(v) == v = "root" \/ is_valid_node(v)

(* node, subtree, share and share_id have one; volume has none, and neither *)
(* has anything in an ACCOUNT_INFO.                                         *)
SharesChecked ==
  SharePush \cup {"FREE_SPACE_INFO", "VOLUME_CREATED_SHARE", "NODE_STATE_SHARE"}
NodesChecked == {"NODE_STATE", "NOTIFY_SHARE_SUBTREE", "VOLUME_CREATED_NODE"}

(* ListFields leaves out a field that is not set. *)
validate_message(m) ==
  m.value # "unset" =>
    /\ m.type \in SharesChecked => is_valid_share(m.value)
    /\ m.type \in NodesChecked => is_valid_node(m.value)

-----------------------------------------------------------------------------
(* The conversions the handlers make once a callback is set: uuid.UUID of   *)
(* the identifier, in the handler or in the object made of the message.     *)

UUID(v) == v = "uuid"

converts_NEW_GENERATION(v) == v \in {"root", "unset"} \/ UUID(v)

Converts(m) ==
  CASE m.type \in RawPush -> TRUE
    [] m.type = "VOLUME_NEW_GENERATION" -> converts_NEW_GENERATION(m.value)
    [] OTHER -> UUID(m.value)

(* What protocol.proto lets the identifier be: shares, nodes and volumes    *)
(* have UUIDs, and the user's own root is the empty string, or not set,     *)
(* where a message can be about it.                                         *)
Conforming(m) ==
  \/ m.value = "uuid"
  \/ /\ m.value \in {"root", "unset"}
     /\ m.type \in {"FREE_SPACE_INFO", "ACCOUNT_INFO", "NODE_STATE_SHARE",
                    "VOLUME_NEW_GENERATION"}

-----------------------------------------------------------------------------
Idle == firing = <<>>

connectionMade ==
  /\ client = "none"
  /\ client' = "made"
  /\ UNCHANGED <<dropped, dropper, callbacks, rootVars>>

(* makeConnection raises, and the client is told of the loss at once. *)
connectionMadeRaises ==
  /\ client = "none"
  /\ client' = "lost"
  /\ dropped' = "callback"
  /\ UNCHANGED <<dropper, callbacks, rootVars>>

connectionLost(why) ==
  /\ Idle
  /\ client = "made"
  /\ client' = "lost"
  /\ dropped' = why
  /\ UNCHANGED <<callbacks, rootVars>>

(* User code runs in turns of its own, and in a callback of handle_ROOT's   *)
(* loop, so after a first deferred has been fired.                          *)
UserRuns == Idle \/ firing # root_id_defers

(* The set_..._callback methods; three of them take None. *)
SetCallback(t) ==
  /\ client # "none" /\ UserRuns
  /\ Cardinality(callbacks \cup {t}) <= MaxCallbacks
  /\ callbacks' = callbacks \cup {t}
  /\ UNCHANGED <<client, dropped, dropper, rootVars>>

UnsetCallback(t) ==
  /\ client # "none" /\ UserRuns
  /\ t \in RawPush /\ t \in callbacks
  /\ callbacks' = callbacks \ {t}
  /\ UNCHANGED <<client, dropped, dropper, rootVars>>

Receiving == client = "made" /\ Idle

(* A push that does no harm: nobody asked for it, or its callback ran.      *)
Notify(m) ==
  /\ Receiving
  /\ validate_message(m)
  /\ CallbackOf(m.type) \in callbacks => Converts(m)
  /\ UNCHANGED vars

(* What leaves dataReceived as an exception closes the connection: an       *)
(* invalid message, since the client has no log, ...                        *)
Invalid(m) ==
  /\ Receiving
  /\ ~validate_message(m)
  /\ connectionLost("invalid")
  /\ dropper' = m

(* ... a conversion that fails, ... *)
ConversionRaises(m) ==
  /\ Receiving
  /\ validate_message(m)
  /\ CallbackOf(m.type) \in callbacks /\ ~Converts(m)
  /\ connectionLost("conversion")
  /\ dropper' = m

(* ... or a callback that raises. *)
CallbackRaises(m) ==
  /\ Receiving
  /\ validate_message(m)
  /\ CallbackOf(m.type) \in callbacks /\ Converts(m)
  /\ connectionLost("callback")
  /\ dropper' = m

Drops(m) == Invalid(m) \/ ConversionRaises(m) \/ CallbackRaises(m)

-----------------------------------------------------------------------------
(* get_root and handle_ROOT *)

(* Mutant: every caller waits for the next ROOT. *)
get_root_Waits ==
  /\ client # "none" /\ UserRuns
  /\ asked < MaxWaiters
  /\ asked' = asked + 1
  /\ answer' = [answer EXCEPT ![asked + 1] = "waiting"]
  /\ root_id_defers' = Append(root_id_defers, asked + 1)
  /\ UNCHANGED <<client, dropped, dropper, callbacks, root_id, firing>>

get_root ==
  /\ client # "none" /\ UserRuns
  /\ asked < MaxWaiters
  /\ asked' = asked + 1
  /\ IF root_id # "none"
     THEN /\ answer' = [answer EXCEPT ![asked + 1] = root_id]
          /\ UNCHANGED root_id_defers
     ELSE /\ answer' = [answer EXCEPT ![asked + 1] = "waiting"]
          /\ root_id_defers' = Append(root_id_defers, asked + 1)
  /\ UNCHANGED <<client, dropped, dropper, callbacks, root_id, firing>>

(* The user cancels a deferred that waits: it fires at once, stays in the   *)
(* list, and ignores the callback that comes later.                         *)
CancelWait(w) ==
  /\ UserRuns
  /\ answer[w] = "waiting"
  /\ answer' = [answer EXCEPT ![w] = "cancelled"]
  /\ UNCHANGED <<client, dropped, dropper, callbacks, root_id,
                 root_id_defers, firing, asked>>

handle_ROOT(r) ==
  /\ Receiving
  /\ root_id' = r
  /\ firing' = root_id_defers
  /\ UNCHANGED <<client, dropped, dropper, callbacks, root_id_defers, asked,
                 answer>>

(* One turn of handle_ROOT's loop; after the last the list is replaced. *)
CallWaiter ==
  /\ firing # <<>>
  /\ LET w == Head(firing)
     IN answer' = IF answer[w] = "waiting"
                  THEN [answer EXCEPT ![w] = root_id] ELSE answer
  /\ firing' = Tail(firing)
  /\ root_id_defers' = IF Tail(firing) = <<>> THEN <<>> ELSE root_id_defers
  /\ UNCHANGED <<client, dropped, dropper, callbacks, root_id, asked>>

Next ==
  \/ connectionMade
  \/ connectionMadeRaises
  \/ connectionLost("network") /\ UNCHANGED dropper
  \/ \E t \in CallbackType : SetCallback(t) \/ UnsetCallback(t)
  \/ \E t \in PushType, v \in Values : LET m == Push(t, v) IN Notify(m) \/ Drops(m)
  \/ get_root
  \/ \E w \in Waiters : CancelWait(w)
  \/ \E r \in Roots : handle_ROOT(r)
  \/ CallWaiter

Spec == Init /\ [][Next]_vars
=============================================================================
