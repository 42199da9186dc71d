------------------------------ MODULE Requests ------------------------------
(* The request classes of request.py and client.py, reduced to what the     *)
(* request handler can tell apart: the message a request sends when it      *)
(* starts, the answers it keeps and goes on ("items"), the answers on which *)
(* it calls done ("ends"), and whether the class has a _cancel method that  *)
(* sends CANCEL_REQUEST.  Every other answer, ERROR and CANCELLED included, *)
(* makes the request call error.                                            *)

(* The message types in use; INVALID stands for any message that            *)
(* validators.py refuses.                                                   *)
MessageType ==
  {"NOOP", "ERROR", "OK", "PING", "PONG", "PROTOCOL_VERSION", "AUTH_REQUEST",
   "AUTH_AUTHENTICATED", "ROOT", "MAKE_DIR", "MAKE_FILE", "NEW_DIR",
   "NEW_FILE", "QUERY", "NODE_STATE", "QUERY_END", "GET_CONTENT",
   "PUT_CONTENT", "BEGIN_CONTENT", "BYTES", "EOF", "MOVE", "UNLINK",
   "CREATE_SHARE", "LIST_SHARES", "SHARES_INFO", "SHARES_END",
   "NOTIFY_SHARE", "SHARE_ACCEPTED", "SHARE_DELETED", "SHARE_CREATED",
   "DELETE_SHARE", "CREATE_UDF", "LIST_VOLUMES", "VOLUMES_INFO",
   "VOLUMES_END", "VOLUME_DELETED", "VOLUME_CREATED", "DELETE_VOLUME",
   "VOLUME_NEW_GENERATION", "CANCEL_REQUEST", "NODE_ATTR", "CANCELLED",
   "QUERY_CAPS", "SET_CAPS", "ACCEPT_CAPS", "FREE_SPACE_INFO",
   "FREE_SPACE_INQUIRY", "ACCOUNT_INFO", "ACCOUNT_INQUIRY", "GET_DELTA",
   "DELTA_INFO", "DELTA_END", "CHANGE_PUBLIC_ACCESS",
   "PUBLIC_FILE_INFO", "PUBLIC_FILE_INFO_END", "LIST_PUBLIC_FILES",
   "INVALID"}

Request(sends, items, ends) ==
  [sends |-> sends, items |-> items, ends |-> ends, cancels |-> FALSE]

CancellableRequest(sends, items, ends) ==
  [sends |-> sends, items |-> items, ends |-> ends, cancels |-> TRUE]

-----------------------------------------------------------------------------
(* request.py *)

Ping == Request("PING", {}, {"PONG"})
Noop == Request("NOOP", {}, {})

(* client.py: content *)

GetContent ==
  CancellableRequest("GET_CONTENT", {"NODE_ATTR", "BYTES"}, {"EOF", "OK"})
PutContent ==
  CancellableRequest("PUT_CONTENT", {"BEGIN_CONTENT"}, {"OK"})

(* client.py: shares and volumes *)

ListShares == Request("LIST_SHARES", {"SHARES_INFO"}, {"SHARES_END"})
(* Mutant: the answer of a version 1 server is forgotten. *)
CreateShare_Version2Only == Request("CREATE_SHARE", {}, {"SHARE_CREATED"})
CreateShare == Request("CREATE_SHARE", {}, {"SHARE_CREATED", "OK"})
AcceptShare == Request("SHARE_ACCEPTED", {}, {"OK"})
DeleteShare == Request("DELETE_SHARE", {}, {"OK"})
CreateUDF == Request("CREATE_UDF", {}, {"VOLUME_CREATED"})
ListVolumes == Request("LIST_VOLUMES", {"VOLUMES_INFO"}, {"VOLUMES_END"})
DeleteVolume == Request("DELETE_VOLUME", {}, {"OK"})

(* client.py: nodes *)

Unlink == Request("UNLINK", {}, {"OK"})
ChangePublicAccess == Request("CHANGE_PUBLIC_ACCESS", {}, {"OK"})
ListPublicFiles ==
  Request("LIST_PUBLIC_FILES", {"PUBLIC_FILE_INFO"}, {"PUBLIC_FILE_INFO_END"})
Move == Request("MOVE", {}, {"OK"})
Query == Request("QUERY", {"NODE_STATE"}, {"QUERY_END"})
MakeDir == Request("MAKE_DIR", {}, {"NEW_DIR"})
MakeFile == Request("MAKE_FILE", {}, {"NEW_FILE"})
GetDelta == Request("GET_DELTA", {"DELTA_INFO"}, {"DELTA_END"})

(* client.py: session and account *)

ProtocolVersion == Request("PROTOCOL_VERSION", {}, {"PROTOCOL_VERSION"})
Authenticate == Request("AUTH_REQUEST", {}, {"AUTH_AUTHENTICATED"})
QuerySetCaps == Request("QUERY_CAPS", {}, {"ACCEPT_CAPS"})
FreeSpaceInquiry == Request("FREE_SPACE_INQUIRY", {}, {"FREE_SPACE_INFO"})
AccountInquiry == Request("ACCOUNT_INQUIRY", {}, {"ACCOUNT_INFO"})

Class ==
  [Ping |-> Ping, Noop |-> Noop,
   GetContent |-> GetContent, PutContent |-> PutContent,
   ListShares |-> ListShares, CreateShare |-> CreateShare,
   AcceptShare |-> AcceptShare, DeleteShare |-> DeleteShare,
   CreateUDF |-> CreateUDF, ListVolumes |-> ListVolumes,
   DeleteVolume |-> DeleteVolume, Unlink |-> Unlink,
   ChangePublicAccess |-> ChangePublicAccess,
   ListPublicFiles |-> ListPublicFiles, Move |-> Move, Query |-> Query,
   MakeDir |-> MakeDir, MakeFile |-> MakeFile, GetDelta |-> GetDelta,
   ProtocolVersion |-> ProtocolVersion, Authenticate |-> Authenticate,
   QuerySetCaps |-> QuerySetCaps, FreeSpaceInquiry |-> FreeSpaceInquiry,
   AccountInquiry |-> AccountInquiry]

AllKinds == DOMAIN Class

(* _start of these two checks an argument after the request has been        *)
(* registered, and raises ValueError.                                       *)
ChecksArgumentInStart == {"CreateShare", "AcceptShare"}

-----------------------------------------------------------------------------
(* The message types that RequestHandler and StorageClient have a handle_   *)
(* method for; Silent are those whose method lets no exception out: it      *)
(* calls no code of the user, or (ROOT) calls it through a Deferred.        *)

(* Mutant: without handle_BEGIN_CONTENT. *)
Silent_WithoutBeginContent == {"PING", "NOOP", "ROOT"}
Silent == {"PING", "NOOP", "BEGIN_CONTENT", "ROOT"}

Handled == Silent \cup
  {"NODE_STATE", "NOTIFY_SHARE", "SHARE_DELETED", "SHARE_ACCEPTED",
   "VOLUME_CREATED", "VOLUME_DELETED", "VOLUME_NEW_GENERATION",
   "FREE_SPACE_INFO", "ACCOUNT_INFO"}

(* Everything a server may send unasked. *)
AllPushes == Handled \cup {"INVALID"}

-----------------------------------------------------------------------------
(* The answers a server gives, from the message types of protocol.proto and *)
(* their comments, written down independently of the classes above.         *)

ProtoItems(k) ==
  CASE k = "GetContent"      -> {"NODE_ATTR", "BYTES"}
    [] k = "PutContent"      -> {"BEGIN_CONTENT"}
    [] k = "Query"           -> {"NODE_STATE"}
    [] k = "ListShares"      -> {"SHARES_INFO"}
    [] k = "ListVolumes"     -> {"VOLUMES_INFO"}
    [] k = "GetDelta"        -> {"DELTA_INFO"}
    [] k = "ListPublicFiles" -> {"PUBLIC_FILE_INFO"}
    [] OTHER                 -> {}

ProtoEnds(k) ==
  CASE k = "Ping"             -> {"PONG"}
    [] k = "ProtocolVersion"  -> {"PROTOCOL_VERSION"}
    [] k = "Authenticate"     -> {"AUTH_AUTHENTICATED"}
    [] k = "MakeDir"          -> {"NEW_DIR"}
    [] k = "MakeFile"         -> {"NEW_FILE"}
    [] k = "Query"            -> {"QUERY_END"}
    [] k = "GetContent"       -> {"EOF"}
    [] k = "CreateShare"      -> {"SHARE_CREATED"}
    [] k = "ListShares"       -> {"SHARES_END"}
    [] k = "DeleteShare"      -> {"SHARE_DELETED"}
    [] k = "CreateUDF"        -> {"VOLUME_CREATED"}
    [] k = "ListVolumes"      -> {"VOLUMES_END"}
    [] k = "DeleteVolume"     -> {"VOLUME_DELETED"}
    [] k = "QuerySetCaps"     -> {"ACCEPT_CAPS"}
    [] k = "FreeSpaceInquiry" -> {"FREE_SPACE_INFO"}
    [] k = "AccountInquiry"   -> {"ACCOUNT_INFO"}
    [] k = "GetDelta"         -> {"DELTA_END"}
    [] k = "ListPublicFiles"  -> {"PUBLIC_FILE_INFO_END"}
    [] OTHER                  -> {"OK"}

(* Every final answer that a server may give: what protocol.proto documents *)
(* for the request; OK for the two deletions, the one answer their classes  *)
(* wait for; and OK for CREATE_SHARE from a server of version 1.            *)
LegalEnds(k) ==
  ProtoEnds(k)
    \cup (IF k \in {"DeleteShare", "DeleteVolume", "CreateShare"} THEN {"OK"} ELSE {})
=============================================================================
