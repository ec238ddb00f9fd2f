------------------------------- MODULE Routes -------------------------------
(***************************************************************************)
(* The routing of the gateway: what it registers with Fiber, in the order  *)
(* it registers it, and the first entry that takes a request.  A path is   *)
(* the sequence of its segments; Fiber, which is external, matches a       *)
(* segment by text, whatever its case, or, if it is a parameter, by being  *)
(* there, and leaves case and %-escapes in parameters as they are.         *)
(***************************************************************************)
EXTENDS Naturals, Sequences

CONSTANT Folded(_)   \* a text in the case in which the routes spell it, if they do

Params == {":session", ":name", ":gid", ":id"}

Literals == {
  "healthz", "readyz", "openapi.yaml", "openapi.json", "api", "login", "sessions", "start", "stop",
  "logout", "auth", "qr", "qr.png", "request-code", "sendText", "sendImage", "sendFile",
  "sendVoice", "sendVideo", "sendLocation", "sendContact", "sendSeen", "startTyping", "stopTyping",
  "me", "contacts", "chats", "groups", "join", "leave", "participants", "add", "remove", "promote",
  "demote", "name", "topic", "locked", "announce", "photo", "disappearing", "invite-link",
  "revoke", "webhooks", "keys", "ws"}

ASSUME FoldedAssumption == \A x \in Literals \cup {""} : Folded(x) = x

R(method, pattern, handler) == [method |-> method, pattern |-> pattern, handler |-> handler]

\* A middleware takes every method and every path that its pattern begins.
Use(pattern, handler) == R("USE", pattern, handler)

publicRoutes == <<
  R("GET", <<"healthz">>, "healthz"),
  R("GET", <<"readyz">>, "readyz"),
  R("GET", <<"openapi.yaml">>, "docs"),
  R("GET", <<"openapi.json">>, "docs"),
  R("POST", <<"api", "login">>, "handleLogin") >>

sessionRoutes == <<
  R("GET", <<"api", "sessions">>, "listSessions"),
  R("POST", <<"api", "sessions">>, "createSession"),
  R("GET", <<"api", "sessions", ":name">>, "getSession"),
  R("DELETE", <<"api", "sessions", ":name">>, "deleteSession"),
  R("POST", <<"api", "sessions", ":name", "start">>, "startSession"),
  R("POST", <<"api", "sessions", ":name", "stop">>, "stopSession"),
  R("POST", <<"api", "sessions", ":name", "logout">>, "logoutSession") >>

pairingRoutes == <<
  R("GET", <<"api", ":session", "auth", "qr">>, "getQR"),
  R("GET", <<"api", ":session", "auth", "qr.png">>, "getQRPNG"),
  R("POST", <<"api", ":session", "auth", "request-code">>, "requestPairCode") >>

messageRoutes ==
  LET post(h) == R("POST", <<"api", h>>, h) IN
  << post("sendText"), post("sendImage"), post("sendFile"), post("sendVoice"), post("sendVideo"),
     post("sendLocation"), post("sendContact"), post("sendSeen"),
     post("startTyping"), post("stopTyping") >>

readRoutes == <<
  R("GET", <<"api", ":session", "me">>, "getMe"),
  R("GET", <<"api", ":session", "contacts">>, "getContacts"),
  R("GET", <<"api", ":session", "chats">>, "getChats"),
  R("GET", <<"api", ":session", "groups">>, "getGroups") >>

groupRoutes ==
  LET gid(method, rest, h) == R(method, <<"api", ":session", "groups", ":gid">> \o rest, h) IN
  << R("POST", <<"api", ":session", "groups">>, "createGroup"),
     R("POST", <<"api", ":session", "groups", "join">>, "joinGroup"),
     gid("GET", << >>, "getGroupInfo"),
     gid("POST", <<"leave">>, "leaveGroup"),
     gid("POST", <<"participants", "add">>, "addParticipants"),
     gid("POST", <<"participants", "remove">>, "removeParticipants"),
     gid("POST", <<"participants", "promote">>, "promoteParticipants"),
     gid("POST", <<"participants", "demote">>, "demoteParticipants"),
     gid("PUT", <<"name">>, "setGroupName"),
     gid("PUT", <<"topic">>, "setGroupTopic"),
     gid("PUT", <<"locked">>, "setGroupLocked"),
     gid("PUT", <<"announce">>, "setGroupAnnounce"),
     gid("PUT", <<"photo">>, "setGroupPhoto"),
     gid("PUT", <<"disappearing">>, "setGroupDisappearing"),
     gid("GET", <<"invite-link">>, "getInviteLink"),
     gid("POST", <<"invite-link", "revoke">>, "revokeInviteLink") >>

webhookRoutes == <<
  R("GET", <<"api", ":session", "webhooks">>, "listWebhooks"),
  R("POST", <<"api", ":session", "webhooks">>, "addWebhook"),
  R("DELETE", <<"api", "webhooks", ":id">>, "deleteWebhook") >>

keyRoutes == <<
  R("GET", <<"api", "keys">>, "listKeys"),
  R("POST", <<"api", "keys">>, "createKey"),
  R("DELETE", <<"api", "keys", ":id">>, "deleteKey") >>

streamRoutes == << Use(<<"ws">>, "upgrade"), R("GET", <<"ws">>, "handleWS") >>

\* Mutant: the keys are registered before the middleware.
routesKeysFirst ==
  publicRoutes \o keyRoutes \o << Use(<<"api">>, "authMiddleware") >> \o sessionRoutes \o pairingRoutes
    \o messageRoutes \o readRoutes \o groupRoutes \o webhookRoutes \o streamRoutes
    \o << Use(<< >>, "dashboard") >>

\* The dashboard takes whatever nothing before it took.
routes ==
  publicRoutes \o << Use(<<"api">>, "authMiddleware") >> \o sessionRoutes \o pairingRoutes
    \o messageRoutes \o readRoutes \o groupRoutes \o webhookRoutes \o keyRoutes \o streamRoutes
    \o << Use(<< >>, "dashboard") >>

-----------------------------------------------------------------------------
(* Fiber's matching *)

\* A slash at the end makes no difference.
Trimmed(path) ==
  IF path # << >> /\ path[Len(path)] = "" THEN SubSeq(path, 1, Len(path) - 1) ELSE path

\* The router is not made CaseSensitive.
SegmentFits(pattern, segment) ==
  IF pattern \in Params THEN segment # "" ELSE Folded(segment) = pattern

Fits(r, method, path) ==
  LET p == Trimmed(path) IN
  /\ r.method \in {method, "USE"}
  /\ Len(r.pattern) = Len(p) \/ (r.method = "USE" /\ Len(r.pattern) <= Len(p))
  /\ \A i \in DOMAIN r.pattern : SegmentFits(r.pattern[i], p[i])

\* The entry that takes the request after entry i called Next, or none.
NextFit(i, method, path) ==
  LET later == {j \in DOMAIN routes : j > i /\ Fits(routes[j], method, path)} IN
  IF later = {} THEN 0 ELSE CHOOSE j \in later : \A k \in later : j <= k

\* The value that the path gives a parameter of entry i, "" if it has none.
ParamValue(i, path, name) ==
  LET at == {j \in DOMAIN routes[i].pattern : routes[i].pattern[j] = name} IN
  IF at = {} THEN "" ELSE path[CHOOSE j \in at : TRUE]
=============================================================================
