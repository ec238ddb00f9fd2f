------------------------------ MODULE Requests ------------------------------
(***************************************************************************)
(* One request on its way through the gateway: middleware, route, and the  *)
(* handler as the sequence of its steps, each of which goes on or answers. *)
(* What a step reads of the request or of the rest of the gateway is       *)
(* chosen when the step reads it, except for what several steps read.      *)
(* Requests share nothing but the cache of Expiration, so one is enough;   *)
(* the sessions themselves are Registry's and Session's, the keys ApiKeys'. *)
(***************************************************************************)
EXTENDS Routes, Expiration

CONSTANTS
  Names,         \* of sessions
  Texts,         \* what clients write for a chat or a group
  Written,       \* the user and the server that each text names
  Ids,           \* the texts that are integers
  PathValues,    \* what clients put in the place of a path parameter
  Asked,         \* the numbers that requests give for a timer
  HalfDuration,  \* half the range of a time.Duration (2^63 in the code)
  Second,        \* of a time.Duration (10^9 in the code)
  HasAssets,     \* the dashboard was built in
  Observed       \* the handlers during which chats change (a bound)

\* A text may name no user or no server (a blank one neither), or be malformed.
UserServer == "s.whatsapp.net"
GroupServer == "g.us"
Servers == {UserServer, GroupServer, "other"}

ASSUME RequestsAssumption ==
  /\ Written \in [Texts -> [user : STRING, server : Servers \cup {"none", "malformed"}]]
  /\ {""} \cup PathValues \subseteq Texts /\ Written[""] = [user |-> "", server |-> "none"]
  /\ Asked \subseteq Int /\ HasAssets \in BOOLEAN
  /\ HalfDuration \in Nat \ {0} /\ Half <= HalfDuration /\ Second \in Nat \ {0}

VARIABLE req

-----------------------------------------------------------------------------
(* Steps *)

Step(do, arg) == [do |-> do, arg |-> arg]

Json == Step("json", "")          \* BodyParser
Field(f) == Step("field", f)      \* a field that must not be empty
Resolve == Step("resolve", "")    \* resolveSession: there and connected
Known == Step("known", "")        \* Manager.Get, Repo.GetSession: there
Chat == Step("chat", "")          \* parseJID
Group == Step("group", "")        \* parseGroupJID
Participants == Step("participants", "")
Id == Step("id", "")              \* ParamsInt
Media == Step("media", "")        \* readMediaPayload
Photo == Step("photo", "")
Timer == Step("timer", "")        \* effectiveExpiration
Seconds == Step("seconds", "")
Read(op) == Step("read", op)      \* may fail, changes nothing
Change(op) == Step("change", op)  \* may fail
Sure(op) == Step("sure", op)      \* cannot fail
Create == Step("create", "")      \* Manager.Create
Code == Step("code", "")          \* LastQR must not be empty
Limit == Step("limit", "")        \* loginLimiter
Password == Step("password", "")

-----------------------------------------------------------------------------
(* Handlers: sessions, pairing, webhooks, keys *)

listSessions == << Read("ListSessions") >>
createSession == << Json, Field("name"), Create >>
getSession == << Known >>
deleteSession == << Change("Delete") >>
startSession == << Known, Change("Start") >>
stopSession == << Known, Sure("Stop") >>
logoutSession == << Known, Change("Logout") >>

getQR == << Known >>
getQRPNG == << Known, Code >>
requestPairCode == << Known, Json, Field("phone"), Change("PairPhone") >>

listWebhooks == << Read("ListWebhooksBySession") >>
addWebhook == << Json, Field("url"), Change("AddWebhook") >>
deleteWebhook == << Id, Change("DeleteWebhook") >>

handleLogin == << Limit, Json, Password, Change("DeleteAPIKeysByName"), Change("AddAPIKey") >>
listKeys == << Read("ListAPIKeys") >>
createKey == << Json, Field("name"), Change("AddAPIKey") >>
deleteKey == << Id, Change("DeleteAPIKey") >>

-----------------------------------------------------------------------------
(* Handlers: messages and reads *)

sendText == << Json, Field("text"), Resolve, Chat, Timer, Change("SendMessage") >>

\* Mutants: the timer is read before the upload; the upload before the chat.
sendMediaTimerFirst == << Media, Resolve, Chat, Timer, Change("Upload"), Change("SendMessage") >>
sendMediaUploadFirst == << Media, Resolve, Change("Upload"), Chat, Timer, Change("SendMessage") >>

sendMedia == << Media, Resolve, Chat, Change("Upload"), Timer, Change("SendMessage") >>
sendImage == sendMedia
sendVideo == sendMedia
sendVoice == sendMedia
sendFile == sendMedia
sendLocation == << Json, Resolve, Chat, Timer, Change("SendMessage") >>
sendContact == << Json, Field("vcard"), Resolve, Chat, Timer, Change("SendMessage") >>
sendSeen == << Json, Resolve, Chat, Change("MarkRead") >> \* a malformed sender is none
setTyping == << Json, Resolve, Chat, Change("SendChatPresence") >>

getMe == << Known >>
getContacts == << Resolve, Read("GetAllContacts") >>
getChats == getContacts
getGroups == << Resolve, Read("GetJoinedGroups") >>

-----------------------------------------------------------------------------
(* Handlers: groups *)

createGroup == << Resolve, Json, Field("name"), Participants, Change("CreateGroup") >>
getGroupInfo == << Resolve, Group, Read("GetGroupInfo") >>
leaveGroup == << Resolve, Group, Change("LeaveGroup") >>
updateParticipants ==
  << Resolve, Group, Json, Field("participants"), Participants, Change("UpdateGroupParticipants") >>
setGroupName == << Resolve, Group, Json, Field("name"), Change("SetGroupName") >>
setGroupTopic == << Resolve, Group, Json, Change("SetGroupTopic") >>
setGroupLocked == << Resolve, Group, Json, Change("SetGroupLocked") >>
setGroupAnnounce == << Resolve, Group, Json, Change("SetGroupAnnounce") >>
setGroupPhoto == << Resolve, Group, Photo, Change("SetGroupPhoto") >>
getInviteLink == << Resolve, Group, Read("GetGroupInviteLink") >>
revokeInviteLink == << Resolve, Group, Change("GetGroupInviteLink") >>
joinGroup == << Resolve, Json, Field("link"), Change("JoinGroupWithLink") >>
setGroupDisappearing == << Resolve, Group, Json, Seconds, Change("SetDisappearingTimer") >>

-----------------------------------------------------------------------------
\* What handleWS does next is EventStream's.
StepsOf == [
  healthz |-> << >>, readyz |-> << >>, docs |-> << >>, handleWS |-> << >>,
  handleLogin |-> handleLogin,
  listSessions |-> listSessions, createSession |-> createSession, getSession |-> getSession,
  deleteSession |-> deleteSession, startSession |-> startSession, stopSession |-> stopSession,
  logoutSession |-> logoutSession, getQR |-> getQR, getQRPNG |-> getQRPNG,
  requestPairCode |-> requestPairCode,
  sendText |-> sendText, sendImage |-> sendImage, sendFile |-> sendFile, sendVoice |-> sendVoice,
  sendVideo |-> sendVideo, sendLocation |-> sendLocation, sendContact |-> sendContact,
  sendSeen |-> sendSeen, startTyping |-> setTyping, stopTyping |-> setTyping,
  getMe |-> getMe, getContacts |-> getContacts, getChats |-> getChats, getGroups |-> getGroups,
  createGroup |-> createGroup, joinGroup |-> joinGroup, getGroupInfo |-> getGroupInfo,
  leaveGroup |-> leaveGroup, addParticipants |-> updateParticipants,
  removeParticipants |-> updateParticipants, promoteParticipants |-> updateParticipants,
  demoteParticipants |-> updateParticipants, setGroupName |-> setGroupName,
  setGroupTopic |-> setGroupTopic, setGroupLocked |-> setGroupLocked,
  setGroupAnnounce |-> setGroupAnnounce, setGroupPhoto |-> setGroupPhoto,
  setGroupDisappearing |-> setGroupDisappearing, getInviteLink |-> getInviteLink,
  revokeInviteLink |-> revokeInviteLink,
  listWebhooks |-> listWebhooks, addWebhook |-> addWebhook, deleteWebhook |-> deleteWebhook,
  listKeys |-> listKeys, createKey |-> createKey, deleteKey |-> deleteKey ]
-----------------------------------------------------------------------------
(* The machine *)

\* A JID need not name a user.
JIDs == [user : {Written[t].user : t \in Texts}, server : Servers]
NoJID == [user |-> "", server |-> "none"]

\* A body that is no JSON (or is none, or has a field of a wrong type) is "bad".
Bodies == {"json", "form", "bad"}
\* 200 stands for every success, 201 and the upgrade of a WebSocket included.
Statuses == {200, 400, 401, 404, 409, 426, 429, 500, 503}

Idle == [by |-> "client", stage |-> "idle", method |-> "", path |-> << >>, body |-> "bad",
         args |-> << >>, key |-> FALSE, at |-> 0, todo |-> << >>, name |-> "", jid |-> NoJID,
         asked |-> {}, timer |-> 0, quiet |-> FALSE, data |-> "none", status |-> 0, did |-> {}]

RequestsTypeOK ==
  /\ req.by \in {"client", "tool"}
  /\ req.stage \in {"idle", "routing", "handling", "answered"}
  /\ req.body \in Bodies
  /\ req.key \in BOOLEAN       \* a working key was shown
  /\ req.at \in 0 .. Len(routes)
  /\ req.jid \in JIDs \cup {NoJID}
  /\ req.asked \in SUBSET Asked
  /\ req.timer \in -HalfDuration .. HalfDuration - 1
  /\ req.quiet \in BOOLEAN     \* history: the chat's timer was on record all along
  /\ req.data \in {"none", "whole", "cut"}
  /\ req.status \in Statuses \cup {0}

Handler == IF req.at = 0 THEN "none" ELSE routes[req.at].handler
InPath == {routes[req.at].pattern[i] : i \in DOMAIN routes[req.at].pattern}

Doing(do) == req.stage = "handling" /\ req.todo # << >> /\ Head(req.todo).do = do
Arg == Head(req.todo).arg
On(r) == req' = [r EXCEPT !.todo = Tail(@)]
Answer(status) == req' = [req EXCEPT !.stage = "answered", !.status = status]

\* What a field of the body may hold. A tool's arguments are its body.
Values(f) ==
  IF req.by = "tool" THEN {IF f \in DOMAIN req.args THEN req.args[f] ELSE ""}
  ELSE CASE f = "session" -> Names \cup {"", "nobody"}
         [] f = "chat_id" -> Texts
         [] OTHER -> {"", "some"}

BodyIn(kinds) == IF req.by = "tool" THEN {req.body} ELSE kinds

-----------------------------------------------------------------------------
(* Routing *)

\* The paths of the routes, with any value in the place of a parameter.
Paths == UNION {
  {[i \in DOMAIN r.pattern |-> CASE r.pattern[i] \in {":gid", ":id"} -> g
                                 [] r.pattern[i] \in {":session", ":name"} -> v
                                 [] OTHER -> r.pattern[i]] : v, g \in PathValues}
  : r \in {routes[i] : i \in DOMAIN routes}}

\* What stands where a group is looked for is one of the texts.
ASSUME PathsAssumption ==
  \A p \in Paths : Len(p) > 3 /\ Folded(p[3]) = "groups" => p[4] \in Texts

ClientAsks ==
  /\ req.stage = "idle"
  /\ \E m \in {"GET", "POST", "PUT", "DELETE"}, p \in Paths :
       req' = [Idle EXCEPT !.stage = "routing", !.method = m, !.path = p]

\* The middleware: the next entry is tried, or an answer is given.
CheckKey(i) ==
  \/ req' = [req EXCEPT !.at = i, !.key = TRUE]
  \/ \E status \in {401, 500} :
       req' = [req EXCEPT !.at = i, !.stage = "answered", !.status = status]

Upgrade(i) ==
  \/ CheckKey(i)
  \/ req' = [req EXCEPT !.at = i, !.stage = "answered", !.status = 426]

\* Mount: index.html stands for whatever GET does not find, the API included, and
\* for other methods outside the API. (No path here merely begins with "ws".)
Dashboard(i) ==
  LET path == req.path
      ours == \/ path # << >> /\ path[1] = "ws"
              \/ Len(path) > 1 /\ path[1] = "api"
              \/ path \in {<<x>> : x \in {"healthz", "readyz", "openapi.yaml", "openapi.json"}}
      found == HasAssets /\ (req.method = "GET" \/ ~ours)
  IN req' = [req EXCEPT !.at = i, !.stage = "answered", !.status = IF found THEN 200 ELSE 404]

Enter(i) ==
  LET param(p) == ParamValue(i, req.path, p) IN
  req' = [req EXCEPT !.at = i, !.stage = "handling", !.todo = StepsOf[routes[i].handler],
                     !.name = IF param(":name") # "" THEN param(":name") ELSE param(":session")]

Serve ==
  /\ req.stage = "routing"
  /\ LET i == NextFit(req.at, req.method, req.path) IN
     IF i = 0 THEN Answer(404)
     ELSE CASE routes[i].handler = "authMiddleware" -> CheckKey(i)
            [] routes[i].handler = "upgrade" -> Upgrade(i)
            [] routes[i].handler = "dashboard" -> Dashboard(i)
            [] OTHER -> Enter(i)

-----------------------------------------------------------------------------
(* The steps of the handlers. A failure that is not a fiber.Error is a 500. *)

TakeJson ==
  /\ Doing("json")
  /\ \E b \in BodyIn({"json", "bad"}) :
       IF b = "bad" THEN Answer(400) ELSE On([req EXCEPT !.body = b])

TakeField ==
  /\ Doing("field")
  /\ \E v \in Values(Arg) : IF v = "" THEN Answer(400) ELSE On(req)

TakeLimit == Doing("limit") /\ (On(req) \/ Answer(429))
TakePassword == Doing("password") /\ (On(req) \/ Answer(401))
TakeId ==
  /\ Doing("id")
  /\ IF ParamValue(req.at, req.path, ":id") \in Ids THEN On(req) ELSE Answer(400)

\* The name comes with the path or with the body; no session of that name need
\* be there, or be connected.
resolveSession ==
  /\ Doing("resolve")
  /\ \E n \in IF InPath \cap {":session", ":name"} # {} THEN {req.name} ELSE Values("session") :
       CASE n = "" -> Answer(400)
         [] n \in Names \ {""} -> On([req EXCEPT !.name = n]) \/ Answer(404) \/ Answer(503)
         [] OTHER -> Answer(404)

TakeKnown ==
  /\ Doing("known")
  /\ (req.name \in Names /\ On(req)) \/ Answer(404)

Unparsed(w) == w.server = "malformed" \/ (w.user = "" /\ w.server = "none")

\* Mutant: the error of ParseJID is dropped.
parseJIDLenient(text) ==
  LET w == Written[text] IN
  IF w.server = "none" /\ w.user # "" THEN [user |-> w.user, server |-> UserServer] ELSE w

parseJID(text) ==
  LET w == Written[text] IN
  CASE Unparsed(w) -> NoJID
    [] ~Unparsed(w) /\ w.server = "none" -> [user |-> w.user, server |-> UserServer]
    [] OTHER -> w

\* Mutant: any server will do.
parseGroupJIDAnywhere(text) ==
  LET w == Written[text] IN
  CASE Unparsed(w) -> NoJID
    [] ~Unparsed(w) /\ w.server = "none" -> [user |-> w.user, server |-> GroupServer]
    [] OTHER -> w

parseGroupJID(text) ==
  LET w == Written[text] IN
  IF Unparsed(w) \/ w.server \in Servers \ {GroupServer} THEN NoJID
  ELSE [user |-> w.user, server |-> GroupServer]

OnRecord(n, jid) == <<n, jid>> \in Watched /\ onRecord[<<n, jid>>]

TakeChat ==
  /\ Doing("chat")
  /\ \E text \in Values("chat_id") :
       LET jid == parseJID(text) IN
       IF jid = NoJID THEN Answer(400)
       ELSE On([req EXCEPT !.jid = jid, !.quiet = OnRecord(req.name, jid)])

TakeGroup ==
  /\ Doing("group")
  /\ LET jid == parseGroupJID(ParamValue(req.at, req.path, ":gid")) IN
     IF jid = NoJID THEN Answer(400) ELSE On([req EXCEPT !.jid = jid])

\* Each of them is parsed before anything is done.
parseParticipants == Doing("participants") /\ (On(req) \/ Answer(400))

\* Mutant: an error of ReadAll is dropped.
readMediaPayloadCut ==
  /\ Doing("media")
  /\ \E b \in BodyIn(Bodies) :
       IF b = "bad" \/ (b = "json" /\ Values("url") = {""}) THEN Answer(400)
       ELSE \/ \E d \in {"whole", "cut"} : On([req EXCEPT !.body = b, !.data = d])
            \/ Answer(400)

\* No file, no URL, or one that cannot be fetched; a file that cannot be opened,
\* or data that cannot be read to the end.
readMediaPayload ==
  /\ Doing("media")
  /\ \E b \in BodyIn(Bodies) :
       IF b = "bad" \/ (b = "json" /\ Values("url") = {""}) THEN Answer(400)
       ELSE \/ On([req EXCEPT !.body = b, !.data = "whole"])
            \/ Answer(400)
            \/ Answer(500)

\* Data that could not be read to the end will do, unless there is none.
TakePhoto ==
  /\ Doing("photo")
  /\ \E b \in BodyIn(Bodies) :
       IF b = "bad" \/ (b = "json" /\ Values("url") = {""}) THEN Answer(400)
       ELSE \/ \E d \in {"whole", "cut"} : On([req EXCEPT !.body = b, !.data = d])
            \/ Answer(400)
            \/ b = "form" /\ Answer(500)

-----------------------------------------------------------------------------
(* Timers *)

\* override holds the number asked for, if any.
effectiveExpiration(n, jid, override) ==
  IF override = {} THEN ChatExpiration(n, jid)
  ELSE LET x == CHOOSE x \in override : TRUE IN IF x <= 0 THEN 0 ELSE UInt32(x)

FitsInt32(x) == x \in -Half .. Half - 1

\* JSON is refused unless the number is an int32; a form's is made one.
TakeTimer ==
  /\ Doing("timer")
  /\ \E asked \in {{}} \cup {{x} : x \in Asked} :
       LET override == {Int32(x) : x \in asked} IN
       /\ req.body = "form" \/ \A x \in asked : FitsInt32(x)
       /\ On([req EXCEPT !.asked = asked,
                         !.timer = effectiveExpiration(req.name, req.jid, override)])

TakeSeconds ==
  /\ Doing("seconds")
  /\ \E s \in Asked :
       /\ s \in -HalfDuration .. HalfDuration - 1
       /\ On([req EXCEPT !.asked = {s}, !.timer = Wrap(HalfDuration, s * Second)])

-----------------------------------------------------------------------------
(* What the handlers do *)

Done(op) ==
  On([req EXCEPT !.did = @ \cup {op},
                 !.quiet = IF op = "Upload" THEN OnRecord(req.name, req.jid) ELSE @])
Failed(op) ==
  \E did \in {{}, {op}} :
    req' = [req EXCEPT !.stage = "answered", !.status = 500, !.did = @ \cup did]

TakeRead == Doing("read") /\ (On(req) \/ Answer(500))
TakeChange == Doing("change") /\ (Done(Arg) \/ Failed(Arg))
TakeSure == Doing("sure") /\ Done(Arg)
TakeCreate == Doing("create") /\ (Done("Create") \/ Failed("Create") \/ Answer(409))
TakeCode == Doing("code") /\ (On(req) \/ Answer(404) \/ Answer(500))

Finish == req.stage = "handling" /\ req.todo = << >> /\ Answer(200)

Handle ==
  \/ TakeJson \/ TakeField \/ TakeLimit \/ TakePassword \/ TakeId
  \/ resolveSession \/ TakeKnown \/ TakeChat \/ TakeGroup \/ parseParticipants
  \/ readMediaPayload \/ TakePhoto \/ TakeTimer \/ TakeSeconds
  \/ TakeRead \/ TakeChange \/ TakeSure \/ TakeCreate \/ TakeCode \/ Finish

\* Chats go on while a client's request is handled that may take its timer from
\* them (before that it makes no difference when they did; a tool's is the same).
Meanwhile ==
  /\ req.by = "client" /\ req.stage = "handling" /\ Handler \in Observed
  /\ req.asked = {} /\ req.todo # << >>
  /\ <<req.name, req.jid>> \in Watched
  /\ ExpirationNext
  /\ req' = [req EXCEPT !.quiet = req.quiet /\ onRecord'[<<req.name, req.jid>>]]

RequestsInit == req = Idle /\ ExpirationInit

RequestsNext ==
  \/ (ClientAsks \/ Serve \/ Handle) /\ UNCHANGED expirationVars
  \/ Meanwhile

-----------------------------------------------------------------------------
(* Properties *)

GroupCalls == {"LeaveGroup", "UpdateGroupParticipants", "SetGroupName", "SetGroupTopic",
               "SetGroupLocked", "SetGroupAnnounce", "SetGroupPhoto", "GetGroupInviteLink",
               "SetDisappearingTimer"}

\* A request that is answered with a 4xx or "session not connected" has changed
\* nothing, in the gateway or at WhatsApp: all checks come before all changes.
RefusedDoesNothing ==
  req.stage = "answered" /\ req.status \in 400 .. 499 \cup {503} => req.did = {}

\* Behind the routes and the middleware: no handler but the public ones begins
\* for a request that showed no working key.
NothingWithoutKey ==
  Handler \in DOMAIN StepsOf /\ ~req.key =>
    Handler \in {"healthz", "readyz", "docs", "handleLogin"}

\* A timer that was asked for and fits is the timer sent (none, if it is not
\* positive); otherwise a message gets none, or one that some message of that
\* very chat named under that very session name.
SendTimers ==
  LET w == <<req.name, req.jid>> IN
  /\ "SendMessage" \in req.did =>
       IF req.asked = {} THEN req.timer = 0 \/ (w \in Watched /\ req.timer \in told[w])
       ELSE \A x \in req.asked : FitsInt32(x) => req.timer = IF x > 0 THEN x ELSE 0
  /\ "SetDisappearingTimer" \in req.did =>
       \A x \in req.asked :
         x * Second \in -HalfDuration .. HalfDuration - 1 => req.timer = x * Second

\* If the chat's timer was on record from the last wait for WhatsApp before the
\* cache is read (an upload takes long) until the message is handed over,
\* the message carries it.
FreshTimers ==
  "SendMessage" \in req.did /\ req.asked = {} /\ req.quiet =>
    req.timer = setting[<<req.name, req.jid>>]

\* Media that could not be read to the end are neither uploaded nor sent. (The
\* photo of a group may be: setGroupPhoto drops the error of its ReadAll.)
CutMediaIsNotSent ==
  req.did \cap {"Upload", "SendMessage"} # {} => req.data # "cut"
=============================================================================
