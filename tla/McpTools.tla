------------------------------ MODULE McpTools ------------------------------
(***************************************************************************)
(* The MCP server: a tool call, or the reading of a resource, becomes one  *)
(* request to the gateway, whose path is rendered from the arguments, and  *)
(* the answer becomes its result.  The gateway's side of it is Requests.   *)
(***************************************************************************)
EXTENDS Requests, FiniteSets

CONSTANTS
  Allow,       \* --tools
  Said,        \* what calls say for session, gid, id and chat_id
  NotString,   \* stands for an argument of another type
  Escape(_)    \* url.PathEscape

\* The slots of the templates; "{}" stands for those that are in none of them.
Slots == {"{session}", "{gid}", "{id}", "{}"}
Slot(k) == CASE k = "session" -> "{session}" [] k = "gid" -> "{gid}" [] k = "id" -> "{id}"
             [] OTHER -> "{}"

SaidValues == {"", "some"} \cup UNION {Said[k] : k \in DOMAIN Said}

\* An escaped text has no brace, and what names a chat or a group is a text.
ASSUME McpAssumption ==
  /\ DOMAIN Said = {"session", "gid", "id", "chat_id"}
  /\ \A v \in SaidValues : Escape(v) \notin Slots /\ v # NotString
  /\ Said["chat_id"] \cup {Escape(v) : v \in Said["gid"] \cup {""}} \subseteq Texts

VARIABLE call

mcpVars == <<req, call, expirationVars>>

-----------------------------------------------------------------------------
(* The tools: name, method, path, the arguments required, and the handler  *)
(* that its description tells of.                                          *)

Tool(name, method, path, required, means) ==
  [name |-> name, method |-> method, path |-> path, required |-> required, means |-> means]

sessionsTools ==
  LET one == <<"api", "sessions", "{session}">> IN {
  Tool("waapi_sessions_list", "GET", <<"api", "sessions">>, {}, "listSessions"),
  Tool("waapi_sessions_get", "GET", one, {"session"}, "getSession"),
  Tool("waapi_sessions_create", "POST", <<"api", "sessions">>, {"name"}, "createSession"),
  Tool("waapi_sessions_start", "POST", Append(one, "start"), {"session"}, "startSession"),
  Tool("waapi_sessions_stop", "POST", Append(one, "stop"), {"session"}, "stopSession"),
  Tool("waapi_sessions_logout", "POST", Append(one, "logout"), {"session"}, "logoutSession"),
  Tool("waapi_sessions_delete", "DELETE", one, {"session"}, "deleteSession") }

Of(rest) == <<"api", "{session}">> \o rest

authTools == {
  Tool("waapi_auth_qr", "GET", Of(<<"auth", "qr">>), {"session"}, "getQR"),
  Tool("waapi_auth_request_code", "POST", Of(<<"auth", "request-code">>), {"session", "phone"},
       "requestPairCode") }

messageTools ==
  LET send(name, h, more) ==
        Tool(name, "POST", <<"api", h>>, {"session", "chat_id"} \cup more, h) IN {
  send("waapi_send_text", "sendText", {"text"}),
  send("waapi_send_image", "sendImage", {"url"}),
  send("waapi_send_video", "sendVideo", {"url"}),
  send("waapi_send_voice", "sendVoice", {"url"}),
  send("waapi_send_file", "sendFile", {"url"}),
  send("waapi_send_location", "sendLocation", {"latitude", "longitude"}),
  send("waapi_send_contact", "sendContact", {"vcard"}),
  send("waapi_send_seen", "sendSeen", {"message_ids"}),
  send("waapi_start_typing", "startTyping", {}),
  send("waapi_stop_typing", "stopTyping", {}) }

readTools == {
  Tool("waapi_me", "GET", Of(<<"me">>), {"session"}, "getMe"),
  Tool("waapi_contacts_list", "GET", Of(<<"contacts">>), {"session"}, "getContacts"),
  Tool("waapi_chats_list", "GET", Of(<<"chats">>), {"session"}, "getChats") }

groupTools ==
  LET all(name, method, rest, more, h) ==
        Tool(name, method, Of(<<"groups">> \o rest), {"session"} \cup more, h)
      one(name, method, rest, more, h) ==
        all(name, method, <<"{gid}">> \o rest, {"gid"} \cup more, h) IN {
  all("waapi_groups_list", "GET", << >>, {}, "getGroups"),
  all("waapi_groups_create", "POST", << >>, {"name", "participants"}, "createGroup"),
  all("waapi_groups_join", "POST", <<"join">>, {"link"}, "joinGroup"),
  one("waapi_groups_get_info", "GET", << >>, {}, "getGroupInfo"),
  one("waapi_groups_leave", "POST", <<"leave">>, {}, "leaveGroup"),
  one("waapi_groups_add_participants", "POST", <<"participants", "add">>, {"participants"},
      "addParticipants"),
  one("waapi_groups_remove_participants", "POST", <<"participants", "remove">>, {"participants"},
      "removeParticipants"),
  one("waapi_groups_promote_participants", "POST", <<"participants", "promote">>,
      {"participants"}, "promoteParticipants"),
  one("waapi_groups_demote_participants", "POST", <<"participants", "demote">>,
      {"participants"}, "demoteParticipants"),
  one("waapi_groups_set_name", "PUT", <<"name">>, {"name"}, "setGroupName"),
  one("waapi_groups_set_topic", "PUT", <<"topic">>, {"topic"}, "setGroupTopic"),
  one("waapi_groups_set_locked", "PUT", <<"locked">>, {"value"}, "setGroupLocked"),
  one("waapi_groups_set_announce", "PUT", <<"announce">>, {"value"}, "setGroupAnnounce"),
  one("waapi_groups_set_photo", "PUT", <<"photo">>, {"url"}, "setGroupPhoto"),
  one("waapi_groups_set_disappearing", "PUT", <<"disappearing">>, {"seconds"},
      "setGroupDisappearing"),
  one("waapi_groups_get_invite_link", "GET", <<"invite-link">>, {}, "getInviteLink"),
  one("waapi_groups_revoke_invite_link", "POST", <<"invite-link", "revoke">>, {},
      "revokeInviteLink") }

webhookTools == {
  Tool("waapi_webhooks_list", "GET", Of(<<"webhooks">>), {"session"}, "listWebhooks"),
  Tool("waapi_webhooks_add", "POST", Of(<<"webhooks">>), {"session", "url"}, "addWebhook"),
  Tool("waapi_webhooks_delete", "DELETE", <<"api", "webhooks", "{id}">>, {"id"},
       "deleteWebhook") }

\* Mutant: the path of the webhooks, with its id.
keyToolsMispointed == {
  Tool("waapi_keys_list", "GET", <<"api", "keys">>, {}, "listKeys"),
  Tool("waapi_keys_create", "POST", <<"api", "keys">>, {"name"}, "createKey"),
  Tool("waapi_keys_delete", "DELETE", <<"api", "webhooks", "{id}">>, {"id"}, "deleteKey") }

keyTools == {
  Tool("waapi_keys_list", "GET", <<"api", "keys">>, {}, "listKeys"),
  Tool("waapi_keys_create", "POST", <<"api", "keys">>, {"name"}, "createKey"),
  Tool("waapi_keys_delete", "DELETE", <<"api", "keys", "{id}">>, {"id"}, "deleteKey") }

allTools == sessionsTools \cup authTools \cup messageTools \cup readTools
              \cup groupTools \cup webhookTools \cup keyTools

registered == {t \in allTools : Allow = {} \/ t.name \in Allow}

\* Resources are read with Client.Get, without arguments and whatever --tools says.
resources == {
  Tool("waapi://sessions", "GET", <<"api", "sessions">>, {}, "listSessions"),
  Tool("waapi://openapi", "GET", <<"openapi.yaml">>, {}, "docs") }

offered == registered \cup resources

-----------------------------------------------------------------------------
(* The machine *)

NoTool == Tool("none", "GET", << >>, {}, "none")
NoCall == [stage |-> "idle", tool |-> NoTool, args |-> << >>, path |-> << >>, left |-> {},
           result |-> "none"]

McpTypeOK ==
  /\ call.stage \in {"idle", "rendering", "waiting", "over"}
  /\ call.tool \in offered \cup {NoTool}
  /\ call.left \subseteq DOMAIN call.args
  /\ call.result \in {"none", "ok", "error"}
  /\ req.by = "tool" => \A i \in DOMAIN req.path : req.path[i] \notin Slots

End(result) == call' = [call EXCEPT !.stage = "over", !.result = result]

Value(k) == IF k \in DOMAIN Said THEN Said[k] ELSE {"some"}

\* All that the tool requires.
Whole(t) ==
  {f \in [t.required -> UNION {Value(k) : k \in t.required}] :
     \A k \in t.required : f[k] \in Value(k)}

\* An argument is empty, of another type, or missing.
Spoilt(f, k) ==
  {[f EXCEPT ![k] = ""], [f EXCEPT ![k] = NotString], [j \in DOMAIN f \ {k} |-> f[j]]}

\* One argument at most is at fault (a bound); the server does not look at the schema.
Arguments(t) ==
  Whole(t) \cup UNION {Spoilt(f, k) : f \in Whole(t), k \in t.required \ {"name"}}

CallTool ==
  /\ call.stage = "idle" /\ req.stage = "idle"
  /\ \E t \in offered : \E args \in Arguments(t) :
       call' = [NoCall EXCEPT !.stage = "rendering", !.tool = t, !.args = args,
                              !.path = t.path, !.left = DOMAIN args]
  /\ UNCHANGED req

\* Mutant: the value goes into the path as it is.
renderedRaw(v) == v

rendered(v) == Escape(v)

\* renderPath takes the arguments in no order (a Go map).
RenderKey(k) ==
  /\ call.stage = "rendering" /\ k \in call.left
  /\ LET v == call.args[k]
         held == \E i \in DOMAIN call.path : call.path[i] = Slot(k) IN
     CASE ~held -> call' = [call EXCEPT !.left = @ \ {k}]
       [] held /\ v = NotString -> End("error")
       [] OTHER -> call' = [call EXCEPT
            !.left = @ \ {k},
            !.path = [i \in DOMAIN @ |-> IF @[i] = Slot(k) THEN rendered(v) ELSE @[i]]]
  /\ UNCHANGED req

stripPathParams(args, path) ==
  LET held == {k \in DOMAIN args : \E i \in DOMAIN path : path[i] = Slot(k)} IN
  [k \in DOMAIN args \ held |-> args[k]]

\* Mutant: only POST has a body.
bodyOrNilPostOnly(method, body) ==
  IF method # "POST" \/ DOMAIN body = {} THEN "bad" ELSE "json"

bodyOrNil(method, body) ==
  IF method \in {"GET", "DELETE"} \/ DOMAIN body = {} THEN "bad" ELSE "json"

\* A text where the gateway wants one; with another type nothing of the body is read.
Forward ==
  /\ call.stage = "rendering" /\ call.left = {}
  /\ LET body == stripPathParams(call.args, call.tool.path)
         odd == \E k \in DOMAIN body : body[k] = NotString IN
     IF \E i \in DOMAIN call.path : call.path[i] \in Slots
     THEN End("error") /\ UNCHANGED req
     ELSE /\ call' = [call EXCEPT !.stage = "waiting"]
          /\ req' = [Idle EXCEPT !.by = "tool", !.stage = "routing", !.method = call.tool.method,
                                 !.path = call.path,
                                 !.args = IF odd THEN << >> ELSE body,
                                 !.body = IF odd THEN "bad" ELSE bodyOrNil(call.tool.method, body)]

\* Mutant: a 4xx is taken for an answer like any other.
doResultLenient(status) == IF status >= 500 THEN "error" ELSE "ok"

doResult(status) == IF status >= 400 THEN "error" ELSE "ok"

HearAnswer ==
  /\ call.stage = "waiting" /\ req.stage = "answered"
  /\ End(doResult(req.status))
  /\ UNCHANGED req

\* 60 s have passed, or the connection broke; the request goes on.
GiveUp ==
  /\ call.stage = "waiting"
  /\ End("error")
  /\ UNCHANGED req

McpInit == RequestsInit /\ call = NoCall

McpNext ==
  \/ /\ CallTool \/ (\E k \in call.left : RenderKey(k)) \/ Forward \/ HearAnswer \/ GiveUp
     /\ UNCHANGED expirationVars
  \/ /\ req.stage # "idle" \/ call.stage = "idle"
     /\ RequestsNext
     /\ UNCHANGED call

Spec == McpInit /\ [][McpNext]_mcpVars

-----------------------------------------------------------------------------
(* Properties *)

TypeOK == ExpirationTypeOK /\ RequestsTypeOK /\ McpTypeOK

\* Nothing is missing, empty or of the wrong type.
Complete == /\ call.tool.required \subseteq DOMAIN call.args
            /\ \A k \in DOMAIN call.args : call.args[k] \notin {"", NotString}

\* And what goes into the path needs no escape (the gateway does not undo it) and
\* is, in no case, a session called "sessions" (others' routes are in front of its).
Plain == /\ Complete
         /\ \A k \in DOMAIN call.args \cap {"session", "gid", "id"} :
              Escape(call.args[k]) = call.args[k] /\ Folded(call.args[k]) # "sessions"

\* And every identifier is one.
WellFormed ==
  /\ Plain
  /\ "chat_id" \in DOMAIN call.args => parseJID(call.args["chat_id"]) # NoJID
  /\ "gid" \in DOMAIN call.args => parseGroupJID(call.args["gid"]) # NoJID
  /\ "id" \in DOMAIN call.args => call.args["id"] \in Ids

\* In whichever order renderPath takes the arguments, the path it makes is the
\* template with each slot replaced by the argument of that slot.
RenderingConfluent ==
  req.by = "tool" =>
    \A i \in DOMAIN req.path :
      IF call.tool.path[i] \in Slots
      THEN \E k \in DOMAIN call.args :
             Slot(k) = call.tool.path[i] /\ req.path[i] = Escape(call.args[k])
      ELSE req.path[i] = call.tool.path[i]

\* Of all the routes, a plain call of a tool ends at the handler that the tool's
\* description tells of, for the session that the call named, unless its key is
\* refused.
ToolReachesItsHandler ==
  req.by = "tool" /\ Plain /\ req.stage \in {"handling", "answered"} =>
    \/ Handler = "authMiddleware" /\ ~req.key
    \/ /\ Handler = call.tool.means
       /\ req.name = "" \/ req.name = call.args["session"]

\* The body that bodyOrNil and stripPathParams leave has all that the handler
\* wants: a well-formed call is a bad request only for what its URL yields or
\* for its participants.
WellFormedCallsAreTaken ==
  req.by = "tool" /\ WellFormed /\ req.status = 400 =>
    Head(req.todo).do \in {"media", "photo", "participants"}

\* A plain call that reports success was handled to the end, by the handler that
\* the tool's description tells of. (One that reports an error may have been.)
ToolOkMeansHandled ==
  call.result = "ok" /\ Plain => req.status = 200 /\ Handler = call.tool.means

\* A call about a group is never made with the JID of a person or a channel, and
\* from a tool with the group that the tool's caller wrote, in whichever of its
\* spellings (and with none, if "@g.us" is all that was written).
GroupCallsNameTheGroup ==
  req.did \cap GroupCalls # {} =>
    /\ req.jid.server = GroupServer
    /\ req.by = "tool" /\ Plain => req.jid.user = Written[call.args["gid"]].user
=============================================================================
