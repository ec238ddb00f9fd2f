# Verification of waapi-gateway

TLA+ models of the gateway's own logic: the registry that binds session names to
WhatsApp accounts, the life of one session, webhook delivery, the live event stream, the API
keys, the way of every request through routes, middleware and handlers, the cache of
disappearing-messages timers, and the MCP tools. TLC checks them on small instances; TLAPS
proves the main safety properties of all of them for instances of every size. Paths below are relative to `src/`.

## Inventory

| Part | State | Operations | Talks to | Hard because | Right when |
|---|---|---|---|---|---|
| `wa.Manager` (`internal/wa/manager.go`) | map of sessions, `jidToName`, listeners, expiration caches, one RWMutex | Create, Get, List, Delete, LoadExisting, notifyStatus, notifyQR, dispatchEvent, Close | repo, device store, sessions, dispatcher | lock released between check and install; detached goroutines write the table; errors dropped in Delete; Close calls back into its own lock | a name has one object, one row, one account; nothing of a deleted session comes back; Close ends |
| `wa.Session` (`session.go`) | status, last error, last QR code, cancel function | Start, Stop, Logout, PairPhone, consumeQR, handleEvent | whatsmeow client, manager | API calls, a QR consumer per Start and event goroutines write in sections of their own | status and code agree with the client; no QR channel is left running |
| expiration cache (`ephemeral.go`) | seconds per chat | Get, Set, ExtractExpiration | manager, sends | survives its session, forgets no timer that is switched off | a send carries the chat's timer |
| `webhook.Dispatcher` | bus of 256, workers, senders | Emit, worker, deliver, send | repo, endpoints | drop when full, lookup after the emission, retries, shutdown | each subscriber is sent an accepted event once, at most three posts, none after an answer |
| event stream (`manager.go`, `api/ws.go`) | listeners and channels of 64 | Subscribe, Unsubscribe, broadcast, Close | RWMutex, WebSocket clients | channels closed while others send; slow clients | no send on a closed channel; nobody blocks a broadcast |
| `store.Repo`, migrations | `app_sessions`, `webhooks`, `api_keys` | one statement per operation | manager, API, dispatcher | two statements where one is meant; cascade; NULL and '' | rows change only as the operation says |
| API: auth (`api/auth.go`) | `api_keys` | login, check, create, delete | repo | a login deletes and inserts in two statements; a check is followed by a handler while others revoke | a login leaves no earlier admin key; a key works from issue to revocation, once; other keys stay |
| API: routes (`api/router.go`, `web/web.go`) | none | middleware and routes in the order registered | every handler | parameters beside literal segments; a dashboard behind everything | no handler without a key; a path ends at the handler it is for |
| API: sessions, pairing, webhooks | none | handlers | manager, session, repo | hold a session across a concurrent Delete | answers fit what happened |
| API: messages, chats, groups | none | checks, then one whatsmeow call (media: an upload and one) | session, cache | order of checks, upload and timer; integer conversions; strangers' servers | a refused request did nothing; the message carries the timer asked for, or the chat's |
| `cmd/server` | boot phase, signal context | boot, auto-start, serve, shut down | all | order of boot and shutdown; death in between | boot ends in serving, shutdown ends |
| MCP (`internal/mcp`) | none | 45 tools and 2 resources, each one request | API | paths rendered from arguments in no order; a timeout while the request goes on | a tool ends at the handler it is for; success means done |
| config, logging, migrations, dashboard, docs | none of their own | | API | | |

`PROJECT.json` lists each of them with its status, and every hazard with its line and
the properties that would catch it.

## Modules

| Module | Models | Checked by |
|---|---|---|
| `Registry` | Manager, the session table, boot and death of the process, the device store | `MCRegistry`, `RegistryProofs` |
| `RegistryProofs` | theorems about `Registry` | TLAPS |
| `Session` | one Session, its QR consumers and event goroutines | `MCSession`, `SessionProofs` |
| `SessionProofs` | theorems about `Session` | TLAPS |
| `WebhookDelivery` | abstract: what delivery promises of one event and one hook | |
| `Dispatcher` | Dispatcher and the webhooks table; implements `WebhookDelivery` | `MCDispatcher`, `DispatcherProofs` |
| `DispatcherProofs` | theorems about `Dispatcher`, the refinement among them | TLAPS |
| `EventStream` | listeners, broadcast, handleWS, Close and the RWMutex | `MCEventStream`, `EventStreamProofs` |
| `EventStreamProofs` | theorems about `EventStream` | TLAPS |
| `KeyLifecycle` | abstract: what an API key promises | |
| `ApiKeys` | `api_keys`, login, key check and key handlers; implements `KeyLifecycle` | `MCApiKeys`, `ApiKeysProofs` |
| `ApiKeysProofs` | theorems about `ApiKeys`, the refinement among them | TLAPS |
| `Routes` | what `Server.routes` registers, and Fiber's matching | with `McpTools` |
| `Expiration` | chats' timers, and the cache the gateway keeps of them | with `McpTools` |
| `Requests` | one request through `Routes` and every handler, reading `Expiration` | with `McpTools` |
| `McpTools` | the tools and resources as clients of `Requests` | `MCMcpTools` |
| `HandlersProofs` | facts about the tables of handlers and routes, and which paths an entry takes | TLAPS |
| `RequestsProofs` | lemmas about the steps of `Requests` | TLAPS |
| `McpToolsProofs` | theorems about `McpTools` with `Requests` | TLAPS |

The MC modules only add the symmetry sets and the constants a `.cfg` cannot write. Definitions
marked "Mutant" in a module are plausible bugs: replacing the definition
after them by one makes TLC find the property violated that `PROJECT.json` names for it.

### Registry

One action is one statement, one lock section or one library call. `call[t]` is where
a request goroutine, or `main`, stands in the method it runs, with what it has read so far;
`note[k]` is a goroutine started by `notifyStatus`, between its read of the map
and its UPDATE. `rows[n]` is the row's `jid` (`NoRow`, `NoJid` for '', or a JID), `devices`
is whatsmeow's store, `obj[o]` a `*Session` with its client: it stays usable
after the map lost it, as a pointer does, and is collected when nothing refers to it and it
is down. `Crash` ends the process in any state and `BootList` .. `BootServe`
is the start of `main()`. `Faults` says what may fail: statements, device reads, connects,
logouts, the network. `owner` and `left` are history variables: the name a JID
was paired for, and the objects given up while their client ran or was about to. `LogoutClient` is a Logout with its two failures,
before anything changed and after the disconnection.

Left out: the status column (nothing reads it back while a session is mapped), `jidToName`
(written, never read), and timestamps. The unsynchronised map read in `notifyStatus`
and its double read of `Store.ID` can kill the process, which `Crash` covers. JIDs are handed
out once: a phone that pairs again gets a new device JID. Each statement is atomic, as it
is in SQLite and PostgreSQL.

### Session

An actor (API call, QR consumer, event goroutine) has in `todo` the writes that
its current step still has to make; `Write` is one lock section of `setStatus` or `setQR`.
`chan[x]` is the QR channel of one `Start`, with the items not yet read. whatsmeow is external
and is modelled from its use: `GetQRChannel` refuses a client that is connected or paired, a channel
ends on pairing, failure, disconnection and cancelling, each event gets its own
goroutine, and a client with credentials reconnects by itself. A Logout may fail in two ways: its
request does, and nothing has changed, or the wipe of the store does, after the disconnection (`LogoutFails`). A context can be cancelled before
`GetQRChannel` began its channel. `alone` and `inTurn` are history variables: TRUE until two activities,
or two API calls, have overlapped; `cut` while the status is one from before such a `LogoutFails`. A pairing ends the QR channel and calls the handler at the same
time, so the consumer's clearing of the code (`Clears`) is not counted as an overlap.

### WebhookDelivery and Dispatcher

`Emit` offers an event to the bus or drops it; `Receive`, `Deliver` and `LookupFails` are a
worker; `Post`, `Answered`, `PostFails` and `BuildFails` a sender goroutine. `Deliver` is the query
and the fan-out in one step: what comes between them is local to the worker and the senders start
on their own time anyway. Hooks are added, deleted and cascade with their session, ids are
not reused (`AUTOINCREMENT`), and event lists go through `Stored`, which is what joining and
splitting at commas does to the one list it changes, `[""]`. `Cancel` is SIGTERM, `Die` the
end of the process, `Restart` a new one with an empty bus. A refinement mapping takes an event held
by a worker to one that is still queued; `DeliveryPromises` says that `Dispatcher`
implements `WebhookDelivery`. SQLite is assumed with foreign keys on, as the documented
`DB_URI` has it.

### EventStream

`writer`, `pending`, `readers` and `blocked` are `sync.RWMutex`: a goroutine waiting in
`Lock` keeps new readers out, and `Unlock` lets the readers in that waited. A write section in
which nothing can block is one step; broadcast takes a step per listener and Close
several. `main` goes from serving through `srv.Shutdown` to `Close` and the exit; WebSocket
connections outlive `Shutdown`, because they are hijacked. Session's announcements are the senders
here: what they announce is not modelled, only that they do.

### KeyLifecycle and ApiKeys

`call[t]` is where a request stands between two statements: `LoginRotates` is the DELETE of a login
and `LoginIssues` its INSERT; `Arrive`, `CheckAPIKey` and `TouchAPIKey` are the middleware; `CreateKey`
and `DeleteKey` the statement of the handler behind it. A statement that fails may have had its
effect (the connection broke after it), and requests overlap at every statement. A key is drawn
once: it stands for its uuid, its hash and its row's id, and `live` are the keys with a row. `before`
is a history variable, the keys already inserted when the login that made a key began, by which
`LoginsSupersede` says that logins rotate. The refinement mapping takes a key to new,
working or revoked, and a request to asked or in; `KeysHaveOneLife` says that `ApiKeys` implements
`KeyLifecycle`. Left out: `last_used`, and the refusals before the first statement.

### Routes, Expiration, Requests and McpTools

`Routes` lists the entries in the order of `Server.routes`, middleware included; a path is the
sequence of its segments. `NextFit` is Fiber's choice, the first entry after the present one
that takes method and path, which decides what is behind `authMiddleware` and which of two
overlapping patterns answers. The app is not made `CaseSensitive` (router.go:30-34), so literals fit in any case: `Folded` takes a text to the
spelling the routes use, if it is one of theirs in another case. Parameters keep theirs. `Mount`'s fallback stands at the end.

`Requests` gives every handler as the sequence of its steps: `sendMedia` is
`<< Media, Resolve, Chat, Change("Upload"), Timer, Change("SendMessage") >>`, in the order of the code. An
action per kind of step says when it goes on and with which status it answers; a change may
fail before or after its effect, and `did` collects what was done. What a request holds
is chosen when a step reads it, unless several steps read it. Texts for chats and groups are
taken apart by `Written`, and `parseJID` and `parseGroupJID` are what the code makes of
the parts: a blank or malformed text is refused, and a group in the name of another server, but `@g.us`, which names no user, goes through. Successes are all 200.

`Expiration` has the timers that chats really have, the messages on their way with the timer
they tell, and `expCache`. A message may be dispatched after its session was deleted and the
name taken by another account. `told` and `onRecord` are history variables: which timers
messages of a chat named, and whether the cached timer is the present one. The
conversions int to int32 to uint32 and seconds to `time.Duration` are arithmetic with the widths
`Half` and `HalfDuration`.

`McpTools` adds the tables of tools and resources, with for each tool the handler its description tells of.
`RenderKey` handles one argument, in any order; `Forward` makes the request of what is rendered;
`GiveUp` is the timeout, after which the request goes on alone. Requests come from tools and from
other clients, one per behaviour: they share only the cache, and what sessions and keys do
meanwhile is a choice of the step that looks.

## Runs

| Run | Instance | Shows |
|---|---|---|
| `registry_isolation` | 2 names, 1 account, 2 objects, 2 callers creating, deleting and starting, 1 status goroutine; statements and logouts fail, connections drop | what holds under every interleaving: `AccountIsolation`, `RowOnlyFromCreate`, and which clients may run without a session (`OrphansAreLeft`, `OneClientPerDevice`) |
| `registry_sequential` | 1 name, 2 accounts, 2 objects, 1 caller and main, every operation, 2 status goroutines, 1 death; device reads, connects and logouts fail | when calls do not overlap, `SessionHasRow`; through logouts and second pairings, `BindingKept`; and progress: `PairingReachesRow`, `BootCompletes` |
| `registry_create_race` | 2 callers, 1 name | two Creates both succeed (openapi: 409) |
| `registry_recreate` | 1 caller, 2 status goroutines | a late goroutine binds a new session to the account of the deleted one ("New sessions get a fresh empty device") |
| `registry_restart` | 1 caller, 1 death | a death after pairing loses the session ("on next boot, match by JID") |
| `registry_orphan` | 1 caller, 1 name; logouts fail | a Delete whose Logout fails leaves the client connected for good ("Delete a session (also logs out)") |
| `session_life` | 1 caller, 1 event goroutine, 2 QR channels of 1 place, 1 code | QR channels stay cancellable and consumers end; while nothing overlaps the status is right and a paired session shows no code |
| `dispatcher` | 2 sessions, 2 kinds, 2 events, 1 hook, 1 worker, a bus of 1, 2 attempts, usable and unusable URLs, 1 death | exactly the standing subscribers are addressed; a hook deleted before the emission, also by cascade, hears nothing; the refinement, `QueuedIsHandled`, `SendersEnd` |
| `event_stream` | 2 senders, 2 clients of 1 place, 1 request, 1 status goroutine | no panic, no leaked listener, a list that stands still under a broadcast, and nobody blocks a broadcast or a leaving client before Close |
| `event_stream_close` | 1 sender, 1 client | Close waits for itself when a session is mapped |
| `api_keys` | 2 requests, 3 keys, the admin name and another; failing statements, 1 death | the refinement, `LoginsSupersede`, `OthersKeepTheirKeys` |
| `requests_and_tools` | every tool with every argument right or one of them wrong, every route with 9 values in its parameters, 2 watched chats, 2 timer changes, 2 messages under way; integers of 3 and 4 bits | checks before changes, keys before handlers, timers, media, path rendering, and that a tool reaches the handler it is for |

The violation runs each state what a comment or the API document says; TLC finds a behaviour
of the code that breaks it, and `PROJECT.json` ("findings") quotes the line.

Bounds. Two of everything that can race are enough for every race listed: check against install,
late write against delete, login against login, sender against closer. (A second worker, or hook, adds nothing that
the proofs of the dispatcher do not cover: workers share only the bus, senders only the table.) Isolation needs two names;
one account is enough for two names to collide in, and the proof covers the rest. A second account, to be
paired after a logout, is in `registry_sequential`. A bus
or channel of one place fills and drops after one item, as one of 256 or 64 does later;
a QR channel of one place can be empty, full and closed with an item left. The number of
status and event goroutines alive at once is bounded by waiting: a model with the
bound reached delays the next status change, so it has fewer interleavings and no
new ones. Each hook id and event is used once, which is what the ids in the table and the identity
of an event are. Three keys let two logins and a created key meet, or one login find the keys of two others.
A call on a session leaves nothing of itself behind, so calls that take turns are those of one caller; what may overlap,
`SessionProofs` covers. In `requests_and_tools` a request is alone, since requests share nothing but the cache; two chats of one JID under two
names, and changes of owner, show what crosses between sessions; two messages under way overtake
nothing but a deleted session's. Only during one send of each kind (`Observed`: with and without an
upload) do the chats go on. `Asked` runs past both ends of the narrow integers, so that every wrap
occurs. `MCTexts` has a text of each form the parsers tell apart, those without a user among them, names that are literals of
routes, also in another case, and names that are placeholders themselves or need an escape. A tool call has at most one faulty argument. `MaxCrashes` and `MaxDeaths` of 1 allow a boot from every
reachable table. Symmetry is used only in runs without liveness.

The runs of dispatcher, event stream, keys and requests switch the deadlock check off: with every event or key used up, the
request answered or the process gone, the model really stops (and Close really hangs). The liveness properties say
what must not be left waiting by then.

Fairness. `Registry`: goroutines are scheduled and statements answer, so calls, status
goroutines and boot are weakly fair; requests, phone events and crashes are not. `Dispatcher`: workers
and senders are weakly fair, since a sleep ends and `http.Client` gives up after 15 s; that an
endpoint answers well, or that a stopping process exits, is not assumed. `EventStream`:
broadcasts are weakly fair; lock sections are strongly fair, because `sync.RWMutex` holds
new readers back behind a waiting writer and the mutex among writers goes over to handing
off in order after a millisecond. No client is obliged to read or to leave.
`Session`, `ApiKeys` and `Requests` have no liveness property: the first two only react, and that a request
ends depends on strangers, because `http.Get` (messages.go:125, groups.go:300) has no timeout.

## Proofs

`RegistryProofs` proves, from `ConstantsAssumption` alone (distinct constants; any number
of names, accounts, objects, threads and goroutines):

- `TypeCorrect`: `Spec => []TypeOK`
- `AccountsIsolated`: `Spec => []AccountIsolation`
- `RowsOnlyFromCreate`: `Spec => RowOnlyFromCreate`
- `BindingsKept`: `Spec => BindingKept`
- `SessionsHaveRows`: `Spec => []SessionHasRow`, if `OneCaller`
- `RunningClientsAccountedFor`: `Spec => []OrphansAreLeft`
- `OneClientEach`: `Spec => []OneClientPerDevice`

`AccountIsolation` is not inductive: a row may be about to get a JID from a status goroutine that
read it long ago, and a session object from a Create that found it in the row. The
invariant `IInv` therefore says of every place a JID can be on its way (rows, objects, the locals
of calls and of status goroutines) that it goes with the name it was paired for (`Owned`), and
that a name's mapped object carries that name. Two names then cannot share an account
because `owner` is a function. The proof has one lemma per action; `KeptStep` collects what
an action leaves alone, and a lemma for each update (`ReturnKept`, `EnterKept`, `NotifyKept`, ...) says
that it keeps its part. The two action properties follow from `IInv` by the same split: the only
updates of `rows` are the upsert, the UPDATE and the DELETE. TLC also found
`IInv` to hold on the isolation instance with a crash and Logout added, before it was proved.

`SessionsHaveRows` is about requests one at a time (`OneCaller`), with status goroutines, events of the client,
`main()` and crashes in between, whatever fails. `Turns` says that main and the caller are never in a call at once, so what a call found in the map
still stands: nothing under that name for a Create or a Delete, its object for the others. TLC
found it to hold with two names before it was proved.

The last two assume nothing of the kind. That every running client belongs to a session is not true of the code: the run
`registry_orphan` shows a Delete that leaves one behind. The history variable `left` records the three
steps that can: a Delete whose Logout has failed with the client still up or reconnecting, a Create that overwrites a
session, a Start that connects an object which is no longer mapped. `OrphansAreLeft` says that there is no fourth way, and is inductive beside the types: a
step either leaves a client to whoever stood for it, its session or the Delete that will take it down, or takes it
down, or adds it to `left` (`OrphansKept`). `OneClientPerDevice` follows from it and `IInv`, because two objects with one JID carry one name, and a name
has one object in the map.

`DispatcherProofs` proves, from the `ConstantsAssumption` of `Dispatcher` (a bus of at least one
place, at least one attempt, lists of kinds, and sentinels that are no worker, row or kind; any
number of sessions, hooks, events, workers and restarts):

- `TypeCorrect`: `Spec => []TypeOK`
- `DeletedHooksHearNothing`: `Spec => []DeletedHookHearsNothing`
- `SubscribersAreAddressed`: `Spec => []SubscribersAddressed`
- `Implements`: `Spec => DeliveryPromises`, the refinement of `WebhookDelivery`

Its invariant adds three parts to the types. `TableInv`: an id that has a row is live or was
dismissed, and what an emission remembers of the ids agrees with that. `QueueInv`: what is on the
bus is queued, and once; otherwise two workers could receive the same event. `SenderInv`: only an event
that was fanned out has senders, each to a hook not dismissed before the emission; a
sender in `client.Do` has posted, one between posts has attempts left, and only a usable URL
is posted to, so giving up means none or all of the posts. `SubscribersAddressed` is
kept by every action but `Deliver` because what it compares, the row of a standing hook
and the envelope, never changes (`DecisionStands`); `Deliver` makes it true for its event,
which has no sender before. The refinement takes each action to the abstract step it is: an `Emit` to an
acceptance or a drop, `Deliver` to the fan-out, a sender's step to a post or to settling, and `Receive`
to a stutter.

`ApiKeysProofs` proves, from the `ConstantsAssumption` of `ApiKeys`:

- `TypeCorrect`: `Spec => []TypeOK`
- `LoginsSuperseded`: `Spec => []LoginsSupersede`
- `OthersKept`: `Spec => OthersKeepTheirKeys`
- `Implements`: `Spec => KeysHaveOneLife`, the refinement of `KeyLifecycle`

`LoginsSupersede` needs two facts to be inductive. `InsertedInv`: the histories name only inserted keys,
so a key inserted later is in none of them. `RotatedInv`: a login about to insert has seen every admin key it found at
its start deleted, and no key comes back. A lemma says that a step which only removes
rows keeps the invariant (`StepKept`), another that an insert does (`AddKept`). For the refinement, a request that is idle also shows no key
(`IdleInv`), and the DELETE of a login is the abstract revocation of the admin keys alive at that moment.

`McpToolsProofs` proves, of `McpTools` with all of `Requests` and `Expiration` below it:

- `TypeCorrect`: `Spec => []TypeOK`
- `RendersConfluently`: `Spec => []RenderingConfluent`
- `RefusalsAreClean`: `Spec => []RefusedDoesNothing`
- `KeysAreAsked`: `Spec => []NothingWithoutKey`
- `TimersAreTheirs`: `Spec => []SendTimers`
- `TimersAreFresh`: `Spec => []FreshTimers`
- `MediaAreWhole`: `Spec => []CutMediaIsNotSent`
- `GroupCallsNamed`: `Spec => []GroupCallsNameTheGroup`
- `ToolsReachTheirHandlers`: `Spec => []ToolReachesItsHandler`
- `OkIsHandled`: `Spec => []ToolOkMeansHandled`
- `CallsAreTaken`: `Spec => []WellFormedCallsAreTaken`

For `RendersConfluently`, each segment of a half-rendered path is the template's, or the escape of the argument of that slot;
since an escaped text has no brace (`McpAssumption`; `url.PathEscape` escapes braces), it
is never a slot, so no other argument can change it. Then nothing on the gateway's side
touches the path of a request (`Keeps`).

The others are about all handlers, so `HandlersProofs` says of a sequence of steps where a matter is decided:
`Turn(m, s, k)` if the k-th step of `s` decides `m`, those before it make no call that needs `m`, and those
after it leave `m` as it is. The matters are that nothing refuses any more, the timer of a message, that of a
group, the group, the chat, and that media are whole; every handler is in order for each (`StepsOfOrderly`).
A step takes the head off what is left, which is then in order too (`TailTurn`). In `RequestsProofs`,
`HandleSteps` says once for all steps what they make of the request; `Progress` and `Decisive` are the
invariants: no call that needs `m` was made, or `m` was decided and is right (`Settled`). For the timers `ChatsInv`
says that what is cached was told, and that it is the setting while that is on record; the integers are those of any width.

`KeysAreAsked` is about the router: `RoutesGuarded` says that each entry that is not open has a middleware in front
which takes whatever the entry takes (`Covers`), and the first entry that fits is the least (`NextFitIs`), so a
request that reaches a handler that is not public has passed the middleware first (`FirstIsOpen`, `Keyed`).

`GroupCallsNamed` joins the two sides. A handler about a group reads it from the fourth segment of the
path (`GroupPlace`); a tool's template that can reach one has `{gid}` there (`GroupSlot`), and that segment is the
escape of the argument `gid` (`ToolGroup`). `RequestsAssumption` says what a JID makes of it: a blank text names neither user nor server.

`ToolsReachTheirHandlers` is about the tools' table beside the router's. Each template mirrors one entry's pattern:
the same method and length, its literals the pattern's, its slots where the parameters are (`Mirrors`). Rendered with plain
texts, none of which is "sessions" in any case (`Plain`, `Folded`), it fits that entry and, of those in front of it, none but the middleware (`OfferedLand`, from `Takes` in
`HandlersProofs`). So from the request's beginning the entry of its tool is ahead of it, with nothing between that
could answer but a middleware that refuses the key (`Ahead`, `Arrives`): that is the invariant, `Reach`, kept by
`ServeArrives` because serving takes the first entry that fits. For `OkIsHandled`, `Heeded` says that a call hears only
the answer to its own request, and that this is a status of the gateway. TLC found both to hold on
the instance of `requests_and_tools` before they were proved.

`CallsAreTaken` sets what each tool requires beside what its handler reads. `Feeds(t, step)` says that the
step wants nothing a whole call of the tool `t` does not give: a field it requires beyond its slots, a body where
it posts one, an identifier where its template has the slot; and every offered tool feeds all steps of its
own handler (`OfferedFed`). The invariant `Supplied` follows a well-formed call: its body is
what `stripPathParams` leaves and `bodyOrNil` posts, and each step still to be taken is fed (`Supply`). A 400 comes only from a
step that lacks something (`Rejects`), and a fed step lacks nothing but what the URL yields or who takes part (`FedTakes`). `Supplied`
too was an invariant of TLC's run before it was proved; it needs `Reach`, since only its own handler's steps are fed.

`TypeCorrect` comes last because it needs the rest: what a JID is parsed from must be a text, or nothing is known of
it. A chat comes from the body, of which nothing is read if an argument in it has another type (`BodySent`,
`ChatsAreTexts`); a group from the fourth segment, where `GroupAsked` and `ToolPlace` find what a client wrote
there or the escape of a string (`GroupsAreTexts`). That these are texts is assumed of the instance's small
set of them (`PathsAssumption`, `McpAssumption`); in the code every string is one. A timer fits because
wrapping does (`WrapTyped`) and the cached ones are timers (`EffectiveTyped`).

`SessionProofs` proves, from the `ConstantsAssumption` of `Session`:

- `TypeCorrect`: `Spec => []TypeOK`
- `QRStaysCancellable`: `Spec => []QRCancellable`
- `NoConsumerStuck`: `Spec => []NoStuckConsumer`
- `StatusAgreement`: `Spec => []StatusAgrees`

Whatever overlaps, a channel that a Start holds is nobody else's and new until opened (`HeldInv`), a
client that was in has credentials (`LinkInv`), and the last item of a channel has a place (`ItemsInv`). While calls take
turns, a running channel is the one `qrCancel` cancels and its client waits for a pairing or is about
to be connected (`LiveInv`); no channel runs while a Start makes its own, nor between the cancelling and the
disconnection of a Stop (`CallInv`). The second is what a second Start would break. For `StatusAgreement`,
`SoloInv` says that at most one activity is in the middle of something (`Working`); that it is at a place listed in
`CallOutcome`, `HandlerOutcome` or `ConsumerOutcome`, each with what it has still to write and what the client is like
then; and that with none, the status is right. Each action takes a place of the
list to the next, or leaves `StatusRight` behind. Clearing the code after a pairing
happens beside all this (`AsideSolo`). `CodeInv` says that a paired client with a code left has a consumer about to
clear it, which is so because a client that waits to be paired has a running channel, the one its Start opened. TLC found the invariants to hold on the
instance of the run, and on one with two callers, two event goroutines and three channels as long as
nothing overlaps, before they were proved.

`EventStreamProofs` proves, from the `ConstantsAssumption` of `EventStream`:

- `TypeCorrect`: `Spec => []TypeOK`
- `NeverPanics`: `Spec => []NoPanic`
- `ListenersConnected`: `Spec => []ListenersAreConnections`
- `ListStable`: `Spec => ListIsStable`

A panic is a matter of the list and the open channels, so `ListInv` says that a channel is on the list once
and that the open channels are exactly those on it; `ConnectionInv` where a connection stands
when its channel is on the list; `MutexInv` that Close holds the lock exactly while it stops sessions, and that there are no
readers then. A broadcast that is stopped half-way resumes on the list it began with because whoever
changes the list has waited for the readers (`ListStable`).

Only model-checked: all liveness (temporal fairness is out of the prover's reach). Every invariant and every
action property of the passing runs is a theorem, for every value of the constants that meets the assumptions.

## What the code does otherwise

The violation runs, and while modelling:

- Delete logs out only a client that is logged in at that moment (manager.go:166-170); otherwise the
  credentials stay in the device store, though `openapi.yaml:122` says "also logs out". When the Logout fails, its error is
  dropped and the client stays connected (`registry_orphan`). A Create that overlaps another of its name, and a Start that
  overlaps a Delete, leave such clients too (`OrphansAreLeft`).
- Of two status goroutines of one session the later may write the JID that the other's pairing has replaced
  (manager.go:208-217); the next boot then finds no such device and starts the session unpaired.
- A Logout whose wipe of the store fails has disconnected and returns before it sets a status (session.go:145-149): the
  status goes on saying WORKING.
- Stop, LoggedOut and a pairing that fails leave the last QR code in place (session.go:134-143, 171, 125-129), and getQR goes on
  answering it, though `openapi.yaml:176` says "Empty if no QR pending".
- Of two Starts that overlap before either has connected, one loses its cancel function (session.go:92-94); its
  consumer may then wait for ever. `QRCancellable` and `NoStuckConsumer` are about calls that take turns.
- A text such as `@g.us` or `@s.whatsapp.net` names no user, but is neither blank (util.go:28, groups.go:17) nor an
  error to `types.ParseJID`, so that the call to WhatsApp is made with it. `GroupCallsNameTheGroup` allows that.
- A timer that is switched off is not recorded (manager.go:250), so replies go on disappearing, though messages.go:20-22 speaks
  of the last observed setting; the cache of a deleted session serves the next one of that name. `SendTimers` and `FreshTimers` say what does hold.
- Numbers beyond an int32 in a form (messages.go:93), and seconds beyond a `time.Duration` (groups.go:405), wrap; negative
  seconds are sent as they are.
- `setGroupPhoto` sends what it could read of a picture whose transfer broke (groups.go:292, 305).
- GET below `/api` that matches no route is answered by the dashboard with 200, so a tool whose
  path went wrong reports success. `ToolOkMeansHandled` is about plain calls for that reason, and a session named
  "sessions", in any case ("Sessions" too, since the router ignores it), or one that needs an escape in a path, cannot be reached by every tool.
- A tool that reports a failure, by its timeout for one, may have been carried out.

## Plan

Done: the registry, where a mistake mixes up accounts; the session under it, the
dispatcher, the stream; then keys, requests, timers and tools. What is left: the order of a
session's announcements, by composing Session with the stream.

Not modelled, with reasons in `PROJECT.json`: payload formatting and the bodies of answers, HTTP parsing below the
routes (Fiber's encoded paths included), HMAC
signing, configuration, logging, migrations, the dashboard, the MCP transport and its bearer token,
and whatsmeow's protocol beyond what the gateway sees of it.
