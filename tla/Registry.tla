------------------------------ MODULE Registry ------------------------------
(***************************************************************************)
(* The session registry: wa.Manager (Create, Get, Delete, LoadExisting and *)
(* the goroutine of notifyStatus), the app_sessions table of store.Repo it *)
(* keeps in step with, the boot sequence of cmd/server, and whatsmeow's    *)
(* device store as the code uses it.                                       *)
(*                                                                         *)
(* API calls run in threads, one statement, lock section or library call   *)
(* per action.  A session object reached through Get stays in use after    *)
(* the map lost it, as a pointer does.  The status column is left out: no  *)
(* code path reads it while a session object is mapped.  m.jidToName is    *)
(* left out: it is written and never read.                                 *)
(***************************************************************************)
EXTENDS Naturals, FiniteSets

CONSTANTS
  Names, Jids,          \* session names; device JIDs, each given out once
  Objects,              \* *Session objects in memory at once (a bound)
  Callers, Main,        \* HTTP request goroutines; the goroutine of main()
  Notes,                \* notifyStatus goroutines alive at once (a bound)
  NoName, NoJid, NoRow, NoObj,
  Ops,                  \* API operations in use
  Faults,               \* what may fail: library calls, the network
  MaxCrashes            \* process deaths (a bound)

Threads == Callers \cup {Main}

ASSUME ConstantsAssumption ==
  /\ NoName \notin Names /\ NoObj \notin Objects /\ Main \notin Callers
  /\ NoJid \notin Jids /\ NoRow \notin Jids \cup {NoJid}
  /\ Ops \subseteq {"create", "delete", "start", "stop", "logout"}
  /\ Faults \subseteq {"db", "device", "connect", "logout", "drop"}
  /\ MaxCrashes \in Nat

VARIABLES
  rows,      \* app_sessions: no row, a row without JID, or the bound JID
  devices,   \* JIDs whose credentials are in whatsmeow's store
  owner,     \* history: the session a JID was paired for
  sessions,  \* Manager.sessions
  obj,       \* the session objects: name, Store.ID and state of the client
  left,      \* history: objects given up while their client ran or was to run
  call,      \* the call each thread is executing
  note,      \* the goroutines started by notifyStatus
  phase, todo, \* progress of main(): the names still to load or start
  crashes

persistent == <<rows, devices, owner>>
objects == <<obj, left>>
vars == <<rows, devices, owner, sessions, obj, left, call, note, phase, todo, crashes>>

CreatePCs == {"upsert", "reread", "find", "device", "install"}
DeletePCs == {"teardown", "deleteLogout", "deleteStop", "deleteRow"}
CallPCs == {"idle", "start", "connect", "stop", "logout"} \cup CreatePCs \cup DeletePCs
Links == {"down", "retry", "up", "in"}  \* "retry": whatsmeow is reconnecting

Idle == [pc |-> "idle", name |-> NoName, obj |-> NoObj, jid |-> NoJid, row |-> "old"]
Unallocated == [name |-> NoName, jid |-> NoJid, link |-> "down"]
Free == [pc |-> "free", name |-> NoName, jid |-> NoJid]

Call == [pc : CallPCs, name : Names \cup {NoName}, obj : Objects \cup {NoObj},
         jid : Jids \cup {NoJid}, row : {"new", "old"}]
Object == [name : Names \cup {NoName}, jid : Jids \cup {NoJid}, link : Links]
Note == [pc : {"free", "read", "write"}, name : Names \cup {NoName}, jid : Jids \cup {NoJid}]

TypeOK ==
  /\ rows \in [Names -> Jids \cup {NoJid, NoRow}]
  /\ devices \subseteq Jids
  /\ owner \in [Jids -> Names \cup {NoName}]
  /\ sessions \in [Names -> Objects \cup {NoObj}]
  /\ obj \in [Objects -> Object] /\ left \subseteq Objects
  /\ call \in [Threads -> Call]
  /\ note \in [Notes -> Note]
  /\ phase \in {"list", "load", "start", "serve"}
  /\ todo \subseteq Names
  /\ crashes \in 0 .. MaxCrashes

Init ==
  /\ rows = [n \in Names |-> NoRow]
  /\ devices = {}
  /\ owner = [j \in Jids |-> NoName]
  /\ sessions = [n \in Names |-> NoObj]
  /\ obj = [o \in Objects |-> Unallocated] /\ left = {}
  /\ call = [t \in Threads |-> Idle]
  /\ note = [k \in Notes |-> Free]
  /\ phase = "list" /\ todo = {} /\ crashes = 0

-----------------------------------------------------------------------------
IsConnected(o) == obj[o].link \in {"up", "in"}
IsLoggedIn(o) == obj[o].link = "in"

CanCall(t, op) == t \in Callers /\ op \in Ops /\ phase = "serve" /\ call[t] = Idle

Return(t) == call' = [call EXCEPT ![t] = Idle]
Goto(t, pc) == call' = [call EXCEPT ![t].pc = pc]
Upserted(t, row) == call' = [call EXCEPT ![t] = [@ EXCEPT !.pc = "reread", !.row = row]]
Found(t, pc, j) == call' = [call EXCEPT ![t] = [@ EXCEPT !.pc = pc, !.jid = j]]
Enter(t, pc, n, o) == call' = [call EXCEPT ![t] = [Idle EXCEPT !.pc = pc, !.name = n, !.obj = o]]

SetLink(o, link) == obj' = [obj EXCEPT ![o].link = link]

\* notifyStatus starts a goroutine and does not wait for it.
Notify(n) ==
  \E k \in Notes : /\ note[k] = Free
                   /\ note' = [note EXCEPT ![k] = [pc |-> "read", name |-> n, jid |-> NoJid]]

-----------------------------------------------------------------------------
(* Manager.Create *)

\* The check is made under the lock, which is then released.  A name that is
\* mapped ends the call with ErrSessionExists.
CreateCheck(t, n) ==
  /\ sessions[n] = NoObj
  /\ Enter(t, "upsert", n, NoObj)

\* What nothing points to, and whatsmeow does not keep running, is collected.
Unreferenced(o) ==
  /\ obj[o].link = "down"
  /\ \A n \in Names : sessions[n] # o
  /\ \A t \in Threads : call[t].obj # o

\* The bound on Objects: every Create under way will find one.
Room ==
  Cardinality({t \in Threads : call[t].pc \in CreatePCs})
    < Cardinality({o \in Objects : Unreferenced(o)})

Create(t, n) ==
  /\ CanCall(t, "create") /\ Room
  /\ CreateCheck(t, n)
  /\ UNCHANGED <<persistent, sessions, objects, note, phase, todo, crashes>>

\* INSERT ... ON CONFLICT(name) DO UPDATE SET updated_at: keeps a bound JID.
CreateUpsert(t) ==
  LET n == call[t].name IN
  /\ call[t].pc = "upsert"
  /\ \/ /\ rows' = [rows EXCEPT ![n] = IF @ = NoRow THEN NoJid ELSE @]
        /\ Upserted(t, IF rows[n] = NoRow THEN "new" ELSE "old")
     \/ "db" \in Faults /\ Return(t) /\ UNCHANGED rows
  /\ UNCHANGED <<devices, owner, sessions, objects, note, phase, todo, crashes>>

\* UpsertSession reads the row back, and fails when it is gone by then.
CreateReread(t) ==
  /\ call[t].pc = "reread"
  /\ \/ rows[call[t].name] # NoRow /\ Goto(t, "find")
     \/ (rows[call[t].name] = NoRow \/ "db" \in Faults) /\ Return(t)
  /\ UNCHANGED <<persistent, sessions, objects, note, phase, todo, crashes>>

\* Mutant: a session without a JID takes a device the store has.
FindRowAnyDevice(t) ==
  /\ call[t].pc = "find"
  /\ IF rows[call[t].name] \in Jids
     THEN Found(t, "device", rows[call[t].name])
     ELSE \/ \E j \in devices : Found(t, "device", j)
          \/ Goto(t, "install")
  /\ UNCHANGED <<persistent, sessions, objects, note, phase, todo, crashes>>

\* findOrCreateDevice reads it once more; an error means a new device.
FindRow(t) ==
  LET row == rows[call[t].name] IN
  /\ call[t].pc = "find"
  /\ \/ row \in Jids /\ Found(t, "device", row)
     \/ (row \notin Jids \/ "db" \in Faults) /\ Goto(t, "install")
  /\ UNCHANGED <<persistent, sessions, objects, note, phase, todo, crashes>>

\* A JID the store does not know, or cannot read, gives a new device as well.
FindDevice(t) ==
  /\ call[t].pc = "device"
  /\ \/ call[t].jid \in devices /\ Goto(t, "install")
     \/ /\ call[t].jid \notin devices \/ "device" \in Faults
        /\ Found(t, "install", NoJid)
  /\ UNCHANGED <<persistent, sessions, objects, note, phase, todo, crashes>>

\* The map is written without a second look at what it holds.
CreateInstall(t) ==
  LET n == call[t].name IN
  /\ call[t].pc = "install"
  /\ \E o \in Objects :
       /\ Unreferenced(o)
       /\ obj' = [obj EXCEPT ![o] = [name |-> n, jid |-> call[t].jid, link |-> "down"]]
       /\ sessions' = [sessions EXCEPT ![n] = o]
       /\ left' = (left \ {o}) \cup ({sessions[n]} \ {NoObj})
  /\ Return(t)
  /\ UNCHANGED <<persistent, note, phase, todo, crashes>>

-----------------------------------------------------------------------------
(* What the library does to a session's client *)

Disconnect(o) == SetLink(o, "down")

\* A logout wipes the credentials in memory and in the store.
WipeDevice(o) ==
  /\ obj' = [obj EXCEPT ![o] = [@ EXCEPT !.link = "down", !.jid = NoJid]]
  /\ devices' = devices \ {obj[o].jid}

\* Session.Logout.  Client.Logout needs a login; when its request fails nothing
\* has changed, when the wipe of the store fails it has disconnected before, and
\* either error ends Session.Logout before it sets a status.
LogoutClient(o) ==
  \/ IsLoggedIn(o) /\ WipeDevice(o) /\ Notify(obj[o].name)
  \/ (~IsLoggedIn(o) \/ "logout" \in Faults) /\ UNCHANGED <<obj, devices, note>>
  \/ IsLoggedIn(o) /\ "logout" \in Faults /\ Disconnect(o) /\ UNCHANGED <<devices, note>>

-----------------------------------------------------------------------------
(* Manager.Delete *)

\* Mutant: the entry stays in the map.
DeleteKeepsEntry(t, n) ==
  /\ CanCall(t, "delete")
  /\ Enter(t, IF sessions[n] = NoObj THEN "deleteRow" ELSE "teardown", n, sessions[n])
  /\ UNCHANGED <<persistent, sessions, objects, note, phase, todo, crashes>>

DeleteUnmap(t, n) ==
  /\ CanCall(t, "delete")
  /\ sessions' = [sessions EXCEPT ![n] = NoObj]
  /\ Enter(t, IF sessions[n] = NoObj THEN "deleteRow" ELSE "teardown", n, sessions[n])
  /\ UNCHANGED <<persistent, objects, note, phase, todo, crashes>>

\* Mutant: a client that is not logged in is taken to be down.
DeleteTeardownLoggedIn(t) ==
  /\ call[t].pc = "teardown"
  /\ Goto(t, IF IsLoggedIn(call[t].obj) THEN "deleteLogout" ELSE "deleteRow")
  /\ UNCHANGED <<persistent, sessions, objects, note, phase, todo, crashes>>

DeleteTeardown(t) ==
  /\ call[t].pc = "teardown"
  /\ Goto(t, IF IsLoggedIn(call[t].obj) THEN "deleteLogout" ELSE "deleteStop")
  /\ UNCHANGED <<persistent, sessions, objects, note, phase, todo, crashes>>

\* The error of Logout is dropped, and Stop is not tried after it.
DeleteLogout(t) ==
  LET o == call[t].obj IN
  /\ call[t].pc = "deleteLogout"
  /\ LogoutClient(o)
  /\ left' = IF obj'[o].link = "down" THEN left ELSE left \cup {o}
  /\ Goto(t, "deleteRow")
  /\ UNCHANGED <<rows, owner, sessions, phase, todo, crashes>>

\* Mutant: only the status is set.
DeleteStopStatusOnly(t) ==
  /\ call[t].pc = "deleteStop"
  /\ Notify(call[t].name)
  /\ Goto(t, "deleteRow")
  /\ UNCHANGED <<persistent, sessions, objects, phase, todo, crashes>>

DeleteStop(t) ==
  LET o == call[t].obj IN
  /\ call[t].pc = "deleteStop"
  /\ Disconnect(o)
  /\ Notify(obj[o].name)
  /\ Goto(t, "deleteRow")
  /\ UNCHANGED <<persistent, sessions, left, phase, todo, crashes>>

DeleteRow(t) ==
  /\ call[t].pc = "deleteRow"
  /\ \/ rows' = [rows EXCEPT ![call[t].name] = NoRow]
     \/ "db" \in Faults /\ UNCHANGED rows
  /\ Return(t)
  /\ UNCHANGED <<devices, owner, sessions, objects, note, phase, todo, crashes>>

-----------------------------------------------------------------------------
(* Session.Start, Stop and Logout: Manager.Get first, then the method *)

Get(t, n, op) ==
  /\ CanCall(t, op)
  /\ sessions[n] # NoObj
  /\ Enter(t, op, n, sessions[n])
  /\ UNCHANGED <<persistent, sessions, objects, note, phase, todo, crashes>>

StartBegin(t) ==
  LET o == call[t].obj IN
  /\ call[t].pc = "start"
  /\ \/ IsConnected(o) /\ Return(t) /\ UNCHANGED note
     \/ ~IsConnected(o) /\ Goto(t, "connect") /\ Notify(obj[o].name)
  /\ UNCHANGED <<persistent, sessions, objects, phase, todo, crashes>>

\* Connect fails on a client that another call has connected meanwhile.
StartConnect(t) ==
  LET o == call[t].obj IN
  /\ call[t].pc = "connect"
  /\ \/ /\ ~IsConnected(o)
        /\ SetLink(o, "up")
        /\ left' = IF sessions[obj[o].name] = o THEN left ELSE left \cup {o}
        /\ UNCHANGED note
     \/ /\ IsConnected(o) \/ "connect" \in Faults
        /\ Notify(obj[o].name)
        /\ UNCHANGED objects
  /\ Return(t)
  /\ UNCHANGED <<persistent, sessions, phase, todo, crashes>>

Stop(t) ==
  LET o == call[t].obj IN
  /\ call[t].pc = "stop"
  /\ Disconnect(o)
  /\ Notify(obj[o].name)
  /\ Return(t)
  /\ UNCHANGED <<persistent, sessions, left, phase, todo, crashes>>

Logout(t) ==
  /\ call[t].pc = "logout"
  /\ LogoutClient(call[t].obj)
  /\ Return(t)
  /\ UNCHANGED <<rows, owner, sessions, left, phase, todo, crashes>>

-----------------------------------------------------------------------------
(* The goroutine of notifyStatus *)

\* Mutant: the test of Store.ID is inverted.
NoteReadInverted(k) ==
  /\ note[k].pc = "read"
  /\ note' = [note EXCEPT ![k].pc = "write"]
  /\ UNCHANGED <<persistent, sessions, objects, call, phase, todo, crashes>>

\* m.sessions is read without m.mu, long after the status change maybe.
NoteRead(k) ==
  LET o == sessions[note[k].name] IN
  /\ note[k].pc = "read"
  /\ note' = [note EXCEPT ![k] = [@ EXCEPT
        !.pc = "write", !.jid = IF o = NoObj THEN NoJid ELSE obj[o].jid]]
  /\ UNCHANGED <<persistent, sessions, objects, call, phase, todo, crashes>>

\* Mutants: an upsert; no COALESCE; the name bound in place of the JID.
UpdateSessionUpserts(n, j) ==
  rows' = [rows EXCEPT ![n] = IF j # NoJid THEN j ELSE IF @ = NoRow THEN NoJid ELSE @]
UpdateSessionOverwrites(n, j) == rows' = [rows EXCEPT ![n] = IF @ = NoRow THEN @ ELSE j]
UpdateSessionSwapped(n, j) == rows' = [rows EXCEPT ![n] = IF @ = NoRow THEN @ ELSE n]

\* UPDATE ... SET jid = COALESCE(NULLIF(?, ''), jid) WHERE name = ?
UpdateSessionStatus(n, j) ==
  rows' = [rows EXCEPT ![n] = IF @ = NoRow \/ j = NoJid THEN @ ELSE j]

NoteWrite(k) ==
  /\ note[k].pc = "write"
  /\ \/ UpdateSessionStatus(note[k].name, note[k].jid)
     \/ "db" \in Faults /\ UNCHANGED rows
  /\ note' = [note EXCEPT ![k] = Free]
  /\ UNCHANGED <<devices, owner, sessions, objects, call, phase, todo, crashes>>

-----------------------------------------------------------------------------
(* Events of the client, with what handleEvent does to the registry *)

Pair(o, j) ==
  /\ obj[o].link = "up" /\ obj[o].jid = NoJid
  /\ owner[j] = NoName
  /\ obj' = [obj EXCEPT ![o].jid = j]
  /\ devices' = devices \cup {j}
  /\ owner' = [owner EXCEPT ![j] = obj[o].name]
  /\ Notify(obj[o].name)
  /\ UNCHANGED <<rows, sessions, left, call, phase, todo, crashes>>

Connected(o) ==
  /\ obj[o].link = "up" /\ obj[o].jid \in devices
  /\ SetLink(o, "in")
  /\ Notify(obj[o].name)
  /\ UNCHANGED <<persistent, sessions, left, call, phase, todo, crashes>>

\* A dropped connection: handleEvent writes a status unless it is STOPPED.
Disconnected(o) ==
  /\ "drop" \in Faults /\ IsConnected(o)
  /\ SetLink(o, "retry")
  /\ Notify(obj[o].name) \/ UNCHANGED note
  /\ UNCHANGED <<persistent, sessions, left, call, phase, todo, crashes>>

Reconnect(o) ==
  /\ obj[o].link = "retry"
  /\ SetLink(o, "up")
  /\ UNCHANGED <<persistent, sessions, left, call, note, phase, todo, crashes>>

\* The phone removed the device: whatsmeow wipes it and reports LoggedOut.
LoggedOut(o) ==
  /\ IsConnected(o) /\ obj[o].jid # NoJid
  /\ WipeDevice(o)
  /\ Notify(obj[o].name)
  /\ UNCHANGED <<rows, owner, sessions, left, call, phase, todo, crashes>>

-----------------------------------------------------------------------------
(* main(): LoadExisting, auto-start, and the death of the process *)

BootList ==
  /\ phase = "list" /\ phase' = "load"
  /\ \/ todo' = {n \in Names : rows[n] # NoRow}
     \/ "db" \in Faults /\ todo' = {}
  /\ UNCHANGED <<persistent, sessions, objects, call, note, crashes>>

BootCreate(n) ==
  /\ phase = "load" /\ call[Main] = Idle /\ n \in todo
  /\ todo' = todo \ {n}
  /\ CreateCheck(Main, n)
  /\ UNCHANGED <<persistent, sessions, objects, note, phase, crashes>>

BootLoaded ==
  /\ phase = "load" /\ call[Main] = Idle /\ todo = {}
  /\ phase' = "start"
  /\ todo' = {n \in Names : sessions[n] # NoObj}
  /\ UNCHANGED <<persistent, sessions, objects, call, note, crashes>>

BootStart(n) ==
  /\ phase = "start" /\ call[Main] = Idle /\ n \in todo
  /\ todo' = todo \ {n}
  /\ IF obj[sessions[n]].jid = NoJid THEN UNCHANGED call
                                     ELSE Enter(Main, "start", n, sessions[n])
  /\ UNCHANGED <<persistent, sessions, objects, note, phase, crashes>>

\* Mutant: main waits until every started session has logged in.
BootServeAfterLogin ==
  /\ phase = "start" /\ call[Main] = Idle /\ todo = {}
  /\ \A o \in Objects : obj[o].jid # NoJid => IsLoggedIn(o)
  /\ phase' = "serve"
  /\ UNCHANGED <<persistent, sessions, objects, call, note, todo, crashes>>

BootServe ==
  /\ phase = "start" /\ call[Main] = Idle /\ todo = {}
  /\ phase' = "serve"
  /\ UNCHANGED <<persistent, sessions, objects, call, note, todo, crashes>>

Crash ==
  /\ crashes < MaxCrashes
  /\ crashes' = crashes + 1
  /\ sessions' = [n \in Names |-> NoObj]
  /\ obj' = [o \in Objects |-> Unallocated] /\ left' = {}
  /\ call' = [t \in Threads |-> Idle]
  /\ note' = [k \in Notes |-> Free]
  /\ phase' = "list" /\ todo' = {}
  /\ UNCHANGED persistent

-----------------------------------------------------------------------------
CallStep(t) ==
  \/ CreateUpsert(t) \/ CreateReread(t) \/ FindRow(t) \/ FindDevice(t) \/ CreateInstall(t)
  \/ DeleteTeardown(t) \/ DeleteLogout(t) \/ DeleteStop(t) \/ DeleteRow(t)
  \/ StartBegin(t) \/ StartConnect(t) \/ Stop(t) \/ Logout(t)

Request(t, n) ==
  \/ Create(t, n) \/ DeleteUnmap(t, n)
  \/ Get(t, n, "start") \/ Get(t, n, "stop") \/ Get(t, n, "logout")

NoteStep(k) == NoteRead(k) \/ NoteWrite(k)

Boot == BootList \/ BootLoaded \/ BootServe \/ \E n \in Names : BootCreate(n) \/ BootStart(n)

Event(o) ==
  \/ \E j \in Jids : Pair(o, j)
  \/ Connected(o) \/ Disconnected(o) \/ Reconnect(o) \/ LoggedOut(o)

Next ==
  \/ \E t \in Threads : CallStep(t)
  \/ \E t \in Callers, n \in Names : Request(t, n)
  \/ \E k \in Notes : NoteStep(k)
  \/ \E o \in Objects : Event(o)
  \/ Boot
  \/ Crash

Spec == Init /\ [][Next]_vars

\* Goroutines are scheduled and database calls answer; requests, events of
\* the phone and crashes come or do not.
Fairness ==
  /\ \A t \in Threads : WF_vars(CallStep(t))
  /\ \A k \in Notes : WF_vars(NoteStep(k))
  /\ WF_vars(Boot)

FairSpec == Spec /\ Fairness

-----------------------------------------------------------------------------
(* Properties *)

\* No two sessions are ever bound to one WhatsApp account: neither their rows
\* nor the devices of their clients coincide, whatever late status goroutines,
\* re-creations and restarts do to findOrCreateDevice and UpdateSessionStatus.
AccountIsolation ==
  /\ \A m, n \in Names : rows[m] \in Jids /\ rows[m] = rows[n] => m = n
  /\ \A p, q \in Objects :
       obj[p].jid \in Jids /\ obj[p].jid = obj[q].jid => obj[p].name = obj[q].name

\* A deleted session comes back only by a Create: the status goroutines that
\* outlive Manager.Delete update the row and never insert it.
RowOnlyFromCreate ==
  [][\A n \in Names : rows[n] = NoRow /\ rows'[n] # NoRow =>
       \E t \in Threads : call[t].pc = "upsert" /\ call[t].name = n]_vars

\* What re-attaches a session after a restart, the JID in its row, goes with the
\* row, in Manager.Delete, or gives way to another JID that was paired for the
\* session: no status change, logout, failure or re-creation clears it or puts
\* another session's in its place.  (The other JID may be an older one, that a
\* goroutine of notifyStatus read before a logout and a second pairing.)
BindingKept ==
  [][\A n \in Names : rows[n] \in Jids /\ rows'[n] # rows[n] =>
       \/ \E t \in Threads : call[t].pc = "deleteRow" /\ call[t].name = n
       \/ rows'[n] \in Jids /\ owner[rows'[n]] = n]_vars

\* A mapped session is never replaced by another object: Create answers
\* ErrSessionExists (openapi: 409 already exists).
NeverReplaced ==
  [][\A n \in Names : sessions[n] # NoObj => sessions'[n] \in {sessions[n], NoObj}]_vars

\* A session that can be used over the API is in the table LoadExisting reads.
SessionHasRow == \A n \in Names : sessions[n] # NoObj => rows[n] # NoRow

\* "Delete a session (also logs out)" (openapi.yaml): a client that is connected,
\* or reconnecting, belongs to a mapped session or is in the hands of a call.
NoOrphanClient ==
  \A o \in Objects : obj[o].link # "down" =>
    \/ sessions[obj[o].name] = o
    \/ \E t \in Threads : call[t].obj = o

TakingDown(o) ==
  \E t \in Threads : call[t].obj = o /\ call[t].pc \in {"teardown", "deleteLogout", "deleteStop"}

\* However calls, events and failures overlap, there are three ways to leave a
\* client running that no session stands for: a Delete whose Logout failed, a
\* Create that overwrote the session of another, a Start that connected after
\* the Delete.  Any other client that runs, or reconnects, is its session's, or
\* a Delete is still about to take it down.
OrphansAreLeft ==
  \A o \in Objects \ left : obj[o].link # "down" => sessions[obj[o].name] = o \/ TakingDown(o)

\* But for the clients left in those three ways, and until the Delete that takes
\* one of them down is through, no device is driven by two clients (WhatsApp would
\* have each of them replace the other's stream).
OneClientPerDevice ==
  \A p, q \in Objects \ left :
    p # q /\ obj[p].jid = obj[q].jid /\ obj[p].jid # NoJid =>
      \/ obj[p].link = "down" \/ obj[q].link = "down"
      \/ TakingDown(p) \/ TakingDown(q)

\* "New sessions get a fresh empty device" (findOrCreateDevice): a Create that
\* inserted the row does not attach the session to an earlier account.
NewSessionIsFresh ==
  \A t \in Threads : call[t].pc = "install" /\ call[t].row = "new" => call[t].jid = NoJid

\* "on next boot, match by JID": once LoadExisting is done, credentials that
\* were paired for a session with a row are attached to that session.
PairingSurvivesRestart ==
  phase = "start" => \A j \in devices : rows[owner[j]] # NoRow =>
    \E o \in Objects : sessions[owner[j]] = o /\ obj[o].jid = j

\* The JID of a paired session reaches its row, without which the next boot
\* starts it unpaired: a goroutine of notifyStatus, as its pairing starts one,
\* gets to write it, unless its UPDATE fails or the session is deleted, logged out
\* or paired again before.  (A goroutine that read an older JID may then write that.)
PairingReachesRow ==
  \A n \in Names, o \in Objects, j \in Jids :
    sessions[n] = o /\ obj[o].jid = j /\ (\E k \in Notes : note[k].pc = "read" /\ note[k].name = n)
      ~> rows[n] = j \/ sessions[n] # o \/ obj[o].jid # j

\* A restart ends in the API being served, whatever Create and Start answer.
BootCompletes == phase = "list" ~> phase = "serve"
=============================================================================
