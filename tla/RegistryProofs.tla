--------------------------- MODULE RegistryProofs ---------------------------
(***************************************************************************)
(* Registry keeps its types, isolates accounts, and leaves a client that   *)
(* no session stands for in three ways only, for all values of the         *)
(* constants; and while calls take turns every session has its row.        *)
(*                                                                         *)
(* AccountIsolation is not inductive: that two rows hold different JIDs    *)
(* rests on every copy of a JID (in a row, a client, a call between two of *)
(* its statements, a status goroutine about to write) belonging to the     *)
(* session it was paired for.                                              *)
(***************************************************************************)
EXTENDS Registry, TLAPS

Owned(j, n) == j \in Jids => n \in Names /\ owner[j] = n

\* A running call has a name, and an object of that name where it uses one.
GoodCall(c) ==
  /\ c.pc # "idle" => c.name \in Names
  /\ c.pc \notin CreatePCs \cup {"idle", "deleteRow"} => c.obj \in Objects
  /\ c.obj \in Objects => obj[c.obj].name = c.name
  /\ Owned(c.jid, c.name)

GoodNote(x) == (x.pc # "free" => x.name \in Names) /\ Owned(x.jid, x.name)

GoodObject(x) == (x.link # "down" => x.name \in Names) /\ Owned(x.jid, x.name)

GoodBoot == phase = "start" => \A n \in todo : sessions[n] \in Objects

IInv ==
  /\ TypeOK
  /\ \A n \in Names : Owned(rows[n], n)
  /\ \A t \in Threads : GoodCall(call[t])
  /\ \A k \in Notes : GoodNote(note[k])
  /\ \A o \in Objects : GoodObject(obj[o])
  /\ \A n \in Names : sessions[n] \in Objects => obj[sessions[n]].name = n
  /\ GoodBoot

-----------------------------------------------------------------------------
LEMMA Values ==
  /\ CreatePCs \cup DeletePCs \cup {"idle", "start", "connect", "stop", "logout"} \subseteq CallPCs
  /\ Idle \in Call /\ Unallocated \in Object /\ Free \in Note
  /\ \A c \in Call : c.name \in Names \cup {NoName} /\ c.obj \in Objects \cup {NoObj}
                       /\ c.jid \in Jids \cup {NoJid}
  /\ \A x \in Object : x.name \in Names \cup {NoName} /\ x.jid \in Jids \cup {NoJid}
  /\ \A x \in Note : x.name \in Names \cup {NoName} /\ x.jid \in Jids \cup {NoJid}
BY DEF CallPCs, Call, Idle, Object, Unallocated, Links, Note, Free

LEMMA InitIInv == Init => IInv
BY ConstantsAssumption, Values
DEF Init, IInv, TypeOK, Owned, GoodCall, GoodNote, GoodObject, GoodBoot, Idle, Unallocated, Free

-----------------------------------------------------------------------------
(* What nearly every action does: it keeps the objects and what they are *)
(* called, and each value it writes is as good as the one it replaces.   *)

RowsKept == rows' \in [Names -> Jids \cup {NoJid, NoRow}] /\ \A n \in Names : Owned(rows'[n], n)

CallsKept ==
  /\ call' \in [Threads -> Call]
  /\ \A t \in Threads : call'[t] = call[t] \/ GoodCall(call'[t])

NotesKept ==
  /\ note' \in [Notes -> Note]
  /\ \A k \in Notes : note'[k] = note[k] \/ GoodNote(note'[k])

ObjectsKept ==
  /\ obj' \in [Objects -> Object]
  /\ \A o \in Objects : /\ obj'[o].name = obj[o].name
                        /\ obj'[o] = obj[o] \/ GoodObject(obj'[o])
  /\ left' \subseteq Objects

SessionsKept ==
  /\ sessions' \in [Names -> Objects \cup {NoObj}]
  /\ \A n \in Names : sessions'[n] \in Objects => sessions'[n] = sessions[n]

BootKept ==
  /\ phase' \in {"list", "load", "start", "serve"} /\ todo' \subseteq Names
  /\ crashes' \in 0 .. MaxCrashes
  /\ GoodBoot'

LEMMA KeptStep ==
  ASSUME IInv, RowsKept, CallsKept, NotesKept, ObjectsKept, SessionsKept, BootKept,
         devices' \subseteq Jids, UNCHANGED owner
  PROVE  IInv'
<1> USE DEF IInv, Owned
<1>1. TypeOK'
  BY DEF TypeOK, RowsKept, CallsKept, NotesKept, ObjectsKept, SessionsKept, BootKept
<1>2. \A n \in Names : Owned(rows[n], n)' BY DEF RowsKept
<1>3. \A t \in Threads : GoodCall(call[t])'
  <2> TAKE t \in Threads
  <2>1. GoodCall(call'[t]) BY DEF CallsKept
  <2> QED BY <2>1 DEF GoodCall, ObjectsKept
<1>4. \A k \in Notes : GoodNote(note[k])' BY DEF NotesKept, GoodNote
<1>5. \A o \in Objects : GoodObject(obj[o])' BY DEF ObjectsKept, GoodObject
<1>6. \A n \in Names : (sessions[n] \in Objects => obj[sessions[n]].name = n)'
  BY DEF SessionsKept, ObjectsKept
<1> QED BY <1>1, <1>2, <1>3, <1>4, <1>5, <1>6 DEF BootKept

LEMMA Unchanged ==
  ASSUME IInv
  PROVE  /\ UNCHANGED rows => RowsKept
         /\ UNCHANGED call => CallsKept
         /\ UNCHANGED note => NotesKept
         /\ UNCHANGED objects => ObjectsKept
         /\ UNCHANGED sessions => SessionsKept
         /\ UNCHANGED <<sessions, phase, todo, crashes>> => BootKept
BY DEF IInv, TypeOK, RowsKept, CallsKept, NotesKept, ObjectsKept, SessionsKept, BootKept, GoodBoot,
       objects

(* The updates of calls, goroutines and objects *)

LEMMA ReturnKept == ASSUME IInv, NEW t \in Threads, Return(t) PROVE CallsKept
BY ConstantsAssumption, Values DEF IInv, TypeOK, Return, Idle, CallsKept, GoodCall, Owned

LEMMA GotoKept ==
  ASSUME IInv, NEW t \in Threads, NEW pc \in CallPCs, Goto(t, pc), call[t].pc # "idle",
         pc \in CreatePCs \cup {"deleteRow"} \/ call[t].obj \in Objects
  PROVE  CallsKept
<1>1. call \in [Threads -> Call] /\ GoodCall(call[t]) BY DEF IInv, TypeOK
<1>2. call' \in [Threads -> Call] /\ \A x \in Threads \ {t} : call'[x] = call[x]
  BY <1>1 DEF Goto, Call
<1>3. /\ call'[t].pc = pc /\ call'[t].name = call[t].name
      /\ call'[t].obj = call[t].obj /\ call'[t].jid = call[t].jid
  BY <1>1 DEF Goto, Call
<1> QED BY <1>1, <1>2, <1>3 DEF CallsKept, GoodCall

LEMMA UpsertedKept ==
  ASSUME IInv, NEW t \in Threads, NEW r \in {"new", "old"}, Upserted(t, r), call[t].pc # "idle"
  PROVE  CallsKept
<1>1. call \in [Threads -> Call] /\ GoodCall(call[t]) BY DEF IInv, TypeOK
<1>2. "reread" \in CallPCs BY DEF CallPCs, CreatePCs
<1>3. call' \in [Threads -> Call] /\ \A x \in Threads \ {t} : call'[x] = call[x]
  <2> DEFINE c == [call[t] EXCEPT !.pc = "reread", !.row = r]
  <2>1. c \in Call BY <1>1, <1>2 DEF Call
  <2>2. call' = [call EXCEPT ![t] = c] BY DEF Upserted
  <2> HIDE DEF c
  <2> QED BY <1>1, <2>1, <2>2
<1>4. /\ call'[t].pc = "reread" /\ call'[t].name = call[t].name
      /\ call'[t].obj = call[t].obj /\ call'[t].jid = call[t].jid
  BY <1>1 DEF Upserted, Call
<1> QED BY <1>1, <1>3, <1>4 DEF CallsKept, GoodCall, CreatePCs

LEMMA FoundKept ==
  ASSUME IInv, NEW t \in Threads, NEW pc \in CreatePCs, NEW j \in Jids \cup {NoJid},
         Found(t, pc, j), call[t].pc # "idle", Owned(j, call[t].name)
  PROVE  CallsKept
<1>1. call \in [Threads -> Call] /\ GoodCall(call[t]) BY DEF IInv, TypeOK
<1>2. pc \in CallPCs BY Values
<1>3. call' \in [Threads -> Call] /\ \A x \in Threads \ {t} : call'[x] = call[x]
  BY <1>1, <1>2 DEF Found, Call
<1>4. /\ call'[t].pc = pc /\ call'[t].name = call[t].name
      /\ call'[t].obj = call[t].obj /\ call'[t].jid = j
  BY <1>1 DEF Found, Call
<1> QED BY <1>1, <1>3, <1>4 DEF CallsKept, GoodCall

LEMMA EnterKept ==
  ASSUME IInv, NEW t \in Threads, NEW pc \in CallPCs, NEW n \in Names,
         NEW o \in Objects \cup {NoObj}, Enter(t, pc, n, o),
         pc \in CreatePCs \cup {"deleteRow"} \/ o \in Objects,
         o \in Objects => obj[o].name = n
  PROVE  CallsKept
<1>1. call \in [Threads -> Call] BY DEF IInv, TypeOK
<1>2. call' \in [Threads -> Call] /\ \A x \in Threads \ {t} : call'[x] = call[x]
  BY <1>1 DEF Enter, Call, Idle
<1>3. /\ call'[t].pc = pc /\ call'[t].name = n /\ call'[t].obj = o /\ call'[t].jid = NoJid
  BY <1>1 DEF Enter, Idle, Call
<1> QED BY <1>2, <1>3, ConstantsAssumption DEF CallsKept, GoodCall, Owned

LEMMA NotifyKept == ASSUME IInv, NEW n \in Names, Notify(n) PROVE NotesKept
BY ConstantsAssumption DEF IInv, TypeOK, Notify, Note, NotesKept, GoodNote, Owned

LEMMA SetLinkKept ==
  ASSUME IInv, NEW o \in Objects, NEW link \in Links, SetLink(o, link),
         link = "down" \/ obj[o].name \in Names, left' \subseteq left \cup {o}
  PROVE  ObjectsKept
<1>1. obj \in [Objects -> Object] /\ left \subseteq Objects /\ GoodObject(obj[o])
  BY DEF IInv, TypeOK
<1>2. obj' \in [Objects -> Object] /\ \A p \in Objects \ {o} : obj'[p] = obj[p]
  BY <1>1 DEF SetLink, Object
<1>3. obj'[o].name = obj[o].name /\ obj'[o].jid = obj[o].jid /\ obj'[o].link = link
  BY <1>1 DEF SetLink, Object
<1> QED BY <1>1, <1>2, <1>3 DEF ObjectsKept, GoodObject

LEMMA WipeDeviceKept ==
  ASSUME IInv, NEW o \in Objects, WipeDevice(o), left' \subseteq left \cup {o}
  PROVE  ObjectsKept /\ devices' \subseteq Jids
<1>1. obj \in [Objects -> Object] /\ left \subseteq Objects /\ devices \subseteq Jids
  BY DEF IInv, TypeOK
<1>2. obj' \in [Objects -> Object] /\ \A p \in Objects \ {o} : obj'[p] = obj[p]
  BY <1>1 DEF WipeDevice, Object, Links
<1>3. obj'[o].name = obj[o].name /\ obj'[o].jid = NoJid /\ obj'[o].link = "down"
  BY <1>1 DEF WipeDevice, Object
<1> QED BY <1>1, <1>2, <1>3, ConstantsAssumption DEF ObjectsKept, GoodObject, Owned, WipeDevice

LEMMA LogoutKept ==
  ASSUME IInv, NEW o \in Objects, obj[o].name \in Names, LogoutClient(o),
         left' \subseteq left \cup {o}
  PROVE  ObjectsKept /\ NotesKept /\ devices' \subseteq Jids
<1>1. CASE WipeDevice(o) /\ Notify(obj[o].name) BY <1>1, WipeDeviceKept, NotifyKept
<1>2. CASE UNCHANGED <<obj, devices, note>>
  BY <1>2, Unchanged DEF ObjectsKept, IInv, TypeOK
<1>3. CASE Disconnect(o) /\ UNCHANGED <<devices, note>>
  BY <1>3, SetLinkKept, Unchanged DEF Disconnect, Links, IInv, TypeOK
<1> QED BY <1>1, <1>2, <1>3 DEF LogoutClient

\* A call that is not idle holds a name; past the map it holds that name's object.
LEMMA Holds ==
  ASSUME IInv, NEW t \in Threads, call[t].pc # "idle"
  PROVE  /\ call[t].name \in Names
         /\ call[t].pc \notin CreatePCs \cup {"deleteRow"} =>
              call[t].obj \in Objects /\ obj[call[t].obj].name \in Names
BY DEF IInv, GoodCall

-----------------------------------------------------------------------------
(* The actions *)

LEMMA CreateUpsertStep == ASSUME IInv, NEW t \in Threads, CreateUpsert(t) PROVE IInv'
<1>1. call[t].pc # "idle" /\ call[t].name \in Names BY Holds DEF CreateUpsert
<1>2. CallsKept
  <2>1. CASE Return(t) BY <2>1, ReturnKept
  <2>2. CASE Upserted(t, IF rows[call[t].name] = NoRow THEN "new" ELSE "old")
    BY <1>1, <2>2, UpsertedKept
  <2> QED BY <2>1, <2>2 DEF CreateUpsert
<1>3. RowsKept BY <1>1, ConstantsAssumption DEF IInv, TypeOK, CreateUpsert, RowsKept, Owned
<1> QED BY <1>2, <1>3, Unchanged, KeptStep DEF CreateUpsert, IInv, TypeOK

LEMMA CreateRereadStep == ASSUME IInv, NEW t \in Threads, CreateReread(t) PROVE IInv'
<1>1. CallsKept
  <2>1. CASE Return(t) BY <2>1, ReturnKept
  <2>2. CASE Goto(t, "find") BY <2>2, GotoKept, Values DEF CreateReread, CreatePCs
  <2> QED BY <2>1, <2>2 DEF CreateReread
<1> QED BY <1>1, Unchanged, KeptStep DEF CreateReread, persistent, IInv, TypeOK

LEMMA FindRowStep == ASSUME IInv, NEW t \in Threads, FindRow(t) PROVE IInv'
<1>1. call[t].pc # "idle" /\ call[t].name \in Names BY Holds DEF FindRow
<1>2. CallsKept
  <2>1. CASE rows[call[t].name] \in Jids /\ Found(t, "device", rows[call[t].name])
    BY <1>1, <2>1, FoundKept DEF IInv, CreatePCs
  <2>2. CASE Goto(t, "install") BY <1>1, <2>2, GotoKept, Values DEF CreatePCs
  <2> QED BY <2>1, <2>2 DEF FindRow
<1> QED BY <1>2, Unchanged, KeptStep DEF FindRow, persistent, IInv, TypeOK

LEMMA FindDeviceStep == ASSUME IInv, NEW t \in Threads, FindDevice(t) PROVE IInv'
<1>1. call[t].pc # "idle" BY DEF FindDevice
<1>2. CallsKept
  <2>1. CASE Goto(t, "install") BY <1>1, <2>1, GotoKept, Values DEF CreatePCs
  <2>2. CASE Found(t, "install", NoJid)
    BY <1>1, <2>2, FoundKept, ConstantsAssumption DEF CreatePCs, Owned
  <2> QED BY <2>1, <2>2 DEF FindDevice
<1> QED BY <1>2, Unchanged, KeptStep DEF FindDevice, persistent, IInv, TypeOK

\* The one action that gives an object a name: no call and no map entry can
\* still be pointing to it.
LEMMA CreateInstallStep == ASSUME IInv, NEW t \in Threads, CreateInstall(t) PROVE IInv'
<1>1. call[t].name \in Names /\ GoodCall(call[t]) BY Holds DEF CreateInstall, IInv
<1>2. PICK o \in Objects :
        /\ Unreferenced(o)
        /\ obj' = [obj EXCEPT ![o] = [name |-> call[t].name, jid |-> call[t].jid, link |-> "down"]]
        /\ sessions' = [sessions EXCEPT ![call[t].name] = o]
  BY DEF CreateInstall
<1>3. CallsKept BY ReturnKept DEF CreateInstall
<1>4. /\ obj' \in [Objects -> Object]
      /\ obj'[o].name = call[t].name /\ obj'[o].jid = call[t].jid /\ obj'[o].link = "down"
      /\ \A p \in Objects \ {o} : obj'[p] = obj[p]
  BY <1>1, <1>2, Values DEF IInv, TypeOK, Object, Links
<1>5. \A x \in Threads : call'[x].obj # o
  BY <1>2, ConstantsAssumption DEF Unreferenced, CreateInstall, Return, Idle, IInv, TypeOK
<1>6. TypeOK' BY <1>1, <1>2, <1>3, <1>4 DEF IInv, TypeOK, CreateInstall, persistent, CallsKept
<1>7. \A x \in Threads : GoodCall(call[x])'
  <2> TAKE x \in Threads
  <2>1. GoodCall(call'[x]) BY <1>3 DEF CallsKept, IInv
  <2> QED BY <1>4, <1>5, <2>1 DEF GoodCall, Owned, CreateInstall, persistent
<1>8. \A p \in Objects : GoodObject(obj[p])'
  BY <1>1, <1>4 DEF IInv, GoodObject, GoodCall, Owned, CreateInstall, persistent
<1>9. \A n \in Names : (sessions[n] \in Objects => obj[sessions[n]].name = n)'
  BY <1>1, <1>2, <1>4 DEF IInv, TypeOK, Unreferenced
<1>10. (\A n \in Names : Owned(rows[n], n))' /\ (\A k \in Notes : GoodNote(note[k]))'
  BY DEF IInv, GoodNote, Owned, CreateInstall, persistent
<1>11. GoodBoot' BY <1>1, <1>2 DEF IInv, TypeOK, GoodBoot, CreateInstall
<1> QED BY <1>6, <1>7, <1>8, <1>9, <1>10, <1>11 DEF IInv

LEMMA DeleteTeardownStep == ASSUME IInv, NEW t \in Threads, DeleteTeardown(t) PROVE IInv'
<1>1. call[t].pc # "idle" /\ call[t].obj \in Objects BY Holds DEF DeleteTeardown, CreatePCs
<1>2. PICK pc \in {"deleteLogout", "deleteStop"} : Goto(t, pc) BY DEF DeleteTeardown
<1>3. CallsKept BY <1>1, <1>2, GotoKept, Values DEF DeletePCs
<1> QED BY <1>3, Unchanged, KeptStep DEF DeleteTeardown, persistent, IInv, TypeOK

LEMMA DeleteLogoutStep == ASSUME IInv, NEW t \in Threads, DeleteLogout(t) PROVE IInv'
<1>1. /\ call[t].pc # "idle" /\ call[t].obj \in Objects
      /\ obj[call[t].obj].name \in Names
  BY Holds DEF DeleteLogout, CreatePCs
<1>2. CallsKept BY <1>1, GotoKept, Values DEF DeleteLogout, DeletePCs
<1>3. ObjectsKept /\ NotesKept /\ devices' \subseteq Jids
  BY <1>1, LogoutKept DEF DeleteLogout
<1> QED BY <1>2, <1>3, Unchanged, KeptStep DEF DeleteLogout

LEMMA DeleteStopStep == ASSUME IInv, NEW t \in Threads, DeleteStop(t) PROVE IInv'
<1>1. /\ call[t].pc # "idle" /\ call[t].obj \in Objects
      /\ obj[call[t].obj].name \in Names
  BY Holds DEF DeleteStop, CreatePCs
<1>2. CallsKept BY <1>1, GotoKept, Values DEF DeleteStop, DeletePCs
<1>3. ObjectsKept BY <1>1, SetLinkKept DEF DeleteStop, Disconnect, Links
<1>4. NotesKept BY <1>1, NotifyKept DEF DeleteStop
<1> QED BY <1>2, <1>3, <1>4, Unchanged, KeptStep DEF DeleteStop, persistent, IInv, TypeOK

LEMMA DeleteRowStep == ASSUME IInv, NEW t \in Threads, DeleteRow(t) PROVE IInv'
<1>1. CallsKept BY ReturnKept DEF DeleteRow
<1>2. RowsKept BY ConstantsAssumption DEF IInv, TypeOK, DeleteRow, RowsKept, Owned
<1> QED BY <1>1, <1>2, Unchanged, KeptStep DEF DeleteRow, IInv, TypeOK

LEMMA StartBeginStep == ASSUME IInv, NEW t \in Threads, StartBegin(t) PROVE IInv'
<1>1. /\ call[t].pc # "idle" /\ call[t].obj \in Objects
      /\ obj[call[t].obj].name \in Names
  BY Holds DEF StartBegin, CreatePCs
<1>2. CallsKept BY <1>1, ReturnKept, GotoKept, Values DEF StartBegin
<1>3. NotesKept BY <1>1, NotifyKept, Unchanged DEF StartBegin
<1> QED BY <1>2, <1>3, Unchanged, KeptStep DEF StartBegin, persistent, IInv, TypeOK

LEMMA StartConnectStep == ASSUME IInv, NEW t \in Threads, StartConnect(t) PROVE IInv'
<1>1. call[t].obj \in Objects /\ obj[call[t].obj].name \in Names
  BY Holds DEF StartConnect, CreatePCs
<1>2. CallsKept BY ReturnKept DEF StartConnect
<1>3. ObjectsKept BY <1>1, SetLinkKept, Unchanged DEF StartConnect, Links
<1>4. NotesKept BY <1>1, NotifyKept, Unchanged DEF StartConnect
<1> QED BY <1>2, <1>3, <1>4, Unchanged, KeptStep DEF StartConnect, persistent, IInv, TypeOK

LEMMA StopStep == ASSUME IInv, NEW t \in Threads, Stop(t) PROVE IInv'
<1>1. call[t].obj \in Objects /\ obj[call[t].obj].name \in Names BY Holds DEF Stop, CreatePCs
<1>2. CallsKept BY ReturnKept DEF Stop
<1>3. ObjectsKept BY <1>1, SetLinkKept DEF Stop, Disconnect, Links
<1>4. NotesKept BY <1>1, NotifyKept DEF Stop
<1> QED BY <1>2, <1>3, <1>4, Unchanged, KeptStep DEF Stop, persistent, IInv, TypeOK

LEMMA LogoutStep == ASSUME IInv, NEW t \in Threads, Logout(t) PROVE IInv'
<1>1. call[t].obj \in Objects /\ obj[call[t].obj].name \in Names BY Holds DEF Logout, CreatePCs
<1>2. CallsKept BY ReturnKept DEF Logout
<1>3. ObjectsKept /\ NotesKept /\ devices' \subseteq Jids
  BY <1>1, LogoutKept DEF Logout
<1> QED BY <1>2, <1>3, Unchanged, KeptStep DEF Logout

(* Requests: the calls begin *)

LEMMA RequestStep == ASSUME IInv, NEW t \in Callers, NEW n \in Names, Request(t, n) PROVE IInv'
<1>1. t \in Threads /\ (sessions[n] \in Objects => obj[sessions[n]].name = n)
      /\ sessions[n] \in Objects \cup {NoObj}
  BY DEF IInv, TypeOK, Threads
<1>2. CASE Create(t, n)
  <2>1. CallsKept
    BY <1>1, <1>2, EnterKept, Values, ConstantsAssumption DEF Create, CreateCheck, CreatePCs
  <2> QED BY <1>2, <2>1, Unchanged, KeptStep DEF Create, persistent, IInv, TypeOK
<1>3. CASE DeleteUnmap(t, n)
  <2>1. CallsKept
    <3>1. CASE sessions[n] = NoObj
      BY <1>1, <1>3, <3>1, EnterKept, Values, ConstantsAssumption DEF DeleteUnmap, DeletePCs
    <3>2. CASE sessions[n] # NoObj
      BY <1>1, <1>3, <3>2, EnterKept, Values DEF DeleteUnmap, DeletePCs
    <3> QED BY <3>1, <3>2
  <2>2. SessionsKept BY <1>3, ConstantsAssumption DEF IInv, TypeOK, DeleteUnmap, SessionsKept
  <2>3. BootKept BY <1>3 DEF IInv, TypeOK, DeleteUnmap, CanCall, BootKept, GoodBoot
  <2> QED BY <1>3, <2>1, <2>2, <2>3, Unchanged, KeptStep DEF DeleteUnmap, persistent, IInv, TypeOK
<1>4. ASSUME NEW op \in {"start", "stop", "logout"}, Get(t, n, op) PROVE IInv'
  <2>1. CallsKept BY <1>1, <1>4, EnterKept, Values DEF Get
  <2> QED BY <1>4, <2>1, Unchanged, KeptStep DEF Get, persistent, IInv, TypeOK
<1> QED BY <1>2, <1>3, <1>4 DEF Request

(* The status goroutines *)

LEMMA NoteStepStep == ASSUME IInv, NEW k \in Notes, NoteStep(k) PROVE IInv'
<1>1. note \in [Notes -> Note] /\ GoodNote(note[k]) /\ obj \in [Objects -> Object]
  BY DEF IInv, TypeOK
<1>2. CASE NoteRead(k)
  <2> DEFINE o == sessions[note[k].name]
             j == IF o = NoObj THEN NoJid ELSE obj[o].jid
  <2>1. note[k].name \in Names BY <1>1, <1>2 DEF NoteRead, GoodNote
  <2>2. j \in Jids \cup {NoJid} /\ Owned(j, note[k].name)
    BY <2>1, <1>1, Values, ConstantsAssumption DEF IInv, TypeOK, GoodObject, Owned
  <2>3. note' = [note EXCEPT ![k] = [@ EXCEPT !.pc = "write", !.jid = j]]
    BY <1>2 DEF NoteRead
  <2> HIDE DEF j
  <2>4. note' \in [Notes -> Note] /\ \A x \in Notes \ {k} : note'[x] = note[x]
    BY <1>1, <2>2, <2>3 DEF Note
  <2>5. note'[k].name = note[k].name /\ note'[k].jid = j
    BY <1>1, <2>3 DEF Note
  <2>6. NotesKept BY <2>1, <2>2, <2>4, <2>5 DEF NotesKept, GoodNote
  <2> QED BY <1>2, <2>6, Unchanged, KeptStep DEF NoteRead, persistent, IInv, TypeOK
<1>3. CASE NoteWrite(k)
  <2>1. note[k].name \in Names /\ note[k].jid \in Jids \cup {NoJid}
    BY <1>1, <1>3, Values DEF NoteWrite, GoodNote
  <2>2. RowsKept
    <3>1. CASE UpdateSessionStatus(note[k].name, note[k].jid)
      BY <1>1, <2>1, <3>1 DEF IInv, TypeOK, UpdateSessionStatus, RowsKept, GoodNote, Owned
    <3>2. CASE UNCHANGED rows BY <3>2, Unchanged
    <3> QED BY <1>3, <3>1, <3>2 DEF NoteWrite
  <2>3. NotesKept
    BY <1>1, <1>3, Values, ConstantsAssumption DEF NoteWrite, NotesKept, GoodNote, Owned, Free
  <2> QED BY <1>3, <2>2, <2>3, Unchanged, KeptStep DEF NoteWrite, IInv, TypeOK
<1> QED BY <1>2, <1>3 DEF NoteStep

(* The events of a client *)

\* Pairing hands out a JID nobody holds, for the name of the object.
LEMMA PairStep == ASSUME IInv, NEW o \in Objects, NEW j \in Jids, Pair(o, j) PROVE IInv'
<1>1. obj \in [Objects -> Object] /\ owner \in [Jids -> Names \cup {NoName}] /\ obj[o].name \in Names
  BY DEF IInv, TypeOK, Pair, GoodObject
<1>2. \A i \in Jids \cup {NoJid, NoRow}, n \in Names \cup {NoName} : Owned(i, n) => Owned(i, n)'
  BY <1>1, ConstantsAssumption DEF Pair, Owned
<1>3. /\ obj' \in [Objects -> Object]
      /\ obj'[o].name = obj[o].name /\ obj'[o].jid = j /\ obj'[o].link = obj[o].link
      /\ \A p \in Objects \ {o} : obj'[p] = obj[p]
  BY <1>1 DEF Pair, Object
<1>4. NotesKept BY <1>1, NotifyKept DEF Pair
<1>5. TypeOK' BY <1>1, <1>3, <1>4 DEF IInv, TypeOK, Pair, NotesKept
<1>6. (\A n \in Names : Owned(rows[n], n))' BY <1>2 DEF IInv, TypeOK, Pair
<1>7. \A t \in Threads : GoodCall(call[t])'
  <2> TAKE t \in Threads
  <2>1. GoodCall(call[t]) /\ call[t] \in Call /\ call'[t] = call[t] BY DEF IInv, TypeOK, Pair
  <2>2. Owned(call[t].jid, call[t].name)' BY <1>2, <2>1, Values DEF GoodCall
  <2> QED BY <1>3, <2>1, <2>2 DEF GoodCall
<1>8. \A k \in Notes : GoodNote(note[k])'
  <2> TAKE k \in Notes
  <2>1. GoodNote(note'[k]) /\ note'[k] \in Note BY <1>4 DEF NotesKept, IInv
  <2> QED BY <1>2, <2>1, Values DEF GoodNote
<1>9. \A p \in Objects : GoodObject(obj[p])'
  <2> TAKE p \in Objects
  <2>1. CASE p = o BY <1>1, <1>3, <2>1 DEF GoodObject, Owned, Pair
  <2>2. CASE p # o
    <3>1. GoodObject(obj[p]) /\ obj[p] \in Object /\ obj'[p] = obj[p] BY <1>1, <1>3, <2>2 DEF IInv
    <3> QED BY <1>2, <3>1, Values DEF GoodObject
  <2> QED BY <2>1, <2>2
<1>10. (\A n \in Names : sessions[n] \in Objects => obj[sessions[n]].name = n)'
  BY <1>3 DEF IInv, Pair
<1>11. GoodBoot' BY DEF IInv, GoodBoot, Pair
<1> QED BY <1>5, <1>6, <1>7, <1>8, <1>9, <1>10, <1>11 DEF IInv

LEMMA EventStep == ASSUME IInv, NEW o \in Objects, Event(o) PROVE IInv'
<1>1. obj \in [Objects -> Object] /\ GoodObject(obj[o]) BY DEF IInv, TypeOK
<1>2. CASE \E j \in Jids : Pair(o, j) BY <1>2, PairStep
<1>3. CASE Connected(o)
  <2>1. obj[o].name \in Names BY <1>1, <1>3 DEF Connected, GoodObject
  <2>2. ObjectsKept /\ NotesKept
    BY <1>3, <2>1, SetLinkKept, NotifyKept DEF Connected, Links
  <2> QED BY <1>3, <2>2, Unchanged, KeptStep DEF Connected, persistent, IInv, TypeOK
<1>4. CASE Disconnected(o)
  <2>1. obj[o].name \in Names BY <1>1, <1>4 DEF Disconnected, IsConnected, GoodObject
  <2>2. ObjectsKept /\ NotesKept
    BY <1>4, <2>1, SetLinkKept, NotifyKept, Unchanged DEF Disconnected, Links
  <2> QED BY <1>4, <2>2, Unchanged, KeptStep DEF Disconnected, persistent, IInv, TypeOK
<1>5. CASE Reconnect(o)
  <2>1. obj[o].name \in Names BY <1>1, <1>5 DEF Reconnect, GoodObject
  <2>2. ObjectsKept BY <1>5, <2>1, SetLinkKept DEF Reconnect, Links
  <2> QED BY <1>5, <2>2, Unchanged, KeptStep DEF Reconnect, persistent, IInv, TypeOK
<1>6. CASE LoggedOut(o)
  <2>1. obj[o].name \in Names BY <1>1, <1>6 DEF LoggedOut, IsConnected, GoodObject
  <2>2. ObjectsKept /\ NotesKept /\ devices' \subseteq Jids
    BY <1>6, <2>1, WipeDeviceKept, NotifyKept DEF LoggedOut
  <2> QED BY <1>6, <2>2, Unchanged, KeptStep DEF LoggedOut
<1> QED BY <1>2, <1>3, <1>4, <1>5, <1>6 DEF Event

(* main() and crashes *)

LEMMA BootStep == ASSUME IInv, Boot PROVE IInv'
<1>1. Main \in Threads /\ sessions \in [Names -> Objects \cup {NoObj}] BY DEF Threads, IInv, TypeOK
<1>2. CASE BootList
  <2>1. BootKept BY <1>2 DEF BootList, BootKept, GoodBoot, IInv, TypeOK
  <2> QED BY <1>2, <2>1, Unchanged, KeptStep DEF BootList, persistent, IInv, TypeOK
<1>3. CASE BootLoaded
  <2>1. BootKept BY <1>1, <1>3 DEF BootLoaded, BootKept, GoodBoot, IInv, TypeOK
  <2> QED BY <1>3, <2>1, Unchanged, KeptStep DEF BootLoaded, persistent, IInv, TypeOK
<1>4. CASE BootServe
  <2>1. BootKept BY <1>4 DEF BootServe, BootKept, GoodBoot, IInv, TypeOK
  <2> QED BY <1>4, <2>1, Unchanged, KeptStep DEF BootServe, persistent, IInv, TypeOK
<1>5. ASSUME NEW n \in Names, BootCreate(n) PROVE IInv'
  <2>1. CallsKept
    BY <1>1, <1>5, EnterKept, Values, ConstantsAssumption DEF BootCreate, CreateCheck, CreatePCs
  <2>2. BootKept BY <1>5 DEF BootCreate, BootKept, GoodBoot, IInv, TypeOK
  <2> QED BY <1>5, <2>1, <2>2, Unchanged, KeptStep DEF BootCreate, persistent, IInv, TypeOK
<1>6. ASSUME NEW n \in Names, BootStart(n) PROVE IInv'
  <2>1. sessions[n] \in Objects /\ obj[sessions[n]].name = n
    BY <1>6 DEF BootStart, IInv, GoodBoot
  <2>2. CallsKept BY <1>1, <1>6, <2>1, EnterKept, Unchanged, Values DEF BootStart
  <2>3. BootKept BY <1>6 DEF BootStart, BootKept, GoodBoot, IInv, TypeOK
  <2> QED BY <1>6, <2>2, <2>3, Unchanged, KeptStep DEF BootStart, persistent, IInv, TypeOK
<1> QED BY <1>2, <1>3, <1>4, <1>5, <1>6 DEF Boot

LEMMA CrashStep == ASSUME IInv, Crash PROVE IInv'
<1>1. TypeOK' BY Values, ConstantsAssumption DEF IInv, TypeOK, Crash, persistent
<1>2. (\A n \in Names : Owned(rows[n], n))' BY DEF IInv, Owned, Crash, persistent
<1>3. (\A t \in Threads : GoodCall(call[t]))'
  BY ConstantsAssumption DEF Crash, GoodCall, Idle, Owned
<1>4. (\A k \in Notes : GoodNote(note[k]))' BY ConstantsAssumption DEF Crash, GoodNote, Free, Owned
<1>5. (\A o \in Objects : GoodObject(obj[o]))'
  BY ConstantsAssumption DEF Crash, GoodObject, Unallocated, Owned
<1>6. (\A n \in Names : sessions[n] \in Objects => obj[sessions[n]].name = n)'
  BY ConstantsAssumption DEF Crash
<1>7. GoodBoot' BY DEF Crash, GoodBoot
<1> QED BY <1>1, <1>2, <1>3, <1>4, <1>5, <1>6, <1>7 DEF IInv

-----------------------------------------------------------------------------
LEMMA NextStep == IInv /\ [Next]_vars => IInv'
<1> SUFFICES ASSUME IInv, [Next]_vars PROVE IInv' OBVIOUS
<1>1. ASSUME NEW t \in Threads, CallStep(t) PROVE IInv'
  BY <1>1, CreateUpsertStep, CreateRereadStep, FindRowStep, FindDeviceStep, CreateInstallStep,
     DeleteTeardownStep, DeleteLogoutStep, DeleteStopStep, DeleteRowStep,
     StartBeginStep, StartConnectStep, StopStep, LogoutStep DEF CallStep
<1>2. CASE UNCHANGED vars BY <1>2, Unchanged, KeptStep DEF vars, objects, IInv, TypeOK
<1> QED BY <1>1, <1>2, RequestStep, NoteStepStep, EventStep, BootStep, CrashStep DEF Next

\* Registry keeps its types.
THEOREM TypeCorrect == Spec => []TypeOK
<1>1. IInv => TypeOK BY DEF IInv
<1> QED BY <1>1, InitIInv, NextStep, PTL DEF Spec

\* Accounts stay isolated: two sessions never come to share a WhatsApp device.
THEOREM AccountsIsolated == Spec => []AccountIsolation
<1>1. IInv => AccountIsolation BY DEF IInv, AccountIsolation, GoodObject, Owned
<1> QED BY <1>1, InitIInv, NextStep, PTL DEF Spec

-----------------------------------------------------------------------------
(* The rows of app_sessions *)

\* What one step may do to the rows.
RowsStep ==
  \A n \in Names :
    /\ rows[n] = NoRow /\ rows'[n] # NoRow =>
         \E t \in Threads : call[t].pc = "upsert" /\ call[t].name = n
    /\ rows[n] \in Jids /\ rows'[n] # rows[n] =>
         \/ \E t \in Threads : call[t].pc = "deleteRow" /\ call[t].name = n
         \/ rows'[n] \in Jids /\ owner[rows'[n]] = n

LEMMA CreateUpsertRows == ASSUME IInv, NEW t \in Threads, CreateUpsert(t) PROVE RowsStep
<1> SUFFICES ASSUME NEW n \in Names PROVE
      /\ rows[n] = NoRow /\ rows'[n] # NoRow => call[t].pc = "upsert" /\ call[t].name = n
      /\ rows[n] \in Jids => rows'[n] = rows[n]
  BY DEF RowsStep
<1> QED BY ConstantsAssumption DEF IInv, TypeOK, CreateUpsert

LEMMA DeleteRowRows == ASSUME IInv, NEW t \in Threads, DeleteRow(t) PROVE RowsStep
<1> SUFFICES ASSUME NEW n \in Names PROVE
      rows'[n] # rows[n] => rows'[n] = NoRow /\ call[t].pc = "deleteRow" /\ call[t].name = n
  BY DEF RowsStep
<1> QED BY DEF IInv, TypeOK, DeleteRow

LEMMA NoteWriteRows == ASSUME IInv, NEW k \in Notes, NoteWrite(k) PROVE RowsStep
<1> SUFFICES ASSUME NEW n \in Names PROVE
      rows'[n] # rows[n] => rows[n] # NoRow /\ rows'[n] \in Jids /\ owner[rows'[n]] = n
  BY DEF RowsStep
<1>1. note[k].jid \in Jids \cup {NoJid} /\ Owned(note[k].jid, note[k].name)
  BY Values DEF IInv, TypeOK, GoodNote
<1> QED BY <1>1 DEF Owned, IInv, TypeOK, NoteWrite, UpdateSessionStatus

LEMMA NextRows == IInv /\ [Next]_vars => RowsStep
<1> SUFFICES ASSUME IInv, [Next]_vars PROVE RowsStep OBVIOUS
<1>1. UNCHANGED rows => RowsStep BY DEF RowsStep
<1>2. ASSUME NEW t \in Threads, CallStep(t) PROVE RowsStep
  BY <1>1, <1>2, CreateUpsertRows, DeleteRowRows
  DEF CallStep, CreateReread, FindRow, FindDevice, CreateInstall, DeleteTeardown, DeleteLogout,
      DeleteStop, StartBegin, StartConnect, Stop, Logout, persistent
<1>3. ASSUME NEW t \in Callers, NEW n \in Names, Request(t, n) PROVE RowsStep
  BY <1>1, <1>3 DEF Request, Create, DeleteUnmap, Get, persistent
<1>4. ASSUME NEW k \in Notes, NoteStep(k) PROVE RowsStep
  BY <1>1, <1>4, NoteWriteRows DEF NoteStep, NoteRead, persistent
<1>5. ASSUME NEW o \in Objects, Event(o) PROVE RowsStep
  BY <1>1, <1>5 DEF Event, Pair, Connected, Disconnected, Reconnect, LoggedOut, persistent
<1>6. CASE Boot
  BY <1>1, <1>6 DEF Boot, BootList, BootLoaded, BootServe, BootCreate, BootStart, persistent
<1>7. CASE Crash BY <1>1, <1>7 DEF Crash, persistent
<1>8. CASE UNCHANGED vars BY <1>1, <1>8 DEF vars
<1> QED BY <1>2, <1>3, <1>4, <1>5, <1>6, <1>7, <1>8 DEF Next

\* A deleted session returns only by Create, whatever status goroutine is late.
THEOREM RowsOnlyFromCreate == Spec => RowOnlyFromCreate
<1>1. IInv /\ [Next]_vars =>
        [\A n \in Names : rows[n] = NoRow /\ rows'[n] # NoRow =>
           \E t \in Threads : call[t].pc = "upsert" /\ call[t].name = n]_vars
  BY NextRows DEF RowsStep
<1> QED BY <1>1, InitIInv, NextStep, PTL DEF Spec, RowOnlyFromCreate

\* The binding of a session to its device goes with its row or to another device
\* that was paired for the session, never to nothing and never to another's.
THEOREM BindingsKept == Spec => BindingKept
<1>1. IInv /\ [Next]_vars =>
        [\A n \in Names : rows[n] \in Jids /\ rows'[n] # rows[n] =>
           \/ \E t \in Threads : call[t].pc = "deleteRow" /\ call[t].name = n
           \/ rows'[n] \in Jids /\ owner[rows'[n]] = n]_vars
  BY NextRows DEF RowsStep
<1> QED BY <1>1, InitIInv, NextStep, PTL DEF Spec, BindingKept

-----------------------------------------------------------------------------
(* Calls that take turns: with one caller, it and main are never in a call *)
(* at once, so that what a call found when it began still stands.          *)

OneCaller == \A s, t \in Callers : s = t

Turn(t) == phase = "serve" <=> t # Main

\* What a call found in the map, and what it has put into the table.
Place(t) ==
  /\ call[t].pc \in CreatePCs \cup {"idle"} => call[t].obj = NoObj
  /\ call[t].pc \in CreatePCs \cup DeletePCs => sessions[call[t].name] = NoObj
  /\ call[t].pc \in {"find", "device", "install"} => rows[call[t].name] # NoRow
  /\ call[t].pc \in {"start", "connect", "stop", "logout"} => sessions[call[t].name] = call[t].obj

Turns ==
  /\ \A t \in Threads : call[t].pc # "idle" => Turn(t)
  /\ \A t \in Threads : Place(t)
  /\ SessionHasRow

LEMMA InitTurns == Init => Turns
BY ConstantsAssumption
DEF Init, Turns, Place, SessionHasRow, Idle, Unallocated, CreatePCs, DeletePCs

\* While it is a thread's turn, the others are in no call.
LEMMA OthersIdle ==
  ASSUME OneCaller, Turns, NEW t \in Threads, Turn(t), NEW u \in Threads \ {t}
  PROVE  call[u].pc = "idle" /\ call[u].obj = NoObj
<1>1. call[u].pc = "idle" BY DEF Turns, Turn, OneCaller, Threads
<1> QED BY <1>1 DEF Turns, Place

\* A step of a thread in its turn leaves the turns in order if its own place is.
LEMMA TurnStep ==
  ASSUME OneCaller, Turns, NEW t \in Threads, Turn(t), UNCHANGED phase,
         \A u \in Threads \ {t} : call'[u] = call[u], Place(t)', SessionHasRow'
  PROVE  Turns'
<1>1. \A u \in Threads \ {t} : Place(u)'
  BY OthersIdle DEF Place, CreatePCs, DeletePCs
<1>2. \A u \in Threads : call'[u].pc # "idle" => Turn(u)'
  BY OthersIdle DEF Turn
<1> QED BY <1>1, <1>2 DEF Turns

(* What the updates make of a call. *)

Moves(t, pc) ==
  /\ \A u \in Threads \ {t} : call'[u] = call[u]
  /\ call'[t].pc = pc /\ call'[t].name = call[t].name /\ call'[t].obj = call[t].obj

Begins(t, pc, n, o) ==
  /\ \A u \in Threads \ {t} : call'[u] = call[u]
  /\ call'[t].pc = pc /\ call'[t].name = n /\ call'[t].obj = o

LEMMA ReturnIs ==
  ASSUME IInv, NEW t \in Threads, Return(t)
  PROVE  /\ \A u \in Threads \ {t} : call'[u] = call[u]
         /\ call'[t].pc = "idle" /\ call'[t].obj = NoObj
BY DEF IInv, TypeOK, Return, Idle

LEMMA GotoIs == ASSUME IInv, NEW t \in Threads, NEW pc, Goto(t, pc) PROVE Moves(t, pc)
BY DEF IInv, TypeOK, Goto, Moves, Call

LEMMA UpsertedIs ==
  ASSUME IInv, NEW t \in Threads, NEW r, Upserted(t, r) PROVE Moves(t, "reread")
BY DEF IInv, TypeOK, Upserted, Moves, Call

LEMMA FoundIs ==
  ASSUME IInv, NEW t \in Threads, NEW pc, NEW j, Found(t, pc, j) PROVE Moves(t, pc)
BY DEF IInv, TypeOK, Found, Moves, Call

LEMMA EnterIs ==
  ASSUME IInv, NEW t \in Threads, NEW pc, NEW n, NEW o, Enter(t, pc, n, o)
  PROVE  Begins(t, pc, n, o)
BY DEF IInv, TypeOK, Enter, Begins, Idle

-----------------------------------------------------------------------------
(* Each step leaves the turns in order. *)

LEMMA CreateTurns ==
  ASSUME IInv, OneCaller, Turns, NEW t \in Threads,
         CreateUpsert(t) \/ CreateReread(t) \/ FindRow(t) \/ FindDevice(t)
  PROVE  Turns'
<1> DEFINE n == call[t].name
<1>1. /\ call[t].pc \in CreatePCs /\ call[t].pc # "idle" /\ Turn(t) /\ n \in Names
      /\ call[t].obj = NoObj /\ sessions[n] = NoObj
  BY Holds DEF Turns, Place, CreateUpsert, CreateReread, FindRow, FindDevice, CreatePCs
<1>2. UNCHANGED <<sessions, phase>>
  BY DEF CreateUpsert, CreateReread, FindRow, FindDevice
<1>3. \A m \in Names : rows[m] # NoRow => rows'[m] # NoRow
  BY ConstantsAssumption
  DEF IInv, TypeOK, CreateUpsert, CreateReread, FindRow, FindDevice, persistent
<1>4. SessionHasRow' BY <1>2, <1>3 DEF SessionHasRow, Turns
<1>5. CASE Return(t) BY <1>1, <1>2, <1>4, <1>5, ReturnIs, TurnStep DEF Place, CreatePCs, DeletePCs
<1>6. ASSUME NEW pc \in CreatePCs, Moves(t, pc), pc # "reread" => rows'[n] # NoRow PROVE Turns'
  BY <1>1, <1>2, <1>4, <1>6, TurnStep DEF Place, Moves, CreatePCs, DeletePCs
<1>7. CASE CreateUpsert(t)
  <2>1. Return(t) \/ Moves(t, "reread") BY <1>7, UpsertedIs DEF CreateUpsert
  <2> QED BY <1>5, <1>6, <2>1 DEF CreatePCs
<1>8. CASE CreateReread(t)
  <2>1. Return(t) \/ (Moves(t, "find") /\ rows[n] # NoRow) BY <1>8, GotoIs DEF CreateReread
  <2> QED BY <1>1, <1>3, <1>5, <1>6, <2>1 DEF CreatePCs
<1>9. CASE FindRow(t)
  <2>1. rows[n] # NoRow BY <1>9 DEF Turns, Place, FindRow
  <2>2. Moves(t, "device") \/ Moves(t, "install") BY <1>9, FoundIs, GotoIs DEF FindRow
  <2> QED BY <1>1, <1>3, <1>6, <2>1, <2>2 DEF CreatePCs
<1>10. CASE FindDevice(t)
  <2>1. rows[n] # NoRow BY <1>10 DEF Turns, Place, FindDevice
  <2>2. Moves(t, "install") BY <1>10, FoundIs, GotoIs DEF FindDevice
  <2> QED BY <1>1, <1>3, <1>6, <2>1, <2>2 DEF CreatePCs
<1> QED BY <1>7, <1>8, <1>9, <1>10

LEMMA CreateInstallTurns ==
  ASSUME IInv, OneCaller, Turns, NEW t \in Threads, CreateInstall(t)
  PROVE  Turns'
<1>1. call[t].name \in Names /\ Turn(t) /\ rows[call[t].name] # NoRow
  BY Holds DEF Turns, Place, CreateInstall
<1>2. SessionHasRow'
  BY <1>1 DEF IInv, TypeOK, SessionHasRow, Turns, CreateInstall, persistent
<1> QED BY <1>1, <1>2, ReturnIs, TurnStep DEF CreateInstall, Place, CreatePCs, DeletePCs

LEMMA DeleteTurns ==
  ASSUME IInv, OneCaller, Turns, NEW t \in Threads,
         DeleteTeardown(t) \/ DeleteLogout(t) \/ DeleteStop(t) \/ DeleteRow(t)
  PROVE  Turns'
<1> DEFINE n == call[t].name
<1>1. Turn(t) /\ n \in Names /\ sessions[n] = NoObj
  BY Holds DEF Turns, Place, DeleteTeardown, DeleteLogout, DeleteStop, DeleteRow, DeletePCs
<1>2. UNCHANGED <<sessions, phase>>
  BY DEF DeleteTeardown, DeleteLogout, DeleteStop, DeleteRow, persistent
<1>3. SessionHasRow'
  BY <1>1, <1>2 DEF IInv, TypeOK, SessionHasRow, Turns, persistent,
     DeleteTeardown, DeleteLogout, DeleteStop, DeleteRow
<1>4. ASSUME NEW pc \in DeletePCs, Goto(t, pc) PROVE Turns'
  BY <1>1, <1>2, <1>3, <1>4, GotoIs, TurnStep DEF Place, Moves, CreatePCs, DeletePCs
<1>5. CASE Return(t) BY <1>1, <1>2, <1>3, <1>5, ReturnIs, TurnStep DEF Place, CreatePCs, DeletePCs
<1> QED BY <1>4, <1>5 DEF DeleteTeardown, DeleteLogout, DeleteStop, DeleteRow, DeletePCs

LEMMA UseTurns ==
  ASSUME IInv, OneCaller, Turns, NEW t \in Threads,
         StartBegin(t) \/ StartConnect(t) \/ Stop(t) \/ Logout(t)
  PROVE  Turns'
<1>1. Turn(t) /\ call[t].name \in Names /\ sessions[call[t].name] = call[t].obj
  BY Holds DEF Turns, Place, StartBegin, StartConnect, Stop, Logout
<1>2. UNCHANGED <<rows, sessions, phase>>
  BY DEF StartBegin, StartConnect, Stop, Logout, persistent
<1>3. SessionHasRow' BY <1>2 DEF SessionHasRow, Turns
<1>4. CASE Goto(t, "connect")
  BY <1>1, <1>2, <1>3, <1>4, GotoIs, TurnStep DEF Place, Moves, CreatePCs, DeletePCs
<1>5. CASE Return(t) BY <1>1, <1>2, <1>3, <1>5, ReturnIs, TurnStep DEF Place, CreatePCs, DeletePCs
<1> QED BY <1>4, <1>5 DEF StartBegin, StartConnect, Stop, Logout

LEMMA RequestTurns ==
  ASSUME IInv, OneCaller, Turns, NEW t \in Callers, NEW n \in Names, Request(t, n)
  PROVE  Turns'
<1>1. t \in Threads /\ Turn(t)
  BY ConstantsAssumption DEF Request, Create, DeleteUnmap, Get, CanCall, Turn, Threads
<1>2. UNCHANGED <<rows, phase>>
  BY DEF Request, Create, DeleteUnmap, Get, persistent
<1>3. CASE Create(t, n)
  <2>1. Begins(t, "upsert", n, NoObj) /\ sessions[n] = NoObj /\ UNCHANGED sessions
    BY <1>1, <1>3, EnterIs DEF Create, CreateCheck
  <2> QED BY <1>1, <1>2, <2>1, TurnStep
      DEF Begins, Place, SessionHasRow, Turns, CreatePCs, DeletePCs
<1>4. CASE DeleteUnmap(t, n)
  <2>1. PICK pc \in DeletePCs : Begins(t, pc, n, sessions[n])
    BY <1>1, <1>4, EnterIs DEF DeleteUnmap, DeletePCs
  <2>2. sessions'[n] = NoObj /\ SessionHasRow'
    BY <1>2, <1>4 DEF IInv, TypeOK, DeleteUnmap, SessionHasRow, Turns
  <2> QED BY <1>1, <1>2, <2>1, <2>2, TurnStep DEF Begins, Place, CreatePCs, DeletePCs
<1>5. ASSUME NEW op \in {"start", "stop", "logout"}, Get(t, n, op) PROVE Turns'
  <2>1. Begins(t, op, n, sessions[n]) /\ UNCHANGED sessions BY <1>1, <1>5, EnterIs DEF Get
  <2> QED BY <1>1, <1>2, <2>1, TurnStep
      DEF Begins, Place, SessionHasRow, Turns, CreatePCs, DeletePCs
<1> QED BY <1>3, <1>4, <1>5 DEF Request

\* What goes on beside the calls adds and changes rows, and removes none.
LEMMA AsideTurns ==
  ASSUME Turns, UNCHANGED <<sessions, call, phase>>,
         \A n \in Names : rows[n] # NoRow => rows'[n] # NoRow,
         \A t \in Threads : call[t].pc # "idle" => call[t].name \in Names
  PROVE  Turns'
<1>1. \A t \in Threads : Place(t)' BY DEF Turns, Place
<1> QED BY <1>1 DEF Turns, Turn, SessionHasRow

LEMMA BootTurns == ASSUME IInv, OneCaller, Turns, Boot PROVE Turns'
<1>1. Main \in Threads /\ UNCHANGED <<rows, sessions>>
  BY DEF Threads, Boot, BootList, BootLoaded, BootServe, BootCreate, BootStart, persistent
<1>2. SessionHasRow' BY <1>1 DEF SessionHasRow, Turns
<1>3. CASE BootList \/ BootLoaded \/ BootServe
  <2>1. UNCHANGED call BY <1>3 DEF BootList, BootLoaded, BootServe
  <2>2. \A t \in Threads : Place(t)' BY <1>1, <2>1 DEF Turns, Place
  <2>3. \A t \in Threads : call[t].pc # "idle" => Turn(t)'
    BY <1>3 DEF Turns, Turn, BootList, BootLoaded, BootServe, Idle
  <2> QED BY <1>2, <2>1, <2>2, <2>3 DEF Turns
<1>4. ASSUME NEW n \in Names, BootCreate(n) PROVE Turns'
  <2>1. Begins(Main, "upsert", n, NoObj) /\ sessions[n] = NoObj /\ UNCHANGED phase
    BY <1>1, <1>4, EnterIs DEF BootCreate, CreateCheck
  <2>2. Turn(Main) BY <1>4 DEF BootCreate, Turn
  <2> QED BY <1>1, <1>2, <2>1, <2>2, TurnStep DEF Begins, Place, CreatePCs, DeletePCs
<1>5. ASSUME NEW n \in Names, BootStart(n) PROVE Turns'
  <2>1. Turn(Main) /\ UNCHANGED phase BY <1>5 DEF BootStart, Turn
  <2>2. CASE UNCHANGED call
    BY <1>1, <1>2, <2>1, <2>2, TurnStep DEF Turns, Place
  <2>3. CASE Enter(Main, "start", n, sessions[n])
    <3>1. Begins(Main, "start", n, sessions[n]) BY <1>1, <2>3, EnterIs
    <3> QED BY <1>1, <1>2, <2>1, <3>1, TurnStep DEF Begins, Place, CreatePCs, DeletePCs
  <2> QED BY <1>5, <2>2, <2>3 DEF BootStart
<1> QED BY <1>3, <1>4, <1>5 DEF Boot

LEMMA NextTurns == IInv /\ OneCaller /\ Turns /\ [Next]_vars => Turns'
<1> SUFFICES ASSUME IInv, OneCaller, Turns, [Next]_vars PROVE Turns' OBVIOUS
<1>1. \A t \in Threads : call[t].pc # "idle" => call[t].name \in Names BY Holds
<1>2. ASSUME NEW t \in Threads, CallStep(t) PROVE Turns'
  BY <1>2, CreateTurns, CreateInstallTurns, DeleteTurns, UseTurns DEF CallStep
<1>3. ASSUME NEW k \in Notes, NoteStep(k) PROVE Turns'
  <2>1. UNCHANGED <<sessions, call, phase>> BY <1>3 DEF NoteStep, NoteRead, NoteWrite
  <2>2. \A n \in Names : rows[n] # NoRow => rows'[n] # NoRow
    BY <1>3, Values, ConstantsAssumption
    DEF NoteStep, NoteRead, NoteWrite, UpdateSessionStatus, persistent, IInv, TypeOK
  <2> QED BY <1>1, <2>1, <2>2, AsideTurns
<1>4. ASSUME NEW o \in Objects, Event(o) PROVE Turns'
  BY <1>1, <1>4, AsideTurns
  DEF Event, Pair, Connected, Disconnected, Reconnect, LoggedOut, persistent
<1>5. CASE Crash
  BY <1>5 DEF Crash, Turns, Place, SessionHasRow, Idle, CreatePCs, DeletePCs
<1>6. CASE UNCHANGED vars BY <1>1, <1>6, AsideTurns DEF vars
<1> QED BY <1>2, <1>3, <1>4, <1>5, <1>6, RequestTurns, BootTurns DEF Next

\* As long as calls take turns, a session that is in the map is in the table: a
\* restart finds it again.
THEOREM SessionsHaveRows == ASSUME OneCaller PROVE Spec => []SessionHasRow
<1>1. Turns => SessionHasRow BY DEF Turns
<1>2. IInv /\ Turns /\ [Next]_vars => (IInv /\ Turns)' BY NextStep, NextTurns
<1> QED BY <1>1, <1>2, InitIInv, InitTurns, PTL DEF Spec

-----------------------------------------------------------------------------
(* Who runs without a session was left.                                    *)

TakingPCs == {"teardown", "deleteLogout", "deleteStop"}

LEMMA LinkIs ==
  ASSUME IInv, NEW o \in Objects, NEW link, SetLink(o, link)
  PROVE  /\ \A p \in Objects \ {o} : obj'[p] = obj[p]
         /\ obj'[o].link = link /\ obj'[o].name = obj[o].name
BY DEF IInv, TypeOK, Object, SetLink

LEMMA WipedIs ==
  ASSUME IInv, NEW o \in Objects, WipeDevice(o)
  PROVE  /\ \A p \in Objects \ {o} : obj'[p] = obj[p]
         /\ obj'[o].link = "down" /\ obj'[o].name = obj[o].name
BY DEF IInv, TypeOK, Object, WipeDevice

LEMMA LogoutIs ==
  ASSUME IInv, NEW o \in Objects, LogoutClient(o)
  PROVE  /\ \A p \in Objects \ {o} : obj'[p] = obj[p]
         /\ obj'[o].link \in {obj[o].link, "down"} /\ obj'[o].name = obj[o].name
BY LinkIs, WipedIs DEF LogoutClient, Disconnect

\* What keeps OrphansAreLeft: a client that runs after the step ran before it,
\* and was not left, and whoever stood for it still does; or it is its session's.
LEMMA OrphansKept ==
  ASSUME OrphansAreLeft,
         \A o \in Objects \ left' : obj'[o].link # "down" =>
           \/ /\ o \notin left /\ obj[o].link # "down" /\ obj'[o].name = obj[o].name
              /\ sessions[obj[o].name] = o => sessions'[obj[o].name] = o \/ TakingDown(o)'
              /\ TakingDown(o) => TakingDown(o)'
           \/ sessions'[obj'[o].name] = o
  PROVE  OrphansAreLeft'
BY DEF OrphansAreLeft

\* A thread that was not taking a client down, or still is, leaves it to the
\* same hands.
LEMMA TakingKept ==
  ASSUME NEW t \in Threads, \A u \in Threads \ {t} : call'[u] = call[u], NEW o,
         \/ call[t].pc \notin TakingPCs \/ call[t].obj # o
         \/ call'[t].pc \in TakingPCs /\ call'[t].obj = call[t].obj
  PROVE  TakingDown(o) => TakingDown(o)'
BY DEF TakingDown, TakingPCs

LEMMA CreateOrphans ==
  ASSUME IInv, OrphansAreLeft, NEW t \in Threads,
         CreateUpsert(t) \/ CreateReread(t) \/ FindRow(t) \/ FindDevice(t)
  PROVE  OrphansAreLeft'
<1>1. call[t].pc \notin TakingPCs
  BY DEF CreateUpsert, CreateReread, FindRow, FindDevice, TakingPCs
<1>2. UNCHANGED <<sessions, obj, left>>
  BY DEF CreateUpsert, CreateReread, FindRow, FindDevice, objects
<1>3. \A u \in Threads \ {t} : call'[u] = call[u]
  BY ReturnIs, UpsertedIs, GotoIs, FoundIs
  DEF CreateUpsert, CreateReread, FindRow, FindDevice, Moves
<1>4. \A o : TakingDown(o) => TakingDown(o)' BY <1>1, <1>3, TakingKept
<1> QED BY <1>2, <1>4, OrphansKept

\* The object is new and its client down; the one it replaces is left.
LEMMA CreateInstallOrphans ==
  ASSUME IInv, OrphansAreLeft, NEW t \in Threads, CreateInstall(t)
  PROVE  OrphansAreLeft'
<1> DEFINE n == call[t].name
<1>1. n \in Names /\ call[t].pc \notin TakingPCs BY Holds DEF CreateInstall, TakingPCs
<1>2. PICK o \in Objects :
        /\ obj' = [obj EXCEPT ![o] = [name |-> n, jid |-> call[t].jid, link |-> "down"]]
        /\ sessions' = [sessions EXCEPT ![n] = o]
        /\ left' = (left \ {o}) \cup ({sessions[n]} \ {NoObj})
  BY DEF CreateInstall
<1>3. \A p : TakingDown(p) => TakingDown(p)' BY <1>1, ReturnIs, TakingKept DEF CreateInstall
<1>4. ASSUME NEW p \in Objects \ left', obj'[p].link # "down"
      PROVE  /\ p \notin left /\ obj'[p] = obj[p]
             /\ sessions[obj[p].name] = p => sessions'[obj[p].name] = p
  <2>1. p # o /\ obj'[p] = obj[p] BY <1>2, <1>4 DEF IInv, TypeOK
  <2>2. p \notin left /\ p # sessions[n] BY <1>2, <1>4, <2>1, ConstantsAssumption
  <2>3. obj[p].name \in Names BY <1>4, <2>1 DEF IInv, GoodObject
  <2> QED BY <1>1, <1>2, <2>1, <2>2, <2>3 DEF IInv, TypeOK
<1> QED BY <1>3, <1>4, OrphansKept

LEMMA DeleteOrphans ==
  ASSUME IInv, OrphansAreLeft, NEW t \in Threads,
         DeleteTeardown(t) \/ DeleteLogout(t) \/ DeleteStop(t) \/ DeleteRow(t)
  PROVE  OrphansAreLeft'
<1> DEFINE o == call[t].obj
<1>1. UNCHANGED sessions
  BY DEF DeleteTeardown, DeleteLogout, DeleteStop, DeleteRow, persistent
<1>2. CASE DeleteTeardown(t)
  <2>1. PICK pc \in {"deleteLogout", "deleteStop"} : Goto(t, pc) BY <1>2 DEF DeleteTeardown
  <2>2. \A p : TakingDown(p) => TakingDown(p)'
    BY <2>1, GotoIs, TakingKept DEF Moves, TakingPCs
  <2> QED BY <1>1, <1>2, <2>2, OrphansKept DEF DeleteTeardown, objects
<1>3. ASSUME o \in Objects, Goto(t, "deleteRow"), left \subseteq left',
             \A p \in Objects \ {o} : obj'[p] = obj[p],
             obj'[o].link = "down" \/ o \in left'
      PROVE  OrphansAreLeft'
  <2>1. \A p : p # o => (TakingDown(p) => TakingDown(p)')
    BY <1>3, GotoIs, TakingKept DEF Moves
  <2>2. \A p \in Objects \ left' : obj'[p].link # "down" => p # o BY <1>3
  <2> QED BY <1>1, <1>3, <2>1, <2>2, OrphansKept
<1>4. CASE DeleteLogout(t)
  <2>1. o \in Objects BY <1>4, Holds DEF DeleteLogout, CreatePCs
  <2> QED BY <1>3, <1>4, <2>1, LogoutIs DEF DeleteLogout
<1>5. CASE DeleteStop(t)
  <2>1. o \in Objects BY <1>5, Holds DEF DeleteStop, CreatePCs
  <2> QED BY <1>3, <1>5, <2>1, LinkIs DEF DeleteStop, Disconnect
<1>6. CASE DeleteRow(t)
  <2>1. \A p : TakingDown(p) => TakingDown(p)'
    BY <1>6, ReturnIs, TakingKept DEF DeleteRow, TakingPCs
  <2> QED BY <1>1, <1>6, <2>1, OrphansKept DEF DeleteRow, objects
<1> QED BY <1>2, <1>4, <1>5, <1>6

\* Start alone sets a client running: its session's, or one that is left.
LEMMA UseOrphans ==
  ASSUME IInv, OrphansAreLeft, NEW t \in Threads,
         StartBegin(t) \/ StartConnect(t) \/ Stop(t) \/ Logout(t)
  PROVE  OrphansAreLeft'
<1> DEFINE o == call[t].obj
<1>1. /\ UNCHANGED sessions /\ o \in Objects /\ call[t].pc \notin TakingPCs
  BY Holds DEF StartBegin, StartConnect, Stop, Logout, persistent, CreatePCs, TakingPCs
<1>2. \A u \in Threads \ {t} : call'[u] = call[u]
  BY ReturnIs, GotoIs DEF Moves, StartBegin, StartConnect, Stop, Logout
<1>3. \A p : TakingDown(p) => TakingDown(p)' BY <1>1, <1>2, TakingKept
<1>4. CASE UNCHANGED objects BY <1>1, <1>3, <1>4, OrphansKept DEF objects
<1>5. ASSUME UNCHANGED left, \A p \in Objects \ {o} : obj'[p] = obj[p],
             obj'[o].link \in {obj[o].link, "down"}, obj'[o].name = obj[o].name
      PROVE  OrphansAreLeft'
  BY <1>1, <1>3, <1>5, OrphansKept
<1>6. CASE StartConnect(t)
  <2>1. CASE SetLink(o, "up")
              /\ left' = IF sessions[obj[o].name] = o THEN left ELSE left \cup {o}
    BY <1>1, <1>3, <2>1, LinkIs, OrphansKept
  <2> QED BY <1>4, <1>6, <2>1 DEF StartConnect
<1>7. CASE Stop(t) BY <1>1, <1>5, <1>7, LinkIs DEF Stop, Disconnect
<1>8. CASE Logout(t) BY <1>1, <1>5, <1>8, LogoutIs DEF Logout
<1>9. CASE StartBegin(t) BY <1>4, <1>9 DEF StartBegin
<1> QED BY <1>6, <1>7, <1>8, <1>9

LEMMA RequestOrphans ==
  ASSUME IInv, OrphansAreLeft, NEW t \in Callers, NEW n \in Names, Request(t, n)
  PROVE  OrphansAreLeft'
<1>1. t \in Threads /\ call[t] = Idle
  BY DEF Request, Create, DeleteUnmap, Get, CanCall, Threads
<1>2. UNCHANGED <<obj, left>> BY DEF Request, Create, DeleteUnmap, Get, objects
<1>3. \A p : TakingDown(p) => TakingDown(p)'
  <2>1. \A u \in Threads \ {t} : call'[u] = call[u]
    BY <1>1, EnterIs DEF Request, Create, CreateCheck, DeleteUnmap, Get, Begins
  <2> QED BY <1>1, <2>1, TakingKept DEF Idle, TakingPCs
<1>4. CASE UNCHANGED sessions BY <1>2, <1>3, <1>4, OrphansKept
<1>5. CASE DeleteUnmap(t, n)
  <2>1. ASSUME NEW o \in Objects, obj[o].link # "down", sessions[obj[o].name] = o
        PROVE  sessions'[obj[o].name] = o \/ TakingDown(o)'
    <3>1. obj[o].name \in Names BY <2>1 DEF IInv, GoodObject
    <3>2. CASE obj[o].name # n BY <1>5, <2>1, <3>1, <3>2 DEF DeleteUnmap, IInv, TypeOK
    <3>3. CASE obj[o].name = n
      <4>1. Begins(t, "teardown", n, o)
        BY <1>1, <1>5, <2>1, <3>3, EnterIs, ConstantsAssumption DEF DeleteUnmap
      <4> QED BY <1>1, <4>1 DEF TakingDown, Begins
    <3> QED BY <3>2, <3>3
  <2> QED BY <1>2, <1>3, <2>1, OrphansKept
<1> QED BY <1>4, <1>5 DEF Request, Create, Get

\* Beside the calls no client is set running that was down.
LEMMA AsideOrphans ==
  ASSUME OrphansAreLeft, UNCHANGED <<sessions, call, left>>,
         \A o \in Objects : /\ obj'[o].name = obj[o].name
                            /\ obj'[o].link # "down" => obj[o].link # "down"
  PROVE  OrphansAreLeft'
BY OrphansKept DEF TakingDown

LEMMA EventOrphans ==
  ASSUME IInv, OrphansAreLeft, NEW o \in Objects, Event(o)
  PROVE  OrphansAreLeft'
<1>1. UNCHANGED <<sessions, call, left>>
  BY DEF Event, Pair, Connected, Disconnected, Reconnect, LoggedOut, persistent
<1>2. ASSUME NEW j \in Jids, Pair(o, j)
      PROVE  \A p \in Objects : obj'[p].name = obj[p].name /\ obj'[p].link = obj[p].link
  BY <1>2 DEF IInv, TypeOK, Object, Pair
<1>3. CASE \E j \in Jids : Pair(o, j) BY <1>1, <1>2, <1>3, AsideOrphans
<1>4. CASE Connected(o) \/ Disconnected(o) \/ Reconnect(o)
  BY <1>1, <1>4, LinkIs, AsideOrphans DEF Connected, Disconnected, Reconnect, IsConnected
<1>5. CASE LoggedOut(o) BY <1>1, <1>5, WipedIs, AsideOrphans DEF LoggedOut
<1> QED BY <1>3, <1>4, <1>5 DEF Event

LEMMA BootOrphans == ASSUME IInv, OrphansAreLeft, Boot PROVE OrphansAreLeft'
<1>1. Main \in Threads /\ UNCHANGED <<obj, left, sessions>>
  BY DEF Threads, Boot, BootList, BootLoaded, BootServe, BootCreate, BootStart, objects
<1>2. CASE UNCHANGED call BY <1>1, <1>2, AsideOrphans
<1>3. ASSUME NEW pc, NEW n, NEW o, Enter(Main, pc, n, o), call[Main] = Idle
      PROVE  OrphansAreLeft'
  <2>1. \A p : TakingDown(p) => TakingDown(p)'
    BY <1>1, <1>3, EnterIs, TakingKept DEF Begins, Idle, TakingPCs
  <2> QED BY <1>1, <2>1, OrphansKept
<1> QED BY <1>2, <1>3
    DEF Boot, BootList, BootLoaded, BootServe, BootCreate, BootStart, CreateCheck

LEMMA NextOrphans == IInv /\ OrphansAreLeft /\ [Next]_vars => OrphansAreLeft'
<1> SUFFICES ASSUME IInv, OrphansAreLeft, [Next]_vars PROVE OrphansAreLeft' OBVIOUS
<1>1. ASSUME NEW t \in Threads, CallStep(t) PROVE OrphansAreLeft'
  BY <1>1, CreateOrphans, CreateInstallOrphans, DeleteOrphans, UseOrphans DEF CallStep
<1>2. UNCHANGED <<sessions, call, objects>> => OrphansAreLeft' BY AsideOrphans DEF objects
<1>3. ASSUME NEW k \in Notes, NoteStep(k) PROVE OrphansAreLeft'
  BY <1>2, <1>3 DEF NoteStep, NoteRead, NoteWrite
<1>4. CASE Crash BY <1>4 DEF Crash, OrphansAreLeft, Unallocated
<1>5. CASE UNCHANGED vars BY <1>2, <1>5 DEF vars, objects
<1> QED BY <1>1, <1>3, <1>4, <1>5, RequestOrphans, EventOrphans, BootOrphans DEF Next

LEMMA InitOrphans == Init => OrphansAreLeft
BY DEF Init, OrphansAreLeft, Unallocated

\* A client that runs and is no session's was left by a Delete whose Logout failed,
\* by a Create that overwrote its session or by a Start after the Delete, or some
\* Delete is still to take it down, whatever calls overlap and whatever fails.
THEOREM RunningClientsAccountedFor == Spec => []OrphansAreLeft
<1> QED BY InitIInv, NextStep, InitOrphans, NextOrphans, PTL DEF Spec

\* But for clients so left or still to be taken down, one device never has two.
THEOREM OneClientEach == Spec => []OneClientPerDevice
<1>1. IInv /\ OrphansAreLeft => OneClientPerDevice
  <2> SUFFICES ASSUME IInv, OrphansAreLeft, NEW p \in Objects \ left, NEW q \in Objects \ left,
                      p # q, obj[p].jid = obj[q].jid, obj[p].jid # NoJid,
                      obj[p].link # "down", obj[q].link # "down"
               PROVE  TakingDown(p) \/ TakingDown(q)
    BY DEF OneClientPerDevice
  <2>1. obj[p].name = obj[q].name BY DEF IInv, TypeOK, Object, GoodObject, Owned
  <2> QED BY <2>1 DEF OrphansAreLeft
<1> QED BY <1>1, InitIInv, NextStep, InitOrphans, NextOrphans, PTL DEF Spec

=============================================================================
