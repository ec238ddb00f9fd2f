---------------------------- MODULE EventStream -----------------------------
(***************************************************************************)
(* The live event stream: Manager.Subscribe, Unsubscribe, broadcast and    *)
(* Close, with the handleWS connections that use them, around the one      *)
(* sync.RWMutex of the manager and the other lock sections taken on it.    *)
(*                                                                         *)
(* A section of the write lock in which nothing blocks is one step; Close, *)
(* which stops sessions while it holds the lock, and broadcast, which      *)
(* others overlap, take several.  Get and List, which read the map under   *)
(* the read lock and return, are left out.  A notice is only counted.      *)
(***************************************************************************)
EXTENDS Naturals, Sequences, SequencesExt

CONSTANTS
  Names,         \* sessions that may be mapped
  Senders,       \* goroutines that call broadcast: event handlers, API calls
  Clients,       \* WebSocket connections at once (a bound)
  Requests,      \* API calls that map or unmap a session
  Notes,         \* goroutines of notifyStatus, which lock to write jidToName
  Main, NoActor,
  Buffer         \* of a listener's channel (64 in the code)

Writers == Clients \cup Requests \cup Notes \cup {Main}
Actors == Writers \cup Senders

ASSUME ConstantsAssumption ==
  /\ NoActor \notin Actors /\ Main \notin Clients \cup Requests \cup Notes \cup Senders
  /\ Senders \cap (Clients \cup Requests \cup Notes) = {}
  /\ Buffer \in Nat \ {0}

VARIABLES
  mapped,    \* DOMAIN of Manager.sessions
  listeners, \* Manager.listeners, each channel named by its client
  isOpen,    \* channels not yet closed
  backlog,   \* notices in each channel
  client,    \* where each handleWS is
  position,  \* the next listener a broadcast tries
  writer, pending, \* the mutex: its writer, the goroutines blocked in Lock,
  readers, blocked,\*   its readers, and the goroutines blocked in RLock
  main,
  panicked   \* a send on, or close of, a closed channel

stream == <<listeners, isOpen, backlog>>
mutex == <<writer, pending, readers, blocked>>
vars == <<mapped, stream, client, position, mutex, main, panicked>>

TypeOK ==
  /\ mapped \subseteq Names
  /\ listeners \in Seq(Clients) /\ isOpen \subseteq Clients
  /\ backlog \in [Clients -> 0 .. Buffer]
  /\ client \in [Clients -> {"off", "subscribing", "on", "leaving"}]
  /\ position \in [Senders -> Nat \ {0}]
  /\ writer \in {Main, NoActor} /\ pending \subseteq Writers
  /\ readers \subseteq Senders \cup {Main} /\ blocked \subseteq Senders \cup {Main}
  /\ main \in {"serve", "shutdown", "lock", "stop", "stopping", "closed", "exit"}
  /\ panicked \in BOOLEAN

Init ==
  /\ mapped = {} /\ listeners = <<>> /\ isOpen = {}
  /\ backlog = [c \in Clients |-> 0]
  /\ client = [c \in Clients |-> "off"]
  /\ position = [b \in Senders |-> 1]
  /\ writer = NoActor /\ pending = {} /\ readers = {} /\ blocked = {}
  /\ main = "serve" /\ panicked = FALSE

Running == main # "exit"

-----------------------------------------------------------------------------
(* sync.RWMutex *)

\* A goroutine blocked in Lock keeps new readers out.
RLock(a) ==
  /\ a \notin readers \cup blocked
  /\ \/ /\ writer = NoActor /\ pending = {}
        /\ readers' = readers \cup {a} /\ UNCHANGED blocked
     \/ /\ writer # NoActor \/ pending # {}
        /\ blocked' = blocked \cup {a} /\ UNCHANGED readers
  /\ UNCHANGED <<writer, pending>>

RUnlock(a) == readers' = readers \ {a} /\ UNCHANGED <<writer, pending, blocked>>

Lock(a) == a \notin pending /\ pending' = pending \cup {a} /\ UNCHANGED <<writer, readers, blocked>>

CanAcquire(a) == Running /\ a \in pending /\ writer = NoActor /\ readers = {}

\* Unlock lets in the readers that waited before it lets in a writer.
Section(a) ==
  /\ CanAcquire(a)
  /\ pending' = pending \ {a} /\ readers' = blocked /\ blocked' = {}
  /\ UNCHANGED writer

-----------------------------------------------------------------------------
(* broadcast *)

BroadcastBegin(b) ==
  /\ Running /\ RLock(b)
  /\ UNCHANGED <<mapped, stream, client, position, main, panicked>>

\* Mutant: the channel takes more than it has places for.
BroadcastGrows(b) ==
  /\ Running /\ b \in readers /\ position[b] <= Len(listeners)
  /\ backlog' = [backlog EXCEPT ![listeners[position[b]]] = @ + 1]
  /\ position' = [position EXCEPT ![b] = @ + 1]
  /\ UNCHANGED <<mapped, listeners, isOpen, client, mutex, main, panicked>>

\* Mutant: the send has no default branch.
BroadcastBlocks(b) ==
  /\ Running /\ b \in readers /\ position[b] <= Len(listeners)
  /\ backlog[listeners[position[b]]] < Buffer
  /\ backlog' = [backlog EXCEPT ![listeners[position[b]]] = @ + 1]
  /\ position' = [position EXCEPT ![b] = @ + 1]
  /\ UNCHANGED <<mapped, listeners, isOpen, client, mutex, main, panicked>>

\* A full channel is skipped: the send never blocks.
BroadcastNext(b) ==
  /\ Running /\ b \in readers /\ position[b] <= Len(listeners)
  /\ LET c == listeners[position[b]] IN
       /\ panicked' = (panicked \/ c \notin isOpen)
       /\ backlog' = [backlog EXCEPT ![c] = IF @ < Buffer THEN @ + 1 ELSE @]
  /\ position' = [position EXCEPT ![b] = @ + 1]
  /\ UNCHANGED <<mapped, listeners, isOpen, client, mutex, main>>

BroadcastEnd(b) ==
  /\ Running /\ b \in readers /\ position[b] > Len(listeners)
  /\ RUnlock(b)
  /\ position' = [position EXCEPT ![b] = 1]
  /\ UNCHANGED <<mapped, stream, client, main, panicked>>

-----------------------------------------------------------------------------
(* handleWS *)

At(c, from, to) == Running /\ client[c] = from /\ client' = [client EXCEPT ![c] = to]

Connect(c) ==
  /\ main = "serve" /\ At(c, "off", "subscribing") /\ Lock(c)
  /\ UNCHANGED <<mapped, stream, position, main, panicked>>

Subscribe(c) ==
  /\ At(c, "subscribing", "on") /\ Section(c)
  /\ listeners' = Append(listeners, c) /\ isOpen' = isOpen \cup {c}
  /\ UNCHANGED <<mapped, backlog, position, main, panicked>>

Receive(c) ==
  /\ Running /\ client[c] = "on" /\ backlog[c] > 0
  /\ backlog' = [backlog EXCEPT ![c] = @ - 1]
  /\ UNCHANGED <<mapped, listeners, isOpen, client, position, mutex, main, panicked>>

\* The peer went away, a write failed, or the channel was closed and drained:
\* the loop may end at any time, and does end on a closed channel.
Leave(c) ==
  /\ At(c, "on", "leaving") /\ Lock(c)
  /\ UNCHANGED <<mapped, stream, position, main, panicked>>

\* Mutant: the closed channel stays among the listeners.
UnsubscribeKeeps(c) ==
  /\ At(c, "leaving", "off") /\ Section(c)
  /\ isOpen' = isOpen \ {c}
  /\ backlog' = [backlog EXCEPT ![c] = 0]
  /\ UNCHANGED <<mapped, listeners, position, main, panicked>>

\* Mutant: it takes the read lock.
UnsubscribeAsReader(c) ==
  /\ At(c, "leaving", "off") /\ c \in pending /\ writer = NoActor
  /\ pending' = pending \ {c}
  /\ listeners' = SelectSeq(listeners, LAMBDA l : l # c) /\ isOpen' = isOpen \ {c}
  /\ backlog' = [backlog EXCEPT ![c] = 0]
  /\ UNCHANGED <<mapped, position, main, panicked, writer, readers, blocked>>

\* A channel is on the list once, if at all; one that Close took off it is not
\* closed again.
Unsubscribe(c) ==
  /\ At(c, "leaving", "off") /\ Section(c)
  /\ \/ \E i \in DOMAIN listeners :
          /\ listeners[i] = c
          /\ listeners' = RemoveAt(listeners, i)
          /\ panicked' = (panicked \/ c \notin isOpen)
          /\ isOpen' = isOpen \ {c}
     \/ /\ c \notin Range(listeners)
        /\ UNCHANGED <<listeners, isOpen, panicked>>
  /\ backlog' = [backlog EXCEPT ![c] = 0]
  /\ UNCHANGED <<mapped, position, main>>

-----------------------------------------------------------------------------
(* Other users of the mutex *)

Request(r) ==
  /\ main = "serve" /\ Lock(r)
  /\ UNCHANGED <<mapped, stream, client, position, main, panicked>>

\* Create maps a session, Delete takes one off the map.
RequestSection(r) ==
  /\ Section(r)
  /\ \E n \in Names : mapped' = mapped \cup {n} \/ mapped' = mapped \ {n}
  /\ UNCHANGED <<stream, client, position, main, panicked>>

Note(k) ==
  /\ Running /\ Lock(k)
  /\ UNCHANGED <<mapped, stream, client, position, main, panicked>>

NoteSection(k) ==
  /\ Section(k)
  /\ UNCHANGED <<mapped, stream, client, position, main, panicked>>

-----------------------------------------------------------------------------
(* The end of main(), and Close *)

Goto(from, to) == main = from /\ main' = to

Shutdown ==
  /\ Goto("serve", "shutdown")
  /\ UNCHANGED <<mapped, stream, client, position, mutex, panicked>>

\* srv.Shutdown waits for the requests; WebSocket connections are hijacked and
\* stay, as do whatsmeow's event goroutines.
CloseCalled ==
  /\ Goto("shutdown", "lock") /\ Requests \cap pending = {} /\ Lock(Main)
  /\ UNCHANGED <<mapped, stream, client, position, panicked>>

CloseLocked ==
  /\ Goto("lock", "stop") /\ CanAcquire(Main)
  /\ writer' = Main /\ pending' = pending \ {Main}
  /\ UNCHANGED <<mapped, stream, client, position, readers, blocked, panicked>>

\* Session.Stop reports STOPPED, which broadcasts, which wants the read lock of
\* the mutex its own goroutine holds: main is in the set blocked, and no step
\* takes it out.
CloseStopsSession ==
  /\ mapped # {}
  /\ Goto("stop", "stopping") /\ RLock(Main)
  /\ UNCHANGED <<mapped, stream, client, position, panicked>>

CloseChannels ==
  /\ Goto("stop", "closed") /\ mapped = {}
  /\ panicked' = (panicked \/ ~(Range(listeners) \subseteq isOpen))
  /\ isOpen' = isOpen \ Range(listeners) /\ listeners' = <<>>
  /\ writer' = NoActor /\ readers' = blocked /\ blocked' = {}
  /\ UNCHANGED <<mapped, backlog, client, position, pending>>

MainReturns ==
  /\ Goto("closed", "exit")
  /\ UNCHANGED <<mapped, stream, client, position, mutex, panicked>>

-----------------------------------------------------------------------------
Broadcasting(b) == BroadcastNext(b) \/ BroadcastEnd(b)
Sections(a) ==
  \/ a \in Clients /\ (Subscribe(a) \/ Unsubscribe(a))
  \/ a \in Requests /\ RequestSection(a)
  \/ a \in Notes /\ NoteSection(a)
Closing == CloseCalled \/ CloseLocked \/ CloseStopsSession \/ CloseChannels

Next ==
  \/ \E b \in Senders : BroadcastBegin(b) \/ Broadcasting(b)
  \/ \E c \in Clients : Connect(c) \/ Receive(c) \/ Leave(c)
  \/ \E r \in Requests : Request(r)
  \/ \E k \in Notes : Note(k)
  \/ \E a \in Clients \cup Requests \cup Notes : Sections(a)
  \/ Shutdown \/ Closing \/ MainReturns

Spec == Init /\ [][Next]_vars

\* Goroutines are scheduled, and sync.RWMutex starves no writer: a new reader
\* waits behind one, and the mutex among writers hands over in order once one
\* has waited a millisecond.  No client is obliged to read or to leave.
Fairness ==
  /\ \A b \in Senders : WF_vars(Broadcasting(b))
  /\ \A a \in Clients \cup Requests \cup Notes : SF_vars(Sections(a))
  /\ SF_vars(Closing)

FairSpec == Spec /\ Fairness

-----------------------------------------------------------------------------
(* Properties *)

\* broadcast never sends on a closed channel and none is closed twice, with
\* Unsubscribe, Close and broadcasts in every order (either would be a panic
\* that ends the process).
NoPanic == ~panicked

\* A connection that ended leaves no channel behind, and until Close a
\* connection in its loop is among the listeners, once.
ListenersAreConnections ==
  /\ \A c \in Clients : client[c] \in {"off", "subscribing"} => c \notin Range(listeners) \cup isOpen
  /\ main \in {"serve", "shutdown", "lock", "stop", "stopping"} =>
       \A c \in Clients : client[c] = "on" =>
         c \in isOpen /\ \E i \in DOMAIN listeners : \A l \in DOMAIN listeners :
                           listeners[l] = c <=> l = i

\* The list a broadcast ranges over does not change under it: a subscriber that
\* comes or leaves meanwhile makes it neither skip a listener nor send twice,
\* though Unsubscribe moves the elements of the very array it reads.
ListIsStable == [][readers # {} => listeners' = listeners /\ isOpen' = isOpen]_vars

\* A broadcast ends whatever the clients do: one that stopped reading does not
\* hold up the session that reports (the default branch of the send), unless
\* Close hangs or the process ends.
BroadcastsEnd ==
  \A b \in Senders :
    b \in readers \cup blocked ~> b \notin readers \cup blocked \/ main \in {"stopping", "exit"}

\* A WebSocket handler that left its loop gets off the list of listeners, however
\* many broadcasts are going on.
LeaversLeave ==
  \A c \in Clients : client[c] = "leaving" ~> client[c] = "off" \/ main \in {"stopping", "exit"}

\* "Close releases all sessions and store." (manager.go:281): once called,
\* Close returns.
CloseReleases == main = "lock" ~> main = "closed"
=============================================================================
