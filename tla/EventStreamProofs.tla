------------------------- MODULE EventStreamProofs --------------------------
(***************************************************************************)
(* Theorems about EventStream, for any number of senders, connections,     *)
(* requests and sessions, and channels of any size.                        *)
(***************************************************************************)
EXTENDS EventStream, TLAPS, SequenceTheorems

-----------------------------------------------------------------------------
(* The inductive invariant *)

\* The open channels are those on the list, each there once.
ListInv ==
  /\ \A i, j \in DOMAIN listeners : listeners[i] = listeners[j] => i = j
  /\ isOpen = Range(listeners)

\* A channel is on the list from its Subscribe until its Unsubscribe or Close.
ConnectionInv ==
  /\ \A c \in Clients : client[c] \in {"off", "subscribing"} => c \notin Range(listeners)
  /\ main \in {"serve", "shutdown", "lock", "stop", "stopping"} =>
       \A c \in Clients : client[c] = "on" => c \in Range(listeners)

\* Only Close holds the lock over several steps, and nobody reads meanwhile.
MutexInv ==
  /\ writer = Main <=> main \in {"stop", "stopping"}
  /\ writer = Main => readers = {}

IInv == TypeOK /\ ListInv /\ ConnectionInv /\ MutexInv /\ NoPanic

-----------------------------------------------------------------------------
(* Lists *)

LEMMA RangeOfSequence ==
  ASSUME NEW S, NEW s \in Seq(S), NEW x
  PROVE  x \in Range(s) <=> \E i \in 1 .. Len(s) : s[i] = x
BY DEF Range

LEMMA AppendToList ==
  ASSUME NEW S, NEW s \in Seq(S), NEW c \in S
  PROVE  /\ Append(s, c) \in Seq(S)
         /\ Range(Append(s, c)) = Range(s) \cup {c}
         /\ (\A i, j \in DOMAIN s : s[i] = s[j] => i = j) /\ c \notin Range(s)
              => \A i, j \in DOMAIN Append(s, c) : Append(s, c)[i] = Append(s, c)[j] => i = j
<1> DEFINE t == Append(s, c)
<1>1. /\ t \in Seq(S) /\ Len(t) = Len(s) + 1 /\ Len(s) \in Nat
      /\ \A i \in 1 .. Len(s) : t[i] = s[i]
      /\ t[Len(s) + 1] = c
      /\ DOMAIN t = 1 .. Len(s) + 1 /\ DOMAIN s = 1 .. Len(s)
  BY SMT
<1> HIDE DEF t
<1>2. ASSUME NEW x  PROVE  x \in Range(t) <=> x \in Range(s) \cup {c}
  BY <1>1 DEF Range
<1>3. ASSUME \A i, j \in DOMAIN s : s[i] = s[j] => i = j, c \notin Range(s),
             NEW i \in DOMAIN t, NEW j \in DOMAIN t, t[i] = t[j]
      PROVE  i = j
  <2>1. \A k \in 1 .. Len(s) : s[k] # c
    BY <1>1, <1>3 DEF Range
  <2> QED  BY <1>1, <1>3, <2>1
<1> QED  BY <1>1, <1>2, <1>3 DEF t

LEMMA RemoveFromList ==
  ASSUME NEW S, NEW s \in Seq(S), NEW i \in DOMAIN s
  PROVE  /\ RemoveAt(s, i) \in Seq(S)
         /\ (\A j, k \in DOMAIN s : s[j] = s[k] => j = k)
              => /\ Range(RemoveAt(s, i)) = Range(s) \ {s[i]}
                 /\ \A j, k \in DOMAIN RemoveAt(s, i) :
                      RemoveAt(s, i)[j] = RemoveAt(s, i)[k] => j = k
<1> DEFINE t == RemoveAt(s, i)
<1>1. /\ Len(s) \in Nat /\ DOMAIN s = 1 .. Len(s) /\ i \in 1 .. Len(s)
      /\ \A k \in 1 .. Len(s) : s[k] \in S
  OBVIOUS
<1>2. /\ t \in Seq(S) /\ Len(t) = Len(s) - 1 /\ DOMAIN t = 1 .. Len(s) - 1
      /\ \A k \in 1 .. Len(s) - 1 : t[k] = IF k < i THEN s[k] ELSE s[k + 1]
  <2> DEFINE a == SubSeq(s, 1, i - 1)
             b == SubSeq(s, i + 1, Len(s))
  <2>1. /\ a \in Seq(S) /\ Len(a) = i - 1 /\ \A k \in 1 .. i - 1 : a[k] = s[k]
    BY <1>1, SubSeqProperties
  <2>2. /\ b \in Seq(S) /\ Len(b) = Len(s) - i
        /\ \A k \in 1 .. Len(s) - i : b[k] = s[i + k]
    BY <1>1, SubSeqProperties
  <2> HIDE DEF a, b
  <2>3. /\ a \o b \in Seq(S) /\ Len(a \o b) = Len(s) - 1
        /\ \A k \in 1 .. Len(s) - 1 : (a \o b)[k] = IF k < i THEN s[k] ELSE s[k + 1]
    <3> DEFINE c == a \o b
    <3>1. /\ c \in Seq(S) /\ Len(c) = Len(a) + Len(b)
          /\ \A k \in 1 .. Len(a) + Len(b) : c[k] = IF k <= Len(a) THEN a[k] ELSE b[k - Len(a)]
      BY <2>1, <2>2, ConcatProperties
    <3> HIDE DEF c
    <3>2. ASSUME NEW k \in 1 .. Len(s) - 1, k < i  PROVE  c[k] = s[k]
      BY <1>1, <2>1, <2>2, <3>1, <3>2
    <3>3. ASSUME NEW k \in 1 .. Len(s) - 1, ~(k < i)  PROVE  c[k] = s[k + 1]
      <4>1. k - (i - 1) \in 1 .. Len(s) - i /\ i + (k - (i - 1)) = k + 1
        BY <1>1, <3>3
      <4>2. b[k - (i - 1)] = s[k + 1]
        BY <2>2, <4>1
      <4>3. c[k] = b[k - (i - 1)]
        BY <1>1, <2>1, <2>2, <3>1, <3>3
      <4> QED  BY <4>2, <4>3
    <3>4. Len(c) = Len(s) - 1
      BY <1>1, <2>1, <2>2, <3>1
    <3> QED  BY <3>1, <3>2, <3>3, <3>4 DEF c
  <2>4. t = a \o b
    BY DEF RemoveAt, a, b
  <2> HIDE DEF t
  <2>5. DOMAIN t = 1 .. Len(t)
    BY <2>3, <2>4
  <2> QED  BY <1>1, <2>3, <2>4, <2>5
<1> HIDE DEF t
<1>3. ASSUME \A j, k \in DOMAIN s : s[j] = s[k] => j = k
      PROVE  /\ Range(t) = Range(s) \ {s[i]}
             /\ \A j, k \in DOMAIN t : t[j] = t[k] => j = k
  <2>1. ASSUME NEW x \in Range(t)  PROVE  x \in Range(s) /\ x # s[i]
    <3>1. PICK k \in 1 .. Len(s) - 1 : t[k] = x
      BY <1>2 DEF Range
    <3> QED  BY <1>1, <1>2, <1>3, <3>1 DEF Range
  <2>2. ASSUME NEW x \in Range(s), x # s[i]  PROVE  x \in Range(t)
    <3>1. PICK k \in 1 .. Len(s) : s[k] = x
      BY <1>1 DEF Range
    <3>2. CASE k < i
      BY <1>1, <1>2, <3>1, <3>2 DEF Range
    <3>3. CASE k > i
      <4>1. k - 1 \in 1 .. Len(s) - 1 /\ t[k - 1] = x
        BY <1>1, <1>2, <3>1, <3>3
      <4> QED  BY <1>2, <4>1 DEF Range
    <3> QED  BY <1>1, <2>2, <3>1, <3>2, <3>3
  <2>3. ASSUME NEW j \in DOMAIN t, NEW k \in DOMAIN t, t[j] = t[k]  PROVE  j = k
    <3>1. PICK u \in DOMAIN s : t[j] = s[u] /\ u = IF j < i THEN j ELSE j + 1
      BY <1>1, <1>2
    <3>2. PICK v \in DOMAIN s : t[k] = s[v] /\ v = IF k < i THEN k ELSE k + 1
      BY <1>1, <1>2
    <3>3. u = v
      BY <1>3, <2>3, <3>1, <3>2
    <3> QED  BY <1>1, <1>2, <3>1, <3>2, <3>3
  <2> QED  BY <2>1, <2>2, <2>3
<1> QED  BY <1>2, <1>3 DEF t

-----------------------------------------------------------------------------
(* The steps *)

\* What every step but three leaves alone.
Listless == UNCHANGED <<listeners, isOpen>>

LEMMA StepsOnTheList ==
  ASSUME Next
  PROVE  \/ Listless /\ UNCHANGED client
         \/ Listless /\ \E c \in Clients : Connect(c) \/ Leave(c)
         \/ \E c \in Clients : Subscribe(c) \/ Unsubscribe(c)
         \/ CloseChannels
<1> USE DEF Listless
<1>1. CASE \E b \in Senders : BroadcastBegin(b) \/ Broadcasting(b)
  BY <1>1 DEF BroadcastBegin, Broadcasting, BroadcastNext, BroadcastEnd, stream
<1>2. CASE \E c \in Clients : Connect(c) \/ Receive(c) \/ Leave(c)
  BY <1>2 DEF Connect, Receive, Leave, stream
<1>3. CASE (\E r \in Requests : Request(r)) \/ (\E k \in Notes : Note(k)) \/ Shutdown \/ MainReturns
  BY <1>3 DEF Request, Note, Shutdown, MainReturns, stream
<1>4. CASE \E a \in Clients \cup Requests \cup Notes : Sections(a)
  BY <1>4 DEF Sections, RequestSection, NoteSection, stream
<1>5. CASE Closing
  BY <1>5 DEF Closing, CloseCalled, CloseLocked, CloseStopsSession, stream
<1> QED  BY <1>1, <1>2, <1>3, <1>4, <1>5 DEF Next

\* Steps that change neither the writer nor the place of main leave the other
\* part of the mutex to the readers.
LEMMA MutexStep ==
  ASSUME TypeOK, MutexInv, Next
  PROVE  MutexInv'
<1> USE ConstantsAssumption DEF MutexInv
<1>0. NoActor # Main
  BY DEF Actors, Writers
<1>1. CASE \E b \in Senders : BroadcastBegin(b) \/ Broadcasting(b)
  <2>1. ASSUME NEW b \in Senders, BroadcastBegin(b)  PROVE  MutexInv'
    BY <1>0, <2>1 DEF BroadcastBegin, RLock
  <2>2. ASSUME NEW b \in Senders, Broadcasting(b)  PROVE  MutexInv'
    BY <2>2 DEF Broadcasting, BroadcastNext, BroadcastEnd, RUnlock, mutex
  <2> QED  BY <1>1, <2>1, <2>2
<1>2. CASE \E c \in Clients : Connect(c) \/ Receive(c) \/ Leave(c)
  BY <1>2 DEF Connect, Receive, Leave, Lock, mutex
<1>3. CASE (\E r \in Requests : Request(r)) \/ (\E k \in Notes : Note(k)) \/ Shutdown \/ MainReturns
  BY <1>3 DEF Request, Note, Shutdown, MainReturns, Goto, Lock, mutex
<1>4. CASE \E a \in Clients \cup Requests \cup Notes : Sections(a)
  <2>1. PICK a : Sections(a)
    BY <1>4
  <2>2. Section(a) /\ UNCHANGED main
    BY <2>1 DEF Sections, Subscribe, Unsubscribe, RequestSection, NoteSection
  <2> QED  BY <1>0, <2>2 DEF Section, CanAcquire
<1>5. CASE Closing
  <2>1. CASE CloseCalled
    BY <2>1 DEF CloseCalled, Goto, Lock
  <2>2. CASE CloseLocked
    BY <2>2 DEF CloseLocked, Goto, CanAcquire
  <2>3. CASE CloseStopsSession
    BY <1>0, <2>3 DEF CloseStopsSession, Goto, RLock
  <2>4. CASE CloseChannels
    BY <1>0, <2>4 DEF CloseChannels, Goto
  <2> QED  BY <1>5, <2>1, <2>2, <2>3, <2>4 DEF Closing
<1> QED  BY <1>1, <1>2, <1>3, <1>4, <1>5 DEF Next

\* main does not come back from the end of Close.
LEMMA MainStep ==
  ASSUME Next, main' \in {"serve", "shutdown", "lock", "stop", "stopping"}
  PROVE  main \in {"serve", "shutdown", "lock", "stop", "stopping"}
<1>1. CASE UNCHANGED main
  BY <1>1
<1>2. CASE Shutdown \/ Closing \/ MainReturns
  BY <1>2 DEF Shutdown, Closing, CloseCalled, CloseLocked, CloseStopsSession, CloseChannels, MainReturns, Goto
<1>3. CASE \E b \in Senders : BroadcastBegin(b) \/ Broadcasting(b)
  BY <1>1, <1>3 DEF BroadcastBegin, Broadcasting, BroadcastNext, BroadcastEnd
<1>4. CASE \E c \in Clients : Connect(c) \/ Receive(c) \/ Leave(c)
  BY <1>1, <1>4 DEF Connect, Receive, Leave
<1>5. CASE (\E r \in Requests : Request(r)) \/ (\E k \in Notes : Note(k))
  BY <1>1, <1>5 DEF Request, Note
<1>6. CASE \E a \in Clients \cup Requests \cup Notes : Sections(a)
  BY <1>1, <1>6 DEF Sections, Subscribe, Unsubscribe, RequestSection, NoteSection
<1> QED  BY <1>2, <1>3, <1>4, <1>5, <1>6 DEF Next

LEMMA ListStep ==
  ASSUME TypeOK, ListInv, ConnectionInv, Next
  PROVE  ListInv'
<1> USE DEF ListInv
<1>1. CASE Listless
  BY <1>1 DEF Listless
<1>2. ASSUME NEW c \in Clients, Subscribe(c)  PROVE  ListInv'
  <2>1. listeners \in Seq(Clients) /\ c \notin Range(listeners)
    BY <1>2 DEF TypeOK, ConnectionInv, Subscribe, At
  <2>2. listeners' = Append(listeners, c) /\ isOpen' = isOpen \cup {c}
    BY <1>2 DEF Subscribe
  <2> QED  BY <2>1, <2>2, AppendToList
<1>3. ASSUME NEW c \in Clients, Unsubscribe(c)  PROVE  ListInv'
  <2>1. CASE c \notin Range(listeners) /\ UNCHANGED <<listeners, isOpen>>
    BY <2>1
  <2>2. ASSUME NEW i \in DOMAIN listeners, listeners[i] = c,
               listeners' = RemoveAt(listeners, i), isOpen' = isOpen \ {c}
        PROVE  ListInv'
    <3>1. listeners \in Seq(Clients)
      BY DEF TypeOK
    <3> QED  BY <2>2, <3>1, RemoveFromList
  <2> QED  BY <1>3, <2>1, <2>2 DEF Unsubscribe
<1>4. CASE CloseChannels
  BY <1>4 DEF CloseChannels, Range
<1> QED  BY <1>1, <1>2, <1>3, <1>4, StepsOnTheList

\* The connections that begin or end are off the list, those on it stay.
LEMMA ConnectionStep ==
  ASSUME TypeOK, ListInv, ConnectionInv, Next
  PROVE  ConnectionInv'
<1>1. CASE Listless /\ UNCHANGED client
  <2>1. main' \in {"serve", "shutdown", "lock", "stop", "stopping"}
          => main \in {"serve", "shutdown", "lock", "stop", "stopping"}
    BY MainStep
  <2> QED  BY <1>1, <2>1 DEF Listless, ConnectionInv
<1>2. ASSUME NEW c \in Clients, Listless, Connect(c) \/ Leave(c)  PROVE  ConnectionInv'
  <2>1. /\ UNCHANGED <<listeners, main>>
        /\ \A d \in Clients : client'[d] \in {"off", "subscribing"} => client[d] \in {"off", "subscribing"}
        /\ \A d \in Clients : client'[d] = "on" => client[d] = "on"
    BY <1>2 DEF Listless, Connect, Leave, At, TypeOK
  <2> QED  BY <2>1 DEF ConnectionInv
<1>3. ASSUME NEW c \in Clients, Subscribe(c)  PROVE  ConnectionInv'
  <2>1. /\ Range(listeners') = Range(listeners) \cup {c}
        /\ UNCHANGED main
    BY <1>3, AppendToList DEF Subscribe, TypeOK
  <2>2. client' = [client EXCEPT ![c] = "on"] /\ DOMAIN client = Clients
    BY <1>3 DEF Subscribe, At, TypeOK
  <2> QED  BY <2>1, <2>2 DEF ConnectionInv
<1>4. ASSUME NEW c \in Clients, Unsubscribe(c)  PROVE  ConnectionInv'
  <2>1. Range(listeners') = Range(listeners) \ {c}
    <3>1. CASE c \notin Range(listeners) /\ UNCHANGED listeners
      BY <3>1
    <3>2. ASSUME NEW i \in DOMAIN listeners, listeners[i] = c, listeners' = RemoveAt(listeners, i)
          PROVE  Range(listeners') = Range(listeners) \ {c}
      <4>1. listeners \in Seq(Clients)
        BY DEF TypeOK
      <4> QED  BY <3>2, <4>1, RemoveFromList DEF ListInv
    <3> QED  BY <1>4, <3>1, <3>2 DEF Unsubscribe
  <2>2. client' = [client EXCEPT ![c] = "off"] /\ client[c] = "leaving" /\ UNCHANGED main
    BY <1>4 DEF Unsubscribe, At
  <2>3. DOMAIN client = Clients
    BY DEF TypeOK
  <2> QED  BY <2>1, <2>2, <2>3 DEF ConnectionInv
<1>5. CASE CloseChannels
  BY <1>5 DEF CloseChannels, Goto, Range, ConnectionInv
<1> QED  BY <1>1, <1>2, <1>3, <1>4, <1>5, StepsOnTheList

\* A send meets an open channel, and Unsubscribe and Close close open ones.
LEMMA PanicStep ==
  ASSUME TypeOK, ListInv, NoPanic, Next
  PROVE  NoPanic'
<1> USE DEF NoPanic
<1>1. CASE \E b \in Senders : BroadcastBegin(b) \/ Broadcasting(b)
  <2>1. ASSUME NEW b \in Senders, BroadcastNext(b)  PROVE  NoPanic'
    <3>1. position[b] \in DOMAIN listeners
      BY <2>1 DEF BroadcastNext, TypeOK
    <3>2. listeners[position[b]] \in isOpen
      BY <3>1 DEF ListInv, Range
    <3> QED  BY <2>1, <3>2 DEF BroadcastNext
  <2> QED  BY <1>1, <2>1 DEF BroadcastBegin, Broadcasting, BroadcastEnd
<1>2. CASE \E c \in Clients : Connect(c) \/ Receive(c) \/ Leave(c)
  BY <1>2 DEF Connect, Receive, Leave
<1>3. CASE (\E r \in Requests : Request(r)) \/ (\E k \in Notes : Note(k)) \/ Shutdown \/ MainReturns
  BY <1>3 DEF Request, Note, Shutdown, MainReturns
<1>4. CASE \E a \in Clients \cup Requests \cup Notes : Sections(a)
  <2>1. ASSUME NEW c \in Clients, Unsubscribe(c)  PROVE  NoPanic'
    BY <2>1 DEF Unsubscribe, ListInv, Range
  <2> QED  BY <1>4, <2>1 DEF Sections, Subscribe, RequestSection, NoteSection
<1>5. CASE Closing
  BY <1>5 DEF Closing, CloseCalled, CloseLocked, CloseStopsSession, CloseChannels, ListInv
<1> QED  BY <1>1, <1>2, <1>3, <1>4, <1>5 DEF Next

-----------------------------------------------------------------------------
(* Types *)

LEMMA BroadcastTyped ==
  ASSUME TypeOK, NEW b \in Senders, BroadcastBegin(b) \/ Broadcasting(b)
  PROVE  TypeOK'
<1> USE ConstantsAssumption DEF TypeOK
<1>1. CASE BroadcastBegin(b)
  BY <1>1 DEF BroadcastBegin, RLock, stream
<1>2. CASE BroadcastNext(b)
  <2>1. listeners[position[b]] \in Clients
    BY <1>2 DEF BroadcastNext
  <2> DEFINE c == listeners[position[b]]
  <2>2. backlog' = [backlog EXCEPT ![c] = IF @ < Buffer THEN @ + 1 ELSE @]
    BY <1>2 DEF BroadcastNext
  <2> HIDE DEF c
  <2>3. backlog' \in [Clients -> 0 .. Buffer]
    <3>1. backlog[c] \in 0 .. Buffer => (IF backlog[c] < Buffer THEN backlog[c] + 1 ELSE backlog[c]) \in 0 .. Buffer
      OBVIOUS
    <3> QED  BY <2>1, <2>2, <3>1 DEF c
  <2>4. panicked' \in BOOLEAN
    BY <1>2 DEF BroadcastNext
  <2>5. position' \in [Senders -> Nat \ {0}]
    BY <1>2 DEF BroadcastNext
  <2> QED  BY <1>2, <2>3, <2>4, <2>5 DEF BroadcastNext, mutex
<1>3. CASE BroadcastEnd(b)
  BY <1>3 DEF BroadcastEnd, RUnlock, stream
<1> QED  BY <1>1, <1>2, <1>3 DEF Broadcasting

LEMMA ConnectionTyped ==
  ASSUME TypeOK, NEW c \in Clients, Connect(c) \/ Receive(c) \/ Leave(c)
  PROVE  TypeOK'
<1> USE ConstantsAssumption DEF TypeOK
<1>1. CASE Connect(c) \/ Leave(c)
  <2>1. client' \in [Clients -> {"off", "subscribing", "on", "leaving"}]
    BY <1>1 DEF Connect, Leave, At
  <2>2. pending' \subseteq Writers
    BY <1>1 DEF Connect, Leave, Lock, Writers
  <2> QED  BY <1>1, <2>1, <2>2 DEF Connect, Leave, Lock, stream
<1>2. CASE Receive(c)
  <2>1. backlog[c] \in 0 .. Buffer /\ backlog[c] > 0 => backlog[c] - 1 \in 0 .. Buffer
    OBVIOUS
  <2>2. backlog' \in [Clients -> 0 .. Buffer]
    BY <1>2, <2>1 DEF Receive
  <2> QED  BY <1>2, <2>2 DEF Receive, mutex
<1> QED  BY <1>1, <1>2

\* The end of a write section, in which the readers that waited come in.
LEMMA SectionTyped ==
  ASSUME TypeOK, NEW a, Section(a)
  PROVE  /\ writer' \in {Main, NoActor} /\ pending' \subseteq Writers
         /\ readers' \subseteq Senders \cup {Main} /\ blocked' \subseteq Senders \cup {Main}
BY DEF TypeOK, Section

LEMMA SectionsTyped ==
  ASSUME TypeOK, NEW a, Sections(a)
  PROVE  TypeOK'
<1> USE ConstantsAssumption
<1>1. /\ writer' \in {Main, NoActor} /\ pending' \subseteq Writers
      /\ readers' \subseteq Senders \cup {Main} /\ blocked' \subseteq Senders \cup {Main}
  BY SectionTyped DEF Sections, Subscribe, Unsubscribe, RequestSection, NoteSection
<1>2. CASE a \in Clients /\ (Subscribe(a) \/ Unsubscribe(a))
  <2>1. client' \in [Clients -> {"off", "subscribing", "on", "leaving"}]
    BY <1>2 DEF Subscribe, Unsubscribe, At, TypeOK
  <2>2. backlog' \in [Clients -> 0 .. Buffer]
    BY <1>2 DEF Subscribe, Unsubscribe, TypeOK
  <2>3. listeners' \in Seq(Clients)
    <3>1. listeners \in Seq(Clients)
      BY DEF TypeOK
    <3>2. CASE Subscribe(a)
      BY <1>2, <3>1, <3>2, AppendToList DEF Subscribe
    <3>3. CASE Unsubscribe(a)
      BY <3>1, <3>3, RemoveFromList DEF Unsubscribe
    <3> QED  BY <1>2, <3>2, <3>3
  <2>4. isOpen' \subseteq Clients /\ panicked' \in BOOLEAN
    BY <1>2 DEF Subscribe, Unsubscribe, TypeOK
  <2> QED  BY <1>1, <1>2, <2>1, <2>2, <2>3, <2>4 DEF Subscribe, Unsubscribe, TypeOK
<1>3. CASE RequestSection(a) \/ NoteSection(a)
  BY <1>1, <1>3 DEF RequestSection, NoteSection, TypeOK, stream
<1> QED  BY <1>2, <1>3 DEF Sections

LEMMA MainTyped ==
  ASSUME TypeOK, Shutdown \/ Closing \/ MainReturns
  PROVE  TypeOK'
<1> USE DEF TypeOK, Goto
<1>1. CASE Shutdown \/ MainReturns
  BY <1>1 DEF Shutdown, MainReturns, stream, mutex
<1>2. CASE CloseCalled
  BY <1>2 DEF CloseCalled, Lock, stream, Writers
<1>3. CASE CloseLocked
  BY <1>3 DEF CloseLocked, stream
<1>4. CASE CloseStopsSession
  BY <1>4 DEF CloseStopsSession, RLock, stream
<1>5. CASE CloseChannels
  BY <1>5 DEF CloseChannels
<1> QED  BY <1>1, <1>2, <1>3, <1>4, <1>5 DEF Closing

LEMMA TypeStep ==
  ASSUME TypeOK, Next
  PROVE  TypeOK'
<1>1. CASE (\E r \in Requests : Request(r)) \/ (\E k \in Notes : Note(k))
  BY <1>1 DEF Request, Note, Lock, Writers, TypeOK, stream
<1> QED  BY <1>1, BroadcastTyped, ConnectionTyped, SectionsTyped, MainTyped DEF Next

-----------------------------------------------------------------------------
(* The theorems *)

LEMMA InitIInv == Init => IInv
<1> SUFFICES ASSUME Init  PROVE IInv
  OBVIOUS
<1> USE ConstantsAssumption DEF Init
<1>1. TypeOK
  <2>1. backlog \in [Clients -> 0 .. Buffer] /\ listeners \in Seq(Clients)
    OBVIOUS
  <2>2. client \in [Clients -> {"off", "subscribing", "on", "leaving"}]
    OBVIOUS
  <2>3. position \in [Senders -> Nat \ {0}]
    OBVIOUS
  <2> QED  BY <2>1, <2>2, <2>3 DEF TypeOK
<1>2. ListInv /\ ConnectionInv /\ NoPanic
  BY DEF ListInv, ConnectionInv, NoPanic, Range
<1>3. MutexInv
  BY DEF MutexInv, Actors, Writers
<1> QED  BY <1>1, <1>2, <1>3 DEF IInv

LEMMA StepIInv == IInv /\ [Next]_vars => IInv'
<1>1. CASE IInv /\ Next
  BY <1>1, TypeStep, ListStep, ConnectionStep, MutexStep, PanicStep DEF IInv
<1>2. CASE IInv /\ UNCHANGED vars
  BY <1>2 DEF IInv, TypeOK, ListInv, ConnectionInv, MutexInv, NoPanic, vars, stream, mutex
<1> QED  BY <1>1, <1>2

LEMMA Invariance == Spec => []IInv
<1> QED  BY InitIInv, StepIInv, PTL DEF Spec

\* Every reachable state of the stream is well typed; in particular a channel
\* never holds more notices than make(chan EventNotice, 64) has places.
THEOREM TypeCorrect == Spec => []TypeOK
<1>1. IInv => TypeOK
  BY DEF IInv
<1> QED  BY <1>1, Invariance, PTL

\* No broadcast sends on a closed channel and none is closed twice, however many
\* connections come and go while sessions report and Close runs.
THEOREM NeverPanics == Spec => []NoPanic
<1>1. IInv => NoPanic
  BY DEF IInv
<1> QED  BY <1>1, Invariance, PTL

\* No ended connection leaves its channel behind, and until Close a connection in
\* the loop of handleWS is among the listeners, once.
THEOREM ListenersConnected == Spec => []ListenersAreConnections
<1>1. ASSUME IInv  PROVE ListenersAreConnections
  <2>1. \A c \in Clients : client[c] \in {"off", "subscribing"} => c \notin Range(listeners) \cup isOpen
    BY <1>1 DEF IInv, ListInv, ConnectionInv
  <2>2. ASSUME main \in {"serve", "shutdown", "lock", "stop", "stopping"},
               NEW c \in Clients, client[c] = "on"
        PROVE  c \in isOpen /\ \E i \in DOMAIN listeners : \A l \in DOMAIN listeners :
                                 listeners[l] = c <=> l = i
    <3>1. c \in Range(listeners) /\ c \in isOpen
      BY <1>1, <2>2 DEF IInv, ListInv, ConnectionInv
    <3>2. PICK i \in DOMAIN listeners : listeners[i] = c
      BY <3>1 DEF Range
    <3> QED  BY <1>1, <3>1, <3>2 DEF IInv, ListInv
  <2> QED  BY <2>1, <2>2 DEF ListenersAreConnections
<1> QED  BY <1>1, Invariance, PTL

\* While anyone reads, no step changes the list of listeners or closes a channel:
\* Subscribe and Unsubscribe wait for the readers, and Close has waited for them.
THEOREM ListStable == Spec => ListIsStable
<1>1. ASSUME IInv, [Next]_vars, readers # {}  PROVE UNCHANGED <<listeners, isOpen>>
  <2>1. ASSUME NEW c \in Clients, Subscribe(c) \/ Unsubscribe(c)  PROVE FALSE
    BY <1>1, <2>1 DEF Subscribe, Unsubscribe, Section, CanAcquire
  <2>2. CASE CloseChannels
    BY <1>1, <2>2 DEF CloseChannels, Goto, IInv, MutexInv
  <2>3. CASE UNCHANGED vars
    BY <2>3 DEF vars, stream
  <2> QED  BY <1>1, <2>1, <2>2, <2>3, StepsOnTheList DEF Listless
<1>2. IInv /\ [Next]_vars => [readers # {} => listeners' = listeners /\ isOpen' = isOpen]_vars
  BY <1>1
<1> QED  BY <1>2, Invariance, PTL DEF Spec, ListIsStable
=============================================================================
