--------------------------- MODULE SessionProofs ----------------------------
(***************************************************************************)
(* Theorems about Session, for any number of API calls, event goroutines   *)
(* and QR channels of any size.                                            *)
(***************************************************************************)
EXTENDS Session, TLAPS, SequenceTheorems

-----------------------------------------------------------------------------
(* The inductive invariant *)

\* A client that was connected under its credentials still has them.
LinkInv == link \in {"retry", "in"} => paired

\* The channel a Start is about to open or to connect for belongs to that Start
\* alone: no other call has it, nobody consumes it, and it is new until opened.
HeldInv ==
  /\ \A t, u \in Callers : call[t].chan = call[u].chan /\ call[t].chan # NoChan => t = u
  /\ \A t \in Callers :
       /\ call[t].chan \in Chans => ~consumer[call[t].chan]
       /\ call[t].pc = "channel" => /\ call[t].chan \in Chans
                                    /\ ~chan[call[t].chan].open /\ chan[call[t].chan].items = <<>>
       /\ call[t].pc \notin {"channel", "connect"} => call[t].chan = NoChan

\* The last item of a channel, which needs no place, comes when it ends.
ItemsInv == \A x \in Chans : chan[x].open => Len(chan[x].items) <= Buffer

OneCall == \A t, u \in Callers : t = u \/ ~InCall(t) \/ ~InCall(u)

\* A running channel is the one qrCancel cancels, and its client is waiting to be
\* paired, or about to be connected by the Start that opened the channel.
LiveInv ==
  \A x \in Chans : Live(x) =>
    /\ qrCancel = x /\ ~paired
    /\ link = "up" \/ \E t \in Callers : call[t].chan = x /\ call[t].pc = "connect"

\* No channel runs when a Start makes its own, or between the cancelling and the
\* disconnection of a Stop.
CallInv ==
  \A t \in Callers :
    /\ call[t].pc \in {"branch", "channel", "disconnect"} => \A x \in Chans : ~Live(x)
    /\ call[t].pc = "channel" => qrCancel = call[t].chan
    /\ call[t].pc = "connect" => \A x \in Chans : Live(x) => x = call[t].chan

-----------------------------------------------------------------------------
(* Writes and channels *)

LEMMA WriteCases ==
  ASSUME NEW w \in Writes
  PROVE  \/ w[1] = "status" /\ w[2] \in Statuses
         \/ w[1] = "qr" /\ w[2] \in Codes \cup {NoCode}
         \/ w[1] = "check"
BY DEF Writes

LEMMA StatusWrites ==
  ASSUME NEW st \in Statuses
  PROVE  SetStatus(st) \in Seq(Writes)
<1>1. <<"status", st>> \in Writes
  BY DEF Writes
<1> QED  BY <1>1 DEF SetStatus

LEMMA QRWrites ==
  ASSUME NEW c \in Codes \cup {NoCode}
  PROVE  SetQR(c) \in Seq(Writes)
<1>1. <<"qr", c>> \in Writes
  BY DEF Writes
<1> QED  BY <1>1 DEF SetQR

\* The lists of writes that the code makes.
LEMMA AllWrites ==
  /\ \A st \in {"STOPPED", "STARTING", "WORKING", "FAILED"} : SetStatus(st) \in Seq(Writes)
  /\ \A item \in Items : Received(item) \in Seq(Writes)
  /\ HandleConnected \in Seq(Writes)
  /\ SetStatus("STOPPED") \o SetQR(NoCode) \in Seq(Writes)
  /\ << <<"check", "Disconnected">> >> \in Seq(Writes)
<1>1. \A st \in Statuses : SetStatus(st) \in Seq(Writes)
  BY StatusWrites
<1>2. \A c \in Codes \cup {NoCode} : SetQR(c) \in Seq(Writes)
  BY QRWrites
<1>3. \A st \in Statuses, c \in Codes \cup {NoCode} : SetStatus(st) \o SetQR(c) \in Seq(Writes)
  BY <1>1, <1>2, ConcatProperties
<1>4. {"STOPPED", "STARTING", "WORKING", "FAILED", "SCAN_QR"} \subseteq Statuses
  BY DEF Statuses
<1>5. \A item \in Items : Received(item) \in Seq(Writes)
  BY <1>1, <1>2, <1>3, <1>4 DEF Received, Items
<1>6. << <<"check", "Disconnected">> >> \in Seq(Writes)
  <2>1. <<"check", "Disconnected">> \in Writes
    BY DEF Writes
  <2> QED  BY <2>1
<1> QED  BY <1>1, <1>3, <1>4, <1>5, <1>6 DEF HandleConnected

LEMMA ThenTyped ==
  ASSUME TypeOK, NEW a \in Actors, NEW writes \in Seq(Writes), Then(a, writes)
  PROVE  todo' \in [Actors -> Seq(Writes)]
BY DEF TypeOK, Then

\* The part of TypeOK and ItemsInv about the channels.
ChansOK ==
  /\ chan \in [Chans -> [open : BOOLEAN, cancelled : BOOLEAN, items : Seq(Items)]]
  /\ \A x \in Chans : Len(chan[x].items) <= Buffer + 1
  /\ ItemsInv

LEMMA CancelChans ==
  ASSUME ChansOK, NEW x, Cancel(x)
  PROVE  ChansOK'
BY DEF ChansOK, ItemsInv, Cancel

LEMMA OneChan ==
  ASSUME ChansOK, NEW x \in Chans,
         NEW r \in [open : BOOLEAN, cancelled : BOOLEAN, items : Seq(Items)],
         Len(r.items) <= Buffer + 1, r.open => Len(r.items) <= Buffer,
         chan' = [chan EXCEPT ![x] = r]
  PROVE  ChansOK'
BY DEF ChansOK, ItemsInv

LEMMA EndedChans ==
  ASSUME ChansOK, NEW X, NEW last \in Seq(Items), Len(last) <= 1, EndChans(X, last)
  PROVE  ChansOK'
<1> USE ConstantsAssumption DEF ChansOK, ItemsInv
<1>1. ASSUME NEW x \in Chans
      PROVE  /\ chan'[x] \in [open : BOOLEAN, cancelled : BOOLEAN, items : Seq(Items)]
             /\ Len(chan'[x].items) <= Buffer + 1
             /\ chan'[x].open => Len(chan'[x].items) <= Buffer
  <2>1. CASE chan[x].open /\ x \in X
    <3>1. chan'[x] = [open |-> FALSE, cancelled |-> FALSE, items |-> chan[x].items \o last]
      BY <2>1 DEF EndChans
    <3>2. /\ chan[x].items \o last \in Seq(Items)
          /\ Len(chan[x].items \o last) = Len(chan[x].items) + Len(last)
      BY ConcatProperties
    <3> HIDE DEF EndChans
    <3> QED  BY <2>1, <3>1, <3>2, LenProperties
  <2>2. CASE ~(chan[x].open /\ x \in X)
    BY <2>2 DEF EndChans
  <2> QED  BY <2>1, <2>2
<1>2. chan' = [x \in Chans |-> chan'[x]]
  BY DEF EndChans
<1> QED  BY <1>1, <1>2

-----------------------------------------------------------------------------
(* Types *)

TypeInv == TypeOK /\ HeldInv /\ ItemsInv

LEMMA TypeParts == TypeOK /\ ItemsInv => ChansOK
BY DEF TypeOK, ChansOK

Calls == [pc : {"idle", "start", "branch", "channel", "connect", "disconnect"}, chan : Chans \cup {NoChan}]

LEMMA ReturnTyped ==
  ASSUME TypeOK, NEW t \in Callers, Return(t)
  PROVE  call' \in [Callers -> Calls]
<1>1. IdleCall \in Calls
  BY DEF IdleCall, Calls
<1> QED  BY <1>1 DEF TypeOK, Return, Calls

LEMMA GotoTyped ==
  ASSUME TypeOK, NEW t \in Callers,
         NEW pc \in {"start", "branch", "connect", "disconnect"}, Goto(t, pc)
  PROVE  call' \in [Callers -> Calls]
BY DEF TypeOK, Goto, Calls

LEMMA WriteTyped ==
  ASSUME TypeInv, inTurn' \in BOOLEAN, cut' \in BOOLEAN, NEW a \in Actors, Write(a)
  PROVE  TypeOK' /\ ItemsInv'
<1> USE DEF TypeInv, TypeOK
<1>1. Head(todo[a]) \in Writes /\ Tail(todo[a]) \in Seq(Writes)
  BY HeadTailProperties DEF Write
<1>2. todo' \in [Actors -> Seq(Writes)]
  BY <1>1, ThenTyped DEF Write
<1>3. status' \in Statuses /\ lastQR' \in Codes \cup {NoCode}
  BY <1>1, WriteCases DEF Write
<1>4. alone' \in BOOLEAN
  BY DEF Write, Step
<1> QED  BY <1>2, <1>3, <1>4 DEF Write, ItemsInv

LEMMA StartTyped ==
  ASSUME TypeInv, inTurn' \in BOOLEAN, cut' \in BOOLEAN,
         NEW t \in Callers, PairPhone(t) \/ Start(t) \/ StartBranch(t)
  PROVE  TypeOK' /\ ItemsInv'
<1> USE DEF TypeInv, TypeOK, ItemsInv
<1>0. t \in Actors
  BY DEF Actors
<1>1. alone' \in BOOLEAN
  BY DEF PairPhone, Start, StartBranch, Step
<1>2. CASE PairPhone(t)
  BY <1>1, <1>2 DEF PairPhone, Goto
<1>3. CASE Start(t)
  <2>1. todo' \in [Actors -> Seq(Writes)]
    BY <1>0, <1>3, AllWrites, ThenTyped DEF Start
  <2>2. call' \in [Callers -> Calls]
    BY <1>3, ReturnTyped, GotoTyped DEF Start
  <2> QED  BY <1>1, <1>3, <2>1, <2>2 DEF Start, Calls
<1>4. CASE StartBranch(t)
  <2>1. CASE paired /\ Goto(t, "connect") /\ UNCHANGED <<qrCancel, chan>>
    BY <1>1, <1>4, <2>1 DEF StartBranch, Goto
  <2>2. ASSUME NEW x \in Chans, chan' = [chan EXCEPT ![x] = NewChan], qrCancel' = x,
               call' = [call EXCEPT ![t] = [pc |-> "channel", chan |-> x]]
        PROVE  TypeOK' /\ ItemsInv'
    <3>1. NewChan \in [open : BOOLEAN, cancelled : BOOLEAN, items : Seq(Items)]
          /\ Len(NewChan.items) = 0 /\ ~NewChan.open
      BY DEF NewChan
    <3>2. Buffer \in Nat
      BY ConstantsAssumption
    <3>3. call' \in [Callers -> [pc : {"idle", "start", "branch", "channel", "connect", "disconnect"},
                                 chan : Chans \cup {NoChan}]]
      BY <2>2
    <3>4. /\ chan' \in [Chans -> [open : BOOLEAN, cancelled : BOOLEAN, items : Seq(Items)]]
          /\ \A y \in Chans : /\ Len(chan'[y].items) <= Buffer + 1
                              /\ chan'[y].open => Len(chan'[y].items) <= Buffer
      BY <2>2, <3>1, <3>2
    <3> QED  BY <1>1, <1>4, <2>2, <3>3, <3>4 DEF StartBranch
  <2> QED  BY <1>4, <2>1, <2>2 DEF StartBranch
<1> QED  BY <1>2, <1>3, <1>4

LEMMA ConnectTyped ==
  ASSUME TypeInv, inTurn' \in BOOLEAN, cut' \in BOOLEAN,
         NEW t \in Callers, StartChannel(t) \/ StartConnect(t)
  PROVE  TypeOK' /\ ItemsInv'
<1> USE DEF TypeInv
<1>0. t \in Actors
  BY DEF Actors
<1>1. alone' \in BOOLEAN
  BY DEF StartChannel, StartConnect, Step
<1>2. ChansOK
  BY TypeParts
<1>3. todo' \in [Actors -> Seq(Writes)]
  BY <1>0, AllWrites, ThenTyped DEF StartChannel, StartConnect, TypeOK
<1>4. call' \in [Callers -> Calls]
  BY ReturnTyped, GotoTyped DEF StartChannel, StartConnect
<1>5. CASE StartChannel(t)
  <2>1. ChansOK'
    <3>1. CASE Cancel(call[t].chan)
      BY <1>2, <3>1, CancelChans
    <3>2. CASE chan' = [chan EXCEPT ![call[t].chan].open = TRUE]
      <4>1. call[t].chan \in Chans /\ chan[call[t].chan].items = <<>>
        BY <1>5 DEF StartChannel, Ready, HeldInv
      <4>2. Buffer \in Nat
        BY ConstantsAssumption
      <4> DEFINE x == call[t].chan
      <4>3. chan' = [chan EXCEPT ![x] = [chan[x] EXCEPT !.open = TRUE]]
        BY <3>2
      <4> DEFINE r == [chan[x] EXCEPT !.open = TRUE]
      <4>4. x \in Chans /\ chan[x] \in [open : BOOLEAN, cancelled : BOOLEAN, items : Seq(Items)]
        BY <1>2, <4>1 DEF ChansOK
      <4>5. r \in [open : BOOLEAN, cancelled : BOOLEAN, items : Seq(Items)] /\ r.items = chan[x].items
        BY <4>4
      <4>6. Len(r.items) = 0
        BY <4>1, <4>5
      <4> HIDE DEF x, r
      <4>7. chan' = [chan EXCEPT ![x] = r]
        BY <4>3 DEF r
      <4>8. Len(r.items) <= Buffer + 1 /\ Len(r.items) <= Buffer
        BY <4>2, <4>6
      <4> QED  BY <1>2, <4>4, <4>5, <4>7, <4>8, OneChan
    <3> QED  BY <1>5, <3>1, <3>2 DEF StartChannel
  <2> QED  BY <1>1, <1>3, <1>4, <1>5, <2>1 DEF StartChannel, TypeOK, ChansOK, Calls
<1>6. CASE StartConnect(t)
  <2>1. ChansOK'
    <3>1. CASE Cancel(call[t].chan)
      BY <1>2, <3>1, CancelChans
    <3>2. CASE UNCHANGED chan
      BY <1>2, <3>2 DEF ChansOK, ItemsInv
    <3> QED  BY <1>6, <3>1, <3>2 DEF StartConnect
  <2>2. consumer' \in [Chans -> BOOLEAN]
    BY <1>6 DEF StartConnect, TypeOK
  <2> QED  BY <1>1, <1>3, <1>4, <1>6, <2>1, <2>2 DEF StartConnect, TypeOK, ChansOK, Calls
<1> QED  BY <1>5, <1>6

LEMMA StopTyped ==
  ASSUME TypeInv, inTurn' \in BOOLEAN, cut' \in BOOLEAN, NEW t \in Callers,
         Stop(t) \/ StopDisconnect(t) \/ Logout(t) \/ LogoutFails(t)
  PROVE  TypeOK' /\ ItemsInv'
<1> USE DEF TypeInv
<1>0. t \in Actors
  BY DEF Actors
<1>1. alone' \in BOOLEAN
  BY DEF Stop, StopDisconnect, Logout, LogoutFails, Step
<1>2. todo' \in [Actors -> Seq(Writes)]
  BY <1>0, AllWrites, ThenTyped DEF Stop, StopDisconnect, Logout, LogoutFails, TypeOK
<1>3. call' \in [Callers -> Calls]
  BY ReturnTyped, GotoTyped DEF Stop, StopDisconnect, Logout, LogoutFails, TypeOK, Calls
<1>4. ChansOK'
  BY TypeParts, CancelChans DEF Stop, StopDisconnect, Logout, LogoutFails, ChansOK, ItemsInv
<1> QED  BY <1>1, <1>2, <1>3, <1>4
        DEF Stop, StopDisconnect, Logout, LogoutFails, TypeOK, ChansOK, Calls

LEMMA ConsumeTyped ==
  ASSUME TypeInv, inTurn' \in BOOLEAN, cut' \in BOOLEAN, NEW x \in Chans, ConsumeQR(x)
  PROVE  TypeOK' /\ ItemsInv'
<1> USE DEF TypeInv, TypeOK, ItemsInv
<1>0. x \in Actors
  BY DEF Actors
<1>1. alone' \in BOOLEAN
  BY DEF ConsumeQR, Step
<1>2. CASE chan[x].items # <<>>
  <2> DEFINE items == chan[x].items
  <2>1. /\ Head(items) \in Items /\ Tail(items) \in Seq(Items)
        /\ Len(Tail(items)) <= Len(items)
    BY <1>2, HeadTailProperties
  <2>2. todo' \in [Actors -> Seq(Writes)]
    BY <1>0, <1>2, <2>1, AllWrites, ThenTyped DEF ConsumeQR
  <2> DEFINE r == [chan[x] EXCEPT !.items = Tail(items)]
  <2>3. chan[x] \in [open : BOOLEAN, cancelled : BOOLEAN, items : Seq(Items)] /\ Len(items) \in Nat
    BY LenProperties
  <2>4. /\ r \in [open : BOOLEAN, cancelled : BOOLEAN, items : Seq(Items)]
        /\ r.items = Tail(items) /\ r.open = chan[x].open
    BY <2>1, <2>3
  <2>5. ChansOK'
    <3>1. chan' = [chan EXCEPT ![x] = r]
      BY <1>2 DEF ConsumeQR
    <3>2. Len(r.items) <= Buffer + 1 /\ (r.open => Len(r.items) <= Buffer)
      <4>1. Len(r.items) <= Len(items) /\ Len(items) <= Buffer + 1 /\ (r.open => Len(items) <= Buffer)
        BY <2>1, <2>4
      <4>2. Len(r.items) \in Nat /\ Buffer \in Nat
        BY <2>4, ConstantsAssumption, LenProperties
      <4> HIDE DEF r, items
      <4> QED  BY <2>3, <4>1, <4>2
    <3> HIDE DEF r
    <3> QED  BY <2>4, <3>1, <3>2, OneChan, TypeParts
  <2>6. consumer' \in [Chans -> BOOLEAN]
    BY <1>2 DEF ConsumeQR
  <2> QED  BY <1>1, <2>2, <2>5, <2>6 DEF ConsumeQR, ChansOK
<1>3. CASE chan[x].items = <<>>
  BY <1>1, <1>3 DEF ConsumeQR
<1> QED  BY <1>2, <1>3

LEMMA DispatchTyped ==
  ASSUME TypeOK, NEW writes \in Seq(Writes), Dispatch(writes)
  PROVE  todo' \in [Actors -> Seq(Writes)] /\ alone' \in BOOLEAN
<1>1. PICK h \in Handlers : Then(h, writes) /\ alone' = (alone /\ Quiet)
  BY DEF Dispatch
<1>2. h \in Actors
  BY DEF Actors
<1> QED  BY <1>1, <1>2, ThenTyped

LEMMA HandleTyped ==
  ASSUME TypeInv, inTurn' \in BOOLEAN, cut' \in BOOLEAN, NEW h \in Handlers, HandleDisconnected(h)
  PROVE  TypeOK' /\ ItemsInv'
<1>1. h \in Actors /\ TypeOK
  BY DEF Actors, TypeInv
<1>2. <<>> \in Seq(Writes) /\ SetStatus("STARTING") \in Seq(Writes)
  BY AllWrites
<1>3. todo' \in [Actors -> Seq(Writes)]
  BY <1>1, <1>2, ThenTyped DEF HandleDisconnected
<1>4. alone' \in BOOLEAN
  BY DEF HandleDisconnected, Step
<1> QED  BY <1>1, <1>3, <1>4 DEF HandleDisconnected, TypeInv, TypeOK, ItemsInv

LEMMA CodeTyped ==
  ASSUME TypeInv, inTurn' \in BOOLEAN, cut' \in BOOLEAN,
         NEW x \in Chans, NEW c \in Codes, QRCode(x, c)
  PROVE  TypeOK' /\ ItemsInv'
<1> USE DEF TypeInv, TypeOK, ItemsInv
<1>1. alone' \in BOOLEAN
  BY DEF QRCode
<1> DEFINE items == chan[x].items
<1>2. Append(items, c) \in Seq(Items) /\ Len(Append(items, c)) = Len(items) + 1
  BY AppendProperties DEF Items
<1>3. chan' = [chan EXCEPT ![x].items = Append(items, c)] /\ Len(items) < Buffer
  BY DEF QRCode
<1>4. /\ chan' \in [Chans -> [open : BOOLEAN, cancelled : BOOLEAN, items : Seq(Items)]]
      /\ chan'[x].items = Append(items, c)
      /\ \A y \in Chans \ {x} : chan'[y] = chan[y]
  BY <1>2, <1>3
<1>5. \A y \in Chans : /\ Len(chan'[y].items) <= Buffer + 1
                       /\ chan'[y].open => Len(chan'[y].items) <= Buffer
  BY <1>2, <1>3, <1>4, ConstantsAssumption, LenProperties
<1> QED  BY <1>1, <1>4, <1>5 DEF QRCode

\* What the client does by itself.
LEMMA ClientTyped ==
  ASSUME TypeInv, inTurn' \in BOOLEAN, cut' \in BOOLEAN,
         \/ \E x \in Chans : QRFailure(x) \/ QRCancelled(x)
         \/ PairSuccess \/ Connected \/ Disconnected \/ Reconnect \/ LoggedOut
  PROVE  TypeOK' /\ ItemsInv'
<1> USE DEF TypeInv
<1>1. ChansOK
  BY TypeParts
<1>2. /\ <<"failed">> \in Seq(Items) /\ <<"success">> \in Seq(Items) /\ <<>> \in Seq(Items)
      /\ Len(<<"failed">>) <= 1 /\ Len(<<"success">>) <= 1 /\ Len(<<>>) <= 1
  BY DEF Items
<1>3. ChansOK'
  <2>1. CASE UNCHANGED chan
    BY <1>1, <2>1 DEF ChansOK, ItemsInv
  <2>2. ASSUME NEW X, EndChans(X, <<"failed">>) \/ EndChans(X, <<"success">>) \/ EndChans(X, <<>>)
        PROVE  ChansOK'
    BY <1>1, <1>2, <2>2, EndedChans
  <2> QED  BY <2>1, <2>2 DEF QRFailure, QRCancelled, PairSuccess, Connected, Disconnected, Reconnect, LoggedOut
<1>4. CASE \E x \in Chans : QRFailure(x) \/ QRCancelled(x)
  BY <1>3, <1>4 DEF QRFailure, QRCancelled, TypeOK, ChansOK
<1>5. CASE Reconnect
  BY <1>3, <1>5 DEF Reconnect, TypeOK, ChansOK
<1>6. CASE PairSuccess \/ Connected \/ Disconnected \/ LoggedOut
  <2>1. todo' \in [Actors -> Seq(Writes)] /\ alone' \in BOOLEAN
    BY <1>6, AllWrites, DispatchTyped DEF PairSuccess, Connected, Disconnected, LoggedOut
  <2> QED  BY <1>3, <1>6, <2>1 DEF PairSuccess, Connected, Disconnected, LoggedOut, TypeOK, ChansOK
<1> QED  BY <1>4, <1>5, <1>6

LEMMA TypeStep ==
  ASSUME TypeInv, Next
  PROVE  TypeOK' /\ ItemsInv'
<1>1. inTurn' \in BOOLEAN /\ cut' \in BOOLEAN
  BY DEF Next
<1>2. CASE \E t \in Callers : Request(t) \/ CallStep(t) \/ LogoutFails(t)
  BY <1>1, <1>2, StartTyped, ConnectTyped, StopTyped DEF Request, CallStep
<1>3. CASE Client
  BY <1>1, <1>3, ClientTyped, CodeTyped DEF Client
<1> QED  BY <1>1, <1>2, <1>3, WriteTyped, ConsumeTyped, HandleTyped, ClientTyped DEF Next, Moves

-----------------------------------------------------------------------------
(* The channels that calls hold *)

\* An ended channel that nobody consumes stays as it is, but for its context.
Rests(x) == ~chan[x].open /\ ~consumer[x] => ~chan'[x].open /\ chan'[x].items = chan[x].items

LEMMA HeldKept ==
  ASSUME HeldInv, UNCHANGED call, \A x \in Chans : Rests(x) /\ (consumer'[x] => consumer[x])
  PROVE  HeldInv'
BY DEF HeldInv, Rests

\* A call goes on, or returns.
LEMMA CallMoves ==
  ASSUME TypeOK, HeldInv, NEW t \in Callers, NEW r \in Calls, call' = [call EXCEPT ![t] = r],
         r.chan \in {call[t].chan, NoChan}, r.pc # "channel", r.pc # "connect" => r.chan = NoChan,
         \A x \in Chans : /\ x # call[t].chan => Rests(x)
                          /\ consumer'[x] => consumer[x] \/ (x = call[t].chan /\ r.chan = NoChan)
  PROVE  HeldInv'
<1>0. NoChan \notin Chans
  BY ConstantsAssumption
<1>1. /\ call'[t] = r
      /\ \A u \in Callers : u # t => call'[u] = call[u]
      /\ \A u \in Callers : call[u].chan \in Chans \cup {NoChan}
  BY DEF TypeOK
<1>2. \A u, v \in Callers : call'[u].chan = call'[v].chan /\ call'[u].chan # NoChan => u = v
  BY <1>1 DEF HeldInv
<1>3. ASSUME NEW u \in Callers, u # t
      PROVE  /\ call'[u].chan \in Chans => ~consumer'[call'[u].chan]
             /\ call'[u].pc = "channel" => /\ call'[u].chan \in Chans
                                           /\ ~chan'[call'[u].chan].open /\ chan'[call'[u].chan].items = <<>>
             /\ call'[u].pc \notin {"channel", "connect"} => call'[u].chan = NoChan
  <2>1. call[u].chan \in Chans => call[u].chan # call[t].chan
    BY <1>0, <1>3 DEF HeldInv
  <2> QED  BY <1>1, <1>3, <2>1 DEF HeldInv, Rests
<1>4. /\ r.chan \in Chans => ~consumer'[r.chan]
      /\ r.pc \notin {"channel", "connect"} => r.chan = NoChan
  BY <1>0 DEF HeldInv
<1> QED  BY <1>1, <1>2, <1>3, <1>4 DEF HeldInv

\* The steps that are no part of a call leave its channel alone.
LEMMA OthersRest ==
  ASSUME TypeOK, HeldInv,
         \/ \E a \in Actors : Write(a)
         \/ \E t \in Callers : Logout(t) \/ LogoutFails(t)
         \/ \E x \in Chans : ConsumeQR(x) \/ QRCancelled(x)
         \/ \E h \in Handlers : HandleDisconnected(h)
         \/ Client
  PROVE  HeldInv'
<1> USE DEF Rests
<1>1. CASE UNCHANGED <<call, chan, consumer>>
  BY <1>1, HeldKept
<1>2. ASSUME NEW x \in Chans, ConsumeQR(x)  PROVE  HeldInv'
  BY <1>2, HeldKept DEF ConsumeQR, TypeOK
<1>3. ASSUME NEW x \in Chans, NEW c \in Codes, QRCode(x, c)  PROVE  HeldInv'
  BY <1>3, HeldKept DEF QRCode, Live, TypeOK
<1>4. ASSUME NEW X, NEW last, EndChans(X, last), UNCHANGED <<call, consumer>>  PROVE  HeldInv'
  BY <1>4, HeldKept DEF EndChans
<1>5. CASE \E x \in Chans : QRFailure(x) \/ QRCancelled(x)
  BY <1>4, <1>5 DEF QRFailure, QRCancelled
<1>6. CASE PairSuccess \/ Connected \/ Disconnected \/ Reconnect \/ LoggedOut
  BY <1>1, <1>4, <1>6 DEF PairSuccess, Connected, Disconnected, Reconnect, LoggedOut
<1>7. CASE \/ \E a \in Actors : Write(a)
           \/ \E t \in Callers : Logout(t) \/ LogoutFails(t)
           \/ \E h \in Handlers : HandleDisconnected(h)
  BY <1>1, <1>7 DEF Write, Logout, LogoutFails, HandleDisconnected
<1> QED  BY <1>2, <1>3, <1>5, <1>6, <1>7 DEF Client

LEMMA StartHeld ==
  ASSUME TypeOK, HeldInv, NEW t \in Callers, PairPhone(t) \/ Start(t) \/ StartBranch(t)
  PROVE  HeldInv'
<1>0. call[t].chan = NoChan /\ call[t] \in Calls
  BY DEF PairPhone, Start, StartBranch, Ready, HeldInv, TypeOK, Calls
<1>1. ASSUME UNCHANGED <<chan, consumer>>,
             Return(t) \/ \E pc \in {"start", "branch", "connect"} : Goto(t, pc)
      PROVE  HeldInv'
  <2>1. PICK r \in Calls : /\ call' = [call EXCEPT ![t] = r] /\ r.chan = NoChan /\ r.pc # "channel"
    <3>1. CASE Return(t)
      <4>1. IdleCall \in Calls /\ IdleCall.chan = NoChan /\ IdleCall.pc # "channel"
        BY DEF IdleCall, Calls
      <4> QED  BY <3>1, <4>1 DEF Return
    <3>2. ASSUME NEW pc \in {"start", "branch", "connect"}, Goto(t, pc)
          PROVE  \E r \in Calls : /\ call' = [call EXCEPT ![t] = r] /\ r.chan = NoChan /\ r.pc # "channel"
      <4>1. [call[t] EXCEPT !.pc = pc] \in Calls
        BY <1>0 DEF Calls
      <4>2. [call[t] EXCEPT !.pc = pc].chan = NoChan /\ [call[t] EXCEPT !.pc = pc].pc = pc
        BY <1>0 DEF Calls
      <4> QED  BY <3>2, <4>1, <4>2 DEF Goto
    <3> QED  BY <1>1, <3>1, <3>2
  <2> QED  BY <1>0, <1>1, <2>1, CallMoves DEF Rests
<1>2. ASSUME NEW x \in Chans, Unused(x), chan' = [chan EXCEPT ![x] = NewChan], UNCHANGED consumer,
             call' = [call EXCEPT ![t] = [pc |-> "channel", chan |-> x]]
      PROVE  HeldInv'
  <2>1. ~NewChan.open /\ NewChan.items = <<>>
    BY DEF NewChan
  <2>2. ~consumer[x] /\ \A u \in Callers : call[u].chan # x
    BY <1>2 DEF Unused
  <2>3. /\ call'[t].pc = "channel" /\ call'[t].chan = x
        /\ \A u \in Callers : u # t => call'[u] = call[u]
        /\ chan'[x] = NewChan /\ \A y \in Chans : y # x => chan'[y] = chan[y]
    BY <1>2 DEF TypeOK
  <2> QED  BY <1>2, <2>1, <2>2, <2>3 DEF HeldInv
<1> QED  BY <1>1, <1>2 DEF PairPhone, Start, StartBranch

LEMMA ConnectHeld ==
  ASSUME TypeOK, HeldInv, NEW t \in Callers,
         StartChannel(t) \/ StartConnect(t) \/ Stop(t) \/ StopDisconnect(t)
  PROVE  HeldInv'
<1>0. call[t] \in Calls /\ IdleCall \in Calls /\ IdleCall.chan = NoChan /\ IdleCall.pc = "idle"
  BY DEF TypeOK, Calls, IdleCall
<1>1. ASSUME Return(t), (\E x : Cancel(x)) \/ UNCHANGED chan,
             \A x \in Chans : consumer'[x] => consumer[x] \/ x = call[t].chan
      PROVE  HeldInv'
  <2>1. \A x \in Chans : Rests(x)
    <3>1. CASE UNCHANGED chan
      BY <3>1 DEF Rests
    <3>2. ASSUME NEW x, Cancel(x), NEW y \in Chans  PROVE Rests(y)
      <4>1. chan'[y] = IF y = x THEN [chan[y] EXCEPT !.cancelled = TRUE] ELSE chan[y]
        BY <3>2 DEF Cancel
      <4>2. chan[y] \in [open : BOOLEAN, cancelled : BOOLEAN, items : Seq(Items)]
        BY DEF TypeOK
      <4> QED  BY <4>1, <4>2 DEF Rests
    <3> QED  BY <1>1, <3>1, <3>2
  <2> QED  BY <1>0, <1>1, <2>1, CallMoves DEF Return
<1>2. ASSUME NEW pc \in {"connect", "disconnect"}, Goto(t, pc), UNCHANGED consumer,
             pc # "connect" => call[t].chan = NoChan,
             \A x \in Chans : x # call[t].chan => Rests(x)
      PROVE  HeldInv'
  <2> DEFINE r == [call[t] EXCEPT !.pc = pc]
  <2>1. r \in Calls /\ r.chan = call[t].chan /\ r.pc = pc
    BY <1>0 DEF Calls
  <2>2. call' = [call EXCEPT ![t] = r]
    BY <1>2 DEF Goto
  <2> HIDE DEF r
  <2> QED  BY <1>2, <2>1, <2>2, CallMoves
<1>3. CASE StartChannel(t)
  <2>1. CASE chan' = [chan EXCEPT ![call[t].chan].open = TRUE] /\ Goto(t, "connect")
    BY <1>2, <1>3, <2>1 DEF StartChannel, Rests, TypeOK
  <2> QED  BY <1>1, <1>3, <2>1 DEF StartChannel
<1>4. CASE Stop(t)
  <2>1. call[t].chan = NoChan
    BY <1>4 DEF Stop, Ready, HeldInv
  <2> QED  BY <1>2, <1>4, <2>1 DEF Stop, Cancel, Rests
<1>5. CASE StartConnect(t)
  <2>1. \A x \in Chans : consumer'[x] => consumer[x] \/ x = call[t].chan
    BY <1>5 DEF StartConnect
  <2> QED  BY <1>1, <1>5, <2>1 DEF StartConnect
<1> QED  BY <1>1, <1>3, <1>4, <1>5 DEF StopDisconnect

LEMMA HeldStep ==
  ASSUME TypeOK, HeldInv, Next
  PROVE  HeldInv'
BY OthersRest, StartHeld, ConnectHeld DEF Next, Moves, Request, CallStep

LEMMA LinkStep ==
  ASSUME TypeOK, LinkInv, Next
  PROVE  LinkInv'
<1> USE DEF LinkInv
<1>1. CASE UNCHANGED <<link, paired>>
  BY <1>1
<1>2. CASE \E t \in Callers : Request(t) \/ CallStep(t) \/ LogoutFails(t)
  BY <1>2 DEF Request, CallStep, PairPhone, Start, StartBranch, StartChannel, StartConnect,
              Stop, StopDisconnect, Logout, LogoutFails
<1>3. CASE Client
  BY <1>3 DEF Client, QRFailure, QRCode, PairSuccess, Connected, Disconnected, Reconnect, LoggedOut
<1> QED  BY <1>1, <1>2, <1>3 DEF Next, Moves, Write, ConsumeQR, QRCancelled, HandleDisconnected

-----------------------------------------------------------------------------
(* Calls that take turns *)

TurnInv == OneCall /\ LiveInv /\ CallInv

\* The client and the consumers only end channels, and connect no client that has
\* one running but to a pairing server.
LEMMA LiveKept ==
  ASSUME TurnInv, UNCHANGED <<call, qrCancel>>,
         \A x \in Chans : Live(x)' => Live(x) /\ ~paired' /\ (link' = link \/ link' = "up")
  PROVE  LiveInv' /\ CallInv'
BY DEF TurnInv, LiveInv, CallInv

\* Without a running channel there is little to say.
LEMMA NoneLive ==
  ASSUME \A x \in Chans : ~Live(x)',
         \A t \in Callers : call'[t].pc = "channel" => qrCancel' = call'[t].chan
  PROVE  LiveInv' /\ CallInv'
BY DEF LiveInv, CallInv

\* The others are idle when a call is in progress, before or after its step.
LEMMA OthersIdle ==
  ASSUME OneCall, OneCall', NEW t \in Callers, InCall(t) \/ InCall(t)',
         \A u \in Callers : u # t => call'[u] = call[u]
  PROVE  \A u \in Callers : u # t => call[u].pc = "idle" /\ call'[u].pc = "idle"
BY DEF OneCall, InCall

\* While the client is not connected, only the Start that opened a channel keeps it
\* running.
LEMMA NoneLiveAtStart ==
  ASSUME TurnInv, ~IsConnected, \A u \in Callers : call[u].pc # "connect"
  PROVE  \A x \in Chans : ~Live(x)
BY DEF TurnInv, LiveInv, IsConnected

LEMMA BeginTurn ==
  ASSUME TypeOK, HeldInv, TurnInv, OneCall', NEW t \in Callers, PairPhone(t) \/ Start(t)
  PROVE  LiveInv' /\ CallInv'
<1>1. /\ call[t].pc \in {"idle", "start"} /\ call[t].chan = NoChan
      /\ UNCHANGED <<qrCancel, link, paired, chan>>
  BY DEF PairPhone, Start, Ready, HeldInv
<1>2. \A x \in Chans : Live(x)' <=> Live(x)
  BY <1>1 DEF Live
<1>3. \A u \in Callers : u # t => call'[u] = call[u]
  BY DEF PairPhone, Start, Goto, Return, TypeOK
<1>4. CASE IsConnected
  <2>1. call'[t].pc = "idle"
    BY <1>4 DEF PairPhone, Start, Return, IdleCall, TypeOK
  <2> QED  BY <1>1, <1>2, <1>3, <2>1 DEF TurnInv, LiveInv, CallInv
<1>5. CASE ~IsConnected
  <2>1. call'[t].pc \in {"start", "branch"}
    BY <1>5 DEF PairPhone, Start, Goto, TypeOK
  <2>2. InCall(t)'
    BY <2>1 DEF InCall
  <2>3. \A u \in Callers : u # t => call[u].pc = "idle" /\ call'[u].pc = "idle"
    BY <1>3, <2>2, OthersIdle DEF TurnInv
  <2>4. \A x \in Chans : ~Live(x)
    BY <1>1, <1>5, <2>3, NoneLiveAtStart
  <2> QED  BY <1>2, <2>1, <2>3, <2>4, NoneLive
<1> QED  BY <1>4, <1>5

\* What is known of any step of a call between its begin and its end.
LEMMA InTheMiddle ==
  ASSUME TypeOK, TurnInv, OneCall', NEW t \in Callers, call[t].pc # "idle",
         \A u \in Callers : u # t => call'[u] = call[u]
  PROVE  \A u \in Callers : u # t => call[u].pc = "idle" /\ call'[u].pc = "idle"
<1>1. InCall(t)
  BY DEF InCall
<1> QED  BY <1>1, OthersIdle DEF TurnInv

LEMMA BranchTurn ==
  ASSUME TypeOK, TurnInv, OneCall', NEW t \in Callers, StartBranch(t)
  PROVE  LiveInv' /\ CallInv'
<1>1. call[t].pc = "branch" /\ \A u \in Callers : u # t => call'[u] = call[u]
  BY DEF StartBranch, Ready, Goto, TypeOK
<1>2. \A u \in Callers : u # t => call'[u].pc = "idle"
  BY <1>1, InTheMiddle
<1>3. \A x \in Chans : ~Live(x)
  BY <1>1 DEF TurnInv, CallInv
<1>4. CASE Goto(t, "connect") /\ UNCHANGED chan
  <2>1. call'[t].pc = "connect" /\ \A x \in Chans : ~Live(x)'
    BY <1>3, <1>4 DEF Goto, TypeOK, Live
  <2> QED  BY <1>2, <2>1, NoneLive
<1>5. ASSUME NEW x \in Chans, chan' = [chan EXCEPT ![x] = NewChan], qrCancel' = x,
             call' = [call EXCEPT ![t] = [pc |-> "channel", chan |-> x]]
      PROVE  LiveInv' /\ CallInv'
  <2>1. \A y \in Chans : ~Live(y)'
    BY <1>3, <1>5 DEF Live, NewChan, TypeOK
  <2>2. call'[t].chan = x
    BY <1>5 DEF TypeOK
  <2> QED  BY <1>2, <1>5, <2>1, <2>2, NoneLive
<1> QED  BY <1>4, <1>5 DEF StartBranch

LEMMA ChannelTurn ==
  ASSUME TypeOK, HeldInv, TurnInv, OneCall', NEW t \in Callers, StartChannel(t)
  PROVE  LiveInv' /\ CallInv'
<1>1. call[t].pc = "channel" /\ \A u \in Callers : u # t => call'[u] = call[u]
  BY DEF StartChannel, Ready, Goto, Return, TypeOK
<1>2. \A u \in Callers : u # t => call'[u].pc = "idle"
  BY <1>1, InTheMiddle
<1>3. /\ \A x \in Chans : ~Live(x)
      /\ qrCancel = call[t].chan /\ qrCancel \in Chans
  BY <1>1 DEF TurnInv, CallInv, HeldInv
<1>4. CASE IsConnected \/ paired
  <2>1. call'[t].pc = "idle" /\ \A x \in Chans : ~Live(x)'
    BY <1>3, <1>4 DEF StartChannel, Return, IdleCall, Cancel, Live, TypeOK
  <2> QED  BY <1>2, <2>1, NoneLive
<1>5. CASE ~(IsConnected \/ paired)
  <2>1. /\ call'[t].pc = "connect" /\ call'[t].chan = qrCancel
        /\ UNCHANGED <<qrCancel, paired>> /\ ~paired
    BY <1>3, <1>5 DEF StartChannel, Goto, TypeOK
  <2>2. \A x \in Chans : Live(x)' => x = qrCancel
    BY <1>3, <1>5 DEF StartChannel, Live, TypeOK
  <2> QED  BY <1>2, <2>1, <2>2 DEF LiveInv, CallInv
<1> QED  BY <1>4, <1>5

LEMMA ConnectTurn ==
  ASSUME TypeOK, TurnInv, OneCall', NEW t \in Callers, StartConnect(t)
  PROVE  LiveInv' /\ CallInv'
<1>1. /\ call[t].pc = "connect" /\ call'[t].pc = "idle"
      /\ \A u \in Callers : u # t => call'[u] = call[u]
  BY DEF StartConnect, Ready, Return, IdleCall, TypeOK
<1>2. \A u \in Callers : u # t => call'[u].pc = "idle"
  BY <1>1, InTheMiddle
<1>3. \A x \in Chans : Live(x) => x = call[t].chan /\ qrCancel = x /\ ~paired
  BY <1>1 DEF TurnInv, CallInv, LiveInv
<1>4. CASE link' = "up" /\ UNCHANGED chan
  BY <1>1, <1>2, <1>3, <1>4 DEF StartConnect, Live, LiveInv, CallInv
<1>5. CASE Cancel(call[t].chan)
  <2>1. \A x \in Chans : ~Live(x)'
    BY <1>3, <1>5 DEF Cancel, Live
  <2> QED  BY <1>1, <1>2, <2>1, NoneLive
<1> QED  BY <1>4, <1>5 DEF StartConnect

LEMMA StopTurn ==
  ASSUME TypeOK, TurnInv, OneCall', NEW t \in Callers, Stop(t) \/ StopDisconnect(t)
  PROVE  LiveInv' /\ CallInv'
<1>1. /\ call[t].pc = "disconnect" \/ call'[t].pc = "disconnect"
      /\ call'[t].pc \in {"disconnect", "idle"}
      /\ \A u \in Callers : u # t => call'[u] = call[u]
  BY DEF Stop, StopDisconnect, Ready, Goto, Return, IdleCall, TypeOK
<1>2. \A u \in Callers : u # t => call'[u].pc = "idle"
  BY <1>1, OthersIdle DEF InCall, TurnInv
<1>3. CASE Stop(t)
  <2>1. \A x \in Chans : Live(x) => x = qrCancel
    BY DEF TurnInv, LiveInv
  <2>2. \A x \in Chans : ~Live(x)'
    BY <1>3, <2>1 DEF Stop, Cancel, Live
  <2> QED  BY <1>1, <1>2, <2>2, NoneLive
<1>4. CASE StopDisconnect(t)
  <2>1. \A x \in Chans : ~Live(x)'
    BY <1>4 DEF StopDisconnect, Ready, TurnInv, CallInv, Live
  <2> QED  BY <1>1, <1>2, <2>1, NoneLive
<1> QED  BY <1>3, <1>4

LEMMA ClientTurn ==
  ASSUME TypeOK, LinkInv, TurnInv,
         \/ \E a \in Actors : Write(a)
         \/ \E t \in Callers : Logout(t) \/ LogoutFails(t)
         \/ \E x \in Chans : ConsumeQR(x) \/ QRCancelled(x)
         \/ \E h \in Handlers : HandleDisconnected(h)
         \/ Client
  PROVE  LiveInv' /\ CallInv'
<1>0. paired => \A x \in Chans : ~Live(x)
  BY DEF TurnInv, LiveInv
<1>1. CASE UNCHANGED <<call, qrCancel, link, paired, chan>>
  BY <1>1, LiveKept DEF Live, TurnInv, LiveInv
<1>2. ASSUME UNCHANGED <<call, qrCancel, chan>>, paired
      PROVE  LiveInv' /\ CallInv'
  BY <1>0, <1>2, LiveKept DEF Live
<1>3. CASE (\E t \in Callers : Logout(t) \/ LogoutFails(t)) \/ Connected \/ Reconnect \/ LoggedOut
  BY <1>2, <1>3 DEF Logout, LogoutFails, Connected, Reconnect, LoggedOut, LinkInv
<1>4. ASSUME NEW x \in Chans, ConsumeQR(x) \/ QRCancelled(x) \/ \E c \in Codes : QRCode(x, c)
      PROVE  LiveInv' /\ CallInv'
  <2>1. \A y \in Chans : Live(y)' => Live(y)
    <3>1. CASE QRCancelled(x)
      BY <3>1 DEF QRCancelled, EndChans, Live
    <3>2. ASSUME NEW items, chan' = [chan EXCEPT ![x].items = items]
          PROVE  \A y \in Chans : Live(y)' => Live(y)
      BY <3>2 DEF Live, TypeOK
    <3> QED  BY <1>4, <3>1, <3>2 DEF ConsumeQR, QRCode, Live
  <2>2. UNCHANGED <<call, qrCancel, link, paired>>
    BY <1>4 DEF ConsumeQR, QRCancelled, QRCode
  <2> QED  BY <2>1, <2>2, LiveKept DEF TurnInv, LiveInv
<1>5. ASSUME NEW x \in Chans, QRFailure(x)  PROVE LiveInv' /\ CallInv'
  <2>1. \A y \in Chans : ~Live(y)'
    BY <1>5 DEF QRFailure, EndChans, Live, TurnInv, LiveInv, TypeOK
  <2> QED  BY <1>5, <2>1, LiveKept DEF QRFailure
<1>6. CASE PairSuccess \/ Disconnected
  <2>1. \A y \in Chans : ~Live(y)'
    BY <1>6 DEF PairSuccess, Disconnected, EndChans, Live, TypeOK
  <2> QED  BY <1>6, <2>1, LiveKept DEF PairSuccess, Disconnected
<1>7. CASE (\E a \in Actors : Write(a)) \/ (\E h \in Handlers : HandleDisconnected(h))
  BY <1>1, <1>7 DEF Write, HandleDisconnected
<1> QED  BY <1>3, <1>4, <1>5, <1>6, <1>7 DEF Client

LEMMA TurnStep ==
  ASSUME TypeOK, LinkInv, HeldInv, inTurn => TurnInv, Next
  PROVE  inTurn' => TurnInv'
<1> SUFFICES ASSUME inTurn'  PROVE TurnInv'
  OBVIOUS
<1>1. inTurn /\ OneCall'
  BY DEF Next, OneCall
<1>2. LiveInv' /\ CallInv'
  BY <1>1, BeginTurn, BranchTurn, ChannelTurn, ConnectTurn, StopTurn, ClientTurn
     DEF Next, Moves, Request, CallStep
<1> QED  BY <1>1, <1>2 DEF TurnInv

-----------------------------------------------------------------------------
(* Activities that come one at a time *)

\* In the middle of something other than clearing the code after a pairing.
Working(a) == Busy(a) /\ ~Clears(a)

Down == link \in {"down", "retry"}

\* What an API call has done so far, and what the client is like meanwhile.
CallOutcome(t) ==
  \/ call[t].pc = "start" /\ todo[t] = <<>> /\ Down /\ StatusRight
  \/ call[t].pc = "branch" /\ todo[t] = SetStatus("STARTING") /\ Down
  \/ call[t].pc \in {"branch", "channel", "connect"} /\ todo[t] = <<>> /\ Down /\ status = "STARTING"
  \/ call[t].pc = "disconnect" /\ todo[t] = <<>>
  \/ call[t].pc = "idle" /\ todo[t] = SetStatus("FAILED") /\ Down
  \/ /\ call[t].pc = "idle" /\ link = "down"
     /\ \/ todo[t] \in {SetStatus("STOPPED"), SetStatus("STOPPED") \o SetQR(NoCode)}
        \/ todo[t] = SetQR(NoCode) /\ status = "STOPPED"

HandlerOutcome(h) ==
  \/ todo[h] \in {<< <<"check", "Disconnected">> >>, SetStatus("STARTING")} /\ Down
  \/ todo[h] = SetStatus("WORKING") /\ link = "up" /\ paired
  \/ todo[h] = HandleConnected /\ link = "in"
  \/ todo[h] = SetQR(NoCode) /\ link = "in" /\ status = "WORKING"
  \/ todo[h] = SetStatus("STOPPED") /\ link = "down"

ConsumerOutcome(x) ==
  \/ /\ todo[x] = <<>> /\ link = "up" /\ ~paired /\ status # "WORKING"
     /\ \E c \in Codes : chan[x].items = <<c>>
  \/ todo[x] = <<>> /\ link = "down" /\ chan[x].items = <<"failed">>
  \/ /\ link = "up" /\ ~paired /\ chan[x].items = <<>>
     /\ \E c \in Codes : \/ todo[x] = SetStatus("SCAN_QR") \o SetQR(c)
                         \/ todo[x] = SetQR(c) /\ status = "SCAN_QR"
  \/ todo[x] = SetStatus("FAILED") /\ link = "down" /\ ~consumer[x]

Outcome(a) ==
  \/ a \in Callers /\ CallOutcome(a)
  \/ a \in Handlers /\ HandlerOutcome(a)
  \/ a \in Chans /\ ConsumerOutcome(a)

\* A channel has an item only for the consumer that is at work on it, and one that
\* runs has a consumer or is about to get it.
EmptyInv ==
  /\ \A x \in Chans : consumer[x] /\ todo[x] = SetQR(NoCode) => chan[x].items = <<>>
  /\ \A t \in Callers : call[t].pc = "connect" /\ call[t].chan \in Chans
                          => chan[call[t].chan].items = <<>>
  /\ \A x \in Chans : Live(x) => consumer[x] \/ \E t \in Callers : call[t].chan = x

\* The heart of it: one activity at a time, each leaving agreement behind it.
SoloInv ==
  /\ \A a, b \in Actors : a = b \/ ~Working(a) \/ ~Working(b)
  /\ \A a \in Actors : Working(a) => Outcome(a)
  /\ (\A a \in Actors : ~Working(a)) => StatusRight
  /\ EmptyInv

\* What Next does to the history of the status, but for a Logout that fails.
KeepsCut == status' = status /\ cut => cut'

LEMMA OneElement ==
  ASSUME NEW S, NEW e \in S
  PROVE  /\ <<e>> \in Seq(S) /\ Len(<<e>>) = 1 /\ <<e>>[1] = e
         /\ Head(<<e>>) = e /\ Tail(<<e>>) = <<>> /\ <<e>> # <<>>
<1>1. <<e>> \in Seq(S) /\ Len(<<e>>) = 1 /\ <<e>>[1] = e
  OBVIOUS
<1>2. <<e>> # <<>> /\ Head(<<e>>) = e
  BY <1>1
<1>3. Tail(<<e>>) \in Seq(S) /\ Len(Tail(<<e>>)) = 0
  BY <1>1, <1>2, HeadTailProperties
<1> QED  BY <1>1, <1>2, <1>3, EmptySeq

LEMMA TwoElements ==
  ASSUME NEW S, NEW e \in S, NEW f \in S
  PROVE  /\ <<e>> \o <<f>> # <<>> /\ Head(<<e>> \o <<f>>) = e /\ Tail(<<e>> \o <<f>>) = <<f>>
<1>1. <<e>> \in Seq(S) /\ <<f>> \in Seq(S) /\ Len(<<e>>) = 1 /\ Len(<<f>>) = 1 /\ <<e>>[1] = e /\ <<f>>[1] = f
  BY OneElement
<1> DEFINE s == <<e>> \o <<f>>
<1>2. s \in Seq(S) /\ Len(s) = 2 /\ s[1] = e /\ s[2] = f
  BY <1>1, ConcatProperties
<1> HIDE DEF s
<1>3. s # <<>>
  <2>1. Len(s) # 0
    BY <1>2
  <2> QED  BY <2>1, EmptySeq
<1>4. Head(s) = e
  BY <1>2, <1>3, HeadTailProperties
<1>5. /\ Tail(s) \in Seq(S) /\ Len(Tail(s)) = 1 /\ Tail(s)[1] = f
  <2>1. Tail(s) \in Seq(S) /\ Len(Tail(s)) = 2 - 1 /\ \A i \in 1 .. Len(Tail(s)) : Tail(s)[i] = s[i + 1]
    BY <1>2, <1>3, HeadTailProperties
  <2> QED  BY <1>2, <2>1
<1> DEFINE r == Tail(s)
<1> HIDE DEF r
<1>6. r = <<f>>
  <2>1. r \in Seq(S) /\ Len(r) = 1 /\ r[1] = f
    BY <1>5 DEF r
  <2> QED  BY <1>1, <2>1
<1> QED  BY <1>3, <1>4, <1>6 DEF s, r

\* The lists of writes, one write at a time.
LEMMA ListsOfWrites ==
  ASSUME NEW st, NEW c
  PROVE  /\ SetStatus(st) # <<>> /\ SetQR(c) # <<>> /\ SetStatus(st) \o SetQR(c) # <<>>
         /\ Head(SetStatus(st)) = <<"status", st>> /\ Tail(SetStatus(st)) = <<>>
         /\ Head(SetQR(c)) = <<"qr", c>> /\ Tail(SetQR(c)) = <<>>
         /\ Head(SetStatus(st) \o SetQR(c)) = <<"status", st>>
         /\ Tail(SetStatus(st) \o SetQR(c)) = SetQR(c)
<1> DEFINE S == {<<"status", st>>, <<"qr", c>>}
<1>1. <<"status", st>> \in S /\ <<"qr", c>> \in S
  OBVIOUS
<1> HIDE DEF S
<1> QED  BY <1>1, OneElement, TwoElements DEF SetStatus, SetQR

LEMMA WriteStatus ==
  ASSUME TypeOK, NEW a \in Actors, NEW st, Write(a), todo[a] = SetStatus(st)
  PROVE  status' = st /\ todo'[a] = <<>> /\ lastQR' = lastQR
<1>1. Head(todo[a]) = <<"status", st>> /\ Tail(todo[a]) = <<>>
  BY ListsOfWrites
<1> QED  BY <1>1 DEF Write, Then, TypeOK

LEMMA WriteQR ==
  ASSUME TypeOK, NEW a \in Actors, NEW c, Write(a), todo[a] = SetQR(c)
  PROVE  status' = status /\ todo'[a] = <<>> /\ lastQR' = c
<1>1. Head(todo[a]) = <<"qr", c>> /\ Tail(todo[a]) = <<>>
  BY ListsOfWrites
<1> QED  BY <1>1 DEF Write, Then, TypeOK

LEMMA WriteStatusThenQR ==
  ASSUME TypeOK, NEW a \in Actors, NEW st, NEW c, Write(a), todo[a] = SetStatus(st) \o SetQR(c)
  PROVE  status' = st /\ todo'[a] = SetQR(c) /\ lastQR' = lastQR
BY ListsOfWrites DEF Write, Then, TypeOK

LEMMA Kinds ==
  /\ \A t \in Callers : t \in Actors /\ t \notin Handlers /\ t \notin Chans
  /\ \A h \in Handlers : h \in Actors /\ h \notin Callers /\ h \notin Chans
  /\ \A x \in Chans : x \in Actors /\ x \notin Callers /\ x \notin Handlers
BY ConstantsAssumption DEF Actors

\* Nobody starts to work by being left alone.
LEMMA SameWorking ==
  ASSUME NEW b \in Actors, ~Working(b), todo'[b] = todo[b],
         b \in Callers => call'[b] = call[b],
         b \in Chans => consumer'[b] = consumer[b] /\ (consumer[b] => chan'[b].items = chan[b].items)
  PROVE  ~Working(b)'
BY DEF Working, Busy, Clears

LEMMA OthersDone ==
  ASSUME NEW a \in Actors, alone', Step(a), ~Clears(a)
  PROVE  alone /\ \A b \in Actors : b # a => ~Working(b)
BY DEF Step, Working

LEMMA Rebuild ==
  ASSUME NEW a \in Actors, \A b \in Actors : b # a => ~Working(b)',
         Working(a)' => Outcome(a)', ~Working(a)' => StatusRight', EmptyInv'
  PROVE  SoloInv'
BY DEF SoloInv

\* Steps of a call: the others do nothing, and the channels lose nothing.
LEMMA CallSolo ==
  ASSUME TypeOK, alone', NEW t \in Callers, Step(t), UNCHANGED consumer,
         \A b \in Actors : b # t => todo'[b] = todo[b],
         \A u \in Callers : u # t => call'[u] = call[u],
         \A x \in Chans : consumer[x] => chan'[x].items = chan[x].items,
         Working(t)' => CallOutcome(t)', ~Working(t)' => StatusRight', EmptyInv'
  PROVE  SoloInv'
<1>1. t \in Actors /\ ~Clears(t)
  BY Kinds DEF Clears
<1>2. \A b \in Actors : b # t => ~Working(b)
  BY <1>1, OthersDone
<1>3. \A b \in Actors : b # t => ~Working(b)'
  BY <1>2, SameWorking
<1>4. Working(t)' => Outcome(t)'
  BY DEF Outcome
<1> QED  BY <1>1, <1>3, <1>4, Rebuild

LEMMA CallWorks ==
  ASSUME NEW t \in Callers
  PROVE  Working(t) <=> todo[t] # <<>> \/ call[t].pc # "idle"
BY Kinds DEF Working, Busy, Clears

LEMMA CallOutcomes ==
  ASSUME SoloInv, NEW t \in Callers, Working(t)
  PROVE  CallOutcome(t)
BY Kinds DEF SoloInv, Outcome

\* A call keeps EmptyInv if its channel has no item, and no channel is left running
\* by it without a consumer.
LEMMA EmptyKept ==
  ASSUME EmptyInv, NEW t \in Callers, UNCHANGED consumer,
         \A x \in Chans : todo'[x] = todo[x] /\ chan'[x].items \in {chan[x].items, <<>>},
         \A u \in Callers : u # t => call'[u] = call[u],
         call'[t].pc = "connect" /\ call'[t].chan \in Chans => chan'[call'[t].chan].items = <<>>,
         \A x \in Chans : Live(x)' => (Live(x) /\ call[t].chan # x) \/ call'[t].chan = x
  PROVE  EmptyInv'
BY DEF EmptyInv

LEMMA BeginSolo ==
  ASSUME TypeOK, HeldInv, SoloInv, alone', KeepsCut, NEW t \in Callers,
         PairPhone(t) \/ (Ready(t, "idle") /\ Start(t))
  PROVE  SoloInv'
<1>1. /\ todo[t] = <<>> /\ call[t].pc = "idle" /\ Step(t)
      /\ UNCHANGED <<status, lastQR, qrCancel, link, paired, chan, consumer>>
      /\ \A b \in Actors : b # t => todo'[b] = todo[b]
      /\ \A u \in Callers : u # t => call'[u] = call[u]
      /\ call'[t].pc # "connect"
  BY DEF PairPhone, Start, Ready, Goto, Return, IdleCall, Then, TypeOK
<1>2. t \in Actors /\ ~Clears(t) /\ ~Working(t)
  BY <1>1, Kinds, CallWorks DEF Clears
<1>3. StatusRight
  BY <1>1, <1>2, OthersDone DEF SoloInv
<1>4. StatusRight'
  BY <1>1, <1>3 DEF StatusRight, IsConnected, KeepsCut
<1>5. Working(t)' => CallOutcome(t)'
  <2>1. CASE IsConnected
    <3>1. todo'[t] = <<>> /\ call'[t].pc = "idle"
      BY <1>1, <2>1 DEF PairPhone, Start, Return, IdleCall, TypeOK
    <3> QED  BY <3>1, Kinds DEF Working, Busy
  <2>2. CASE ~IsConnected
    <3>1. Down'
      BY <1>1, <2>2 DEF Down, IsConnected, TypeOK
    <3>2. CASE PairPhone(t)
      BY <1>1, <1>4, <3>1, <3>2 DEF PairPhone, Goto, CallOutcome, TypeOK
    <3>3. CASE Start(t)
      <4>1. call'[t].pc = "branch" /\ todo'[t] = SetStatus("STARTING")
        BY <1>2, <2>2, <3>3 DEF Start, Goto, Then, TypeOK
      <4> QED  BY <3>1, <4>1 DEF CallOutcome
    <3> QED  BY <3>2, <3>3
  <2> QED  BY <2>1, <2>2
<1>6. EmptyInv'
  <2>1. call[t].chan = NoChan /\ NoChan \notin Chans
    BY <1>1, ConstantsAssumption DEF HeldInv
  <2> QED  BY <1>1, <2>1, Kinds, EmptyKept DEF SoloInv, Live
<1> QED  BY <1>1, <1>4, <1>5, <1>6, CallSolo

\* PairPhone goes on to Start.
LEMMA StartSolo ==
  ASSUME TypeOK, HeldInv, SoloInv, alone', KeepsCut, NEW t \in Callers,
         Ready(t, "start"), Start(t)
  PROVE  SoloInv'
<1>1. /\ todo[t] = <<>> /\ call[t].pc = "start" /\ Step(t)
      /\ UNCHANGED <<status, lastQR, qrCancel, link, paired, chan, consumer>>
      /\ \A b \in Actors : b # t => todo'[b] = todo[b]
      /\ \A u \in Callers : u # t => call'[u] = call[u]
  BY DEF Start, Ready, Goto, Return, Then, TypeOK
<1>2. Down /\ StatusRight
  <2>1. Working(t)
    BY <1>1, CallWorks
  <2>2. CallOutcome(t)
    BY <2>1, CallOutcomes
  <2> QED  BY <1>1, <2>2 DEF CallOutcome
<1>3. Down' /\ StatusRight'
  BY <1>1, <1>2 DEF Down, StatusRight, IsConnected, KeepsCut
<1>4. call'[t].pc = "branch" /\ todo'[t] = SetStatus("STARTING")
  <2>1. t \in Actors /\ ~IsConnected
    BY <1>2, Kinds DEF Down, IsConnected
  <2> QED  BY <2>1 DEF Start, Goto, Then, TypeOK
<1>5. CallOutcome(t)'
  BY <1>3, <1>4 DEF CallOutcome
<1>6. EmptyInv'
  <2>1. call[t].chan = NoChan /\ NoChan \notin Chans
    BY <1>1, ConstantsAssumption DEF HeldInv
  <2> QED  BY <1>1, <1>4, <2>1, Kinds, EmptyKept DEF SoloInv, Live
<1> QED  BY <1>1, <1>3, <1>5, <1>6, CallSolo

LEMMA BranchSolo ==
  ASSUME TypeOK, HeldInv, SoloInv, alone', NEW t \in Callers, StartBranch(t)
  PROVE  SoloInv'
<1>0. t \in Actors /\ NoChan \notin Chans
  BY Kinds, ConstantsAssumption
<1>1. /\ todo[t] = <<>> /\ call[t].pc = "branch" /\ Step(t)
      /\ UNCHANGED <<status, lastQR, link, paired, consumer, todo>>
      /\ \A u \in Callers : u # t => call'[u] = call[u]
  BY DEF StartBranch, Ready, Goto, TypeOK
<1>2. Down /\ status = "STARTING" /\ call[t].chan = NoChan
  <2>1. Working(t)
    BY <1>1, CallWorks
  <2>2. CallOutcome(t)
    BY <2>1, CallOutcomes
  <2> QED  BY <1>1, <2>2, ListsOfWrites DEF CallOutcome, HeldInv
<1>3. call'[t].pc \in {"connect", "channel"}
  BY DEF StartBranch, Goto, TypeOK
<1>4. CallOutcome(t)' /\ Working(t)'
  BY <1>0, <1>1, <1>2, <1>3, Kinds DEF CallOutcome, Down, Working, Busy, Clears
<1>5. CASE Goto(t, "connect") /\ UNCHANGED chan
  <2>1. EmptyInv'
    BY <1>0, <1>1, <1>2, <1>5, EmptyKept DEF SoloInv, Live, Goto, TypeOK
  <2> QED  BY <1>1, <1>4, <1>5, <2>1, CallSolo
<1>6. ASSUME NEW x \in Chans, Unused(x), chan' = [chan EXCEPT ![x] = NewChan],
             call' = [call EXCEPT ![t] = [pc |-> "channel", chan |-> x]]
      PROVE  SoloInv'
  <2>1. /\ \A y \in Chans : chan'[y].items \in {chan[y].items, <<>>} /\ (Live(y)' => Live(y))
        /\ \A y \in Chans : consumer[y] => chan'[y].items = chan[y].items
    BY <1>6 DEF NewChan, Live, Unused, TypeOK
  <2>2. EmptyInv'
    BY <1>0, <1>1, <1>2, <1>6, <2>1, EmptyKept DEF SoloInv, TypeOK
  <2> QED  BY <1>1, <1>4, <2>1, <2>2, CallSolo
<1> QED  BY <1>5, <1>6 DEF StartBranch

LEMMA ChannelSolo ==
  ASSUME TypeOK, HeldInv, SoloInv, alone', NEW t \in Callers, StartChannel(t)
  PROVE  SoloInv'
<1>0. t \in Actors /\ NoChan \notin Chans
  BY Kinds, ConstantsAssumption
<1> DEFINE x == call[t].chan
<1>1. /\ todo[t] = <<>> /\ call[t].pc = "channel" /\ Step(t)
      /\ UNCHANGED <<status, lastQR, link, paired, consumer>>
      /\ \A b \in Actors : b # t => todo'[b] = todo[b]
      /\ \A u \in Callers : u # t => call'[u] = call[u]
  BY DEF StartChannel, Ready, Goto, Return, Then, TypeOK
<1>2. Down /\ status = "STARTING"
  <2>1. Working(t)
    BY <1>1, CallWorks
  <2>2. CallOutcome(t)
    BY <2>1, CallOutcomes
  <2> QED  BY <1>1, <2>2 DEF CallOutcome
<1>3. x \in Chans /\ ~chan[x].open /\ chan[x].items = <<>>
  BY <1>1 DEF HeldInv
<1>4. CASE IsConnected \/ paired
  <2>1. call'[t].pc = "idle" /\ todo'[t] = SetStatus("FAILED") /\ Cancel(x)
    BY <1>0, <1>4 DEF StartChannel, Return, IdleCall, Then, TypeOK
  <2>2. CallOutcome(t)' /\ Working(t)'
    BY <1>0, <1>1, <1>2, <2>1, Kinds, ListsOfWrites DEF CallOutcome, Down, Working, Busy, Clears
  <2>3. \A y \in Chans : chan'[y].items = chan[y].items /\ (Live(y)' => Live(y) /\ y # x)
    BY <1>3, <2>1 DEF Cancel, Live, TypeOK
  <2>4. EmptyInv'
    BY <1>1, <2>1, <2>3, Kinds, EmptyKept DEF SoloInv
  <2> QED  BY <1>1, <2>2, <2>3, <2>4, CallSolo
<1>5. CASE ~(IsConnected \/ paired)
  <2>1. /\ call'[t].pc = "connect" /\ call'[t].chan = x /\ todo'[t] = <<>>
        /\ chan' = [chan EXCEPT ![x].open = TRUE]
    BY <1>0, <1>1, <1>5 DEF StartChannel, Goto, TypeOK
  <2>2. CallOutcome(t)' /\ Working(t)'
    BY <1>0, <1>1, <1>2, <2>1, Kinds DEF CallOutcome, Down, Working, Busy, Clears
  <2>3. \A y \in Chans : chan'[y].items = chan[y].items /\ (Live(y)' => Live(y) \/ y = x)
    BY <1>3, <2>1 DEF Live, TypeOK
  <2>4. EmptyInv'
    BY <1>1, <1>3, <2>1, <2>3, Kinds, EmptyKept DEF SoloInv
  <2> QED  BY <1>1, <2>2, <2>3, <2>4, CallSolo
<1> QED  BY <1>4, <1>5

LEMMA ConnectSolo ==
  ASSUME TypeOK, HeldInv, SoloInv, alone', NEW t \in Callers, StartConnect(t)
  PROVE  SoloInv'
<1>0. t \in Actors /\ NoChan \notin Chans /\ ~Clears(t)
  BY Kinds, ConstantsAssumption DEF Clears
<1> DEFINE x == call[t].chan
<1>1. /\ todo[t] = <<>> /\ call[t].pc = "connect" /\ call'[t].pc = "idle" /\ Step(t)
      /\ UNCHANGED <<status, lastQR, paired>>
      /\ \A b \in Actors : b # t => todo'[b] = todo[b]
      /\ \A u \in Callers : u # t => call'[u] = call[u]
  BY DEF StartConnect, Ready, Return, IdleCall, Then, TypeOK
<1>2. Down /\ status = "STARTING"
  <2>1. Working(t)
    BY <1>1, CallWorks
  <2>2. CallOutcome(t)
    BY <2>1, CallOutcomes
  <2> QED  BY <1>1, <2>2 DEF CallOutcome
<1>3. x \in Chans => chan[x].items = <<>>
  BY <1>1 DEF SoloInv, EmptyInv
<1>4. CASE link' = "up" /\ consumer' = [y \in Chans |-> consumer[y] \/ y = x] /\ UNCHANGED <<chan, todo>>
  <2>1. \A b \in Actors : b # t => ~Working(b)
    BY <1>0, <1>1, OthersDone
  <2>2. ASSUME NEW b \in Actors, b # t  PROVE ~Working(b)'
    <3>1. CASE b \in Chans
      <4>1. ~Working(b) /\ (b = x => chan[b].items = <<>>)
        BY <1>3, <2>1, <2>2, <3>1
      <4>2. consumer'[b] <=> consumer[b] \/ b = x
        BY <1>4, <3>1
      <4> QED  BY <1>4, <3>1, <4>1, <4>2, Kinds DEF Working, Busy, Clears
    <3>2. CASE b \notin Chans
      BY <1>1, <2>1, <2>2, <3>2, SameWorking
    <3> QED  BY <3>1, <3>2
  <2>3. ~Working(t)' /\ StatusRight'
    BY <1>1, <1>2, <1>4, Kinds DEF Working, Busy, StatusRight
  <2>4. EmptyInv'
    <3>1. \A y \in Chans : consumer'[y] <=> consumer[y] \/ y = x
      BY <1>4
    <3> QED  BY <1>1, <1>3, <1>4, <3>1 DEF SoloInv, EmptyInv, Live
  <2> QED  BY <1>0, <2>2, <2>3, <2>4, Rebuild
<1>5. CASE Cancel(x) /\ Then(t, SetStatus("FAILED")) /\ UNCHANGED <<link, consumer>>
  <2>1. todo'[t] = SetStatus("FAILED")
    BY <1>0, <1>5 DEF Then, TypeOK
  <2>2. CallOutcome(t)' /\ Working(t)'
    BY <1>0, <1>1, <1>2, <1>5, <2>1, Kinds, ListsOfWrites DEF CallOutcome, Down, Working, Busy, Clears
  <2>3. \A y \in Chans : chan'[y].items = chan[y].items /\ (Live(y)' => Live(y) /\ y # x)
    BY <1>5 DEF Cancel, Live, TypeOK
  <2>4. EmptyInv'
    BY <1>1, <1>5, <2>3, Kinds, EmptyKept DEF SoloInv
  <2> QED  BY <1>1, <1>5, <2>2, <2>3, <2>4, CallSolo
<1> QED  BY <1>4, <1>5 DEF StartConnect

LEMMA StopSolo ==
  ASSUME TypeOK, HeldInv, SoloInv, alone', NEW t \in Callers, Stop(t) \/ StopDisconnect(t) \/ Logout(t)
  PROVE  SoloInv'
<1>0. t \in Actors /\ NoChan \notin Chans
  BY Kinds, ConstantsAssumption
<1>1. /\ call[t].pc \in {"idle", "disconnect"} /\ call[t].chan = NoChan /\ Step(t)
      /\ UNCHANGED consumer /\ call'[t].pc # "connect"
      /\ \A b \in Actors : b # t => todo'[b] = todo[b]
      /\ \A u \in Callers : u # t => call'[u] = call[u]
  BY DEF Stop, StopDisconnect, Logout, Ready, HeldInv, Goto, Return, IdleCall, Then, TypeOK
<1>2. CallOutcome(t)' /\ Working(t)'
  <2>1. CASE Stop(t)
    BY <1>0, <2>1, Kinds DEF Stop, Ready, Goto, CallOutcome, Working, Busy, Clears, TypeOK
  <2>2. CASE StopDisconnect(t)
    <3>1. call'[t].pc = "idle" /\ todo'[t] = SetStatus("STOPPED") /\ link' = "down"
      BY <1>0, <2>2 DEF StopDisconnect, Return, IdleCall, Then, TypeOK
    <3> QED  BY <1>0, <3>1, Kinds, ListsOfWrites DEF CallOutcome, Working, Busy, Clears
  <2>3. CASE Logout(t)
    <3>1. call'[t].pc = "idle" /\ todo'[t] = SetStatus("STOPPED") \o SetQR(NoCode) /\ link' = "down"
      BY <1>0, <2>3 DEF Logout, Ready, Then, TypeOK
    <3> QED  BY <1>0, <3>1, Kinds, ListsOfWrites DEF CallOutcome, Working, Busy, Clears
  <2> QED  BY <2>1, <2>2, <2>3
<1>3. \A y \in Chans : chan'[y].items = chan[y].items /\ (Live(y)' => Live(y))
  BY DEF Stop, StopDisconnect, Logout, Cancel, Live, TypeOK
<1>4. EmptyInv'
  BY <1>0, <1>1, <1>3, Kinds, EmptyKept DEF SoloInv
<1> QED  BY <1>1, <1>2, <1>3, <1>4, CallSolo

\* The writes of a call.
LEMMA CallWriteSolo ==
  ASSUME TypeOK, SoloInv, alone', NEW t \in Callers, Write(t)
  PROVE  SoloInv'
<1>0. t \in Actors
  BY Kinds
<1>1. /\ todo[t] # <<>> /\ Step(t)
      /\ UNCHANGED <<qrCancel, link, paired, chan, consumer, call>>
      /\ \A b \in Actors : b # t => todo'[b] = todo[b]
  BY DEF Write, Then, TypeOK
<1>2. CallOutcome(t)
  BY <1>1, CallWorks, CallOutcomes
<1>3. EmptyInv'
  BY <1>1, Kinds DEF SoloInv, EmptyInv, Live
<1>4. Working(t)' <=> todo'[t] # <<>> \/ call'[t].pc # "idle"
  BY Kinds DEF Working, Busy, Clears
<1>5. CASE call[t].pc = "branch" /\ todo[t] = SetStatus("STARTING") /\ Down
  BY <1>0, <1>1, <1>3, <1>4, <1>5, WriteStatus, CallSolo DEF CallOutcome, Down
<1>6. CASE call[t].pc = "idle" /\ todo[t] = SetStatus("FAILED") /\ Down
  <2>1. StatusRight' /\ ~Working(t)'
    BY <1>0, <1>1, <1>4, <1>6, WriteStatus DEF StatusRight, Down
  <2> QED  BY <1>1, <1>3, <2>1, CallSolo
<1>7. CASE call[t].pc = "idle" /\ link = "down" /\ todo[t] = SetStatus("STOPPED")
  <2>1. StatusRight' /\ ~Working(t)'
    BY <1>0, <1>1, <1>4, <1>7, WriteStatus DEF StatusRight
  <2> QED  BY <1>1, <1>3, <2>1, CallSolo
<1>8. CASE call[t].pc = "idle" /\ link = "down" /\ todo[t] = SetStatus("STOPPED") \o SetQR(NoCode)
  <2>1. todo'[t] = SetQR(NoCode) /\ status' = "STOPPED"
    BY <1>0, <1>8, WriteStatusThenQR
  <2>2. CallOutcome(t)' /\ Working(t)'
    BY <1>1, <1>4, <1>8, <2>1, ListsOfWrites DEF CallOutcome
  <2> QED  BY <1>1, <1>3, <2>2, CallSolo
<1>9. CASE call[t].pc = "idle" /\ link = "down" /\ todo[t] = SetQR(NoCode) /\ status = "STOPPED"
  <2>1. StatusRight' /\ ~Working(t)'
    BY <1>0, <1>1, <1>4, <1>9, WriteQR DEF StatusRight
  <2> QED  BY <1>1, <1>3, <2>1, CallSolo
<1> QED  BY <1>1, <1>2, <1>5, <1>6, <1>7, <1>8, <1>9 DEF CallOutcome

-----------------------------------------------------------------------------
(* ... of event goroutines *)

LEMMA HandlerSolo ==
  ASSUME TypeOK, SoloInv, alone', NEW h \in Handlers, Step(h),
         UNCHANGED <<link, paired, chan, consumer, call>>,
         \A b \in Actors : b # h => todo'[b] = todo[b],
         (todo'[h] # <<>> /\ HandlerOutcome(h)') \/ (todo'[h] = <<>> /\ StatusRight')
  PROVE  SoloInv'
<1>1. h \in Actors /\ ~Clears(h)
  BY Kinds DEF Clears
<1>2. \A b \in Actors : b # h => ~Working(b)'
  BY <1>1, OthersDone, SameWorking
<1>3. (Working(h)' => Outcome(h)') /\ (~Working(h)' => StatusRight')
  BY Kinds DEF Working, Busy, Clears, Outcome
<1>4. EmptyInv'
  BY Kinds DEF SoloInv, EmptyInv, Live
<1> QED  BY <1>1, <1>2, <1>3, <1>4, Rebuild

LEMMA HandlerOutcomes ==
  ASSUME SoloInv, NEW h \in Handlers, todo[h] # <<>>
  PROVE  HandlerOutcome(h)
BY Kinds DEF SoloInv, Outcome, Working, Busy, Clears

LEMMA HandlerWriteSolo ==
  ASSUME TypeOK, LinkInv, SoloInv, alone', NEW h \in Handlers, Write(h)
  PROVE  SoloInv'
<1>0. h \in Actors
  BY Kinds
<1>1. /\ todo[h] # <<>> /\ Head(todo[h])[1] # "check" /\ Step(h)
      /\ UNCHANGED <<qrCancel, link, paired, chan, consumer, call>>
      /\ \A b \in Actors : b # h => todo'[b] = todo[b]
  BY DEF Write, Then, TypeOK
<1>2. HandlerOutcome(h)
  BY <1>1, HandlerOutcomes
<1>3. CASE todo[h] = << <<"check", "Disconnected">> >>
  <2>1. Head(todo[h]) = <<"check", "Disconnected">>
    BY <1>3
  <2> QED  BY <1>1, <2>1
<1>4. ASSUME NEW st \in {"STARTING", "WORKING", "STOPPED"}, todo[h] = SetStatus(st),
             \/ st = "STARTING" /\ Down
             \/ st = "WORKING" /\ link = "up" /\ paired
             \/ st = "STOPPED" /\ link = "down"
      PROVE  SoloInv'
  <2>1. status' = st /\ todo'[h] = <<>>
    BY <1>0, <1>4, WriteStatus
  <2>2. StatusRight'
    BY <1>1, <1>4, <2>1 DEF StatusRight, Down, IsConnected
  <2> QED  BY <1>1, <2>1, <2>2, HandlerSolo
<1>5. CASE todo[h] = HandleConnected /\ link = "in"
  <2>1. todo'[h] = SetQR(NoCode) /\ status' = "WORKING"
    BY <1>0, <1>5, WriteStatusThenQR DEF HandleConnected
  <2>2. HandlerOutcome(h)' /\ todo'[h] # <<>>
    BY <1>1, <1>5, <2>1, ListsOfWrites DEF HandlerOutcome
  <2> QED  BY <1>1, <2>2, HandlerSolo
<1>6. CASE todo[h] = SetQR(NoCode) /\ link = "in" /\ status = "WORKING"
  <2>1. todo'[h] = <<>> /\ status' = "WORKING" /\ lastQR' = NoCode
    BY <1>0, <1>6, WriteQR
  <2>2. StatusRight'
    BY <1>1, <1>6, <2>1 DEF StatusRight, LinkInv, IsConnected
  <2> QED  BY <1>1, <2>1, <2>2, HandlerSolo
<1> QED  BY <1>2, <1>3, <1>4, <1>5, <1>6 DEF HandlerOutcome

\* The check of Disconnected; what follows is to the point because nothing else
\* came between.
LEMMA DisconnectedSolo ==
  ASSUME TypeOK, SoloInv, alone', NEW h \in Handlers, HandleDisconnected(h)
  PROVE  SoloInv'
<1>0. h \in Actors
  BY Kinds
<1>1. /\ todo[h] = << <<"check", "Disconnected">> >> /\ Step(h)
      /\ UNCHANGED <<status, lastQR, link, paired, chan, consumer, call>>
      /\ \A b \in Actors : b # h => todo'[b] = todo[b]
      /\ todo'[h] = IF status # "STOPPED" THEN SetStatus("STARTING") ELSE <<>>
  BY <1>0 DEF HandleDisconnected, Then, TypeOK
<1>2. Down
  <2>1. Head(todo[h])[1] = "check" /\ todo[h] # <<>>
    BY <1>1
  <2>2. \A st, c : /\ Head(SetStatus(st))[1] # "check" /\ Head(SetQR(c))[1] # "check"
                   /\ Head(SetStatus(st) \o SetQR(c))[1] # "check"
    BY ListsOfWrites
  <2>3. HandlerOutcome(h)
    BY <2>1, HandlerOutcomes
  <2> QED  BY <2>1, <2>2, <2>3 DEF HandlerOutcome, HandleConnected
<1>3. CASE status # "STOPPED"
  <2>1. todo'[h] # <<>> /\ HandlerOutcome(h)'
    BY <1>1, <1>2, <1>3, ListsOfWrites DEF HandlerOutcome, Down
  <2> QED  BY <1>1, <2>1, HandlerSolo
<1>4. CASE status = "STOPPED"
  <2>1. todo'[h] = <<>> /\ StatusRight'
    BY <1>1, <1>2, <1>4 DEF StatusRight, Down
  <2> QED  BY <1>1, <2>1, HandlerSolo
<1> QED  BY <1>3, <1>4

-----------------------------------------------------------------------------
(* ... of consumers *)

\* x gets no work and leaves none: clearing the code, the end of the loop, and the
\* end of a cancelled channel.
LEMMA AsideSolo ==
  ASSUME SoloInv, KeepsCut, NEW x \in Chans, UNCHANGED <<status, link, paired, call>>,
         lastQR' \in {lastQR, NoCode},
         Working(x)' <=> Working(x), Working(x) => (ConsumerOutcome(x) => ConsumerOutcome(x)'),
         \A b \in Actors : b # x => todo'[b] = todo[b],
         \A y \in Chans : y # x => consumer'[y] = consumer[y] /\ chan'[y] = chan[y],
         EmptyInv'
  PROVE  SoloInv'
<1>1. StatusRight => StatusRight'
  BY DEF StatusRight, IsConnected, KeepsCut
<1>2. ASSUME NEW b \in Actors, b # x
      PROVE  (Working(b)' <=> Working(b)) /\ (Outcome(b) => Outcome(b)')
  <2>1. Working(b)' <=> Working(b)
    BY <1>2 DEF Working, Busy, Clears
  <2>2. /\ b \in Callers => (CallOutcome(b) => CallOutcome(b)')
        /\ b \in Handlers => (HandlerOutcome(b) => HandlerOutcome(b)')
        /\ b \in Chans => (ConsumerOutcome(b) => ConsumerOutcome(b)')
    BY <1>1, <1>2 DEF CallOutcome, HandlerOutcome, ConsumerOutcome, Down
  <2> QED  BY <2>1, <2>2 DEF Outcome
<1>3. Working(x)' => (Outcome(x) => Outcome(x)')
  BY Kinds DEF Outcome
<1>4. \A b \in Actors : (Working(b)' <=> Working(b)) /\ (Working(b) => (Outcome(b) => Outcome(b)'))
  BY <1>2, <1>3
<1> QED  BY <1>1, <1>4, Kinds DEF SoloInv

LEMMA ConsumerSolo ==
  ASSUME TypeOK, alone', NEW x \in Chans, Step(x), ~Clears(x), UNCHANGED call,
         \A b \in Actors : b # x => todo'[b] = todo[b],
         \A y \in Chans : y # x => consumer'[y] = consumer[y] /\ chan'[y] = chan[y],
         (Working(x)' /\ ConsumerOutcome(x)') \/ (~Working(x)' /\ StatusRight'), EmptyInv'
  PROVE  SoloInv'
<1>1. x \in Actors
  BY Kinds
<1>2. \A b \in Actors : b # x => ~Working(b)'
  BY <1>1, OthersDone, SameWorking
<1>3. (Working(x)' => Outcome(x)') /\ (~Working(x)' => StatusRight')
  BY DEF Outcome
<1> QED  BY <1>1, <1>2, <1>3, Rebuild

LEMMA ConsumerOutcomes ==
  ASSUME SoloInv, NEW x \in Chans, Working(x)
  PROVE  ConsumerOutcome(x)
BY Kinds DEF SoloInv, Outcome

LEMMA ConsumerWriteSolo ==
  ASSUME TypeOK, SoloInv, alone', KeepsCut, NEW x \in Chans, Write(x)
  PROVE  SoloInv'
<1>0. x \in Actors
  BY Kinds
<1>1. /\ todo[x] # <<>> /\ Step(x)
      /\ UNCHANGED <<qrCancel, link, paired, chan, consumer, call>>
      /\ \A b \in Actors : b # x => todo'[b] = todo[b]
  BY DEF Write, Then, TypeOK
<1>2. CASE todo[x] = SetQR(NoCode)
  <2>1. status' = status /\ lastQR' = NoCode /\ todo'[x] = <<>>
    BY <1>0, <1>2, WriteQR
  <2>2. ~Working(x)
    BY <1>2 DEF Working, Clears
  <2>3. ~Working(x)'
    BY <1>1, <1>2, <2>1, Kinds DEF SoloInv, EmptyInv, Working, Busy
  <2>4. EmptyInv'
    <3>1. \A y \in Chans : todo'[y] = SetQR(NoCode) => todo[y] = SetQR(NoCode)
      BY <1>1, <1>2, Kinds
    <3> QED  BY <1>1, <3>1 DEF SoloInv, EmptyInv, Live
  <2> QED  BY <1>1, <2>1, <2>2, <2>3, <2>4, AsideSolo
<1>3. ASSUME todo[x] # SetQR(NoCode)  PROVE SoloInv'
  <2>1. ~Clears(x) /\ Working(x)
    BY <1>0, <1>1, <1>3 DEF Working, Busy, Clears
  <2>2. ConsumerOutcome(x)
    BY <2>1, ConsumerOutcomes
  <2>3. ASSUME consumer[x] => chan[x].items = <<>>
        PROVE  EmptyInv'
    <3>1. \A y \in Chans : y # x => todo'[y] = todo[y]
      BY <1>1, Kinds
    <3> QED  BY <1>1, <2>3, <3>1 DEF SoloInv, EmptyInv, Live
  <2>4. ASSUME NEW c \in Codes, link = "up", ~paired, chan[x].items = <<>>,
               todo[x] = SetStatus("SCAN_QR") \o SetQR(c)
        PROVE  SoloInv'
    <3>1. status' = "SCAN_QR" /\ todo'[x] = SetQR(c) /\ todo'[x] # <<>>
      BY <1>0, <2>4, WriteStatusThenQR, ListsOfWrites
    <3>2. SetQR(c) # SetQR(NoCode)
      <4>1. Head(SetQR(c)) = <<"qr", c>> /\ Head(SetQR(NoCode)) = <<"qr", NoCode>> /\ c # NoCode
        BY ListsOfWrites, ConstantsAssumption
      <4> QED  BY <4>1
    <3>3. Working(x)' /\ ConsumerOutcome(x)'
      BY <1>1, <2>4, <3>1, <3>2 DEF Working, Busy, Clears, ConsumerOutcome
    <3> QED  BY <1>1, <2>1, <2>3, <2>4, <3>3, ConsumerSolo
  <2>5. ASSUME NEW c \in Codes, link = "up", ~paired, chan[x].items = <<>>,
               todo[x] = SetQR(c), status = "SCAN_QR"
        PROVE  SoloInv'
    <3>1. status' = "SCAN_QR" /\ todo'[x] = <<>>
      BY <1>0, <2>5, WriteQR
    <3>2. ~Working(x)' /\ StatusRight'
      BY <1>1, <2>5, <3>1, Kinds DEF Working, Busy, StatusRight
    <3> QED  BY <1>1, <2>1, <2>3, <2>5, <3>2, ConsumerSolo
  <2>6. CASE todo[x] = SetStatus("FAILED") /\ link = "down" /\ ~consumer[x]
    <3>1. status' = "FAILED" /\ todo'[x] = <<>>
      BY <1>0, <2>6, WriteStatus
    <3>2. ~Working(x)' /\ StatusRight'
      BY <1>1, <2>6, <3>1, Kinds DEF Working, Busy, StatusRight
    <3> QED  BY <1>1, <2>1, <2>3, <2>6, <3>2, ConsumerSolo
  <2> QED  BY <1>1, <2>2, <2>4, <2>5, <2>6 DEF ConsumerOutcome
<1> QED  BY <1>2, <1>3

\* The loop takes an item, or ends.
LEMMA ConsumeSolo ==
  ASSUME TypeOK, LiveInv, SoloInv, alone', KeepsCut, NEW x \in Chans, ConsumeQR(x)
  PROVE  SoloInv'
<1>0. x \in Actors
  BY Kinds
<1> DEFINE items == chan[x].items
<1>1. /\ consumer[x] /\ todo[x] = <<>> /\ Step(x)
      /\ UNCHANGED <<status, lastQR, qrCancel, link, paired, call>>
      /\ \A b \in Actors : b # x => todo'[b] = todo[b]
      /\ \A y \in Chans : y # x => consumer'[y] = consumer[y] /\ chan'[y] = chan[y]
  BY DEF ConsumeQR, Then, TypeOK
<1>2. CASE items = <<>>
  <2>1. ~chan[x].open /\ consumer'[x] = FALSE /\ UNCHANGED <<chan, todo>>
    BY <1>2 DEF ConsumeQR, TypeOK
  <2>2. ~Working(x) /\ ~Working(x)'
    BY <1>1, <1>2, <2>1, Kinds DEF Working, Busy
  <2>3. EmptyInv'
    BY <1>1, <2>1 DEF SoloInv, EmptyInv, Live
  <2> QED  BY <1>1, <2>2, <2>3, AsideSolo
<1>3. ASSUME NEW i \in Items, items = <<i>>
      PROVE  /\ todo'[x] = Received(i) /\ consumer'[x] = (i # "failed")
             /\ chan'[x].items = <<>> /\ \A y \in Chans : Live(y)' => Live(y)
  <2>1. items # <<>> /\ Head(items) = i /\ Tail(items) = <<>>
    BY <1>3, OneElement
  <2>2. /\ Then(x, Received(i)) /\ consumer' = [consumer EXCEPT ![x] = i # "failed"]
        /\ chan' = [chan EXCEPT ![x].items = <<>>]
    BY <2>1 DEF ConsumeQR
  <2> QED  BY <1>0, <2>2 DEF Then, Live, TypeOK
<1>4. ASSUME chan'[x].items = <<>>, consumer'[x], \A y \in Chans : Live(y)' => Live(y)
      PROVE  EmptyInv'
  <2>1. \A y \in Chans : y # x => todo'[y] = todo[y]
    BY <1>1, Kinds
  <2> QED  BY <1>1, <1>4, <2>1 DEF SoloInv, EmptyInv
<1>5. CASE items = <<"success">>
  <2>1. /\ todo'[x] = SetQR(NoCode) /\ consumer'[x] /\ chan'[x].items = <<>>
        /\ \A y \in Chans : Live(y)' => Live(y)
    <3>1. "success" \in Items /\ Received("success") = SetQR(NoCode)
      BY DEF Items, Received
    <3>2. consumer'[x] = ("success" # "failed")
      BY <1>3, <1>5, <3>1
    <3> QED  BY <1>3, <1>5, <3>1, <3>2
  <2>2. ~Working(x) /\ ~Working(x)'
    BY <1>1, <1>5, <2>1 DEF Working, Clears
  <2> QED  BY <1>1, <1>4, <2>1, <2>2, AsideSolo
<1>6. ASSUME items # <<>>, items # <<"success">>
      PROVE  SoloInv'
  <2>1. ~Clears(x) /\ Working(x)
    <3>1. SetQR(NoCode) # <<>>
      BY ListsOfWrites
    <3> QED  BY <1>0, <1>1, <1>6, <3>1 DEF Working, Busy, Clears
  <2>2. ConsumerOutcome(x)
    BY <2>1, ConsumerOutcomes
  <2>3. ASSUME NEW c \in Codes, items = <<c>>, link = "up", ~paired
        PROVE  SoloInv'
    <3>1. c \in Items /\ c # "success" /\ c # "failed" /\ c # NoCode
      BY ConstantsAssumption DEF Items
    <3>2. /\ todo'[x] = SetStatus("SCAN_QR") \o SetQR(c) /\ consumer'[x] /\ chan'[x].items = <<>>
          /\ \A y \in Chans : Live(y)' => Live(y)
      BY <1>3, <2>3, <3>1 DEF Received
    <3>3. /\ SetStatus("SCAN_QR") \o SetQR(c) # <<>>
          /\ SetStatus("SCAN_QR") \o SetQR(c) # SetQR(NoCode)
      <4>1. \A d : Head(SetStatus("SCAN_QR") \o SetQR(d))[1] = "status" /\ Head(SetQR(d))[1] = "qr"
        BY ListsOfWrites
      <4>2. Head(SetStatus("SCAN_QR") \o SetQR(c)) # Head(SetQR(NoCode))
        BY <4>1
      <4> QED  BY <4>2, ListsOfWrites
    <3>4. Working(x)' /\ ConsumerOutcome(x)'
      BY <1>0, <1>1, <2>3, <3>2, <3>3 DEF Working, Busy, Clears, ConsumerOutcome
    <3> QED  BY <1>1, <1>4, <2>1, <3>2, <3>4, ConsumerSolo
  <2>4. ASSUME items = <<"failed">>, link = "down"
        PROVE  SoloInv'
    <3>1. /\ todo'[x] = SetStatus("FAILED") /\ ~consumer'[x] /\ chan'[x].items = <<>>
          /\ \A y \in Chans : Live(y)' => Live(y)
      <4>1. "failed" \in Items /\ Received("failed") = SetStatus("FAILED")
        BY DEF Items, Received
      <4>2. consumer'[x] = ("failed" # "failed")
        BY <1>3, <2>4, <4>1
      <4> QED  BY <1>3, <2>4, <4>1, <4>2
    <3>2. SetStatus("FAILED") # <<>> /\ SetStatus("FAILED") # SetQR(NoCode)
      <4>1. \A d : Head(SetStatus("FAILED"))[1] = "status" /\ Head(SetQR(d))[1] = "qr"
        BY ListsOfWrites
      <4>2. Head(SetStatus("FAILED")) # Head(SetQR(NoCode))
        BY <4>1
      <4> QED  BY <4>2, ListsOfWrites
    <3>3. Working(x)' /\ ConsumerOutcome(x)'
      BY <1>0, <1>1, <2>4, <3>1, <3>2 DEF Working, Busy, Clears, ConsumerOutcome
    <3>4. ~Live(x)
      <4>1. \A t \in Callers : call[t].pc # "connect"
        BY <2>1, Kinds, CallWorks DEF SoloInv
      <4> QED  BY <2>4, <4>1 DEF LiveInv
    <3>5. EmptyInv'
      <4>1. \A y \in Chans : y # x => todo'[y] = todo[y]
        BY <1>1, Kinds
      <4> QED  BY <1>1, <3>1, <3>4, <4>1 DEF SoloInv, EmptyInv
    <3> QED  BY <1>1, <2>1, <3>3, <3>5, ConsumerSolo
  <2>5. todo[x] = <<>>
    BY <1>1
  <2> QED  BY <1>6, <2>2, <2>3, <2>4, <2>5, ListsOfWrites DEF ConsumerOutcome
<1> QED  BY <1>2, <1>5, <1>6

-----------------------------------------------------------------------------
(* ... of the client *)

LEMMA CancelledSolo ==
  ASSUME TypeOK, SoloInv, KeepsCut, NEW x \in Chans, QRCancelled(x)
  PROVE  SoloInv'
<1> DEFINE items == chan[x].items
<1>1. items \o <<>> = items
  <2>1. items \in Seq(Items)
    BY DEF TypeOK
  <2> HIDE DEF items
  <2> QED  BY <2>1, ConcatEmptySeq
<1>2. /\ chan'[x].items = items /\ ~Live(x)'
      /\ \A y \in Chans : y # x => chan'[y] = chan[y]
  BY <1>1 DEF QRCancelled, EndChans, Live
<1>3. UNCHANGED <<status, lastQR, qrCancel, link, paired, consumer, call, todo>>
  BY DEF QRCancelled
<1>4. EmptyInv'
  BY <1>2, <1>3 DEF SoloInv, EmptyInv, Live
<1>5. (Working(x)' <=> Working(x)) /\ (ConsumerOutcome(x) => ConsumerOutcome(x)')
  BY <1>2, <1>3 DEF Working, Busy, Clears, ConsumerOutcome
<1> QED  BY <1>2, <1>3, <1>4, <1>5, AsideSolo

\* What the client finds when it begins something.
LEMMA QuietFacts ==
  ASSUME HeldInv, SoloInv, Quiet
  PROVE  /\ \A a \in Actors : todo[a] = <<>> /\ ~Working(a)
         /\ \A t \in Callers : call[t].pc = "idle" /\ call[t].chan \notin Chans
         /\ \A x \in Chans : consumer[x] => chan[x].items = <<>>
         /\ \A x \in Chans : Live(x) => consumer[x]
         /\ StatusRight
<1>1. \A a \in Actors : todo[a] = <<>> /\ ~Working(a)
  BY DEF Quiet, Busy, Working
<1>2. \A t \in Callers : call[t].pc = "idle" /\ call[t].chan \notin Chans
  BY Kinds, ConstantsAssumption DEF Quiet, Busy, HeldInv
<1>3. \A x \in Chans : consumer[x] => chan[x].items = <<>>
  BY Kinds DEF Quiet, Busy
<1>4. \A x \in Chans : Live(x) => consumer[x]
  BY <1>2 DEF SoloInv, EmptyInv
<1> QED  BY <1>1, <1>2, <1>3, <1>4 DEF SoloInv

LEMMA DispatchSolo ==
  ASSUME TypeOK, HeldInv, SoloInv, Quiet, NEW writes, writes # <<>>, NEW h \in Handlers,
         Then(h, writes), UNCHANGED <<call, consumer>>,
         \A x \in Chans : /\ Live(x)' => Live(x)
                          /\ chan[x].items = <<>> => chan'[x].items \in {<<>>, <<"success">>},
         todo'[h] = writes => HandlerOutcome(h)'
  PROVE  SoloInv'
<1>1. h \in Actors
  BY Kinds
<1>2. todo'[h] = writes /\ \A b \in Actors : b # h => todo'[b] = <<>>
  BY <1>1, QuietFacts DEF Then, TypeOK
<1>3. Outcome(h)' /\ Working(h)'
  BY <1>1, <1>2, Kinds DEF Outcome, Working, Busy, Clears
<1>4. ASSUME NEW b \in Actors, b # h  PROVE ~Working(b)'
  <2>1. b \in Callers => call'[b].pc = "idle"
    BY QuietFacts
  <2>2. b \in Chans /\ consumer'[b] => chan'[b].items \in {<<>>, <<"success">>}
    BY QuietFacts
  <2> QED  BY <1>2, <1>4, <2>1, <2>2 DEF Working, Busy, Clears
<1>5. EmptyInv'
  <2>1. \A x \in Chans : todo'[x] # SetQR(NoCode)
    BY <1>2, Kinds, ListsOfWrites
  <2>2. \A t \in Callers : call'[t].pc = "idle"
    BY QuietFacts
  <2> QED  BY <2>1, <2>2, QuietFacts DEF EmptyInv
<1> QED  BY <1>1, <1>3, <1>4, <1>5, Rebuild

LEMMA EventSolo ==
  ASSUME TypeOK, LinkInv, HeldInv, SoloInv, Quiet,
         PairSuccess \/ Connected \/ Disconnected \/ LoggedOut
  PROVE  SoloInv'
<1>1. /\ SetStatus("WORKING") # <<>> /\ HandleConnected # <<>> /\ SetStatus("STOPPED") # <<>>
      /\ << <<"check", "Disconnected">> >> # <<>>
  BY ListsOfWrites DEF HandleConnected
<1>2. /\ UNCHANGED <<status, lastQR, qrCancel, consumer, call>>
      /\ \A x \in Chans : /\ Live(x)' => Live(x)
                          /\ chan[x].items = <<>> => chan'[x].items \in {<<>>, <<"success">>}
  <2>1. <<>> \o <<"success">> = <<"success">> /\ <<>> \o <<>> = <<>>
    OBVIOUS
  <2>2. ASSUME NEW last, EndChans(Chans, last), NEW x \in Chans
        PROVE  ~Live(x)' /\ chan'[x].items \in {chan[x].items, chan[x].items \o last}
    BY <2>2 DEF EndChans, Live
  <2> QED  BY <2>1, <2>2 DEF PairSuccess, Connected, Disconnected, LoggedOut, Live
<1>3. CASE PairSuccess
  <2>1. PICK h \in Handlers : Then(h, SetStatus("WORKING"))
    BY <1>3 DEF PairSuccess, Dispatch
  <2>2. todo'[h] = SetStatus("WORKING") => HandlerOutcome(h)'
    BY <1>3 DEF PairSuccess, HandlerOutcome
  <2> QED  BY <1>1, <1>2, <2>1, <2>2, DispatchSolo
<1>4. CASE Connected
  <2>1. PICK h \in Handlers : Then(h, HandleConnected)
    BY <1>4 DEF Connected, Dispatch
  <2>2. todo'[h] = HandleConnected => HandlerOutcome(h)'
    BY <1>4 DEF Connected, HandlerOutcome
  <2> QED  BY <1>1, <1>2, <2>1, <2>2, DispatchSolo
<1>5. CASE Disconnected
  <2>1. PICK h \in Handlers : Then(h, << <<"check", "Disconnected">> >>)
    BY <1>5 DEF Disconnected, Dispatch
  <2>2. todo'[h] = << <<"check", "Disconnected">> >> => HandlerOutcome(h)'
    BY <1>5 DEF Disconnected, HandlerOutcome, Down
  <2> QED  BY <1>1, <1>2, <2>1, <2>2, DispatchSolo
<1>6. CASE LoggedOut
  <2>1. PICK h \in Handlers : Then(h, SetStatus("STOPPED"))
    BY <1>6 DEF LoggedOut, Dispatch
  <2>2. todo'[h] = SetStatus("STOPPED") => HandlerOutcome(h)'
    BY <1>6 DEF LoggedOut, HandlerOutcome
  <2> QED  BY <1>1, <1>2, <2>1, <2>2, DispatchSolo
<1> QED  BY <1>3, <1>4, <1>5, <1>6

\* An item of a channel gives its consumer something to do.
LEMMA ItemSolo ==
  ASSUME TypeOK, HeldInv, SoloInv, Quiet, NEW x \in Chans, consumer[x], NEW last,
         last = <<"failed">> \/ \E c \in Codes : last = <<c>>,
         UNCHANGED <<call, consumer, todo>>, chan'[x].items = last,
         \A y \in Chans : (y # x => chan'[y] = chan[y]) /\ (Live(y)' => Live(y)),
         ConsumerOutcome(x)'
  PROVE  SoloInv'
<1>1. last # <<>> /\ last # <<"success">>
  BY ConstantsAssumption
<1>2. SetQR(NoCode) # <<>>
  BY ListsOfWrites
<1>3. x \in Actors /\ todo'[x] = <<>>
  BY Kinds, QuietFacts
<1>4. Outcome(x)' /\ Working(x)'
  BY <1>1, <1>2, <1>3 DEF Outcome, Working, Busy, Clears
<1>5. ASSUME NEW b \in Actors, b # x  PROVE ~Working(b)'
  BY <1>5, QuietFacts DEF Working, Busy, Clears
<1>6. EmptyInv'
  <2>1. \A y \in Chans : todo'[y] # SetQR(NoCode)
    BY <1>2, Kinds, QuietFacts
  <2>2. \A t \in Callers : call'[t].pc = "idle"
    BY QuietFacts
  <2> QED  BY <2>1, <2>2, QuietFacts DEF EmptyInv
<1> QED  BY <1>3, <1>4, <1>5, <1>6, Rebuild

LEMMA ChannelItemSolo ==
  ASSUME TypeOK, HeldInv, SoloInv, Quiet, NEW x \in Chans,
         QRFailure(x) \/ \E c \in Codes : QRCode(x, c)
  PROVE  SoloInv'
<1>1. /\ Live(x) /\ consumer[x] /\ chan[x].items = <<>> /\ todo[x] = <<>>
      /\ status # "WORKING" /\ UNCHANGED <<status, call, consumer, todo>>
  BY QuietFacts, Kinds DEF QRFailure, QRCode, StatusRight
<1>2. CASE QRFailure(x)
  <2>1. <<>> \o <<"failed">> = <<"failed">>
    OBVIOUS
  <2>2. /\ chan'[x].items = <<"failed">> /\ ~Live(x)' /\ link' = "down"
        /\ \A y \in Chans : y # x => chan'[y] = chan[y]
    BY <1>1, <1>2, <2>1 DEF QRFailure, EndChans, Live
  <2>3. ConsumerOutcome(x)'
    BY <1>1, <2>2 DEF ConsumerOutcome
  <2> QED  BY <1>1, <2>2, <2>3, ItemSolo DEF Live
<1>3. ASSUME NEW c \in Codes, QRCode(x, c)  PROVE SoloInv'
  <2>1. Append(<<>>, c) = <<c>>
    OBVIOUS
  <2>2. chan' = [chan EXCEPT ![x].items = <<c>>] /\ link' = "up"
    BY <1>1, <1>3, <2>1 DEF QRCode
  <2>3. /\ chan'[x].items = <<c>>
        /\ \A y \in Chans : (y # x => chan'[y] = chan[y]) /\ (Live(y)' => Live(y))
    BY <2>2 DEF Live, TypeOK
  <2>4. ConsumerOutcome(x)'
    BY <1>1, <1>3, <2>2, <2>3 DEF ConsumerOutcome, QRCode
  <2> QED  BY <1>1, <2>3, <2>4, ItemSolo
<1> QED  BY <1>2, <1>3

LEMMA ReconnectSolo ==
  ASSUME HeldInv, SoloInv, Quiet, KeepsCut, Reconnect
  PROVE  SoloInv'
<1>1. StatusRight'
  BY QuietFacts DEF Reconnect, StatusRight, IsConnected, KeepsCut
<1>2. \A b \in Actors : ~Working(b)'
  BY QuietFacts DEF Reconnect, Working, Busy, Clears
<1>3. EmptyInv'
  BY DEF SoloInv, Reconnect, EmptyInv, Live
<1> QED  BY <1>1, <1>2, <1>3 DEF SoloInv

\* A Logout that fails after it has disconnected.
LEMMA FailedSolo ==
  ASSUME TypeOK, LinkInv, SoloInv, alone', cut', NEW t \in Callers, LogoutFails(t)
  PROVE  SoloInv'
<1>1. /\ todo[t] = <<>> /\ call[t].pc = "idle" /\ Step(t) /\ link = "in" /\ link' = "down"
      /\ UNCHANGED <<status, lastQR, qrCancel, paired, chan, consumer, call, todo>>
  BY DEF LogoutFails, Ready
<1>2. t \in Actors /\ ~Clears(t) /\ ~Working(t)
  BY <1>1, Kinds, CallWorks DEF Clears
<1>3. StatusRight
  BY <1>1, <1>2, OthersDone DEF SoloInv
<1>4. StatusRight'
  BY <1>1, <1>3 DEF StatusRight, LinkInv
<1>5. ~Working(t)'
  BY <1>1, Kinds DEF Working, Busy
<1>6. EmptyInv'
  BY <1>1 DEF SoloInv, EmptyInv, Live
<1> QED  BY <1>1, <1>4, <1>5, <1>6, CallSolo

LEMMA ClientWaits ==
  ASSUME Client, alone'
  PROVE  alone /\ Quiet
BY DEF Client, Dispatch, QRFailure, QRCode, PairSuccess, Connected, Disconnected, Reconnect,
       LoggedOut

LEMMA SoloStep ==
  ASSUME TypeOK, LinkInv, HeldInv, inTurn => TurnInv, alone => inTurn /\ SoloInv, Next
  PROVE  alone' => inTurn' /\ SoloInv'
<1> SUFFICES ASSUME alone'  PROVE inTurn' /\ SoloInv'
  OBVIOUS
<1>1. \/ Moves /\ KeepsCut
      \/ (\E t \in Callers : LogoutFails(t)) /\ cut'
  BY DEF Next, KeepsCut
<1>2. alone /\ (Client => Quiet)
  BY <1>1, ClientWaits
     DEF Moves, Request, CallStep, Step, Write, PairPhone, Start, StartBranch, StartChannel,
         StartConnect, Stop, StopDisconnect, Logout, LogoutFails, ConsumeQR, QRCancelled,
         HandleDisconnected
<1>3. SoloInv /\ LiveInv
  BY <1>2 DEF TurnInv
<1>4. SoloInv'
  <2>1. CASE KeepsCut /\ \E a \in Actors : Write(a)
    BY <1>3, <2>1, CallWriteSolo, HandlerWriteSolo, ConsumerWriteSolo DEF Actors
  <2>2. CASE KeepsCut /\ \E t \in Callers : Request(t) \/ CallStep(t)
    BY <1>3, <2>2, BeginSolo, StartSolo, BranchSolo, ChannelSolo, ConnectSolo, StopSolo
       DEF Request, CallStep
  <2>3. CASE KeepsCut /\ Client
    BY <1>2, <1>3, <2>3, EventSolo, ChannelItemSolo, ReconnectSolo DEF Client
  <2> QED  BY <1>1, <1>3, <2>1, <2>2, <2>3, FailedSolo, ConsumeSolo, CancelledSolo,
              DisconnectedSolo DEF Moves
<1>5. \A t, u \in Callers : t = u \/ ~InCall(t)' \/ ~InCall(u)'
  <2>1. \A t \in Callers : InCall(t)' => Working(t)'
    BY Kinds DEF InCall, Working, Busy, Clears
  <2> QED  BY <1>4, <2>1, Kinds DEF SoloInv
<1> QED  BY <1>2, <1>4, <1>5 DEF Next

-----------------------------------------------------------------------------
(* The QR code, as long as activities come one at a time *)

SomeClears == \E x \in Chans : Clears(x)
Stopping == \E t \in Callers : call[t].pc = "disconnect"
Running == \E x \in Chans : Live(x)

\* A code outlives a pairing only until the consumer clears it.  It does so since a
\* client that waits to be paired has a running channel, the one its Start opened.
CodeInv ==
  /\ paired => lastQR = NoCode \/ SomeClears
  /\ link = "up" /\ ~paired => Running \/ Stopping
  /\ \A t \in Callers :
       /\ call[t].pc = "channel" => ~chan[call[t].chan].cancelled
       /\ call[t].pc = "connect" => paired \/ \E x \in Chans : x = call[t].chan /\ Live(x)

\* Only a consumer whose client is not paired writes a code.
LEMMA CodeWrites ==
  ASSUME TypeOK, SoloInv, NEW a \in Actors, Write(a)
  PROVE  \/ lastQR' = lastQR /\ todo[a] # SetQR(NoCode)
         \/ lastQR' = NoCode
         \/ ~paired
<1>1. todo[a] # <<>> /\ Head(todo[a])[1] # "check"
  BY DEF Write
<1>2. CASE ~Working(a)
  <2>1. a \in Chans /\ todo[a] = SetQR(NoCode)
    BY <1>1, <1>2, Kinds DEF Working, Busy, Clears
  <2> QED  BY <2>1, WriteQR
<1>3. ASSUME NEW st, NEW c,
             \/ todo[a] = SetStatus(st)
             \/ todo[a] = SetStatus(st) \o SetQR(c)
      PROVE  lastQR' = lastQR /\ todo[a] # SetQR(NoCode)
  <2>1. Head(todo[a]) = <<"status", st>> /\ Head(SetQR(NoCode)) = <<"qr", NoCode>>
    BY <1>3, ListsOfWrites
  <2>2. lastQR' = lastQR
    BY <1>3, WriteStatus, WriteStatusThenQR
  <2> QED  BY <2>1, <2>2
<1>4. todo[a] = SetQR(NoCode) => lastQR' = NoCode
  BY WriteQR
<1>5. CASE Working(a) /\ a \in Callers
  <2>1. CallOutcome(a)
    BY <1>5, CallOutcomes
  <2> QED  BY <1>1, <1>3, <1>4, <2>1 DEF CallOutcome
<1>6. CASE Working(a) /\ a \in Handlers
  <2>1. HandlerOutcome(a)
    BY <1>1, <1>6, HandlerOutcomes
  <2>2. todo[a] # << <<"check", "Disconnected">> >>
    BY <1>1
  <2> QED  BY <1>3, <1>4, <2>1, <2>2 DEF HandlerOutcome, HandleConnected
<1>7. CASE Working(a) /\ a \in Chans
  <2>1. ConsumerOutcome(a)
    BY <1>7, ConsumerOutcomes
  <2> QED  BY <1>1, <1>3, <2>1 DEF ConsumerOutcome
<1> QED  BY <1>2, <1>5, <1>6, <1>7 DEF Actors

\* The steps that change neither client nor channels nor calls.
LEMMA SameCode ==
  ASSUME HeldInv, CodeInv, UNCHANGED <<link, paired, call>>,
         \A x \in Chans : /\ Live(x) => Live(x)'
                          /\ ~chan[x].cancelled => ~chan'[x].cancelled,
         lastQR' = NoCode \/ ~paired \/ (lastQR' = lastQR /\ (SomeClears => SomeClears'))
  PROVE  CodeInv'
BY DEF HeldInv, CodeInv, Running, Stopping

LEMMA WriteCode ==
  ASSUME TypeOK, HeldInv, SoloInv, CodeInv, NEW a \in Actors, Write(a)
  PROVE  CodeInv'
<1>1. /\ UNCHANGED <<link, paired, chan, consumer, call>>
      /\ \A b \in Actors : b # a => todo'[b] = todo[b]
  BY DEF Write, Then, TypeOK
<1>2. lastQR' = NoCode \/ ~paired \/ (lastQR' = lastQR /\ (SomeClears => SomeClears'))
  <2>1. ASSUME todo[a] # SetQR(NoCode), NEW x \in Chans, Clears(x)  PROVE Clears(x)'
    <3>1. x # a
      BY <2>1 DEF Clears, Write
    <3> QED  BY <1>1, <2>1, <3>1, Kinds DEF Clears
  <2> QED  BY <2>1, CodeWrites DEF SomeClears
<1> QED  BY <1>1, <1>2, SameCode DEF Live

LEMMA ConsumeCode ==
  ASSUME TypeOK, HeldInv, SoloInv, CodeInv, NEW x \in Chans, ConsumeQR(x)
  PROVE  CodeInv'
<1>0. x \in Actors
  BY Kinds
<1> DEFINE items == chan[x].items
<1>1. /\ UNCHANGED <<lastQR, link, paired, call>> /\ todo[x] = <<>>
      /\ \A b \in Actors : b # x => todo'[b] = todo[b]
      /\ \A y \in Chans : y # x => consumer'[y] = consumer[y] /\ chan'[y] = chan[y]
  BY DEF ConsumeQR, Then, TypeOK
<1>a. /\ \A y \in Chans : (Live(y) => Live(y)') /\ chan'[y].cancelled = chan[y].cancelled
  <2>1. CASE UNCHANGED chan
    BY <2>1 DEF Live
  <2>2. CASE chan' = [chan EXCEPT ![x].items = Tail(items)]
    BY <2>2 DEF Live, TypeOK
  <2> QED  BY <2>1, <2>2 DEF ConsumeQR
<1>2. ASSUME NEW y \in Chans, Clears(y)  PROVE Clears(y)'
  <2>1. CASE y # x
    BY <1>1, <1>2, <2>1, Kinds DEF Clears
  <2>2. CASE y = x
    <3>1. SetQR(NoCode) # <<>>
      BY ListsOfWrites
    <3>2. items = <<"success">> /\ items # <<>> /\ Head(items) = "success"
      BY <1>1, <1>2, <2>2, <3>1 DEF Clears
    <3>3. todo'[x] = Received("success")
      BY <1>0, <3>2 DEF ConsumeQR, Then, TypeOK
    <3> QED  BY <2>2, <3>3 DEF Clears, Received
  <2> QED  BY <2>1, <2>2
<1> QED  BY <1>1, <1>a, <1>2, SameCode DEF SomeClears

LEMMA CancelledCode ==
  ASSUME TypeOK, HeldInv, CodeInv, NEW x \in Chans, QRCancelled(x)
  PROVE  CodeInv'
<1>1. chan[x].items \o <<>> = chan[x].items
  <2> DEFINE items == chan[x].items
  <2>1. items \in Seq(Items)
    BY DEF TypeOK
  <2> HIDE DEF items
  <2>2. items \o <<>> = items
    BY <2>1, ConcatEmptySeq
  <2> QED  BY <2>2 DEF items
<1>2. /\ UNCHANGED <<lastQR, link, paired, consumer, call, todo>>
      /\ \A y \in Chans : /\ chan'[y].items = chan[y].items
                          /\ Live(y) => Live(y)'
                          /\ ~chan[y].cancelled => ~chan'[y].cancelled
  BY <1>1 DEF QRCancelled, EndChans, Live
<1>3. SomeClears => SomeClears'
  <2> SUFFICES ASSUME NEW y \in Chans, Clears(y)  PROVE Clears(y)'
    BY DEF SomeClears
  <2>1. chan'[y].items = chan[y].items /\ UNCHANGED <<consumer, todo>>
    BY <1>2
  <2> QED  BY <2>1 DEF Clears
<1>4. \A y \in Chans : /\ Live(y) => Live(y)'
                       /\ ~chan[y].cancelled => ~chan'[y].cancelled
  BY <1>2
<1>5. UNCHANGED <<link, paired, call>> /\ lastQR' = lastQR
  BY <1>2
<1> QED  BY <1>3, <1>4, <1>5, SameCode

LEMMA DisconnectedCode ==
  ASSUME TypeOK, HeldInv, CodeInv, NEW h \in Handlers, HandleDisconnected(h)
  PROVE  CodeInv'
<1>1. /\ UNCHANGED <<lastQR, link, paired, consumer, chan, call>>
      /\ \A x \in Chans : todo'[x] = todo[x]
  BY Kinds DEF HandleDisconnected, Then, TypeOK
<1>2. SomeClears => SomeClears'
  BY <1>1 DEF SomeClears, Clears
<1> QED  BY <1>1, <1>2, SameCode DEF Live

\* A step of a call leaves the consumers what they have to do, and the calls wait for
\* each other.
LEMMA CallCode ==
  ASSUME TypeOK, HeldInv, SoloInv, CodeInv, alone', NEW t \in Callers, Step(t),
         lastQR' = lastQR, paired' => paired,
         \A u \in Callers : u # t => call'[u] = call[u],
         \A x \in Chans : /\ todo'[x] = todo[x]
                          /\ consumer[x] => consumer'[x] /\ chan'[x].items = chan[x].items,
         link' = "up" /\ ~paired' => Running' \/ Stopping',
         call'[t].pc = "channel" => ~chan'[call'[t].chan].cancelled,
         call'[t].pc = "connect" => paired' \/ \E x \in Chans : x = call'[t].chan /\ Live(x)'
  PROVE  CodeInv'
<1>1. \A x \in Chans : Clears(x) => Clears(x)'
  BY DEF Clears
<1>2. ASSUME NEW u \in Callers, u # t
      PROVE  call'[u].pc # "channel" /\ call'[u].pc # "connect"
  <2>1. ~Working(u)
    BY <1>2, Kinds, OthersDone DEF Clears
  <2> QED  BY <1>2, <2>1, CallWorks
<1>3. SomeClears => SomeClears'
  BY <1>1 DEF SomeClears
<1>4. paired' => lastQR' = NoCode \/ SomeClears'
  BY <1>3 DEF CodeInv
<1> QED  BY <1>2, <1>4 DEF CodeInv

LEMMA StartCode ==
  ASSUME TypeOK, HeldInv, SoloInv, CodeInv, alone', NEW t \in Callers,
         PairPhone(t) \/ Start(t) \/ StartBranch(t)
  PROVE  CodeInv'
<1>1. /\ Step(t) /\ UNCHANGED <<lastQR, link, paired, consumer>>
      /\ call[t].pc # "disconnect"
      /\ \A u \in Callers : u # t => call'[u] = call[u]
      /\ \A x \in Chans : todo'[x] = todo[x]
  BY Kinds DEF PairPhone, Start, StartBranch, Ready, Goto, Return, Then, TypeOK
<1>2. Stopping => Stopping'
  BY <1>1 DEF Stopping
<1>3. CASE PairPhone(t) \/ Start(t)
  <2>1. UNCHANGED chan /\ call'[t].pc \in {"start", "branch", "idle"}
    BY <1>3 DEF PairPhone, Start, Goto, Return, IdleCall, TypeOK
  <2>2. Running => Running'
    BY <2>1 DEF Running, Live
  <2> QED  BY <1>1, <1>2, <2>1, <2>2, CallCode DEF CodeInv
<1>4. CASE StartBranch(t)
  <2>1. CASE paired /\ Goto(t, "connect") /\ UNCHANGED chan
    <3>1. call'[t].pc = "connect"
      BY <2>1 DEF Goto, TypeOK
    <3> QED  BY <1>1, <2>1, <3>1, CallCode
  <2>2. ASSUME NEW x \in Chans, Unused(x), chan' = [chan EXCEPT ![x] = NewChan],
               call' = [call EXCEPT ![t] = [pc |-> "channel", chan |-> x]]
        PROVE  CodeInv'
    <3>1. /\ call'[t].pc = "channel" /\ ~chan'[call'[t].chan].cancelled
          /\ \A y \in Chans : /\ Live(y) => Live(y)'
                              /\ consumer[y] => chan'[y].items = chan[y].items
      BY <2>2 DEF Unused, NewChan, Live, TypeOK
    <3>2. Running => Running'
      BY <3>1 DEF Running, Live
    <3>3. link' = "up" /\ ~paired' => Running' \/ Stopping'
      BY <1>1, <1>2, <3>2 DEF CodeInv
    <3> QED  BY <1>1, <3>1, <3>3, CallCode
  <2> QED  BY <1>4, <2>1, <2>2 DEF StartBranch
<1> QED  BY <1>3, <1>4

LEMMA ConnectCode ==
  ASSUME TypeOK, HeldInv, SoloInv, CodeInv, alone', NEW t \in Callers,
         StartChannel(t) \/ StartConnect(t)
  PROVE  CodeInv'
<1>1. /\ Step(t) /\ UNCHANGED <<lastQR, paired>>
      /\ call[t].pc \in {"channel", "connect"} /\ todo[t] = <<>>
      /\ \A u \in Callers : u # t => call'[u] = call[u]
      /\ \A x \in Chans : todo'[x] = todo[x]
  BY Kinds DEF StartChannel, StartConnect, Ready, Goto, Return, Then, TypeOK
<1>a. \A x \in Chans : (consumer[x] => consumer'[x]) /\ chan'[x].items = chan[x].items
  BY DEF StartChannel, StartConnect, Cancel, TypeOK
<1>2. Down
  <2>1. CallOutcome(t)
    BY <1>1, CallWorks, CallOutcomes
  <2> QED  BY <1>1, <2>1 DEF CallOutcome
<1>3. CASE StartChannel(t)
  <2>1. CASE IsConnected \/ paired
    <3>1. call'[t].pc = "idle" /\ link' = link
      BY <1>3, <2>1 DEF StartChannel, Return, IdleCall, TypeOK
    <3> QED  BY <1>1, <1>2, <3>1, <1>a, CallCode DEF Down
  <2>2. CASE ~(IsConnected \/ paired)
    <3>1. /\ call'[t].pc = "connect" /\ call'[t].chan = call[t].chan /\ link' = link
          /\ chan' = [chan EXCEPT ![call[t].chan].open = TRUE]
          /\ call[t].pc = "channel" /\ call[t].chan \in Chans
      BY <1>3, <2>2 DEF StartChannel, Ready, Goto, HeldInv, TypeOK
    <3>2. \E x \in Chans : x = call'[t].chan /\ Live(x)'
      <4>1. ~chan[call[t].chan].cancelled
        BY <3>1 DEF CodeInv
      <4> QED  BY <3>1, <4>1 DEF Live, TypeOK
    <3> QED  BY <1>1, <1>2, <3>1, <3>2, <1>a, CallCode DEF Down
  <2> QED  BY <2>1, <2>2
<1>4. CASE StartConnect(t)
  <2>1. call'[t].pc = "idle" /\ call[t].pc = "connect"
    BY <1>4 DEF StartConnect, Ready, Return, IdleCall, TypeOK
  <2>2. link' = "up" /\ ~paired' => Running'
    <3>1. link' = "up" => UNCHANGED chan
      BY <1>2, <1>4 DEF StartConnect, Down
    <3> QED  BY <1>1, <2>1, <3>1 DEF CodeInv, Running, Live
  <2> QED  BY <1>1, <2>1, <2>2, <1>a, CallCode
<1> QED  BY <1>3, <1>4

LEMMA StopCode ==
  ASSUME TypeOK, HeldInv, SoloInv, CodeInv, alone', NEW t \in Callers,
         Stop(t) \/ StopDisconnect(t) \/ Logout(t) \/ LogoutFails(t)
  PROVE  CodeInv'
<1>1. /\ Step(t) /\ lastQR' = lastQR /\ consumer' = consumer /\ (paired' => paired)
      /\ call'[t].pc \in {"idle", "disconnect"}
      /\ \A u \in Callers : u # t => call'[u] = call[u]
      /\ \A x \in Chans : todo'[x] = todo[x]
  BY Kinds DEF Stop, StopDisconnect, Logout, LogoutFails, Ready, Goto, Return, IdleCall, Then, TypeOK
<1>a. \A x \in Chans : chan'[x].items = chan[x].items
  BY DEF Stop, StopDisconnect, Logout, LogoutFails, Cancel, TypeOK
<1>2. link' = "up" => Stopping'
  BY DEF Stop, StopDisconnect, Logout, LogoutFails, Goto, Stopping, TypeOK
<1> QED  BY <1>1, <1>a, <1>2, CallCode

LEMMA ClientCode ==
  ASSUME TypeOK, LinkInv, HeldInv, SoloInv, CodeInv, Quiet, Client
  PROVE  CodeInv'
<1>1. /\ \A t \in Callers : call'[t].pc = "idle"
      /\ UNCHANGED <<lastQR, consumer>>
  BY QuietFacts DEF Client, QRFailure, QRCode, PairSuccess, Connected, Disconnected, Reconnect,
                    LoggedOut
<1>2. ~SomeClears /\ ~Stopping
  <2>1. \A x \in Chans : ~Busy(x)
    BY Kinds DEF Quiet
  <2>2. SetQR(NoCode) # <<>> /\ <<"success">> # <<>>
    BY ListsOfWrites
  <2>3. \A x \in Chans : ~Clears(x)
    BY <2>1, <2>2 DEF Busy, Clears
  <2>4. \A t \in Callers : call[t].pc = "idle"
    BY QuietFacts
  <2> QED  BY <2>3, <2>4 DEF SomeClears, Stopping
<1>3. CASE PairSuccess
  <2>1. PICK x \in Chans : Live(x)
    BY <1>2, <1>3 DEF PairSuccess, CodeInv, Running
  <2>2. consumer[x] /\ chan[x].items = <<>> /\ todo[x] = <<>>
    BY <2>1, QuietFacts, Kinds
  <2>3. chan'[x].items = <<"success">>
    <3>1. <<>> \o <<"success">> = <<"success">>
      OBVIOUS
    <3> QED  BY <1>3, <2>1, <2>2, <3>1 DEF PairSuccess, EndChans, Live
  <2>4. todo'[x] = todo[x]
    BY <1>3, Kinds DEF PairSuccess, Dispatch, Then, TypeOK
  <2>5. SomeClears'
    BY <1>1, <2>2, <2>3, <2>4 DEF SomeClears, Clears
  <2> QED  BY <1>1, <1>3, <2>5 DEF PairSuccess, CodeInv
<1>4. ASSUME paired' => paired, link' = "up" /\ ~paired' => Running'
      PROVE  CodeInv'
  BY <1>1, <1>2, <1>4 DEF CodeInv
<1>5. CASE \E x \in Chans, c \in Codes : QRCode(x, c)
  <2>1. Running => Running'
    BY <1>5 DEF QRCode, Running, Live, TypeOK
  <2> QED  BY <1>2, <1>4, <1>5, <2>1 DEF QRCode, CodeInv
<1>6. CASE \/ \E x \in Chans : QRFailure(x)
           \/ Connected \/ Disconnected \/ Reconnect \/ LoggedOut
  BY <1>4, <1>6 DEF QRFailure, Connected, Disconnected, Reconnect, LoggedOut, LinkInv
<1> QED  BY <1>3, <1>5, <1>6 DEF Client

LEMMA CodeStep ==
  ASSUME TypeOK, LinkInv, HeldInv, alone => SoloInv /\ CodeInv, Next
  PROVE  alone' => CodeInv'
<1> SUFFICES ASSUME alone'  PROVE CodeInv'
  OBVIOUS
<1>1. alone /\ (Client => Quiet)
  BY ClientWaits
     DEF Next, Moves, Request, CallStep, Step, Write, PairPhone, Start, StartBranch, StartChannel,
         StartConnect, Stop, StopDisconnect, Logout, LogoutFails, ConsumeQR, QRCancelled,
         HandleDisconnected
<1>2. CASE \E t \in Callers : Request(t) \/ CallStep(t) \/ LogoutFails(t)
  BY <1>1, <1>2, StartCode, ConnectCode, StopCode DEF Request, CallStep
<1>3. CASE Client
  BY <1>1, <1>3, ClientCode
<1> QED  BY <1>1, <1>2, <1>3, WriteCode, ConsumeCode, CancelledCode, DisconnectedCode
        DEF Next, Moves

-----------------------------------------------------------------------------
(* The theorems *)

IInv ==
  /\ TypeOK /\ LinkInv /\ HeldInv /\ ItemsInv
  /\ inTurn => OneCall /\ LiveInv /\ CallInv
  /\ alone => inTurn /\ SoloInv /\ CodeInv

LEMMA InitIInv == Init => IInv
<1> SUFFICES ASSUME Init  PROVE IInv
  OBVIOUS
<1> USE ConstantsAssumption DEF Init
<1>1. TypeOK
  <2>1. NewChan \in [open : BOOLEAN, cancelled : BOOLEAN, items : Seq(Items)] /\ Len(NewChan.items) = 0
    BY DEF NewChan
  <2>2. chan \in [Chans -> [open : BOOLEAN, cancelled : BOOLEAN, items : Seq(Items)]]
        /\ \A x \in Chans : Len(chan[x].items) <= Buffer + 1
    BY <2>1
  <2>3. todo \in [Actors -> Seq(Writes)] /\ consumer \in [Chans -> BOOLEAN]
    OBVIOUS
  <2>4. call \in [Callers -> Calls]
    BY DEF IdleCall, Calls
  <2> QED  BY <2>2, <2>3, <2>4 DEF TypeOK, Statuses, Calls
<1>2. LinkInv /\ HeldInv /\ ItemsInv
  BY DEF LinkInv, HeldInv, ItemsInv, IdleCall, NewChan
<1>3. OneCall /\ LiveInv /\ CallInv
  <2>1. \A t \in Callers : t \in Actors
    BY DEF Actors
  <2> QED  BY <2>1 DEF OneCall, InCall, LiveInv, CallInv, Live, IdleCall, NewChan
<1>4. SoloInv
  <2>1. \A a \in Actors : ~Busy(a)
    BY DEF Busy, IdleCall, NewChan
  <2>2. StatusRight
    BY DEF StatusRight
  <2>3. EmptyInv
    BY DEF EmptyInv, Live, IdleCall, NewChan
  <2> QED  BY <2>1, <2>2, <2>3 DEF SoloInv, Working
<1>5. CodeInv
  BY DEF CodeInv, IdleCall
<1> QED  BY <1>1, <1>2, <1>3, <1>4, <1>5 DEF IInv

LEMMA StepIInv == IInv /\ [Next]_vars => IInv'
<1>1. CASE IInv /\ Next
  BY <1>1, TypeStep, HeldStep, LinkStep, TurnStep, SoloStep, CodeStep DEF IInv, TypeInv, TurnInv
<1>2. CASE IInv /\ UNCHANGED vars
  <2>1. TypeOK' /\ LinkInv' /\ HeldInv' /\ ItemsInv'
    BY <1>2 DEF IInv, TypeOK, LinkInv, HeldInv, ItemsInv, vars
  <2>2. inTurn' => OneCall' /\ LiveInv' /\ CallInv'
    BY <1>2 DEF IInv, OneCall, LiveInv, CallInv, InCall, Live, vars
  <2>3. SoloInv => SoloInv'
    <3>1. /\ \A a \in Actors : (Working(a)' <=> Working(a)) /\ (Outcome(a)' <=> Outcome(a))
          /\ (StatusRight' <=> StatusRight) /\ (EmptyInv => EmptyInv')
      BY <1>2 DEF Working, Busy, Clears, Outcome, CallOutcome, HandlerOutcome, ConsumerOutcome, Down,
                  StatusRight, IsConnected, EmptyInv, Live, vars
    <3> QED  BY <3>1 DEF SoloInv
  <2>4. CodeInv => CodeInv'
    BY <1>2 DEF CodeInv, SomeClears, Clears, Running, Stopping, Live, vars
  <2> QED  BY <1>2, <2>1, <2>2, <2>3, <2>4 DEF IInv, vars
<1> QED  BY <1>1, <1>2

LEMMA Invariance == Spec => []IInv
<1> QED  BY InitIInv, StepIInv, PTL DEF Spec

\* Every reachable state of a session is well typed; in particular a QR channel
\* has a place for the item that ends it.
THEOREM TypeCorrect == Spec => []TypeOK
<1>1. IInv => TypeOK
  BY DEF IInv
<1> QED  BY <1>1, Invariance, PTL

\* While calls take turns, no Start loses the cancel function of a QR channel that
\* runs on, however events, consumers and the network interleave with the calls.
THEOREM QRStaysCancellable == Spec => []QRCancellable
<1>1. IInv => QRCancellable
  BY DEF IInv, LiveInv, QRCancellable
<1> QED  BY <1>1, Invariance, PTL

\* While calls take turns, a consumer whose client is disconnected finds its channel
\* ended or cancelled: none is left waiting for codes that nobody will send.
THEOREM NoConsumerStuck == Spec => []NoStuckConsumer
<1>1. ASSUME IInv, inTurn, NEW x \in Chans, consumer[x], link = "down", Live(x)
      PROVE  FALSE
  <2>1. PICK t \in Callers : call[t].chan = x
    BY <1>1 DEF IInv, LiveInv
  <2> QED  BY <1>1, <2>1 DEF IInv, HeldInv
<1>2. IInv => NoStuckConsumer
  BY <1>1 DEF NoStuckConsumer
<1> QED  BY <1>2, Invariance, PTL

\* As long as calls, events and QR items come one at a time, what setStatus and setQR
\* left behind is right whenever nothing runs, however many starts, pairings, failures,
\* drops, logouts and stops there were: WORKING and SCAN_QR are said of such a client
\* only, except after a Logout that failed once it had disconnected, a client that is
\* logged in is WORKING, and a paired one has no code.  Of the code of an unpaired client
\* nothing is proved: Stop, LoggedOut, a failure or a drop leave it in place.
THEOREM StatusAgreement == Spec => []StatusAgrees
<1>1. IInv => StatusAgrees
  <2> SUFFICES ASSUME IInv, alone, Quiet  PROVE StatusRight /\ CodeRight
    BY DEF StatusAgrees
  <2>1. \A a \in Actors : ~Busy(a) /\ ~Working(a)
    BY DEF Quiet, Working
  <2>2. StatusRight
    BY <2>1 DEF IInv, SoloInv
  <2>3. ~SomeClears
    <3>1. SetQR(NoCode) # <<>> /\ <<"success">> # <<>>
      BY ListsOfWrites
    <3> QED  BY <2>1, <3>1, Kinds DEF SomeClears, Clears, Busy
  <2> QED  BY <2>2, <2>3 DEF IInv, CodeInv, CodeRight
<1> QED  BY <1>1, Invariance, PTL
=============================================================================
