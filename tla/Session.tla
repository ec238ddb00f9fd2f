------------------------------ MODULE Session ------------------------------
(***************************************************************************)
(* One wa.Session: Start, Stop, Logout and PairPhone as callers run them,  *)
(* consumeQR on the channel of each Start, and handleEvent in whatsmeow's  *)
(* event goroutines.  Each write of setStatus and setQR is a lock section   *)
(* of its own, so an actor is a list of writes still to do, and the actors *)
(* interleave between any two of them.  What the manager is told after the *)
(* unlock is Registry's and EventStream's.                                 *)
(*                                                                         *)
(* The client is external: a connection, the credentials (Store.ID), and   *)
(* QR channels that end on pairing, failure, disconnection or cancelling.  *)
(***************************************************************************)
EXTENDS Naturals, Sequences, SequencesExt

CONSTANTS
  Callers,   \* API calls on this session at a time
  Handlers,  \* event goroutines alive at once (a bound)
  Chans,     \* QR contexts and channels alive at once (a bound)
  Buffer,    \* items a QR channel holds (8 in whatsmeow; a bound)
  Codes, NoCode, NoChan

ASSUME ConstantsAssumption ==
  /\ NoCode \notin Codes /\ Codes \cap {"success", "failed"} = {}
  /\ NoChan \notin Chans /\ Buffer \in Nat \ {0}
  /\ Callers \cap Handlers = {} /\ (Callers \cup Handlers) \cap Chans = {}

VARIABLES
  status, lastQR, qrCancel,  \* the fields of the session
  link, paired,              \* the client: connection, and Store.ID # nil
  chan,                      \* the QR channels
  consumer,                  \* is consumeQR ranging over the channel?
  call,                      \* the API calls: where they are, and their channel
  todo,                      \* the writes each actor has yet to do
  alone,                     \* history: no two activities have overlapped yet
  inTurn,                    \* history: no two API calls have overlapped yet
  cut                        \* history: the status is from before a Logout that failed
                             \* after it had disconnected

vars == <<status, lastQR, qrCancel, link, paired, chan, consumer, call, todo, alone, inTurn, cut>>

Actors == Callers \cup Handlers \cup Chans
Statuses == {"STOPPED", "STARTING", "SCAN_QR", "WORKING", "FAILED"}
Items == Codes \cup {"success", "failed"}
NewChan == [open |-> FALSE, cancelled |-> FALSE, items |-> <<>>]
IdleCall == [pc |-> "idle", chan |-> NoChan]

SetStatus(st) == << <<"status", st>> >>
\* Mutant: the code goes to the wrong field.
SetQRWrongField(code) == << <<"status", code>> >>
SetQR(code) == << <<"qr", code>> >>
Writes == {<<"status", st>> : st \in Statuses} \cup {<<"qr", c>> : c \in Codes \cup {NoCode}}
            \cup {<<"check", "Disconnected">>}

TypeOK ==
  /\ status \in Statuses
  /\ lastQR \in Codes \cup {NoCode}
  /\ qrCancel \in Chans \cup {NoChan}
  /\ link \in {"down", "retry", "up", "in"} /\ paired \in BOOLEAN
  /\ chan \in [Chans -> [open : BOOLEAN, cancelled : BOOLEAN, items : Seq(Items)]]
  /\ \A x \in Chans : Len(chan[x].items) <= Buffer + 1
  /\ consumer \in [Chans -> BOOLEAN]
  /\ call \in [Callers -> [pc : {"idle", "start", "branch", "channel", "connect", "disconnect"},
                           chan : Chans \cup {NoChan}]]
  /\ todo \in [Actors -> Seq(Writes)]
  /\ alone \in BOOLEAN /\ inTurn \in BOOLEAN /\ cut \in BOOLEAN

Init ==
  /\ status = "STOPPED" /\ lastQR = NoCode /\ qrCancel = NoChan
  /\ link = "down" /\ paired \in BOOLEAN
  /\ chan = [x \in Chans |-> NewChan] /\ consumer = [x \in Chans |-> FALSE]
  /\ call = [t \in Callers |-> IdleCall]
  /\ todo = [a \in Actors |-> <<>>]
  /\ alone = TRUE /\ inTurn = TRUE /\ cut = FALSE

-----------------------------------------------------------------------------
(* Actors *)

Busy(a) ==
  \/ todo[a] # <<>>
  \/ a \in Callers /\ call[a].pc # "idle"
  \/ a \in Chans /\ consumer[a] /\ chan[a].items # <<>>

Quiet == \A a \in Actors : ~Busy(a)

\* After a pairing the library runs the handler and ends the channels, so that
\* the consumer clears the code beside whatever else goes on.
Clears(x) ==
  /\ x \in Chans
  /\ \/ todo[x] = SetQR(NoCode)
     \/ consumer[x] /\ todo[x] = <<>> /\ chan[x].items = <<"success">>

\* a takes a step; it is not alone when another actor is in the middle of one.
Step(a) ==
  alone' = (alone /\ \A b \in Actors \ {a} : Busy(b) => Clears(a) \/ Clears(b))

InCall(t) == call[t].pc # "idle" \/ todo[t] # <<>>

Ready(t, pc) == call[t].pc = pc /\ todo[t] = <<>>
Goto(t, pc) == call' = [call EXCEPT ![t].pc = pc]
Return(t) == call' = [call EXCEPT ![t] = IdleCall]
Then(a, writes) == todo' = [todo EXCEPT ![a] = writes]

\* The lock section of setStatus or setQR.
Write(a) ==
  LET w == Head(todo[a]) IN
  /\ todo[a] # <<>> /\ w[1] # "check"
  /\ status' = IF w[1] = "status" THEN w[2] ELSE status
  /\ lastQR' = IF w[1] = "qr" THEN w[2] ELSE lastQR
  /\ Then(a, Tail(todo[a]))
  /\ Step(a)
  /\ UNCHANGED <<qrCancel, link, paired, chan, consumer, call>>

-----------------------------------------------------------------------------
(* Start, and PairPhone, which is Start unless the client is connected *)

IsConnected == link \in {"up", "in"}

\* A context may be cancelled before its channel begins, and after it has ended.
Cancel(x) ==
  chan' = [y \in Chans |-> IF y = x THEN [chan[y] EXCEPT !.cancelled = TRUE] ELSE chan[y]]

PairPhone(t) ==
  /\ Ready(t, "idle")
  /\ ~IsConnected
  /\ Goto(t, "start")
  /\ Step(t)
  /\ UNCHANGED <<status, lastQR, qrCancel, link, paired, chan, consumer, todo>>

Start(t) ==
  /\ Ready(t, "idle") \/ Ready(t, "start")
  /\ IF IsConnected THEN Return(t) /\ UNCHANGED todo
                    ELSE Goto(t, "branch") /\ Then(t, SetStatus("STARTING"))
  /\ Step(t)
  /\ UNCHANGED <<status, lastQR, qrCancel, link, paired, chan, consumer>>

\* A channel no consumer reads, no call holds and qrCancel does not cancel.
Unused(x) == ~chan[x].open /\ ~consumer[x] /\ qrCancel # x /\ \A t \in Callers : call[t].chan # x

\* Mutant: the cancel function is kept only when there is none.
StartBranchKeepsFirst(t) ==
  /\ Ready(t, "branch")
  /\ \/ paired /\ Goto(t, "connect") /\ UNCHANGED <<qrCancel, chan>>
     \/ /\ ~paired
        /\ \E x \in Chans : /\ Unused(x)
                            /\ chan' = [chan EXCEPT ![x] = NewChan]
                            /\ qrCancel' = IF qrCancel = NoChan THEN x ELSE qrCancel
                            /\ call' = [call EXCEPT ![t] = [pc |-> "channel", chan |-> x]]
  /\ Step(t)
  /\ UNCHANGED <<status, lastQR, link, paired, consumer, todo>>

\* Without credentials the call makes a context and leaves its cancel function
\* in the session, over the one that may be there.
StartBranch(t) ==
  /\ Ready(t, "branch")
  /\ \/ paired /\ Goto(t, "connect") /\ UNCHANGED <<qrCancel, chan>>
     \/ /\ ~paired
        /\ \E x \in Chans : /\ Unused(x)
                            /\ chan' = [chan EXCEPT ![x] = NewChan]
                            /\ qrCancel' = x
                            /\ call' = [call EXCEPT ![t] = [pc |-> "channel", chan |-> x]]
  /\ Step(t)
  /\ UNCHANGED <<status, lastQR, link, paired, consumer, todo>>

\* GetQRChannel refuses a client that got connected or paired meanwhile.
StartChannel(t) ==
  /\ Ready(t, "channel")
  /\ IF IsConnected \/ paired
     THEN Cancel(call[t].chan) /\ Return(t) /\ Then(t, SetStatus("FAILED"))
     ELSE chan' = [chan EXCEPT ![call[t].chan].open = TRUE] /\ Goto(t, "connect") /\ UNCHANGED todo
  /\ Step(t)
  /\ UNCHANGED <<status, lastQR, qrCancel, link, paired, consumer>>

\* Connect may fail, and does on a client that is already connected.
StartConnect(t) ==
  /\ Ready(t, "connect")
  /\ \/ /\ ~IsConnected
        /\ link' = "up"
        /\ consumer' = [x \in Chans |-> consumer[x] \/ x = call[t].chan]
        /\ UNCHANGED <<chan, todo>>
     \/ Cancel(call[t].chan) /\ Then(t, SetStatus("FAILED")) /\ UNCHANGED <<link, consumer>>
  /\ Return(t)
  /\ Step(t)
  /\ UNCHANGED <<status, lastQR, qrCancel, paired>>

-----------------------------------------------------------------------------
(* Stop and Logout *)

\* Mutant: Stop does not cancel the QR context.
StopCancelMissing(t) ==
  /\ Ready(t, "idle")
  /\ Goto(t, "disconnect")
  /\ Step(t)
  /\ UNCHANGED <<status, lastQR, qrCancel, link, paired, chan, consumer, todo>>

Stop(t) ==
  /\ Ready(t, "idle")
  /\ Cancel(qrCancel)
  /\ qrCancel' = NoChan
  /\ Goto(t, "disconnect")
  /\ Step(t)
  /\ UNCHANGED <<status, lastQR, link, paired, consumer, todo>>

\* lastQR stays as it is.
StopDisconnect(t) ==
  /\ Ready(t, "disconnect")
  /\ link' = "down"
  /\ Return(t) /\ Then(t, SetStatus("STOPPED"))
  /\ Step(t)
  /\ UNCHANGED <<status, lastQR, qrCancel, paired, chan, consumer>>

\* The library tells the server, disconnects and wipes the credentials.  A request
\* that fails changes nothing.
Logout(t) ==
  /\ Ready(t, "idle")
  /\ link = "in"
  /\ link' = "down" /\ paired' = FALSE
  /\ Then(t, SetStatus("STOPPED") \o SetQR(NoCode))
  /\ Step(t)
  /\ UNCHANGED <<status, lastQR, qrCancel, chan, consumer, call>>

\* The wipe fails: the client is disconnected by then, and nothing is written.
LogoutFails(t) ==
  /\ Ready(t, "idle")
  /\ link = "in"
  /\ link' = "down"
  /\ Step(t)
  /\ UNCHANGED <<status, lastQR, qrCancel, paired, chan, consumer, call, todo>>

-----------------------------------------------------------------------------
(* consumeQR *)

\* Mutant: a pairing leaves the code it was made with.
ReceivedKeepsCode(item) ==
  IF item = "success" THEN <<>>
  ELSE IF item = "failed" THEN SetStatus("FAILED") ELSE SetStatus("SCAN_QR") \o SetQR(item)

Received(item) ==
  IF item = "success" THEN SetQR(NoCode)
  ELSE IF item = "failed" THEN SetStatus("FAILED") ELSE SetStatus("SCAN_QR") \o SetQR(item)

\* The loop returns after a failure, and ends with the channel.
ConsumeQR(x) ==
  /\ consumer[x] /\ todo[x] = <<>>
  /\ IF chan[x].items # <<>>
     THEN /\ Then(x, Received(Head(chan[x].items)))
          /\ chan' = [chan EXCEPT ![x].items = Tail(@)]
          /\ consumer' = [consumer EXCEPT ![x] = Head(chan[x].items) # "failed"]
     ELSE ~chan[x].open /\ consumer' = [consumer EXCEPT ![x] = FALSE] /\ UNCHANGED <<chan, todo>>
  /\ Step(x)
  /\ UNCHANGED <<status, lastQR, qrCancel, link, paired, call>>

-----------------------------------------------------------------------------
(* handleEvent *)

\* Disconnected reads the status first, and writes it afterwards.
HandleDisconnected(h) ==
  /\ todo[h] = << <<"check", "Disconnected">> >>
  /\ Then(h, IF status # "STOPPED" THEN SetStatus("STARTING") ELSE <<>>)
  /\ Step(h)
  /\ UNCHANGED <<status, lastQR, qrCancel, link, paired, chan, consumer, call>>

HandleConnected == SetStatus("WORKING") \o SetQR(NoCode)

\* The library runs the handler in a goroutine of its own.
Dispatch(writes) ==
  \E h \in Handlers :
    /\ todo[h] = <<>>
    /\ Then(h, writes)
    /\ alone' = (alone /\ Quiet)

-----------------------------------------------------------------------------
(* The client, external *)

Live(x) == chan[x].open /\ ~chan[x].cancelled

\* Ends the channels in X, with `last` as their last items.
EndChans(X, last) ==
  chan' = [x \in Chans |-> IF chan[x].open /\ x \in X
                           THEN [open |-> FALSE, cancelled |-> FALSE, items |-> chan[x].items \o last]
                           ELSE chan[x]]

QRCode(x, c) ==
  /\ link = "up" /\ ~paired /\ Live(x) /\ Len(chan[x].items) < Buffer
  /\ chan' = [chan EXCEPT ![x].items = Append(@, c)]
  /\ alone' = (alone /\ Quiet)
  /\ UNCHANGED <<status, lastQR, qrCancel, link, paired, consumer, call, todo>>

\* The codes ran out, or the server refused the pairing.
QRFailure(x) ==
  /\ link = "up" /\ ~paired /\ Live(x)
  /\ EndChans({x}, <<"failed">>)
  /\ link' = "down"
  /\ alone' = (alone /\ Quiet)
  /\ UNCHANGED <<status, lastQR, qrCancel, paired, consumer, call, todo>>

QRCancelled(x) ==
  /\ chan[x].open /\ chan[x].cancelled
  /\ EndChans({x}, <<>>)
  /\ UNCHANGED <<status, lastQR, qrCancel, link, paired, consumer, call, todo, alone>>

PairSuccess ==
  /\ link = "up" /\ ~paired
  /\ paired' = TRUE
  /\ EndChans(Chans, <<"success">>)
  /\ Dispatch(SetStatus("WORKING"))
  /\ UNCHANGED <<status, lastQR, qrCancel, link, consumer, call>>

Connected ==
  /\ link = "up" /\ paired
  /\ link' = "in"
  /\ Dispatch(HandleConnected)
  /\ UNCHANGED <<status, lastQR, qrCancel, paired, chan, consumer, call>>

\* whatsmeow reconnects by itself when it has credentials.
Disconnected ==
  /\ IsConnected
  /\ link' = IF paired THEN "retry" ELSE "down"
  /\ EndChans(Chans, <<>>)
  /\ Dispatch(<< <<"check", "Disconnected">> >>)
  /\ UNCHANGED <<status, lastQR, qrCancel, paired, consumer, call>>

Reconnect ==
  /\ link = "retry"
  /\ link' = "up"
  /\ alone' = (alone /\ Quiet)
  /\ UNCHANGED <<status, lastQR, qrCancel, paired, chan, consumer, call, todo>>

LoggedOut ==
  /\ IsConnected /\ paired
  /\ link' = "down" /\ paired' = FALSE
  /\ Dispatch(SetStatus("STOPPED"))
  /\ UNCHANGED <<status, lastQR, qrCancel, chan, consumer, call>>

-----------------------------------------------------------------------------
Request(t) == PairPhone(t) \/ (Ready(t, "idle") /\ Start(t)) \/ Stop(t) \/ Logout(t)

CallStep(t) ==
  \/ (Ready(t, "start") /\ Start(t)) \/ StartBranch(t) \/ StartChannel(t) \/ StartConnect(t)
  \/ StopDisconnect(t)

Client ==
  \/ \E x \in Chans : QRFailure(x) \/ \E c \in Codes : QRCode(x, c)
  \/ PairSuccess \/ Connected \/ Disconnected \/ Reconnect \/ LoggedOut

Moves ==
  \/ \E a \in Actors : Write(a)
  \/ \E t \in Callers : Request(t) \/ CallStep(t)
  \/ \E x \in Chans : ConsumeQR(x) \/ QRCancelled(x)
  \/ \E h \in Handlers : HandleDisconnected(h)
  \/ Client

Next ==
  /\ \/ Moves /\ cut' = (cut /\ status' = status)
     \/ (\E t \in Callers : LogoutFails(t)) /\ cut' = TRUE
  /\ inTurn' = (inTurn /\ \A t, u \in Callers : t = u \/ ~InCall(t)' \/ ~InCall(u)')

Spec == Init /\ [][Next]_vars

-----------------------------------------------------------------------------
(* Properties *)

\* What the status says of the client, when it is right.  After a Logout that failed
\* once it had disconnected it still says WORKING.
StatusRight ==
  /\ link = "in" => status = "WORKING"
  /\ status = "WORKING" => paired /\ (IsConnected \/ cut)
  /\ status = "SCAN_QR" => link = "up" /\ ~paired

\* A paired client has no QR code to show.  Of an unpaired one nothing is said: Stop,
\* a failed pairing, LoggedOut and a drop leave the last code in place, dead as it is.
CodeRight == paired => lastQR = NoCode

\* As long as calls, events and QR items come one at a time, what setStatus and setQR
\* left behind is right whenever nothing is running, over any sequence of starts,
\* pairings, failures, drops, logouts and stops: WORKING and SCAN_QR are said of a
\* client in that state only, but for the Logout named above, a client that is logged
\* in is WORKING, and no code is left once a phone is paired.
StatusAgrees == alone /\ Quiet => StatusRight /\ CodeRight

\* As long as API calls on the session take turns, a QR channel that is still
\* running can be cancelled by the next Stop, or by the Start that is about to run
\* it: no Start loses the cancel function of one, whatever the network does.
QRCancellable ==
  inTurn => \A x \in Chans : Live(x) => qrCancel = x \/ \E t \in Callers : call[t].chan = x

\* The goroutine consuming QR codes does not wait for ever, if calls take turns:
\* once the client is disconnected, by Stop, by a failure or by the network, its
\* channel has ended or has been cancelled.
NoStuckConsumer == inTurn => \A x \in Chans : consumer[x] /\ link = "down" => ~Live(x)
=============================================================================
