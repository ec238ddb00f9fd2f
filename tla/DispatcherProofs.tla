-------------------------- MODULE DispatcherProofs --------------------------
(***************************************************************************)
(* For all values of the constants, Dispatcher keeps its types, implements *)
(* WebhookDelivery, sends an event to exactly its subscribers, and nothing *)
(* to a hook deleted before the emission.  The invariant says that an      *)
(* event is on the bus at most once, that only fanned-out events have      *)
(* senders, and that a sender counts its posts.                            *)
(***************************************************************************)
EXTENDS Dispatcher, TLAPS

TableInv ==
  /\ \A h \in Hooks : h \in live \cup dismissed <=> hook[h] # NoRow
  /\ live \cap dismissed = {}
  /\ \A e \in Events : known[e].dismissed \subseteq dismissed
  /\ \A e \in Events : \A h \in known[e].ever : hook[h] # NoRow

QueueInv ==
  /\ \A i \in 1 .. Len(bus) : fate[bus[i]] = "queued"
  /\ \A i, j \in 1 .. Len(bus) : bus[i] = bus[j] => i = j

\* The sender of event e to hook h.
Sender(e, h) ==
  LET d == <<e, h>> IN
  /\ outcome[d] # "none" =>
       fate[e] = "fanned" /\ hook[h] # NoRow /\ h \notin known[e].dismissed
  /\ outcome[d] = "none" => posts[d] = 0
  /\ d \in inFlight => outcome[d] = "trying" /\ posts[d] > 0
  /\ outcome[d] = "trying" /\ d \notin inFlight => posts[d] < Attempts
  /\ posts[d] > 0 => hook[h] # NoRow /\ hook[h].url = "good"

SenderInv == \A e \in Events, h \in Hooks : Sender(e, h)

IInv == TypeOK /\ TableInv /\ QueueInv /\ SenderInv

-----------------------------------------------------------------------------
(* What most actions leave alone *)

LEMMA TableKept == ASSUME IInv, UNCHANGED <<table, known>> PROVE TableInv'
BY DEF IInv, TableInv, table

LEMMA QueueKept == ASSUME IInv, UNCHANGED <<bus, fate>> PROVE QueueInv'
BY DEF IInv, QueueInv

\* Rows that are there stay, and an event that was fanned out is decided.
SendersUndisturbed ==
  /\ UNCHANGED senders
  /\ \A h \in Hooks : hook[h] # NoRow => hook'[h] = hook[h]
  /\ \A e \in Events : fate[e] = "fanned" => fate'[e] = "fanned" /\ known'[e] = known[e]

LEMMA SendersKept == ASSUME IInv, SendersUndisturbed PROVE SenderInv'
<1> SUFFICES ASSUME NEW e \in Events, NEW h \in Hooks PROVE Sender(e, h)'
  BY DEF SenderInv
<1>1. Sender(e, h) BY DEF IInv, SenderInv
<1> QED BY <1>1 DEF Sender, SendersUndisturbed, senders

LEMMA InitIInv == Init => IInv
<1> SUFFICES ASSUME Init PROVE IInv OBVIOUS
<1> USE ConstantsAssumption DEF Init
<1>1. TypeOK BY DEF TypeOK, Deliveries, Fates, Outcomes
<1>2. TableInv /\ QueueInv BY DEF TableInv, QueueInv
<1>3. SenderInv BY DEF SenderInv, Sender, Deliveries
<1> QED BY <1>1, <1>2, <1>3 DEF IInv

-----------------------------------------------------------------------------
(* One lemma per action *)

LEMMA TableActions ==
  ASSUME IInv, NEW s \in Sessions, InsertSession(s) \/ DeleteSession(s) PROVE IInv'
<1>1. TypeOK'
  BY DEF IInv, TypeOK, InsertSession, DeleteSession, Dismiss, queue, senders
<1>2. TableInv'
  BY DEF IInv, TypeOK, TableInv, InsertSession, DeleteSession, Dismiss, queue
<1>3. QueueInv' BY QueueKept DEF InsertSession, DeleteSession, queue
<1>4. SenderInv'
  BY SendersKept DEF SendersUndisturbed, InsertSession, DeleteSession, queue
<1> QED BY <1>1, <1>2, <1>3, <1>4 DEF IInv

LEMMA StoredType ==
  ASSUME NEW row \in Row PROVE [row EXCEPT !.events = Stored(row.events)] \in Row
BY DEF Row, Stored

LEMMA AddWebhookStep ==
  ASSUME IInv, NEW h \in Hooks, NEW row \in Row, AddWebhook(h, row) PROVE IInv'
<1> USE DEF AddWebhook
<1>1. hook[h] = NoRow /\ hook'[h] # NoRow /\ hook'[h] \in Row
  BY ConstantsAssumption, StoredType DEF IInv, TypeOK, Unused
<1>2. TypeOK' BY StoredType DEF IInv, TypeOK, queue, senders
<1>3. \A g \in Hooks : hook[g] # NoRow => hook'[g] = hook[g]
  BY <1>1 DEF IInv, TypeOK
<1>4. TableInv' BY <1>1, <1>3 DEF IInv, TypeOK, TableInv, queue
<1>5. QueueInv' BY QueueKept DEF queue
<1>6. SenderInv' BY <1>3, SendersKept DEF SendersUndisturbed, queue
<1> QED BY <1>2, <1>4, <1>5, <1>6 DEF IInv

LEMMA DeleteWebhookStep == ASSUME IInv, NEW h \in Hooks, DeleteWebhook(h) PROVE IInv'
<1> USE DEF DeleteWebhook, Dismiss
<1>1. TypeOK' BY DEF IInv, TypeOK, queue, senders
<1>2. TableInv' BY DEF IInv, TypeOK, TableInv, queue
<1>3. QueueInv' BY QueueKept DEF queue
<1>4. SenderInv' BY SendersKept DEF SendersUndisturbed, queue
<1> QED BY <1>1, <1>2, <1>3, <1>4 DEF IInv

LEMMA EmitStep ==
  ASSUME IInv, NEW e \in Events, NEW s \in Sessions, NEW k \in Kinds, Emit(e, s, k)
  PROVE  IInv'
<1> USE DEF Emit
<1>1. fate[e] = "new" /\ bus \in Seq(Events) /\ fate \in [Events -> Fates]
  BY DEF IInv, TypeOK
<1>2. /\ bus' \in Seq(Events) /\ Len(bus') <= Capacity
      /\ fate' \in [Events -> Fates]
      /\ \A f \in Events : f # e => fate'[f] = fate[f]
  <2>1. fate' = [fate EXCEPT ![e] = "queued"] \/ fate' = [fate EXCEPT ![e] = "dropped"]
    BY DEF Offer
  <2>2. fate' \in [Events -> Fates] /\ \A f \in Events : f # e => fate'[f] = fate[f]
    BY <1>1, <2>1 DEF Fates
  <2>3. Len(bus) \in Nat /\ Capacity \in Nat /\ Len(bus) <= Capacity
    BY <1>1, ConstantsAssumption DEF IInv, TypeOK
  <2>4. bus' \in Seq(Events) /\ Len(bus') <= Capacity
    <3>1. CASE UNCHANGED bus BY <1>1, <2>3, <3>1
    <3>2. CASE Len(bus) < Capacity /\ bus' = Append(bus, e) BY <1>1, <2>3, <3>2
    <3> QED BY <3>1, <3>2 DEF Offer
  <2> QED BY <2>2, <2>4
<1>3. TypeOK' BY <1>2 DEF IInv, TypeOK, table, senders, Unused
<1>4. TableInv'
  <2>1. \A f \in Events : f # e => known'[f] = known[f] BY DEF IInv, TypeOK
  <2>2. known'[e] = [ever |-> Hooks \ Unused, dismissed |-> dismissed] BY DEF IInv, TypeOK
  <2> QED BY <2>1, <2>2 DEF IInv, TableInv, table, Unused
<1>5. \A i \in 1 .. Len(bus) : bus[i] \in Events /\ bus[i] # e
  BY <1>1 DEF IInv, QueueInv
<1>6. QueueInv'
  <2>1. CASE bus' = Append(bus, e) /\ fate' = [fate EXCEPT ![e] = "queued"]
    <3>1. Len(bus') = Len(bus) + 1 BY <1>1, <2>1
    <3>2. \A i \in 1 .. Len(bus') : bus'[i] = IF i <= Len(bus) THEN bus[i] ELSE e
      BY <1>1, <2>1
    <3> QED BY <1>1, <1>5, <2>1, <3>1, <3>2 DEF IInv, QueueInv
  <2>2. CASE UNCHANGED bus
    BY <1>2, <1>5, <2>2 DEF IInv, QueueInv
  <2> QED BY <2>1, <2>2 DEF Offer
<1>7. SenderInv'
  BY <1>1, <1>2, SendersKept DEF SendersUndisturbed, table, IInv, TypeOK
<1> QED BY <1>3, <1>4, <1>6, <1>7 DEF IInv

LEMMA HeadQueued ==
  ASSUME IInv, bus # <<>> PROVE Head(bus) \in Events /\ fate[Head(bus)] = "queued"
<1>1. bus \in Seq(Events) /\ 1 \in 1 .. Len(bus) /\ Head(bus) = bus[1]
  BY DEF IInv, TypeOK
<1> QED BY <1>1 DEF IInv, QueueInv

LEMMA ReceiveStep == ASSUME IInv, NEW w \in Workers, Receive(w) PROVE IInv'
<1> USE DEF Receive
<1>1. Head(bus) \in Events /\ fate[Head(bus)] = "queued" BY HeadQueued
<1>2. bus \in Seq(Events) /\ fate \in [Events -> Fates] BY DEF IInv, TypeOK
<1>3. /\ bus' \in Seq(Events) /\ Len(bus') = Len(bus) - 1
      /\ \A i \in 1 .. Len(bus') : bus'[i] = bus[i + 1] /\ bus'[i] \in Events
  BY <1>2
<1>4. TypeOK'
  <2>1. Len(bus') <= Capacity BY <1>2, <1>3, ConstantsAssumption DEF IInv, TypeOK
  <2>2. fate' \in [Events -> Fates] BY <1>1, <1>2 DEF Fates
  <2>3. holder' \in [Events -> Workers \cup {NoWorker}] BY <1>1 DEF IInv, TypeOK
  <2> QED BY <1>3, <2>1, <2>2, <2>3 DEF IInv, TypeOK, table, senders
<1>5. TableInv' BY TableKept
<1>6. QueueInv'
  <2>1. \A i \in 1 .. Len(bus') : i + 1 \in 1 .. Len(bus) BY <1>2, <1>3
  <2>2. \A i \in 1 .. Len(bus') : bus'[i] # Head(bus)
    BY <1>2, <1>3, <2>1 DEF IInv, QueueInv
  <2> QED BY <1>2, <1>3, <2>1, <2>2 DEF IInv, QueueInv
<1>7. SenderInv' BY <1>1, <1>2, SendersKept DEF SendersUndisturbed, table
<1> QED BY <1>4, <1>5, <1>6, <1>7 DEF IInv

LEMMA WorkerReturnStep == ASSUME IInv, NEW w \in Workers, WorkerReturn(w) PROVE IInv'
<1> USE DEF WorkerReturn
<1>1. TypeOK' BY DEF IInv, TypeOK, table, queue, senders
<1>2. TableInv' /\ QueueInv' BY TableKept, QueueKept DEF queue
<1>3. SenderInv' BY SendersKept DEF SendersUndisturbed, table, queue
<1> QED BY <1>1, <1>2, <1>3 DEF IInv

\* Deliver and LookupFails take an event that is off the bus.
LEMMA FinishKept ==
  ASSUME IInv, NEW e \in Events, fate[e] = "held", NEW r \in Fates, Finish(e, r), UNCHANGED bus
  PROVE  /\ fate' \in [Events -> Fates] /\ holder' \in [Events -> Workers \cup {NoWorker}]
         /\ fate'[e] = r /\ \A f \in Events : f # e => fate'[f] = fate[f]
         /\ QueueInv'
<1>1. fate \in [Events -> Fates] /\ bus \in Seq(Events) BY DEF IInv, TypeOK
<1>2. /\ fate' \in [Events -> Fates]
      /\ fate'[e] = r /\ \A f \in Events : f # e => fate'[f] = fate[f]
  BY <1>1 DEF Finish
<1>3. holder' \in [Events -> Workers \cup {NoWorker}] BY DEF IInv, TypeOK, Finish
<1>4. \A i \in 1 .. Len(bus) : bus[i] \in Events /\ bus[i] # e
  BY <1>1 DEF IInv, QueueInv
<1>5. QueueInv' BY <1>2, <1>4 DEF IInv, QueueInv
<1> QED BY <1>2, <1>3, <1>5

LEMMA LookupFailsStep ==
  ASSUME IInv, NEW w \in Workers, NEW e \in Events, LookupFails(w, e) PROVE IInv'
<1> USE DEF LookupFails, Holds
<1>1. /\ fate' \in [Events -> Fates] /\ holder' \in [Events -> Workers \cup {NoWorker}]
      /\ \A f \in Events : f # e => fate'[f] = fate[f]
      /\ QueueInv'
  BY FinishKept DEF Fates
<1>2. TypeOK' BY <1>1 DEF IInv, TypeOK, table, senders
<1>3. TableInv' BY TableKept
<1>4. SenderInv' BY <1>1, SendersKept DEF SendersUndisturbed, table
<1> QED BY <1>1, <1>2, <1>3, <1>4 DEF IInv

LEMMA DeliverStep ==
  ASSUME IInv, NEW w \in Workers, NEW e \in Events, Deliver(w, e) PROVE IInv'
<1> USE DEF Deliver, Holds
<1>1. /\ fate' \in [Events -> Fates] /\ holder' \in [Events -> Workers \cup {NoWorker}]
      /\ fate'[e] = "fanned" /\ \A f \in Events : f # e => fate'[f] = fate[f]
      /\ QueueInv'
  BY FinishKept DEF Fates
<1>2. outcome' \in [Deliveries -> Outcomes] BY DEF IInv, TypeOK, Outcomes
<1>3. TypeOK' BY <1>1, <1>2 DEF IInv, TypeOK, table
<1>4. TableInv' BY TableKept
<1>5. SenderInv'
  <2> SUFFICES ASSUME NEW f \in Events, NEW h \in Hooks PROVE Sender(f, h)'
    BY DEF SenderInv
  <2>1. Sender(f, h) /\ <<f, h>> \in Deliveries BY DEF IInv, SenderInv, Deliveries
  <2>2. outcome'[<<f, h>>] = IF f = e /\ h \in Addressed(e) THEN "trying" ELSE outcome[<<f, h>>]
    BY <2>1
  <2>3. CASE f = e /\ h \in Addressed(e)
    <3>1. outcome[<<f, h>>] = "none" BY <2>1, <2>3 DEF Sender
    <3>2. hook[h] # NoRow /\ h \notin known[e].dismissed
      BY <2>3 DEF IInv, TableInv, Addressed
    <3> QED BY <1>1, <2>1, <2>2, <2>3, <3>1, <3>2, ConstantsAssumption DEF Sender, table
  <2>4. CASE ~(f = e /\ h \in Addressed(e))
    BY <1>1, <2>1, <2>2, <2>4 DEF Sender, table
  <2> QED BY <2>3, <2>4
<1> QED BY <1>1, <1>3, <1>4, <1>5 DEF IInv

-----------------------------------------------------------------------------
(* The senders *)

LEMMA OneSender ==
  ASSUME IInv, NEW d \in Deliveries,
         UNCHANGED <<hook, fate, known>>,
         outcome' \in [Deliveries -> Outcomes], posts' \in [Deliveries -> 0 .. Attempts],
         \A c \in Deliveries : c # d =>
           /\ outcome'[c] = outcome[c] /\ posts'[c] = posts[c]
           /\ c \in inFlight' <=> c \in inFlight,
         Sender(d[1], d[2])'
  PROVE  SenderInv'
<1> SUFFICES ASSUME NEW e \in Events, NEW h \in Hooks PROVE Sender(e, h)'
  BY DEF SenderInv
<1>1. Sender(e, h) /\ <<e, h>> \in Deliveries BY DEF IInv, SenderInv, Deliveries
<1>2. CASE <<e, h>> = d BY <1>2
<1>3. CASE <<e, h>> # d BY <1>1, <1>3 DEF Sender
<1> QED BY <1>2, <1>3

LEMMA SenderActions == ASSUME IInv, NEW d \in Deliveries, SenderStep(d) PROVE IInv'
<1>1. PICK e \in Events, h \in Hooks : d = <<e, h>> BY DEF Deliveries
<1>2. /\ outcome[d] = "trying" /\ fate[e] = "fanned" /\ hook[h] # NoRow
      /\ h \notin known[e].dismissed
      /\ posts[d] \in 0 .. Attempts
      /\ d \in inFlight => posts[d] > 0
      /\ d \notin inFlight => posts[d] < Attempts
      /\ posts[d] > 0 => hook[h].url = "good"
  BY <1>1 DEF IInv, TypeOK, SenderInv, Sender, SenderStep, BuildFails, Post, Answered, PostFails,
              Sleeping, InDo
<1>3. /\ UNCHANGED <<table, queue, active, process, deaths>>
      /\ outcome' \in [Deliveries -> Outcomes] /\ posts' \in [Deliveries -> 0 .. Attempts]
      /\ inFlight' \subseteq Deliveries
      /\ \A c \in Deliveries : c # d =>
           /\ outcome'[c] = outcome[c] /\ posts'[c] = posts[c]
           /\ c \in inFlight' <=> c \in inFlight
  <2> USE <1>2, ConstantsAssumption DEF IInv, TypeOK, Outcomes
  <2>1. CASE BuildFails(d) BY <2>1 DEF BuildFails
  <2>2. CASE Post(d) BY <2>2 DEF Post, Sleeping
  <2>3. CASE Answered(d) BY <2>3 DEF Answered
  <2>4. CASE PostFails(d) BY <2>4 DEF PostFails, AfterFailure
  <2> QED BY <2>1, <2>2, <2>3, <2>4 DEF SenderStep
<1>4. Sender(e, h)'
  <2> USE <1>1, <1>2, <1>3, ConstantsAssumption DEF IInv, TypeOK, Sender, table, queue
  <2>1. CASE BuildFails(d) BY <2>1 DEF BuildFails, Sleeping
  <2>2. CASE Post(d) BY <2>2 DEF Post, Sleeping, Url
  <2>3. CASE Answered(d) BY <2>3 DEF Answered, InDo
  <2>4. CASE PostFails(d) BY <2>4 DEF PostFails, AfterFailure, InDo
  <2> QED BY <2>1, <2>2, <2>3, <2>4 DEF SenderStep
<1>5. TypeOK' BY <1>3 DEF IInv, TypeOK, table, queue
<1>6. TableInv' /\ QueueInv' BY <1>3, TableKept, QueueKept DEF queue
<1>7. SenderInv' BY <1>1, <1>3, <1>4, OneSender DEF table, queue
<1> QED BY <1>5, <1>6, <1>7 DEF IInv

-----------------------------------------------------------------------------
(* The process *)

LEMMA CancelRestartStep == ASSUME IInv, Cancel \/ Restart PROVE IInv'
<1> USE DEF Cancel, Restart
<1>1. TypeOK' BY DEF IInv, TypeOK, table, queue, senders
<1>2. TableInv' /\ QueueInv' BY TableKept, QueueKept DEF queue
<1>3. SenderInv' BY SendersKept DEF SendersUndisturbed, table, queue
<1> QED BY <1>1, <1>2, <1>3 DEF IInv

LEMMA DieStep == ASSUME IInv, Die PROVE IInv'
<1> USE DEF Die
<1>1. TypeOK'
  <2>1. fate' \in [Events -> Fates] BY DEF IInv, TypeOK, Fates
  <2>2. outcome' \in [Deliveries -> Outcomes] BY DEF IInv, TypeOK, Outcomes
  <2>3. deaths' \in 0 .. MaxDeaths BY ConstantsAssumption DEF IInv, TypeOK
  <2>4. bus' \in Seq(Events) /\ Len(bus') <= Capacity BY ConstantsAssumption
  <2> QED BY <2>1, <2>2, <2>3, <2>4 DEF IInv, TypeOK, table
<1>2. TableInv' BY TableKept
<1>3. QueueInv' BY DEF QueueInv
<1>4. SenderInv'
  <2> SUFFICES ASSUME NEW e \in Events, NEW h \in Hooks PROVE Sender(e, h)'
    BY DEF SenderInv
  <2>1. Sender(e, h) /\ <<e, h>> \in Deliveries BY DEF IInv, SenderInv, Deliveries
  <2>2. fate[e] = "fanned" => fate'[e] = "fanned" OBVIOUS
  <2>3. outcome'[<<e, h>>] = IF outcome[<<e, h>>] = "trying" THEN "cut" ELSE outcome[<<e, h>>]
    BY <2>1
  <2> QED BY <2>1, <2>2, <2>3 DEF Sender, table
<1> QED BY <1>1, <1>2, <1>3, <1>4 DEF IInv

LEMMA NextIInv == IInv /\ [Next]_vars => IInv'
<1> SUFFICES ASSUME IInv, [Next]_vars PROVE IInv' OBVIOUS
<1>1. CASE Api
  <2>1. ASSUME NEW h \in Hooks, NEW s \in Sessions, NEW u \in Urls, NEW l \in Lists,
               NEW on \in BOOLEAN,
               AddWebhook(h, [session |-> s, url |-> u, events |-> l, enabled |-> on])
        PROVE  IInv'
    <3>1. [session |-> s, url |-> u, events |-> l, enabled |-> on] \in Row
      BY ConstantsAssumption DEF Row
    <3> QED BY <2>1, <3>1, AddWebhookStep
  <2> QED BY <1>1, <2>1, TableActions, DeleteWebhookStep DEF Api
<1>2. CASE \E e \in Events, s \in Sessions, k \in Kinds : Emit(e, s, k)
  BY <1>2, EmitStep
<1>3. CASE \E w \in Workers : WorkerStep(w)
  BY <1>3, ReceiveStep, WorkerReturnStep, DeliverStep, LookupFailsStep DEF WorkerStep
<1>4. CASE \E d \in Deliveries : SenderStep(d) BY <1>4, SenderActions
<1>5. CASE Cancel \/ Die \/ Restart BY <1>5, CancelRestartStep, DieStep
<1>6. CASE UNCHANGED vars
  <2>1. TypeOK' BY <1>6 DEF IInv, TypeOK, vars, table, queue, senders
  <2>2. TableInv' /\ QueueInv' BY <1>6, TableKept, QueueKept DEF vars, queue
  <2>3. SenderInv' BY <1>6, SendersKept DEF SendersUndisturbed, vars, table, queue
  <2> QED BY <2>1, <2>2, <2>3 DEF IInv
<1> QED BY <1>1, <1>2, <1>3, <1>4, <1>5, <1>6 DEF Next

\* IInv holds in every reachable state of the dispatcher.
THEOREM Invariant == Spec => []IInv
BY InitIInv, NextIInv, PTL DEF Spec

\* Every reachable state is well typed; the bus never holds more than it has
\* places for, and no sender makes more posts than the table of waits has.
THEOREM TypeCorrect == Spec => []TypeOK
<1>1. IInv => TypeOK BY DEF IInv
<1> QED BY <1>1, Invariant, PTL

\* No hook deleted before an event was emitted is ever sent it, whatever is
\* deleted, re-created, restarted and emitted in whatever order.
THEOREM DeletedHooksHearNothing == Spec => []DeletedHookHearsNothing
<1>1. IInv => DeletedHookHearsNothing
  BY DEF IInv, SenderInv, Sender, DeletedHookHearsNothing
<1> QED BY <1>1, Invariant, PTL

-----------------------------------------------------------------------------
(* Whom an event is sent to.  Only Deliver decides it; what the decision was *)
(* read from, the row of a hook that stands and the envelope, never changes.   *)

DecisionStands ==
  /\ dismissed \subseteq dismissed'
  /\ \A h \in Hooks : hook[h] # NoRow => hook'[h] = hook[h]
  /\ \A e \in Events : fate'[e] = "fanned" =>
       fate[e] = "fanned" /\ known'[e] = known[e] /\ envelope'[e] = envelope[e]
  /\ \A d \in Deliveries : outcome'[d] = "none" <=> outcome[d] = "none"

LEMMA AddressesKept ==
  ASSUME IInv, SubscribersAddressed, DecisionStands PROVE SubscribersAddressed'
<1> SUFFICES ASSUME NEW e \in Events, fate'[e] = "fanned",
                    NEW h \in known'[e].ever \ dismissed'
             PROVE  outcome'[<<e, h>>] # "none" <=>
                      /\ hook'[h].enabled /\ hook'[h].session = envelope'[e].session
                      /\ hook'[h].events = {} \/ envelope'[e].kind \in hook'[h].events
  BY DEF SubscribersAddressed
<1>1. fate[e] = "fanned" /\ envelope'[e] = envelope[e] /\ h \in known[e].ever \ dismissed
  BY DEF DecisionStands
<1>2. h \in Hooks /\ hook'[h] = hook[h]
  BY <1>1 DEF IInv, TypeOK, TableInv, DecisionStands
<1>3. outcome'[<<e, h>>] = "none" <=> outcome[<<e, h>>] = "none"
  BY <1>2 DEF DecisionStands, Deliveries
<1> QED BY <1>1, <1>2, <1>3 DEF SubscribersAddressed

LEMMA DeliverAddresses ==
  ASSUME IInv, SubscribersAddressed, NEW w \in Workers, NEW f \in Events, Deliver(w, f)
  PROVE  SubscribersAddressed'
<1> USE DEF Deliver, Holds
<1>1. \A e \in Events : e # f => fate'[e] = fate[e] BY DEF IInv, TypeOK, Finish
<1> SUFFICES ASSUME NEW e \in Events, fate'[e] = "fanned",
                    NEW h \in known[e].ever \ dismissed
             PROVE  outcome'[<<e, h>>] # "none" <=>
                      /\ hook[h].enabled /\ hook[h].session = envelope[e].session
                      /\ hook[h].events = {} \/ envelope[e].kind \in hook[h].events
  BY DEF SubscribersAddressed, table
<1>2. h \in Hooks /\ h \in live BY DEF IInv, TypeOK, TableInv
<1>3. outcome'[<<e, h>>] = IF e = f /\ h \in Addressed(f) THEN "trying" ELSE outcome[<<e, h>>]
  BY <1>2 DEF Deliveries
<1>4. CASE e = f
  <2>1. outcome[<<e, h>>] = "none" BY <1>2, <1>4 DEF IInv, SenderInv, Sender
  <2> QED BY <1>2, <1>3, <1>4, <2>1 DEF Addressed
<1>5. CASE e # f BY <1>1, <1>3, <1>5 DEF SubscribersAddressed
<1> QED BY <1>4, <1>5

LEMMA SenderDecides == ASSUME IInv, NEW d \in Deliveries, SenderStep(d) PROVE DecisionStands
<1>1. UNCHANGED <<table, queue>> /\ outcome \in [Deliveries -> Outcomes]
  BY DEF SenderStep, BuildFails, Post, Answered, PostFails, IInv, TypeOK
<1>2. outcome[d] # "none" /\ outcome'[d] # "none" /\ \A c \in Deliveries : c # d => outcome'[c] = outcome[c]
  BY <1>1 DEF SenderStep, BuildFails, Post, Answered, PostFails, AfterFailure, Sleeping, InDo
<1> QED BY <1>1, <1>2 DEF DecisionStands, table, queue

LEMMA NextAddresses ==
  IInv /\ SubscribersAddressed /\ [Next]_vars => SubscribersAddressed'
<1> SUFFICES ASSUME IInv, SubscribersAddressed, [Next]_vars PROVE SubscribersAddressed'
  OBVIOUS
<1> USE AddressesKept
<1>1. CASE Api
  <2>1. ASSUME NEW h \in Hooks, NEW row, AddWebhook(h, row) PROVE DecisionStands
    BY <2>1 DEF AddWebhook, Unused, DecisionStands, queue, senders, IInv, TypeOK
  <2>2. ASSUME NEW h \in Hooks, DeleteWebhook(h) PROVE DecisionStands
    BY <2>2 DEF DeleteWebhook, Dismiss, DecisionStands, queue, senders
  <2>3. ASSUME NEW s \in Sessions, InsertSession(s) \/ DeleteSession(s) PROVE DecisionStands
    BY <2>3 DEF InsertSession, DeleteSession, Dismiss, DecisionStands, queue, senders
  <2> QED BY <1>1, <2>1, <2>2, <2>3 DEF Api
<1>2. ASSUME NEW e \in Events, NEW s \in Sessions, NEW k \in Kinds, Emit(e, s, k)
      PROVE  DecisionStands
  BY <1>2 DEF Emit, Offer, DecisionStands, table, senders, IInv, TypeOK
<1>3. ASSUME NEW w \in Workers, Receive(w) \/ WorkerReturn(w) PROVE DecisionStands
  BY <1>3, HeadQueued DEF Receive, WorkerReturn, DecisionStands, table, queue, senders, IInv, TypeOK
<1>4. ASSUME NEW w \in Workers, NEW e \in Events, LookupFails(w, e) PROVE DecisionStands
  BY <1>4 DEF LookupFails, Finish, DecisionStands, table, senders, IInv, TypeOK
<1>5. CASE Cancel \/ Die \/ Restart
  BY <1>5 DEF Cancel, Die, Restart, DecisionStands, table, queue, senders
<1>6. CASE UNCHANGED vars BY <1>6 DEF vars, DecisionStands, table, queue, senders
<1> QED BY <1>1, <1>2, <1>3, <1>4, <1>5, <1>6, DeliverAddresses, SenderDecides
        DEF Next, WorkerStep

\* Of the hooks that stand from an event's emission to its fan-out, exactly its
\* subscribers get a sender, whatever is added, deleted or restarted meanwhile.
THEOREM SubscribersAreAddressed == Spec => []SubscribersAddressed
<1>1. Init => SubscribersAddressed BY DEF Init, SubscribersAddressed
<1> QED BY <1>1, InitIInv, NextIInv, NextAddresses, PTL DEF Spec

-----------------------------------------------------------------------------
(* The refinement.  An event held by a worker is still queued in the abstract  *)
(* specification, so that receiving it is a stutter.                           *)

fateBar == [e \in Events |-> IF fate[e] = "held" THEN "queued" ELSE fate[e]]

LEMMA InitRefines == Init => Delivery!Init
BY DEF Init, Delivery!Init, Deliveries, Delivery!Deliveries

\* What leaves events where they are, or only hands one to a worker, stutters.
LEMMA Stutters ==
  ASSUME UNCHANGED <<fateBar, outcome, posts>> PROVE UNCHANGED Delivery!vars
BY DEF Delivery!vars, fateBar

LEMMA EmitRefines ==
  ASSUME IInv, NEW e \in Events, NEW s \in Sessions, NEW k \in Kinds, Emit(e, s, k)
  PROVE  Delivery!Next
<1>1. fate[e] = "new" /\ fate \in [Events -> Fates] /\ UNCHANGED <<outcome, posts>>
  BY DEF IInv, TypeOK, Emit, senders
<1>2. CASE fate' = [fate EXCEPT ![e] = "queued"]
  <2>1. Delivery!Accept(e) BY <1>1, <1>2 DEF Delivery!Accept, Delivery!Decide
  <2> QED BY <2>1 DEF Delivery!Next
<1>3. CASE fate' = [fate EXCEPT ![e] = "dropped"]
  <2>1. Delivery!Drop(e) BY <1>1, <1>3 DEF Delivery!Drop, Delivery!Decide
  <2> QED BY <2>1 DEF Delivery!Next
<1> QED BY <1>2, <1>3 DEF Emit, Offer

LEMMA ReceiveRefines ==
  ASSUME IInv, NEW w \in Workers, Receive(w) PROVE UNCHANGED Delivery!vars
<1>1. Head(bus) \in Events /\ fate[Head(bus)] = "queued" BY HeadQueued DEF Receive
<1>2. fate \in [Events -> Fates] BY DEF IInv, TypeOK
<1>3. fateBar' = fateBar BY <1>1, <1>2 DEF Receive, fateBar
<1> QED BY <1>3, Stutters DEF Receive, senders

LEMMA LookupFailsRefines ==
  ASSUME IInv, NEW w \in Workers, NEW e \in Events, LookupFails(w, e) PROVE Delivery!Next
<1>1. fate \in [Events -> Fates] BY DEF IInv, TypeOK
<1>2. Delivery!Lose(e)
  BY <1>1 DEF LookupFails, Holds, Finish, senders, Delivery!Lose, Delivery!Decide
<1> QED BY <1>2 DEF Delivery!Next

LEMMA DeliverRefines ==
  ASSUME IInv, NEW w \in Workers, NEW e \in Events, Deliver(w, e) PROVE Delivery!Next
<1>1. fate \in [Events -> Fates] /\ Addressed(e) \in SUBSET Hooks
  BY DEF IInv, TypeOK, Addressed
<1>2. Delivery!FanOut(e, Addressed(e))
  BY <1>1 DEF Deliver, Holds, Finish, Delivery!FanOut, Delivery!Decide, Deliveries,
              Delivery!Deliveries
<1> QED BY <1>1, <1>2 DEF Delivery!Next

LEMMA SenderRefines ==
  ASSUME IInv, NEW d \in Deliveries, SenderStep(d) PROVE [Delivery!Next]_Delivery!vars
<1>1. PICK e \in Events, h \in Hooks : d = <<e, h>> BY DEF Deliveries
<1>2. Sender(e, h) /\ d \in Delivery!Deliveries
  BY <1>1 DEF IInv, SenderInv, Deliveries, Delivery!Deliveries
<1>3. /\ outcome \in [Deliveries -> Outcomes] /\ posts \in [Deliveries -> 0 .. Attempts]
      /\ UNCHANGED fateBar
  BY DEF IInv, TypeOK, SenderStep, BuildFails, Post, Answered, PostFails, queue, fateBar
<1>4. CASE BuildFails(d)
  <2>1. posts[d] = 0
    BY <1>1, <1>2, <1>3, <1>4 DEF BuildFails, Sleeping, Sender, Url
  <2>2. Delivery!Settle(d, "gaveUp")
    BY <1>3, <1>4, <2>1 DEF BuildFails, Sleeping, Delivery!Settle, fateBar
  <2> QED BY <1>2, <2>2 DEF Delivery!Next
<1>5. CASE Post(d)
  <2>1. Delivery!Post(d)
    BY <1>1, <1>2, <1>3, <1>5 DEF Post, Sleeping, Sender, Delivery!Post, fateBar
  <2> QED BY <1>2, <2>1 DEF Delivery!Next
<1>6. CASE Answered(d)
  <2>1. Delivery!Settle(d, "delivered")
    BY <1>1, <1>2, <1>3, <1>6 DEF Answered, InDo, Sender, Delivery!Settle, fateBar
  <2> QED BY <1>2, <2>1 DEF Delivery!Next
<1>7. CASE PostFails(d) /\ posts[d] < Attempts
  <2>1. UNCHANGED <<outcome, posts>>
    BY <1>3, <1>7 DEF PostFails, AfterFailure, InDo
  <2> QED BY <1>3, <2>1, Stutters
<1>8. CASE PostFails(d) /\ ~(posts[d] < Attempts)
  <2>1. posts[d] = Attempts BY <1>3, <1>8, ConstantsAssumption
  <2>2. Delivery!Settle(d, "gaveUp")
    BY <1>3, <1>8, <2>1 DEF PostFails, AfterFailure, InDo, Delivery!Settle, fateBar
  <2> QED BY <1>2, <2>2 DEF Delivery!Next
<1> QED BY <1>4, <1>5, <1>6, <1>7, <1>8 DEF SenderStep

LEMMA DieRefines == ASSUME IInv, Die PROVE Delivery!Next
<1>1. Delivery!Die
  BY DEF IInv, TypeOK, Die, Delivery!Die, Deliveries, Delivery!Deliveries
<1> QED BY <1>1 DEF Delivery!Next

LEMMA NextRefines == IInv /\ [Next]_vars => [Delivery!Next]_Delivery!vars
<1> SUFFICES ASSUME IInv, [Next]_vars PROVE [Delivery!Next]_Delivery!vars OBVIOUS
<1>1. CASE Api
  BY <1>1, Stutters
  DEF Api, InsertSession, DeleteSession, AddWebhook, DeleteWebhook, queue, senders, fateBar
<1>2. CASE \E e \in Events, s \in Sessions, k \in Kinds : Emit(e, s, k)
  BY <1>2, EmitRefines
<1>3. CASE \E w \in Workers : WorkerStep(w)
  <2>1. ASSUME NEW w \in Workers, WorkerReturn(w) PROVE UNCHANGED Delivery!vars
    BY <2>1, Stutters DEF WorkerReturn, queue, senders, fateBar
  <2> QED BY <1>3, <2>1, ReceiveRefines, DeliverRefines, LookupFailsRefines DEF WorkerStep
<1>4. CASE \E d \in Deliveries : SenderStep(d) BY <1>4, SenderRefines
<1>5. CASE Die BY <1>5, DieRefines
<1>6. CASE Cancel \/ Restart \/ UNCHANGED vars
  BY <1>6, Stutters DEF Cancel, Restart, vars, queue, senders, fateBar
<1> QED BY <1>1, <1>2, <1>3, <1>4, <1>5, <1>6 DEF Next

\* The dispatcher implements WebhookDelivery: an event is fanned out at most
\* once, and each hook gets at most Attempts posts of it, none after an answer.
THEOREM Implements == Spec => DeliveryPromises
BY InitRefines, NextRefines, Invariant, PTL DEF Spec, DeliveryPromises, Delivery!Spec
=============================================================================
