----------------------------- MODULE Dispatcher -----------------------------
(***************************************************************************)
(* webhook.Dispatcher: the bounded bus, the workers that look hooks up and *)
(* the sender goroutine of each (event, hook) with its retries; with the   *)
(* webhooks table of store.Repo, the API calls that change it, and the     *)
(* shutdown, death and restart of the process around them.                 *)
(*                                                                         *)
(* An event is its identity, session and kind.  app_sessions is the set of *)
(* names that have a row; what else it holds is Registry's.                *)
(***************************************************************************)
EXTENDS Naturals, Sequences

CONSTANTS
  Sessions, Kinds,
  Blank,         \* the empty string as an event name
  Lists,         \* the event lists that API calls give
  Urls,          \* "good", or "bad": http.NewRequest cannot parse it
  Events, Hooks, \* emissions, numbered in their order, and hook ids (bounds)
  Workers,
  Capacity,      \* of the bus (256 in the code)
  Attempts,      \* posts of a sender (3 in the code: the length of backoff)
  NoWorker, NoRow, NoEnvelope,
  Faults,        \* what may fail: "db"
  MaxDeaths      \* process deaths (a bound)

Row == [session : Sessions, url : Urls, events : SUBSET (Kinds \cup {Blank}), enabled : BOOLEAN]

ASSUME ConstantsAssumption ==
  /\ Events \subseteq Nat
  /\ Blank \notin Kinds /\ Lists \subseteq SUBSET (Kinds \cup {Blank})
  /\ Urls \subseteq {"good", "bad"}
  /\ Capacity \in Nat \ {0} /\ Attempts \in Nat \ {0} /\ MaxDeaths \in Nat
  /\ Faults \subseteq {"db"} /\ NoWorker \notin Workers /\ NoRow \notin Row

VARIABLES
  sessions,       \* names with a row in app_sessions
  hook,           \* the row inserted under each id; it outlives its deletion
  live,           \* the ids whose row is in the table
  envelope,       \* the events emitted
  bus,
  fate, holder,   \* of each event: how far it got, the worker that has it
  active,         \* workers whose goroutine runs
  outcome, posts, \* the sender of each (event, hook)
  inFlight,       \* senders waiting in client.Do
  process, deaths,
  dismissed,      \* history: ids deleted by their id or with their session
  known           \* history: ids inserted, and ids dismissed, at each emission

table == <<sessions, hook, live, dismissed>>
queue == <<envelope, bus, fate, holder, known>>
senders == <<outcome, posts, inFlight>>
vars == <<table, queue, active, senders, process, deaths>>

Deliveries == Events \X Hooks
Fates == {"new", "dropped", "queued", "held", "lost", "fanned"}
Outcomes == {"none", "trying", "delivered", "gaveUp", "cut"}

TypeOK ==
  /\ sessions \subseteq Sessions
  /\ hook \in [Hooks -> Row \cup {NoRow}]
  /\ live \subseteq Hooks /\ dismissed \subseteq Hooks
  /\ envelope \in [Events -> [session : Sessions, kind : Kinds] \cup {NoEnvelope}]
  /\ bus \in Seq(Events) /\ Len(bus) <= Capacity
  /\ fate \in [Events -> Fates] /\ holder \in [Events -> Workers \cup {NoWorker}]
  /\ active \subseteq Workers
  /\ outcome \in [Deliveries -> Outcomes] /\ posts \in [Deliveries -> 0 .. Attempts]
  /\ inFlight \subseteq Deliveries
  /\ process \in {"up", "stopping", "down"} /\ deaths \in 0 .. MaxDeaths
  /\ known \in [Events -> [ever : SUBSET Hooks, dismissed : SUBSET Hooks]]

Init ==
  /\ sessions = {} /\ hook = [h \in Hooks |-> NoRow] /\ live = {} /\ dismissed = {}
  /\ envelope = [e \in Events |-> NoEnvelope]
  /\ bus = <<>>
  /\ fate = [e \in Events |-> "new"] /\ holder = [e \in Events |-> NoWorker]
  /\ active = Workers
  /\ outcome = [d \in Deliveries |-> "none"] /\ posts = [d \in Deliveries |-> 0]
  /\ inFlight = {}
  /\ process = "up" /\ deaths = 0
  /\ known = [e \in Events |-> [ever |-> {}, dismissed |-> {}]]

Unused == {h \in Hooks : hook[h] = NoRow}

-----------------------------------------------------------------------------
(* The tables.  Requests under way when the process is told to stop are  *)
(* still answered.                                                       *)

Dismiss(H) == dismissed' = dismissed \cup H

InsertSession(s) ==
  /\ process # "down"
  /\ sessions' = sessions \cup {s}
  /\ UNCHANGED <<hook, live, dismissed, queue, active, senders, process, deaths>>

\* Mutant: webhooks has no ON DELETE CASCADE.
DeleteSessionKeepsHooks(s) ==
  /\ process # "down" /\ s \in sessions
  /\ sessions' = sessions \ {s}
  /\ Dismiss({h \in live : hook[h].session = s})
  /\ UNCHANGED <<hook, live, queue, active, senders, process, deaths>>

\* The foreign key deletes the session's hooks with it.
DeleteSession(s) ==
  /\ process # "down" /\ s \in sessions
  /\ sessions' = sessions \ {s}
  /\ live' = {h \in live : hook[h].session # s}
  /\ Dismiss({h \in live : hook[h].session = s})
  /\ UNCHANGED <<hook, queue, active, senders, process, deaths>>

\* strings.Join, stored, and split again: the list [""] comes back empty.
Stored(list) == IF list = {Blank} THEN {} ELSE list

\* AUTOINCREMENT gives an id that no row had before; the foreign key wants the
\* session.  Nothing checks that the URL can be used.
AddWebhook(h, row) ==
  /\ process # "down"
  /\ h \in Unused /\ row.session \in sessions
  /\ hook' = [hook EXCEPT ![h] = [row EXCEPT !.events = Stored(row.events)]]
  /\ live' = live \cup {h}
  /\ UNCHANGED <<sessions, dismissed, queue, active, senders, process, deaths>>

DeleteWebhook(h) ==
  /\ process # "down" /\ h \in live
  /\ live' = live \ {h}
  /\ Dismiss({h})
  /\ UNCHANGED <<sessions, hook, queue, active, senders, process, deaths>>

-----------------------------------------------------------------------------
(* The bus *)

\* Mutant: the bus grows past its capacity.
EmitAlways(e) == bus' = Append(bus, e) /\ fate' = [fate EXCEPT ![e] = "queued"]

\* A full bus drops the event: Emit never blocks the session that calls it.
Offer(e) ==
  \/ /\ Len(bus) < Capacity
     /\ bus' = Append(bus, e)
     /\ fate' = [fate EXCEPT ![e] = "queued"]
  \/ /\ Len(bus) = Capacity
     /\ fate' = [fate EXCEPT ![e] = "dropped"]
     /\ UNCHANGED bus

\* Emission is by name: the session need not have a row any more.
Emit(e, s, k) ==
  /\ process # "down" /\ fate[e] = "new"
  /\ \A d \in Events : d < e => fate[d] # "new"
  /\ envelope' = [envelope EXCEPT ![e] = [session |-> s, kind |-> k]]
  /\ known' = [known EXCEPT ![e] = [ever |-> Hooks \ Unused, dismissed |-> dismissed]]
  /\ Offer(e)
  /\ UNCHANGED <<table, holder, active, senders, process, deaths>>

-----------------------------------------------------------------------------
(* The workers *)

Holds(w, e) == fate[e] = "held" /\ holder[e] = w
Waiting(w) == w \in active /\ \A e \in Events : ~Holds(w, e)

\* With both channels ready, select takes either: an event may still be
\* received after the context was cancelled.
Receive(w) ==
  /\ process # "down" /\ Waiting(w) /\ bus # <<>>
  /\ bus' = Tail(bus)
  /\ fate' = [fate EXCEPT ![Head(bus)] = "held"]
  /\ holder' = [holder EXCEPT ![Head(bus)] = w]
  /\ UNCHANGED <<table, envelope, known, active, senders, process, deaths>>

\* Mutant: the worker returns when it finds nothing to do.
WorkerReturnsIdle(w) ==
  /\ process = "stopping" \/ bus = <<>>
  /\ Waiting(w)
  /\ active' = active \ {w}
  /\ UNCHANGED <<table, queue, senders, process, deaths>>

WorkerReturn(w) ==
  /\ process = "stopping" /\ Waiting(w)
  /\ active' = active \ {w}
  /\ UNCHANGED <<table, queue, senders, process, deaths>>

\* Mutant: a disabled hook is addressed too.
AddressedDisabled(e) ==
  {h \in live : /\ hook[h].session = envelope[e].session
                /\ hook[h].events # {} => envelope[e].kind \in hook[h].events}

\* The rows ListWebhooksBySession returns that pass deliver's two filters.
Addressed(e) ==
  {h \in live : /\ hook[h].session = envelope[e].session
                /\ hook[h].enabled
                /\ hook[h].events # {} => envelope[e].kind \in hook[h].events}

Finish(e, result) ==
  /\ fate' = [fate EXCEPT ![e] = result]
  /\ holder' = [holder EXCEPT ![e] = NoWorker]

\* One query, then a goroutine per hook.
Deliver(w, e) ==
  /\ process = "up" /\ Holds(w, e)
  /\ Finish(e, "fanned")
  /\ outcome' = [d \in Deliveries |->
                   IF d[1] = e /\ d[2] \in Addressed(e) THEN "trying" ELSE outcome[d]]
  /\ UNCHANGED <<table, envelope, bus, known, active, posts, inFlight, process, deaths>>

\* A query that fails loses the event: on an error of the database, or, its
\* context being the workers', always once that is cancelled.
LookupFails(w, e) ==
  /\ process = "stopping" \/ (process = "up" /\ "db" \in Faults)
  /\ Holds(w, e)
  /\ Finish(e, "lost")
  /\ UNCHANGED <<table, envelope, bus, known, active, senders, process, deaths>>

-----------------------------------------------------------------------------
(* send: a goroutine of its own, which no context stops *)

Sleeping(d) == process # "down" /\ outcome[d] = "trying" /\ d \notin inFlight
InDo(d) == process # "down" /\ outcome[d] = "trying" /\ d \in inFlight

Url(d) == hook[d[2]].url

BuildFails(d) ==
  /\ Sleeping(d) /\ Url(d) = "bad"
  /\ outcome' = [outcome EXCEPT ![d] = "gaveUp"]
  /\ UNCHANGED <<table, queue, active, posts, inFlight, process, deaths>>

\* Mutant: the attempts are not counted.
PostUncounted(d) ==
  /\ Sleeping(d) /\ Url(d) = "good"
  /\ inFlight' = inFlight \cup {d}
  /\ UNCHANGED <<table, queue, active, outcome, posts, process, deaths>>

Post(d) ==
  /\ Sleeping(d) /\ Url(d) = "good"
  /\ posts' = [posts EXCEPT ![d] = @ + 1] /\ inFlight' = inFlight \cup {d}
  /\ UNCHANGED <<table, queue, active, outcome, process, deaths>>

\* Any status below 500 ends the sender.
Answered(d) ==
  /\ InDo(d)
  /\ outcome' = [outcome EXCEPT ![d] = "delivered"] /\ inFlight' = inFlight \ {d}
  /\ UNCHANGED <<table, queue, active, posts, process, deaths>>

\* Mutant: one attempt more than the table of waits has.
RetriesOnceMore(d) == IF posts[d] <= Attempts THEN "trying" ELSE "gaveUp"

AfterFailure(d) == IF posts[d] < Attempts THEN "trying" ELSE "gaveUp"

\* A status of 500 or more, a refused connection, or no answer in time; the
\* endpoint may have handled the request in each case.
PostFails(d) ==
  /\ InDo(d)
  /\ outcome' = [outcome EXCEPT ![d] = AfterFailure(d)] /\ inFlight' = inFlight \ {d}
  /\ UNCHANGED <<table, queue, active, posts, process, deaths>>

-----------------------------------------------------------------------------
(* The process *)

\* SIGTERM, or the HTTP server stopped: the context of the workers is cancelled.
Cancel ==
  /\ process = "up" /\ deaths < MaxDeaths
  /\ process' = "stopping"
  /\ UNCHANGED <<table, queue, active, senders, deaths>>

\* main() returns, or the process is killed.  Nothing of the bus is saved.
Die ==
  /\ process # "down" /\ deaths < MaxDeaths
  /\ process' = "down" /\ deaths' = deaths + 1
  /\ bus' = <<>> /\ active' = {} /\ inFlight' = {}
  /\ fate' = [e \in Events |-> IF fate[e] \in {"queued", "held"} THEN "lost" ELSE fate[e]]
  /\ holder' = [e \in Events |-> NoWorker]
  /\ outcome' = [d \in Deliveries |-> IF outcome[d] = "trying" THEN "cut" ELSE outcome[d]]
  /\ UNCHANGED <<table, envelope, known, posts>>

Restart ==
  /\ process = "down"
  /\ process' = "up" /\ active' = Workers
  /\ UNCHANGED <<table, queue, senders, deaths>>

-----------------------------------------------------------------------------
Api ==
  \/ \E s \in Sessions : InsertSession(s) \/ DeleteSession(s)
  \/ \E h \in Hooks, s \in Sessions, u \in Urls, l \in Lists, on \in BOOLEAN :
       AddWebhook(h, [session |-> s, url |-> u, events |-> l, enabled |-> on])
  \/ \E h \in Hooks : DeleteWebhook(h)

WorkerStep(w) ==
  \/ Receive(w) \/ WorkerReturn(w)
  \/ \E e \in Events : Deliver(w, e) \/ LookupFails(w, e)

SenderStep(d) == BuildFails(d) \/ Post(d) \/ Answered(d) \/ PostFails(d)

Next ==
  \/ Api
  \/ \E e \in Events, s \in Sessions, k \in Kinds : Emit(e, s, k)
  \/ \E w \in Workers : WorkerStep(w)
  \/ \E d \in Deliveries : SenderStep(d)
  \/ Cancel \/ Die \/ Restart

Spec == Init /\ [][Next]_vars

\* Goroutines are scheduled; sleeps end; the http.Client gives up after 15 s.
\* Nothing obliges an endpoint to answer well, or a stopping process to exit.
Fairness ==
  /\ \A w \in Workers : WF_vars(WorkerStep(w))
  /\ \A d \in Deliveries : WF_vars(SenderStep(d))

FairSpec == Spec /\ Fairness

-----------------------------------------------------------------------------
(* Properties *)

\* A hook deleted before an event was emitted is never sent that event: not when
\* it went with its session and a new session took the name, and not
\* after a restart (ON DELETE CASCADE and AUTOINCREMENT in 0001_init.sql, with
\* the lookup that deliver makes after the emission).
DeletedHookHearsNothing ==
  \A e \in Events, h \in Hooks :
    outcome[<<e, h>>] # "none" => h \notin known[e].dismissed

\* Of the hooks that stood from the emission of an event to its fan-out, exactly
\* those of its session that are enabled and list its kind, or list nothing,
\* get a sender, whatever was added, deleted, dropped or cancelled meanwhile.
SubscribersAddressed ==
  \A e \in Events : fate[e] = "fanned" =>
    \A h \in known[e].ever \ dismissed :
      outcome[<<e, h>>] # "none" <=>
        /\ hook[h].enabled /\ hook[h].session = envelope[e].session
        /\ hook[h].events = {} \/ envelope[e].kind \in hook[h].events

\* The dispatcher keeps the promises of WebhookDelivery: an event is fanned out
\* once although any worker may receive it, and a sender stops at its answer.
Delivery == INSTANCE WebhookDelivery WITH
  fate <- [e \in Events |-> IF fate[e] = "held" THEN "queued" ELSE fate[e]]
DeliveryPromises == Delivery!Spec

\* While the process runs, slow or dead endpoints and failing lookups never keep
\* the workers from an event that the bus accepted.
QueuedIsHandled ==
  \A e \in Events : fate[e] = "queued" ~> fate[e] \in {"lost", "fanned"} \/ process # "up"

\* Every sender comes to an end, also of a hook deleted while it retries and
\* of a process that is asked to stop.
SendersEnd ==
  \A d \in Deliveries : outcome[d] = "trying" ~> outcome[d] # "trying"
=============================================================================
