-------------------------- MODULE WebhookDelivery ---------------------------
(***************************************************************************)
(* What webhook delivery promises of one event and one hook, whatever the  *)
(* queue, the workers and the sender goroutines do: an event is dropped,   *)
(* lost or fanned out, once; each hook it is fanned out to gets at most    *)
(* Attempts posts, and none after one was answered or after giving up.     *)
(***************************************************************************)
EXTENDS Naturals

CONSTANTS Events, Hooks, Attempts

VARIABLES fate, outcome, posts

vars == <<fate, outcome, posts>>

Deliveries == Events \X Hooks

Init ==
  /\ fate = [e \in Events |-> "new"]
  /\ outcome = [d \in Deliveries |-> "none"]
  /\ posts = [d \in Deliveries |-> 0]

Decide(e, from, to) == fate[e] = from /\ fate' = [fate EXCEPT ![e] = to]

Accept(e) == Decide(e, "new", "queued") /\ UNCHANGED <<outcome, posts>>
Drop(e) == Decide(e, "new", "dropped") /\ UNCHANGED <<outcome, posts>>
Lose(e) == Decide(e, "queued", "lost") /\ UNCHANGED <<outcome, posts>>

FanOut(e, H) ==
  /\ Decide(e, "queued", "fanned")
  /\ outcome' = [d \in Deliveries |-> IF d[1] = e /\ d[2] \in H THEN "trying" ELSE outcome[d]]
  /\ UNCHANGED posts

Post(d) ==
  /\ outcome[d] = "trying" /\ posts[d] < Attempts
  /\ posts' = [posts EXCEPT ![d] = @ + 1]
  /\ UNCHANGED <<fate, outcome>>

\* An answer needs a post; giving up after posting needs all of them.
Settle(d, to) ==
  /\ outcome[d] = "trying"
  /\ to = "delivered" => posts[d] > 0
  /\ to = "gaveUp" => posts[d] \in {0, Attempts}
  /\ outcome' = [outcome EXCEPT ![d] = to]
  /\ UNCHANGED <<fate, posts>>

\* The process dies: what it had accepted and not finished is over.
Die ==
  /\ fate' = [e \in Events |-> IF fate[e] = "queued" THEN "lost" ELSE fate[e]]
  /\ outcome' = [d \in Deliveries |-> IF outcome[d] = "trying" THEN "cut" ELSE outcome[d]]
  /\ UNCHANGED posts

Next ==
  \/ \E e \in Events : Accept(e) \/ Drop(e) \/ Lose(e) \/ \E H \in SUBSET Hooks : FanOut(e, H)
  \/ \E d \in Deliveries : Post(d) \/ \E to \in {"delivered", "gaveUp"} : Settle(d, to)
  \/ Die

Spec == Init /\ [][Next]_vars
=============================================================================
