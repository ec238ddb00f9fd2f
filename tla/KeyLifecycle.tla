---------------------------- MODULE KeyLifecycle ----------------------------
(***************************************************************************)
(* What the API keys promise, however requests overlap and statements      *)
(* fail: a key works once, from its issue to its revocation, and a request *)
(* gets in only with the password or with a key that works at that         *)
(* moment.  Only requests that got in issue and revoke keys.               *)
(***************************************************************************)
CONSTANTS Requests, Keys, NoKey

VARIABLES
  state,  \* of each key: "new", "working" or "revoked"
  stage,  \* of each request: "idle", "asked" or "in"
  shown   \* the key a request came with

vars == <<state, stage, shown>>

Init ==
  /\ state = [k \in Keys |-> "new"]
  /\ stage = [r \in Requests |-> "idle"]
  /\ shown = [r \in Requests |-> NoKey]

Login(r) ==
  /\ stage[r] = "idle"
  /\ stage' = [stage EXCEPT ![r] = "in"]
  /\ UNCHANGED <<state, shown>>

Ask(r, k) ==
  /\ stage[r] = "idle"
  /\ stage' = [stage EXCEPT ![r] = "asked"]
  /\ shown' = [shown EXCEPT ![r] = k]
  /\ UNCHANGED state

LetIn(r) ==
  /\ stage[r] = "asked"
  /\ shown[r] \in Keys /\ state[shown[r]] = "working"
  /\ stage' = [stage EXCEPT ![r] = "in"]
  /\ UNCHANGED <<state, shown>>

End(r) ==
  /\ stage' = [stage EXCEPT ![r] = "idle"]
  /\ shown' = [shown EXCEPT ![r] = NoKey]

\* Refused, failed, or done with something else than keys.
Leave(r) == stage[r] # "idle" /\ End(r) /\ UNCHANGED state

Issue(r, k) ==
  /\ stage[r] = "in" /\ state[k] = "new"
  /\ state' = [state EXCEPT ![k] = "working"]
  /\ End(r)

\* A login goes on after it has revoked.
Revoke(r, K) ==
  /\ stage[r] = "in"
  /\ \A k \in K : state[k] = "working"
  /\ state' = [k \in Keys |-> IF k \in K THEN "revoked" ELSE state[k]]
  /\ End(r) \/ UNCHANGED <<stage, shown>>

Die ==
  /\ stage' = [r \in Requests |-> "idle"]
  /\ shown' = [r \in Requests |-> NoKey]
  /\ UNCHANGED state

Next ==
  \/ \E r \in Requests :
       \/ Login(r) \/ LetIn(r) \/ Leave(r)
       \/ \E k \in Keys \cup {NoKey} : Ask(r, k)
       \/ \E k \in Keys : Issue(r, k)
       \/ \E K \in SUBSET Keys : Revoke(r, K)
  \/ Die

Spec == Init /\ [][Next]_vars
=============================================================================
