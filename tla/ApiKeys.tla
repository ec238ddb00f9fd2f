------------------------------- MODULE ApiKeys ------------------------------
(***************************************************************************)
(* The API keys: the table, the login that rotates the admin key, the      *)
(* middleware that checks a request's key, and the handlers that create    *)
(* and delete keys.  One action is one statement of store.Repo or one      *)
(* decision between two of them; requests overlap at every statement.      *)
(*                                                                         *)
(* A key stands for its uuid, its SHA-256 and its row's id: each is drawn  *)
(* once (AUTOINCREMENT, UNIQUE key_hash).  last_used is left out: nothing  *)
(* reads it back but the listing.                                          *)
(***************************************************************************)
EXTENDS Naturals

CONSTANTS
  Threads,          \* request goroutines at once (a bound)
  Keys,             \* keys ever drawn (a bound)
  Names, AdminName, \* of keys; AdminName is "admin-session"
  NoKey, NoName,
  Faults,           \* what may fail: "db"
  MaxCrashes        \* deaths of the process (a bound)

ASSUME ConstantsAssumption ==
  /\ NoKey \notin Keys /\ AdminName \in Names /\ NoName \notin Names
  /\ Faults \subseteq {"db"} /\ MaxCrashes \in Nat

VARIABLES
  live,     \* keys with a row in api_keys
  name,     \* of each key ever inserted; it outlives the row
  answered, \* keys whose plaintext a client was given
  call,     \* where each request stands
  crashes,
  before    \* history: the keys inserted when the login that made a key began

table == <<live, name>>
vars == <<table, answered, call, crashes, before>>

Ops == {"other", "insert", "delete"}
Call == [pc : {"idle", "check", "touch", "rotate", "issue"} \cup Ops,
         key : Keys \cup {NoKey},  \* that the request showed
         op : Ops,                 \* what its handler will do
         since : SUBSET Keys]      \* of a login: the keys inserted when it began
Idle == [pc |-> "idle", key |-> NoKey, op |-> "other", since |-> {}]

TypeOK ==
  /\ live \subseteq Keys /\ answered \subseteq Keys
  /\ name \in [Keys -> Names \cup {NoName}]
  /\ call \in [Threads -> Call]
  /\ crashes \in 0 .. MaxCrashes
  /\ before \in [Keys -> SUBSET Keys]

Init ==
  /\ live = {} /\ answered = {}
  /\ name = [k \in Keys |-> NoName]
  /\ call = [t \in Threads |-> Idle]
  /\ crashes = 0
  /\ before = [k \in Keys |-> {}]

Inserted == {k \in Keys : name[k] # NoName}

Goto(t, pc) == call' = [call EXCEPT ![t].pc = pc]
Return(t) == call' = [call EXCEPT ![t] = Idle]

-----------------------------------------------------------------------------
(* Statements.  One that fails may have had its effect all the same. *)

AddAPIKey(k, n, since) ==
  /\ k \notin Inserted
  /\ name' = [name EXCEPT ![k] = n]
  /\ live' = live \cup {k}
  /\ before' = [before EXCEPT ![k] = since]

\* Mutant: the name is not looked at.
DeleteAllAPIKeys(n) == live' = {} /\ UNCHANGED <<name, before>>

DeleteAPIKeysByName(n) ==
  /\ live' = {k \in live : name[k] # n}
  /\ UNCHANGED <<name, before>>

DeleteAPIKey(k) ==
  /\ live' = live \ {k}
  /\ UNCHANGED <<name, before>>

NoEffect == UNCHANGED <<table, before>>

-----------------------------------------------------------------------------
(* handleLogin.  Bad JSON, wrong credentials and the rate limiter are    *)
(* answered before anything is touched, and are no step.                 *)

Login(t) ==
  /\ call[t].pc = "idle"
  /\ call' = [call EXCEPT ![t] = [Idle EXCEPT !.pc = "rotate", !.since = Inserted]]
  /\ UNCHANGED <<table, answered, crashes, before>>

\* Mutant: the login goes on when the DELETE failed.
LoginRotatesAnyway(t) ==
  /\ call[t].pc = "rotate"
  /\ DeleteAPIKeysByName(AdminName) \/ ("db" \in Faults /\ NoEffect)
  /\ Goto(t, "issue")
  /\ UNCHANGED <<answered, crashes>>

LoginRotates(t) ==
  /\ call[t].pc = "rotate"
  /\ \/ DeleteAPIKeysByName(AdminName) /\ Goto(t, "issue")
     \/ /\ "db" \in Faults
        /\ DeleteAPIKeysByName(AdminName) \/ NoEffect
        /\ Return(t)
  /\ UNCHANGED <<answered, crashes>>

\* Mutant: the answer shows a key whose INSERT failed.
LoginIssuesUnchecked(t) ==
  /\ call[t].pc = "issue"
  /\ \/ \E k \in Keys :
          /\ AddAPIKey(k, AdminName, call[t].since)
          /\ answered' = answered \cup {k}
     \/ "db" \in Faults /\ NoEffect /\ answered' = answered \cup {NoKey}
  /\ Return(t)
  /\ UNCHANGED crashes

LoginIssues(t) ==
  /\ call[t].pc = "issue"
  /\ \/ \E k \in Keys :
          /\ AddAPIKey(k, AdminName, call[t].since)
          /\ answered' = answered \cup {k}
     \/ /\ "db" \in Faults
        /\ NoEffect \/ \E k \in Keys : AddAPIKey(k, AdminName, call[t].since)
        /\ UNCHANGED answered
  /\ Return(t)
  /\ UNCHANGED crashes

-----------------------------------------------------------------------------
(* authMiddleware and the upgrade to a WebSocket: checkAPIKey *)

\* A request with a key some client was given, or with none that ever was.
Arrive(t) ==
  /\ call[t].pc = "idle"
  /\ \E k \in answered \cup {NoKey}, op \in Ops :
       call' = [call EXCEPT ![t] = [Idle EXCEPT !.pc = "check", !.key = k, !.op = op]]
  /\ UNCHANGED <<table, answered, crashes, before>>

\* Mutant: a key is looked for among those that were handed out.
CheckAgainstIssued(t) ==
  /\ call[t].pc = "check"
  /\ IF call[t].key \in answered THEN Goto(t, "touch") ELSE Return(t)
  /\ UNCHANGED <<table, answered, crashes, before>>

\* One SELECT of all keys decides.
CheckAPIKey(t) ==
  /\ call[t].pc = "check"
  /\ \/ call[t].key \in live /\ Goto(t, "touch")
     \/ (call[t].key \notin live \/ "db" \in Faults) /\ Return(t)
  /\ UNCHANGED <<table, answered, crashes, before>>

\* last_used is written, or not, and the handler begins; an "other" one leaves
\* the keys alone (listKeys is one).
TouchAPIKey(t) ==
  /\ call[t].pc = "touch"
  /\ IF call[t].op = "other" THEN Return(t) ELSE Goto(t, call[t].op)
  /\ UNCHANGED <<table, answered, crashes, before>>

-----------------------------------------------------------------------------
(* createKey and deleteKey *)

CreateKey(t) ==
  /\ call[t].pc = "insert"
  /\ \/ \E k \in Keys, n \in Names :
          /\ AddAPIKey(k, n, {})
          /\ answered' = answered \cup {k}
     \/ /\ "db" \in Faults
        /\ \E k \in Keys, n \in Names : AddAPIKey(k, n, {})
        /\ UNCHANGED answered
     \/ NoEffect /\ UNCHANGED answered \* "name required", or a failure
  /\ Return(t)
  /\ UNCHANGED crashes

\* The id may be of any row, of one that is gone, or of none.
DeleteKey(t) ==
  /\ call[t].pc = "delete"
  /\ NoEffect \/ \E k \in Keys : DeleteAPIKey(k)
  /\ Return(t)
  /\ UNCHANGED <<answered, crashes>>

Crash ==
  /\ crashes < MaxCrashes
  /\ crashes' = crashes + 1
  /\ call' = [t \in Threads |-> Idle]
  /\ UNCHANGED <<table, answered, before>>

-----------------------------------------------------------------------------
Step(t) ==
  \/ Login(t) \/ LoginRotates(t) \/ LoginIssues(t)
  \/ Arrive(t) \/ CheckAPIKey(t) \/ TouchAPIKey(t)
  \/ CreateKey(t) \/ DeleteKey(t)

Next == Crash \/ \E t \in Threads : Step(t)

Spec == Init /\ [][Next]_vars

-----------------------------------------------------------------------------
(* Properties *)

\* "delete any prior row then issue a fresh one" (handleLogin): a login leaves
\* no admin key alive that stood when it began, whatever fails in between
\* and whichever requests overlap; two admin keys live together only if
\* neither's login began after the other key was inserted.  (A login whose own
\* deletion fails issues nothing, and the earlier key stands.)
LoginsSupersede ==
  \A j, k \in live : name[j] = AdminName => j \notin before[k]

\* A key that createKey made under another name survives every login, and goes
\* only when a request that showed a working key deletes it.
OthersKeepTheirKeys ==
  [][\A k \in live \ live' :
       \E t \in Threads :
         \/ call[t].pc = "delete"
         \/ call[t].pc = "rotate" /\ name[k] = AdminName]_vars

\* A key works from its issue to its revocation and never again, and requests
\* get in, issue and revoke only as KeyLifecycle says: the DELETE and the INSERT
\* of a login, a check and the handler behind it may be torn apart at any
\* statement.
Lifecycle == INSTANCE KeyLifecycle WITH
  Requests <- Threads,
  state <- [k \in Keys |-> IF k \in live THEN "working"
                           ELSE IF name[k] # NoName THEN "revoked" ELSE "new"],
  stage <- [t \in Threads |-> CASE call[t].pc = "idle" -> "idle"
                                [] call[t].pc = "check" -> "asked"
                                [] OTHER -> "in"],
  shown <- [t \in Threads |-> call[t].key]
KeysHaveOneLife == Lifecycle!Spec
=============================================================================
