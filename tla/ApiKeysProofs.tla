--------------------------- MODULE ApiKeysProofs ----------------------------
(***************************************************************************)
(* For any number of requests, keys, names and crashes, ApiKeys keeps its  *)
(* types, a login supersedes the admin keys it found, other keys stay, and *)
(* the whole implements KeyLifecycle.  The invariant says that what a      *)
(* login remembers are keys that were inserted, and that once it has       *)
(* deleted the admin keys it found, none of them comes back.               *)
(***************************************************************************)
EXTENDS ApiKeys, TLAPS

InsertedInv ==
  /\ live \subseteq Inserted
  /\ \A t \in Threads : call[t].since \subseteq Inserted
  /\ \A k \in Keys : before[k] \subseteq Inserted

\* No admin key lives that a login about to insert its own has found.
RotatedInv ==
  \A t \in Threads : call[t].pc = "issue" =>
    \A j \in live : name[j] = AdminName => j \notin call[t].since

IInv == TypeOK /\ InsertedInv /\ RotatedInv /\ LoginsSupersede

LEMMA IdleIsCall == Idle \in Call /\ Idle.pc = "idle" /\ Idle.since = {}
BY DEF Idle, Call, Ops

LEMMA InitIInv == Init => IInv
<1> SUFFICES ASSUME Init PROVE IInv OBVIOUS
<1> USE ConstantsAssumption, IdleIsCall DEF Init
<1>1. TypeOK BY DEF TypeOK
<1>2. InsertedInv BY DEF InsertedInv
<1>3. RotatedInv /\ LoginsSupersede BY DEF RotatedInv, LoginsSupersede
<1> QED BY <1>1, <1>2, <1>3 DEF IInv

-----------------------------------------------------------------------------
(* What a step may do to the table, and to the requests, and keep IInv *)

\* Rows only go.
Shrinks == live' \subseteq live /\ UNCHANGED <<name, before>>

\* A request ends, or begins, or goes on without new memories.
Proceeds(t) ==
  \E c \in Call :
    /\ call' = [call EXCEPT ![t] = c]
    /\ c.since \subseteq call[t].since
    /\ c.pc # "issue" \/ c = call[t]

LEMMA GotoProceeds ==
  ASSUME IInv, NEW t \in Threads, NEW pc \in {"touch"} \cup Ops, Goto(t, pc) PROVE Proceeds(t)
<1>1. call[t] \in Call BY DEF IInv, TypeOK
<1>2. [call[t] EXCEPT !.pc = pc] \in Call BY <1>1 DEF Call, Ops
<1>3. pc # "issue" BY DEF Ops
<1> QED BY <1>1, <1>2, <1>3 DEF Goto, Proceeds, Call

LEMMA ReturnProceeds == ASSUME NEW t \in Threads, Return(t) PROVE Proceeds(t)
BY IdleIsCall DEF Return, Proceeds

LEMMA StepKept ==
  ASSUME IInv, NEW t \in Threads, Proceeds(t), Shrinks,
         answered' \subseteq Keys, UNCHANGED crashes
  PROVE  IInv'
<1>1. PICK c \in Call : /\ call' = [call EXCEPT ![t] = c]
                        /\ c.since \subseteq call[t].since
                        /\ c.pc # "issue" \/ c = call[t]
  BY DEF Proceeds
<1>2. TypeOK' BY <1>1 DEF IInv, TypeOK, Shrinks
<1>3. Inserted' = Inserted BY DEF Inserted, Shrinks
<1>4. InsertedInv'
  BY <1>1, <1>3 DEF IInv, TypeOK, InsertedInv, Shrinks
<1>5. RotatedInv' BY <1>1 DEF IInv, TypeOK, RotatedInv, Shrinks
<1>6. LoginsSupersede' BY DEF IInv, LoginsSupersede, Shrinks
<1> QED BY <1>2, <1>4, <1>5, <1>6 DEF IInv

\* A new key, with what its maker remembers; the maker is done.
LEMMA AddKept ==
  ASSUME IInv, NEW t \in Threads, NEW k \in Keys, NEW n \in Names, NEW S \in {{}, call[t].since},
         S = {} \/ call[t].pc = "issue",
         AddAPIKey(k, n, S), Return(t), answered' \subseteq Keys, UNCHANGED crashes
  PROVE  IInv'
<1> USE DEF AddAPIKey
<1>1. S \subseteq Inserted /\ Inserted \subseteq Keys
  BY DEF IInv, InsertedInv, Inserted
<1>2. call' = [call EXCEPT ![t] = Idle] BY DEF Return
<1>3. TypeOK' BY <1>1, <1>2, IdleIsCall DEF IInv, TypeOK
<1>4. Inserted' = Inserted \cup {k}
  BY ConstantsAssumption DEF IInv, TypeOK, Inserted
<1>5. InsertedInv'
  BY <1>1, <1>2, <1>4, IdleIsCall DEF IInv, TypeOK, InsertedInv
<1>6. \A j \in live : j # k /\ name'[j] = name[j]
  BY DEF IInv, TypeOK, InsertedInv
<1>7. RotatedInv'
  <2> SUFFICES ASSUME NEW u \in Threads, call'[u].pc = "issue", NEW j \in live', name'[j] = AdminName
               PROVE  j \notin call'[u].since
    BY DEF RotatedInv
  <2>1. call'[u] = call[u] /\ call[u].since \subseteq Inserted
    BY <1>2, IdleIsCall DEF IInv, TypeOK, InsertedInv
  <2> QED BY <1>6, <2>1 DEF IInv, RotatedInv
<1>8. LoginsSupersede'
  <2> SUFFICES ASSUME NEW i \in live', NEW j \in live', name'[i] = AdminName
               PROVE  i \notin before'[j]
    BY DEF LoginsSupersede
  <2>1. CASE j = k
    <3>1. before'[j] = S BY <2>1 DEF IInv, TypeOK
    <3> QED BY <1>1, <1>6, <3>1 DEF IInv, RotatedInv
  <2>2. CASE j # k
    <3>1. before'[j] = before[j] /\ j \in live /\ before[j] \subseteq Inserted
      BY <2>2 DEF IInv, TypeOK, InsertedInv
    <3> QED BY <1>6, <3>1 DEF IInv, LoginsSupersede
  <2> QED BY <2>1, <2>2
<1> QED BY <1>3, <1>5, <1>7, <1>8 DEF IInv

-----------------------------------------------------------------------------
(* One lemma per action *)

LEMMA NoEffectShrinks == NoEffect => Shrinks
BY DEF NoEffect, Shrinks, table

LEMMA DeleteByNameShrinks == \A n : DeleteAPIKeysByName(n) => Shrinks
BY DEF DeleteAPIKeysByName, Shrinks

LEMMA LoginKept == ASSUME IInv, NEW t \in Threads, Login(t) PROVE IInv'
<1> DEFINE c == [Idle EXCEPT !.pc = "rotate", !.since = Inserted]
<1>1. c \in Call /\ c.pc = "rotate" /\ c.since = Inserted
  BY DEF Idle, Call, Ops, Inserted
<1>2. /\ call' = [call EXCEPT ![t] = c]
      /\ UNCHANGED <<live, name, answered, crashes, before>>
  BY DEF Login, table
<1> HIDE DEF c
<1>3. Inserted' = Inserted BY <1>2 DEF Inserted
<1>4. TypeOK' BY <1>1, <1>2 DEF IInv, TypeOK
<1>5. InsertedInv' BY <1>1, <1>2, <1>3 DEF IInv, TypeOK, InsertedInv
<1>6. RotatedInv' BY <1>1, <1>2 DEF IInv, TypeOK, RotatedInv
<1>7. LoginsSupersede' BY <1>2 DEF IInv, LoginsSupersede
<1> QED BY <1>4, <1>5, <1>6, <1>7 DEF IInv

LEMMA LoginRotatesKept == ASSUME IInv, NEW t \in Threads, LoginRotates(t) PROVE IInv'
<1>1. answered' \subseteq Keys /\ UNCHANGED crashes
  BY DEF LoginRotates, IInv, TypeOK
<1>2. CASE DeleteAPIKeysByName(AdminName) /\ Goto(t, "issue")
  <2> USE DEF DeleteAPIKeysByName
  <2>1. call[t] \in Call /\ call' = [call EXCEPT ![t] = [call[t] EXCEPT !.pc = "issue"]]
    BY <1>2 DEF Goto, IInv, TypeOK
  <2> DEFINE c == [call[t] EXCEPT !.pc = "issue"]
  <2>2. c \in Call /\ c.since = call[t].since BY <2>1 DEF Call
  <2>3. call' = [call EXCEPT ![t] = c] BY <2>1
  <2> HIDE DEF c
  <2>4. TypeOK' BY <1>1, <1>2, <2>2, <2>3 DEF IInv, TypeOK
  <2>5. Inserted' = Inserted BY <1>2 DEF Inserted
  <2>6. InsertedInv' BY <1>2, <2>2, <2>3, <2>5 DEF IInv, TypeOK, InsertedInv
  <2>7. \A j \in live' : name'[j] # AdminName BY <1>2
  <2>8. RotatedInv' /\ LoginsSupersede' BY <2>7 DEF RotatedInv, LoginsSupersede
  <2> QED BY <2>4, <2>6, <2>8 DEF IInv
<1>3. CASE (DeleteAPIKeysByName(AdminName) \/ NoEffect) /\ Return(t)
  BY <1>1, <1>3, StepKept, ReturnProceeds, NoEffectShrinks, DeleteByNameShrinks
<1> QED BY <1>2, <1>3 DEF LoginRotates

LEMMA LoginIssuesKept == ASSUME IInv, NEW t \in Threads, LoginIssues(t) PROVE IInv'
<1>1. Return(t) /\ UNCHANGED crashes /\ call[t].pc = "issue" /\ answered' \subseteq Keys
  BY DEF LoginIssues, IInv, TypeOK
<1>2. CASE \E k \in Keys : AddAPIKey(k, AdminName, call[t].since)
  BY <1>1, <1>2, AddKept, ConstantsAssumption
<1>3. CASE NoEffect BY <1>1, <1>3, StepKept, ReturnProceeds, NoEffectShrinks
<1> QED BY <1>2, <1>3 DEF LoginIssues

LEMMA ArriveKept == ASSUME IInv, NEW t \in Threads, Arrive(t) PROVE IInv'
<1>1. PICK k \in answered \cup {NoKey}, op \in Ops :
        call' = [call EXCEPT ![t] = [Idle EXCEPT !.pc = "check", !.key = k, !.op = op]]
  BY DEF Arrive
<1> DEFINE c == [Idle EXCEPT !.pc = "check", !.key = k, !.op = op]
<1>2. c \in Call /\ c.pc = "check" /\ c.since = {}
  BY DEF IInv, TypeOK, Idle, Call
<1>3. Proceeds(t) BY <1>1, <1>2 DEF Proceeds
<1> QED BY <1>3, StepKept DEF Arrive, Shrinks, table, IInv, TypeOK

LEMMA CheckKept == ASSUME IInv, NEW t \in Threads, CheckAPIKey(t) PROVE IInv'
<1>1. Proceeds(t) BY GotoProceeds, ReturnProceeds DEF CheckAPIKey
<1> QED BY <1>1, StepKept DEF CheckAPIKey, Shrinks, table, IInv, TypeOK

LEMMA TouchKept == ASSUME IInv, NEW t \in Threads, TouchAPIKey(t) PROVE IInv'
<1>1. call[t].op \in Ops BY DEF IInv, TypeOK, Call
<1>2. Proceeds(t) BY <1>1, GotoProceeds, ReturnProceeds DEF TouchAPIKey
<1> QED BY <1>2, StepKept DEF TouchAPIKey, Shrinks, table, IInv, TypeOK

LEMMA CreateKept == ASSUME IInv, NEW t \in Threads, CreateKey(t) PROVE IInv'
<1>1. Return(t) /\ UNCHANGED crashes /\ answered' \subseteq Keys
  BY DEF CreateKey, IInv, TypeOK
<1>2. CASE \E k \in Keys, n \in Names : AddAPIKey(k, n, {}) BY <1>1, <1>2, AddKept
<1>3. CASE NoEffect BY <1>1, <1>3, StepKept, ReturnProceeds, NoEffectShrinks
<1> QED BY <1>2, <1>3 DEF CreateKey

LEMMA DeleteKept == ASSUME IInv, NEW t \in Threads, DeleteKey(t) PROVE IInv'
<1>1. Shrinks BY NoEffectShrinks DEF DeleteKey, DeleteAPIKey, Shrinks
<1> QED BY <1>1, StepKept, ReturnProceeds DEF DeleteKey, IInv, TypeOK

LEMMA CrashKept == ASSUME IInv, Crash PROVE IInv'
<1> USE IdleIsCall
<1>1. call' = [t \in Threads |-> Idle] /\ UNCHANGED <<live, name, answered, before>>
  BY DEF Crash, table
<1>2. crashes' \in 0 .. MaxCrashes BY ConstantsAssumption DEF Crash, IInv, TypeOK
<1>3. TypeOK' BY <1>1, <1>2 DEF IInv, TypeOK
<1>4. Inserted' = Inserted BY <1>1 DEF Inserted
<1>5. InsertedInv' BY <1>1, <1>4 DEF IInv, InsertedInv
<1>6. RotatedInv' BY <1>1 DEF RotatedInv
<1>7. LoginsSupersede' BY <1>1 DEF IInv, LoginsSupersede
<1> QED BY <1>3, <1>5, <1>6, <1>7 DEF IInv

LEMMA NextIInv == IInv /\ [Next]_vars => IInv'
<1> SUFFICES ASSUME IInv, [Next]_vars PROVE IInv' OBVIOUS
<1>1. ASSUME NEW t \in Threads, Step(t) PROVE IInv'
  BY <1>1, LoginKept, LoginRotatesKept, LoginIssuesKept, ArriveKept, CheckKept, TouchKept,
     CreateKept, DeleteKept DEF Step
<1>2. CASE UNCHANGED vars
  BY <1>2 DEF vars, table, IInv, TypeOK, InsertedInv, RotatedInv, LoginsSupersede, Inserted
<1> QED BY <1>1, <1>2, CrashKept DEF Next

LEMMA Invariant == Spec => []IInv
BY InitIInv, NextIInv, PTL DEF Spec

-----------------------------------------------------------------------------
(* The theorems *)

\* Every variable keeps its type.
THEOREM TypeCorrect == Spec => []TypeOK
<1>1. IInv => TypeOK BY DEF IInv
<1> QED BY <1>1, Invariant, PTL

\* A login leaves no admin key alive that it found, however logins overlap
\* and whichever of its two statements fails (handleLogin).
THEOREM LoginsSuperseded == Spec => []LoginsSupersede
<1>1. IInv => LoginsSupersede BY DEF IInv
<1> QED BY <1>1, Invariant, PTL

LEMMA StepKeepsOthers ==
  ASSUME NEW t \in Threads, Step(t), NEW k \in live \ live'
  PROVE  call[t].pc = "delete" \/ (call[t].pc = "rotate" /\ name[k] = AdminName)
<1> USE DEF table, NoEffect, AddAPIKey
<1>1. CASE Login(t) BY <1>1 DEF Login
<1>2. CASE LoginRotates(t) BY <1>2 DEF LoginRotates, DeleteAPIKeysByName
<1>3. CASE LoginIssues(t) BY <1>3 DEF LoginIssues
<1>4. CASE Arrive(t) \/ CheckAPIKey(t) \/ TouchAPIKey(t)
  BY <1>4 DEF Arrive, CheckAPIKey, TouchAPIKey
<1>5. CASE CreateKey(t) BY <1>5 DEF CreateKey
<1>6. CASE DeleteKey(t) BY <1>6 DEF DeleteKey
<1> QED BY <1>1, <1>2, <1>3, <1>4, <1>5, <1>6 DEF Step

\* A login takes only keys of the admin's name with it; any other key goes by
\* deleteKey alone.
THEOREM OthersKept == Spec => OthersKeepTheirKeys
<1> DEFINE Kept == \A k \in live \ live' :
      \E t \in Threads :
        \/ call[t].pc = "delete"
        \/ call[t].pc = "rotate" /\ name[k] = AdminName
<1>1. [Next]_vars => [Kept]_vars
  <2> SUFFICES ASSUME Next PROVE Kept OBVIOUS
  <2>1. CASE Crash BY <2>1 DEF Crash, table
  <2>2. CASE \E t \in Threads : Step(t) BY <2>2, StepKeepsOthers
  <2> QED BY <2>1, <2>2 DEF Next
<1> QED BY <1>1, PTL DEF Spec, OthersKeepTheirKeys
-----------------------------------------------------------------------------
(* The refinement of KeyLifecycle *)

stateBar == [k \in Keys |-> IF k \in live THEN "working"
                            ELSE IF name[k] # NoName THEN "revoked" ELSE "new"]
stageBar == [t \in Threads |-> CASE call[t].pc = "idle" -> "idle"
                                 [] call[t].pc = "check" -> "asked"
                                 [] OTHER -> "in"]
shownBar == [t \in Threads |-> call[t].key]

LEMMA Stutters ==
  ASSUME UNCHANGED <<stateBar, stageBar, shownBar>> PROVE UNCHANGED Lifecycle!vars
BY DEF Lifecycle!vars, stateBar, stageBar, shownBar

LEMMA InitRefines == Init => Lifecycle!Init
BY DEF Init, Lifecycle!Init, Idle

LEMMA TableBar == ASSUME UNCHANGED table PROVE UNCHANGED stateBar
BY DEF table, stateBar

LEMMA ReturnBar ==
  ASSUME IInv, NEW t \in Threads, Return(t)
  PROVE  /\ stageBar' = [stageBar EXCEPT ![t] = "idle"]
         /\ shownBar' = [shownBar EXCEPT ![t] = NoKey]
BY DEF Return, Idle, stageBar, shownBar, IInv, TypeOK

LEMMA GotoBar ==
  ASSUME IInv, NEW t \in Threads, NEW pc \in {"touch", "issue"} \cup Ops, Goto(t, pc)
  PROVE  /\ stageBar' = [stageBar EXCEPT ![t] = "in"]
         /\ UNCHANGED shownBar
<1>1. call[t] \in Call BY DEF IInv, TypeOK
<1>2. call' = [call EXCEPT ![t] = [call[t] EXCEPT !.pc = pc]] /\ call \in [Threads -> Call]
  BY DEF Goto, IInv, TypeOK
<1>3. pc # "idle" /\ pc # "check" BY DEF Ops
<1>4. /\ call'[t].pc = pc /\ call'[t].key = call[t].key
      /\ \A u \in Threads : u # t => call'[u] = call[u]
  BY <1>1, <1>2 DEF Call
<1> QED BY <1>3, <1>4 DEF stageBar, shownBar

\* An idle request shows no key.
IdleInv == \A t \in Threads : call[t].pc = "idle" => call[t].key = NoKey

LEMMA NextIdleInv == IInv /\ IdleInv /\ [Next]_vars => IdleInv'
<1> SUFFICES ASSUME IInv, IdleInv, [Next]_vars PROVE IdleInv' OBVIOUS
<1>1. ASSUME NEW t \in Threads, Return(t) PROVE IdleInv'
  BY <1>1 DEF Return, Idle, IdleInv, IInv, TypeOK
<1>2. ASSUME NEW t \in Threads, NEW pc \in {"touch", "issue"} \cup Ops, Goto(t, pc) PROVE IdleInv'
  <2>1. pc # "idle" BY DEF Ops
  <2>2. call[t] \in Call BY DEF IInv, TypeOK
  <2>3. /\ call'[t].pc = pc
        /\ \A u \in Threads : u # t => call'[u] = call[u]
    BY <1>2, <2>2 DEF Goto, IInv, TypeOK, Call
  <2> QED BY <2>1, <2>3 DEF IdleInv
<1>3. ASSUME NEW t \in Threads, Login(t) \/ Arrive(t) PROVE IdleInv'
  <2>1. /\ call'[t].pc \in {"rotate", "check"}
        /\ \A u \in Threads : u # t => call'[u] = call[u]
    BY <1>3 DEF Login, Arrive, Idle, IInv, TypeOK
  <2> QED BY <2>1 DEF IdleInv
<1>4. \A t \in Threads : call[t].op \in Ops BY DEF IInv, TypeOK, Call
<1>5. CASE \E t \in Threads : Step(t)
  BY <1>1, <1>2, <1>3, <1>4, <1>5
  DEF Step, LoginRotates, LoginIssues, CheckAPIKey, TouchAPIKey, CreateKey, DeleteKey
<1>6. CASE Crash BY <1>6 DEF Crash, Idle, IdleInv
<1>7. CASE UNCHANGED vars BY <1>7 DEF vars, IdleInv
<1> QED BY <1>5, <1>6, <1>7 DEF Next

LEMMA LeaveRefines ==
  ASSUME IInv, NEW t \in Threads, call[t].pc # "idle", Return(t), UNCHANGED table
  PROVE  Lifecycle!Next
<1>1. stageBar[t] # "idle" BY DEF stageBar
<1>2. Lifecycle!Leave(t)
  BY <1>1, TableBar, ReturnBar DEF Lifecycle!Leave, Lifecycle!End, stateBar, stageBar, shownBar
<1> QED BY <1>2 DEF Lifecycle!Next

LEMMA IssueRefines ==
  ASSUME IInv, NEW t \in Threads, stageBar[t] = "in", NEW k \in Keys, NEW n \in Names, NEW S,
         AddAPIKey(k, n, S), Return(t)
  PROVE  Lifecycle!Next
<1>1. stateBar[k] = "new" BY DEF AddAPIKey, Inserted, stateBar, IInv, InsertedInv
<1>2. stateBar' = [stateBar EXCEPT ![k] = "working"]
  BY DEF AddAPIKey, stateBar, IInv, TypeOK
<1>3. Lifecycle!Issue(t, k)
  BY <1>1, <1>2, ReturnBar DEF Lifecycle!Issue, Lifecycle!End, stateBar, stageBar, shownBar
<1> QED BY <1>3 DEF Lifecycle!Next

\* What is deleted worked until then.
LEMMA RevokeRefines ==
  ASSUME IInv, NEW t \in Threads, stageBar[t] = "in", Shrinks,
         Return(t) \/ UNCHANGED <<stageBar, shownBar>>
  PROVE  Lifecycle!Next
<1>1. PICK K \in SUBSET Keys : K = live \ live' BY DEF IInv, TypeOK
<1>2. \A k \in K : stateBar[k] = "working" BY <1>1 DEF stateBar
<1>3. stateBar' = [k \in Keys |-> IF k \in K THEN "revoked" ELSE stateBar[k]]
  BY <1>1 DEF Shrinks, IInv, InsertedInv, Inserted, stateBar
<1>4. Lifecycle!Revoke(t, K)
  BY <1>2, <1>3, ReturnBar DEF Lifecycle!Revoke, Lifecycle!End, stateBar, stageBar, shownBar
<1> QED BY <1>4 DEF Lifecycle!Next

LEMMA LoginRefines == ASSUME IInv, IdleInv, NEW t \in Threads, Login(t) PROVE Lifecycle!Next
<1>1. call[t].key = NoKey /\ stageBar[t] = "idle" BY DEF IdleInv, Login, stageBar
<1>2. /\ stageBar' = [stageBar EXCEPT ![t] = "in"]
      /\ shownBar' = shownBar
  BY <1>1 DEF Login, Idle, stageBar, shownBar, IInv, TypeOK
<1>3. Lifecycle!Login(t)
  BY <1>1, <1>2, TableBar DEF Login, Lifecycle!Login, stateBar, stageBar, shownBar
<1> QED BY <1>3 DEF Lifecycle!Next

LEMMA ArriveRefines == ASSUME IInv, NEW t \in Threads, Arrive(t) PROVE Lifecycle!Next
<1>1. PICK k \in answered \cup {NoKey}, op \in Ops :
        call' = [call EXCEPT ![t] = [Idle EXCEPT !.pc = "check", !.key = k, !.op = op]]
  BY DEF Arrive
<1>2. k \in Keys \cup {NoKey} /\ stageBar[t] = "idle"
  BY DEF IInv, TypeOK, Arrive, stageBar
<1>3. /\ stageBar' = [stageBar EXCEPT ![t] = "asked"]
      /\ shownBar' = [shownBar EXCEPT ![t] = k]
  BY <1>1 DEF Idle, stageBar, shownBar, IInv, TypeOK
<1>4. Lifecycle!Ask(t, k)
  BY <1>2, <1>3, TableBar DEF Arrive, Lifecycle!Ask, stateBar, stageBar, shownBar
<1> QED BY <1>2, <1>4 DEF Lifecycle!Next

LEMMA CheckRefines == ASSUME IInv, NEW t \in Threads, CheckAPIKey(t) PROVE Lifecycle!Next
<1>1. CASE call[t].key \in live /\ Goto(t, "touch")
  <2>1. /\ stageBar[t] = "asked"
        /\ shownBar[t] \in Keys /\ stateBar[shownBar[t]] = "working"
    BY <1>1 DEF CheckAPIKey, stageBar, shownBar, stateBar, IInv, TypeOK
  <2>2. Lifecycle!LetIn(t)
    BY <1>1, <2>1, GotoBar, TableBar
    DEF CheckAPIKey, Lifecycle!LetIn, stateBar, stageBar, shownBar
  <2> QED BY <2>2 DEF Lifecycle!Next
<1>2. CASE Return(t) BY <1>2, LeaveRefines DEF CheckAPIKey
<1> QED BY <1>1, <1>2 DEF CheckAPIKey

LEMMA TouchRefines ==
  ASSUME IInv, NEW t \in Threads, TouchAPIKey(t) PROVE [Lifecycle!Next]_Lifecycle!vars
<1>1. CASE Return(t) BY <1>1, LeaveRefines DEF TouchAPIKey
<1>2. CASE Goto(t, call[t].op)
  <2>1. call[t].op \in Ops /\ stageBar[t] = "in"
    BY DEF IInv, TypeOK, Call, TouchAPIKey, stageBar
  <2>2. UNCHANGED <<stateBar, stageBar, shownBar>>
    BY <1>2, <2>1, GotoBar, TableBar DEF TouchAPIKey, stageBar
  <2> QED BY <2>2, Stutters
<1> QED BY <1>1, <1>2 DEF TouchAPIKey

LEMMA LoginRotatesRefines ==
  ASSUME IInv, NEW t \in Threads, LoginRotates(t) PROVE Lifecycle!Next
<1>1. stageBar[t] = "in" BY DEF LoginRotates, stageBar
<1>2. Shrinks BY NoEffectShrinks, DeleteByNameShrinks DEF LoginRotates
<1>3. CASE Goto(t, "issue")
  <2>1. UNCHANGED <<stageBar, shownBar>> BY <1>1, <1>3, GotoBar DEF stageBar
  <2> QED BY <1>1, <1>2, <2>1, RevokeRefines
<1>4. CASE Return(t) BY <1>1, <1>2, <1>4, RevokeRefines
<1> QED BY <1>3, <1>4 DEF LoginRotates

LEMMA NextRefines == IInv /\ IdleInv /\ [Next]_vars => [Lifecycle!Next]_Lifecycle!vars
<1> SUFFICES ASSUME IInv, IdleInv, [Next]_vars PROVE [Lifecycle!Next]_Lifecycle!vars OBVIOUS
<1>1. ASSUME NEW t \in Threads, LoginIssues(t) PROVE Lifecycle!Next
  <2>1. stageBar[t] = "in" BY <1>1 DEF LoginIssues, stageBar
  <2> QED BY <1>1, <2>1, IssueRefines, LeaveRefines, ConstantsAssumption
          DEF LoginIssues, NoEffect
<1>2. ASSUME NEW t \in Threads, CreateKey(t) PROVE Lifecycle!Next
  <2>1. stageBar[t] = "in" BY <1>2 DEF CreateKey, stageBar
  <2> QED BY <1>2, <2>1, IssueRefines, LeaveRefines DEF CreateKey, NoEffect
<1>3. ASSUME NEW t \in Threads, DeleteKey(t) PROVE Lifecycle!Next
  <2>1. stageBar[t] = "in" BY <1>3 DEF DeleteKey, stageBar
  <2>2. Shrinks BY <1>3, NoEffectShrinks DEF DeleteKey, DeleteAPIKey, Shrinks
  <2> QED BY <1>3, <2>1, <2>2, RevokeRefines DEF DeleteKey
<1>4. CASE \E t \in Threads : Step(t)
  BY <1>1, <1>2, <1>3, <1>4, LoginRefines, LoginRotatesRefines, ArriveRefines, CheckRefines,
     TouchRefines DEF Step
<1>5. CASE Crash
  <2>1. Lifecycle!Die
    BY <1>5, TableBar DEF Crash, Idle, Lifecycle!Die, stateBar
  <2> QED BY <2>1 DEF Lifecycle!Next
<1>6. CASE UNCHANGED vars
  <2>1. UNCHANGED <<stateBar, stageBar, shownBar>>
    BY <1>6, TableBar DEF vars, stageBar, shownBar
  <2> QED BY <2>1, Stutters
<1> QED BY <1>4, <1>5, <1>6 DEF Next

\* The keys' statements implement KeyLifecycle: a key works once, from its issue
\* to its revocation, and only requests that got in with the password or
\* with a key that worked at that moment issue and revoke keys.
THEOREM Implements == Spec => KeysHaveOneLife
<1>1. Init => IdleInv BY DEF Init, Idle, IdleInv
<1> QED BY <1>1, InitRefines, NextIdleInv, NextRefines, Invariant, PTL
        DEF Spec, KeysHaveOneLife, Lifecycle!Spec
=============================================================================
