--------------------------- MODULE RequestsProofs ---------------------------
(***************************************************************************)
(* What holds of the gateway's side of a request, whoever sent it.  First  *)
(* the steps: what each makes of the request.  Then the invariants: the    *)
(* path and the sender are left alone; nothing refuses after a change; no  *)
(* handler begins without a key; and what a call to WhatsApp is made with  *)
(* was decided and is right.  Handlers begin in the order that             *)
(* HandlersProofs shows, and taking a step only shortens what is left.     *)
(* At the end the types, for a request whose chat and group are texts.     *)
(***************************************************************************)
EXTENDS HandlersProofs

\* Enough of the type of req for these fields to be read after an EXCEPT.
HasFields(r) == {"by", "stage", "method", "path", "todo", "at", "key", "status", "name", "jid",
                 "asked", "timer", "quiet", "data", "did", "body", "args"} \subseteq DOMAIN r
Shape == HasFields(req)

-----------------------------------------------------------------------------
(* A step of a handler, for what calls to WhatsApp are made with. *)

\* What a step that succeeds does.
Op(step) == CASE step.do \in {"change", "sure"} -> {step.arg}
              [] step.do = "create" -> {"Create"}
              [] OTHER -> {}

TimerTaken(r) ==
  \E asked \in {{}} \cup {{x} : x \in Asked} :
    /\ r.asked = asked
    /\ r.timer = effectiveExpiration(req.name, req.jid, {Int32(x) : x \in asked})

SecondsTaken(r) ==
  \E s \in Asked : /\ s \in -HalfDuration .. HalfDuration - 1
                   /\ r.asked = {s} /\ r.timer = Wrap(HalfDuration, s * Second)

ChatTaken(r) ==
  r.jid # NoJID /\ \E text \in Values("chat_id") : r.jid = parseJID(text)

GroupTaken(r) ==
  r.jid # NoJID /\ r.jid = parseGroupJID(ParamValue(req.at, req.path, ":gid"))

\* r is what the step that is next makes of req, but for what is left to do.
Decided(r) ==
  LET step == Head(req.todo) IN
  /\ step.do # "resolve" => r.name = req.name
  /\ r.name \in IF InPath \cap {":session", ":name"} # {}
               THEN {req.name} ELSE {req.name} \cup Values("session")
  /\ step.do \notin {"chat", "group"} => r.jid = req.jid
  /\ step.do = "chat" => ChatTaken(r)
  /\ step.do = "group" => GroupTaken(r)
  /\ step.do \notin {"timer", "seconds"} => r.asked = req.asked /\ r.timer = req.timer
  /\ step.do = "timer" => TimerTaken(r)
  /\ step.do = "seconds" => SecondsTaken(r)
  /\ IF step.do = "chat" \/ Does(step, "Upload")
     THEN r.quiet = OnRecord(r.name, r.jid) ELSE r.quiet = req.quiet
  /\ r.data \in {req.data, "whole"} \/ (step.do = "photo" /\ r.data = "cut")
  /\ IF step.do \in {"json", "media", "photo"}
     THEN r.body \in BodyIn(Bodies) \ {"bad"} ELSE r.body = req.body

Stays(r) == /\ r.by = req.by /\ r.method = req.method /\ r.path = req.path
            /\ r.args = req.args /\ r.at = req.at /\ r.key = req.key

Advance(r) ==
  /\ HasFields(r) /\ Stays(r) /\ r.stage = "handling" /\ r.status = req.status
  /\ r.did = req.did \cup Op(Head(req.todo)) /\ Decided(r)

GoesOn == req.todo # << >> /\ Advance(req') /\ req'.todo = Tail(req.todo)

Refused(status) == status \in 400 .. 499 \cup {503}

\* Only a check refuses, and then it does nothing.
Stops ==
  /\ Shape' /\ Stays(req') /\ req'.stage = "answered"
  /\ req'.name = req.name /\ req'.jid = req.jid /\ req'.asked = req.asked
  /\ req'.timer = req.timer /\ req'.quiet = req.quiet /\ req'.data = req.data
  /\ req'.body = req.body /\ req'.status \in Statuses
  /\ \/ req'.did = req.did
     \/ req.todo # << >> /\ req'.did = req.did \cup Op(Head(req.todo))
  /\ Refused(req'.status) =>
       req.todo # << >> /\ Head(req.todo).do \in Checks /\ req'.did = req.did

LEMMA OnGoesOn ==
  ASSUME req.todo # << >>, NEW r, Advance(r), r.todo = req.todo, On(r)
  PROVE  GoesOn
<1>1. /\ HasFields(req') /\ Stays(req') /\ req'.stage = r.stage /\ req'.did = r.did
      /\ req'.todo = Tail(req.todo)
  BY DEF On, Advance, HasFields, Stays
<1>2. /\ req'.name = r.name /\ req'.jid = r.jid /\ req'.asked = r.asked
      /\ req'.timer = r.timer /\ req'.quiet = r.quiet /\ req'.data = r.data
      /\ req'.body = r.body /\ req'.status = r.status
  BY DEF On, Advance, HasFields
<1>3. Decided(req')
  BY <1>2 DEF Advance, Decided, TimerTaken, SecondsTaken, ChatTaken, GroupTaken
<1> QED BY <1>1, <1>2, <1>3 DEF Advance, GoesOn

LEMMA AnswerStops ==
  ASSUME Shape, NEW status, Answer(status),
         status \in Statuses,
         status \in {200, 500} \/ (req.todo # << >> /\ Head(req.todo).do \in Checks)
  PROVE  Stops
<1>1. req'.status = status BY DEF Answer, Shape, HasFields
<1>2. Refused(status) => req.todo # << >> /\ Head(req.todo).do \in Checks BY DEF Refused
<1> QED BY <1>1, <1>2 DEF Answer, Stops, Stays, Shape, HasFields

\* Steps that only look.
LEMMA LookGoesOn ==
  ASSUME Shape, req.stage = "handling", req.todo # << >>, On(req),
         Head(req.todo).do \in {"field", "limit", "password", "id", "known",
                                "participants", "read", "code"}
  PROVE  GoesOn
<1>1. Advance(req) BY DEF Advance, Stays, Decided, Op, Does, Shape
<1> QED BY <1>1, OnGoesOn

LEMMA OnlyHandling == ASSUME Handle PROVE req.stage = "handling"
<1> USE DEF Doing
<1>1. CASE TakeJson \/ TakeField \/ TakeLimit \/ TakePassword \/ TakeId
  BY <1>1 DEF TakeJson, TakeField, TakeLimit, TakePassword, TakeId
<1>2. CASE resolveSession \/ TakeKnown \/ TakeChat \/ TakeGroup \/ parseParticipants
  BY <1>2 DEF resolveSession, TakeKnown, TakeChat, TakeGroup, parseParticipants
<1>3. CASE readMediaPayload BY <1>3 DEF readMediaPayload
<1>4. CASE TakePhoto BY <1>4 DEF TakePhoto
<1>5. CASE TakeTimer \/ TakeSeconds BY <1>5 DEF TakeTimer, TakeSeconds
<1>6. CASE TakeRead \/ TakeChange \/ TakeSure \/ TakeCreate \/ TakeCode \/ Finish
  BY <1>6 DEF TakeRead, TakeChange, TakeSure, TakeCreate, TakeCode, Finish
<1> QED BY <1>1, <1>2, <1>3, <1>4, <1>5, <1>6 DEF Handle

LEMMA HandleSteps == ASSUME Shape, Handle PROVE GoesOn \/ Stops
<1>0. req.stage = "handling" BY OnlyHandling
<1> USE <1>0, AnswerStops, LookGoesOn DEF Doing, Checks, Statuses
<1>1. CASE TakeJson
  <2>1. CASE Answer(400) BY <1>1, <2>1 DEF TakeJson
  <2>2. ASSUME NEW b \in BodyIn(Bodies) \ {"bad"}, On([req EXCEPT !.body = b]) PROVE GoesOn
    <3> DEFINE r == [req EXCEPT !.body = b]
    <3>1. Advance(r) /\ r.todo = req.todo
      BY <1>1 DEF TakeJson, Advance, Stays, Decided, Op, Does, Shape, HasFields
    <3> HIDE DEF r
    <3>2. On(r) BY <2>2 DEF r
    <3> QED BY <1>1, <3>1, <3>2, OnGoesOn DEF TakeJson
  <2>3. BodyIn({"json", "bad"}) \subseteq BodyIn(Bodies) BY DEF BodyIn, Bodies
  <2>4. PICK b \in BodyIn({"json", "bad"}) :
          IF b = "bad" THEN Answer(400) ELSE On([req EXCEPT !.body = b])
    BY <1>1 DEF TakeJson
  <2> QED BY <2>1, <2>2, <2>3, <2>4
<1>2. CASE TakeField
  <2>1. Answer(400) \/ On(req) BY <1>2 DEF TakeField
  <2>2. Head(req.todo).do = "field" /\ req.todo # << >> BY <1>2 DEF TakeField
  <2> QED BY <2>1, <2>2
<1>3. CASE TakeLimit \/ TakePassword \/ TakeId \/ TakeKnown \/ parseParticipants
  BY <1>3 DEF TakeLimit, TakePassword, TakeId, TakeKnown, parseParticipants
<1>4. CASE resolveSession
  <2>0. Head(req.todo).do = "resolve" /\ req.todo # << >> BY <1>4 DEF resolveSession
  <2>1. PICK n \in IF InPath \cap {":session", ":name"} # {} THEN {req.name} ELSE Values("session") :
          \/ On([req EXCEPT !.name = n]) \/ Answer(400) \/ Answer(404) \/ Answer(503)
    BY <1>4 DEF resolveSession
  <2>2. ASSUME On([req EXCEPT !.name = n]) PROVE GoesOn
    <3> DEFINE r == [req EXCEPT !.name = n]
    <3>1. Advance(r) /\ r.todo = req.todo
      BY <2>0 DEF Advance, Stays, Decided, Op, Does, Shape, HasFields
    <3> HIDE DEF r
    <3>2. On(r) BY <2>2 DEF r
    <3> QED BY <2>0, <3>1, <3>2, OnGoesOn
  <2> QED BY <2>0, <2>1, <2>2
<1>5. CASE TakeChat
  <2>0. Head(req.todo).do = "chat" /\ req.todo # << >> BY <1>5 DEF TakeChat
  <2>t. PICK text \in Values("chat_id") : \E jid, q :
          /\ jid = parseJID(text) /\ q = OnRecord(req.name, jid)
          /\ Answer(400) \/ (jid # NoJID /\ On([req EXCEPT !.jid = jid, !.quiet = q]))
    BY <1>5 DEF TakeChat
  <2>1. PICK jid, q :
          /\ jid = parseJID(text) /\ q = OnRecord(req.name, jid)
          /\ Answer(400) \/ (jid # NoJID /\ On([req EXCEPT !.jid = jid, !.quiet = q]))
    BY <2>t
  <2>2. ASSUME jid # NoJID, On([req EXCEPT !.jid = jid, !.quiet = q]) PROVE GoesOn
    <3> DEFINE r == [req EXCEPT !.jid = jid, !.quiet = q]
    <3>0. ChatTaken(r) BY <2>1, <2>2 DEF ChatTaken, Shape, HasFields
    <3>1. Advance(r) /\ r.todo = req.todo
      BY <2>0, <2>1, <2>2, <3>0 DEF Advance, Stays, Decided, Op, Does, Shape, HasFields
    <3> HIDE DEF r
    <3>2. On(r) BY <2>2 DEF r
    <3> QED BY <2>0, <3>1, <3>2, OnGoesOn
  <2> QED BY <2>0, <2>1, <2>2
<1>6. CASE TakeGroup
  <2>0. Head(req.todo).do = "group" /\ req.todo # << >> BY <1>6 DEF TakeGroup
  <2>1. PICK jid : /\ jid = parseGroupJID(ParamValue(req.at, req.path, ":gid"))
                   /\ Answer(400) \/ (jid # NoJID /\ On([req EXCEPT !.jid = jid]))
    BY <1>6 DEF TakeGroup
  <2>2. ASSUME jid # NoJID, On([req EXCEPT !.jid = jid]) PROVE GoesOn
    <3> DEFINE r == [req EXCEPT !.jid = jid]
    <3>1. Advance(r) /\ r.todo = req.todo
      BY <2>1, <2>2, <2>0 DEF Advance, Stays, Decided, Op, Does, Shape, HasFields, GroupTaken
    <3> HIDE DEF r
    <3>2. On(r) BY <2>2 DEF r
    <3> QED BY <2>0, <3>1, <3>2, OnGoesOn
  <2> QED BY <2>0, <2>1, <2>2
<1>7. CASE readMediaPayload
  <2>0. Head(req.todo).do = "media" /\ req.todo # << >> BY <1>7 DEF readMediaPayload
  <2>1. PICK b \in BodyIn(Bodies), d \in {"whole"} :
          \/ Answer(400) \/ Answer(500)
          \/ b # "bad" /\ On([req EXCEPT !.body = b, !.data = d])
    BY <1>7 DEF readMediaPayload
  <2>2. ASSUME b # "bad", On([req EXCEPT !.body = b, !.data = d]) PROVE GoesOn
    <3> DEFINE r == [req EXCEPT !.body = b, !.data = d]
    <3>1. Advance(r) /\ r.todo = req.todo
      BY <2>0, <2>2 DEF Advance, Stays, Decided, Op, Does, Shape, HasFields
    <3> HIDE DEF r
    <3>2. On(r) BY <2>2 DEF r
    <3> QED BY <2>0, <3>1, <3>2, OnGoesOn
  <2> QED BY <2>0, <2>1, <2>2
<1>8. CASE TakePhoto
  <2>0. Head(req.todo).do = "photo" /\ req.todo # << >> BY <1>8 DEF TakePhoto
  <2>1. PICK b \in BodyIn(Bodies), d \in {"whole", "cut"} :
          \/ Answer(400) \/ Answer(500)
          \/ b # "bad" /\ On([req EXCEPT !.body = b, !.data = d])
    BY <1>8 DEF TakePhoto
  <2>2. ASSUME b # "bad", On([req EXCEPT !.body = b, !.data = d]) PROVE GoesOn
    <3> DEFINE r == [req EXCEPT !.body = b, !.data = d]
    <3>1. Advance(r) /\ r.todo = req.todo
      BY <2>0, <2>2 DEF Advance, Stays, Decided, Op, Does, Shape, HasFields
    <3> HIDE DEF r
    <3>2. On(r) BY <2>2 DEF r
    <3> QED BY <2>0, <3>1, <3>2, OnGoesOn
  <2> QED BY <2>0, <2>1, <2>2
<1>9. ASSUME NEW a, NEW x, req.todo # << >>, On([req EXCEPT !.asked = a, !.timer = x]),
             LET r == [req EXCEPT !.asked = a, !.timer = x] IN
             \/ Head(req.todo).do = "timer" /\ TimerTaken(r)
             \/ Head(req.todo).do = "seconds" /\ SecondsTaken(r)
      PROVE  GoesOn
  <2> DEFINE r == [req EXCEPT !.asked = a, !.timer = x]
  <2>1. Advance(r) /\ r.todo = req.todo
    BY <1>9 DEF Advance, Stays, Decided, Op, Does, Shape, HasFields
  <2> HIDE DEF r
  <2>2. On(r) BY <1>9 DEF r
  <2> QED BY <1>9, <2>1, <2>2, OnGoesOn
<1>10. CASE TakeTimer
  <2>1. PICK a \in {{}} \cup {{x} : x \in Asked} :
          On([req EXCEPT !.asked = a,
                !.timer = effectiveExpiration(req.name, req.jid, {Int32(x) : x \in a})])
    BY <1>10 DEF TakeTimer
  <2> DEFINE t == effectiveExpiration(req.name, req.jid, {Int32(x) : x \in a})
  <2>2. On([req EXCEPT !.asked = a, !.timer = t]) BY <2>1
  <2>3. TimerTaken([req EXCEPT !.asked = a, !.timer = t])
    <3>1. t = effectiveExpiration(req.name, req.jid, {Int32(x) : x \in a}) OBVIOUS
    <3> HIDE DEF t
    <3> QED BY <3>1 DEF TimerTaken, Shape, HasFields
  <2> HIDE DEF t
  <2> QED BY <1>9, <1>10, <2>2, <2>3 DEF TakeTimer
<1>11. CASE TakeSeconds
  <2>1. PICK s \in Asked : /\ s \in -HalfDuration .. HalfDuration - 1
                           /\ On([req EXCEPT !.asked = {s},
                                             !.timer = Wrap(HalfDuration, s * Second)])
    BY <1>11 DEF TakeSeconds
  <2> DEFINE t == Wrap(HalfDuration, s * Second)
  <2>2. On([req EXCEPT !.asked = {s}, !.timer = t]) BY <2>1
  <2>3. SecondsTaken([req EXCEPT !.asked = {s}, !.timer = t])
    <3>1. t = Wrap(HalfDuration, s * Second) OBVIOUS
    <3> HIDE DEF t
    <3> QED BY <2>1, <3>1 DEF SecondsTaken, Shape, HasFields
  <2> HIDE DEF t
  <2> QED BY <1>9, <1>11, <2>2, <2>3 DEF TakeSeconds
<1>12. ASSUME NEW op, req.todo # << >>, Op(Head(req.todo)) = {op},
              Does(Head(req.todo), "Upload") <=> op = "Upload",
              Head(req.todo).do \in Effects, Done(op)
       PROVE  GoesOn
  <2> DEFINE q == IF op = "Upload" THEN OnRecord(req.name, req.jid) ELSE req.quiet
             r == [req EXCEPT !.did = @ \cup {op}, !.quiet = q]
  <2>1. Advance(r) /\ r.todo = req.todo
    BY <1>12 DEF Advance, Stays, Decided, Effects, Shape, HasFields
  <2>2. On(r) BY <1>12 DEF Done, Shape, HasFields
  <2> HIDE DEF r
  <2> QED BY <1>12, <2>1, <2>2, OnGoesOn
<1>13. ASSUME NEW op, req.todo # << >>, Op(Head(req.todo)) = {op}, Failed(op) PROVE Stops
  BY <1>13 DEF Failed, Stops, Stays, Shape, HasFields, Refused
<1>14. CASE TakeChange \/ TakeSure
  <2>1. /\ Op(Head(req.todo)) = {Arg} /\ req.todo # << >>
        /\ Does(Head(req.todo), "Upload") <=> Arg = "Upload"
        /\ Head(req.todo).do \in Effects
    BY <1>14 DEF TakeChange, TakeSure, Op, Does, Arg, Effects
  <2> QED BY <1>12, <1>13, <1>14, <2>1 DEF TakeChange, TakeSure
<1>15. CASE TakeCreate
  <2>1. /\ Op(Head(req.todo)) = {"Create"} /\ req.todo # << >>
        /\ Does(Head(req.todo), "Upload") <=> "Create" = "Upload"
        /\ Head(req.todo).do \in Effects
    BY <1>15 DEF TakeCreate, Op, Does, Effects
  <2> QED BY <1>12, <1>13, <1>15, <2>1 DEF TakeCreate
<1>16. CASE TakeRead \/ TakeCode \/ Finish BY <1>16 DEF TakeRead, TakeCode, Finish
<1> QED BY <1>1, <1>2, <1>3, <1>4, <1>5, <1>6, <1>7, <1>8, <1>10, <1>11, <1>14, <1>15, <1>16
       DEF Handle

\* What makes a step answer that the request is a bad one.
Lacks(step) ==
  CASE step.do = "json" -> "bad" \in BodyIn({"json", "bad"})
    [] step.do = "field" -> "" \in Values(step.arg)
    [] step.do = "id" -> ParamValue(req.at, req.path, ":id") \notin Ids
    [] step.do = "resolve" -> "" \in IF InPath \cap {":session", ":name"} # {}
                                     THEN {req.name} ELSE Values("session")
    [] step.do = "chat" -> \E text \in Values("chat_id") : parseJID(text) = NoJID
    [] step.do = "group" -> parseGroupJID(ParamValue(req.at, req.path, ":gid")) = NoJID
    [] OTHER -> step.do \in {"media", "photo", "participants"}

LEMMA Rejects ==
  ASSUME Shape, Handle
  PROVE  \/ req'.status = req.status \/ req'.status # 400
         \/ req'.todo = req.todo /\ req'.todo # << >> /\ Lacks(Head(req'.todo))
<1> DEFINE step == Head(req.todo)
           fine == req'.status = req.status \/ req'.status # 400
<1>1. \A status : Answer(status) => req'.todo = req.todo /\ (status = 400 \/ fine)
  BY DEF Answer, Shape, HasFields
<1>2. ASSUME NEW r, On(r), r.status = req.status, HasFields(r) PROVE fine
  BY <1>2 DEF On, HasFields
<1>3. ASSUME NEW op, NEW did,
             req' = [req EXCEPT !.stage = "answered", !.status = 500, !.did = @ \cup did]
      PROVE  fine
  BY <1>3 DEF Shape, HasFields
<1> HIDE DEF step, fine
<1>4. On(req) => fine BY <1>2 DEF Shape
<1>5. \A op : Done(op) \/ Failed(op) => fine
  <2>1. ASSUME NEW op, Done(op) PROVE fine
    <3> DEFINE q == IF op = "Upload" THEN OnRecord(req.name, req.jid) ELSE req.quiet
               r == [req EXCEPT !.did = @ \cup {op}, !.quiet = q]
    <3>1. r.status = req.status /\ HasFields(r) BY DEF Shape, HasFields
    <3>2. On(r) BY <2>1 DEF Done, Shape, HasFields
    <3> HIDE DEF r
    <3> QED BY <1>2, <3>1, <3>2
  <2>2. ASSUME NEW op, Failed(op) PROVE fine BY <1>3, <2>2 DEF Failed
  <2> QED BY <2>1, <2>2
<1>6. ASSUME NEW b, NEW d, On([req EXCEPT !.body = b, !.data = d]) PROVE fine
  <2> DEFINE r == [req EXCEPT !.body = b, !.data = d]
  <2>1. r.status = req.status /\ HasFields(r) /\ On(r) BY <1>6 DEF Shape, HasFields
  <2> HIDE DEF r
  <2> QED BY <1>2, <2>1
<1>7. ASSUME NEW b, On([req EXCEPT !.body = b]) PROVE fine
  <2> DEFINE r == [req EXCEPT !.body = b]
  <2>1. r.status = req.status /\ HasFields(r) /\ On(r) BY <1>7 DEF Shape, HasFields
  <2> HIDE DEF r
  <2> QED BY <1>2, <2>1
<1>8. ASSUME NEW a, NEW x, On([req EXCEPT !.asked = a, !.timer = x]) PROVE fine
  <2> DEFINE r == [req EXCEPT !.asked = a, !.timer = x]
  <2>1. r.status = req.status /\ HasFields(r) /\ On(r) BY <1>8 DEF Shape, HasFields
  <2> HIDE DEF r
  <2> QED BY <1>2, <2>1
<1> SUFFICES fine \/ (req'.todo = req.todo /\ req.todo # << >> /\ Lacks(step))
  BY DEF step, fine
<1> USE DEF Doing
<1>9. CASE TakeJson
  <2>1. step.do = "json" /\ req.todo # << >> BY <1>9 DEF TakeJson, step
  <2>2. PICK b \in BodyIn({"json", "bad"}) :
          (b = "bad" /\ Answer(400)) \/ On([req EXCEPT !.body = b])
    BY <1>9 DEF TakeJson
  <2> QED BY <1>1, <1>7, <2>1, <2>2 DEF Lacks
<1>10. CASE TakeField
  <2>1. step.do = "field" /\ req.todo # << >> BY <1>10 DEF TakeField, step
  <2>2. ("" \in Values(step.arg) /\ Answer(400)) \/ On(req) BY <1>10 DEF TakeField, Arg, step
  <2> QED BY <1>1, <1>4, <2>1, <2>2 DEF Lacks
<1>11. CASE TakeId
  <2>1. step.do = "id" /\ req.todo # << >> BY <1>11 DEF TakeId, step
  <2>2. (ParamValue(req.at, req.path, ":id") \notin Ids /\ Answer(400)) \/ On(req)
    BY <1>11 DEF TakeId
  <2> QED BY <1>1, <1>4, <2>1, <2>2 DEF Lacks
<1>12. CASE resolveSession
  <2> DEFINE N == IF InPath \cap {":session", ":name"} # {} THEN {req.name} ELSE Values("session")
             none == ""
  <2>1. step.do = "resolve" /\ req.todo # << >> BY <1>12 DEF resolveSession, step
  <2>2. PICK n \in N : \/ On([req EXCEPT !.name = n]) \/ Answer(404) \/ Answer(503)
                     \/ (Answer(400) /\ n = none)
    <3> DEFINE Resolved(n, empty) ==
          CASE n = empty -> Answer(400)
            [] n \in Names \ {empty} -> On([req EXCEPT !.name = n]) \/ Answer(404) \/ Answer(503)
            [] OTHER -> Answer(404)
    <3>1. \E n \in N : Resolved(n, none) BY <1>12 DEF resolveSession
    <3> HIDE DEF N, none
    <3> QED BY <3>1
  <2>3. On([req EXCEPT !.name = n]) => fine
    <3> DEFINE r == [req EXCEPT !.name = n]
    <3>1. r.status = req.status /\ HasFields(r) BY DEF Shape, HasFields
    <3> HIDE DEF r
    <3>2. On(r) => fine BY <1>2, <3>1
    <3> QED BY <3>2 DEF r
  <2> HIDE DEF N, none
  <2>4. Answer(404) \/ Answer(503) => fine BY <1>1
  <2>5. fine \/ (n = none /\ Answer(400)) BY <2>4, <2>2, <2>3
  <2>6. CASE n = none /\ Answer(400)
    <3>1. none \in N /\ req'.todo = req.todo BY <1>1, <2>6
    <3>2. Lacks(step) BY <2>1, <3>1 DEF Lacks, N, none
    <3> QED BY <2>1, <3>1, <3>2
  <2> QED BY <2>5, <2>6
<1>13. CASE TakeChat
  <2>1. step.do = "chat" /\ req.todo # << >> BY <1>13 DEF TakeChat, step
  <2>2. PICK text \in Values("chat_id") : \E jid, q :
          \/ parseJID(text) = NoJID /\ Answer(400)
          \/ On([req EXCEPT !.jid = jid, !.quiet = q])
    BY <1>13 DEF TakeChat
  <2>3. ASSUME NEW jid, NEW q, On([req EXCEPT !.jid = jid, !.quiet = q]) PROVE fine
    <3> DEFINE r == [req EXCEPT !.jid = jid, !.quiet = q]
    <3>1. r.status = req.status /\ HasFields(r) /\ On(r) BY <2>3 DEF Shape, HasFields
    <3> HIDE DEF r
    <3> QED BY <1>2, <3>1
  <2>4. fine \/ (parseJID(text) = NoJID /\ Answer(400)) BY <2>2, <2>3
  <2> QED BY <1>1, <2>1, <2>4 DEF Lacks
<1>14. CASE TakeGroup
  <2>1. step.do = "group" /\ req.todo # << >> BY <1>14 DEF TakeGroup, step
  <2>2. PICK jid : /\ jid = parseGroupJID(ParamValue(req.at, req.path, ":gid"))
                   /\ (jid = NoJID /\ Answer(400)) \/ On([req EXCEPT !.jid = jid])
    BY <1>14 DEF TakeGroup
  <2>3. On([req EXCEPT !.jid = jid]) => fine
    <3> DEFINE r == [req EXCEPT !.jid = jid]
    <3>1. r.status = req.status /\ HasFields(r) BY DEF Shape, HasFields
    <3> HIDE DEF r
    <3>2. On(r) => fine BY <1>2, <3>1
    <3> QED BY <3>2 DEF r
  <2> QED BY <1>1, <2>1, <2>2, <2>3 DEF Lacks
<1>15. CASE readMediaPayload \/ TakePhoto \/ parseParticipants
  <2>1. step.do \in {"media", "photo", "participants"} /\ req.todo # << >>
    BY <1>15 DEF readMediaPayload, TakePhoto, parseParticipants, step
  <2>2. \/ Answer(400) \/ Answer(500) \/ On(req)
        \/ \E b, d : On([req EXCEPT !.body = b, !.data = d])
    BY <1>15 DEF readMediaPayload, TakePhoto, parseParticipants
  <2>3. fine \/ req'.todo = req.todo BY <1>1, <1>4, <1>6, <2>2
  <2> QED BY <2>1, <2>3 DEF Lacks
<1>16. CASE TakeTimer
  <2>1. PICK a \in {{}} \cup {{x} : x \in Asked} :
          On([req EXCEPT !.asked = a,
                !.timer = effectiveExpiration(req.name, req.jid, {Int32(x) : x \in a})])
    BY <1>16 DEF TakeTimer
  <2> QED BY <1>8, <2>1
<1>17. CASE TakeSeconds
  <2>1. PICK s \in Asked : On([req EXCEPT !.asked = {s}, !.timer = Wrap(HalfDuration, s * Second)])
    BY <1>17 DEF TakeSeconds
  <2> QED BY <1>8, <2>1
<1>18. CASE TakeLimit \/ TakePassword \/ TakeKnown \/ Finish \/ TakeRead \/ TakeCode
  <2>1. \E status \in {200, 401, 404, 429, 500} : On(req) \/ Answer(status)
    BY <1>18 DEF TakeLimit, TakePassword, TakeKnown, Finish, TakeRead, TakeCode
  <2> QED BY <1>1, <1>4, <2>1
<1>19. CASE TakeChange \/ TakeSure \/ TakeCreate
  BY <1>1, <1>5, <1>19 DEF TakeChange, TakeSure, TakeCreate
<1> QED BY <1>9, <1>10, <1>11, <1>12, <1>13, <1>14, <1>15, <1>16, <1>17, <1>18, <1>19 DEF Handle
-----------------------------------------------------------------------------
(* A step of the middleware, and the beginning of a request. *)

\* The name of the session, if the path has it.
NameIn(i) == IF ParamValue(i, req.path, ":name") # "" THEN ParamValue(i, req.path, ":name")
                                                       ELSE ParamValue(i, req.path, ":session")

\* What the middleware never touches.
Aside == /\ req'.by = req.by /\ req'.method = req.method /\ req'.path = req.path
         /\ req'.args = req.args /\ req'.body = req.body
         /\ req'.jid = req.jid /\ req'.asked = req.asked /\ req'.timer = req.timer
         /\ req'.quiet = req.quiet /\ req'.data = req.data /\ req'.did = req.did

Routed(i) ==
  /\ Shape' /\ Aside
  /\ IF req'.stage = "answered"
     THEN req'.status \in Statuses \ {400} ELSE req'.status = req.status
  /\ req'.stage # "handling" => req'.name = req.name
  /\ IF i = 0 THEN req'.stage = "answered" /\ req'.at = req.at /\ req'.key = req.key
     ELSE /\ i \in DOMAIN routes /\ req'.at = i
          /\ \/ /\ routes[i].handler \in Middlewares
                /\ \/ /\ req'.stage = "answered" /\ req'.key = req.key
                      /\ routes[i].handler = "authMiddleware" => req'.status \in {401, 500}
                   \/ req'.stage = "routing" /\ req'.key = TRUE
             \/ /\ routes[i].handler \in DOMAIN StepsOf
                /\ req'.stage = "handling" /\ req'.key = req.key
                /\ req'.todo = StepsOf[routes[i].handler]
                /\ req'.name = NameIn(i)

LEMMA ServeSteps ==
  ASSUME Shape, Serve PROVE req.stage = "routing" /\ Routed(NextFit(req.at, req.method, req.path))
<1>0. req.stage = "routing" BY DEF Serve
<1> DEFINE i == NextFit(req.at, req.method, req.path)
<1>1. i # 0 => i \in DOMAIN routes /\ Proper(routes[i])
  <2>1. i # 0 => i \in DOMAIN routes BY NextFitIs
  <2> HIDE DEF i
  <2> QED BY <2>1, RoutesDomain, RoutesGuarded DEF Guarded
<1>2. \/ i = 0 /\ Answer(404)
      \/ i # 0 /\ routes[i].handler = "authMiddleware" /\ CheckKey(i)
      \/ i # 0 /\ routes[i].handler = "upgrade" /\ Upgrade(i)
      \/ i # 0 /\ routes[i].handler = "dashboard" /\ Dashboard(i)
      \/ i # 0 /\ routes[i].handler \notin Middlewares /\ Enter(i)
  BY DEF Serve, Middlewares
<1> HIDE DEF i
<1>a. {"authMiddleware", "upgrade", "dashboard"} = Middlewares BY DEF Middlewares
<1> USE <1>1, <1>a DEF Shape, HasFields, Aside, Routed, Statuses
<1>3. ASSUME i = 0, Answer(404) PROVE Routed(i)
  <2>1. req' = [req EXCEPT !.stage = "answered", !.status = 404] BY <1>3 DEF Answer
  <2> QED BY <1>3, <2>1
<1>4. ASSUME i # 0, routes[i].handler \in Middlewares, CheckKey(i) PROVE Routed(i)
  <2>1. CASE req' = [req EXCEPT !.at = i, !.key = TRUE]
    <3>1. /\ Shape' /\ Aside /\ req'.status = req.status /\ req'.name = req.name
          /\ req'.at = i /\ req'.key = TRUE /\ req'.stage = "routing"
      BY <1>0, <2>1
    <3> HIDE DEF Shape, HasFields, Aside, Statuses
    <3> QED BY <1>1, <1>4, <3>1
  <2>2. CASE \E c \in {401, 500} :
                req' = [req EXCEPT !.at = i, !.stage = "answered", !.status = c]
    BY <1>4, <2>2
  <2> QED BY <1>4, <2>1, <2>2 DEF CheckKey
<1>5. ASSUME i # 0, routes[i].handler = "upgrade", Upgrade(i) PROVE Routed(i)
  <2>1. CASE req' = [req EXCEPT !.at = i, !.stage = "answered", !.status = 426] BY <1>5, <2>1
  <2> QED BY <1>4, <1>5, <2>1 DEF Upgrade, Middlewares
<1>6. ASSUME i # 0, routes[i].handler = "dashboard", Dashboard(i) PROVE Routed(i)
  <2>1. PICK c \in {200, 404} : req' = [req EXCEPT !.at = i, !.stage = "answered", !.status = c]
    BY <1>6 DEF Dashboard
  <2> QED BY <1>6, <2>1
<1>7. ASSUME i # 0, routes[i].handler \notin Middlewares, Enter(i) PROVE Routed(i)
  <2>1. routes[i].handler \in DOMAIN StepsOf BY <1>7 DEF Proper
  <2>2. req' = [req EXCEPT !.at = i, !.stage = "handling",
                           !.todo = StepsOf[routes[i].handler], !.name = NameIn(i)]
    BY <1>7 DEF Enter, NameIn
  <2> QED BY <1>7, <2>1, <2>2
<1> HIDE DEF Shape, HasFields, Aside, Routed, Statuses
<1>8. Routed(i) BY <1>2, <1>3, <1>4, <1>5, <1>6, <1>7
<1> QED BY <1>0, <1>8 DEF i

\* A request of which nothing has been seen.
Untouched(r) == /\ HasFields(r) /\ r.at = 0 /\ r.key = FALSE /\ r.status = 0 /\ r.did = {}
                /\ r.body \in Bodies /\ r.jid = NoJID /\ r.asked = {} /\ r.timer = 0
                /\ r.quiet = FALSE /\ r.data = "none"
Begins == Untouched(req') /\ req'.stage = "routing"

LEMMA IdleUntouched == Untouched(Idle) /\ Idle.by = "client" /\ Idle.stage = "idle"
BY DEF Idle, HasFields, Untouched, Bodies

LEMMA ClientBegins == ClientAsks => Begins /\ req'.by = "client"
BY IdleUntouched DEF ClientAsks, Begins, Untouched, HasFields

\* The chats go on, and the request waits.
LEMMA MeanwhileSteps ==
  ASSUME Shape, Meanwhile
  PROVE  /\ Shape' /\ req.stage = "handling" /\ ExpirationNext
         /\ req.asked = {} /\ <<req.name, req.jid>> \in Watched
         /\ req' = [req EXCEPT !.quiet = req'.quiet]
         /\ req'.quiet = (req.quiet /\ onRecord'[<<req.name, req.jid>>])
BY DEF Meanwhile, Shape, HasFields

-----------------------------------------------------------------------------
(* No step of the gateway changes who asked for what. *)

\* What a step of a request that is under way leaves alone.
Keeps == /\ Shape' /\ req'.stage # "idle"
         /\ req'.by = req.by /\ req'.method = req.method /\ req'.path = req.path
         /\ req'.args = req.args

LEMMA ServeKeeps == ASSUME Shape, Serve PROVE Keeps
BY ServeSteps DEF Routed, Aside, Keeps

LEMMA HandleKeeps == ASSUME Shape, Handle PROVE Keeps
BY HandleSteps DEF GoesOn, Advance, Stops, Stays, Shape, Keeps

LEMMA MeanwhileKeeps == ASSUME Shape, Meanwhile PROVE Keeps
BY DEF Meanwhile, Shape, HasFields, Keeps

-----------------------------------------------------------------------------
(* No step of the gateway refuses after a change. *)

Progress ==
  /\ Shape
  /\ req.stage \in {"idle", "routing"} => req.did = {}
  /\ req.stage = "handling" => ChecksFirst(req.todo) /\ (req.did # {} => AllFinal(req.todo))
  /\ RefusedDoesNothing

LEMMA TailTurn ==
  ASSUME NEW m, NEW s, s # << >>, NEW k \in Int, Turn(m, s, k)
  PROVE  Turn(m, Tail(s), k - 1) /\ Placed(m, Head(s), 1, k)
<1>1. PICK S : s \in Seq(S) BY DEF Turn, IsSeq
<1>2. /\ Tail(s) \in Seq(S) /\ Len(Tail(s)) = Len(s) - 1 /\ Len(s) \in Nat \ {0}
      /\ \A i \in 1 .. Len(s) - 1 : Tail(s)[i] = s[i + 1]
      /\ Head(s) = s[1]
  BY <1>1
<1>3. ASSUME NEW i \in 1 .. Len(s) - 1 PROVE Placed(m, Tail(s)[i], i, k - 1)
  <2>1. Placed(m, s[i + 1], i + 1, k) BY <1>2 DEF Turn
  <2> QED BY <1>2, <2>1 DEF Placed
<1> QED BY <1>2, <1>3 DEF Turn, IsSeq

LEMMA TailFinal ==
  ASSUME NEW s, IsSeq(s), s # << >>
  PROVE  /\ AllFinal(s) => AllFinal(Tail(s)) /\ Late("checks", Head(s))
         /\ ChecksFirst(s) => ChecksFirst(Tail(s))
         /\ ~Early("checks", Head(s)) /\ ChecksFirst(s) => AllFinal(Tail(s))
<1>1. PICK S : s \in Seq(S) BY DEF IsSeq
<1>2. /\ Tail(s) \in Seq(S) /\ Len(Tail(s)) = Len(s) - 1 /\ Len(s) \in Nat \ {0}
      /\ \A i \in 1 .. Len(s) - 1 : Tail(s)[i] = s[i + 1]
      /\ Head(s) = s[1]
  BY <1>1
<1>3. AllFinal(s) => AllFinal(Tail(s)) /\ Late("checks", Head(s)) BY <1>2 DEF AllFinal
<1>4. ASSUME NEW k \in Int, Turn("checks", s, k)
      PROVE  /\ ChecksFirst(Tail(s))
             /\ ~Early("checks", Head(s)) => AllFinal(Tail(s))
  <2>1. Turn("checks", Tail(s), k - 1) /\ Placed("checks", Head(s), 1, k) BY <1>4, TailTurn
  <2>2. ChecksFirst(Tail(s)) BY <2>1 DEF ChecksFirst
  <2>3. ASSUME ~Early("checks", Head(s)), NEW i \in 1 .. Len(Tail(s))
        PROVE  Late("checks", Tail(s)[i])
    <3>1. k <= 1 BY <2>1, <2>3 DEF Placed
    <3>2. Placed("checks", Tail(s)[i], i, k - 1) BY <2>1 DEF Turn
    <3> QED BY <1>2, <3>1, <3>2 DEF Placed
  <2> QED BY <2>2, <2>3 DEF AllFinal
<1> QED BY <1>3, <1>4 DEF ChecksFirst

\* At a check, nothing has been done yet.
LEMMA ChecksAreFirst ==
  ASSUME Progress, req.stage = "handling", req.todo # << >>, ~Late("checks", Head(req.todo))
  PROVE  req.did = {}
<1>1. IsSeq(req.todo) BY DEF Progress, ChecksFirst, Turn
<1> QED BY <1>1, TailFinal DEF Progress

LEMMA ServeProgresses == ASSUME Progress, Serve PROVE Progress'
<1> DEFINE i == NextFit(req.at, req.method, req.path)
<1>1. req.stage = "routing" /\ Routed(i) BY ServeSteps DEF Progress
<1> HIDE DEF i
<1>2. req'.did = {} BY <1>1 DEF Routed, Aside, Progress
<1>3. \A h \in DOMAIN StepsOf : ChecksFirst(StepsOf[h]) BY StepsOfOrderly DEF Orderly
<1> QED BY <1>1, <1>2, <1>3 DEF Routed, Progress, RefusedDoesNothing

LEMMA HandleProgresses == ASSUME Progress, Handle PROVE Progress'
<1>0. Shape /\ req.stage = "handling" BY OnlyHandling DEF Progress
<1>1. ChecksFirst(req.todo) /\ IsSeq(req.todo) BY <1>0 DEF Progress, ChecksFirst, Turn
<1>2. CASE GoesOn
  <2>1. ChecksFirst(Tail(req.todo)) BY <1>1, <1>2, TailFinal DEF GoesOn
  <2>2. req'.did # {} => AllFinal(Tail(req.todo))
    <3>1. req.did # {} => AllFinal(Tail(req.todo))
      BY <1>0, <1>1, <1>2, TailFinal DEF Progress, GoesOn
    <3>2. Op(Head(req.todo)) # {} => ~Early("checks", Head(req.todo)) BY DEF Op, Early, Effects
    <3> QED BY <1>1, <1>2, <3>1, <3>2, TailFinal DEF GoesOn, Advance
  <2> QED BY <1>2, <2>1, <2>2 DEF GoesOn, Advance, Progress, Shape, RefusedDoesNothing
<1>3. CASE Stops
  <2>1. RefusedDoesNothing'
    <3> SUFFICES ASSUME Refused(req'.status) PROVE req'.did = {}
      BY DEF Refused, RefusedDoesNothing
    <3>1. req.todo # << >> /\ ~Late("checks", Head(req.todo)) /\ req'.did = req.did
      BY <1>3 DEF Stops, Late
    <3> QED BY <1>0, <3>1, ChecksAreFirst
  <2> QED BY <1>3, <2>1 DEF Stops, Progress
<1> QED BY <1>0, <1>2, <1>3, HandleSteps

LEMMA OthersProgress ==
  /\ ClientAsks => Progress'
  /\ Progress /\ Meanwhile => Progress'
  /\ Progress /\ UNCHANGED req => Progress'
<1>1. ASSUME ClientAsks PROVE Progress'
  BY <1>1, ClientBegins DEF Begins, Untouched, Progress, Shape, RefusedDoesNothing
<1>2. ASSUME Progress, Meanwhile PROVE Progress'
  BY <1>2 DEF Meanwhile, Progress, Shape, HasFields, RefusedDoesNothing
<1>3. ASSUME Progress, UNCHANGED req PROVE Progress'
  BY <1>3 DEF Progress, Shape, RefusedDoesNothing
<1> QED BY <1>1, <1>2, <1>3

LEMMA GatewayProgresses == ASSUME Progress, RequestsNext PROVE Progress'
BY ServeProgresses, HandleProgresses, OthersProgress DEF RequestsNext

-----------------------------------------------------------------------------
(* The chats: what is kept of a timer is what a message told of it. *)

Heard ==
  /\ \A w \in Watched : expCache[w] \in told[w] \cup {0}
  /\ \A i \in DOMAIN events : events[i].timer \in told[events[i].of] \cup {0}
  /\ \A w \in Watched : onRecord[w] => expCache[w] = setting[w]

ChatsInv == ExpirationTypeOK /\ Heard

\* Nothing is unheard, and a setting that stays on record stays.
Onwards == \A w \in Watched : /\ told[w] \subseteq told'[w]
                              /\ onRecord[w] /\ onRecord'[w] => setting'[w] = setting[w]

LEMMA ChatsInit == ExpirationInit => ChatsInv
<1> SUFFICES ASSUME ExpirationInit PROVE ChatsInv OBVIOUS
<1> DEFINE none == << >>
<1>1. none \in Seq(Event) /\ Len(none) = 0 /\ DOMAIN none = {} OBVIOUS
<1>2. events = none BY DEF ExpirationInit
<1> HIDE DEF none
<1> QED BY <1>1, <1>2, ExpirationAssumption DEF ExpirationInit, ChatsInv, ExpirationTypeOK, Heard

LEMMA EventsAre ==
  ASSUME ExpirationTypeOK, NEW i \in DOMAIN events
  PROVE  /\ events[i] \in Event /\ events[i].of \in Watched
         /\ events[i].timer \in Timers \cup {0} /\ events[i].late \in BOOLEAN
<1>1. events \in Seq(Event) BY DEF ExpirationTypeOK
<1>2. events[i] \in Event BY <1>1
<1> QED BY <1>2 DEF Event

LEMMA MessageKept ==
  ASSUME ChatsInv, NEW w \in Watched, NEW kind, Message(w, kind) PROVE ChatsInv' /\ Onwards
<1> DEFINE timer == ExtractExpiration(kind, setting[w])
           e == [of |-> w, timer |-> timer, late |-> FALSE]
<1>1. timer \in Timers \cup {0} BY DEF ExtractExpiration, ChatsInv, ExpirationTypeOK
<1>2. /\ events' = Append(events, e) /\ told' = [told EXCEPT ![w] = @ \cup ({timer} \ {0})]
      /\ Len(events) < MaxEvents /\ UNCHANGED <<setting, changes, expCache, onRecord>>
  BY DEF Message
<1> HIDE DEF timer
<1>3. e \in Event /\ e.of = w /\ e.timer = timer BY <1>1 DEF Event
<1> HIDE DEF e
<1>4. events \in Seq(Event) /\ told \in [Watched -> SUBSET Timers]
  BY DEF ChatsInv, ExpirationTypeOK
<1>5. /\ events' \in Seq(Event) /\ Len(events') = Len(events) + 1
      /\ \A i \in DOMAIN events' : events'[i] = e \/ (i \in DOMAIN events /\ events'[i] = events[i])
  BY <1>2, <1>3, <1>4
<1>6. /\ told' \in [Watched -> SUBSET Timers] /\ timer \in told'[w] \cup {0}
      /\ \A v \in Watched : told[v] \subseteq told'[v]
  BY <1>1, <1>2, <1>4
<1>7. ExpirationTypeOK'
  <2>1. Len(events') <= MaxEvents BY <1>2, <1>4, <1>5, ExpirationAssumption
  <2> QED BY <1>2, <1>5, <1>6, <2>1 DEF ChatsInv, ExpirationTypeOK
<1>8. Heard'
  <2>1. \A i \in DOMAIN events' : events'[i].timer \in told'[events'[i].of] \cup {0}
    <3>1. \A i \in DOMAIN events : events[i].of \in Watched BY EventsAre DEF ChatsInv
    <3> QED BY <1>3, <1>5, <1>6, <3>1 DEF ChatsInv, Heard
  <2> QED BY <1>2, <1>6, <2>1 DEF ChatsInv, Heard
<1> QED BY <1>2, <1>6, <1>7, <1>8 DEF ChatsInv, Onwards

LEMMA ChangeTimerKept ==
  ASSUME ChatsInv, NEW w \in Watched, NEW timer \in Timers \cup {0}, ChangeTimer(w, timer)
  PROVE  ChatsInv' /\ Onwards
<1>1. ExpirationTypeOK' BY ExpirationAssumption DEF ChangeTimer, ChatsInv, ExpirationTypeOK
<1>2. Heard' /\ Onwards BY DEF ChangeTimer, ChatsInv, ExpirationTypeOK, Heard, Onwards
<1> QED BY <1>1, <1>2 DEF ChatsInv

LEMMA ChangeOwnerKept ==
  ASSUME ChatsInv, NEW n, NEW timer \in Timers \cup {0}, ChangeOwner(n, timer)
  PROVE  ChatsInv' /\ Onwards
<1> DEFINE its == {w \in Watched : w[1] = n}
<1>1. /\ changes' = changes + 1 /\ changes < MaxChanges
      /\ setting' = [w \in Watched |-> IF w \in its THEN timer ELSE setting[w]]
      /\ onRecord' = [w \in Watched |-> IF w \in its THEN FALSE ELSE onRecord[w]]
      /\ events' = [i \in DOMAIN events |-> IF events[i].of \in its
                                            THEN [events[i] EXCEPT !.late = TRUE] ELSE events[i]]
      /\ UNCHANGED <<told, expCache>>
  BY DEF ChangeOwner
<1> HIDE DEF its
<1>2. events \in Seq(Event) BY DEF ChatsInv, ExpirationTypeOK
<1>3. \A i \in DOMAIN events : /\ events'[i] \in Event /\ events'[i].of = events[i].of
                               /\ events'[i].timer = events[i].timer
  <2> SUFFICES ASSUME NEW i \in DOMAIN events
               PROVE  /\ events'[i] \in Event /\ events'[i].of = events[i].of
                      /\ events'[i].timer = events[i].timer
    OBVIOUS
  <2> DEFINE e == events[i]
  <2>1. e \in Event BY EventsAre DEF ChatsInv
  <2>2. events'[i] = e \/ events'[i] = [e EXCEPT !.late = TRUE] BY <1>1
  <2> HIDE DEF e
  <2>3. /\ events'[i] \in Event /\ events'[i].of = e.of /\ events'[i].timer = e.timer
    BY <2>1, <2>2 DEF Event
  <2> QED BY <2>3 DEF e
<1>4. events' \in Seq(Event) /\ Len(events') = Len(events) /\ DOMAIN events' = DOMAIN events
  <2>1. DOMAIN events = 1 .. Len(events) /\ Len(events) \in Nat BY <1>2
  <2> QED BY <1>1, <1>3, <2>1
<1>5. ExpirationTypeOK'
  <2>1. changes' \in 0 .. MaxChanges BY <1>1, ExpirationAssumption DEF ChatsInv, ExpirationTypeOK
  <2>2. setting' \in [Watched -> Timers \cup {0}] /\ onRecord' \in [Watched -> BOOLEAN]
    BY <1>1 DEF ChatsInv, ExpirationTypeOK
  <2> QED BY <1>1, <1>4, <2>1, <2>2 DEF ChatsInv, ExpirationTypeOK
<1>6. Heard' /\ Onwards BY <1>1, <1>3, <1>4 DEF ChatsInv, Heard, Onwards
<1> QED BY <1>5, <1>6 DEF ChatsInv

LEMMA DispatchMessageKept ==
  ASSUME ChatsInv, NEW i, DispatchMessage(i) PROVE ChatsInv' /\ Onwards
<1> DEFINE e == events[i]
<1>1. events \in Seq(Event) /\ DOMAIN events = 1 .. Len(events) /\ Len(events) \in Nat
  BY DEF ChatsInv, ExpirationTypeOK
<1>2. /\ i \in DOMAIN events /\ UNCHANGED <<setting, changes, told>>
      /\ events' = [j \in 1 .. Len(events) - 1 |-> IF j < i THEN events[j] ELSE events[j + 1]]
  BY DEF DispatchMessage
<1>3. e \in Event /\ e.of \in Watched /\ e.timer \in Timers \cup {0} /\ e.late \in BOOLEAN
  BY <1>2, EventsAre DEF ChatsInv
<1>4. e.timer \in told[e.of] \cup {0} BY <1>2 DEF ChatsInv, Heard
<1>5. \/ /\ e.timer > 0 /\ expCache' = [expCache EXCEPT ![e.of] = e.timer]
         /\ onRecord' = [onRecord EXCEPT ![e.of] = ~e.late /\ e.timer = setting[e.of]]
      \/ UNCHANGED <<expCache, onRecord>>
  BY DEF DispatchMessage, recordExpiration
<1> HIDE DEF e
<1>6. /\ events' \in Seq(Event) /\ Len(events') = Len(events) - 1
      /\ \A j \in DOMAIN events' : \E k \in DOMAIN events : events'[j] = events[k]
  BY <1>1, <1>2
<1>7. ExpirationTypeOK'
  <2>1. expCache' \in [Watched -> Timers \cup {0}] /\ onRecord' \in [Watched -> BOOLEAN]
    BY <1>3, <1>5 DEF ChatsInv, ExpirationTypeOK
  <2>2. Len(events') <= MaxEvents
    BY <1>1, <1>6, ExpirationAssumption DEF ChatsInv, ExpirationTypeOK
  <2> QED BY <1>2, <1>6, <2>1, <2>2 DEF ChatsInv, ExpirationTypeOK
<1>8. Heard'
  <2>1. \A w \in Watched : expCache'[w] \in told[w] \cup {0}
    BY <1>3, <1>4, <1>5 DEF ChatsInv, ExpirationTypeOK, Heard
  <2>2. \A w \in Watched : onRecord'[w] => expCache'[w] = setting[w]
    BY <1>3, <1>5 DEF ChatsInv, ExpirationTypeOK, Heard
  <2> QED BY <1>2, <1>6, <2>1, <2>2 DEF ChatsInv, Heard
<1> QED BY <1>2, <1>7, <1>8 DEF ChatsInv, Onwards

LEMMA ChatsKept == ASSUME ChatsInv, ExpirationNext PROVE ChatsInv' /\ Onwards
BY MessageKept, ChangeTimerKept, ChangeOwnerKept, DispatchMessageKept DEF ExpirationNext

LEMMA ChatsStay ==
  ASSUME UNCHANGED expirationVars PROVE (ChatsInv => ChatsInv') /\ Onwards
BY DEF expirationVars, chats, ChatsInv, ExpirationTypeOK, Heard, Onwards

-----------------------------------------------------------------------------
(* Integers that fit are kept. *)

LEMMA Fitting == ASSUME NEW n \in Nat \ {0}, NEW a \in Nat, a < n PROVE a % n = a
OBVIOUS

LEMMA WrapFits == ASSUME NEW h \in Nat \ {0}, NEW x \in -h .. h - 1 PROVE Wrap(h, x) = x
<1>1. 2 * h \in Nat \ {0} /\ x + h \in Nat /\ x + h < 2 * h OBVIOUS
<1>2. (x + h) % (2 * h) = x + h BY <1>1, Fitting
<1> QED BY <1>2 DEF Wrap

LEMMA EffectiveIs ==
  ASSUME NEW n, NEW jid
  PROVE  /\ effectiveExpiration(n, jid, {}) = ChatExpiration(n, jid)
         /\ \A x \in Int :
              FitsInt32(x) => effectiveExpiration(n, jid, {Int32(x)}) = IF x > 0 THEN x ELSE 0
<1>1. effectiveExpiration(n, jid, {}) = ChatExpiration(n, jid) BY DEF effectiveExpiration
<1>2. ASSUME NEW x \in Int, FitsInt32(x)
      PROVE  effectiveExpiration(n, jid, {Int32(x)}) = IF x > 0 THEN x ELSE 0
  <2>1. Half \in Nat \ {0} /\ x \in -Half .. Half - 1
    BY <1>2, ExpirationAssumption DEF FitsInt32
  <2>2. Int32(x) = x BY <2>1, WrapFits DEF Int32
  <2> DEFINE y == CHOOSE y \in {x} : TRUE
  <2>3. y = x OBVIOUS
  <2>4. x > 0 => UInt32(x) = x
    <3> SUFFICES ASSUME x > 0 PROVE UInt32(x) = x OBVIOUS
    <3>1. 2 * Half \in Nat \ {0} /\ x \in Nat /\ x < 2 * Half BY <2>1
    <3> QED BY <3>1, Fitting DEF UInt32
  <2>5. effectiveExpiration(n, jid, {x}) = IF y <= 0 THEN 0 ELSE UInt32(y)
    <3>1. {x} # {} OBVIOUS
    <3> QED BY <3>1, Zenon DEF effectiveExpiration
  <2> HIDE DEF y
  <2> QED BY <2>1, <2>2, <2>3, <2>4, <2>5
<1> QED BY <1>1, <1>2

-----------------------------------------------------------------------------
(* What the calls to WhatsApp are made with. *)

TimerRight ==
  LET w == <<req.name, req.jid>> IN
  IF req.asked = {}
  THEN /\ req.timer = 0 \/ (w \in Watched /\ req.timer \in told[w])
       /\ req.quiet => req.timer = setting[w]
  ELSE \A x \in req.asked : FitsInt32(x) => req.timer = IF x > 0 THEN x ELSE 0

SecondsRight ==
  \A x \in req.asked :
    x * Second \in -HalfDuration .. HalfDuration - 1 => req.timer = x * Second

GroupRight ==
  req.jid # NoJID /\ req.jid = parseGroupJID(ParamValue(req.at, req.path, ":gid"))

Right(m) == CASE m = "timer" -> TimerRight
              [] m = "seconds" -> SecondsRight
              [] m = "group" -> GroupRight
              [] m = "media" -> req.data # "cut"

\* Either m is right, or no call that needs it was made and none will be before the
\* step that decides it.
Settled(m) ==
  IF req.stage = "handling"
  THEN \E k \in Int : /\ Turn(m, req.todo, k)
                      /\ k > 0 => req.did \cap Calls(m) = {}
                      /\ k <= 0 => Right(m)
  ELSE req.did \cap Calls(m) = {} \/ Right(m)

\* A chat is quiet only while its timer is on record, and before it is known it
\* is not quiet.
Quiet ==
  /\ req.quiet \in BOOLEAN
  /\ req.quiet => OnRecord(req.name, req.jid)
  /\ req.stage = "handling" => \E k \in Int : Turn("chat", req.todo, k) /\ (k > 0 => ~req.quiet)

Decisions == {"timer", "seconds", "group", "media"}

Decisive ==
  /\ Shape /\ ChatsInv /\ Quiet
  /\ req.stage \in {"idle", "routing"} => req.did = {} /\ req.quiet = FALSE /\ req.data = "none"
  /\ \A m \in Decisions : Settled(m)

LEMMA EarlyDoesNot ==
  ASSUME NEW m \in Decisions, NEW step
  PROVE  /\ Early(m, step) => Op(step) \cap Calls(m) = {}
         /\ Decides(m, step) => Op(step) = {}
BY DEF Decisions, Early, Decides, Op, Does, Calls, GroupCalls

LEMMA GoesOnSettled ==
  ASSUME NEW m \in Decisions, req.stage = "handling", Settled(m), GoesOn,
         Late(m, Head(req.todo)) /\ Right(m) => Right(m)',
         Decides(m, Head(req.todo)) => Right(m)'
  PROVE  Settled(m)'
<1>1. PICK k \in Int : /\ Turn(m, req.todo, k)
                       /\ k > 0 => req.did \cap Calls(m) = {}
                       /\ k <= 0 => Right(m)
  BY DEF Settled
<1>2. /\ req'.stage = "handling" /\ req'.todo = Tail(req.todo) /\ req.todo # << >>
      /\ req'.did = req.did \cup Op(Head(req.todo))
  BY DEF GoesOn, Advance
<1>3. Turn(m, req'.todo, k - 1) /\ Placed(m, Head(req.todo), 1, k)
  BY <1>1, <1>2, TailTurn
<1>4. CASE k > 1
  <2>1. req'.did \cap Calls(m) = {} BY <1>1, <1>2, <1>3, <1>4, EarlyDoesNot DEF Placed
  <2> QED BY <1>2, <1>3, <1>4, <2>1 DEF Settled
<1>5. CASE k <= 1
  <2>1. Right(m)' BY <1>1, <1>3, <1>5 DEF Placed
  <2>2. k - 1 \in Int /\ k - 1 <= 0 BY <1>5
  <2> QED BY <1>2, <1>3, <2>1, <2>2 DEF Settled
<1> QED BY <1>4, <1>5

LEMMA StopsSettled ==
  ASSUME NEW m \in Decisions, req.stage = "handling", Settled(m), Stops, Right(m) => Right(m)'
  PROVE  Settled(m)'
<1>1. PICK k \in Int : /\ Turn(m, req.todo, k)
                       /\ k > 0 => req.did \cap Calls(m) = {}
                       /\ k <= 0 => Right(m)
  BY DEF Settled
<1>2. /\ req'.stage = "answered"
      /\ req'.did = req.did \/ (req.todo # << >> /\ req'.did = req.did \cup Op(Head(req.todo)))
  BY DEF Stops
<1>3. CASE k <= 0 BY <1>1, <1>2, <1>3 DEF Settled
<1>4. CASE k > 0
  <2>1. CASE req'.did = req.did BY <1>1, <1>2, <1>4, <2>1 DEF Settled
  <2>2. CASE req.todo # << >> /\ req'.did = req.did \cup Op(Head(req.todo))
    <3>1. Placed(m, Head(req.todo), 1, k) BY <1>1, <2>2, TailTurn
    <3>2. Op(Head(req.todo)) \cap Calls(m) = {} BY <1>4, <3>1, EarlyDoesNot DEF Placed
    <3> QED BY <1>1, <1>2, <1>4, <2>2, <3>2 DEF Settled
  <2> QED BY <1>2, <2>1, <2>2
<1> QED BY <1>3, <1>4

LEMMA TimerTakenRight ==
  ASSUME ChatsInv, Quiet, GoesOn, Head(req.todo).do = "timer", UNCHANGED expirationVars
  PROVE  TimerRight'
<1> DEFINE w == <<req.name, req.jid>>
<1>1. PICK asked \in {{}} \cup {{x} : x \in Asked} :
        /\ req'.asked = asked
        /\ req'.timer = effectiveExpiration(req.name, req.jid, {Int32(x) : x \in asked})
  BY DEF GoesOn, Advance, Decided, TimerTaken
<1>2. req'.name = req.name /\ req'.jid = req.jid /\ req'.quiet = req.quiet
  BY DEF GoesOn, Advance, Decided, Does
<1>3. told' = told /\ setting' = setting BY DEF expirationVars, chats
<1>4. CASE asked = {}
  <2>1. {Int32(x) : x \in asked} = {} BY <1>4
  <2>2. req'.timer = ChatExpiration(req.name, req.jid) BY <1>1, <2>1, EffectiveIs
  <2>3. CASE w \in Watched
    <3>1. req'.timer = expCache[w] BY <2>2, <2>3 DEF ChatExpiration
    <3>2. expCache[w] \in told[w] \cup {0} /\ (onRecord[w] => expCache[w] = setting[w])
      BY <2>3 DEF ChatsInv, Heard
    <3>3. req.quiet => onRecord[w] BY DEF Quiet, OnRecord
    <3> QED BY <1>1, <1>2, <1>3, <1>4, <2>3, <3>1, <3>2, <3>3 DEF TimerRight
  <2>4. CASE w \notin Watched
    <3>1. req'.timer = 0 BY <2>2, <2>4 DEF ChatExpiration
    <3>2. ~req.quiet BY <2>4 DEF Quiet, OnRecord
    <3> QED BY <1>1, <1>2, <1>4, <3>1, <3>2 DEF TimerRight
  <2> QED BY <2>3, <2>4
<1>5. ASSUME NEW x \in Asked, asked = {x} PROVE TimerRight'
  <2>1. {Int32(y) : y \in asked} = {Int32(x)} BY <1>5
  <2>2. x \in Int
    <3>1. Asked \subseteq Int BY RequestsAssumption
    <3> QED BY <3>1
  <2>3. FitsInt32(x) => req'.timer = IF x > 0 THEN x ELSE 0 BY <1>1, <2>1, <2>2, EffectiveIs
  <2> QED BY <1>1, <1>5, <2>3 DEF TimerRight, FitsInt32
<1> QED BY <1>1, <1>4, <1>5

LEMMA SecondsTakenRight ==
  ASSUME GoesOn, Head(req.todo).do = "seconds" PROVE SecondsRight'
<1>1. PICK s \in Asked : req'.asked = {s} /\ req'.timer = Wrap(HalfDuration, s * Second)
  BY DEF GoesOn, Advance, Decided, SecondsTaken
<1>2. HalfDuration \in Nat \ {0} /\ Second \in Nat /\ s \in Int
  <2>1. Asked \subseteq Int /\ HalfDuration \in Nat \ {0} /\ Second \in Nat \ {0}
    BY RequestsAssumption
  <2> QED BY <2>1
<1> DEFINE d == s * Second
<1>3. d \in -HalfDuration .. HalfDuration - 1 => req'.timer = d BY <1>1, <1>2, WrapFits
<1> QED BY <1>1, <1>3 DEF SecondsRight

LEMMA GroupTakenRight == ASSUME GoesOn, Head(req.todo).do = "group" PROVE GroupRight'
BY DEF GoesOn, Advance, Stays, Decided, GroupTaken, GroupRight

\* What was decided is left as it was.
LEMMA LateKeepsRight ==
  ASSUME NEW m \in Decisions, GoesOn, Late(m, Head(req.todo)), Right(m), UNCHANGED expirationVars
  PROVE  Right(m)'
<1> DEFINE step == Head(req.todo)
<1>1. Stays(req') /\ Decided(req') BY DEF GoesOn, Advance
<1>2. CASE m = "timer"
  <2>1. step.do \notin {"resolve", "chat", "group", "timer", "seconds"} /\ ~Does(step, "Upload")
    BY <1>2 DEF Late
  <2>2. /\ req'.name = req.name /\ req'.jid = req.jid /\ req'.asked = req.asked
        /\ req'.timer = req.timer /\ req'.quiet = req.quiet
    BY <1>1, <2>1 DEF Decided
  <2>3. told' = told /\ setting' = setting BY DEF expirationVars, chats
  <2>4. TimerRight BY <1>2 DEF Right
  <2>5. TimerRight' BY <2>2, <2>3, <2>4 DEF TimerRight
  <2> QED BY <1>2, <2>5 DEF Right
<1>3. CASE m = "seconds"
  <2>1. req'.asked = req.asked /\ req'.timer = req.timer BY <1>1, <1>3 DEF Late, Decided
  <2>2. SecondsRight BY <1>3 DEF Right
  <2>3. SecondsRight' BY <2>1, <2>2 DEF SecondsRight
  <2> QED BY <1>3, <2>3 DEF Right
<1>4. CASE m = "group"
  <2>1. req'.jid = req.jid /\ req'.at = req.at /\ req'.path = req.path
    BY <1>1, <1>4 DEF Late, Decided, Stays
  <2>2. GroupRight BY <1>4 DEF Right
  <2>3. GroupRight' BY <2>1, <2>2 DEF GroupRight
  <2> QED BY <1>4, <2>3 DEF Right
<1>5. CASE m = "media"
  <2>1. req'.data \in {req.data, "whole"} BY <1>1, <1>5 DEF Late, Decided
  <2>2. req'.data # "cut" BY <1>5, <2>1 DEF Right
  <2> QED BY <1>5, <2>2 DEF Right
<1> QED BY <1>2, <1>3, <1>4, <1>5 DEF Decisions

LEMMA GoesOnQuiet ==
  ASSUME Quiet, req.stage = "handling", GoesOn, UNCHANGED expirationVars PROVE Quiet'
<1> DEFINE step == Head(req.todo)
<1>1. PICK k \in Int : Turn("chat", req.todo, k) /\ (k > 0 => ~req.quiet) BY DEF Quiet
<1>2. req'.stage = "handling" /\ req'.todo = Tail(req.todo) /\ Decided(req')
  BY DEF GoesOn, Advance
<1>3. Turn("chat", req'.todo, k - 1) /\ Placed("chat", step, 1, k)
  BY <1>1, TailTurn DEF GoesOn
<1>4. \A n, jid : OnRecord(n, jid)' = OnRecord(n, jid)
  BY DEF OnRecord, expirationVars
<1>5. CASE step.do = "chat" \/ Does(step, "Upload")
  <2>1. req'.quiet = OnRecord(req'.name, req'.jid) BY <1>2, <1>5 DEF Decided
  <2>2. k <= 1 BY <1>3, <1>5 DEF Placed, Early, Calls
  <2>3. k - 1 \in Int /\ ~(k - 1 > 0) BY <2>2
  <2> QED BY <1>2, <1>3, <1>4, <2>1, <2>3 DEF Quiet, OnRecord
<1>6. CASE ~(step.do = "chat" \/ Does(step, "Upload"))
  <2>1. req'.quiet = req.quiet BY <1>2, <1>6 DEF Decided
  <2>2. k <= 0 => req'.name = req.name /\ req'.jid = req.jid
    BY <1>2, <1>3, <1>6 DEF Decided, Placed, Late
  <2>3. onRecord' = onRecord BY DEF expirationVars
  <2>5. req.quiet => OnRecord(req.name, req.jid)' BY <1>1, <2>2, <2>3 DEF Quiet, OnRecord
  <2>4. k - 1 \in Int /\ (k - 1 > 0 => ~req'.quiet) BY <1>1, <2>1
  <2> QED BY <1>2, <1>3, <2>1, <2>4, <2>5 DEF Quiet
<1> QED BY <1>5, <1>6

LEMMA HandleDecisive ==
  ASSUME Decisive, Handle, UNCHANGED expirationVars PROVE Decisive'
<1>1. Shape /\ req.stage = "handling" BY OnlyHandling DEF Decisive
<1>2. ChatsInv' BY ChatsStay DEF Decisive
<1>3. CASE GoesOn
  <2>1. Shape' /\ req'.stage = "handling" BY <1>3 DEF GoesOn, Advance, Shape
  <2>2. Quiet' BY <1>1, <1>3, GoesOnQuiet DEF Decisive
  <2>3. ASSUME NEW m \in Decisions PROVE Settled(m)'
    <3>1. Late(m, Head(req.todo)) /\ Right(m) => Right(m)' BY <1>3, LateKeepsRight
    <3>2. Decides(m, Head(req.todo)) => Right(m)'
      BY <1>3, TimerTakenRight, SecondsTakenRight, GroupTakenRight
      DEF Decisive, Decides, Decisions, Right
    <3> QED BY <1>1, <1>3, <3>1, <3>2, GoesOnSettled DEF Decisive
  <2> QED BY <1>2, <2>1, <2>2, <2>3 DEF Decisive
<1>4. CASE Stops
  <2>1. /\ Shape' /\ req'.stage = "answered" /\ req'.at = req.at /\ req'.path = req.path
        /\ req'.name = req.name /\ req'.jid = req.jid /\ req'.asked = req.asked
        /\ req'.timer = req.timer /\ req'.quiet = req.quiet /\ req'.data = req.data
    BY <1>4 DEF Stops, Stays
  <2>2. told' = told /\ setting' = setting /\ onRecord' = onRecord BY DEF expirationVars, chats
  <2>3. Quiet' BY <2>1, <2>2 DEF Decisive, Quiet, OnRecord
  <2>4. ASSUME NEW m \in Decisions PROVE Settled(m)'
    <3>1. Right(m) => Right(m)'
      BY <2>1, <2>2 DEF Right, TimerRight, SecondsRight, GroupRight
    <3> QED BY <1>1, <1>4, <3>1, StopsSettled DEF Decisive
  <2> QED BY <1>2, <2>1, <2>3, <2>4 DEF Decisive
<1> QED BY <1>1, <1>3, <1>4, HandleSteps

LEMMA ServeDecisive ==
  ASSUME Decisive, Serve, UNCHANGED expirationVars PROVE Decisive'
<1> DEFINE i == NextFit(req.at, req.method, req.path)
<1>1. req.stage = "routing" /\ Routed(i) BY ServeSteps DEF Decisive
<1> HIDE DEF i
<1>2. /\ Shape' /\ req'.did = {} /\ req'.quiet = FALSE /\ req'.data = "none"
      /\ req'.stage \in {"routing", "answered", "handling"}
  BY <1>1 DEF Decisive, Routed, Aside
<1>3. ChatsInv' BY ChatsStay DEF Decisive
<1>4. CASE req'.stage # "handling"
  <2>1. \A m \in Decisions : Settled(m)' BY <1>2, <1>4 DEF Settled
  <2> QED BY <1>2, <1>3, <1>4, <2>1 DEF Decisive, Quiet
<1>5. CASE req'.stage = "handling"
  <2>1. PICK h \in DOMAIN StepsOf : req'.todo = StepsOf[h] BY <1>1, <1>5 DEF Routed
  <2>2. Orderly(req'.todo) BY <2>1, StepsOfOrderly
  <2>3. Quiet' BY <1>2, <1>5, <2>2 DEF Quiet, Orderly
  <2>4. ASSUME NEW m \in {"timer", "seconds", "group"} PROVE Settled(m)'
    BY <1>2, <1>5, <2>2 DEF Settled, Orderly
  <2>5. Settled("media")' BY <1>2, <1>5, <2>2 DEF Settled, Orderly, Right
  <2> QED BY <1>2, <1>3, <1>5, <2>3, <2>4, <2>5 DEF Decisive, Decisions
<1> QED BY <1>4, <1>5

LEMMA BeginsDecisive ==
  ASSUME Decisive, Begins, UNCHANGED expirationVars PROVE Decisive'
<1>1. ChatsInv' BY ChatsStay DEF Decisive
<1>2. /\ Shape' /\ req'.did = {} /\ req'.quiet = FALSE /\ req'.data = "none"
      /\ req'.stage = "routing"
  BY DEF Begins, Untouched, Shape
<1> QED BY <1>1, <1>2 DEF Decisive, Quiet, Settled

LEMMA MeanwhileDecisive == ASSUME Decisive, Meanwhile PROVE Decisive'
<1> DEFINE w == <<req.name, req.jid>>
<1>1. /\ req.stage = "handling" /\ ExpirationNext /\ req.asked = {} /\ w \in Watched
      /\ req' = [req EXCEPT !.quiet = req'.quiet] /\ Shape'
      /\ req'.quiet = (req.quiet /\ onRecord'[w])
  BY MeanwhileSteps DEF Decisive
<1>2. ChatsInv' /\ Onwards BY <1>1, ChatsKept DEF Decisive
<1>3. /\ req'.stage = req.stage /\ req'.todo = req.todo /\ req'.did = req.did
      /\ req'.name = req.name /\ req'.jid = req.jid /\ req'.asked = req.asked
      /\ req'.timer = req.timer /\ req'.data = req.data /\ req'.at = req.at
      /\ req'.path = req.path
  BY <1>1 DEF Decisive, Shape, HasFields
<1>4. req'.quiet \in BOOLEAN /\ (req'.quiet => req.quiet /\ onRecord'[w] /\ onRecord[w])
  BY <1>1 DEF Decisive, Quiet, OnRecord
<1>5. Quiet' BY <1>1, <1>3, <1>4 DEF Decisive, Quiet, OnRecord
<1>6. ASSUME NEW m \in Decisions PROVE Settled(m)'
  <2>1. TimerRight => TimerRight'
    <3>1. told[w] \subseteq told'[w] /\ (req'.quiet => setting'[w] = setting[w])
      BY <1>1, <1>2, <1>4 DEF Onwards
    <3> QED BY <1>1, <1>3, <1>4, <3>1 DEF TimerRight
  <2>2. Right(m) => Right(m)' BY <1>3, <2>1 DEF Right, SecondsRight, GroupRight, Decisions
  <2> QED BY <1>1, <1>3, <2>2 DEF Decisive, Settled
<1> QED BY <1>1, <1>2, <1>3, <1>5, <1>6 DEF Decisive

LEMMA GatewayDecisive == ASSUME Decisive, RequestsNext PROVE Decisive'
BY ServeDecisive, HandleDecisive, ClientBegins, BeginsDecisive, MeanwhileDecisive DEF RequestsNext

LEMMA StillDecisive == ASSUME Decisive, UNCHANGED <<req, expirationVars>> PROVE Decisive'
<1>1. ChatsInv' BY ChatsStay DEF Decisive
<1>2. req' = req /\ told' = told /\ setting' = setting /\ onRecord' = onRecord
  BY DEF expirationVars, chats
<1>3. Quiet' /\ Shape' BY <1>2 DEF Decisive, Shape, Quiet, OnRecord
<1>4. \A m \in Decisions : Right(m) => Right(m)'
  <2>1. TimerRight => TimerRight' BY <1>2 DEF TimerRight
  <2>2. (SecondsRight => SecondsRight') /\ (GroupRight => GroupRight')
    BY <1>2 DEF SecondsRight, GroupRight
  <2> QED BY <1>2, <2>1, <2>2 DEF Right, Decisions
<1>5. \A m \in Decisions : Settled(m)' BY <1>2, <1>4 DEF Decisive, Settled
<1> QED BY <1>1, <1>2, <1>3, <1>5 DEF Decisive

LEMMA InitDecisive == RequestsInit => Decisive
BY IdleUntouched, ChatsInit DEF RequestsInit, Untouched, Shape, Decisive, Quiet, Settled

LEMMA DecisiveMeans ==
  ASSUME Decisive
  PROVE  SendTimers /\ FreshTimers /\ CutMediaIsNotSent
         /\ (req.did \cap GroupCalls # {} => GroupRight)
<1>1. \A m \in Decisions : req.did \cap Calls(m) # {} => Right(m) BY DEF Decisive, Settled
<1>2. "SendMessage" \in req.did => TimerRight BY <1>1 DEF Decisions, Calls, Right
<1>3. "SetDisappearingTimer" \in req.did => SecondsRight BY <1>1 DEF Decisions, Calls, Right
<1>4. req.did \cap GroupCalls # {} => GroupRight BY <1>1 DEF Decisions, Calls, Right
<1>5. SendTimers BY <1>2, <1>3 DEF SendTimers, TimerRight, SecondsRight
<1>6. FreshTimers BY <1>2 DEF FreshTimers, TimerRight
<1>7. CutMediaIsNotSent BY <1>1 DEF CutMediaIsNotSent, Decisions, Calls, Right
<1> QED BY <1>4, <1>5, <1>6, <1>7

-----------------------------------------------------------------------------
(* No handler but the public ones begins without a key. *)

Keyed == /\ Shape /\ req.at \in {0} \cup DOMAIN routes
         /\ req.at # 0 => Fits(routes[req.at], req.method, req.path)
         /\ req.stage = "handling" \/ req.did # {} => req.at # 0
         /\ req.stage = "routing" => req.at = 0 \/ req.key = TRUE
         /\ NothingWithoutKey

LEMMA NoHandler ==
  /\ Middlewares \cap DOMAIN StepsOf = {} /\ "none" \notin DOMAIN StepsOf
  /\ 0 \notin DOMAIN routes
<1>1. Middlewares \cap DOMAIN StepsOf = {} /\ "none" \notin DOMAIN StepsOf
  BY DEF Middlewares, StepsOf
<1> QED BY <1>1, RoutesDomain

LEMMA ServeKeyed == ASSUME Keyed, Serve PROVE Keyed'
<1> DEFINE i == NextFit(req.at, req.method, req.path)
<1>1. req.stage = "routing" /\ Routed(i) BY ServeSteps DEF Keyed
<1>2. req.at = 0 /\ i # 0 => Open(routes[i]) BY FirstIsOpen
<1>3. i # 0 => Fits(routes[i], req.method, req.path) BY NextFitIs
<1> HIDE DEF i
<1>4. Shape' /\ req'.method = req.method /\ req'.path = req.path /\ req'.did = req.did
  BY <1>1 DEF Routed, Aside
<1>5. CASE i = 0
  <2>1. req'.at = req.at /\ req'.key = req.key /\ req'.stage = "answered"
    BY <1>1, <1>5 DEF Routed
  <2> QED BY <1>4, <2>1 DEF Keyed, NothingWithoutKey, Handler
<1>6. ASSUME i # 0, NothingWithoutKey', req'.stage = "routing" => req'.key = TRUE PROVE Keyed'
  <2>1. req'.at = i /\ i \in DOMAIN routes BY <1>1, <1>6 DEF Routed
  <2> QED BY <1>3, <1>4, <1>6, <2>1 DEF Keyed
<1>7. CASE i # 0 /\ routes[i].handler \in Middlewares
  <2>1. req'.at = i /\ (req'.stage = "routing" => req'.key = TRUE)
    BY <1>1, <1>7, NoHandler DEF Routed
  <2>2. Handler' \in Middlewares BY <1>7, <2>1 DEF Handler
  <2>3. NothingWithoutKey' BY <2>2, NoHandler DEF NothingWithoutKey
  <2> QED BY <1>6, <1>7, <2>1, <2>3
<1>8. CASE i # 0 /\ routes[i].handler \in DOMAIN StepsOf
  <2>1. req'.at = i /\ req'.stage = "handling" /\ req'.key = req.key
    BY <1>1, <1>8, NoHandler DEF Routed
  <2>2. Handler' = routes[i].handler BY <1>8, <2>1 DEF Handler
  <2>3. req.at = 0 => routes[i].handler \in Public BY <1>2, <1>8, NoHandler DEF Open
  <2>4. NothingWithoutKey' BY <1>1, <2>1, <2>2, <2>3 DEF NothingWithoutKey, Keyed, Public
  <2> QED BY <1>6, <1>8, <2>1, <2>4
<1> QED BY <1>1, <1>5, <1>7, <1>8 DEF Routed

\* What leaves the entry and the key alone.
LEMMA SameKeyed ==
  ASSUME Keyed, Shape', req'.at = req.at, req'.key = req.key,
         req'.method = req.method, req'.path = req.path,
         req.stage = "handling" \/ (req'.stage = req.stage /\ req'.did = req.did),
         req'.stage # "routing" \/ req' = req
  PROVE  Keyed'
BY DEF Keyed, NothingWithoutKey, Handler

LEMMA BeginsKeyed == Begins => Keyed'
BY NoHandler DEF Begins, Untouched, Keyed, Shape, NothingWithoutKey, Handler

LEMMA GatewayKeyed == ASSUME Keyed, RequestsNext PROVE Keyed'
<1>1. Shape BY DEF Keyed
<1>2. CASE Handle
  <2>1. /\ Shape' /\ req'.at = req.at /\ req'.key = req.key /\ req.stage = "handling"
        /\ req'.method = req.method /\ req'.path = req.path
        /\ req'.stage \in {"handling", "answered"}
    BY <1>1, <1>2, OnlyHandling, HandleSteps DEF GoesOn, Advance, Stops, Stays, Shape
  <2> QED BY <2>1, SameKeyed
<1>3. CASE Meanwhile
  <2>1. /\ Shape' /\ req'.at = req.at /\ req'.key = req.key /\ req.stage = "handling"
        /\ req'.method = req.method /\ req'.path = req.path /\ req'.stage = "handling"
    BY <1>1, <1>3, MeanwhileSteps DEF Shape, HasFields
  <2> QED BY <2>1, SameKeyed
<1> QED BY <1>2, <1>3, ServeKeyed, ClientBegins, BeginsKeyed DEF RequestsNext

LEMMA StillKeyed == ASSUME Keyed, UNCHANGED req PROVE Keyed'
BY SameKeyed DEF Keyed, Shape

LEMMA InitKeyed == RequestsInit => Keyed
BY IdleUntouched, NoHandler
DEF RequestsInit, Untouched, Shape, Keyed, NothingWithoutKey, Handler

-----------------------------------------------------------------------------
(* Which group a call is about. *)

\* parseGroupJID only makes JIDs of groups, of the user that the text names.
LEMMA GroupJID ==
  ASSUME NEW text, parseGroupJID(text) # NoJID
  PROVE  /\ ~Unparsed(Written[text])
         /\ parseGroupJID(text) = [user |-> Written[text].user, server |-> GroupServer]
<1> DEFINE w == Written[text]
           jid == [user |-> w.user, server |-> GroupServer]
<1>1. parseGroupJID(text) = IF Unparsed(w) \/ w.server \in Servers \ {GroupServer}
                            THEN NoJID ELSE jid
  BY DEF parseGroupJID
<1> HIDE DEF w, jid
<1>2. ~Unparsed(w) /\ parseGroupJID(text) = jid BY <1>1
<1> QED BY <1>2 DEF w, jid

LEMMA ParamIs ==
  ASSUME NEW i, NEW path, NEW name, NEW j \in DOMAIN routes[i].pattern,
         routes[i].pattern[j] = name,
         \A k \in DOMAIN routes[i].pattern : routes[i].pattern[k] = name => k = j
  PROVE  ParamValue(i, path, name) = path[j]
<1> DEFINE at == {k \in DOMAIN routes[i].pattern : routes[i].pattern[k] = name}
           first == CHOOSE k \in at : TRUE
<1>1. at = {j} OBVIOUS
<1>2. first = j BY <1>1
<1>3. ParamValue(i, path, name) = path[first] BY <1>1, Zenon DEF ParamValue
<1> HIDE DEF first
<1> QED BY <1>2, <1>3

LEMMA ParamIsNot ==
  ASSUME NEW i, NEW path, NEW name,
         \A k \in DOMAIN routes[i].pattern : routes[i].pattern[k] # name
  PROVE  ParamValue(i, path, name) = ""
<1> DEFINE at == {k \in DOMAIN routes[i].pattern : routes[i].pattern[k] = name}
<1>1. at = {} OBVIOUS
<1> QED BY <1>1, Zenon DEF ParamValue

LEMMA TrimmedIs ==
  ASSUME NEW path, IsSeq(path)
  PROVE  /\ Len(path) \in Nat /\ Len(Trimmed(path)) \in Nat
         /\ Len(path) - 1 <= Len(Trimmed(path)) /\ Len(Trimmed(path)) <= Len(path)
         /\ \A i \in 1 .. Len(Trimmed(path)) : Trimmed(path)[i] = path[i]
<1>1. PICK S : path \in Seq(S) BY DEF IsSeq
<1>2. CASE path # << >> /\ path[Len(path)] = ""
  <2>1. path # << >> BY <1>2
  <2>2. Len(path) \in Nat \ {0} BY <1>1, <2>1
  <2> DEFINE n == Len(path) - 1
             cut == SubSeq(path, 1, n)
  <2>3. n \in Nat /\ n <= Len(path) BY <2>2
  <2>4. /\ Len(cut) = Len(path) - 1
        /\ \A i \in 1 .. Len(path) - 1 : cut[i] = path[i]
    <3> HIDE DEF n
    <3>1. Len(cut) = n /\ \A i \in 1 .. n : cut[i] = path[i] BY <1>1, <2>3
    <3> QED BY <3>1 DEF n
  <2>5. Trimmed(path) = cut BY <1>2 DEF Trimmed
  <2> HIDE DEF cut
  <2> QED BY <2>2, <2>4, <2>5
<1>3. CASE ~(path # << >> /\ path[Len(path)] = "")
  <2>1. Trimmed(path) = path BY <1>3 DEF Trimmed
  <2> QED BY <1>1, <2>1
<1> QED BY <1>2, <1>3

\* A blank text is parsed as nothing.
LEMMA BlankUnparsed == Unparsed(Written[""])
<1>1. Written[""] = [user |-> "", server |-> "none"] BY RequestsAssumption, Zenon
<1>2. \A b, w : w = [user |-> b, server |-> "none"] => w.user = b /\ w.server = "none"
  OBVIOUS
<1>3. Written[""].user = "" /\ Written[""].server = "none" BY <1>1, <1>2, Zenon
<1> QED BY <1>3, Zenon DEF Unparsed

\* A handler finds a group only under the path of a group, in its fourth place.
LEMMA GroupAsked ==
  ASSUME Keyed, req.at # 0, IsSeq(req.path),
         parseGroupJID(ParamValue(req.at, req.path, ":gid")) # NoJID
  PROVE  /\ Len(req.path) > 4 \/ (Len(req.path) = 4 /\ req.method = "GET")
         /\ Folded(req.path[3]) = "groups"
         /\ ParamValue(req.at, req.path, ":gid") = req.path[4]
<1> DEFINE r == routes[req.at]
           p == Trimmed(req.path)
<1>1. req.at \in DOMAIN routes /\ Fits(r, req.method, req.path) BY DEF Keyed
<1>2. GroupPlace(r) BY <1>1, RoutesDomain, RoutesGuarded DEF Guarded, Proper
<1>3. ~Free(r.pattern)
  <2> SUFFICES ASSUME Free(r.pattern) PROVE FALSE OBVIOUS
  <2>1. ParamValue(req.at, req.path, ":gid") = "" BY ParamIsNot DEF Free
  <2>2. parseGroupJID("") # NoJID BY <2>1
  <2> QED BY <2>2, BlankUnparsed, GroupJID
<1>4. /\ IsSeq(r.pattern) /\ r.method # "USE"
      /\ Len(r.pattern) > 4 \/ (Len(r.pattern) = 4 /\ r.method = "GET")
      /\ r.pattern[3] = "groups" /\ r.pattern[4] = ":gid"
      /\ \A i \in DOMAIN r.pattern : r.pattern[i] = ":gid" => i = 4
  BY <1>2, <1>3 DEF GroupPlace
<1>5. /\ r.method = req.method /\ Len(r.pattern) = Len(p)
      /\ \A i \in DOMAIN r.pattern : SegmentFits(r.pattern[i], p[i])
  BY <1>1, <1>4 DEF Fits
<1>6. ASSUME NEW s, s = r.pattern
      PROVE  DOMAIN s = 1 .. Len(s) /\ Len(s) \in Nat /\ 3 \in DOMAIN s /\ 4 \in DOMAIN s
  <2>1. PICK S : s \in Seq(S) BY <1>4, <1>6 DEF IsSeq
  <2>2. DOMAIN s = 1 .. Len(s) /\ Len(s) \in Nat BY <2>1
  <2>3. Len(s) >= 4 BY <1>4, <1>6, <2>2
  <2> QED BY <2>2, <2>3
<1>7. 3 \in DOMAIN r.pattern /\ 4 \in DOMAIN r.pattern /\ Len(r.pattern) \in Nat BY <1>6
<1>8. Folded(p[3]) = "groups" BY <1>4, <1>5, <1>7 DEF SegmentFits, Params
<1>9. ParamValue(req.at, req.path, ":gid") = req.path[4]
  <2> DEFINE at == req.at
             pattern == routes[at].pattern
  <2>1. 4 \in DOMAIN pattern /\ pattern[4] = ":gid"
    BY <1>4, <1>7
  <2>2. \A k \in DOMAIN pattern : pattern[k] = ":gid" => k = 4 BY <1>4
  <2> HIDE DEF at
  <2>3. ParamValue(at, req.path, ":gid") = req.path[4] BY <2>1, <2>2, ParamIs
  <2> QED BY <2>3 DEF at
<1> HIDE DEF r, p
<1>10. /\ Len(req.path) \in Nat /\ Len(p) <= Len(req.path)
       /\ \A i \in 1 .. Len(p) : p[i] = req.path[i]
  BY TrimmedIs DEF p
<1>11. Len(p) > 4 \/ (Len(p) = 4 /\ req.method = "GET") BY <1>4, <1>5
<1>12. Len(p) \in Nat /\ 3 \in 1 .. Len(p) BY <1>5, <1>7, <1>11
<1>13. Folded(req.path[3]) = "groups" BY <1>8, <1>10, <1>12
<1>14. Len(req.path) > 4 \/ (Len(req.path) = 4 /\ req.method = "GET")
  <2> DEFINE m == Len(p)
             n == Len(req.path)
  <2>1. m \in Nat /\ n \in Nat /\ m <= n BY <1>10, <1>12
  <2>2. m > 4 \/ (m = 4 /\ req.method = "GET") BY <1>11
  <2> HIDE DEF m, n
  <2>3. n > 4 \/ (n = 4 /\ req.method = "GET") BY <2>1, <2>2
  <2> QED BY <2>3 DEF n
<1> QED BY <1>9, <1>13, <1>14
-----------------------------------------------------------------------------
(* Types.  What is parsed must be a text, or it is not known what it names. *)

LEMMA ParsedTyped ==
  ASSUME NEW text \in Texts
  PROVE  parseJID(text) \in JIDs \cup {NoJID} /\ parseGroupJID(text) \in JIDs \cup {NoJID}
<1> DEFINE w == Written[text]
           users == {Written[t].user : t \in Texts}
           refused == Unparsed(w)
<1>1. w \in [user : STRING, server : Servers \cup {"none", "malformed"}]
  BY RequestsAssumption
<1>2. w.user \in users OBVIOUS
<1>3. UserServer \in Servers /\ GroupServer \in Servers BY DEF Servers
<1>4. JIDs = [user : users, server : Servers] BY DEF JIDs
<1>5. /\ refused => parseJID(text) = NoJID
      /\ ~refused /\ w.server = "none" =>
           parseJID(text) = [user |-> w.user, server |-> UserServer]
      /\ ~refused /\ w.server # "none" => parseJID(text) = w
  <2>1. parseJID(text) = CASE refused -> NoJID
                           [] ~refused /\ w.server = "none" ->
                                [user |-> w.user, server |-> UserServer]
                           [] OTHER -> w
    BY Zenon DEF parseJID
  <2> HIDE DEF refused, w
  <2> QED BY <2>1
<1>6. parseGroupJID(text) \in {NoJID, [user |-> w.user, server |-> GroupServer]}
  BY DEF parseGroupJID
<1>7. w.server = "malformed" => refused BY DEF Unparsed
<1> HIDE DEF w, users, refused
<1>8. ASSUME w.server \in Servers PROVE w \in JIDs
  <2>1. w = [user |-> w.user, server |-> w.server] BY <1>1
  <2> QED BY <1>2, <1>4, <1>8, <2>1
<1>9. ASSUME NEW server \in Servers PROVE [user |-> w.user, server |-> server] \in JIDs
  BY <1>2, <1>4, <1>9
<1>10. w.server \in Servers \cup {"none", "malformed"} BY <1>1
<1>11. parseJID(text) \in JIDs \cup {NoJID} BY <1>3, <1>5, <1>7, <1>8, <1>9, <1>10
<1>12. parseGroupJID(text) \in JIDs \cup {NoJID} BY <1>3, <1>6, <1>9
<1> QED BY <1>11, <1>12

LEMMA NumbersAre ==
  /\ Half \in Nat \ {0} /\ HalfDuration \in Nat \ {0} /\ Half <= HalfDuration
  /\ Timers \subseteq 1 .. Half - 1 /\ Asked \subseteq Int /\ Second \in Int
<1>1. Asked \subseteq Int BY RequestsAssumption, Zenon
<1>2. HalfDuration \in Nat \ {0} BY RequestsAssumption, Zenon
<1>3. Half <= HalfDuration BY RequestsAssumption, Zenon
<1>4. Second \in Nat \ {0} BY RequestsAssumption, Zenon
<1> QED BY <1>1, <1>2, <1>3, <1>4, ExpirationAssumption

LEMMA WrapTyped == ASSUME NEW h \in Nat \ {0}, NEW n \in Int PROVE Wrap(h, n) \in -h .. h - 1
<1>1. ASSUME NEW m \in Nat \ {0}, NEW a \in Int PROVE a % m \in 0 .. m - 1 OBVIOUS
<1>2. 2 * h \in Nat \ {0} /\ n + h \in Int OBVIOUS
<1>3. (n + h) % (2 * h) \in 0 .. 2 * h - 1 BY <1>1, <1>2
<1> DEFINE r == (n + h) % (2 * h)
<1>4. Wrap(h, n) = r - h BY DEF Wrap
<1>5. r \in 0 .. 2 * h - 1 BY <1>3
<1> HIDE DEF r
<1> QED BY <1>4, <1>5

LEMMA EffectiveTyped ==
  ASSUME ChatsInv, NEW n, NEW jid, NEW asked \in {{}} \cup {{x} : x \in Asked}
  PROVE  effectiveExpiration(n, jid, {Int32(x) : x \in asked}) \in 0 .. Half - 1
<1>1. Half \in Nat \ {0} /\ Timers \subseteq 1 .. Half - 1 /\ Asked \subseteq Int
  BY NumbersAre
<1>2. CASE asked = {}
  <2>1. {Int32(x) : x \in asked} = {} BY <1>2
  <2>2. effectiveExpiration(n, jid, {}) = ChatExpiration(n, jid) BY EffectiveIs
  <2>3. ChatExpiration(n, jid) \in Timers \cup {0}
    BY DEF ChatExpiration, ChatsInv, ExpirationTypeOK
  <2>4. ASSUME NEW v \in Timers \cup {0} PROVE v \in 0 .. Half - 1 BY <1>1
  <2>5. effectiveExpiration(n, jid, {}) \in 0 .. Half - 1 BY <2>2, <2>3, <2>4
  <2> QED BY <2>1, <2>5, Zenon
<1>3. ASSUME NEW x \in Asked, asked = {x}
      PROVE  effectiveExpiration(n, jid, {Int32(x)}) \in 0 .. Half - 1
  <2> DEFINE y == Int32(x)
             z == CHOOSE z \in {y} : TRUE
  <2>1. y \in -Half .. Half - 1 BY <1>1, WrapTyped DEF Int32
  <2>2. z = y OBVIOUS
  <2>3. effectiveExpiration(n, jid, {y}) = IF z <= 0 THEN 0 ELSE UInt32(z)
    <3>1. {y} # {} OBVIOUS
    <3> QED BY <3>1, Zenon DEF effectiveExpiration
  <2> HIDE DEF y, z
  <2>4. y > 0 => UInt32(y) = y
    <3> SUFFICES ASSUME y > 0 PROVE UInt32(y) = y OBVIOUS
    <3>1. 2 * Half \in Nat \ {0} /\ y \in Nat /\ y < 2 * Half BY <1>1, <2>1
    <3> QED BY <3>1, Fitting DEF UInt32
  <2>5. effectiveExpiration(n, jid, {y}) \in 0 .. Half - 1 BY <1>1, <2>1, <2>2, <2>3, <2>4
  <2> QED BY <2>5 DEF y
<1>4. ASSUME NEW x \in Asked, asked = {x} PROVE {Int32(v) : v \in asked} = {Int32(x)} BY <1>4
<1> QED BY <1>2, <1>3, <1>4

\* What a handler is about to take for a chat or a group is a text, or names none.
ChatIsText ==
  Doing("chat") => Values("chat_id") \subseteq Texts
GroupIsText ==
  LET text == ParamValue(req.at, req.path, ":gid") IN
  req.stage = "handling" => text \in Texts \/ parseGroupJID(text) = NoJID

LEMMA TimersTyped ==
  ASSUME ChatsInv, NEW r, TimerTaken(r) \/ SecondsTaken(r)
  PROVE  r.asked \in SUBSET Asked /\ r.timer \in -HalfDuration .. HalfDuration - 1
<1>1. /\ Half \in Nat \ {0} /\ HalfDuration \in Nat \ {0} /\ Half <= HalfDuration
      /\ Asked \subseteq Int /\ Second \in Int
  BY NumbersAre
<1>2. CASE TimerTaken(r)
  <2>1. PICK asked \in {{}} \cup {{x} : x \in Asked} :
          /\ r.asked = asked
          /\ r.timer = effectiveExpiration(req.name, req.jid, {Int32(x) : x \in asked})
    BY <1>2 DEF TimerTaken
  <2>2. effectiveExpiration(req.name, req.jid, {Int32(x) : x \in asked}) \in 0 .. Half - 1
    BY EffectiveTyped
  <2>3. r.timer \in 0 .. Half - 1 BY <2>1, <2>2, Zenon
  <2>4. r.asked \in SUBSET Asked BY <2>1
  <2> QED BY <1>1, <2>3, <2>4
<1>3. CASE SecondsTaken(r)
  <2>1. PICK s \in Asked : r.asked = {s} /\ r.timer = Wrap(HalfDuration, s * Second)
    BY <1>3 DEF SecondsTaken
  <2>2. s * Second \in Int BY <1>1
  <2> QED BY <1>1, <2>1, <2>2, WrapTyped
<1> QED BY <1>2, <1>3

LEMMA DecidedTyped ==
  ASSUME Shape, ChatsInv, RequestsTypeOK, ChatIsText, GroupIsText, req.stage = "handling",
         GoesOn
  PROVE  /\ req'.jid \in JIDs \cup {NoJID} /\ req'.asked \in SUBSET Asked
         /\ req'.timer \in -HalfDuration .. HalfDuration - 1
         /\ req'.data \in {"none", "whole", "cut"} /\ req'.body \in Bodies
<1> DEFINE step == Head(req.todo)
           r == req'
<1>1. Decided(r) /\ req.todo # << >> BY DEF GoesOn, Advance
<1>2. /\ req.jid \in JIDs \cup {NoJID} /\ req.asked \in SUBSET Asked
      /\ req.timer \in -HalfDuration .. HalfDuration - 1
      /\ req.data \in {"none", "whole", "cut"} /\ req.body \in Bodies
  BY DEF RequestsTypeOK
<1>3. /\ step.do \notin {"chat", "group"} => r.jid = req.jid
      /\ step.do = "chat" => ChatTaken(r)
      /\ step.do = "group" => GroupTaken(r)
  BY <1>1 DEF Decided
<1>4. /\ step.do \notin {"timer", "seconds"} => r.asked = req.asked /\ r.timer = req.timer
      /\ step.do = "timer" => TimerTaken(r)
      /\ step.do = "seconds" => SecondsTaken(r)
  BY <1>1 DEF Decided
<1>5. r.data \in {req.data, "whole", "cut"} /\ r.body \in BodyIn(Bodies) \cup {req.body}
  BY <1>1 DEF Decided
<1>6. BodyIn(Bodies) \subseteq Bodies BY <1>2 DEF BodyIn
<1>7. step.do = "chat" => Values("chat_id") \subseteq Texts BY <1>1 DEF ChatIsText, Doing
<1> HIDE DEF step, r
<1>8. r.jid \in JIDs \cup {NoJID}
  <2>1. CASE step.do \notin {"chat", "group"} BY <1>2, <1>3, <2>1
  <2>2. CASE step.do = "chat"
    <3>1. PICK text \in Values("chat_id") : r.jid = parseJID(text)
      BY <1>3, <2>2 DEF ChatTaken
    <3> QED BY <1>7, <2>2, <3>1, ParsedTyped
  <2>3. CASE step.do = "group"
    <3> DEFINE text == ParamValue(req.at, req.path, ":gid")
    <3>1. r.jid # NoJID /\ r.jid = parseGroupJID(text) BY <1>3, <2>3 DEF GroupTaken
    <3>2. text \in Texts \/ parseGroupJID(text) = NoJID BY DEF GroupIsText
    <3> HIDE DEF text
    <3> QED BY <3>1, <3>2, ParsedTyped
  <2> QED BY <2>1, <2>2, <2>3
<1>9. r.asked \in SUBSET Asked /\ r.timer \in -HalfDuration .. HalfDuration - 1
  <2>1. CASE step.do \notin {"timer", "seconds"} BY <1>2, <1>4, <2>1
  <2>2. CASE step.do \in {"timer", "seconds"} BY <1>4, <2>2, TimersTyped
  <2> QED BY <2>1, <2>2
<1>10. r.data \in {"none", "whole", "cut"} /\ r.body \in Bodies BY <1>2, <1>5, <1>6
<1> QED BY <1>8, <1>9, <1>10 DEF r

\* The types but for what Keyed and Quiet say of the entry and of quiet.
TypedRequest(r) ==
  /\ r.by \in {"client", "tool"}
  /\ r.stage \in {"idle", "routing", "handling", "answered"}
  /\ r.body \in Bodies /\ r.key \in BOOLEAN
  /\ r.jid \in JIDs \cup {NoJID} /\ r.asked \in SUBSET Asked
  /\ r.timer \in -HalfDuration .. HalfDuration - 1
  /\ r.data \in {"none", "whole", "cut"} /\ r.status \in Statuses \cup {0}
GatewayTypes == TypedRequest(req)

LEMMA TypesAre == ASSUME Keyed, Quiet PROVE RequestsTypeOK <=> GatewayTypes
<1>1. req.at \in 0 .. Len(routes) BY RoutesDomain DEF Keyed
<1>2. req.quiet \in BOOLEAN BY DEF Quiet
<1> QED BY <1>1, <1>2 DEF RequestsTypeOK, GatewayTypes, TypedRequest

LEMMA BeginsTyped ==
  ASSUME NEW r, Untouched(r), r.by \in {"client", "tool"}, r.stage \in {"idle", "routing"}
  PROVE  TypedRequest(r)
<1>1. /\ r.at = 0 /\ r.key = FALSE /\ r.status = 0 /\ r.body \in Bodies
      /\ r.jid = NoJID /\ r.asked = {} /\ r.timer = 0 /\ r.data = "none"
  BY DEF Untouched
<1>2. 0 \in -HalfDuration .. HalfDuration - 1 BY NumbersAre
<1>3. {} \in SUBSET Asked OBVIOUS
<1> QED BY <1>1, <1>2, <1>3 DEF TypedRequest

LEMMA ServeTyped == ASSUME Shape, GatewayTypes, Serve PROVE GatewayTypes'
<1> DEFINE i == NextFit(req.at, req.method, req.path)
<1>1. Routed(i) BY ServeSteps
<1> HIDE DEF i
<1>2. /\ req'.by = req.by /\ req'.body = req.body /\ req'.jid = req.jid
      /\ req'.asked = req.asked /\ req'.timer = req.timer /\ req'.data = req.data
  BY <1>1 DEF Routed, Aside
<1>3. req'.status \in Statuses \cup {0} BY <1>1 DEF Routed, GatewayTypes, TypedRequest
<1>4. req'.key \in {req.key, TRUE} /\ req'.stage \in {"routing", "handling", "answered"}
  BY <1>1 DEF Routed
<1> QED BY <1>2, <1>3, <1>4 DEF GatewayTypes, TypedRequest

LEMMA HandleTyped ==
  ASSUME Shape, ChatsInv, RequestsTypeOK, ChatIsText, GroupIsText, Handle
  PROVE  GatewayTypes'
<1>0. req.stage = "handling" /\ GatewayTypes
  BY OnlyHandling DEF RequestsTypeOK, GatewayTypes, TypedRequest
<1>1. CASE GoesOn
  <2>1. /\ req'.by = req.by /\ req'.key = req.key /\ req'.stage = "handling"
        /\ req'.status = req.status
    BY <1>1 DEF GoesOn, Advance, Stays
  <2> QED BY <1>0, <1>1, <2>1, DecidedTyped DEF GatewayTypes, TypedRequest
<1>2. CASE Stops BY <1>0, <1>2 DEF Stops, Stays, GatewayTypes, TypedRequest
<1> QED BY <1>1, <1>2, HandleSteps

\* A client asks for the path of a route, and it stays that.
Asking == req.by = "client" /\ req.stage # "idle" => req.path \in Paths

LEMMA MapIsSeq == ASSUME NEW n \in Nat, NEW S, NEW f \in [1 .. n -> S] PROVE f \in Seq(S)
OBVIOUS

LEMMA PathsAre == \A p \in Paths : IsSeq(p)
<1> SUFFICES ASSUME NEW p \in Paths PROVE IsSeq(p) OBVIOUS
<1>1. PICK r \in {routes[i] : i \in DOMAIN routes}, v \in PathValues, g \in PathValues :
        p = [i \in DOMAIN r.pattern |-> CASE r.pattern[i] \in {":gid", ":id"} -> g
                                          [] r.pattern[i] \in {":session", ":name"} -> v
                                          [] OTHER -> r.pattern[i]]
  BY DEF Paths
<1>2. IsSeq(r.pattern)
  BY RoutesDomain, RoutesGuarded DEF Guarded, Proper, GroupPlace, Free
<1>3. PICK S : r.pattern \in Seq(S) BY <1>2 DEF IsSeq
<1> DEFINE n == Len(r.pattern)
           image == {p[i] : i \in 1 .. n}
<1>4. n \in Nat /\ DOMAIN r.pattern = 1 .. n BY <1>3
<1>5. p = [i \in 1 .. n |-> p[i]] BY <1>1, <1>4
<1> HIDE DEF n
<1>6. p \in [1 .. n -> image] BY <1>5
<1> HIDE DEF image
<1>7. p \in Seq(image) BY <1>4, <1>6, MapIsSeq
<1> QED BY <1>7 DEF IsSeq

=============================================================================
