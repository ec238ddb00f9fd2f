--------------------------- MODULE HandlersProofs ---------------------------
(***************************************************************************)
(* Facts about the gateway's tables.  In every handler, no step that can   *)
(* refuse follows one that changes something, and what a call to WhatsApp  *)
(* is made with (a timer, a group, a chat, a medium) is decided before the *)
(* call and then left as it is.  Every entry of the routes names a         *)
(* middleware or a handler, and every handler that is not public has a     *)
(* middleware in front of it that takes all that it would take.  The       *)
(* entries in front of a route let through every path that has its words   *)
(* and plain texts for its parameters (Matching, Takes).                   *)
(***************************************************************************)
EXTENDS Requests, TLAPS, WellFoundedInduction

IsSeq(s) == \E S : s \in Seq(S)

Effects == {"change", "sure", "create"}
Checks == {"json", "field", "resolve", "known", "chat", "group", "participants", "id", "media",
           "photo", "create", "code", "limit", "password"}

Does(step, op) == step.do \in {"change", "sure"} /\ step.arg = op

\* What a handler decides on its way: that nothing refuses any more ("checks"), the
\* timer of a message, that of a group, the group, the chat, and the data of a
\* medium; and the calls that rely on it.
Matters == {"timer", "seconds", "group", "chat", "media"}

Calls(m) == CASE m = "timer" -> {"SendMessage"}
              [] m = "seconds" -> {"SetDisappearingTimer"}
              [] m = "group" -> GroupCalls
              [] m = "chat" -> {"Upload"}
              [] m = "media" -> {"Upload", "SendMessage"}

\* The step may come before m is decided,
Early(m, step) ==
  IF m = "checks" THEN step.do \notin Effects
  ELSE /\ \A op \in Calls(m) : ~Does(step, op)
       /\ m = "chat" => step.do # "chat"

\* may decide it,
Decides(m, step) ==
  CASE m \in {"timer", "seconds", "group"} -> step.do = m
    [] m = "media" -> FALSE
    [] OTHER -> TRUE

\* or leaves it as it was decided.
Late(m, step) ==
  CASE m = "checks" -> step.do \notin Checks
    [] m = "timer" -> /\ step.do \notin {"resolve", "chat", "group", "timer", "seconds"}
                      /\ ~Does(step, "Upload")
    [] m = "seconds" -> step.do \notin {"timer", "seconds"}
    [] m = "group" -> step.do \notin {"chat", "group"}
    [] m = "chat" -> step.do \notin {"resolve", "group"}
    [] m = "media" -> step.do # "photo"

\* The step may be the i-th, if the k-th is the one that decides.
Placed(m, step, i, k) == /\ i < k => Early(m, step)
                         /\ i = k => Decides(m, step)
                         /\ i > k => Late(m, step)

Turn(m, s, k) == IsSeq(s) /\ \A i \in 1 .. Len(s) : Placed(m, s[i], i, k)

AllFinal(s) == \A i \in 1 .. Len(s) : Late("checks", s[i])
ChecksFirst(s) == \E k \in Int : Turn("checks", s, k)

\* In a handler that has not begun, what a call relies on is not decided yet; a
\* medium may be whole from the start.
Orderly(s) == /\ ChecksFirst(s)
              /\ \A m \in {"timer", "seconds", "group"} : \E k \in Nat \ {0} : Turn(m, s, k)
              /\ \A m \in {"chat", "media"} : \E k \in Int : Turn(m, s, k)

-----------------------------------------------------------------------------
(* A sequence whose steps one by one are as Turn wants them.  The prover   *)
(* knows a tuple's elements, so there is a lemma for each length.          *)

LEMMA NoneTurn ==
  ASSUME NEW m, NEW k \in Int
  PROVE  Turn(m, << >>, k)
<1>1. << >> \in Seq({}) OBVIOUS
<1> QED BY <1>1 DEF Turn, IsSeq

LEMMA OneTurn ==
  ASSUME NEW m, NEW k \in Int, NEW a,
         Placed(m, a, 1, k)
  PROVE  Turn(m, << a >>, k)
<1> DEFINE s == << a >>
<1>1. s \in Seq({a}) OBVIOUS
<1>2. Len(s) = 1 /\ s[1] = a OBVIOUS
<1>3. \A i \in 1 .. Len(s) : Placed(m, s[i], i, k)
  <2> SUFFICES ASSUME NEW i \in 1 .. 1 PROVE Placed(m, s[i], i, k) BY <1>2
  <2>1. i = 1 OBVIOUS
  <2> HIDE DEF s
  <2> QED BY <1>2, <2>1
<1> QED BY <1>1, <1>3 DEF Turn, IsSeq

LEMMA TwoTurn ==
  ASSUME NEW m, NEW k \in Int, NEW a, NEW b,
         Placed(m, a, 1, k), Placed(m, b, 2, k)
  PROVE  Turn(m, << a, b >>, k)
<1> DEFINE s == << a, b >>
<1>1. s \in Seq({a, b}) OBVIOUS
<1>2. Len(s) = 2 /\ s[1] = a /\ s[2] = b OBVIOUS
<1>3. \A i \in 1 .. Len(s) : Placed(m, s[i], i, k)
  <2> SUFFICES ASSUME NEW i \in 1 .. 2 PROVE Placed(m, s[i], i, k) BY <1>2
  <2>1. i = 1 \/ i = 2 OBVIOUS
  <2> HIDE DEF s
  <2> QED BY <1>2, <2>1
<1> QED BY <1>1, <1>3 DEF Turn, IsSeq

LEMMA ThreeTurn ==
  ASSUME NEW m, NEW k \in Int, NEW a, NEW b, NEW c,
         Placed(m, a, 1, k), Placed(m, b, 2, k), Placed(m, c, 3, k)
  PROVE  Turn(m, << a, b, c >>, k)
<1> DEFINE s == << a, b, c >>
<1>1. s \in Seq({a, b, c}) OBVIOUS
<1>2. Len(s) = 3 /\ s[1] = a /\ s[2] = b /\ s[3] = c OBVIOUS
<1>3. \A i \in 1 .. Len(s) : Placed(m, s[i], i, k)
  <2> SUFFICES ASSUME NEW i \in 1 .. 3 PROVE Placed(m, s[i], i, k) BY <1>2
  <2>1. i = 1 \/ i = 2 \/ i = 3 OBVIOUS
  <2> HIDE DEF s
  <2> QED BY <1>2, <2>1
<1> QED BY <1>1, <1>3 DEF Turn, IsSeq

LEMMA FourTurn ==
  ASSUME NEW m, NEW k \in Int, NEW a, NEW b, NEW c, NEW d,
         Placed(m, a, 1, k), Placed(m, b, 2, k), Placed(m, c, 3, k),
         Placed(m, d, 4, k)
  PROVE  Turn(m, << a, b, c, d >>, k)
<1> DEFINE s == << a, b, c, d >>
<1>1. s \in Seq({a, b, c, d}) OBVIOUS
<1>2. Len(s) = 4 /\ s[1] = a /\ s[2] = b /\ s[3] = c /\ s[4] = d OBVIOUS
<1>3. \A i \in 1 .. Len(s) : Placed(m, s[i], i, k)
  <2> SUFFICES ASSUME NEW i \in 1 .. 4 PROVE Placed(m, s[i], i, k) BY <1>2
  <2>1. i = 1 \/ i = 2 \/ i = 3 \/ i = 4 OBVIOUS
  <2> HIDE DEF s
  <2> QED BY <1>2, <2>1
<1> QED BY <1>1, <1>3 DEF Turn, IsSeq

LEMMA FiveTurn ==
  ASSUME NEW m, NEW k \in Int, NEW a, NEW b, NEW c, NEW d, NEW e,
         Placed(m, a, 1, k), Placed(m, b, 2, k), Placed(m, c, 3, k),
         Placed(m, d, 4, k), Placed(m, e, 5, k)
  PROVE  Turn(m, << a, b, c, d, e >>, k)
<1> DEFINE s == << a, b, c, d, e >>
<1>1. s \in Seq({a, b, c, d, e}) OBVIOUS
<1>2. Len(s) = 5 /\ s[1] = a /\ s[2] = b /\ s[3] = c /\ s[4] = d /\ s[5] = e OBVIOUS
<1>3. \A i \in 1 .. Len(s) : Placed(m, s[i], i, k)
  <2> SUFFICES ASSUME NEW i \in 1 .. 5 PROVE Placed(m, s[i], i, k) BY <1>2
  <2>1. i = 1 \/ i = 2 \/ i = 3 \/ i = 4 \/ i = 5 OBVIOUS
  <2> HIDE DEF s
  <2> QED BY <1>2, <2>1
<1> QED BY <1>1, <1>3 DEF Turn, IsSeq

LEMMA SixTurn ==
  ASSUME NEW m, NEW k \in Int, NEW a, NEW b, NEW c, NEW d, NEW e, NEW f,
         Placed(m, a, 1, k), Placed(m, b, 2, k), Placed(m, c, 3, k),
         Placed(m, d, 4, k), Placed(m, e, 5, k), Placed(m, f, 6, k)
  PROVE  Turn(m, << a, b, c, d, e, f >>, k)
<1> DEFINE s == << a, b, c, d, e, f >>
<1>1. s \in Seq({a, b, c, d, e, f}) OBVIOUS
<1>2. Len(s) = 6 /\ s[1] = a /\ s[2] = b /\ s[3] = c /\ s[4] = d /\ s[5] = e /\ s[6] = f OBVIOUS
<1>3. \A i \in 1 .. Len(s) : Placed(m, s[i], i, k)
  <2> SUFFICES ASSUME NEW i \in 1 .. 6 PROVE Placed(m, s[i], i, k) BY <1>2
  <2>1. i = 1 \/ i = 2 \/ i = 3 \/ i = 4 \/ i = 5 \/ i = 6 OBVIOUS
  <2> HIDE DEF s
  <2> QED BY <1>2, <2>1
<1> QED BY <1>1, <1>3 DEF Turn, IsSeq

-----------------------------------------------------------------------------
(* What the steps are, for each matter. *)

LEMMA CheckKinds ==
  /\ Early("checks", Json) /\ Early("checks", Resolve) /\ Early("checks", Known)
  /\ Early("checks", Chat) /\ Early("checks", Group) /\ Early("checks", Participants)
  /\ Early("checks", Id) /\ Early("checks", Media) /\ Early("checks", Photo)
  /\ Early("checks", Code) /\ Early("checks", Limit) /\ Early("checks", Password)
  /\ \A f : Early("checks", Field(f))
  /\ \A op : /\ Early("checks", Read(op)) /\ Late("checks", Read(op))
            /\ Late("checks", Change(op)) /\ Late("checks", Sure(op))
  /\ Early("checks", Timer) /\ Late("checks", Timer)
  /\ Early("checks", Seconds) /\ Late("checks", Seconds)
  /\ \A step : Decides("checks", step) /\ Decides("chat", step)
BY DEF Early, Late, Decides, Effects, Checks, Step, Json, Field, Resolve, Known, Chat, Group,
       Participants, Id, Media, Photo, Timer, Seconds, Read, Change, Sure, Code, Limit, Password

\* The calls that some matter is decided for.
Notable == {"SendMessage", "Upload"} \cup GroupCalls

LEMMA EarlyKinds ==
  ASSUME NEW m \in Matters
  PROVE  /\ Early(m, Json) /\ Early(m, Resolve) /\ Early(m, Known) /\ Early(m, Group)
         /\ Early(m, Participants) /\ Early(m, Id) /\ Early(m, Media) /\ Early(m, Photo)
         /\ Early(m, Code) /\ Early(m, Limit) /\ Early(m, Password) /\ Early(m, Create)
         /\ Early(m, Timer) /\ Early(m, Seconds)
         /\ m # "chat" => Early(m, Chat)
         /\ \A f : Early(m, Field(f))
         /\ \A op : Early(m, Read(op))
         /\ \A op : op \notin Notable => Early(m, Change(op)) /\ Early(m, Sure(op))
BY DEF Matters, Early, Calls, Does, Notable, GroupCalls, Step, Json, Field, Resolve, Known, Chat,
       Group, Participants, Id, Media, Photo, Timer, Seconds, Read, Change, Sure, Create, Code,
       Limit, Password

LEMMA EarlyCalls ==
  /\ \A m \in {"seconds", "group", "chat"} : Early(m, Change("SendMessage"))
  /\ \A m \in {"timer", "seconds", "group"} : Early(m, Change("Upload"))
  /\ \A m \in {"timer", "chat", "media"} : \A op \in GroupCalls : Early(m, Change(op))
  /\ \A op : op # "SetDisappearingTimer" => Early("seconds", Change(op))
BY DEF Early, Calls, Does, GroupCalls, Step, Change

LEMMA DecidingKinds ==
  Decides("timer", Timer) /\ Decides("seconds", Seconds) /\ Decides("group", Group)
BY DEF Decides, Step, Timer, Seconds, Group

LEMMA LateKinds ==
  /\ Late("group", Json) /\ Late("group", Participants) /\ Late("group", Photo)
  /\ Late("group", Seconds) /\ Late("chat", Timer)
  /\ Late("media", Json) /\ Late("media", Resolve) /\ Late("media", Chat)
  /\ Late("media", Media) /\ Late("media", Timer)
  /\ \A f : Late("group", Field(f)) /\ Late("media", Field(f))
  /\ Late("timer", Change("SendMessage")) /\ Late("seconds", Change("SetDisappearingTimer"))
  /\ \A op : Late("group", Change(op)) /\ Late("chat", Change(op)) /\ Late("media", Change(op))
BY DEF Late, Does, Step, Json, Field, Resolve, Chat, Group, Participants, Media, Photo, Timer,
       Seconds, Change

-----------------------------------------------------------------------------
(* The handlers: the last step that can refuse comes no later than the     *)
(* first that changes something, and what a call needs comes before it.    *)

LEMMA OrderlyBy ==
  ASSUME NEW s, NEW c \in Int, Turn("checks", s, c),
         NEW t \in Nat \ {0}, Turn("timer", s, t),
         NEW d \in Nat \ {0}, Turn("seconds", s, d),
         NEW g \in Nat \ {0}, Turn("group", s, g),
         NEW h \in Int, Turn("chat", s, h),
         NEW x \in Int, Turn("media", s, x)
  PROVE  Orderly(s)
BY DEF Orderly, ChecksFirst

\* A handler that no call of Notable is in need never decide what those need.
LEMMA OrdinaryOrderly ==
  ASSUME NEW s, NEW c \in Int, Turn("checks", s, c),
         NEW k \in Nat \ {0}, \A m \in Matters : Turn(m, s, k)
  PROVE  Orderly(s)
BY OrderlyBy DEF Matters

LEMMA SessionHandlers ==
  /\ Orderly(listSessions) /\ Orderly(createSession) /\ Orderly(getSession) /\
       Orderly(deleteSession)
  /\ Orderly(startSession) /\ Orderly(stopSession) /\ Orderly(logoutSession) /\ Orderly(getQR)
  /\ Orderly(getQRPNG) /\ Orderly(requestPairCode) /\ Orderly(listWebhooks) /\ Orderly(addWebhook)
  /\ Orderly(deleteWebhook) /\ Orderly(handleLogin) /\ Orderly(listKeys) /\ Orderly(createKey)
  /\ Orderly(deleteKey)
<1> USE CheckKinds, EarlyKinds DEF Placed
<1>1. Turn("checks", listSessions, 2) BY OneTurn DEF listSessions
<1>2. \A m \in Matters : Turn(m, listSessions, 2) BY OneTurn DEF listSessions, Notable, GroupCalls
<1>3. Turn("checks", createSession, 3) BY ThreeTurn DEF createSession
<1>4. \A m \in Matters : Turn(m, createSession, 4) BY ThreeTurn DEF createSession, Notable,
       GroupCalls
<1>5. Turn("checks", getSession, 2) BY OneTurn DEF getSession
<1>6. \A m \in Matters : Turn(m, getSession, 2) BY OneTurn DEF getSession, Notable, GroupCalls
<1>7. Turn("checks", deleteSession, 1) BY OneTurn DEF deleteSession
<1>8. \A m \in Matters : Turn(m, deleteSession, 2) BY OneTurn DEF deleteSession, Notable, GroupCalls
<1>9. Turn("checks", startSession, 2) BY TwoTurn DEF startSession
<1>10. \A m \in Matters : Turn(m, startSession, 3) BY TwoTurn DEF startSession, Notable, GroupCalls
<1>11. Turn("checks", stopSession, 2) BY TwoTurn DEF stopSession
<1>12. \A m \in Matters : Turn(m, stopSession, 3) BY TwoTurn DEF stopSession, Notable, GroupCalls
<1>13. Turn("checks", logoutSession, 2) BY TwoTurn DEF logoutSession
<1>14. \A m \in Matters : Turn(m, logoutSession, 3) BY TwoTurn DEF logoutSession, Notable,
       GroupCalls
<1>15. Turn("checks", getQR, 2) BY OneTurn DEF getQR
<1>16. \A m \in Matters : Turn(m, getQR, 2) BY OneTurn DEF getQR, Notable, GroupCalls
<1>17. Turn("checks", getQRPNG, 3) BY TwoTurn DEF getQRPNG
<1>18. \A m \in Matters : Turn(m, getQRPNG, 3) BY TwoTurn DEF getQRPNG, Notable, GroupCalls
<1>19. Turn("checks", requestPairCode, 4) BY FourTurn DEF requestPairCode
<1>20. \A m \in Matters : Turn(m, requestPairCode, 5) BY FourTurn DEF requestPairCode, Notable,
       GroupCalls
<1>21. Turn("checks", listWebhooks, 2) BY OneTurn DEF listWebhooks
<1>22. \A m \in Matters : Turn(m, listWebhooks, 2) BY OneTurn DEF listWebhooks, Notable, GroupCalls
<1>23. Turn("checks", addWebhook, 3) BY ThreeTurn DEF addWebhook
<1>24. \A m \in Matters : Turn(m, addWebhook, 4) BY ThreeTurn DEF addWebhook, Notable, GroupCalls
<1>25. Turn("checks", deleteWebhook, 2) BY TwoTurn DEF deleteWebhook
<1>26. \A m \in Matters : Turn(m, deleteWebhook, 3) BY TwoTurn DEF deleteWebhook, Notable,
       GroupCalls
<1>27. Turn("checks", handleLogin, 4) BY FiveTurn DEF handleLogin
<1>28. \A m \in Matters : Turn(m, handleLogin, 6) BY FiveTurn DEF handleLogin, Notable, GroupCalls
<1>29. Turn("checks", listKeys, 2) BY OneTurn DEF listKeys
<1>30. \A m \in Matters : Turn(m, listKeys, 2) BY OneTurn DEF listKeys, Notable, GroupCalls
<1>31. Turn("checks", createKey, 3) BY ThreeTurn DEF createKey
<1>32. \A m \in Matters : Turn(m, createKey, 4) BY ThreeTurn DEF createKey, Notable, GroupCalls
<1>33. Turn("checks", deleteKey, 2) BY TwoTurn DEF deleteKey
<1>34. \A m \in Matters : Turn(m, deleteKey, 3) BY TwoTurn DEF deleteKey, Notable, GroupCalls
<1> QED BY OrdinaryOrderly, <1>1, <1>2, <1>3, <1>4, <1>5, <1>6, <1>7, <1>8, <1>9, <1>10, <1>11,
       <1>12, <1>13, <1>14, <1>15, <1>16, <1>17, <1>18, <1>19, <1>20, <1>21, <1>22, <1>23, <1>24,
       <1>25, <1>26, <1>27, <1>28, <1>29, <1>30, <1>31, <1>32, <1>33, <1>34

LEMMA ReadHandlers ==
  /\ Orderly(getMe) /\ Orderly(getContacts) /\ Orderly(getGroups) /\ Orderly(createGroup)
  /\ Orderly(joinGroup) /\ Orderly(getGroupInfo) /\ Orderly(getInviteLink)
<1> USE CheckKinds, EarlyKinds DEF Placed
<1>1. Turn("checks", getMe, 2) BY OneTurn DEF getMe
<1>2. \A m \in Matters : Turn(m, getMe, 2) BY OneTurn DEF getMe, Notable, GroupCalls
<1>3. Turn("checks", getContacts, 3) BY TwoTurn DEF getContacts
<1>4. \A m \in Matters : Turn(m, getContacts, 3) BY TwoTurn DEF getContacts, Notable, GroupCalls
<1>5. Turn("checks", getGroups, 3) BY TwoTurn DEF getGroups
<1>6. \A m \in Matters : Turn(m, getGroups, 3) BY TwoTurn DEF getGroups, Notable, GroupCalls
<1>7. Turn("checks", createGroup, 5) BY FiveTurn DEF createGroup
<1>8. \A m \in Matters : Turn(m, createGroup, 6) BY FiveTurn DEF createGroup, Notable, GroupCalls
<1>9. Turn("checks", joinGroup, 4) BY FourTurn DEF joinGroup
<1>10. \A m \in Matters : Turn(m, joinGroup, 5) BY FourTurn DEF joinGroup, Notable, GroupCalls
<1>11. Turn("checks", getGroupInfo, 4) BY ThreeTurn DEF getGroupInfo
<1>12. \A m \in Matters : Turn(m, getGroupInfo, 4) BY ThreeTurn DEF getGroupInfo, Notable,
       GroupCalls
<1>13. Turn("checks", getInviteLink, 4) BY ThreeTurn DEF getInviteLink
<1>14. \A m \in Matters : Turn(m, getInviteLink, 4) BY ThreeTurn DEF getInviteLink, Notable,
       GroupCalls
<1> QED BY OrdinaryOrderly, <1>1, <1>2, <1>3, <1>4, <1>5, <1>6, <1>7, <1>8, <1>9, <1>10, <1>11,
       <1>12, <1>13, <1>14

LEMMA SendTextOrderly == Orderly(sendText)
<1> USE SixTurn, CheckKinds, EarlyKinds, EarlyCalls, DecidingKinds, LateKinds
    DEF Placed, Matters, Notable, GroupCalls, sendText
<1>1. Turn("checks", sendText, 6) OBVIOUS
<1>2. Turn("timer", sendText, 5) OBVIOUS
<1>3. Turn("seconds", sendText, 7) OBVIOUS
<1>4. Turn("group", sendText, 7) OBVIOUS
<1>5. Turn("chat", sendText, 4) OBVIOUS
<1>6. Turn("media", sendText, 0) OBVIOUS
<1> HIDE DEF sendText
<1> QED BY <1>1, <1>2, <1>3, <1>4, <1>5, <1>6, OrderlyBy

LEMMA SendMediaOrderly == Orderly(sendMedia)
<1> USE SixTurn, CheckKinds, EarlyKinds, EarlyCalls, DecidingKinds, LateKinds
    DEF Placed, Matters, Notable, GroupCalls, sendMedia
<1>1. Turn("checks", sendMedia, 4) OBVIOUS
<1>2. Turn("timer", sendMedia, 5) OBVIOUS
<1>3. Turn("seconds", sendMedia, 7) OBVIOUS
<1>4. Turn("group", sendMedia, 7) OBVIOUS
<1>5. Turn("chat", sendMedia, 3) OBVIOUS
<1>6. Turn("media", sendMedia, 0) OBVIOUS
<1> HIDE DEF sendMedia
<1> QED BY <1>1, <1>2, <1>3, <1>4, <1>5, <1>6, OrderlyBy

LEMMA SendLocationOrderly == Orderly(sendLocation)
<1> USE FiveTurn, CheckKinds, EarlyKinds, EarlyCalls, DecidingKinds, LateKinds
    DEF Placed, Matters, Notable, GroupCalls, sendLocation
<1>1. Turn("checks", sendLocation, 5) OBVIOUS
<1>2. Turn("timer", sendLocation, 4) OBVIOUS
<1>3. Turn("seconds", sendLocation, 6) OBVIOUS
<1>4. Turn("group", sendLocation, 6) OBVIOUS
<1>5. Turn("chat", sendLocation, 3) OBVIOUS
<1>6. Turn("media", sendLocation, 0) OBVIOUS
<1> HIDE DEF sendLocation
<1> QED BY <1>1, <1>2, <1>3, <1>4, <1>5, <1>6, OrderlyBy

LEMMA SendContactOrderly == Orderly(sendContact)
<1> USE SixTurn, CheckKinds, EarlyKinds, EarlyCalls, DecidingKinds, LateKinds
    DEF Placed, Matters, Notable, GroupCalls, sendContact
<1>1. Turn("checks", sendContact, 6) OBVIOUS
<1>2. Turn("timer", sendContact, 5) OBVIOUS
<1>3. Turn("seconds", sendContact, 7) OBVIOUS
<1>4. Turn("group", sendContact, 7) OBVIOUS
<1>5. Turn("chat", sendContact, 4) OBVIOUS
<1>6. Turn("media", sendContact, 0) OBVIOUS
<1> HIDE DEF sendContact
<1> QED BY <1>1, <1>2, <1>3, <1>4, <1>5, <1>6, OrderlyBy

LEMMA SendSeenOrderly == Orderly(sendSeen)
<1> USE FourTurn, CheckKinds, EarlyKinds, EarlyCalls, DecidingKinds, LateKinds
    DEF Placed, Matters, Notable, GroupCalls, sendSeen
<1>1. Turn("checks", sendSeen, 4) OBVIOUS
<1>2. Turn("timer", sendSeen, 5) OBVIOUS
<1>3. Turn("seconds", sendSeen, 5) OBVIOUS
<1>4. Turn("group", sendSeen, 5) OBVIOUS
<1>5. Turn("chat", sendSeen, 3) OBVIOUS
<1>6. Turn("media", sendSeen, 5) OBVIOUS
<1> HIDE DEF sendSeen
<1> QED BY <1>1, <1>2, <1>3, <1>4, <1>5, <1>6, OrderlyBy

LEMMA SetTypingOrderly == Orderly(setTyping)
<1> USE FourTurn, CheckKinds, EarlyKinds, EarlyCalls, DecidingKinds, LateKinds
    DEF Placed, Matters, Notable, GroupCalls, setTyping
<1>1. Turn("checks", setTyping, 4) OBVIOUS
<1>2. Turn("timer", setTyping, 5) OBVIOUS
<1>3. Turn("seconds", setTyping, 5) OBVIOUS
<1>4. Turn("group", setTyping, 5) OBVIOUS
<1>5. Turn("chat", setTyping, 3) OBVIOUS
<1>6. Turn("media", setTyping, 5) OBVIOUS
<1> HIDE DEF setTyping
<1> QED BY <1>1, <1>2, <1>3, <1>4, <1>5, <1>6, OrderlyBy

LEMMA LeaveGroupOrderly == Orderly(leaveGroup)
<1> USE ThreeTurn, CheckKinds, EarlyKinds, EarlyCalls, DecidingKinds, LateKinds
    DEF Placed, Matters, Notable, GroupCalls, leaveGroup
<1>1. Turn("checks", leaveGroup, 3) OBVIOUS
<1>2. Turn("timer", leaveGroup, 4) OBVIOUS
<1>3. Turn("seconds", leaveGroup, 4) OBVIOUS
<1>4. Turn("group", leaveGroup, 2) OBVIOUS
<1>5. Turn("chat", leaveGroup, 4) OBVIOUS
<1>6. Turn("media", leaveGroup, 4) OBVIOUS
<1> HIDE DEF leaveGroup
<1> QED BY <1>1, <1>2, <1>3, <1>4, <1>5, <1>6, OrderlyBy

LEMMA UpdateParticipantsOrderly == Orderly(updateParticipants)
<1> USE SixTurn, CheckKinds, EarlyKinds, EarlyCalls, DecidingKinds, LateKinds
    DEF Placed, Matters, Notable, GroupCalls, updateParticipants
<1>1. Turn("checks", updateParticipants, 6) OBVIOUS
<1>2. Turn("timer", updateParticipants, 7) OBVIOUS
<1>3. Turn("seconds", updateParticipants, 7) OBVIOUS
<1>4. Turn("group", updateParticipants, 2) OBVIOUS
<1>5. Turn("chat", updateParticipants, 7) OBVIOUS
<1>6. Turn("media", updateParticipants, 7) OBVIOUS
<1> HIDE DEF updateParticipants
<1> QED BY <1>1, <1>2, <1>3, <1>4, <1>5, <1>6, OrderlyBy

LEMMA SetGroupNameOrderly == Orderly(setGroupName)
<1> USE FiveTurn, CheckKinds, EarlyKinds, EarlyCalls, DecidingKinds, LateKinds
    DEF Placed, Matters, Notable, GroupCalls, setGroupName
<1>1. Turn("checks", setGroupName, 5) OBVIOUS
<1>2. Turn("timer", setGroupName, 6) OBVIOUS
<1>3. Turn("seconds", setGroupName, 6) OBVIOUS
<1>4. Turn("group", setGroupName, 2) OBVIOUS
<1>5. Turn("chat", setGroupName, 6) OBVIOUS
<1>6. Turn("media", setGroupName, 6) OBVIOUS
<1> HIDE DEF setGroupName
<1> QED BY <1>1, <1>2, <1>3, <1>4, <1>5, <1>6, OrderlyBy

LEMMA SetGroupTopicOrderly == Orderly(setGroupTopic)
<1> USE FourTurn, CheckKinds, EarlyKinds, EarlyCalls, DecidingKinds, LateKinds
    DEF Placed, Matters, Notable, GroupCalls, setGroupTopic
<1>1. Turn("checks", setGroupTopic, 4) OBVIOUS
<1>2. Turn("timer", setGroupTopic, 5) OBVIOUS
<1>3. Turn("seconds", setGroupTopic, 5) OBVIOUS
<1>4. Turn("group", setGroupTopic, 2) OBVIOUS
<1>5. Turn("chat", setGroupTopic, 5) OBVIOUS
<1>6. Turn("media", setGroupTopic, 5) OBVIOUS
<1> HIDE DEF setGroupTopic
<1> QED BY <1>1, <1>2, <1>3, <1>4, <1>5, <1>6, OrderlyBy

LEMMA SetGroupLockedOrderly == Orderly(setGroupLocked)
<1> USE FourTurn, CheckKinds, EarlyKinds, EarlyCalls, DecidingKinds, LateKinds
    DEF Placed, Matters, Notable, GroupCalls, setGroupLocked
<1>1. Turn("checks", setGroupLocked, 4) OBVIOUS
<1>2. Turn("timer", setGroupLocked, 5) OBVIOUS
<1>3. Turn("seconds", setGroupLocked, 5) OBVIOUS
<1>4. Turn("group", setGroupLocked, 2) OBVIOUS
<1>5. Turn("chat", setGroupLocked, 5) OBVIOUS
<1>6. Turn("media", setGroupLocked, 5) OBVIOUS
<1> HIDE DEF setGroupLocked
<1> QED BY <1>1, <1>2, <1>3, <1>4, <1>5, <1>6, OrderlyBy

LEMMA SetGroupAnnounceOrderly == Orderly(setGroupAnnounce)
<1> USE FourTurn, CheckKinds, EarlyKinds, EarlyCalls, DecidingKinds, LateKinds
    DEF Placed, Matters, Notable, GroupCalls, setGroupAnnounce
<1>1. Turn("checks", setGroupAnnounce, 4) OBVIOUS
<1>2. Turn("timer", setGroupAnnounce, 5) OBVIOUS
<1>3. Turn("seconds", setGroupAnnounce, 5) OBVIOUS
<1>4. Turn("group", setGroupAnnounce, 2) OBVIOUS
<1>5. Turn("chat", setGroupAnnounce, 5) OBVIOUS
<1>6. Turn("media", setGroupAnnounce, 5) OBVIOUS
<1> HIDE DEF setGroupAnnounce
<1> QED BY <1>1, <1>2, <1>3, <1>4, <1>5, <1>6, OrderlyBy

LEMMA SetGroupPhotoOrderly == Orderly(setGroupPhoto)
<1> USE FourTurn, CheckKinds, EarlyKinds, EarlyCalls, DecidingKinds, LateKinds
    DEF Placed, Matters, Notable, GroupCalls, setGroupPhoto
<1>1. Turn("checks", setGroupPhoto, 4) OBVIOUS
<1>2. Turn("timer", setGroupPhoto, 5) OBVIOUS
<1>3. Turn("seconds", setGroupPhoto, 5) OBVIOUS
<1>4. Turn("group", setGroupPhoto, 2) OBVIOUS
<1>5. Turn("chat", setGroupPhoto, 5) OBVIOUS
<1>6. Turn("media", setGroupPhoto, 5) OBVIOUS
<1> HIDE DEF setGroupPhoto
<1> QED BY <1>1, <1>2, <1>3, <1>4, <1>5, <1>6, OrderlyBy

LEMMA RevokeInviteLinkOrderly == Orderly(revokeInviteLink)
<1> USE ThreeTurn, CheckKinds, EarlyKinds, EarlyCalls, DecidingKinds, LateKinds
    DEF Placed, Matters, Notable, GroupCalls, revokeInviteLink
<1>1. Turn("checks", revokeInviteLink, 3) OBVIOUS
<1>2. Turn("timer", revokeInviteLink, 4) OBVIOUS
<1>3. Turn("seconds", revokeInviteLink, 4) OBVIOUS
<1>4. Turn("group", revokeInviteLink, 2) OBVIOUS
<1>5. Turn("chat", revokeInviteLink, 4) OBVIOUS
<1>6. Turn("media", revokeInviteLink, 4) OBVIOUS
<1> HIDE DEF revokeInviteLink
<1> QED BY <1>1, <1>2, <1>3, <1>4, <1>5, <1>6, OrderlyBy

LEMMA SetGroupDisappearingOrderly == Orderly(setGroupDisappearing)
<1> USE FiveTurn, CheckKinds, EarlyKinds, EarlyCalls, DecidingKinds, LateKinds
    DEF Placed, Matters, Notable, GroupCalls, setGroupDisappearing
<1>1. Turn("checks", setGroupDisappearing, 5) OBVIOUS
<1>2. Turn("timer", setGroupDisappearing, 6) OBVIOUS
<1>3. Turn("seconds", setGroupDisappearing, 4) OBVIOUS
<1>4. Turn("group", setGroupDisappearing, 2) OBVIOUS
<1>5. Turn("chat", setGroupDisappearing, 6) OBVIOUS
<1>6. Turn("media", setGroupDisappearing, 6) OBVIOUS
<1> HIDE DEF setGroupDisappearing
<1> QED BY <1>1, <1>2, <1>3, <1>4, <1>5, <1>6, OrderlyBy

LEMMA StepsOfOrderly == \A h \in DOMAIN StepsOf : Orderly(StepsOf[h])
<1> DEFINE none == << >>
<1>1. \A m : Turn(m, none, 1) BY NoneTurn
<1> HIDE DEF none
<1>2. Orderly(none) BY <1>1, OrdinaryOrderly
<1>3. Orderly(<< >>) BY <1>2 DEF none
<1> QED
  BY <1>3, SessionHandlers, ReadHandlers, SendTextOrderly, SendMediaOrderly, SendLocationOrderly,
     SendContactOrderly, SendSeenOrderly, SetTypingOrderly, LeaveGroupOrderly,
     UpdateParticipantsOrderly, SetGroupNameOrderly, SetGroupTopicOrderly,
     SetGroupLockedOrderly, SetGroupAnnounceOrderly, SetGroupPhotoOrderly,
     RevokeInviteLinkOrderly, SetGroupDisappearingOrderly
  DEF StepsOf, sendImage, sendVideo, sendVoice, sendFile, getChats

-----------------------------------------------------------------------------
(* Every route has a handler, and whoever is not public a middleware in    *)
(* front of it.                                                            *)

Middlewares == {"authMiddleware", "upgrade", "dashboard"}
Public == {"healthz", "readyz", "docs", "handleLogin"}

\* A parameter for a group stands in the fourth place only, and alone with GET.
Free(pattern) == IsSeq(pattern) /\ \A i \in DOMAIN pattern : pattern[i] # ":gid"
GroupPlace(r) ==
  \/ Free(r.pattern)
  \/ /\ IsSeq(r.pattern) /\ r.method # "USE"
     /\ Len(r.pattern) > 4 \/ (Len(r.pattern) = 4 /\ r.method = "GET")
     /\ r.pattern[3] = "groups" /\ r.pattern[4] = ":gid"
     /\ \A i \in DOMAIN r.pattern : r.pattern[i] = ":gid" => i = 4

Proper(r) == r.handler \in DOMAIN StepsOf \cup Middlewares /\ GroupPlace(r)
Open(r) == r.handler \in Public \cup Middlewares
ApiPath(pattern) == IsSeq(pattern) /\ Len(pattern) > 0 /\ pattern[1] = "api"
Api(r) == r.method # "USE" /\ ApiPath(r.pattern)

Covers(a, r) == \A method, path : Fits(r, method, path) => Fits(a, method, path)
Auth == Use(<<"api">>, "authMiddleware")

LEMMA AuthCovers == ASSUME NEW r, Api(r) PROVE Covers(Auth, r)
<1> SUFFICES ASSUME NEW method, NEW path, Fits(r, method, path)
             PROVE  Fits(Auth, method, path)
  BY DEF Covers
<1> DEFINE q == Trimmed(path)
           one == << "api" >>
<1>1. Len(one) = 1 /\ DOMAIN one = {1} /\ one[1] = "api" OBVIOUS
<1>2. Auth.method = "USE" /\ Auth.pattern = one BY DEF Auth, Use, R
<1> HIDE DEF q, one
<1>3. PICK S : r.pattern \in Seq(S) BY DEF Api, ApiPath, IsSeq
<1>4. /\ Len(r.pattern) = Len(q) /\ Len(r.pattern) \in Nat \ {0}
      /\ r.pattern[1] = "api" /\ SegmentFits(r.pattern[1], q[1])
  BY <1>3 DEF Fits, Api, ApiPath, q
<1>5. Folded(q[1]) = "api" BY <1>4 DEF SegmentFits, Params
<1>6. \A i \in DOMAIN Auth.pattern : SegmentFits(Auth.pattern[i], q[i])
  BY <1>1, <1>2, <1>5 DEF SegmentFits, Params
<1>7. Len(Auth.pattern) <= Len(q)
  <2>1. Len(Auth.pattern) = 1 BY <1>1, <1>2
  <2>2. Len(q) \in Nat \ {0} BY <1>4
  <2> QED BY <2>1, <2>2
<1> QED BY <1>2, <1>6, <1>7 DEF Fits, q

\* A sequence of entries, all behind the prefix of the middleware ("api") or all
\* without need of one ("open").
Entry(kind, r) == Proper(r) /\ (kind = "api" => Api(r)) /\ (kind = "open" => Open(r))
Entries(kind, s) == \E S : s \in Seq(S) /\ \A r \in S : Entry(kind, r)

LEMMA EntriesBoth ==
  ASSUME NEW kind, NEW s, NEW t, Entries(kind, s), Entries(kind, t) PROVE Entries(kind, s \o t)
<1>1. PICK S : s \in Seq(S) /\ \A r \in S : Entry(kind, r) BY DEF Entries
<1>2. PICK T : t \in Seq(T) /\ \A r \in T : Entry(kind, r) BY DEF Entries
<1>3. s \in Seq(S \cup T) /\ t \in Seq(S \cup T) BY <1>1, <1>2
<1>4. s \o t \in Seq(S \cup T) BY <1>3
<1> QED BY <1>1, <1>2, <1>4 DEF Entries

LEMMA EntriesOne ==
  ASSUME NEW k, NEW a,
         Entry(k, a)
  PROVE  Entries(k, << a >>)
<1> DEFINE S == {a}
<1>1. << a >> \in Seq(S) OBVIOUS
<1>2. \A r \in S : Entry(k, r) OBVIOUS
<1> HIDE DEF S
<1> QED BY <1>1, <1>2 DEF Entries

LEMMA EntriesThree ==
  ASSUME NEW k, NEW a, NEW b, NEW c,
         Entry(k, a), Entry(k, b), Entry(k, c)
  PROVE  Entries(k, << a, b, c >>)
<1> DEFINE S == {a, b, c}
<1>1. << a, b, c >> \in Seq(S) OBVIOUS
<1>2. \A r \in S : Entry(k, r) OBVIOUS
<1> HIDE DEF S
<1> QED BY <1>1, <1>2 DEF Entries

LEMMA EntriesFour ==
  ASSUME NEW k, NEW a, NEW b, NEW c, NEW d,
         Entry(k, a), Entry(k, b), Entry(k, c), Entry(k, d)
  PROVE  Entries(k, << a, b, c, d >>)
<1> DEFINE S == {a, b, c, d}
<1>1. << a, b, c, d >> \in Seq(S) OBVIOUS
<1>2. \A r \in S : Entry(k, r) OBVIOUS
<1> HIDE DEF S
<1> QED BY <1>1, <1>2 DEF Entries

LEMMA EntriesFive ==
  ASSUME NEW k, NEW a, NEW b, NEW c, NEW d, NEW e,
         Entry(k, a), Entry(k, b), Entry(k, c), Entry(k, d), Entry(k, e)
  PROVE  Entries(k, << a, b, c, d, e >>)
<1> DEFINE S == {a, b, c, d, e}
<1>1. << a, b, c, d, e >> \in Seq(S) OBVIOUS
<1>2. \A r \in S : Entry(k, r) OBVIOUS
<1> HIDE DEF S
<1> QED BY <1>1, <1>2 DEF Entries

LEMMA EntriesSeven ==
  ASSUME NEW k, NEW a, NEW b, NEW c, NEW d, NEW e, NEW f, NEW g,
         Entry(k, a), Entry(k, b), Entry(k, c), Entry(k, d), Entry(k, e), Entry(k, f), Entry(k, g)
  PROVE  Entries(k, << a, b, c, d, e, f, g >>)
<1> DEFINE S == {a, b, c, d, e, f, g}
<1>1. << a, b, c, d, e, f, g >> \in Seq(S) OBVIOUS
<1>2. \A r \in S : Entry(k, r) OBVIOUS
<1> HIDE DEF S
<1> QED BY <1>1, <1>2 DEF Entries

LEMMA EntriesTen ==
  ASSUME NEW k, NEW a, NEW b, NEW c, NEW d, NEW e, NEW f, NEW g, NEW h, NEW i, NEW j,
         Entry(k, a), Entry(k, b), Entry(k, c), Entry(k, d), Entry(k, e), Entry(k, f), Entry(k,
         g), Entry(k, h), Entry(k, i), Entry(k, j)
  PROVE  Entries(k, << a, b, c, d, e, f, g, h, i, j >>)
<1> DEFINE S == {a, b, c, d, e, f, g, h, i, j}
<1>1. << a, b, c, d, e, f, g, h, i, j >> \in Seq(S) OBVIOUS
<1>2. \A r \in S : Entry(k, r) OBVIOUS
<1> HIDE DEF S
<1> QED BY <1>1, <1>2 DEF Entries

LEMMA EntriesSixteen ==
  ASSUME NEW k, NEW a, NEW b, NEW c, NEW d, NEW e, NEW f, NEW g, NEW h, NEW i, NEW j, NEW l, NEW
         m, NEW n, NEW o, NEW p, NEW q,
         Entry(k, a), Entry(k, b), Entry(k, c), Entry(k, d), Entry(k, e), Entry(k, f), Entry(k,
         g), Entry(k, h), Entry(k, i), Entry(k, j), Entry(k, l), Entry(k, m), Entry(k, n),
         Entry(k, o), Entry(k, p), Entry(k, q)
  PROVE  Entries(k, << a, b, c, d, e, f, g, h, i, j, l, m, n, o, p, q >>)
<1> DEFINE S == {a, b, c, d, e, f, g, h, i, j, l, m, n, o, p, q}
<1>1. << a, b, c, d, e, f, g, h, i, j, l, m, n, o, p, q >> \in Seq(S) OBVIOUS
<1>2. \A r \in S : Entry(k, r) OBVIOUS
<1> HIDE DEF S
<1> QED BY <1>1, <1>2 DEF Entries

LEMMA ApiEntry ==
  ASSUME NEW method, method # "USE", NEW p, ApiPath(p), NEW h \in DOMAIN StepsOf,
         GroupPlace(R(method, p, h))
  PROVE  Entry("api", R(method, p, h))
BY DEF R, Entry, Proper, Api

LEMMA OpenEntry ==
  ASSUME NEW method, NEW p, Free(p), NEW h \in (Public \cap DOMAIN StepsOf) \cup Middlewares
  PROVE  Entry("open", R(method, p, h))
BY DEF R, Entry, Proper, Open, GroupPlace

LEMMA FreeEntry ==
  ASSUME NEW method, method # "USE", NEW p, ApiPath(p), Free(p), NEW h \in DOMAIN StepsOf
  PROVE  Entry("api", R(method, p, h))
BY ApiEntry DEF R, GroupPlace

LEMMA FreeShort ==
  /\ Free(<< >>) /\ \A a : a # ":gid" => Free(<< a >>)
  /\ \A a, b : ":gid" \notin {a, b} => Free(<< a, b >>)
<1>1. << >> \in Seq({}) /\ \A a, b : << a >> \in Seq({a}) /\ << a, b >> \in Seq({a, b})
  OBVIOUS
<1>2. IsSeq(<< >>) /\ \A a, b : IsSeq(<< a >>) /\ IsSeq(<< a, b >>) BY <1>1 DEF IsSeq
<1>3. Free(<< >>) BY <1>2 DEF Free
<1>4. ASSUME NEW a, a # ":gid" PROVE Free(<< a >>)
  <2>1. \A i \in DOMAIN << a >> : << a >>[i] # ":gid" BY <1>4
  <2> QED BY <1>2, <2>1 DEF Free
<1>5. ASSUME NEW a, NEW b, ":gid" \notin {a, b} PROVE Free(<< a, b >>)
  <2>1. \A i \in DOMAIN << a, b >> : << a, b >>[i] # ":gid" BY <1>5
  <2> QED BY <1>2, <2>1 DEF Free
<1> QED BY <1>3, <1>4, <1>5

LEMMA ApiPath2 ==
  ASSUME NEW b
  PROVE  /\ ApiPath(<< "api", b >>)
         /\ ":gid" \notin {b} => Free(<< "api", b >>)
<1> DEFINE s == << "api", b >>
<1>1. s \in Seq({"api", b}) OBVIOUS
<1>2. Len(s) = 2 /\ s[1] = "api" /\ s[2] = b OBVIOUS
<1> HIDE DEF s
<1>3. ApiPath(s) BY <1>1, <1>2 DEF ApiPath, IsSeq
<1>4. DOMAIN s = 1 .. 2 BY <1>1, <1>2
<1>5. ":gid" \notin {b} => Free(s) BY <1>1, <1>2, <1>4 DEF Free, IsSeq
<1> QED BY <1>3, <1>5 DEF s

LEMMA ApiPath3 ==
  ASSUME NEW b, NEW c
  PROVE  /\ ApiPath(<< "api", b, c >>)
         /\ ":gid" \notin {b, c} => Free(<< "api", b, c >>)
<1> DEFINE s == << "api", b, c >>
<1>1. s \in Seq({"api", b, c}) OBVIOUS
<1>2. Len(s) = 3 /\ s[1] = "api" /\ s[2] = b /\ s[3] = c OBVIOUS
<1> HIDE DEF s
<1>3. ApiPath(s) BY <1>1, <1>2 DEF ApiPath, IsSeq
<1>4. DOMAIN s = 1 .. 3 BY <1>1, <1>2
<1>5. ":gid" \notin {b, c} => Free(s) BY <1>1, <1>2, <1>4 DEF Free, IsSeq
<1> QED BY <1>3, <1>5 DEF s

LEMMA ApiPath4 ==
  ASSUME NEW b, NEW c, NEW d
  PROVE  /\ ApiPath(<< "api", b, c, d >>)
         /\ ":gid" \notin {b, c, d} => Free(<< "api", b, c, d >>)
<1> DEFINE s == << "api", b, c, d >>
<1>1. s \in Seq({"api", b, c, d}) OBVIOUS
<1>2. Len(s) = 4 /\ s[1] = "api" /\ s[2] = b /\ s[3] = c /\ s[4] = d OBVIOUS
<1> HIDE DEF s
<1>3. ApiPath(s) BY <1>1, <1>2 DEF ApiPath, IsSeq
<1>4. DOMAIN s = 1 .. 4 BY <1>1, <1>2
<1>5. ":gid" \notin {b, c, d} => Free(s) BY <1>1, <1>2, <1>4 DEF Free, IsSeq
<1> QED BY <1>3, <1>5 DEF s

LEMMA ApiPath5 ==
  ASSUME NEW b, NEW c, NEW d, NEW e
  PROVE  /\ ApiPath(<< "api", b, c, d, e >>)
         /\ ":gid" \notin {b, c, d, e} => Free(<< "api", b, c, d, e >>)
<1> DEFINE s == << "api", b, c, d, e >>
<1>1. s \in Seq({"api", b, c, d, e}) OBVIOUS
<1>2. Len(s) = 5 /\ s[1] = "api" /\ s[2] = b /\ s[3] = c /\ s[4] = d /\ s[5] = e OBVIOUS
<1> HIDE DEF s
<1>3. ApiPath(s) BY <1>1, <1>2 DEF ApiPath, IsSeq
<1>4. DOMAIN s = 1 .. 5 BY <1>1, <1>2
<1>5. ":gid" \notin {b, c, d, e} => Free(s) BY <1>1, <1>2, <1>4 DEF Free, IsSeq
<1> QED BY <1>3, <1>5 DEF s

LEMMA ApiPathMore ==
  ASSUME NEW p, ApiPath(p), NEW rest, IsSeq(rest) PROVE ApiPath(p \o rest)
<1>1. PICK S : p \in Seq(S) BY DEF ApiPath, IsSeq
<1>2. PICK T : rest \in Seq(T) BY DEF IsSeq
<1>3. p \in Seq(S \cup T) /\ rest \in Seq(S \cup T) BY <1>1, <1>2
<1>4. /\ p \o rest \in Seq(S \cup T) /\ Len(p \o rest) = Len(p) + Len(rest)
      /\ Len(p) > 0 => (p \o rest)[1] = p[1]
  BY <1>3
<1> QED BY <1>1, <1>2, <1>4 DEF ApiPath, IsSeq

LEMMA Joined ==
  ASSUME NEW s, NEW t, IsSeq(s), IsSeq(t)
  PROVE  /\ IsSeq(s \o t) /\ Len(s \o t) = Len(s) + Len(t)
         /\ Len(s) \in Nat /\ Len(t) \in Nat
         /\ \A i \in 1 .. Len(s) : (s \o t)[i] = s[i]
         /\ \A i \in Len(s) + 1 .. Len(s) + Len(t) : (s \o t)[i] = t[i - Len(s)]
         /\ \A i \in 1 .. Len(t) : (s \o t)[Len(s) + i] = t[i]
<1>1. PICK S : s \in Seq(S) BY DEF IsSeq
<1>2. PICK T : t \in Seq(T) BY DEF IsSeq
<1>3. s \in Seq(S \cup T) /\ t \in Seq(S \cup T) BY <1>1, <1>2
<1>4. s \o t \in Seq(S \cup T) BY <1>3
<1> QED BY <1>3, <1>4 DEF IsSeq

LEMMA PublicEntries == Entries("open", publicRoutes) /\ Entries("open", << Auth >>)
<1>1. Public \subseteq DOMAIN StepsOf BY DEF StepsOf, Public
<1>2. Entries("open", publicRoutes)
  BY <1>1, OpenEntry, FreeShort, EntriesFive DEF publicRoutes, Public
<1>3. Entries("open", << Auth >>)
  BY OpenEntry, FreeShort, EntriesOne DEF Auth, Use, Middlewares
<1> QED BY <1>2, <1>3

LEMMA SessionEntries == Entries("api", sessionRoutes)
<1>1. {"listSessions", "createSession", "getSession", "deleteSession", "startSession",
       "stopSession", "logoutSession"} \subseteq DOMAIN StepsOf BY DEF StepsOf
<1> QED BY <1>1, FreeEntry, EntriesSeven, ApiPath2, ApiPath3, ApiPath4 DEF sessionRoutes

LEMMA PairingEntries == Entries("api", pairingRoutes)
<1>1. {"getQR", "getQRPNG", "requestPairCode"} \subseteq DOMAIN StepsOf BY DEF StepsOf
<1> QED BY <1>1, FreeEntry, EntriesThree, ApiPath4 DEF pairingRoutes

LEMMA MessageEntries == Entries("api", messageRoutes)
<1>1. {"sendText", "sendImage", "sendFile", "sendVoice", "sendVideo", "sendLocation",
       "sendContact", "sendSeen", "startTyping", "stopTyping"} \subseteq DOMAIN StepsOf BY DEF
       StepsOf
<1> QED BY <1>1, FreeEntry, EntriesTen, ApiPath2 DEF messageRoutes

LEMMA ReadEntries == Entries("api", readRoutes)
<1>1. {"getMe", "getContacts", "getChats", "getGroups"} \subseteq DOMAIN StepsOf BY DEF StepsOf
<1> QED BY <1>1, FreeEntry, EntriesFour, ApiPath3 DEF readRoutes

LEMMA GroupEntries == Entries("api", groupRoutes)
<1>1. {"createGroup", "joinGroup", "getGroupInfo", "leaveGroup", "addParticipants",
       "removeParticipants", "promoteParticipants", "demoteParticipants", "setGroupName",
       "setGroupTopic", "setGroupLocked", "setGroupAnnounce", "setGroupPhoto",
       "setGroupDisappearing", "getInviteLink", "revokeInviteLink"} \subseteq DOMAIN StepsOf BY
       DEF StepsOf
<1>2. /\ IsSeq(<< >>)
      /\ \A x : IsSeq(<< x >>)
      /\ \A x, y : IsSeq(<< x, y >>)
  <2>1. << >> \in Seq({}) OBVIOUS
  <2>2. \A x : << x >> \in Seq({x}) OBVIOUS
  <2>3. \A x, y : << x, y >> \in Seq({x, y}) OBVIOUS
  <2> QED BY <2>1, <2>2, <2>3 DEF IsSeq
<1>3. ASSUME NEW method, method # "USE", NEW rest, IsSeq(rest), Free(rest),
             method = "GET" \/ Len(rest) > 0, NEW h \in DOMAIN StepsOf
      PROVE  Entry("api", R(method, <<"api", ":session", "groups", ":gid">> \o rest, h))
  <2> DEFINE one == <<"api", ":session", "groups", ":gid">>
  <2>1. ApiPath(one) BY ApiPath4
  <2>2. /\ Len(one) = 4 /\ one[1] = "api" /\ one[2] = ":session" /\ one[3] = "groups"
        /\ one[4] = ":gid"
    OBVIOUS
  <2> HIDE DEF one
  <2> DEFINE p == one \o rest
  <2>3. ApiPath(p) BY <1>3, <2>1, ApiPathMore
  <2>4. PICK T : rest \in Seq(T) BY <1>3 DEF IsSeq
  <2>5. IsSeq(one) BY <2>1 DEF ApiPath
  <2>6. /\ IsSeq(p) /\ Len(p) = Len(one) + Len(rest) /\ Len(rest) \in Nat
        /\ \A i \in 1 .. Len(one) : p[i] = one[i]
        /\ \A i \in Len(one) + 1 .. Len(one) + Len(rest) : p[i] = rest[i - Len(one)]
    BY <1>3, <2>5, Joined
  <2> HIDE DEF p
  <2>a. /\ Len(p) = 4 + Len(rest) /\ \A i \in 1 .. 4 : p[i] = one[i]
        /\ \A i \in 5 .. 4 + Len(rest) : p[i] = rest[i - 4]
    BY <2>2, <2>6
  <2>7. DOMAIN p = 1 .. Len(p) BY <2>6 DEF IsSeq
  <2>8. \A i \in DOMAIN p : p[i] = ":gid" => i = 4
    <3> SUFFICES ASSUME NEW i \in DOMAIN p, p[i] = ":gid" PROVE i = 4 OBVIOUS
    <3>1. CASE i \in 1 .. 4 BY <2>2, <2>a, <2>6, <3>1
    <3>2. CASE i \in 5 .. 4 + Len(rest)
      <4>1. i - 4 \in DOMAIN rest BY <2>4, <2>a, <2>6, <3>2
      <4> QED BY <1>3, <2>a, <2>6, <3>2, <4>1 DEF Free
    <3> QED BY <2>a, <2>6, <2>7, <3>1, <3>2
  <2>9. 3 \in 1 .. 4 /\ 4 \in 1 .. 4 OBVIOUS
  <2>10. p[3] = "groups" /\ p[4] = ":gid" BY <2>2, <2>a, <2>6, <2>9
  <2>11. GroupPlace(R(method, p, h))
    BY <1>3, <2>a, <2>6, <2>8, <2>10 DEF GroupPlace, R
  <2>12. Entry("api", R(method, p, h)) BY <1>3, <2>3, <2>11, ApiEntry
  <2> QED BY <2>12 DEF p, one
<1> DEFINE gid(method, rest, h) == R(method, <<"api", ":session", "groups", ":gid">> \o rest, h)
<1>4. Len(<< >>) = 0 /\ \A x, y : Len(<< x >>) > 0 /\ Len(<< x, y >>) > 0 OBVIOUS
<1>5. \A h \in DOMAIN StepsOf :
        /\ Entry("api", gid("GET", << >>, h))
        /\ \A method \in {"GET", "POST", "PUT"} :
             /\ \A x : x # ":gid" => Entry("api", gid(method, << x >>, h))
             /\ \A x, y : ":gid" \notin {x, y} => Entry("api", gid(method, << x, y >>, h))
  BY <1>2, <1>3, <1>4, FreeShort
<1> HIDE DEF gid
<1>6. /\ Entry("api", gid("GET", << >>, "getGroupInfo"))
      /\ Entry("api", gid("POST", <<"leave">>, "leaveGroup"))
      /\ Entry("api", gid("POST", <<"participants", "add">>, "addParticipants"))
      /\ Entry("api", gid("POST", <<"participants", "remove">>, "removeParticipants"))
      /\ Entry("api", gid("POST", <<"participants", "promote">>, "promoteParticipants"))
      /\ Entry("api", gid("POST", <<"participants", "demote">>, "demoteParticipants"))
      /\ Entry("api", gid("PUT", <<"name">>, "setGroupName"))
      /\ Entry("api", gid("PUT", <<"topic">>, "setGroupTopic"))
      /\ Entry("api", gid("PUT", <<"locked">>, "setGroupLocked"))
      /\ Entry("api", gid("PUT", <<"announce">>, "setGroupAnnounce"))
      /\ Entry("api", gid("PUT", <<"photo">>, "setGroupPhoto"))
      /\ Entry("api", gid("PUT", <<"disappearing">>, "setGroupDisappearing"))
      /\ Entry("api", gid("GET", <<"invite-link">>, "getInviteLink"))
      /\ Entry("api", gid("POST", <<"invite-link", "revoke">>, "revokeInviteLink"))
  BY <1>1, <1>5
<1>7. /\ Entry("api", R("POST", <<"api", ":session", "groups">>, "createGroup"))
      /\ Entry("api", R("POST", <<"api", ":session", "groups", "join">>, "joinGroup"))
  BY <1>1, FreeEntry, ApiPath3, ApiPath4
<1> QED BY <1>6, <1>7, EntriesSixteen DEF groupRoutes, gid

LEMMA WebhookEntries == Entries("api", webhookRoutes)
<1>1. {"listWebhooks", "addWebhook", "deleteWebhook"} \subseteq DOMAIN StepsOf BY DEF StepsOf
<1> QED BY <1>1, FreeEntry, EntriesThree, ApiPath3 DEF webhookRoutes

LEMMA KeyEntries == Entries("api", keyRoutes)
<1>1. {"listKeys", "createKey", "deleteKey"} \subseteq DOMAIN StepsOf BY DEF StepsOf
<1> QED BY <1>1, FreeEntry, EntriesThree, ApiPath2, ApiPath3 DEF keyRoutes

\* Every entry is open, or has one before it that takes what it would take.
Fenced(s, j) == \E i \in 1 .. j - 1 : s[i].handler \in Middlewares /\ Covers(s[i], s[j])
Guarded(s) ==
  IsSeq(s) /\ \A j \in 1 .. Len(s) : Proper(s[j]) /\ (Open(s[j]) \/ Fenced(s, j))
HasAuth(s) == \E i \in 1 .. Len(s) : s[i] = Auth

LEMMA GuardedMore ==
  ASSUME NEW s, Guarded(s), NEW t, IsSeq(t),
         \A j \in 1 .. Len(t) :
           /\ Proper(t[j])
           /\ Open(t[j]) \/ Fenced(t, j) \/ (HasAuth(s) /\ Covers(Auth, t[j]))
  PROVE  Guarded(s \o t) /\ (HasAuth(s) => HasAuth(s \o t))
<1> DEFINE u == s \o t
<1>0. IsSeq(s) BY DEF Guarded
<1>1. /\ IsSeq(u) /\ Len(u) = Len(s) + Len(t) /\ Len(s) \in Nat /\ Len(t) \in Nat
      /\ \A i \in 1 .. Len(s) : u[i] = s[i]
      /\ \A i \in Len(s) + 1 .. Len(s) + Len(t) : u[i] = t[i - Len(s)]
      /\ \A i \in 1 .. Len(t) : u[Len(s) + i] = t[i]
  BY <1>0, Joined
<1> HIDE DEF u
<1>2. ASSUME NEW j \in 1 .. Len(s) PROVE Proper(u[j]) /\ (Open(u[j]) \/ Fenced(u, j))
  BY <1>1 DEF Guarded, Fenced
<1>3. ASSUME NEW j \in Len(s) + 1 .. Len(u)
      PROVE  Proper(u[j]) /\ (Open(u[j]) \/ Fenced(u, j))
  <2>1. j - Len(s) \in 1 .. Len(t) /\ u[j] = t[j - Len(s)] BY <1>1
  <2>2. CASE Fenced(t, j - Len(s))
    <3>1. PICK i \in 1 .. j - Len(s) - 1 :
            t[i].handler \in Middlewares /\ Covers(t[i], t[j - Len(s)])
      BY <2>2 DEF Fenced
    <3>2. Len(s) + i \in 1 .. j - 1 /\ u[Len(s) + i] = t[i] BY <1>1, <2>1
    <3> QED BY <2>1, <3>1, <3>2 DEF Fenced
  <2>3. CASE HasAuth(s) /\ Covers(Auth, t[j - Len(s)])
    <3>1. PICK i \in 1 .. Len(s) : s[i] = Auth BY <2>3 DEF HasAuth
    <3>2. Auth.handler \in Middlewares BY DEF Auth, Use, R, Middlewares
    <3>3. i \in 1 .. j - 1 /\ u[i] = Auth BY <1>1, <3>1
    <3> QED BY <2>1, <2>3, <3>2, <3>3 DEF Fenced
  <2> QED BY <2>1, <2>2, <2>3
<1>4. Guarded(u) BY <1>1, <1>2, <1>3 DEF Guarded
<1>5. HasAuth(s) => HasAuth(u) BY <1>1 DEF HasAuth
<1> QED BY <1>4, <1>5 DEF u

LEMMA GuardedApi ==
  ASSUME NEW s, Guarded(s), HasAuth(s), NEW t, Entries("api", t)
  PROVE  Guarded(s \o t) /\ HasAuth(s \o t)
<1>1. PICK S : t \in Seq(S) /\ \A r \in S : Entry("api", r) BY DEF Entries
<1>2. IsSeq(t) /\ \A j \in 1 .. Len(t) : Proper(t[j]) /\ Api(t[j])
  BY <1>1 DEF IsSeq, Entry
<1> QED BY <1>2, AuthCovers, GuardedMore

LEMMA GuardedOpen ==
  ASSUME NEW t, Entries("open", t)
  PROVE  Guarded(t) /\ \A s : Guarded(s) => Guarded(s \o t)
<1>1. PICK S : t \in Seq(S) /\ \A r \in S : Entry("open", r) BY DEF Entries
<1>2. IsSeq(t) /\ \A j \in 1 .. Len(t) : Proper(t[j]) /\ Open(t[j])
  BY <1>1 DEF IsSeq, Entry
<1>3. \A s : Guarded(s) => Guarded(s \o t) BY <1>2, GuardedMore
<1> QED BY <1>2, <1>3 DEF Guarded

LEMMA GuardedStream == ASSUME NEW s, Guarded(s) PROVE Guarded(s \o streamRoutes)
<1> DEFINE up == Use(<<"ws">>, "upgrade")
           ws == R("GET", <<"ws">>, "handleWS")
           t == << up, ws >>
<1>1. t \in Seq({up, ws}) /\ Len(t) = 2 /\ t[1] = up /\ t[2] = ws OBVIOUS
<1>2. /\ up.method = "USE" /\ up.handler = "upgrade" /\ up.pattern = <<"ws">>
      /\ ws.method = "GET" /\ ws.handler = "handleWS" /\ ws.pattern = <<"ws">>
  BY DEF Use, R
<1>3. "handleWS" \in DOMAIN StepsOf BY DEF StepsOf
<1> HIDE DEF t, up, ws
<1>4. Covers(up, ws)
  <2> DEFINE one == <<"ws">>
  <2>1. Len(one) = 1 OBVIOUS
  <2> HIDE DEF one
  <2>2. up.pattern = one /\ ws.pattern = one BY <1>2 DEF one
  <2> QED BY <1>2, <2>1, <2>2 DEF Covers, Fits
<1>5. IsSeq(t) BY <1>1 DEF IsSeq
<1>6. Fenced(t, 2) BY <1>1, <1>2, <1>4 DEF Fenced, Middlewares
<1>7. \A j \in 1 .. Len(t) : Proper(t[j]) /\ (Open(t[j]) \/ Fenced(t, j))
  <2> SUFFICES ASSUME NEW j \in 1 .. 2
               PROVE  Proper(t[j]) /\ (Open(t[j]) \/ Fenced(t, j))
    BY <1>1
  <2>1. j = 1 \/ j = 2 OBVIOUS
  <2> QED BY <1>1, <1>2, <1>3, <1>6, <2>1, FreeShort DEF Proper, Open, Middlewares, GroupPlace
<1>8. Guarded(s \o t) BY <1>5, <1>7, GuardedMore
<1> QED BY <1>8 DEF t, up, ws, streamRoutes

LEMMA RoutesGuarded == Guarded(routes)
<1> DEFINE s0 == publicRoutes \o << Auth >>
           s1 == s0 \o sessionRoutes
           s2 == s1 \o pairingRoutes
           s3 == s2 \o messageRoutes
           s4 == s3 \o readRoutes
           s5 == s4 \o groupRoutes
           s6 == s5 \o webhookRoutes
           s7 == s6 \o keyRoutes
<1>1. Guarded(s0) /\ HasAuth(s0)
  <2>1. IsSeq(publicRoutes) BY PublicEntries DEF Entries, IsSeq
  <2> DEFINE one == << Auth >>
  <2>2. one \in Seq({Auth}) /\ Len(one) = 1 /\ one[1] = Auth OBVIOUS
  <2> HIDE DEF one
  <2>3. IsSeq(one) BY <2>2 DEF IsSeq
  <2>4. 1 \in 1 .. Len(one) BY <2>2
  <2>5. (publicRoutes \o one)[Len(publicRoutes) + 1] = Auth
    BY <2>4, <2>1, <2>2, <2>3, Joined
  <2>6. /\ Len(publicRoutes \o one) = Len(publicRoutes) + Len(one)
         /\ Len(publicRoutes) \in Nat
    BY <2>1, <2>3, Joined
  <2> DEFINE both == publicRoutes \o one
  <2>7. Len(both) = Len(publicRoutes) + 1 /\ Len(publicRoutes) \in Nat BY <2>2, <2>6
  <2>8. both[Len(publicRoutes) + 1] = Auth BY <2>5
  <2> HIDE DEF both
  <2>9. HasAuth(both) BY <2>7, <2>8 DEF HasAuth
  <2>10. HasAuth(publicRoutes \o one) BY <2>9 DEF both
  <2>11. Entries("open", publicRoutes \o << Auth >>) BY PublicEntries, EntriesBoth
  <2> QED BY <2>10, <2>11, GuardedOpen DEF one
<1> HIDE DEF s0
<1>2. Guarded(s1) /\ HasAuth(s1) BY <1>1, SessionEntries, GuardedApi
<1> HIDE DEF s1
<1>3. Guarded(s2) /\ HasAuth(s2) BY <1>2, PairingEntries, GuardedApi
<1> HIDE DEF s2
<1>4. Guarded(s3) /\ HasAuth(s3) BY <1>3, MessageEntries, GuardedApi
<1> HIDE DEF s3
<1>5. Guarded(s4) /\ HasAuth(s4) BY <1>4, ReadEntries, GuardedApi
<1> HIDE DEF s4
<1>6. Guarded(s5) /\ HasAuth(s5) BY <1>5, GroupEntries, GuardedApi
<1> HIDE DEF s5
<1>7. Guarded(s6) /\ HasAuth(s6) BY <1>6, WebhookEntries, GuardedApi
<1> HIDE DEF s6
<1>8. Guarded(s7) /\ HasAuth(s7) BY <1>7, KeyEntries, GuardedApi
<1> HIDE DEF s7
<1>9. Guarded(s7 \o streamRoutes) BY <1>8, GuardedStream
<1>10. Entries("open", << Use(<< >>, "dashboard") >>)
  BY OpenEntry, FreeShort, EntriesOne DEF Use, Middlewares
<1>11. Guarded((s7 \o streamRoutes) \o << Use(<< >>, "dashboard") >>)
  BY <1>9, <1>10, GuardedOpen
<1> QED BY <1>11 DEF routes, Auth, s0, s1, s2, s3, s4, s5, s6, s7

-----------------------------------------------------------------------------
(* The entry that takes a request. *)

LEMMA Least == ASSUME NEW T, T \subseteq Nat, T # {} PROVE \E x \in T : \A y \in T : x <= y
<1> DEFINE Less == OpToRel(<, Nat)
<1>1. \A x \in Nat, y \in Nat : y < x => <<y, x>> \in Less BY DEF OpToRel
<1>2. IsWellFoundedOn(Less, Nat) BY NatLessThanWellFounded
<1> HIDE DEF Less
<1>3. PICK x \in T : \A y \in T : ~(<<y, x>> \in Less) BY <1>2, WFMin
<1>4. \A y \in T : ~(y < x) BY <1>1, <1>3
<1> QED BY <1>3, <1>4

LEMMA NextFitIs ==
  ASSUME NEW n, NEW method, NEW path, NEW i, i = NextFit(n, method, path), i # 0
  PROVE  /\ i \in DOMAIN routes /\ i > n /\ Fits(routes[i], method, path)
         /\ \A j \in DOMAIN routes : j > n /\ Fits(routes[j], method, path) => i <= j
<1> DEFINE later == {j \in DOMAIN routes : j > n /\ Fits(routes[j], method, path)}
           first == CHOOSE j \in later : \A k \in later : j <= k
<1>1. later \subseteq Nat BY RoutesGuarded DEF Guarded, IsSeq
<1>2. later # {} /\ i = first BY Zenon DEF NextFit
<1> HIDE DEF first
<1>3. \E j \in later : \A k \in later : j <= k BY <1>1, <1>2, Least
<1> USE DEF first
<1>4. first \in later /\ \A k \in later : first <= k BY <1>3
<1> HIDE DEF first
<1> QED BY <1>2, <1>4

LEMMA RoutesDomain == DOMAIN routes = 1 .. Len(routes) /\ Len(routes) \in Nat
<1>1. PICK S : routes \in Seq(S) BY RoutesGuarded DEF Guarded, IsSeq
<1> QED BY <1>1

\* A handler that is not public is never the first to take a request.
LEMMA FirstIsOpen ==
  ASSUME NEW method, NEW path, NEW i, i = NextFit(0, method, path), i # 0 PROVE Open(routes[i])
<1> SUFFICES ASSUME ~Open(routes[i]) PROVE FALSE OBVIOUS
<1>1. IsSeq(routes) /\ i \in 1 .. Len(routes) BY NextFitIs, RoutesGuarded DEF Guarded, IsSeq
<1>2. Fenced(routes, i) BY <1>1, RoutesGuarded DEF Guarded
<1>3. PICK j \in 1 .. i - 1 : Covers(routes[j], routes[i]) BY <1>2 DEF Fenced
<1>4. j \in DOMAIN routes /\ j > 0 /\ Fits(routes[j], method, path)
  BY <1>1, <1>3, NextFitIs DEF Covers, IsSeq
<1>5. i <= j BY <1>4, NextFitIs
<1> QED BY <1>1, <1>3, <1>5

-----------------------------------------------------------------------------
(* Which entry takes a request, list by list.  What a pattern is, segment   *)
(* by segment, is opaque to the lemmas that use it (Path, Route), and so is *)
(* what Fiber makes of it (Matching): the prover unfolds one at a time.     *)

\* A path, segment by segment.
Path0(u) == IsSeq(u) /\ Len(u) = 0
Path1(u, a) == IsSeq(u) /\ Len(u) = 1 /\ u[1] = a
Path2(u, a, b) == IsSeq(u) /\ Len(u) = 2 /\ u[1] = a /\ u[2] = b
Path3(u, a, b, c) == IsSeq(u) /\ Len(u) = 3 /\ u[1] = a /\ u[2] = b /\ u[3] = c
Path4(u, a, b, c, d) ==
  IsSeq(u) /\ Len(u) = 4 /\ u[1] = a /\ u[2] = b /\ u[3] = c /\ u[4] = d
Path5(u, a, b, c, d, e) ==
  IsSeq(u) /\ Len(u) = 5 /\ u[1] = a /\ u[2] = b /\ u[3] = c /\ u[4] = d /\ u[5] = e
Path6(u, a, b, c, d, e, f) ==
  /\ IsSeq(u) /\ Len(u) = 6
  /\ u[1] = a /\ u[2] = b /\ u[3] = c /\ u[4] = d /\ u[5] = e /\ u[6] = f

LEMMA PathTuples ==
  /\ Path0(<< >>)
  /\ \A a : Path1(<< a >>, a)
  /\ \A a, b : Path2(<< a, b >>, a, b)
  /\ \A a, b, c : Path3(<< a, b, c >>, a, b, c)
  /\ \A a, b, c, d : Path4(<< a, b, c, d >>, a, b, c, d)
<1>1. ASSUME NEW a PROVE Path1(<< a >>, a)
  <2>1. << a >> \in Seq({a}) OBVIOUS
  <2> QED BY <2>1 DEF Path1, IsSeq
<1>2. ASSUME NEW a, NEW b PROVE Path2(<< a, b >>, a, b)
  <2>1. << a, b >> \in Seq({a, b}) OBVIOUS
  <2> QED BY <2>1 DEF Path2, IsSeq
<1>3. ASSUME NEW a, NEW b, NEW c PROVE Path3(<< a, b, c >>, a, b, c)
  <2>1. << a, b, c >> \in Seq({a, b, c}) OBVIOUS
  <2> QED BY <2>1 DEF Path3, IsSeq
<1>4. ASSUME NEW a, NEW b, NEW c, NEW d PROVE Path4(<< a, b, c, d >>, a, b, c, d)
  <2>1. << a, b, c, d >> \in Seq({a, b, c, d}) OBVIOUS
  <2> QED BY <2>1 DEF Path4, IsSeq
<1>5. Path0(<< >>)
  <2>1. << >> \in Seq({}) OBVIOUS
  <2> QED BY <2>1 DEF Path0, IsSeq
<1> QED BY <1>1, <1>2, <1>3, <1>4, <1>5

\* v is s, of k, and t, of n after it.
Joins(v, s, k, t, n) ==
  /\ IsSeq(v) /\ Len(v) = k + n
  /\ \A i \in 1 .. k : v[i] = s[i]
  /\ \A j : \A i \in 1 .. n : j = k + i => v[j] = t[i]

LEMMA JoinsAre ==
  ASSUME NEW s, NEW t, IsSeq(s), IsSeq(t) PROVE Joins(s \o t, s, Len(s), t, Len(t))
BY Joined DEF Joins

LEMMA PathsJoin ==
  ASSUME NEW s, NEW t
  PROVE  /\ \A a : Path1(s, a) /\ Path0(t) => Path1(s \o t, a)
         /\ \A a, b : Path1(s, a) /\ Path1(t, b) => Path2(s \o t, a, b)
         /\ \A a, b, c : Path1(s, a) /\ Path2(t, b, c) => Path3(s \o t, a, b, c)
         /\ \A a, b, c, d : Path1(s, a) /\ Path3(t, b, c, d) => Path4(s \o t, a, b, c, d)
         /\ \A a, b, c : Path2(s, a, b) /\ Path1(t, c) => Path3(s \o t, a, b, c)
         /\ \A a, b, c, d : Path2(s, a, b) /\ Path2(t, c, d) => Path4(s \o t, a, b, c, d)
         /\ \A a, b, c, d, e : Path2(s, a, b) /\ Path3(t, c, d, e) => Path5(s \o t, a, b, c, d, e)
         /\ \A a, b, c, d, e, f : Path2(s, a, b) /\ Path4(t, c, d, e, f)
               => Path6(s \o t, a, b, c, d, e, f)
         /\ \A a, b, c, d : Path4(s, a, b, c, d) /\ Path0(t) => Path4(s \o t, a, b, c, d)
         /\ \A a, b, c, d, e : Path4(s, a, b, c, d) /\ Path1(t, e) => Path5(s \o t, a, b, c, d, e)
         /\ \A a, b, c, d, e, f : Path4(s, a, b, c, d) /\ Path2(t, e, f)
               => Path6(s \o t, a, b, c, d, e, f)
<1>1. \A a : Path1(s, a) /\ Path0(t) => Path1(s \o t, a)
  <2> TAKE a
  <2> HAVE Path1(s, a) /\ Path0(t)
  <2> DEFINE v == s \o t
  <2>1. Joins(v, s, Len(s), t, Len(t)) BY JoinsAre DEF Path0, Path1
  <2> HIDE DEF v
  <2>2. Path1(v, a) BY <2>1 DEF Joins, Path0, Path1
  <2> QED BY <2>2 DEF v
<1>2. \A a, b : Path1(s, a) /\ Path1(t, b) => Path2(s \o t, a, b)
  <2> TAKE a, b
  <2> HAVE Path1(s, a) /\ Path1(t, b)
  <2> DEFINE v == s \o t
  <2>1. Joins(v, s, Len(s), t, Len(t)) BY JoinsAre DEF Path1
  <2> HIDE DEF v
  <2>2. Path2(v, a, b) BY <2>1 DEF Joins, Path1, Path2
  <2> QED BY <2>2 DEF v
<1>3. \A a, b, c : Path1(s, a) /\ Path2(t, b, c) => Path3(s \o t, a, b, c)
  <2> TAKE a, b, c
  <2> HAVE Path1(s, a) /\ Path2(t, b, c)
  <2> DEFINE v == s \o t
  <2>1. Joins(v, s, Len(s), t, Len(t)) BY JoinsAre DEF Path1, Path2
  <2> HIDE DEF v
  <2>2. Path3(v, a, b, c) BY <2>1 DEF Joins, Path1, Path2, Path3
  <2> QED BY <2>2 DEF v
<1>4. \A a, b, c, d : Path1(s, a) /\ Path3(t, b, c, d) => Path4(s \o t, a, b, c, d)
  <2> TAKE a, b, c, d
  <2> HAVE Path1(s, a) /\ Path3(t, b, c, d)
  <2> DEFINE v == s \o t
  <2>1. Joins(v, s, Len(s), t, Len(t)) BY JoinsAre DEF Path1, Path3
  <2> HIDE DEF v
  <2>2. Path4(v, a, b, c, d) BY <2>1 DEF Joins, Path1, Path3, Path4
  <2> QED BY <2>2 DEF v
<1>5. \A a, b, c : Path2(s, a, b) /\ Path1(t, c) => Path3(s \o t, a, b, c)
  <2> TAKE a, b, c
  <2> HAVE Path2(s, a, b) /\ Path1(t, c)
  <2> DEFINE v == s \o t
  <2>1. Joins(v, s, Len(s), t, Len(t)) BY JoinsAre DEF Path1, Path2
  <2> HIDE DEF v
  <2>2. Path3(v, a, b, c) BY <2>1 DEF Joins, Path1, Path2, Path3
  <2> QED BY <2>2 DEF v
<1>6. \A a, b, c, d : Path2(s, a, b) /\ Path2(t, c, d) => Path4(s \o t, a, b, c, d)
  <2> TAKE a, b, c, d
  <2> HAVE Path2(s, a, b) /\ Path2(t, c, d)
  <2> DEFINE v == s \o t
  <2>1. Joins(v, s, Len(s), t, Len(t)) BY JoinsAre DEF Path2
  <2> HIDE DEF v
  <2>2. Path4(v, a, b, c, d) BY <2>1 DEF Joins, Path2, Path4
  <2> QED BY <2>2 DEF v
<1>7. \A a, b, c, d, e : Path2(s, a, b) /\ Path3(t, c, d, e) => Path5(s \o t, a, b, c, d, e)
  <2> TAKE a, b, c, d, e
  <2> HAVE Path2(s, a, b) /\ Path3(t, c, d, e)
  <2> DEFINE v == s \o t
  <2>1. Joins(v, s, Len(s), t, Len(t)) BY JoinsAre DEF Path2, Path3
  <2> HIDE DEF v
  <2>2. Path5(v, a, b, c, d, e) BY <2>1 DEF Joins, Path2, Path3, Path5
  <2> QED BY <2>2 DEF v
<1>8. \A a, b, c, d, e, f : Path2(s, a, b) /\ Path4(t, c, d, e, f)
      => Path6(s \o t, a, b, c, d, e, f)
  <2> TAKE a, b, c, d, e, f
  <2> HAVE Path2(s, a, b) /\ Path4(t, c, d, e, f)
  <2> DEFINE v == s \o t
  <2>1. Joins(v, s, Len(s), t, Len(t)) BY JoinsAre DEF Path2, Path4
  <2> HIDE DEF v
  <2>2. Path6(v, a, b, c, d, e, f) BY <2>1 DEF Joins, Path2, Path4, Path6
  <2> QED BY <2>2 DEF v
<1>9. \A a, b, c, d : Path4(s, a, b, c, d) /\ Path0(t) => Path4(s \o t, a, b, c, d)
  <2> TAKE a, b, c, d
  <2> HAVE Path4(s, a, b, c, d) /\ Path0(t)
  <2> DEFINE v == s \o t
  <2>1. Joins(v, s, Len(s), t, Len(t)) BY JoinsAre DEF Path0, Path4
  <2> HIDE DEF v
  <2>2. Path4(v, a, b, c, d) BY <2>1 DEF Joins, Path0, Path4
  <2> QED BY <2>2 DEF v
<1>10. \A a, b, c, d, e : Path4(s, a, b, c, d) /\ Path1(t, e) => Path5(s \o t, a, b, c, d, e)
  <2> TAKE a, b, c, d, e
  <2> HAVE Path4(s, a, b, c, d) /\ Path1(t, e)
  <2> DEFINE v == s \o t
  <2>1. Joins(v, s, Len(s), t, Len(t)) BY JoinsAre DEF Path1, Path4
  <2> HIDE DEF v
  <2>2. Path5(v, a, b, c, d, e) BY <2>1 DEF Joins, Path1, Path4, Path5
  <2> QED BY <2>2 DEF v
<1>11. \A a, b, c, d, e, f : Path4(s, a, b, c, d) /\ Path2(t, e, f)
      => Path6(s \o t, a, b, c, d, e, f)
  <2> TAKE a, b, c, d, e, f
  <2> HAVE Path4(s, a, b, c, d) /\ Path2(t, e, f)
  <2> DEFINE v == s \o t
  <2>1. Joins(v, s, Len(s), t, Len(t)) BY JoinsAre DEF Path2, Path4
  <2> HIDE DEF v
  <2>2. Path6(v, a, b, c, d, e, f) BY <2>1 DEF Joins, Path2, Path4, Path6
  <2> QED BY <2>2 DEF v
<1> QED BY <1>1, <1>2, <1>3, <1>4, <1>5, <1>6, <1>7, <1>8, <1>9, <1>10, <1>11, Zenon

-----------------------------------------------------------------------------
\* A path that ends in something, and the entries that take it.
Ends(p) == IsSeq(p) /\ Trimmed(p) = p

LEMMA EndsIs == ASSUME NEW p, IsSeq(p), NEW n, Len(p) = n, n # 0, p[n] # "" PROVE Ends(p)
BY DEF Ends, Trimmed

Route1(r, x, h, a) ==
  x # "USE" /\ r.method = x /\ r.handler = h /\ Path1(r.pattern, a)
Route2(r, x, h, a, b) ==
  x # "USE" /\ r.method = x /\ r.handler = h /\ Path2(r.pattern, a, b)
Route3(r, x, h, a, b, c) ==
  x # "USE" /\ r.method = x /\ r.handler = h /\ Path3(r.pattern, a, b, c)
Route4(r, x, h, a, b, c, d) ==
  x # "USE" /\ r.method = x /\ r.handler = h /\ Path4(r.pattern, a, b, c, d)
Route5(r, x, h, a, b, c, d, e) ==
  x # "USE" /\ r.method = x /\ r.handler = h /\ Path5(r.pattern, a, b, c, d, e)
Route6(r, x, h, a, b, c, d, e, f) ==
  x # "USE" /\ r.method = x /\ r.handler = h /\ Path6(r.pattern, a, b, c, d, e, f)

LEMMA RouteTuples ==
  ASSUME NEW x, x # "USE", NEW h
  PROVE  /\ \A a : Route1(R(x, << a >>, h), x, h, a)
         /\ \A a, b : Route2(R(x, << a, b >>, h), x, h, a, b)
         /\ \A a, b, c : Route3(R(x, << a, b, c >>, h), x, h, a, b, c)
         /\ \A a, b, c, d : Route4(R(x, << a, b, c, d >>, h), x, h, a, b, c, d)
BY PathTuples DEF R, Route1, Route2, Route3, Route4

\* What Fiber makes of an entry, segment by segment.
Matching(p, m) ==
  /\ \A r, x, h, a :
         Route1(r, x, h, a) =>
           Fits(r, m, p) <=> /\ m = x /\ Len(p) = 1 /\ SegmentFits(a, p[1])
  /\ \A r, x, h, a, b :
         Route2(r, x, h, a, b) =>
           Fits(r, m, p) <=> /\ m = x /\ Len(p) = 2 /\ SegmentFits(a, p[1])
                             /\ SegmentFits(b, p[2])
  /\ \A r, x, h, a, b, c :
         Route3(r, x, h, a, b, c) =>
           Fits(r, m, p) <=> /\ m = x /\ Len(p) = 3 /\ SegmentFits(a, p[1])
                             /\ SegmentFits(b, p[2]) /\ SegmentFits(c, p[3])
  /\ \A r, x, h, a, b, c, d :
         Route4(r, x, h, a, b, c, d) =>
           Fits(r, m, p) <=> /\ m = x /\ Len(p) = 4 /\ SegmentFits(a, p[1])
                             /\ SegmentFits(b, p[2]) /\ SegmentFits(c, p[3])
                             /\ SegmentFits(d, p[4])
  /\ \A r, x, h, a, b, c, d, e :
         Route5(r, x, h, a, b, c, d, e) =>
           Fits(r, m, p) <=> /\ m = x /\ Len(p) = 5 /\ SegmentFits(a, p[1])
                             /\ SegmentFits(b, p[2]) /\ SegmentFits(c, p[3])
                             /\ SegmentFits(d, p[4]) /\ SegmentFits(e, p[5])
  /\ \A r, x, h, a, b, c, d, e, f :
         Route6(r, x, h, a, b, c, d, e, f) =>
           Fits(r, m, p) <=> /\ m = x /\ Len(p) = 6 /\ SegmentFits(a, p[1])
                             /\ SegmentFits(b, p[2]) /\ SegmentFits(c, p[3])
                             /\ SegmentFits(d, p[4]) /\ SegmentFits(e, p[5])
                             /\ SegmentFits(f, p[6])

LEMMA FitsRoute == ASSUME NEW p, Ends(p), NEW m PROVE Matching(p, m)
<1>1. ASSUME NEW r, NEW x, NEW h, x # "USE", r.method = x, r.handler = h, IsSeq(r.pattern),
             NEW n \in Nat, Len(r.pattern) = n
      PROVE  Fits(r, m, p) <=> /\ m = x /\ Len(p) = n
                               /\ \A i \in 1 .. n : SegmentFits(r.pattern[i], p[i])
  <2>1. PICK S : r.pattern \in Seq(S) BY <1>1 DEF IsSeq
  <2>2. DOMAIN r.pattern = 1 .. n BY <1>1, <2>1
  <2>3. Trimmed(p) = p BY DEF Ends
  <2> QED BY <1>1, <2>2, <2>3 DEF Fits
<1>2. /\ \A i : i \in 1 .. 1 <=> i = 1
      /\ \A i : i \in 1 .. 2 <=> i = 1 \/ i = 2
      /\ \A i : i \in 1 .. 3 <=> i = 1 \/ i = 2 \/ i = 3
      /\ \A i : i \in 1 .. 4 <=> i = 1 \/ i = 2 \/ i = 3 \/ i = 4
      /\ \A i : i \in 1 .. 5 <=> i = 1 \/ i = 2 \/ i = 3 \/ i = 4 \/ i = 5
      /\ \A i : i \in 1 .. 6 <=> i = 1 \/ i = 2 \/ i = 3 \/ i = 4 \/ i = 5 \/ i = 6
  OBVIOUS
<1>3. \A r, x, h, a :
        Route1(r, x, h, a) =>
          Fits(r, m, p) <=> /\ m = x /\ Len(p) = 1 /\ SegmentFits(a, p[1])
  <2> TAKE r, x, h, a
  <2> HAVE Route1(r, x, h, a)
  <2>0. /\ x # "USE" /\ r.method = x /\ r.handler = h
        /\ IsSeq(r.pattern) /\ Len(r.pattern) = 1 /\ 1 \in Nat
    BY DEF Route1, Path1
  <2>1. Fits(r, m, p) <=> /\ m = x /\ Len(p) = 1
                          /\ \A i \in 1 .. 1 : SegmentFits(r.pattern[i], p[i])
    BY <1>1, <2>0, Zenon
  <2> QED BY <1>2, <2>1 DEF Route1, Path1
<1>4. \A r, x, h, a, b :
        Route2(r, x, h, a, b) =>
          Fits(r, m, p) <=> /\ m = x /\ Len(p) = 2 /\ SegmentFits(a, p[1])
                            /\ SegmentFits(b, p[2])
  <2> TAKE r, x, h, a, b
  <2> HAVE Route2(r, x, h, a, b)
  <2>0. /\ x # "USE" /\ r.method = x /\ r.handler = h
        /\ IsSeq(r.pattern) /\ Len(r.pattern) = 2 /\ 2 \in Nat
    BY DEF Route2, Path2
  <2>1. Fits(r, m, p) <=> /\ m = x /\ Len(p) = 2
                          /\ \A i \in 1 .. 2 : SegmentFits(r.pattern[i], p[i])
    BY <1>1, <2>0, Zenon
  <2> QED BY <1>2, <2>1 DEF Route2, Path2
<1>5. \A r, x, h, a, b, c :
        Route3(r, x, h, a, b, c) =>
          Fits(r, m, p) <=> /\ m = x /\ Len(p) = 3 /\ SegmentFits(a, p[1])
                            /\ SegmentFits(b, p[2]) /\ SegmentFits(c, p[3])
  <2> TAKE r, x, h, a, b, c
  <2> HAVE Route3(r, x, h, a, b, c)
  <2>0. /\ x # "USE" /\ r.method = x /\ r.handler = h
        /\ IsSeq(r.pattern) /\ Len(r.pattern) = 3 /\ 3 \in Nat
    BY DEF Route3, Path3
  <2>1. Fits(r, m, p) <=> /\ m = x /\ Len(p) = 3
                          /\ \A i \in 1 .. 3 : SegmentFits(r.pattern[i], p[i])
    BY <1>1, <2>0, Zenon
  <2> QED BY <1>2, <2>1 DEF Route3, Path3
<1>6. \A r, x, h, a, b, c, d :
        Route4(r, x, h, a, b, c, d) =>
          Fits(r, m, p) <=> /\ m = x /\ Len(p) = 4 /\ SegmentFits(a, p[1])
                            /\ SegmentFits(b, p[2]) /\ SegmentFits(c, p[3])
                            /\ SegmentFits(d, p[4])
  <2> TAKE r, x, h, a, b, c, d
  <2> HAVE Route4(r, x, h, a, b, c, d)
  <2>0. /\ x # "USE" /\ r.method = x /\ r.handler = h
        /\ IsSeq(r.pattern) /\ Len(r.pattern) = 4 /\ 4 \in Nat
    BY DEF Route4, Path4
  <2>1. Fits(r, m, p) <=> /\ m = x /\ Len(p) = 4
                          /\ \A i \in 1 .. 4 : SegmentFits(r.pattern[i], p[i])
    BY <1>1, <2>0, Zenon
  <2> QED BY <1>2, <2>1 DEF Route4, Path4
<1>7. \A r, x, h, a, b, c, d, e :
        Route5(r, x, h, a, b, c, d, e) =>
          Fits(r, m, p) <=> /\ m = x /\ Len(p) = 5 /\ SegmentFits(a, p[1])
                            /\ SegmentFits(b, p[2]) /\ SegmentFits(c, p[3])
                            /\ SegmentFits(d, p[4]) /\ SegmentFits(e, p[5])
  <2> TAKE r, x, h, a, b, c, d, e
  <2> HAVE Route5(r, x, h, a, b, c, d, e)
  <2>0. /\ x # "USE" /\ r.method = x /\ r.handler = h
        /\ IsSeq(r.pattern) /\ Len(r.pattern) = 5 /\ 5 \in Nat
    BY DEF Route5, Path5
  <2>1. Fits(r, m, p) <=> /\ m = x /\ Len(p) = 5
                          /\ \A i \in 1 .. 5 : SegmentFits(r.pattern[i], p[i])
    BY <1>1, <2>0, Zenon
  <2> QED BY <1>2, <2>1 DEF Route5, Path5
<1>8. \A r, x, h, a, b, c, d, e, f :
        Route6(r, x, h, a, b, c, d, e, f) =>
          Fits(r, m, p) <=> /\ m = x /\ Len(p) = 6 /\ SegmentFits(a, p[1])
                            /\ SegmentFits(b, p[2]) /\ SegmentFits(c, p[3])
                            /\ SegmentFits(d, p[4]) /\ SegmentFits(e, p[5])
                            /\ SegmentFits(f, p[6])
  <2> TAKE r, x, h, a, b, c, d, e, f
  <2> HAVE Route6(r, x, h, a, b, c, d, e, f)
  <2>0. /\ x # "USE" /\ r.method = x /\ r.handler = h
        /\ IsSeq(r.pattern) /\ Len(r.pattern) = 6 /\ 6 \in Nat
    BY DEF Route6, Path6
  <2>1. Fits(r, m, p) <=> /\ m = x /\ Len(p) = 6
                          /\ \A i \in 1 .. 6 : SegmentFits(r.pattern[i], p[i])
    BY <1>1, <2>0, Zenon
  <2> QED BY <1>2, <2>1 DEF Route6, Path6
<1> QED BY <1>3, <1>4, <1>5, <1>6, <1>7, <1>8, Zenon DEF Matching
-----------------------------------------------------------------------------
\* No entry of s takes the request, the middleware aside; and the first that
\* does is e.
Passes(s, m, p) == IsSeq(s) /\ \A i \in 1 .. Len(s) : Fits(s[i], m, p) => s[i] = Auth
Takes(s, e, m, p) ==
  /\ IsSeq(s)
  /\ \E i \in 1 .. Len(s) : /\ s[i] = e /\ Fits(e, m, p)
                            /\ \A j \in 1 .. i - 1 : Fits(s[j], m, p) => s[j] = Auth

LEMMA PassMore ==
  ASSUME NEW s, NEW t, NEW m, NEW p, Passes(s, m, p), Passes(t, m, p)
  PROVE  Passes(s \o t, m, p)
<1> DEFINE u == s \o t
<1>1. /\ IsSeq(u) /\ Len(u) = Len(s) + Len(t) /\ Len(s) \in Nat /\ Len(t) \in Nat
      /\ \A i \in 1 .. Len(s) : u[i] = s[i]
      /\ \A i \in Len(s) + 1 .. Len(s) + Len(t) : u[i] = t[i - Len(s)]
  BY Joined DEF Passes
<1> HIDE DEF u
<1>2. ASSUME NEW i \in 1 .. Len(u), Fits(u[i], m, p) PROVE u[i] = Auth
  <2>1. CASE i \in 1 .. Len(s) BY <1>1, <1>2, <2>1 DEF Passes
  <2>2. CASE i \in Len(s) + 1 .. Len(s) + Len(t)
    <3>1. i - Len(s) \in 1 .. Len(t) /\ u[i] = t[i - Len(s)] BY <1>1, <2>2
    <3> QED BY <1>2, <3>1 DEF Passes
  <2> QED BY <1>1, <2>1, <2>2
<1> QED BY <1>1, <1>2 DEF Passes, u

LEMMA TakesMore ==
  ASSUME NEW s, NEW t, NEW e, NEW m, NEW p, Takes(s, e, m, p), IsSeq(t)
  PROVE  Takes(s \o t, e, m, p)
<1> DEFINE u == s \o t
<1>1. /\ IsSeq(u) /\ Len(u) = Len(s) + Len(t) /\ Len(s) \in Nat /\ Len(t) \in Nat
      /\ \A i \in 1 .. Len(s) : u[i] = s[i]
  BY Joined DEF Takes
<1> HIDE DEF u
<1>2. PICK i \in 1 .. Len(s) : /\ s[i] = e /\ Fits(e, m, p)
                               /\ \A j \in 1 .. i - 1 : Fits(s[j], m, p) => s[j] = Auth
  BY DEF Takes
<1>3. i \in 1 .. Len(u) /\ \A j \in 1 .. i - 1 : u[j] = s[j] BY <1>1
<1>4. Takes(u, e, m, p) BY <1>1, <1>2, <1>3 DEF Takes
<1> QED BY <1>4 DEF u

LEMMA TakesLast ==
  ASSUME NEW s, NEW t, NEW e, NEW m, NEW p, Passes(s, m, p), Takes(t, e, m, p)
  PROVE  Takes(s \o t, e, m, p)
<1> DEFINE u == s \o t
<1>1. /\ IsSeq(u) /\ Len(u) = Len(s) + Len(t) /\ Len(s) \in Nat /\ Len(t) \in Nat
      /\ \A i \in 1 .. Len(s) : u[i] = s[i]
      /\ \A i \in Len(s) + 1 .. Len(s) + Len(t) : u[i] = t[i - Len(s)]
      /\ \A i \in 1 .. Len(t) : u[Len(s) + i] = t[i]
  BY Joined DEF Takes, Passes
<1> HIDE DEF u
<1>2. PICK i \in 1 .. Len(t) : /\ t[i] = e /\ Fits(e, m, p)
                               /\ \A j \in 1 .. i - 1 : Fits(t[j], m, p) => t[j] = Auth
  BY DEF Takes
<1> DEFINE k == Len(s) + i
<1>3. k \in 1 .. Len(u) /\ u[k] = t[i] BY <1>1
<1>4. ASSUME NEW j \in 1 .. k - 1, Fits(u[j], m, p) PROVE u[j] = Auth
  <2>1. CASE j \in 1 .. Len(s) BY <1>1, <1>4, <2>1 DEF Passes
  <2>2. CASE j \in Len(s) + 1 .. k - 1
    <3>1. /\ j - Len(s) \in 1 .. i - 1 /\ u[j] = t[j - Len(s)] BY <1>1, <2>2
    <3> QED BY <1>2, <1>4, <3>1
  <2> QED BY <1>1, <2>1, <2>2
<1> HIDE DEF k
<1>5. Takes(u, e, m, p) BY <1>1, <1>2, <1>3, <1>4 DEF Takes
<1> QED BY <1>5 DEF u

LEMMA OnlyTakes ==
  ASSUME NEW s, NEW m, NEW p, IsSeq(s),
         \A i \in 1 .. Len(s), j \in 1 .. Len(s) : Fits(s[i], m, p) /\ Fits(s[j], m, p) => i = j,
         NEW i \in 1 .. Len(s), Fits(s[i], m, p)
  PROVE  Takes(s, s[i], m, p)
<1>1. i \in Int /\ i <= Len(s) /\ Len(s) \in Nat
  <2>1. PICK S : s \in Seq(S) BY DEF IsSeq
  <2> QED BY <2>1
<1>2. \A j \in 1 .. i - 1 : j \in 1 .. Len(s) /\ j # i BY <1>1
<1> QED BY <1>2 DEF Takes

LEMMA PublicList ==
  /\ IsSeq(publicRoutes) /\ Len(publicRoutes) = 5
  /\ Route1(publicRoutes[1], "GET", "healthz", "healthz")
  /\ Route1(publicRoutes[2], "GET", "readyz", "readyz")
  /\ Route1(publicRoutes[3], "GET", "docs", "openapi.yaml")
  /\ Route1(publicRoutes[4], "GET", "docs", "openapi.json")
  /\ Route2(publicRoutes[5], "POST", "handleLogin", "api", "login")
<1>1. IsSeq(publicRoutes) BY PublicEntries DEF Entries, IsSeq
<1>2. Len(publicRoutes) = 5 BY DEF publicRoutes
<1> QED BY <1>1, <1>2, RouteTuples DEF publicRoutes

LEMMA PublicFits ==
  ASSUME NEW p, Ends(p), NEW m
  PROVE  /\ Folded(p[1]) = "api" /\ (m # "POST" \/ Len(p) # 2 \/ Folded(p[2]) # "login")
               => Passes(publicRoutes, m, p)
         /\ \A i \in 1 .. 5 :
              Fits(publicRoutes[i], m, p) => Takes(publicRoutes, publicRoutes[i], m, p)
<1> DEFINE s == publicRoutes
<1> HIDE DEF s
<1>1. /\ Fits(s[1], m, p) => m = "GET" /\ Len(p) = 1 /\ Folded(p[1]) = "healthz"
      /\ Fits(s[2], m, p) => m = "GET" /\ Len(p) = 1 /\ Folded(p[1]) = "readyz"
      /\ Fits(s[3], m, p) => m = "GET" /\ Len(p) = 1 /\ Folded(p[1]) = "openapi.yaml"
      /\ Fits(s[4], m, p) => m = "GET" /\ Len(p) = 1 /\ Folded(p[1]) = "openapi.json"
      /\ Fits(s[5], m, p) => m = "POST" /\ Len(p) = 2 /\ Folded(p[2]) = "login"
  <2>1. Matching(p, m) BY FitsRoute
  <2>2. /\ \A x \in {"healthz", "readyz", "openapi.yaml", "openapi.json"} :
             SegmentFits(x, p[1]) => Folded(p[1]) = x
        /\ SegmentFits("login", p[2]) => Folded(p[2]) = "login"
    BY DEF SegmentFits, Params
  <2> QED BY <2>1, <2>2, PublicList DEF s, Matching
<1>2. \A i : i \in 1 .. 5 => i \in {1, 2, 3, 4, 5}
  OBVIOUS
<1>3. IsSeq(s) /\ Len(s) = 5 BY PublicList DEF s
<1>4. Folded(p[1]) = "api" /\ (m # "POST" \/ Len(p) # 2 \/ Folded(p[2]) # "login") => Passes(s, m, p)
  <2>1. \A i \in 1 .. 5 : Fits(s[i], m, p) =>
          Folded(p[1]) # "api" \/ (m = "POST" /\ Len(p) = 2 /\ Folded(p[2]) = "login")
    BY <1>1, <1>2
  <2> QED BY <1>3, <2>1 DEF Passes
<1>5. \A i \in 1 .. 5, j \in 1 .. 5 : Fits(s[i], m, p) /\ Fits(s[j], m, p) => i = j
  BY <1>1, <1>2
<1>6. \A i \in 1 .. 5 : Fits(s[i], m, p) => Takes(s, s[i], m, p)
  BY <1>3, <1>5, OnlyTakes
<1> QED BY <1>4, <1>6 DEF s

LEMMA SessionList ==
  /\ IsSeq(sessionRoutes) /\ Len(sessionRoutes) = 7
  /\ Route2(sessionRoutes[1], "GET", "listSessions", "api", "sessions")
  /\ Route2(sessionRoutes[2], "POST", "createSession", "api", "sessions")
  /\ Route3(sessionRoutes[3], "GET", "getSession", "api", "sessions", ":name")
  /\ Route3(sessionRoutes[4], "DELETE", "deleteSession", "api", "sessions", ":name")
  /\ Route4(sessionRoutes[5], "POST", "startSession", "api", "sessions", ":name", "start")
  /\ Route4(sessionRoutes[6], "POST", "stopSession", "api", "sessions", ":name", "stop")
  /\ Route4(sessionRoutes[7], "POST", "logoutSession", "api", "sessions", ":name", "logout")
<1>1. IsSeq(sessionRoutes) BY SessionEntries DEF Entries, IsSeq
<1>2. Len(sessionRoutes) = 7 BY DEF sessionRoutes
<1>3. /\ sessionRoutes[1] = R("GET", << "api", "sessions" >>, "listSessions")
      /\ sessionRoutes[2] = R("POST", << "api", "sessions" >>, "createSession")
      /\ sessionRoutes[3] = R("GET", << "api", "sessions", ":name" >>, "getSession")
      /\ sessionRoutes[4] = R("DELETE", << "api", "sessions", ":name" >>, "deleteSession")
      /\ sessionRoutes[5] = R("POST", << "api", "sessions", ":name", "start" >>, "startSession")
      /\ sessionRoutes[6] = R("POST", << "api", "sessions", ":name", "stop" >>, "stopSession")
      /\ sessionRoutes[7] = R("POST", << "api", "sessions", ":name", "logout" >>, "logoutSession")
  BY DEF sessionRoutes
<1> QED BY <1>1, <1>2, <1>3, RouteTuples

LEMMA SessionFits ==
  ASSUME NEW p, Ends(p), NEW m
  PROVE  /\ Folded(p[2]) # "sessions" => Passes(sessionRoutes, m, p)
         /\ \A i \in 1 .. 7 :
              Fits(sessionRoutes[i], m, p) => Takes(sessionRoutes, sessionRoutes[i], m, p)
<1> DEFINE s == sessionRoutes
<1> HIDE DEF s
<1>1. /\ Fits(s[1], m, p) => m = "GET" /\ Len(p) = 2 /\ Folded(p[2]) = "sessions"
      /\ Fits(s[2], m, p) => m = "POST" /\ Len(p) = 2 /\ Folded(p[2]) = "sessions"
      /\ Fits(s[3], m, p) => m = "GET" /\ Len(p) = 3 /\ Folded(p[2]) = "sessions"
      /\ Fits(s[4], m, p) => m = "DELETE" /\ Len(p) = 3 /\ Folded(p[2]) = "sessions"
      /\ Fits(s[5], m, p) => m = "POST" /\ Len(p) = 4 /\ Folded(p[2]) = "sessions" /\ Folded(p[4]) = "start"
      /\ Fits(s[6], m, p) => m = "POST" /\ Len(p) = 4 /\ Folded(p[2]) = "sessions" /\ Folded(p[4]) = "stop"
      /\ Fits(s[7], m, p) => m = "POST" /\ Len(p) = 4 /\ Folded(p[2]) = "sessions" /\ Folded(p[4]) = "logout"
  <2>1. Matching(p, m) BY FitsRoute
  <2>2. /\ SegmentFits("sessions", p[2]) => Folded(p[2]) = "sessions"
        /\ \A x \in {"start", "stop", "logout"} : SegmentFits(x, p[4]) => Folded(p[4]) = x
    BY DEF SegmentFits, Params
  <2> QED BY <2>1, <2>2, SessionList DEF s, Matching
<1>2. \A i : i \in 1 .. 7 => i \in {1, 2, 3, 4, 5, 6, 7}
  OBVIOUS
<1>3. IsSeq(s) /\ Len(s) = 7 BY SessionList DEF s
<1>4. Folded(p[2]) # "sessions" => Passes(s, m, p)
  <2>1. \A i \in 1 .. 7 : Fits(s[i], m, p) => Folded(p[2]) = "sessions"
    BY <1>1, <1>2
  <2> QED BY <1>3, <2>1 DEF Passes
<1>5. \A i \in 1 .. 7, j \in 1 .. 7 : Fits(s[i], m, p) /\ Fits(s[j], m, p) => i = j
  BY <1>1, <1>2
<1>6. \A i \in 1 .. 7 : Fits(s[i], m, p) => Takes(s, s[i], m, p)
  BY <1>3, <1>5, OnlyTakes
<1> QED BY <1>4, <1>6 DEF s

LEMMA PairingList ==
  /\ IsSeq(pairingRoutes) /\ Len(pairingRoutes) = 3
  /\ Route4(pairingRoutes[1], "GET", "getQR", "api", ":session", "auth", "qr")
  /\ Route4(pairingRoutes[2], "GET", "getQRPNG", "api", ":session", "auth", "qr.png")
  /\ Route4(pairingRoutes[3], "POST", "requestPairCode", "api", ":session", "auth", "request-code")
<1>1. IsSeq(pairingRoutes) BY PairingEntries DEF Entries, IsSeq
<1>2. Len(pairingRoutes) = 3 BY DEF pairingRoutes
<1> QED BY <1>1, <1>2, RouteTuples DEF pairingRoutes

LEMMA PairingFits ==
  ASSUME NEW p, Ends(p), NEW m
  PROVE  /\ Len(p) # 4 \/ Folded(p[3]) # "auth" => Passes(pairingRoutes, m, p)
         /\ \A i \in 1 .. 3 :
              Fits(pairingRoutes[i], m, p) => Takes(pairingRoutes, pairingRoutes[i], m, p)
<1> DEFINE s == pairingRoutes
<1> HIDE DEF s
<1>1. /\ Fits(s[1], m, p) => m = "GET" /\ Len(p) = 4 /\ Folded(p[3]) = "auth" /\ Folded(p[4]) = "qr"
      /\ Fits(s[2], m, p) => m = "GET" /\ Len(p) = 4 /\ Folded(p[3]) = "auth" /\ Folded(p[4]) = "qr.png"
      /\ Fits(s[3], m, p) => m = "POST" /\ Len(p) = 4 /\ Folded(p[3]) = "auth" /\ Folded(p[4]) = "request-code"
  <2>1. Matching(p, m) BY FitsRoute
  <2>2. /\ SegmentFits("auth", p[3]) => Folded(p[3]) = "auth"
        /\ \A x \in {"qr", "qr.png", "request-code"} : SegmentFits(x, p[4]) => Folded(p[4]) = x
    BY DEF SegmentFits, Params
  <2> QED BY <2>1, <2>2, PairingList DEF s, Matching
<1>2. \A i : i \in 1 .. 3 => i \in {1, 2, 3}
  OBVIOUS
<1>3. IsSeq(s) /\ Len(s) = 3 BY PairingList DEF s
<1>4. Len(p) # 4 \/ Folded(p[3]) # "auth" => Passes(s, m, p)
  <2>1. \A i \in 1 .. 3 : Fits(s[i], m, p) => Len(p) = 4 /\ Folded(p[3]) = "auth"
    BY <1>1, <1>2
  <2> QED BY <1>3, <2>1 DEF Passes
<1>5. \A i \in 1 .. 3, j \in 1 .. 3 : Fits(s[i], m, p) /\ Fits(s[j], m, p) => i = j
  BY <1>1, <1>2
<1>6. \A i \in 1 .. 3 : Fits(s[i], m, p) => Takes(s, s[i], m, p)
  BY <1>3, <1>5, OnlyTakes
<1> QED BY <1>4, <1>6 DEF s

LEMMA MessageList ==
  /\ IsSeq(messageRoutes) /\ Len(messageRoutes) = 10
  /\ Route2(messageRoutes[1], "POST", "sendText", "api", "sendText")
  /\ Route2(messageRoutes[2], "POST", "sendImage", "api", "sendImage")
  /\ Route2(messageRoutes[3], "POST", "sendFile", "api", "sendFile")
  /\ Route2(messageRoutes[4], "POST", "sendVoice", "api", "sendVoice")
  /\ Route2(messageRoutes[5], "POST", "sendVideo", "api", "sendVideo")
  /\ Route2(messageRoutes[6], "POST", "sendLocation", "api", "sendLocation")
  /\ Route2(messageRoutes[7], "POST", "sendContact", "api", "sendContact")
  /\ Route2(messageRoutes[8], "POST", "sendSeen", "api", "sendSeen")
  /\ Route2(messageRoutes[9], "POST", "startTyping", "api", "startTyping")
  /\ Route2(messageRoutes[10], "POST", "stopTyping", "api", "stopTyping")
<1>1. IsSeq(messageRoutes) BY MessageEntries DEF Entries, IsSeq
<1>2. Len(messageRoutes) = 10 BY DEF messageRoutes
<1>3. /\ messageRoutes[1] = R("POST", << "api", "sendText" >>, "sendText")
      /\ messageRoutes[2] = R("POST", << "api", "sendImage" >>, "sendImage")
      /\ messageRoutes[3] = R("POST", << "api", "sendFile" >>, "sendFile")
      /\ messageRoutes[4] = R("POST", << "api", "sendVoice" >>, "sendVoice")
      /\ messageRoutes[5] = R("POST", << "api", "sendVideo" >>, "sendVideo")
      /\ messageRoutes[6] = R("POST", << "api", "sendLocation" >>, "sendLocation")
      /\ messageRoutes[7] = R("POST", << "api", "sendContact" >>, "sendContact")
      /\ messageRoutes[8] = R("POST", << "api", "sendSeen" >>, "sendSeen")
      /\ messageRoutes[9] = R("POST", << "api", "startTyping" >>, "startTyping")
      /\ messageRoutes[10] = R("POST", << "api", "stopTyping" >>, "stopTyping")
  BY DEF messageRoutes
<1> QED BY <1>1, <1>2, <1>3, RouteTuples

LEMMA MessageFits ==
  ASSUME NEW p, Ends(p), NEW m
  PROVE  /\ Len(p) # 2 \/ Folded(p[2]) = "keys" => Passes(messageRoutes, m, p)
         /\ \A i \in 1 .. 10 :
              Fits(messageRoutes[i], m, p) => Takes(messageRoutes, messageRoutes[i], m, p)
<1> DEFINE s == messageRoutes
<1> HIDE DEF s
<1>1. /\ Fits(s[1], m, p) => m = "POST" /\ Len(p) = 2 /\ Folded(p[2]) = "sendText"
      /\ Fits(s[2], m, p) => m = "POST" /\ Len(p) = 2 /\ Folded(p[2]) = "sendImage"
      /\ Fits(s[3], m, p) => m = "POST" /\ Len(p) = 2 /\ Folded(p[2]) = "sendFile"
      /\ Fits(s[4], m, p) => m = "POST" /\ Len(p) = 2 /\ Folded(p[2]) = "sendVoice"
      /\ Fits(s[5], m, p) => m = "POST" /\ Len(p) = 2 /\ Folded(p[2]) = "sendVideo"
      /\ Fits(s[6], m, p) => m = "POST" /\ Len(p) = 2 /\ Folded(p[2]) = "sendLocation"
      /\ Fits(s[7], m, p) => m = "POST" /\ Len(p) = 2 /\ Folded(p[2]) = "sendContact"
      /\ Fits(s[8], m, p) => m = "POST" /\ Len(p) = 2 /\ Folded(p[2]) = "sendSeen"
      /\ Fits(s[9], m, p) => m = "POST" /\ Len(p) = 2 /\ Folded(p[2]) = "startTyping"
      /\ Fits(s[10], m, p) => m = "POST" /\ Len(p) = 2 /\ Folded(p[2]) = "stopTyping"
  <2>1. Matching(p, m) BY FitsRoute
  <2>2. /\ \A x \in {"sendText", "sendImage", "sendFile", "sendVoice", "sendVideo", "sendLocation",
                    "sendContact", "sendSeen", "startTyping", "stopTyping"} :
             SegmentFits(x, p[2]) => Folded(p[2]) = x
    BY DEF SegmentFits, Params
  <2> QED BY <2>1, <2>2, MessageList DEF s, Matching
<1>2. \A i : i \in 1 .. 10 => i \in {1, 2, 3, 4, 5, 6, 7, 8, 9, 10}
  OBVIOUS
<1>3. IsSeq(s) /\ Len(s) = 10 BY MessageList DEF s
<1>4. Len(p) # 2 \/ Folded(p[2]) = "keys" => Passes(s, m, p)
  <2>1. \A i \in 1 .. 10 : Fits(s[i], m, p) => Len(p) = 2 /\ Folded(p[2]) # "keys"
    BY <1>1, <1>2
  <2> QED BY <1>3, <2>1 DEF Passes
<1>5. \A i \in 1 .. 10, j \in 1 .. 10 : Fits(s[i], m, p) /\ Fits(s[j], m, p) => i = j
  BY <1>1, <1>2
<1>6. \A i \in 1 .. 10 : Fits(s[i], m, p) => Takes(s, s[i], m, p)
  BY <1>3, <1>5, OnlyTakes
<1> QED BY <1>4, <1>6 DEF s

LEMMA ReadList ==
  /\ IsSeq(readRoutes) /\ Len(readRoutes) = 4
  /\ Route3(readRoutes[1], "GET", "getMe", "api", ":session", "me")
  /\ Route3(readRoutes[2], "GET", "getContacts", "api", ":session", "contacts")
  /\ Route3(readRoutes[3], "GET", "getChats", "api", ":session", "chats")
  /\ Route3(readRoutes[4], "GET", "getGroups", "api", ":session", "groups")
<1>1. IsSeq(readRoutes) BY ReadEntries DEF Entries, IsSeq
<1>2. Len(readRoutes) = 4 BY DEF readRoutes
<1> QED BY <1>1, <1>2, RouteTuples DEF readRoutes

LEMMA ReadFits ==
  ASSUME NEW p, Ends(p), NEW m
  PROVE  /\ m # "GET" \/ Len(p) # 3 \/ Folded(p[3]) = "webhooks" => Passes(readRoutes, m, p)
         /\ \A i \in 1 .. 4 :
              Fits(readRoutes[i], m, p) => Takes(readRoutes, readRoutes[i], m, p)
<1> DEFINE s == readRoutes
<1> HIDE DEF s
<1>1. /\ Fits(s[1], m, p) => m = "GET" /\ Len(p) = 3 /\ Folded(p[3]) = "me"
      /\ Fits(s[2], m, p) => m = "GET" /\ Len(p) = 3 /\ Folded(p[3]) = "contacts"
      /\ Fits(s[3], m, p) => m = "GET" /\ Len(p) = 3 /\ Folded(p[3]) = "chats"
      /\ Fits(s[4], m, p) => m = "GET" /\ Len(p) = 3 /\ Folded(p[3]) = "groups"
  <2>1. Matching(p, m) BY FitsRoute
  <2>2. /\ \A x \in {"me", "contacts", "chats", "groups"} : SegmentFits(x, p[3]) => Folded(p[3]) = x
    BY DEF SegmentFits, Params
  <2> QED BY <2>1, <2>2, ReadList DEF s, Matching
<1>2. \A i : i \in 1 .. 4 => i \in {1, 2, 3, 4}
  OBVIOUS
<1>3. IsSeq(s) /\ Len(s) = 4 BY ReadList DEF s
<1>4. m # "GET" \/ Len(p) # 3 \/ Folded(p[3]) = "webhooks" => Passes(s, m, p)
  <2>1. \A i \in 1 .. 4 : Fits(s[i], m, p) => m = "GET" /\ Len(p) = 3 /\ Folded(p[3]) # "webhooks"
    BY <1>1, <1>2
  <2> QED BY <1>3, <2>1 DEF Passes
<1>5. \A i \in 1 .. 4, j \in 1 .. 4 : Fits(s[i], m, p) /\ Fits(s[j], m, p) => i = j
  BY <1>1, <1>2
<1>6. \A i \in 1 .. 4 : Fits(s[i], m, p) => Takes(s, s[i], m, p)
  BY <1>3, <1>5, OnlyTakes
<1> QED BY <1>4, <1>6 DEF s

LEMMA GroupList ==
  /\ IsSeq(groupRoutes) /\ Len(groupRoutes) = 16
  /\ Route3(groupRoutes[1], "POST", "createGroup", "api", ":session", "groups")
  /\ Route4(groupRoutes[2], "POST", "joinGroup", "api", ":session", "groups", "join")
  /\ Route4(groupRoutes[3], "GET", "getGroupInfo", "api", ":session", "groups", ":gid")
  /\ Route5(groupRoutes[4], "POST", "leaveGroup", "api", ":session", "groups", ":gid", "leave")
  /\ Route6(groupRoutes[5], "POST", "addParticipants", "api", ":session", "groups", ":gid",
            "participants", "add")
  /\ Route6(groupRoutes[6], "POST", "removeParticipants", "api", ":session", "groups", ":gid",
            "participants", "remove")
  /\ Route6(groupRoutes[7], "POST", "promoteParticipants", "api", ":session", "groups", ":gid",
            "participants", "promote")
  /\ Route6(groupRoutes[8], "POST", "demoteParticipants", "api", ":session", "groups", ":gid",
            "participants", "demote")
  /\ Route5(groupRoutes[9], "PUT", "setGroupName", "api", ":session", "groups", ":gid", "name")
  /\ Route5(groupRoutes[10], "PUT", "setGroupTopic", "api", ":session", "groups", ":gid", "topic")
  /\ Route5(groupRoutes[11], "PUT", "setGroupLocked", "api", ":session", "groups", ":gid",
            "locked")
  /\ Route5(groupRoutes[12], "PUT", "setGroupAnnounce", "api", ":session", "groups", ":gid",
            "announce")
  /\ Route5(groupRoutes[13], "PUT", "setGroupPhoto", "api", ":session", "groups", ":gid", "photo")
  /\ Route5(groupRoutes[14], "PUT", "setGroupDisappearing", "api", ":session", "groups", ":gid",
            "disappearing")
  /\ Route5(groupRoutes[15], "GET", "getInviteLink", "api", ":session", "groups", ":gid",
            "invite-link")
  /\ Route6(groupRoutes[16], "POST", "revokeInviteLink", "api", ":session", "groups", ":gid",
            "invite-link", "revoke")
<1> DEFINE gid(method, rest, h) == R(method, <<"api", ":session", "groups", ":gid">> \o rest, h)
<1>1. ASSUME NEW x, x # "USE", NEW h
      PROVE  /\ Route4(gid(x, << >>, h), x, h, "api", ":session", "groups", ":gid")
             /\ \A a : Route5(gid(x, << a >>, h), x, h, "api", ":session", "groups", ":gid", a)
             /\ \A a, b : Route6(gid(x, << a, b >>, h), x, h, "api", ":session", "groups", ":gid",
                                 a, b)
  <2> DEFINE one == <<"api", ":session", "groups", ":gid">>
  <2>1. Path4(one, "api", ":session", "groups", ":gid") BY PathTuples
  <2> HIDE DEF one
  <2>2. /\ Path4(one \o << >>, "api", ":session", "groups", ":gid")
        /\ \A a : Path5(one \o << a >>, "api", ":session", "groups", ":gid", a)
        /\ \A a, b : Path6(one \o << a, b >>, "api", ":session", "groups", ":gid", a, b)
    BY <2>1, PathTuples, PathsJoin
  <2> QED BY <1>1, <2>2 DEF one, R, Route4, Route5, Route6
<1> HIDE DEF gid
<1>2. IsSeq(groupRoutes) BY GroupEntries DEF Entries, IsSeq
<1>3. Len(groupRoutes) = 16 BY DEF groupRoutes
<1>4. /\ groupRoutes[1] = R("POST", <<"api", ":session", "groups">>, "createGroup")
      /\ groupRoutes[2] = R("POST", <<"api", ":session", "groups", "join">>, "joinGroup")
      /\ groupRoutes[3] = gid("GET", << >>, "getGroupInfo")
      /\ groupRoutes[4] = gid("POST", <<"leave">>, "leaveGroup")
      /\ groupRoutes[5] = gid("POST", <<"participants", "add">>, "addParticipants")
      /\ groupRoutes[6] = gid("POST", <<"participants", "remove">>, "removeParticipants")
      /\ groupRoutes[7] = gid("POST", <<"participants", "promote">>, "promoteParticipants")
      /\ groupRoutes[8] = gid("POST", <<"participants", "demote">>, "demoteParticipants")
      /\ groupRoutes[9] = gid("PUT", <<"name">>, "setGroupName")
      /\ groupRoutes[10] = gid("PUT", <<"topic">>, "setGroupTopic")
      /\ groupRoutes[11] = gid("PUT", <<"locked">>, "setGroupLocked")
      /\ groupRoutes[12] = gid("PUT", <<"announce">>, "setGroupAnnounce")
      /\ groupRoutes[13] = gid("PUT", <<"photo">>, "setGroupPhoto")
      /\ groupRoutes[14] = gid("PUT", <<"disappearing">>, "setGroupDisappearing")
      /\ groupRoutes[15] = gid("GET", <<"invite-link">>, "getInviteLink")
      /\ groupRoutes[16] = gid("POST", <<"invite-link", "revoke">>, "revokeInviteLink")
  BY DEF groupRoutes, gid
<1> QED BY <1>1, <1>2, <1>3, <1>4, RouteTuples

LEMMA GroupFits ==
  ASSUME NEW p, Ends(p), NEW m
  PROVE  /\ \/ Len(p) = 2 \/ (Len(p) = 3 /\ m # "POST") \/ Folded(p[3]) # "groups"
            => Passes(groupRoutes, m, p)
         /\ \A i \in 1 .. 16 :
              Fits(groupRoutes[i], m, p) => Takes(groupRoutes, groupRoutes[i], m, p)
<1> DEFINE s == groupRoutes
<1> HIDE DEF s
<1>1. /\ Fits(s[1], m, p) => m = "POST" /\ Len(p) = 3 /\ Folded(p[3]) = "groups"
      /\ Fits(s[2], m, p) => m = "POST" /\ Len(p) = 4 /\ Folded(p[3]) = "groups"
      /\ Fits(s[3], m, p) => m = "GET" /\ Len(p) = 4 /\ Folded(p[3]) = "groups"
      /\ Fits(s[4], m, p) => m = "POST" /\ Len(p) = 5 /\ Folded(p[3]) = "groups"
      /\ Fits(s[5], m, p) => m = "POST" /\ Len(p) = 6 /\ Folded(p[3]) = "groups" /\ Folded(p[6]) = "add"
      /\ Fits(s[6], m, p) => m = "POST" /\ Len(p) = 6 /\ Folded(p[3]) = "groups" /\ Folded(p[6]) = "remove"
      /\ Fits(s[7], m, p) => m = "POST" /\ Len(p) = 6 /\ Folded(p[3]) = "groups" /\ Folded(p[6]) = "promote"
      /\ Fits(s[8], m, p) => m = "POST" /\ Len(p) = 6 /\ Folded(p[3]) = "groups" /\ Folded(p[6]) = "demote"
      /\ Fits(s[9], m, p) => m = "PUT" /\ Len(p) = 5 /\ Folded(p[3]) = "groups" /\ Folded(p[5]) = "name"
      /\ Fits(s[10], m, p) => m = "PUT" /\ Len(p) = 5 /\ Folded(p[3]) = "groups" /\ Folded(p[5]) = "topic"
      /\ Fits(s[11], m, p) => m = "PUT" /\ Len(p) = 5 /\ Folded(p[3]) = "groups" /\ Folded(p[5]) = "locked"
      /\ Fits(s[12], m, p) => m = "PUT" /\ Len(p) = 5 /\ Folded(p[3]) = "groups" /\ Folded(p[5]) = "announce"
      /\ Fits(s[13], m, p) => m = "PUT" /\ Len(p) = 5 /\ Folded(p[3]) = "groups" /\ Folded(p[5]) = "photo"
      /\ Fits(s[14], m, p) => m = "PUT" /\ Len(p) = 5 /\ Folded(p[3]) = "groups" /\ Folded(p[5]) = "disappearing"
      /\ Fits(s[15], m, p) => m = "GET" /\ Len(p) = 5 /\ Folded(p[3]) = "groups"
      /\ Fits(s[16], m, p) => m = "POST" /\ Len(p) = 6 /\ Folded(p[3]) = "groups" /\ Folded(p[6]) = "revoke"
  <2>1. Matching(p, m) BY FitsRoute
  <2>2. /\ SegmentFits("groups", p[3]) => Folded(p[3]) = "groups"
        /\ \A x \in {"name", "topic", "locked", "announce", "photo", "disappearing"} :
             SegmentFits(x, p[5]) => Folded(p[5]) = x
        /\ \A x \in {"add", "remove", "promote", "demote", "revoke"} :
             SegmentFits(x, p[6]) => Folded(p[6]) = x
    BY DEF SegmentFits, Params
  <2> QED BY <2>1, <2>2, GroupList DEF s, Matching
<1>2. \A i : i \in 1 .. 16 => i \in {1, 2, 3, 4, 5, 6, 7, 8, 9, 10, 11, 12, 13, 14, 15, 16}
  OBVIOUS
<1>3. IsSeq(s) /\ Len(s) = 16 BY GroupList DEF s
<1>4. Len(p) = 2 \/ (Len(p) = 3 /\ m # "POST") \/ Folded(p[3]) # "groups" => Passes(s, m, p)
  <2>1. \A i \in 1 .. 16 :
          Fits(s[i], m, p) => Folded(p[3]) = "groups" /\ Len(p) # 2 /\ (Len(p) = 3 => m = "POST")
    BY <1>1, <1>2
  <2> QED BY <1>3, <2>1 DEF Passes
<1>5. \A i \in 1 .. 16, j \in 1 .. 16 : Fits(s[i], m, p) /\ Fits(s[j], m, p) => i = j
  BY <1>1, <1>2
<1>6. \A i \in 1 .. 16 : Fits(s[i], m, p) => Takes(s, s[i], m, p)
  BY <1>3, <1>5, OnlyTakes
<1> QED BY <1>4, <1>6 DEF s

LEMMA WebhookList ==
  /\ IsSeq(webhookRoutes) /\ Len(webhookRoutes) = 3
  /\ Route3(webhookRoutes[1], "GET", "listWebhooks", "api", ":session", "webhooks")
  /\ Route3(webhookRoutes[2], "POST", "addWebhook", "api", ":session", "webhooks")
  /\ Route3(webhookRoutes[3], "DELETE", "deleteWebhook", "api", "webhooks", ":id")
<1>1. IsSeq(webhookRoutes) BY WebhookEntries DEF Entries, IsSeq
<1>2. Len(webhookRoutes) = 3 BY DEF webhookRoutes
<1> QED BY <1>1, <1>2, RouteTuples DEF webhookRoutes

LEMMA WebhookFits ==
  ASSUME NEW p, Ends(p), NEW m
  PROVE  /\ Len(p) # 3 \/ (m = "DELETE" /\ Folded(p[2]) # "webhooks") => Passes(webhookRoutes, m, p)
         /\ \A i \in 1 .. 3 :
              Fits(webhookRoutes[i], m, p) => Takes(webhookRoutes, webhookRoutes[i], m, p)
<1> DEFINE s == webhookRoutes
<1> HIDE DEF s
<1>1. /\ Fits(s[1], m, p) => m = "GET" /\ Len(p) = 3
      /\ Fits(s[2], m, p) => m = "POST" /\ Len(p) = 3
      /\ Fits(s[3], m, p) => m = "DELETE" /\ Len(p) = 3 /\ Folded(p[2]) = "webhooks"
  <2>1. Matching(p, m) BY FitsRoute
  <2>2. /\ SegmentFits("webhooks", p[2]) => Folded(p[2]) = "webhooks"
    BY DEF SegmentFits, Params
  <2> QED BY <2>1, <2>2, WebhookList DEF s, Matching
<1>2. \A i : i \in 1 .. 3 => i \in {1, 2, 3}
  OBVIOUS
<1>3. IsSeq(s) /\ Len(s) = 3 BY WebhookList DEF s
<1>4. Len(p) # 3 \/ (m = "DELETE" /\ Folded(p[2]) # "webhooks") => Passes(s, m, p)
  <2>1. \A i \in 1 .. 3 : Fits(s[i], m, p) => Len(p) = 3 /\ (m = "DELETE" => Folded(p[2]) = "webhooks")
    BY <1>1, <1>2
  <2> QED BY <1>3, <2>1 DEF Passes
<1>5. \A i \in 1 .. 3, j \in 1 .. 3 : Fits(s[i], m, p) /\ Fits(s[j], m, p) => i = j
  BY <1>1, <1>2
<1>6. \A i \in 1 .. 3 : Fits(s[i], m, p) => Takes(s, s[i], m, p)
  BY <1>3, <1>5, OnlyTakes
<1> QED BY <1>4, <1>6 DEF s

LEMMA KeyList ==
  /\ IsSeq(keyRoutes) /\ Len(keyRoutes) = 3
  /\ Route2(keyRoutes[1], "GET", "listKeys", "api", "keys")
  /\ Route2(keyRoutes[2], "POST", "createKey", "api", "keys")
  /\ Route3(keyRoutes[3], "DELETE", "deleteKey", "api", "keys", ":id")
<1>1. IsSeq(keyRoutes) BY KeyEntries DEF Entries, IsSeq
<1>2. Len(keyRoutes) = 3 BY DEF keyRoutes
<1> QED BY <1>1, <1>2, RouteTuples DEF keyRoutes

LEMMA KeyFits ==
  ASSUME NEW p, Ends(p), NEW m
  PROVE  /\ Folded(p[2]) # "keys" => Passes(keyRoutes, m, p)
         /\ \A i \in 1 .. 3 :
              Fits(keyRoutes[i], m, p) => Takes(keyRoutes, keyRoutes[i], m, p)
<1> DEFINE s == keyRoutes
<1> HIDE DEF s
<1>1. /\ Fits(s[1], m, p) => m = "GET" /\ Folded(p[2]) = "keys"
      /\ Fits(s[2], m, p) => m = "POST" /\ Folded(p[2]) = "keys"
      /\ Fits(s[3], m, p) => m = "DELETE" /\ Folded(p[2]) = "keys"
  <2>1. Matching(p, m) BY FitsRoute
  <2>2. /\ SegmentFits("keys", p[2]) => Folded(p[2]) = "keys"
    BY DEF SegmentFits, Params
  <2> QED BY <2>1, <2>2, KeyList DEF s, Matching
<1>2. \A i : i \in 1 .. 3 => i \in {1, 2, 3}
  OBVIOUS
<1>3. IsSeq(s) /\ Len(s) = 3 BY KeyList DEF s
<1>4. Folded(p[2]) # "keys" => Passes(s, m, p)
  <2>1. \A i \in 1 .. 3 : Fits(s[i], m, p) => Folded(p[2]) = "keys"
    BY <1>1, <1>2
  <2> QED BY <1>3, <2>1 DEF Passes
<1>5. \A i \in 1 .. 3, j \in 1 .. 3 : Fits(s[i], m, p) /\ Fits(s[j], m, p) => i = j
  BY <1>1, <1>2
<1>6. \A i \in 1 .. 3 : Fits(s[i], m, p) => Takes(s, s[i], m, p)
  BY <1>3, <1>5, OnlyTakes
<1> QED BY <1>4, <1>6 DEF s

LEMMA AuthPasses == ASSUME NEW m, NEW p, NEW s, s = << Auth >> PROVE Passes(s, m, p)
<1>1. s \in Seq({Auth}) /\ Len(s) = 1 /\ s[1] = Auth OBVIOUS
<1>2. IsSeq(s) BY <1>1 DEF IsSeq
<1>3. \A i \in 1 .. 1 : i = 1 OBVIOUS
<1>4. \A i \in 1 .. Len(s) : s[i] = Auth BY <1>1, <1>3
<1> QED BY <1>2, <1>4 DEF Passes

\* The lists one after the other: each takes the request, or leaves it to the next.
ByKeys(e, m, p) == Takes(keyRoutes, e, m, p)
ByWebhooks(e, m, p) ==
  Takes(webhookRoutes, e, m, p) \/ (Passes(webhookRoutes, m, p) /\ ByKeys(e, m, p))
ByGroups(e, m, p) ==
  Takes(groupRoutes, e, m, p) \/ (Passes(groupRoutes, m, p) /\ ByWebhooks(e, m, p))
ByReads(e, m, p) ==
  Takes(readRoutes, e, m, p) \/ (Passes(readRoutes, m, p) /\ ByGroups(e, m, p))
ByMessages(e, m, p) ==
  Takes(messageRoutes, e, m, p) \/ (Passes(messageRoutes, m, p) /\ ByReads(e, m, p))
ByPairing(e, m, p) ==
  Takes(pairingRoutes, e, m, p) \/ (Passes(pairingRoutes, m, p) /\ ByMessages(e, m, p))
BySessions(e, m, p) ==
  Takes(sessionRoutes, e, m, p) \/ (Passes(sessionRoutes, m, p) /\ ByPairing(e, m, p))
ByPublic(e, m, p) ==
  Takes(publicRoutes, e, m, p) \/ (Passes(publicRoutes, m, p) /\ BySessions(e, m, p))

LEMMA RoutesTake ==
  ASSUME NEW e, NEW m, NEW p, ByPublic(e, m, p) PROVE Takes(routes, e, m, p)
<1> DEFINE Ahead(s, rest) == Takes(s, e, m, p) \/ (Passes(s, m, p) /\ rest)
           s0 == publicRoutes \o << Auth >>
           s1 == s0 \o sessionRoutes
           s2 == s1 \o pairingRoutes
           s3 == s2 \o messageRoutes
           s4 == s3 \o readRoutes
           s5 == s4 \o groupRoutes
           s6 == s5 \o webhookRoutes
           s7 == s6 \o keyRoutes
<1>0. IsSeq(<< Auth >>) /\ IsSeq(streamRoutes) /\ IsSeq(<< Use(<< >>, "dashboard") >>)
  <2>1. << Auth >> \in Seq({Auth}) OBVIOUS
  <2> DEFINE up == Use(<<"ws">>, "upgrade")
             ws == R("GET", <<"ws">>, "handleWS")
             last == Use(<< >>, "dashboard")
  <2>2. << up, ws >> \in Seq({up, ws}) /\ << last >> \in Seq({last}) OBVIOUS
  <2> QED BY <2>1, <2>2 DEF IsSeq, streamRoutes
<1>s. ASSUME NEW s, NEW t, NEW rest, IsSeq(t), Ahead(s, Ahead(t, rest))
      PROVE  Ahead(s \o t, rest)
  <2>1. CASE Takes(s, e, m, p) BY <1>s, <2>1, TakesMore
  <2>2. CASE Passes(s, m, p) /\ Takes(t, e, m, p) BY <2>2, TakesLast
  <2>3. CASE Passes(s, m, p) /\ Passes(t, m, p) /\ rest BY <2>3, PassMore
  <2> QED BY <1>s, <2>1, <2>2, <2>3
<1>a. Ahead(s0, BySessions(e, m, p))
  <2>1. CASE Takes(publicRoutes, e, m, p) BY <1>0, <2>1, TakesMore
  <2>2. CASE Passes(publicRoutes, m, p) /\ BySessions(e, m, p)
    BY <2>2, AuthPasses, PassMore
  <2> QED BY <2>1, <2>2 DEF ByPublic
<1> HIDE DEF s0
<1>1. Ahead(s1, ByPairing(e, m, p))
  BY <1>a, <1>s, SessionList DEF BySessions
<1> HIDE DEF s1
<1>2. Ahead(s2, ByMessages(e, m, p))
  BY <1>1, <1>s, PairingList DEF ByPairing
<1> HIDE DEF s2
<1>3. Ahead(s3, ByReads(e, m, p))
  BY <1>2, <1>s, MessageList DEF ByMessages
<1> HIDE DEF s3
<1>4. Ahead(s4, ByGroups(e, m, p))
  BY <1>3, <1>s, ReadList DEF ByReads
<1> HIDE DEF s4
<1>5. Ahead(s5, ByWebhooks(e, m, p))
  BY <1>4, <1>s, GroupList DEF ByGroups
<1> HIDE DEF s5
<1>6. Ahead(s6, ByKeys(e, m, p))
  BY <1>5, <1>s, WebhookList DEF ByWebhooks
<1> HIDE DEF s6
<1>7. Ahead(s7, FALSE)
  BY <1>6, <1>s, KeyList DEF ByKeys
<1> HIDE DEF s7
<1>8. Takes(s7, e, m, p) BY <1>7
<1>9. Takes(s7 \o streamRoutes, e, m, p) BY <1>0, <1>8, TakesMore
<1>10. Takes((s7 \o streamRoutes) \o << Use(<< >>, "dashboard") >>, e, m, p)
  BY <1>0, <1>9, TakesMore
<1> QED BY <1>10 DEF routes, Auth, s0, s1, s2, s3, s4, s5, s6, s7

\* The middleware stands at one place only.
AuthOnce(s) == IsSeq(s) /\ \A i \in 1 .. Len(s) : \A j \in 1 .. Len(s) :
                             s[i] = Auth /\ s[j] = Auth => i = j
AuthFree(s) == IsSeq(s) /\ \A i \in 1 .. Len(s) : s[i] # Auth

LEMMA AuthOnceMore ==
  ASSUME NEW s, NEW t, AuthOnce(s), AuthFree(t) PROVE AuthOnce(s \o t)
<1> DEFINE u == s \o t
<1>1. /\ IsSeq(u) /\ Len(u) = Len(s) + Len(t) /\ Len(s) \in Nat /\ Len(t) \in Nat
      /\ \A i \in 1 .. Len(s) : u[i] = s[i]
      /\ \A i \in Len(s) + 1 .. Len(s) + Len(t) : u[i] = t[i - Len(s)]
  BY Joined DEF AuthOnce, AuthFree
<1> HIDE DEF u
<1>2. ASSUME NEW i \in 1 .. Len(u), u[i] = Auth PROVE i \in 1 .. Len(s) /\ s[i] = Auth
  <2>1. CASE i \in Len(s) + 1 .. Len(s) + Len(t)
    <3>1. i - Len(s) \in 1 .. Len(t) /\ u[i] = t[i - Len(s)] BY <1>1, <2>1
    <3> QED BY <1>2, <3>1 DEF AuthFree
  <2>2. CASE i \in 1 .. Len(s) BY <1>1, <1>2, <2>2
  <2> QED BY <1>1, <2>1, <2>2
<1>3. AuthOnce(u) BY <1>1, <1>2 DEF AuthOnce
<1> QED BY <1>3 DEF u

LEMMA AuthOnceAfter ==
  ASSUME NEW s, AuthFree(s) PROVE AuthOnce(s \o << Auth >>)
<1> DEFINE t == << Auth >>
           u == s \o t
<1>0. IsSeq(t) /\ Len(t) = 1
  <2>1. t \in Seq({Auth}) /\ Len(t) = 1 OBVIOUS
  <2> QED BY <2>1 DEF IsSeq
<1> HIDE DEF t
<1>1. /\ IsSeq(u) /\ Len(u) = Len(s) + 1 /\ Len(s) \in Nat
      /\ \A i \in 1 .. Len(s) : u[i] = s[i]
  <2>1. IsSeq(s) BY DEF AuthFree
  <2>2. /\ IsSeq(u) /\ Len(u) = Len(s) + Len(t) /\ Len(s) \in Nat
        /\ \A i \in 1 .. Len(s) : u[i] = s[i]
    BY <1>0, <2>1, Joined
  <2> QED BY <1>0, <2>2
<1> HIDE DEF u
<1>2. ASSUME NEW i \in 1 .. Len(u), u[i] = Auth PROVE i = Len(u)
  <2>1. CASE i \in 1 .. Len(s) BY <1>1, <1>2, <2>1 DEF AuthFree
  <2> QED BY <1>1, <2>1
<1>3. AuthOnce(u) BY <1>1, <1>2 DEF AuthOnce
<1> QED BY <1>3 DEF u, t

LEMMA ApiAuthFree == ASSUME NEW s, Entries("api", s) PROVE AuthFree(s)
<1>1. PICK S : s \in Seq(S) /\ \A r \in S : Entry("api", r) BY DEF Entries
<1>2. Auth.method = "USE" BY DEF Auth, Use, R
<1>3. ASSUME NEW i \in 1 .. Len(s) PROVE s[i] # Auth
  <2>1. s[i] \in S BY <1>1
  <2> QED BY <1>1, <1>2, <2>1 DEF Entry, Api
<1> QED BY <1>1, <1>3 DEF AuthFree, IsSeq

LEMMA RoutesAuthOnce == AuthOnce(routes)
<1>1. AuthFree(publicRoutes)
  <2> DEFINE s == publicRoutes
  <2> HIDE DEF s
  <2>1. IsSeq(s) /\ Len(s) = 5 BY PublicList DEF s
  <2>2. Auth.method = "USE" BY DEF Auth, Use, R
  <2>3. /\ s[1] # Auth /\ s[2] # Auth /\ s[3] # Auth /\ s[4] # Auth /\ s[5] # Auth
    BY <2>2, PublicList DEF s, Route1, Route2
  <2>4. \A i : i \in 1 .. 5 => i \in {1, 2, 3, 4, 5} OBVIOUS
  <2>5. AuthFree(s) BY <2>1, <2>3, <2>4 DEF AuthFree
  <2> QED BY <2>5 DEF s
<1>2. AuthFree(streamRoutes) /\ AuthFree(<< Use(<< >>, "dashboard") >>)
  <2> DEFINE up == Use(<<"ws">>, "upgrade")
             ws == R("GET", <<"ws">>, "handleWS")
             last == Use(<< >>, "dashboard")
             s == << up, ws >>
             t == << last >>
  <2>1. up # Auth /\ ws # Auth /\ last # Auth
    <3>1. /\ Auth.handler = "authMiddleware" /\ up.handler = "upgrade"
          /\ ws.handler = "handleWS" /\ last.handler = "dashboard"
      BY DEF Auth, Use, R
    <3> HIDE DEF up, ws, last
    <3> QED BY <3>1
  <2> HIDE DEF up, ws, last
  <2>2. /\ s \in Seq({up, ws}) /\ Len(s) = 2 /\ s[1] = up /\ s[2] = ws
        /\ t \in Seq({last}) /\ Len(t) = 1 /\ t[1] = last
    OBVIOUS
  <2> HIDE DEF s, t
  <2>3. (\A i : i \in 1 .. 2 => i \in {1, 2}) /\ (\A i : i \in 1 .. 1 => i = 1) OBVIOUS
  <2>4. AuthFree(s) /\ AuthFree(t) BY <2>1, <2>2, <2>3 DEF AuthFree, IsSeq
  <2> QED BY <2>4 DEF streamRoutes, s, t, up, ws, last
<1> DEFINE s0 == publicRoutes \o << Auth >>
           s1 == s0 \o sessionRoutes
           s2 == s1 \o pairingRoutes
           s3 == s2 \o messageRoutes
           s4 == s3 \o readRoutes
           s5 == s4 \o groupRoutes
           s6 == s5 \o webhookRoutes
           s7 == s6 \o keyRoutes
           s8 == s7 \o streamRoutes
           s9 == s8 \o << Use(<< >>, "dashboard") >>
<1>3. AuthOnce(s0) BY <1>1, AuthOnceAfter
<1> HIDE DEF s0
<1>4. AuthOnce(s1) BY <1>3, AuthOnceMore, ApiAuthFree, SessionEntries
<1> HIDE DEF s1
<1>5. AuthOnce(s2) BY <1>4, AuthOnceMore, ApiAuthFree, PairingEntries
<1> HIDE DEF s2
<1>6. AuthOnce(s3) BY <1>5, AuthOnceMore, ApiAuthFree, MessageEntries
<1> HIDE DEF s3
<1>7. AuthOnce(s4) BY <1>6, AuthOnceMore, ApiAuthFree, ReadEntries
<1> HIDE DEF s4
<1>8. AuthOnce(s5) BY <1>7, AuthOnceMore, ApiAuthFree, GroupEntries
<1> HIDE DEF s5
<1>9. AuthOnce(s6) BY <1>8, AuthOnceMore, ApiAuthFree, WebhookEntries
<1> HIDE DEF s6
<1>10. AuthOnce(s7) BY <1>9, AuthOnceMore, ApiAuthFree, KeyEntries
<1> HIDE DEF s7
<1>11. AuthOnce(s8) BY <1>2, <1>10, AuthOnceMore
<1> HIDE DEF s8
<1>12. AuthOnce(s9) BY <1>2, <1>11, AuthOnceMore
<1> HIDE DEF s9
<1>13. routes = s9 BY DEF routes, Auth, s0, s1, s2, s3, s4, s5, s6, s7, s8, s9
<1> QED BY <1>12, <1>13
=============================================================================
