----------------------------- MODULE Expiration -----------------------------
(***************************************************************************)
(* Disappearing messages: the timers of chats as WhatsApp has them, the    *)
(* messages that tell of them, and the cache the gateway keeps of what     *)
(* they told (ChatExpirationCache, Manager.recordExpiration).              *)
(*                                                                         *)
(* whatsmeow hands one client's messages over one at a time and in order.  *)
(* What it had in hand when its session was deleted may still come through *)
(* later, whatever has taken the session's name by then.                   *)
(***************************************************************************)
EXTENDS Integers, Sequences

CONSTANTS
  Watched,    \* the <<session, chat>> whose timer matters (a bound)
  Timers,     \* what a timer may be set to, in seconds
  Half,       \* half the range of an int32 (2^31 in the code)
  MaxEvents,  \* messages on their way at once (a bound)
  MaxChanges  \* changes of timers and owners of names (a bound)

ASSUME ExpirationAssumption ==
  /\ Timers \subseteq 1 .. Half - 1
  /\ Half \in Nat \ {0} /\ MaxEvents \in Nat /\ MaxChanges \in Nat

VARIABLES
  setting,   \* the timer the chat really has; 0 is off
  events,    \* messages on their way to dispatchEvent
  expCache,
  changes,
  told,      \* history: the timers that messages of the chat named
  onRecord   \* history: the setting was recorded and did not change since

chats == <<setting, events, changes, told>>
expirationVars == <<chats, expCache, onRecord>>

Event == [of : Watched, timer : Timers \cup {0}, late : BOOLEAN]

ExpirationTypeOK ==
  /\ setting \in [Watched -> Timers \cup {0}]
  /\ events \in Seq(Event) /\ Len(events) <= MaxEvents
  /\ expCache \in [Watched -> Timers \cup {0}]
  /\ changes \in 0 .. MaxChanges
  /\ told \in [Watched -> SUBSET Timers]
  /\ onRecord \in [Watched -> BOOLEAN]

ExpirationInit ==
  /\ setting = [w \in Watched |-> 0]
  /\ events = << >>
  /\ expCache = [w \in Watched |-> 0]
  /\ changes = 0
  /\ told = [w \in Watched |-> {}]
  /\ onRecord = [w \in Watched |-> FALSE]

-----------------------------------------------------------------------------
(* Integers of limited width *)

\* What a two's complement integer with values -h .. h-1 keeps of n.
Wrap(h, n) == ((n + h) % (2 * h)) - h

Int32(n) == Wrap(Half, n)
UInt32(n) == n % (2 * Half)

-----------------------------------------------------------------------------
(* The chats *)

\* The kinds of content whose ContextInfo ExtractExpiration looks at, and the
\* protocol message that changes the setting.  Other content tells nothing.
Carriers == {"extendedText", "image", "video", "audio", "document", "sticker", "contact",
             "location", "protocol"}

ExtractExpiration(kind, timer) == IF kind \in Carriers THEN timer ELSE 0

\* A message comes in; it carries the timer that its chat has.
Message(w, kind) ==
  LET timer == ExtractExpiration(kind, setting[w]) IN
  /\ Len(events) < MaxEvents
  /\ events' = Append(events, [of |-> w, timer |-> timer, late |-> FALSE])
  /\ told' = [told EXCEPT ![w] = @ \cup ({timer} \ {0})]
  /\ UNCHANGED <<setting, changes, expCache, onRecord>>

\* Somebody changes the timer of a chat, or switches it off.
ChangeTimer(w, timer) ==
  /\ changes < MaxChanges /\ setting[w] # timer
  /\ changes' = changes + 1
  /\ setting' = [setting EXCEPT ![w] = timer]
  /\ onRecord' = [onRecord EXCEPT ![w] = FALSE]
  /\ UNCHANGED <<events, told, expCache>>

\* The session is deleted, and created again for another account.  Delete and
\* Create leave the cache alone.
ChangeOwner(n, timer) ==
  LET its == {w \in Watched : w[1] = n} IN
  /\ changes < MaxChanges
  /\ changes' = changes + 1
  /\ setting' = [w \in Watched |-> IF w \in its THEN timer ELSE setting[w]]
  /\ onRecord' = [w \in Watched |-> IF w \in its THEN FALSE ELSE onRecord[w]]
  /\ events' = [i \in DOMAIN events |-> IF events[i].of \in its
                                        THEN [events[i] EXCEPT !.late = TRUE] ELSE events[i]]
  /\ UNCHANGED <<told, expCache>>

-----------------------------------------------------------------------------
(* dispatchEvent, for what it does to the cache *)

\* Mutant: one cache for all sessions.
recordForAnySession(w, timer) ==
  expCache' = [v \in Watched |-> IF v[2] = w[2] THEN timer ELSE expCache[v]]

recordExpiration(w, timer) == expCache' = [expCache EXCEPT ![w] = timer]

\* Only a timer that is on is recorded.
DispatchMessage(i) ==
  LET e == events[i] IN
  /\ i \in DOMAIN events
  /\ \A j \in 1 .. i - 1 : events[j].of[1] # e.of[1] \/ events[j].late # e.late
  /\ events' = [j \in 1 .. Len(events) - 1 |-> IF j < i THEN events[j] ELSE events[j + 1]]
  /\ IF e.timer > 0
     THEN /\ recordExpiration(e.of, e.timer)
          /\ onRecord' = [onRecord EXCEPT ![e.of] = ~e.late /\ e.timer = setting[e.of]]
     ELSE UNCHANGED <<expCache, onRecord>>
  /\ UNCHANGED <<setting, changes, told>>

ChatExpiration(n, jid) == IF <<n, jid>> \in Watched THEN expCache[<<n, jid>>] ELSE 0

ExpirationNext ==
  \/ \E w \in Watched, kind \in Carriers \cup {"other"} : Message(w, kind)
  \/ \E w \in Watched, timer \in Timers \cup {0} : ChangeTimer(w, timer)
  \/ \E w \in Watched, timer \in Timers \cup {0} : ChangeOwner(w[1], timer)
  \/ \E i \in 1 .. MaxEvents : DispatchMessage(i)
=============================================================================
