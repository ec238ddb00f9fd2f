--------------------------- MODULE McpToolsProofs ---------------------------
(***************************************************************************)
(* Whatever the arguments of a tool call say and in whichever order        *)
(* renderPath takes them, the path it renders is the same; and whoever     *)
(* asked, a request that is refused has changed nothing, and one that      *)
(* changes something went by its rules: key, group, timer, whole media.    *)
(*                                                                         *)
(* The invariant of the first says of each segment of a half-rendered path *)
(* that it is still the template's, or what its own argument makes of it,  *)
(* which is no slot; and that nothing the gateway does on the way changes  *)
(* the request's path.  That of the second is Progress.  The others rest   *)
(* on RequestsProofs: Keyed, a request beyond the authentication has a     *)
(* key; and Decisive, what is done was decided by the steps before it.     *)
(*                                                                         *)
(* Where a plain call ends is shown by Reach: of the entries still to be   *)
(* tried, one is its tool's own, and all before it are the middleware or   *)
(* do not fit.  It begins in the tables, where no template, rendered with  *)
(* plain texts, fits an entry that comes before its own (OfferedLand).     *)
(* That it is taken is shown by Supplied: of the steps still to be taken   *)
(* none wants what the call does not give.  That too begins in the tables, *)
(* with what each tool requires beside what its handler reads (OfferedFed).*)
(* The types come last, since they rest on most of this.                   *)
(***************************************************************************)
EXTENDS McpTools, RequestsProofs

(* The templates: a path of five segments is that of a group, and one of   *)
(* four asked for with GET that of a group or of the pairing.              *)

GroupSlot(t) ==
  /\ IsSeq(t.path)
  /\ Len(t.path) > 4 => t.path[4] = "{gid}"
  /\ Len(t.path) = 4 /\ t.method = "GET" => t.path[4] = "{gid}" \/ t.path[3] = "auth"

Places == {"{session}", "{gid}", "{id}"}

\* A segment of a template beside the segment of the pattern that is to take it.
Place(x) == CASE x = ":gid" -> "{gid}" [] x = ":id" -> "{id}" [] OTHER -> "{session}"
Like(x, y) ==
  IF x \in Params THEN y = Place(x) ELSE y = x /\ y \notin Slots /\ y # "" /\ Folded(y) = y

\* The tool t asks for what the entry r is there for.
Mirrors(t, r) ==
  /\ t.method = r.method /\ r.method # "USE" /\ t.means = r.handler
  /\ IsSeq(t.path) /\ IsSeq(r.pattern)
  /\ Len(t.path) = Len(r.pattern) /\ Len(r.pattern) \in Nat \ {0}
  /\ \A i \in 1 .. Len(r.pattern) : Like(r.pattern[i], t.path[i])

\* The path p is the template of t with the plain texts of args in its slots.
Renders(t, p, args) ==
  /\ IsSeq(p) /\ Len(p) = Len(t.path)
  /\ \A i \in 1 .. Len(p) :
       IF t.path[i] \in Places
       THEN /\ p[i] # "" /\ Folded(p[i]) # "sessions"
            /\ \E k \in DOMAIN args : Slot(k) = t.path[i] /\ p[i] = args[k]
       ELSE p[i] = t.path[i]

\* The path p is the pattern with plain texts for its parameters.
Fills(p, pattern) ==
  /\ Len(p) = Len(pattern)
  /\ \A i \in 1 .. Len(pattern) :
       IF pattern[i] \in Params THEN Folded(p[i]) # "sessions" ELSE Folded(p[i]) = pattern[i]

Asks(t, m, h) == t.method = m /\ t.means = h

Alike1(x1, a) ==
  Like(x1, a)
Alike2(x1, x2, a, b) ==
  Like(x1, a) /\ Like(x2, b)
Alike3(x1, x2, x3, a, b, c) ==
  Like(x1, a) /\ Like(x2, b) /\ Like(x3, c)
Alike4(x1, x2, x3, x4, a, b, c, d) ==
  Like(x1, a) /\ Like(x2, b) /\ Like(x3, c) /\ Like(x4, d)
Alike5(x1, x2, x3, x4, x5, a, b, c, d, e) ==
  /\ Like(x1, a) /\ Like(x2, b) /\ Like(x3, c)
  /\ Like(x4, d) /\ Like(x5, e)
Alike6(x1, x2, x3, x4, x5, x6, a, b, c, d, e, f) ==
  /\ Like(x1, a) /\ Like(x2, b) /\ Like(x3, c)
  /\ Like(x4, d) /\ Like(x5, e) /\ Like(x6, f)
Asks1(t, m, h, a) == Asks(t, m, h) /\ Path1(t.path, a)
Asks2(t, m, h, a, b) == Asks(t, m, h) /\ Path2(t.path, a, b)
Asks3(t, m, h, a, b, c) == Asks(t, m, h) /\ Path3(t.path, a, b, c)
Asks4(t, m, h, a, b, c, d) == Asks(t, m, h) /\ Path4(t.path, a, b, c, d)
Asks5(t, m, h, a, b, c, d, e) == Asks(t, m, h) /\ Path5(t.path, a, b, c, d, e)
Asks6(t, m, h, a, b, c, d, e, f) == Asks(t, m, h) /\ Path6(t.path, a, b, c, d, e, f)

LEMMA MirrorFits ==
  ASSUME NEW t, NEW r, Mirrors(t, r), NEW p, NEW args, Renders(t, p, args)
  PROVE  Ends(p) /\ Fits(r, t.method, p) /\ Fills(p, r.pattern)
<1> DEFINE n == Len(r.pattern)
           s == r.pattern
<1>1. n \in Nat \ {0} /\ Len(p) = n /\ Len(t.path) = n /\ IsSeq(p) BY DEF Mirrors, Renders
<1>2. DOMAIN s = 1 .. n
  <2>1. PICK S : r.pattern \in Seq(S) BY DEF Mirrors, IsSeq
  <2> QED BY <2>1
<1>3. (\A x \in Params : Place(x) \in Places) /\ \A y \in Places : y \in Slots
  BY DEF Place, Places, Params, Slots
<1>4. \A i \in 1 .. n :
        /\ IF s[i] \in Params THEN Folded(p[i]) # "sessions" ELSE Folded(p[i]) = s[i]
        /\ p[i] # "" /\ SegmentFits(s[i], p[i])
  <2> TAKE i \in 1 .. n
  <2>1. Like(s[i], t.path[i]) BY DEF Mirrors
  <2>2. IF t.path[i] \in Places THEN p[i] # "" /\ Folded(p[i]) # "sessions" ELSE p[i] = t.path[i]
    BY <1>1 DEF Renders
  <2> QED BY <1>3, <2>1, <2>2 DEF Like, SegmentFits
<1> HIDE DEF n
<1>5. n \in 1 .. n BY <1>1
<1>6. Ends(p) BY <1>1, <1>4, <1>5, EndsIs
<1>7. Trimmed(p) = p BY <1>6 DEF Ends
<1>8. r.method = t.method BY DEF Mirrors
<1> HIDE DEF s
<1>9. Len(s) = n BY DEF n, s
<1>10. Fits(r, t.method, p) BY <1>1, <1>2, <1>4, <1>7, <1>8, <1>9 DEF Fits, s
<1>11. Fills(p, s) BY <1>1, <1>4, <1>9 DEF Fills
<1> QED BY <1>6, <1>10, <1>11 DEF s

LEMMA Mirrors1 ==
  ASSUME NEW t
  PROVE  \A r, m, h, x1, a :
           Route1(r, m, h, x1) /\ Asks1(t, m, h, a)
             /\ Alike1(x1, a) => Mirrors(t, r)
<1> TAKE r, m, h, x1, a
<1> HAVE Route1(r, m, h, x1) /\ Asks1(t, m, h, a)
           /\ Alike1(x1, a)
<1>1. /\ r.method = m /\ m # "USE" /\ r.handler = h /\ t.method = m /\ t.means = h
      /\ IsSeq(t.path) /\ IsSeq(r.pattern) /\ Len(t.path) = 1 /\ Len(r.pattern) = 1
  BY DEF Asks, Asks1, Route1, Path1
<1>2. \A i : i \in 1 .. 1 <=> i = 1 OBVIOUS
<1>3. \A i \in 1 .. 1 : Like(r.pattern[i], t.path[i])
  BY <1>2 DEF Alike1, Asks1, Route1, Path1
<1> QED BY <1>1, <1>3 DEF Mirrors

LEMMA Mirrors2 ==
  ASSUME NEW t
  PROVE  \A r, m, h, x1, x2, a, b :
           Route2(r, m, h, x1, x2) /\ Asks2(t, m, h, a, b)
             /\ Alike2(x1, x2, a, b) => Mirrors(t, r)
<1> TAKE r, m, h, x1, x2, a, b
<1> HAVE Route2(r, m, h, x1, x2) /\ Asks2(t, m, h, a, b)
           /\ Alike2(x1, x2, a, b)
<1>1. /\ r.method = m /\ m # "USE" /\ r.handler = h /\ t.method = m /\ t.means = h
      /\ IsSeq(t.path) /\ IsSeq(r.pattern) /\ Len(t.path) = 2 /\ Len(r.pattern) = 2
  BY DEF Asks, Asks2, Route2, Path2
<1>2. \A i : i \in 1 .. 2 <=> i = 1 \/ i = 2 OBVIOUS
<1>3. \A i \in 1 .. 2 : Like(r.pattern[i], t.path[i])
  BY <1>2 DEF Alike2, Asks2, Route2, Path2
<1> QED BY <1>1, <1>3 DEF Mirrors

LEMMA Mirrors3 ==
  ASSUME NEW t
  PROVE  \A r, m, h, x1, x2, x3, a, b, c :
           Route3(r, m, h, x1, x2, x3) /\ Asks3(t, m, h, a, b, c)
             /\ Alike3(x1, x2, x3, a, b, c) => Mirrors(t, r)
<1> TAKE r, m, h, x1, x2, x3, a, b, c
<1> HAVE Route3(r, m, h, x1, x2, x3) /\ Asks3(t, m, h, a, b, c)
           /\ Alike3(x1, x2, x3, a, b, c)
<1>1. /\ r.method = m /\ m # "USE" /\ r.handler = h /\ t.method = m /\ t.means = h
      /\ IsSeq(t.path) /\ IsSeq(r.pattern) /\ Len(t.path) = 3 /\ Len(r.pattern) = 3
  BY DEF Asks, Asks3, Route3, Path3
<1>2. \A i : i \in 1 .. 3 <=> i = 1 \/ i = 2 \/ i = 3 OBVIOUS
<1>3. \A i \in 1 .. 3 : Like(r.pattern[i], t.path[i])
  BY <1>2 DEF Alike3, Asks3, Route3, Path3
<1> QED BY <1>1, <1>3 DEF Mirrors

LEMMA Mirrors4 ==
  ASSUME NEW t
  PROVE  \A r, m, h, x1, x2, x3, x4, a, b, c, d :
           Route4(r, m, h, x1, x2, x3, x4) /\ Asks4(t, m, h, a, b, c, d)
             /\ Alike4(x1, x2, x3, x4, a, b, c, d) => Mirrors(t, r)
<1> TAKE r, m, h, x1, x2, x3, x4, a, b, c, d
<1> HAVE Route4(r, m, h, x1, x2, x3, x4) /\ Asks4(t, m, h, a, b, c, d)
           /\ Alike4(x1, x2, x3, x4, a, b, c, d)
<1>1. /\ r.method = m /\ m # "USE" /\ r.handler = h /\ t.method = m /\ t.means = h
      /\ IsSeq(t.path) /\ IsSeq(r.pattern) /\ Len(t.path) = 4 /\ Len(r.pattern) = 4
  BY DEF Asks, Asks4, Route4, Path4
<1>2. \A i : i \in 1 .. 4 <=> i = 1 \/ i = 2 \/ i = 3 \/ i = 4 OBVIOUS
<1>3. \A i \in 1 .. 4 : Like(r.pattern[i], t.path[i])
  BY <1>2 DEF Alike4, Asks4, Route4, Path4
<1> QED BY <1>1, <1>3 DEF Mirrors

LEMMA Mirrors5 ==
  ASSUME NEW t
  PROVE  \A r, m, h, x1, x2, x3, x4, x5, a, b, c, d, e :
           Route5(r, m, h, x1, x2, x3, x4, x5) /\ Asks5(t, m, h, a, b, c, d, e)
             /\ Alike5(x1, x2, x3, x4, x5, a, b, c, d, e) => Mirrors(t, r)
<1> TAKE r, m, h, x1, x2, x3, x4, x5, a, b, c, d, e
<1> HAVE Route5(r, m, h, x1, x2, x3, x4, x5) /\ Asks5(t, m, h, a, b, c, d, e)
           /\ Alike5(x1, x2, x3, x4, x5, a, b, c, d, e)
<1>1. /\ r.method = m /\ m # "USE" /\ r.handler = h /\ t.method = m /\ t.means = h
      /\ IsSeq(t.path) /\ IsSeq(r.pattern) /\ Len(t.path) = 5 /\ Len(r.pattern) = 5
  BY DEF Asks, Asks5, Route5, Path5
<1>2. \A i : i \in 1 .. 5 <=> i = 1 \/ i = 2 \/ i = 3 \/ i = 4 \/ i = 5 OBVIOUS
<1>3. \A i \in 1 .. 5 : Like(r.pattern[i], t.path[i])
  BY <1>2 DEF Alike5, Asks5, Route5, Path5
<1> QED BY <1>1, <1>3 DEF Mirrors

LEMMA Mirrors6 ==
  ASSUME NEW t
  PROVE  \A r, m, h, x1, x2, x3, x4, x5, x6, a, b, c, d, e, f :
           Route6(r, m, h, x1, x2, x3, x4, x5, x6) /\ Asks6(t, m, h, a, b, c, d, e, f)
             /\ Alike6(x1, x2, x3, x4, x5, x6, a, b, c, d, e, f) => Mirrors(t, r)
<1> TAKE r, m, h, x1, x2, x3, x4, x5, x6, a, b, c, d, e, f
<1> HAVE Route6(r, m, h, x1, x2, x3, x4, x5, x6) /\ Asks6(t, m, h, a, b, c, d, e, f)
           /\ Alike6(x1, x2, x3, x4, x5, x6, a, b, c, d, e, f)
<1>1. /\ r.method = m /\ m # "USE" /\ r.handler = h /\ t.method = m /\ t.means = h
      /\ IsSeq(t.path) /\ IsSeq(r.pattern) /\ Len(t.path) = 6 /\ Len(r.pattern) = 6
  BY DEF Asks, Asks6, Route6, Path6
<1>2. \A i : i \in 1 .. 6 <=> i = 1 \/ i = 2 \/ i = 3 \/ i = 4 \/ i = 5 \/ i = 6 OBVIOUS
<1>3. \A i \in 1 .. 6 : Like(r.pattern[i], t.path[i])
  BY <1>2 DEF Alike6, Asks6, Route6, Path6
<1> QED BY <1>1, <1>3 DEF Mirrors

LEMMA Likes ==
  /\ Like(":name", "{session}") /\ Like(":session", "{session}")
  /\ Like(":gid", "{gid}") /\ Like(":id", "{id}")
  /\ \A x \in {"api", "openapi.yaml", "sessions", "start", "stop", "logout", "auth", "qr",
               "request-code", "sendText", "sendImage", "sendFile", "sendVoice", "sendVideo",
               "sendLocation", "sendContact", "sendSeen", "startTyping", "stopTyping", "me",
               "contacts", "chats", "groups", "join", "leave", "participants", "add", "remove",
               "promote", "demote", "name", "topic", "locked", "announce", "photo",
               "disappearing", "invite-link", "revoke", "webhooks", "keys"} : Like(x, x)
<1>1. \A x \in Literals : Folded(x) = x BY FoldedAssumption
<1>2. \A x \in Literals : x \notin Params /\ x \notin Slots /\ x # "" BY DEF Literals, Params, Slots
<1>3. \A x \in Literals : Like(x, x) BY <1>1, <1>2 DEF Like
<1> QED BY <1>3 DEF Like, Place, Params, Literals

\* What all the entries have that tools ask for: a handler, and the group in its place.
Apt(r) ==
  /\ r.handler \notin Middlewares
  /\ Len(r.pattern) > 4 => r.pattern[4] = ":gid"
  /\ Len(r.pattern) = 4 /\ r.method = "GET" => r.pattern[4] = ":gid" \/ r.pattern[3] = "auth"

\* Whatever plain texts the template is rendered with, the request comes to the
\* handler that the tool means.
Lands(t) ==
  /\ GroupSlot(t) /\ t.means \notin Middlewares
  /\ \A i \in DOMAIN t.path : t.path[i] \in Slots => t.path[i] \in Places
  /\ \E e : /\ Mirrors(t, e)
            /\ \A p, args : Renders(t, p, args) => Takes(routes, e, t.method, p)

LEMMA LandsBy ==
  ASSUME NEW t, NEW r, Mirrors(t, r), Apt(r),
         \A p, args : Renders(t, p, args) => ByPublic(r, t.method, p)
  PROVE  Lands(t)
<1> DEFINE s == r.pattern
           n == Len(s)
<1>1. IsSeq(t.path) /\ IsSeq(s) /\ Len(t.path) = n /\ n \in Nat BY DEF Mirrors
<1>2. DOMAIN t.path = 1 .. n
  <2>1. PICK S : t.path \in Seq(S) BY <1>1 DEF IsSeq
  <2> QED BY <1>1, <2>1
<1>3. \A i \in 1 .. n : Like(s[i], t.path[i]) BY DEF Mirrors
<1>4. t.method = r.method /\ t.means = r.handler BY DEF Mirrors
<1>5. /\ n > 4 => s[4] = ":gid"
      /\ n = 4 /\ t.method = "GET" => s[4] = ":gid" \/ s[3] = "auth"
      /\ t.means \notin Middlewares
  BY <1>4 DEF Apt
<1> HIDE DEF n, s
<1>6. \A i \in DOMAIN t.path : t.path[i] \in Slots => t.path[i] \in Places
  BY <1>2, <1>3 DEF Like, Place, Places
<1>7. GroupSlot(t)
  <2>1. \A y : /\ Like(":gid", y) => y = "{gid}"
               /\ Like("auth", y) => y = "auth"
    BY DEF Like, Place, Params
  <2>2. CASE n > 4
    <3>1. 4 \in 1 .. n /\ s[4] = ":gid" /\ n # 4 BY <1>1, <1>5, <2>2
    <3>2. t.path[4] = "{gid}" BY <1>3, <2>1, <3>1
    <3> QED BY <1>1, <3>1, <3>2 DEF GroupSlot
  <2>3. CASE n = 4
    <3>1. 3 \in 1 .. n /\ 4 \in 1 .. n /\ ~(n > 4) BY <2>3
    <3>2. s[4] = ":gid" => t.path[4] = "{gid}" BY <1>3, <2>1, <3>1
    <3>3. s[3] = "auth" => t.path[3] = "auth" BY <1>3, <2>1, <3>1
    <3> QED BY <1>1, <1>5, <2>3, <3>1, <3>2, <3>3 DEF GroupSlot
  <2>4. CASE ~(n > 4) /\ n # 4 BY <1>1, <2>4 DEF GroupSlot
  <2> QED BY <2>2, <2>3, <2>4
<1>8. \A p, args : Renders(t, p, args) => Takes(routes, r, t.method, p) BY RoutesTake
<1> QED BY <1>5, <1>6, <1>7, <1>8 DEF Lands

LEMMA PublicLands == \A t : \A i \in 1 .. 5 : Mirrors(t, publicRoutes[i]) => Lands(t)
<1> SUFFICES ASSUME NEW t, NEW i \in 1 .. 5, Mirrors(t, publicRoutes[i]), NEW p, NEW args,
                    Renders(t, p, args)
             PROVE  ByPublic(publicRoutes[i], t.method, p)
  <2>1. \A k : k \in 1 .. 5 => k \in {1, 2, 3, 4, 5} OBVIOUS
  <2>2. /\ Apt(publicRoutes[1]) /\ Apt(publicRoutes[2]) /\ Apt(publicRoutes[3])
        /\ Apt(publicRoutes[4]) /\ Apt(publicRoutes[5])
    BY PublicList DEF Apt, Middlewares, Route1, Route2, Path1, Path2
  <2> QED BY <2>1, <2>2, LandsBy
<1>1. Ends(p) /\ Fits(publicRoutes[i], t.method, p)
  BY MirrorFits
<1> QED BY <1>1, PublicFits DEF ByPublic

LEMMA SessionLands == \A t : \A i \in 1 .. 7 : Mirrors(t, sessionRoutes[i]) => Lands(t)
<1> DEFINE s == sessionRoutes
<1> HIDE DEF s
<1>a. \A k \in 1 .. 7 : Apt(s[k])
  <2>1. \A k : k \in 1 .. 7 => k \in {1, 2, 3, 4, 5, 6, 7} OBVIOUS
  <2>2. /\ Apt(s[1]) /\ Apt(s[2]) /\ Apt(s[3]) /\ Apt(s[4]) /\ Apt(s[5])
        /\ Apt(s[6]) /\ Apt(s[7])
    BY SessionList DEF s, Apt, Middlewares, Route2, Route3, Route4, Path2, Path3, Path4
  <2> QED BY <2>1, <2>2
<1> SUFFICES ASSUME NEW t, NEW i \in 1 .. 7, Mirrors(t, sessionRoutes[i]), NEW p, NEW args,
                    Renders(t, p, args)
             PROVE  ByPublic(sessionRoutes[i], t.method, p)
  BY <1>a, LandsBy DEF s
<1> DEFINE r == s[i]
           Form(u) == u.pattern[1] = "api" /\ u.pattern[2] = "sessions" /\ Len(u.pattern) > 1
<1>1. Form(r)
  <2>1. i \in {1, 2, 3, 4, 5, 6, 7} OBVIOUS
  <2>2. /\ Form(s[1])
        /\ Form(s[2])
        /\ Form(s[3])
        /\ Form(s[4])
        /\ Form(s[5])
        /\ Form(s[6])
        /\ Form(s[7])
    BY SessionList DEF s, Route2, Route3, Route4, Path2, Path3, Path4
  <2> QED BY <2>1, <2>2
<1>m. Mirrors(t, r) BY DEF s
<1> HIDE DEF r
<1>2. /\ Ends(p) /\ Fits(r, t.method, p)
      /\ Fills(p, r.pattern) /\ t.method = r.method /\ Len(r.pattern) \in Nat
  BY <1>m, MirrorFits DEF Mirrors
<1>3. Folded(p[1]) = "api" /\ Folded(p[2]) = "sessions"
  <2>1. /\ ":session" \in Params /\ ":id" \in Params /\ "api" \notin Params
        /\ "sessions" \notin Params /\ "groups" \notin Params /\ "webhooks" \notin Params
        /\ "keys" \notin Params
    BY DEF Params
  <2>2. 1 \in 1 .. Len(r.pattern) /\ 2 \in 1 .. Len(r.pattern) BY <1>1, <1>2
  <2> QED BY <1>1, <1>2, <2>1, <2>2 DEF Fills
<1>4. Takes(sessionRoutes, r, t.method, p) BY <1>2, SessionFits DEF r, s
<1>5. /\ Folded(p[1]) = "api" /\ (t.method # "POST" \/ Len(p) # 2 \/ Folded(p[2]) # "login")
  BY <1>3
<1>6. /\ Passes(publicRoutes, t.method, p)
  <2>1. Passes(publicRoutes, t.method, p) BY <1>2, <1>5, PublicFits
  <2> QED BY <2>1
<1> QED BY <1>4, <1>6 DEF r, s, ByPublic, BySessions

LEMMA PairingLands == \A t : \A i \in 1 .. 3 : Mirrors(t, pairingRoutes[i]) => Lands(t)
<1> DEFINE s == pairingRoutes
<1> HIDE DEF s
<1>a. \A k \in 1 .. 3 : Apt(s[k])
  <2>1. \A k : k \in 1 .. 3 => k \in {1, 2, 3} OBVIOUS
  <2>2. /\ Apt(s[1]) /\ Apt(s[2]) /\ Apt(s[3])
    BY PairingList DEF s, Apt, Middlewares, Route4, Path4
  <2> QED BY <2>1, <2>2
<1> SUFFICES ASSUME NEW t, NEW i \in 1 .. 3, Mirrors(t, pairingRoutes[i]), NEW p, NEW args,
                    Renders(t, p, args)
             PROVE  ByPublic(pairingRoutes[i], t.method, p)
  BY <1>a, LandsBy DEF s
<1> DEFINE r == s[i]
           Form(u) == u.pattern[1] = "api" /\ u.pattern[2] = ":session" /\ Len(u.pattern) = 4
<1>1. Form(r)
  <2>1. i \in {1, 2, 3} OBVIOUS
  <2>2. /\ Form(s[1])
        /\ Form(s[2])
        /\ Form(s[3])
    BY PairingList DEF s, Route4, Path4
  <2> QED BY <2>1, <2>2
<1>m. Mirrors(t, r) BY DEF s
<1> HIDE DEF r
<1>2. /\ Ends(p) /\ Fits(r, t.method, p)
      /\ Fills(p, r.pattern) /\ t.method = r.method /\ Len(r.pattern) \in Nat
  BY <1>m, MirrorFits DEF Mirrors
<1>3. Folded(p[1]) = "api" /\ Folded(p[2]) # "sessions" /\ Len(p) = 4
  <2>1. /\ ":session" \in Params /\ ":id" \in Params /\ "api" \notin Params
        /\ "sessions" \notin Params /\ "groups" \notin Params /\ "webhooks" \notin Params
        /\ "keys" \notin Params
    BY DEF Params
  <2>2. 1 \in 1 .. Len(r.pattern) /\ 2 \in 1 .. Len(r.pattern) /\ 3 \in 1 .. Len(r.pattern)
    BY <1>1, <1>2
  <2> QED BY <1>1, <1>2, <2>1, <2>2 DEF Fills
<1>4. Takes(pairingRoutes, r, t.method, p) BY <1>2, PairingFits DEF r, s
<1>5. /\ Folded(p[1]) = "api" /\ (t.method # "POST" \/ Len(p) # 2 \/ Folded(p[2]) # "login")
      /\ Folded(p[2]) # "sessions"
  BY <1>3
<1>6. /\ Passes(publicRoutes, t.method, p)
      /\ Passes(sessionRoutes, t.method, p)
  <2>1. Passes(publicRoutes, t.method, p) BY <1>2, <1>5, PublicFits
  <2>2. Passes(sessionRoutes, t.method, p) BY <1>2, <1>5, SessionFits
  <2> QED BY <2>1, <2>2
<1> QED BY <1>4, <1>6 DEF r, s, ByPublic, BySessions, ByPairing

LEMMA MessageLands == \A t : \A i \in 1 .. 10 : Mirrors(t, messageRoutes[i]) => Lands(t)
<1> DEFINE s == messageRoutes
<1> HIDE DEF s
<1>a. \A k \in 1 .. 10 : Apt(s[k])
  <2>1. \A k : k \in 1 .. 10 => k \in {1, 2, 3, 4, 5, 6, 7, 8, 9, 10} OBVIOUS
  <2>2. /\ Apt(s[1]) /\ Apt(s[2]) /\ Apt(s[3]) /\ Apt(s[4]) /\ Apt(s[5])
        /\ Apt(s[6]) /\ Apt(s[7]) /\ Apt(s[8]) /\ Apt(s[9]) /\ Apt(s[10])
    BY MessageList DEF s, Apt, Middlewares, Route2, Path2
  <2> QED BY <2>1, <2>2
<1> SUFFICES ASSUME NEW t, NEW i \in 1 .. 10, Mirrors(t, messageRoutes[i]), NEW p, NEW args,
                    Renders(t, p, args)
             PROVE  ByPublic(messageRoutes[i], t.method, p)
  BY <1>a, LandsBy DEF s
<1> DEFINE r == s[i]
           Form(u) == /\ u.pattern[1] = "api" /\ u.pattern[2] \notin Params /\ Len(u.pattern) = 2
                        /\ u.pattern[2] \notin {"sessions", "login"}
<1>0. \A x \in {"sendText", "sendImage", "sendFile", "sendVoice", "sendVideo", "sendLocation",
                "sendContact", "sendSeen", "startTyping", "stopTyping"} :
        x \notin Params /\ x \notin {"sessions", "login"}
  BY DEF Params
<1>1. Form(r)
  <2>1. i \in {1, 2, 3, 4, 5, 6, 7, 8, 9, 10} OBVIOUS
  <2>2. /\ Form(s[1])
        /\ Form(s[2])
        /\ Form(s[3])
        /\ Form(s[4])
        /\ Form(s[5])
        /\ Form(s[6])
        /\ Form(s[7])
        /\ Form(s[8])
        /\ Form(s[9])
        /\ Form(s[10])
    BY <1>0, MessageList DEF s, Route2, Path2
  <2> QED BY <2>1, <2>2
<1>m. Mirrors(t, r) BY DEF s
<1> HIDE DEF r
<1>2. /\ Ends(p) /\ Fits(r, t.method, p)
      /\ Fills(p, r.pattern) /\ t.method = r.method /\ Len(r.pattern) \in Nat
  BY <1>m, MirrorFits DEF Mirrors
<1>3. Folded(p[1]) = "api" /\ Folded(p[2]) \notin {"sessions", "login"} /\ Len(p) = 2
  <2>1. /\ ":session" \in Params /\ ":id" \in Params /\ "api" \notin Params
        /\ "sessions" \notin Params /\ "groups" \notin Params /\ "webhooks" \notin Params
        /\ "keys" \notin Params
    BY DEF Params
  <2>2. 1 \in 1 .. Len(r.pattern) /\ 2 \in 1 .. Len(r.pattern) BY <1>1, <1>2
  <2> QED BY <1>1, <1>2, <2>1, <2>2 DEF Fills
<1>4. Takes(messageRoutes, r, t.method, p) BY <1>2, MessageFits DEF r, s
<1>5. /\ Folded(p[1]) = "api" /\ (t.method # "POST" \/ Len(p) # 2 \/ Folded(p[2]) # "login")
      /\ Folded(p[2]) # "sessions"
      /\ Len(p) # 4 \/ Folded(p[3]) # "auth"
  BY <1>3
<1>6. /\ Passes(publicRoutes, t.method, p)
      /\ Passes(sessionRoutes, t.method, p)
      /\ Passes(pairingRoutes, t.method, p)
  <2>1. Passes(publicRoutes, t.method, p) BY <1>2, <1>5, PublicFits
  <2>2. Passes(sessionRoutes, t.method, p) BY <1>2, <1>5, SessionFits
  <2>3. Passes(pairingRoutes, t.method, p) BY <1>2, <1>5, PairingFits
  <2> QED BY <2>1, <2>2, <2>3
<1> QED BY <1>4, <1>6 DEF r, s, ByPublic, BySessions, ByPairing, ByMessages

LEMMA ReadLands == \A t : \A i \in 1 .. 4 : Mirrors(t, readRoutes[i]) => Lands(t)
<1> DEFINE s == readRoutes
<1> HIDE DEF s
<1>a. \A k \in 1 .. 4 : Apt(s[k])
  <2>1. \A k : k \in 1 .. 4 => k \in {1, 2, 3, 4} OBVIOUS
  <2>2. /\ Apt(s[1]) /\ Apt(s[2]) /\ Apt(s[3]) /\ Apt(s[4])
    BY ReadList DEF s, Apt, Middlewares, Route3, Path3
  <2> QED BY <2>1, <2>2
<1> SUFFICES ASSUME NEW t, NEW i \in 1 .. 4, Mirrors(t, readRoutes[i]), NEW p, NEW args,
                    Renders(t, p, args)
             PROVE  ByPublic(readRoutes[i], t.method, p)
  BY <1>a, LandsBy DEF s
<1> DEFINE r == s[i]
           Form(u) == u.pattern[1] = "api" /\ u.pattern[2] = ":session" /\ Len(u.pattern) = 3
<1>1. Form(r)
  <2>1. i \in {1, 2, 3, 4} OBVIOUS
  <2>2. /\ Form(s[1])
        /\ Form(s[2])
        /\ Form(s[3])
        /\ Form(s[4])
    BY ReadList DEF s, Route3, Path3
  <2> QED BY <2>1, <2>2
<1>m. Mirrors(t, r) BY DEF s
<1> HIDE DEF r
<1>2. /\ Ends(p) /\ Fits(r, t.method, p)
      /\ Fills(p, r.pattern) /\ t.method = r.method /\ Len(r.pattern) \in Nat
  BY <1>m, MirrorFits DEF Mirrors
<1>3. Folded(p[1]) = "api" /\ Folded(p[2]) # "sessions" /\ Len(p) = 3
  <2>1. /\ ":session" \in Params /\ ":id" \in Params /\ "api" \notin Params
        /\ "sessions" \notin Params /\ "groups" \notin Params /\ "webhooks" \notin Params
        /\ "keys" \notin Params
    BY DEF Params
  <2>2. 1 \in 1 .. Len(r.pattern) /\ 2 \in 1 .. Len(r.pattern) /\ 3 \in 1 .. Len(r.pattern)
    BY <1>1, <1>2
  <2> QED BY <1>1, <1>2, <2>1, <2>2 DEF Fills
<1>4. Takes(readRoutes, r, t.method, p) BY <1>2, ReadFits DEF r, s
<1>5. /\ Folded(p[1]) = "api" /\ (t.method # "POST" \/ Len(p) # 2 \/ Folded(p[2]) # "login")
      /\ Folded(p[2]) # "sessions"
      /\ Len(p) # 4 \/ Folded(p[3]) # "auth"
      /\ Len(p) # 2 \/ Folded(p[2]) = "keys"
  BY <1>3
<1>6. /\ Passes(publicRoutes, t.method, p)
      /\ Passes(sessionRoutes, t.method, p)
      /\ Passes(pairingRoutes, t.method, p)
      /\ Passes(messageRoutes, t.method, p)
  <2>1. Passes(publicRoutes, t.method, p) BY <1>2, <1>5, PublicFits
  <2>2. Passes(sessionRoutes, t.method, p) BY <1>2, <1>5, SessionFits
  <2>3. Passes(pairingRoutes, t.method, p) BY <1>2, <1>5, PairingFits
  <2>4. Passes(messageRoutes, t.method, p) BY <1>2, <1>5, MessageFits
  <2> QED BY <2>1, <2>2, <2>3, <2>4
<1> QED BY <1>4, <1>6 DEF r, s, ByPublic, BySessions, ByPairing, ByMessages, ByReads

LEMMA GroupLands == \A t : \A i \in 1 .. 16 : Mirrors(t, groupRoutes[i]) => Lands(t)
<1> DEFINE s == groupRoutes
<1> HIDE DEF s
<1>a. \A k \in 1 .. 16 : Apt(s[k])
  <2>1. \A k : k \in 1 .. 16 => k \in {1, 2, 3, 4, 5, 6, 7, 8, 9, 10, 11, 12, 13, 14, 15, 16}
    OBVIOUS
  <2>2. /\ Apt(s[1]) /\ Apt(s[2]) /\ Apt(s[3]) /\ Apt(s[4]) /\ Apt(s[5])
        /\ Apt(s[6]) /\ Apt(s[7]) /\ Apt(s[8]) /\ Apt(s[9]) /\ Apt(s[10])
        /\ Apt(s[11]) /\ Apt(s[12]) /\ Apt(s[13]) /\ Apt(s[14]) /\ Apt(s[15])
        /\ Apt(s[16])
    BY GroupList DEF s, Apt, Middlewares, Route3, Route4, Route5, Route6, Path3, Path4, Path5, Path6
  <2> QED BY <2>1, <2>2
<1> SUFFICES ASSUME NEW t, NEW i \in 1 .. 16, Mirrors(t, groupRoutes[i]), NEW p, NEW args,
                    Renders(t, p, args)
             PROVE  ByPublic(groupRoutes[i], t.method, p)
  BY <1>a, LandsBy DEF s
<1> DEFINE r == s[i]
           Form(u) == /\ u.pattern[1] = "api" /\ u.pattern[2] = ":session"
                      /\ u.pattern[3] = "groups"
                        /\ Len(u.pattern) \in 3 .. 6 /\ (Len(u.pattern) = 3 => u.method # "GET")
<1>1. Form(r)
  <2>1. i \in {1, 2, 3, 4, 5, 6, 7, 8, 9, 10, 11, 12, 13, 14, 15, 16} OBVIOUS
  <2>2. /\ Form(s[1])
        /\ Form(s[2])
        /\ Form(s[3])
        /\ Form(s[4])
        /\ Form(s[5])
        /\ Form(s[6])
        /\ Form(s[7])
        /\ Form(s[8])
        /\ Form(s[9])
        /\ Form(s[10])
        /\ Form(s[11])
        /\ Form(s[12])
        /\ Form(s[13])
        /\ Form(s[14])
        /\ Form(s[15])
        /\ Form(s[16])
    BY GroupList DEF s, Route3, Route4, Route5, Route6, Path3, Path4, Path5, Path6
  <2> QED BY <2>1, <2>2
<1>m. Mirrors(t, r) BY DEF s
<1> HIDE DEF r
<1>2. /\ Ends(p) /\ Fits(r, t.method, p)
      /\ Fills(p, r.pattern) /\ t.method = r.method /\ Len(r.pattern) \in Nat
  BY <1>m, MirrorFits DEF Mirrors
<1>3. /\ Folded(p[1]) = "api" /\ Folded(p[2]) # "sessions" /\ Folded(p[3]) = "groups" /\ Len(p) \in 3 .. 6
      /\ Len(p) = 3 => t.method # "GET"
  <2>1. /\ ":session" \in Params /\ ":id" \in Params /\ "api" \notin Params
        /\ "sessions" \notin Params /\ "groups" \notin Params /\ "webhooks" \notin Params
        /\ "keys" \notin Params
    BY DEF Params
  <2>2. 1 \in 1 .. Len(r.pattern) /\ 2 \in 1 .. Len(r.pattern) /\ 3 \in 1 .. Len(r.pattern)
    BY <1>1, <1>2
  <2> QED BY <1>1, <1>2, <2>1, <2>2 DEF Fills
<1>4. Takes(groupRoutes, r, t.method, p) BY <1>2, GroupFits DEF r, s
<1>5. /\ Folded(p[1]) = "api" /\ (t.method # "POST" \/ Len(p) # 2 \/ Folded(p[2]) # "login")
      /\ Folded(p[2]) # "sessions"
      /\ Len(p) # 4 \/ Folded(p[3]) # "auth"
      /\ Len(p) # 2 \/ Folded(p[2]) = "keys"
      /\ t.method # "GET" \/ Len(p) # 3 \/ Folded(p[3]) = "webhooks"
  BY <1>3
<1>6. /\ Passes(publicRoutes, t.method, p)
      /\ Passes(sessionRoutes, t.method, p)
      /\ Passes(pairingRoutes, t.method, p)
      /\ Passes(messageRoutes, t.method, p)
      /\ Passes(readRoutes, t.method, p)
  <2>1. Passes(publicRoutes, t.method, p) BY <1>2, <1>5, PublicFits
  <2>2. Passes(sessionRoutes, t.method, p) BY <1>2, <1>5, SessionFits
  <2>3. Passes(pairingRoutes, t.method, p) BY <1>2, <1>5, PairingFits
  <2>4. Passes(messageRoutes, t.method, p) BY <1>2, <1>5, MessageFits
  <2>5. Passes(readRoutes, t.method, p) BY <1>2, <1>5, ReadFits
  <2> QED BY <2>1, <2>2, <2>3, <2>4, <2>5
<1> QED BY <1>4, <1>6 DEF r, s, ByPublic, BySessions, ByPairing, ByMessages, ByReads, ByGroups

LEMMA WebhookLands == \A t : \A i \in 1 .. 3 : Mirrors(t, webhookRoutes[i]) => Lands(t)
<1> DEFINE s == webhookRoutes
<1> HIDE DEF s
<1>a. \A k \in 1 .. 3 : Apt(s[k])
  <2>1. \A k : k \in 1 .. 3 => k \in {1, 2, 3} OBVIOUS
  <2>2. /\ Apt(s[1]) /\ Apt(s[2]) /\ Apt(s[3])
    BY WebhookList DEF s, Apt, Middlewares, Route3, Path3
  <2> QED BY <2>1, <2>2
<1> SUFFICES ASSUME NEW t, NEW i \in 1 .. 3, Mirrors(t, webhookRoutes[i]), NEW p, NEW args,
                    Renders(t, p, args)
             PROVE  ByPublic(webhookRoutes[i], t.method, p)
  BY <1>a, LandsBy DEF s
<1> DEFINE r == s[i]
           Form(u) == /\ u.pattern[1] = "api" /\ Len(u.pattern) = 3
                        /\ \/ u.pattern[2] = ":session" /\ u.pattern[3] = "webhooks"
                           \/ /\ u.pattern[2] = "webhooks" /\ u.pattern[3] = ":id"
                              /\ u.method = "DELETE"
<1>1. Form(r)
  <2>1. i \in {1, 2, 3} OBVIOUS
  <2>2. /\ Form(s[1])
        /\ Form(s[2])
        /\ Form(s[3])
    BY WebhookList DEF s, Route3, Path3
  <2> QED BY <2>1, <2>2
<1>m. Mirrors(t, r) BY DEF s
<1> HIDE DEF r
<1>2. /\ Ends(p) /\ Fits(r, t.method, p)
      /\ Fills(p, r.pattern) /\ t.method = r.method /\ Len(r.pattern) \in Nat
  BY <1>m, MirrorFits DEF Mirrors
<1>3. /\ Folded(p[1]) = "api" /\ Folded(p[2]) # "sessions" /\ Len(p) = 3
      /\ Folded(p[3]) = "webhooks" \/ t.method = "DELETE"
  <2>1. /\ ":session" \in Params /\ ":id" \in Params /\ "api" \notin Params
        /\ "sessions" \notin Params /\ "groups" \notin Params /\ "webhooks" \notin Params
        /\ "keys" \notin Params
    BY DEF Params
  <2>2. 1 \in 1 .. Len(r.pattern) /\ 2 \in 1 .. Len(r.pattern) /\ 3 \in 1 .. Len(r.pattern)
    BY <1>1, <1>2
  <2> QED BY <1>1, <1>2, <2>1, <2>2 DEF Fills
<1>4. Takes(webhookRoutes, r, t.method, p) BY <1>2, WebhookFits DEF r, s
<1>5. /\ Folded(p[1]) = "api" /\ (t.method # "POST" \/ Len(p) # 2 \/ Folded(p[2]) # "login")
      /\ Folded(p[2]) # "sessions"
      /\ Len(p) # 4 \/ Folded(p[3]) # "auth"
      /\ Len(p) # 2 \/ Folded(p[2]) = "keys"
      /\ t.method # "GET" \/ Len(p) # 3 \/ Folded(p[3]) = "webhooks"
      /\ Len(p) = 2 \/ (Len(p) = 3 /\ t.method # "POST") \/ Folded(p[3]) # "groups"
  BY <1>3
<1>6. /\ Passes(publicRoutes, t.method, p)
      /\ Passes(sessionRoutes, t.method, p)
      /\ Passes(pairingRoutes, t.method, p)
      /\ Passes(messageRoutes, t.method, p)
      /\ Passes(readRoutes, t.method, p)
      /\ Passes(groupRoutes, t.method, p)
  <2>1. Passes(publicRoutes, t.method, p) BY <1>2, <1>5, PublicFits
  <2>2. Passes(sessionRoutes, t.method, p) BY <1>2, <1>5, SessionFits
  <2>3. Passes(pairingRoutes, t.method, p) BY <1>2, <1>5, PairingFits
  <2>4. Passes(messageRoutes, t.method, p) BY <1>2, <1>5, MessageFits
  <2>5. Passes(readRoutes, t.method, p) BY <1>2, <1>5, ReadFits
  <2>6. Passes(groupRoutes, t.method, p) BY <1>2, <1>5, GroupFits
  <2> QED BY <2>1, <2>2, <2>3, <2>4, <2>5, <2>6
<1> QED BY <1>4, <1>6 DEF r, s, ByPublic, BySessions, ByPairing, ByMessages, ByReads, ByGroups,
        ByWebhooks

LEMMA KeyLands == \A t : \A i \in 1 .. 3 : Mirrors(t, keyRoutes[i]) => Lands(t)
<1> DEFINE s == keyRoutes
<1> HIDE DEF s
<1>a. \A k \in 1 .. 3 : Apt(s[k])
  <2>1. \A k : k \in 1 .. 3 => k \in {1, 2, 3} OBVIOUS
  <2>2. /\ Apt(s[1]) /\ Apt(s[2]) /\ Apt(s[3])
    BY KeyList DEF s, Apt, Middlewares, Route2, Route3, Path2, Path3
  <2> QED BY <2>1, <2>2
<1> SUFFICES ASSUME NEW t, NEW i \in 1 .. 3, Mirrors(t, keyRoutes[i]), NEW p, NEW args,
                    Renders(t, p, args)
             PROVE  ByPublic(keyRoutes[i], t.method, p)
  BY <1>a, LandsBy DEF s
<1> DEFINE r == s[i]
           Form(u) == /\ u.pattern[1] = "api" /\ u.pattern[2] = "keys"
                        /\ \/ Len(u.pattern) = 2
                           \/ Len(u.pattern) = 3 /\ u.method = "DELETE"
<1>1. Form(r)
  <2>1. i \in {1, 2, 3} OBVIOUS
  <2>2. /\ Form(s[1])
        /\ Form(s[2])
        /\ Form(s[3])
    BY KeyList DEF s, Route2, Route3, Path2, Path3
  <2> QED BY <2>1, <2>2
<1>m. Mirrors(t, r) BY DEF s
<1> HIDE DEF r
<1>2. /\ Ends(p) /\ Fits(r, t.method, p)
      /\ Fills(p, r.pattern) /\ t.method = r.method /\ Len(r.pattern) \in Nat
  BY <1>m, MirrorFits DEF Mirrors
<1>3. /\ Folded(p[1]) = "api" /\ Folded(p[2]) = "keys"
      /\ Len(p) = 2 \/ (Len(p) = 3 /\ t.method = "DELETE")
  <2>1. /\ ":session" \in Params /\ ":id" \in Params /\ "api" \notin Params
        /\ "sessions" \notin Params /\ "groups" \notin Params /\ "webhooks" \notin Params
        /\ "keys" \notin Params
    BY DEF Params
  <2>2. 1 \in 1 .. Len(r.pattern) /\ 2 \in 1 .. Len(r.pattern) BY <1>1, <1>2
  <2> QED BY <1>1, <1>2, <2>1, <2>2 DEF Fills
<1>4. Takes(keyRoutes, r, t.method, p) BY <1>2, KeyFits DEF r, s
<1>5. /\ Folded(p[1]) = "api" /\ (t.method # "POST" \/ Len(p) # 2 \/ Folded(p[2]) # "login")
      /\ Folded(p[2]) # "sessions"
      /\ Len(p) # 4 \/ Folded(p[3]) # "auth"
      /\ Len(p) # 2 \/ Folded(p[2]) = "keys"
      /\ t.method # "GET" \/ Len(p) # 3 \/ Folded(p[3]) = "webhooks"
      /\ Len(p) = 2 \/ (Len(p) = 3 /\ t.method # "POST") \/ Folded(p[3]) # "groups"
      /\ Len(p) # 3 \/ (t.method = "DELETE" /\ Folded(p[2]) # "webhooks")
  BY <1>3
<1>6. /\ Passes(publicRoutes, t.method, p)
      /\ Passes(sessionRoutes, t.method, p)
      /\ Passes(pairingRoutes, t.method, p)
      /\ Passes(messageRoutes, t.method, p)
      /\ Passes(readRoutes, t.method, p)
      /\ Passes(groupRoutes, t.method, p)
      /\ Passes(webhookRoutes, t.method, p)
  <2>1. Passes(publicRoutes, t.method, p) BY <1>2, <1>5, PublicFits
  <2>2. Passes(sessionRoutes, t.method, p) BY <1>2, <1>5, SessionFits
  <2>3. Passes(pairingRoutes, t.method, p) BY <1>2, <1>5, PairingFits
  <2>4. Passes(messageRoutes, t.method, p) BY <1>2, <1>5, MessageFits
  <2>5. Passes(readRoutes, t.method, p) BY <1>2, <1>5, ReadFits
  <2>6. Passes(groupRoutes, t.method, p) BY <1>2, <1>5, GroupFits
  <2>7. Passes(webhookRoutes, t.method, p) BY <1>2, <1>5, WebhookFits
  <2> QED BY <2>1, <2>2, <2>3, <2>4, <2>5, <2>6, <2>7
<1> QED BY <1>4, <1>6 DEF r, s, ByPublic, BySessions, ByPairing, ByMessages, ByReads, ByGroups,
        ByWebhooks, ByKeys

LEMMA PublicServed == \A t :
  /\ Asks1(t, "GET", "docs", "openapi.yaml") => Lands(t)
<1> TAKE t
<1>1. ASSUME Asks1(t, "GET", "docs", "openapi.yaml") PROVE Lands(t)
  <2>1. Route1(publicRoutes[3], "GET", "docs", "openapi.yaml")
    BY PublicList
  <2>2. Alike1("openapi.yaml",
               "openapi.yaml")
    BY Likes DEF Alike1
  <2>3. Mirrors(t, publicRoutes[3]) BY <1>1, <2>1, <2>2, Mirrors1
  <2> QED BY <2>3, PublicLands
<1> QED BY <1>1

LEMMA SessionServed == \A t :
  /\ Asks2(t, "GET", "listSessions", "api", "sessions") => Lands(t)
  /\ Asks2(t, "POST", "createSession", "api", "sessions") => Lands(t)
  /\ Asks3(t, "GET", "getSession", "api", "sessions", "{session}") => Lands(t)
  /\ Asks3(t, "DELETE", "deleteSession", "api", "sessions", "{session}") => Lands(t)
  /\ Asks4(t, "POST", "startSession", "api", "sessions", "{session}", "start") => Lands(t)
  /\ Asks4(t, "POST", "stopSession", "api", "sessions", "{session}", "stop") => Lands(t)
  /\ Asks4(t, "POST", "logoutSession", "api", "sessions", "{session}", "logout") => Lands(t)
<1> TAKE t
<1>1. ASSUME Asks2(t, "GET", "listSessions", "api", "sessions") PROVE Lands(t)
  <2>1. Route2(sessionRoutes[1], "GET", "listSessions", "api", "sessions")
    BY SessionList
  <2>2. Alike2("api", "sessions",
               "api", "sessions")
    BY Likes DEF Alike2
  <2>3. Mirrors(t, sessionRoutes[1]) BY <1>1, <2>1, <2>2, Mirrors2
  <2> QED BY <2>3, SessionLands
<1>2. ASSUME Asks2(t, "POST", "createSession", "api", "sessions") PROVE Lands(t)
  <2>1. Route2(sessionRoutes[2], "POST", "createSession", "api", "sessions")
    BY SessionList
  <2>2. Alike2("api", "sessions",
               "api", "sessions")
    BY Likes DEF Alike2
  <2>3. Mirrors(t, sessionRoutes[2]) BY <1>2, <2>1, <2>2, Mirrors2
  <2> QED BY <2>3, SessionLands
<1>3. ASSUME Asks3(t, "GET", "getSession", "api", "sessions", "{session}") PROVE Lands(t)
  <2>1. Route3(sessionRoutes[3], "GET", "getSession", "api", "sessions", ":name")
    BY SessionList
  <2>2. Alike3("api", "sessions", ":name",
               "api", "sessions", "{session}")
    BY Likes DEF Alike3
  <2>3. Mirrors(t, sessionRoutes[3]) BY <1>3, <2>1, <2>2, Mirrors3
  <2> QED BY <2>3, SessionLands
<1>4. ASSUME Asks3(t, "DELETE", "deleteSession", "api", "sessions", "{session}") PROVE Lands(t)
  <2>1. Route3(sessionRoutes[4], "DELETE", "deleteSession", "api", "sessions", ":name")
    BY SessionList
  <2>2. Alike3("api", "sessions", ":name",
               "api", "sessions", "{session}")
    BY Likes DEF Alike3
  <2>3. Mirrors(t, sessionRoutes[4]) BY <1>4, <2>1, <2>2, Mirrors3
  <2> QED BY <2>3, SessionLands
<1>5. ASSUME Asks4(t, "POST", "startSession", "api", "sessions", "{session}", "start")
      PROVE  Lands(t)
  <2>1. Route4(sessionRoutes[5], "POST", "startSession", "api", "sessions", ":name", "start")
    BY SessionList
  <2>2. Alike4("api", "sessions", ":name", "start",
               "api", "sessions", "{session}", "start")
    BY Likes DEF Alike4
  <2>3. Mirrors(t, sessionRoutes[5]) BY <1>5, <2>1, <2>2, Mirrors4
  <2> QED BY <2>3, SessionLands
<1>6. ASSUME Asks4(t, "POST", "stopSession", "api", "sessions", "{session}", "stop")
      PROVE  Lands(t)
  <2>1. Route4(sessionRoutes[6], "POST", "stopSession", "api", "sessions", ":name", "stop")
    BY SessionList
  <2>2. Alike4("api", "sessions", ":name", "stop",
               "api", "sessions", "{session}", "stop")
    BY Likes DEF Alike4
  <2>3. Mirrors(t, sessionRoutes[6]) BY <1>6, <2>1, <2>2, Mirrors4
  <2> QED BY <2>3, SessionLands
<1>7. ASSUME Asks4(t, "POST", "logoutSession", "api", "sessions", "{session}", "logout")
      PROVE  Lands(t)
  <2>1. Route4(sessionRoutes[7], "POST", "logoutSession", "api", "sessions", ":name", "logout")
    BY SessionList
  <2>2. Alike4("api", "sessions", ":name", "logout",
               "api", "sessions", "{session}", "logout")
    BY Likes DEF Alike4
  <2>3. Mirrors(t, sessionRoutes[7]) BY <1>7, <2>1, <2>2, Mirrors4
  <2> QED BY <2>3, SessionLands
<1> QED BY <1>1, <1>2, <1>3, <1>4, <1>5, <1>6, <1>7

LEMMA PairingServed == \A t :
  /\ Asks4(t, "GET", "getQR", "api", "{session}", "auth", "qr") => Lands(t)
  /\ Asks4(t, "POST", "requestPairCode", "api", "{session}", "auth", "request-code") => Lands(t)
<1> TAKE t
<1>1. ASSUME Asks4(t, "GET", "getQR", "api", "{session}", "auth", "qr") PROVE Lands(t)
  <2>1. Route4(pairingRoutes[1], "GET", "getQR", "api", ":session", "auth", "qr")
    BY PairingList
  <2>2. Alike4("api", ":session", "auth", "qr",
               "api", "{session}", "auth", "qr")
    BY Likes DEF Alike4
  <2>3. Mirrors(t, pairingRoutes[1]) BY <1>1, <2>1, <2>2, Mirrors4
  <2> QED BY <2>3, PairingLands
<1>2. ASSUME Asks4(t, "POST", "requestPairCode", "api", "{session}", "auth", "request-code")
      PROVE  Lands(t)
  <2>1. Route4(pairingRoutes[3], "POST", "requestPairCode", "api", ":session", "auth",
          "request-code")
    BY PairingList
  <2>2. Alike4("api", ":session", "auth", "request-code",
               "api", "{session}", "auth", "request-code")
    BY Likes DEF Alike4
  <2>3. Mirrors(t, pairingRoutes[3]) BY <1>2, <2>1, <2>2, Mirrors4
  <2> QED BY <2>3, PairingLands
<1> QED BY <1>1, <1>2

LEMMA MessageServed == \A t :
  /\ Asks2(t, "POST", "sendText", "api", "sendText") => Lands(t)
  /\ Asks2(t, "POST", "sendImage", "api", "sendImage") => Lands(t)
  /\ Asks2(t, "POST", "sendFile", "api", "sendFile") => Lands(t)
  /\ Asks2(t, "POST", "sendVoice", "api", "sendVoice") => Lands(t)
  /\ Asks2(t, "POST", "sendVideo", "api", "sendVideo") => Lands(t)
  /\ Asks2(t, "POST", "sendLocation", "api", "sendLocation") => Lands(t)
  /\ Asks2(t, "POST", "sendContact", "api", "sendContact") => Lands(t)
  /\ Asks2(t, "POST", "sendSeen", "api", "sendSeen") => Lands(t)
  /\ Asks2(t, "POST", "startTyping", "api", "startTyping") => Lands(t)
  /\ Asks2(t, "POST", "stopTyping", "api", "stopTyping") => Lands(t)
<1> TAKE t
<1>1. ASSUME Asks2(t, "POST", "sendText", "api", "sendText") PROVE Lands(t)
  <2>1. Route2(messageRoutes[1], "POST", "sendText", "api", "sendText")
    BY MessageList
  <2>2. Alike2("api", "sendText",
               "api", "sendText")
    BY Likes DEF Alike2
  <2>3. Mirrors(t, messageRoutes[1]) BY <1>1, <2>1, <2>2, Mirrors2
  <2> QED BY <2>3, MessageLands
<1>2. ASSUME Asks2(t, "POST", "sendImage", "api", "sendImage") PROVE Lands(t)
  <2>1. Route2(messageRoutes[2], "POST", "sendImage", "api", "sendImage")
    BY MessageList
  <2>2. Alike2("api", "sendImage",
               "api", "sendImage")
    BY Likes DEF Alike2
  <2>3. Mirrors(t, messageRoutes[2]) BY <1>2, <2>1, <2>2, Mirrors2
  <2> QED BY <2>3, MessageLands
<1>3. ASSUME Asks2(t, "POST", "sendFile", "api", "sendFile") PROVE Lands(t)
  <2>1. Route2(messageRoutes[3], "POST", "sendFile", "api", "sendFile")
    BY MessageList
  <2>2. Alike2("api", "sendFile",
               "api", "sendFile")
    BY Likes DEF Alike2
  <2>3. Mirrors(t, messageRoutes[3]) BY <1>3, <2>1, <2>2, Mirrors2
  <2> QED BY <2>3, MessageLands
<1>4. ASSUME Asks2(t, "POST", "sendVoice", "api", "sendVoice") PROVE Lands(t)
  <2>1. Route2(messageRoutes[4], "POST", "sendVoice", "api", "sendVoice")
    BY MessageList
  <2>2. Alike2("api", "sendVoice",
               "api", "sendVoice")
    BY Likes DEF Alike2
  <2>3. Mirrors(t, messageRoutes[4]) BY <1>4, <2>1, <2>2, Mirrors2
  <2> QED BY <2>3, MessageLands
<1>5. ASSUME Asks2(t, "POST", "sendVideo", "api", "sendVideo") PROVE Lands(t)
  <2>1. Route2(messageRoutes[5], "POST", "sendVideo", "api", "sendVideo")
    BY MessageList
  <2>2. Alike2("api", "sendVideo",
               "api", "sendVideo")
    BY Likes DEF Alike2
  <2>3. Mirrors(t, messageRoutes[5]) BY <1>5, <2>1, <2>2, Mirrors2
  <2> QED BY <2>3, MessageLands
<1>6. ASSUME Asks2(t, "POST", "sendLocation", "api", "sendLocation") PROVE Lands(t)
  <2>1. Route2(messageRoutes[6], "POST", "sendLocation", "api", "sendLocation")
    BY MessageList
  <2>2. Alike2("api", "sendLocation",
               "api", "sendLocation")
    BY Likes DEF Alike2
  <2>3. Mirrors(t, messageRoutes[6]) BY <1>6, <2>1, <2>2, Mirrors2
  <2> QED BY <2>3, MessageLands
<1>7. ASSUME Asks2(t, "POST", "sendContact", "api", "sendContact") PROVE Lands(t)
  <2>1. Route2(messageRoutes[7], "POST", "sendContact", "api", "sendContact")
    BY MessageList
  <2>2. Alike2("api", "sendContact",
               "api", "sendContact")
    BY Likes DEF Alike2
  <2>3. Mirrors(t, messageRoutes[7]) BY <1>7, <2>1, <2>2, Mirrors2
  <2> QED BY <2>3, MessageLands
<1>8. ASSUME Asks2(t, "POST", "sendSeen", "api", "sendSeen") PROVE Lands(t)
  <2>1. Route2(messageRoutes[8], "POST", "sendSeen", "api", "sendSeen")
    BY MessageList
  <2>2. Alike2("api", "sendSeen",
               "api", "sendSeen")
    BY Likes DEF Alike2
  <2>3. Mirrors(t, messageRoutes[8]) BY <1>8, <2>1, <2>2, Mirrors2
  <2> QED BY <2>3, MessageLands
<1>9. ASSUME Asks2(t, "POST", "startTyping", "api", "startTyping") PROVE Lands(t)
  <2>1. Route2(messageRoutes[9], "POST", "startTyping", "api", "startTyping")
    BY MessageList
  <2>2. Alike2("api", "startTyping",
               "api", "startTyping")
    BY Likes DEF Alike2
  <2>3. Mirrors(t, messageRoutes[9]) BY <1>9, <2>1, <2>2, Mirrors2
  <2> QED BY <2>3, MessageLands
<1>10. ASSUME Asks2(t, "POST", "stopTyping", "api", "stopTyping") PROVE Lands(t)
  <2>1. Route2(messageRoutes[10], "POST", "stopTyping", "api", "stopTyping")
    BY MessageList
  <2>2. Alike2("api", "stopTyping",
               "api", "stopTyping")
    BY Likes DEF Alike2
  <2>3. Mirrors(t, messageRoutes[10]) BY <1>10, <2>1, <2>2, Mirrors2
  <2> QED BY <2>3, MessageLands
<1> QED BY <1>1, <1>2, <1>3, <1>4, <1>5, <1>6, <1>7, <1>8, <1>9, <1>10

LEMMA ReadServed == \A t :
  /\ Asks3(t, "GET", "getMe", "api", "{session}", "me") => Lands(t)
  /\ Asks3(t, "GET", "getContacts", "api", "{session}", "contacts") => Lands(t)
  /\ Asks3(t, "GET", "getChats", "api", "{session}", "chats") => Lands(t)
  /\ Asks3(t, "GET", "getGroups", "api", "{session}", "groups") => Lands(t)
<1> TAKE t
<1>1. ASSUME Asks3(t, "GET", "getMe", "api", "{session}", "me") PROVE Lands(t)
  <2>1. Route3(readRoutes[1], "GET", "getMe", "api", ":session", "me")
    BY ReadList
  <2>2. Alike3("api", ":session", "me",
               "api", "{session}", "me")
    BY Likes DEF Alike3
  <2>3. Mirrors(t, readRoutes[1]) BY <1>1, <2>1, <2>2, Mirrors3
  <2> QED BY <2>3, ReadLands
<1>2. ASSUME Asks3(t, "GET", "getContacts", "api", "{session}", "contacts") PROVE Lands(t)
  <2>1. Route3(readRoutes[2], "GET", "getContacts", "api", ":session", "contacts")
    BY ReadList
  <2>2. Alike3("api", ":session", "contacts",
               "api", "{session}", "contacts")
    BY Likes DEF Alike3
  <2>3. Mirrors(t, readRoutes[2]) BY <1>2, <2>1, <2>2, Mirrors3
  <2> QED BY <2>3, ReadLands
<1>3. ASSUME Asks3(t, "GET", "getChats", "api", "{session}", "chats") PROVE Lands(t)
  <2>1. Route3(readRoutes[3], "GET", "getChats", "api", ":session", "chats")
    BY ReadList
  <2>2. Alike3("api", ":session", "chats",
               "api", "{session}", "chats")
    BY Likes DEF Alike3
  <2>3. Mirrors(t, readRoutes[3]) BY <1>3, <2>1, <2>2, Mirrors3
  <2> QED BY <2>3, ReadLands
<1>4. ASSUME Asks3(t, "GET", "getGroups", "api", "{session}", "groups") PROVE Lands(t)
  <2>1. Route3(readRoutes[4], "GET", "getGroups", "api", ":session", "groups")
    BY ReadList
  <2>2. Alike3("api", ":session", "groups",
               "api", "{session}", "groups")
    BY Likes DEF Alike3
  <2>3. Mirrors(t, readRoutes[4]) BY <1>4, <2>1, <2>2, Mirrors3
  <2> QED BY <2>3, ReadLands
<1> QED BY <1>1, <1>2, <1>3, <1>4

LEMMA GroupServed == \A t :
  /\ Asks3(t, "POST", "createGroup", "api", "{session}", "groups") => Lands(t)
  /\ Asks4(t, "POST", "joinGroup", "api", "{session}", "groups", "join") => Lands(t)
  /\ Asks4(t, "GET", "getGroupInfo", "api", "{session}", "groups", "{gid}") => Lands(t)
  /\ Asks5(t, "POST", "leaveGroup", "api", "{session}", "groups", "{gid}", "leave") => Lands(t)
  /\ Asks6(t, "POST", "addParticipants", "api", "{session}", "groups", "{gid}", "participants",
          "add")
       => Lands(t)
  /\ Asks6(t, "POST", "removeParticipants", "api", "{session}", "groups", "{gid}",
          "participants", "remove")
       => Lands(t)
  /\ Asks6(t, "POST", "promoteParticipants", "api", "{session}", "groups", "{gid}",
          "participants", "promote")
       => Lands(t)
  /\ Asks6(t, "POST", "demoteParticipants", "api", "{session}", "groups", "{gid}",
          "participants", "demote")
       => Lands(t)
  /\ Asks5(t, "PUT", "setGroupName", "api", "{session}", "groups", "{gid}", "name") => Lands(t)
  /\ Asks5(t, "PUT", "setGroupTopic", "api", "{session}", "groups", "{gid}", "topic") => Lands(t)
  /\ Asks5(t, "PUT", "setGroupLocked", "api", "{session}", "groups", "{gid}", "locked")
       => Lands(t)
  /\ Asks5(t, "PUT", "setGroupAnnounce", "api", "{session}", "groups", "{gid}", "announce")
       => Lands(t)
  /\ Asks5(t, "PUT", "setGroupPhoto", "api", "{session}", "groups", "{gid}", "photo") => Lands(t)
  /\ Asks5(t, "PUT", "setGroupDisappearing", "api", "{session}", "groups", "{gid}", "disappearing")
       => Lands(t)
  /\ Asks5(t, "GET", "getInviteLink", "api", "{session}", "groups", "{gid}", "invite-link")
       => Lands(t)
  /\ Asks6(t, "POST", "revokeInviteLink", "api", "{session}", "groups", "{gid}", "invite-link",
          "revoke")
       => Lands(t)
<1> TAKE t
<1>1. ASSUME Asks3(t, "POST", "createGroup", "api", "{session}", "groups") PROVE Lands(t)
  <2>1. Route3(groupRoutes[1], "POST", "createGroup", "api", ":session", "groups")
    BY GroupList
  <2>2. Alike3("api", ":session", "groups",
               "api", "{session}", "groups")
    BY Likes DEF Alike3
  <2>3. Mirrors(t, groupRoutes[1]) BY <1>1, <2>1, <2>2, Mirrors3
  <2> QED BY <2>3, GroupLands
<1>2. ASSUME Asks4(t, "POST", "joinGroup", "api", "{session}", "groups", "join") PROVE Lands(t)
  <2>1. Route4(groupRoutes[2], "POST", "joinGroup", "api", ":session", "groups", "join")
    BY GroupList
  <2>2. Alike4("api", ":session", "groups", "join",
               "api", "{session}", "groups", "join")
    BY Likes DEF Alike4
  <2>3. Mirrors(t, groupRoutes[2]) BY <1>2, <2>1, <2>2, Mirrors4
  <2> QED BY <2>3, GroupLands
<1>3. ASSUME Asks4(t, "GET", "getGroupInfo", "api", "{session}", "groups", "{gid}") PROVE Lands(t)
  <2>1. Route4(groupRoutes[3], "GET", "getGroupInfo", "api", ":session", "groups", ":gid")
    BY GroupList
  <2>2. Alike4("api", ":session", "groups", ":gid",
               "api", "{session}", "groups", "{gid}")
    BY Likes DEF Alike4
  <2>3. Mirrors(t, groupRoutes[3]) BY <1>3, <2>1, <2>2, Mirrors4
  <2> QED BY <2>3, GroupLands
<1>4. ASSUME Asks5(t, "POST", "leaveGroup", "api", "{session}", "groups", "{gid}", "leave")
      PROVE  Lands(t)
  <2>1. Route5(groupRoutes[4], "POST", "leaveGroup", "api", ":session", "groups", ":gid", "leave")
    BY GroupList
  <2>2. Alike5("api", ":session", "groups", ":gid", "leave",
               "api", "{session}", "groups", "{gid}", "leave")
    BY Likes DEF Alike5
  <2>3. Mirrors(t, groupRoutes[4]) BY <1>4, <2>1, <2>2, Mirrors5
  <2> QED BY <2>3, GroupLands
<1>5. ASSUME Asks6(t, "POST", "addParticipants", "api", "{session}", "groups", "{gid}",
        "participants", "add")
      PROVE  Lands(t)
  <2>1. Route6(groupRoutes[5], "POST", "addParticipants", "api", ":session", "groups", ":gid",
          "participants", "add")
    BY GroupList
  <2>2. Alike6("api", ":session", "groups", ":gid", "participants", "add",
               "api", "{session}", "groups", "{gid}", "participants", "add")
    BY Likes DEF Alike6
  <2>3. Mirrors(t, groupRoutes[5]) BY <1>5, <2>1, <2>2, Mirrors6
  <2> QED BY <2>3, GroupLands
<1>6. ASSUME Asks6(t, "POST", "removeParticipants", "api", "{session}", "groups", "{gid}",
        "participants", "remove")
      PROVE  Lands(t)
  <2>1. Route6(groupRoutes[6], "POST", "removeParticipants", "api", ":session", "groups",
          ":gid", "participants", "remove")
    BY GroupList
  <2>2. Alike6("api", ":session", "groups", ":gid", "participants", "remove",
               "api", "{session}", "groups", "{gid}", "participants", "remove")
    BY Likes DEF Alike6
  <2>3. Mirrors(t, groupRoutes[6]) BY <1>6, <2>1, <2>2, Mirrors6
  <2> QED BY <2>3, GroupLands
<1>7. ASSUME Asks6(t, "POST", "promoteParticipants", "api", "{session}", "groups", "{gid}",
        "participants", "promote")
      PROVE  Lands(t)
  <2>1. Route6(groupRoutes[7], "POST", "promoteParticipants", "api", ":session", "groups",
          ":gid", "participants", "promote")
    BY GroupList
  <2>2. Alike6("api", ":session", "groups", ":gid", "participants", "promote",
               "api", "{session}", "groups", "{gid}", "participants", "promote")
    BY Likes DEF Alike6
  <2>3. Mirrors(t, groupRoutes[7]) BY <1>7, <2>1, <2>2, Mirrors6
  <2> QED BY <2>3, GroupLands
<1>8. ASSUME Asks6(t, "POST", "demoteParticipants", "api", "{session}", "groups", "{gid}",
        "participants", "demote")
      PROVE  Lands(t)
  <2>1. Route6(groupRoutes[8], "POST", "demoteParticipants", "api", ":session", "groups",
          ":gid", "participants", "demote")
    BY GroupList
  <2>2. Alike6("api", ":session", "groups", ":gid", "participants", "demote",
               "api", "{session}", "groups", "{gid}", "participants", "demote")
    BY Likes DEF Alike6
  <2>3. Mirrors(t, groupRoutes[8]) BY <1>8, <2>1, <2>2, Mirrors6
  <2> QED BY <2>3, GroupLands
<1>9. ASSUME Asks5(t, "PUT", "setGroupName", "api", "{session}", "groups", "{gid}", "name")
      PROVE  Lands(t)
  <2>1. Route5(groupRoutes[9], "PUT", "setGroupName", "api", ":session", "groups", ":gid", "name")
    BY GroupList
  <2>2. Alike5("api", ":session", "groups", ":gid", "name",
               "api", "{session}", "groups", "{gid}", "name")
    BY Likes DEF Alike5
  <2>3. Mirrors(t, groupRoutes[9]) BY <1>9, <2>1, <2>2, Mirrors5
  <2> QED BY <2>3, GroupLands
<1>10. ASSUME Asks5(t, "PUT", "setGroupTopic", "api", "{session}", "groups", "{gid}", "topic")
      PROVE  Lands(t)
  <2>1. Route5(groupRoutes[10], "PUT", "setGroupTopic", "api", ":session", "groups", ":gid",
          "topic")
    BY GroupList
  <2>2. Alike5("api", ":session", "groups", ":gid", "topic",
               "api", "{session}", "groups", "{gid}", "topic")
    BY Likes DEF Alike5
  <2>3. Mirrors(t, groupRoutes[10]) BY <1>10, <2>1, <2>2, Mirrors5
  <2> QED BY <2>3, GroupLands
<1>11. ASSUME Asks5(t, "PUT", "setGroupLocked", "api", "{session}", "groups", "{gid}", "locked")
      PROVE  Lands(t)
  <2>1. Route5(groupRoutes[11], "PUT", "setGroupLocked", "api", ":session", "groups", ":gid",
          "locked")
    BY GroupList
  <2>2. Alike5("api", ":session", "groups", ":gid", "locked",
               "api", "{session}", "groups", "{gid}", "locked")
    BY Likes DEF Alike5
  <2>3. Mirrors(t, groupRoutes[11]) BY <1>11, <2>1, <2>2, Mirrors5
  <2> QED BY <2>3, GroupLands
<1>12. ASSUME Asks5(t, "PUT", "setGroupAnnounce", "api", "{session}", "groups", "{gid}", "announce")
      PROVE  Lands(t)
  <2>1. Route5(groupRoutes[12], "PUT", "setGroupAnnounce", "api", ":session", "groups", ":gid",
          "announce")
    BY GroupList
  <2>2. Alike5("api", ":session", "groups", ":gid", "announce",
               "api", "{session}", "groups", "{gid}", "announce")
    BY Likes DEF Alike5
  <2>3. Mirrors(t, groupRoutes[12]) BY <1>12, <2>1, <2>2, Mirrors5
  <2> QED BY <2>3, GroupLands
<1>13. ASSUME Asks5(t, "PUT", "setGroupPhoto", "api", "{session}", "groups", "{gid}", "photo")
      PROVE  Lands(t)
  <2>1. Route5(groupRoutes[13], "PUT", "setGroupPhoto", "api", ":session", "groups", ":gid",
          "photo")
    BY GroupList
  <2>2. Alike5("api", ":session", "groups", ":gid", "photo",
               "api", "{session}", "groups", "{gid}", "photo")
    BY Likes DEF Alike5
  <2>3. Mirrors(t, groupRoutes[13]) BY <1>13, <2>1, <2>2, Mirrors5
  <2> QED BY <2>3, GroupLands
<1>14. ASSUME Asks5(t, "PUT", "setGroupDisappearing", "api", "{session}", "groups", "{gid}",
        "disappearing")
      PROVE  Lands(t)
  <2>1. Route5(groupRoutes[14], "PUT", "setGroupDisappearing", "api", ":session", "groups",
          ":gid", "disappearing")
    BY GroupList
  <2>2. Alike5("api", ":session", "groups", ":gid", "disappearing",
               "api", "{session}", "groups", "{gid}", "disappearing")
    BY Likes DEF Alike5
  <2>3. Mirrors(t, groupRoutes[14]) BY <1>14, <2>1, <2>2, Mirrors5
  <2> QED BY <2>3, GroupLands
<1>15. ASSUME Asks5(t, "GET", "getInviteLink", "api", "{session}", "groups", "{gid}", "invite-link")
      PROVE  Lands(t)
  <2>1. Route5(groupRoutes[15], "GET", "getInviteLink", "api", ":session", "groups", ":gid",
          "invite-link")
    BY GroupList
  <2>2. Alike5("api", ":session", "groups", ":gid", "invite-link",
               "api", "{session}", "groups", "{gid}", "invite-link")
    BY Likes DEF Alike5
  <2>3. Mirrors(t, groupRoutes[15]) BY <1>15, <2>1, <2>2, Mirrors5
  <2> QED BY <2>3, GroupLands
<1>16. ASSUME Asks6(t, "POST", "revokeInviteLink", "api", "{session}", "groups", "{gid}",
        "invite-link", "revoke")
      PROVE  Lands(t)
  <2>1. Route6(groupRoutes[16], "POST", "revokeInviteLink", "api", ":session", "groups", ":gid",
          "invite-link", "revoke")
    BY GroupList
  <2>2. Alike6("api", ":session", "groups", ":gid", "invite-link", "revoke",
               "api", "{session}", "groups", "{gid}", "invite-link", "revoke")
    BY Likes DEF Alike6
  <2>3. Mirrors(t, groupRoutes[16]) BY <1>16, <2>1, <2>2, Mirrors6
  <2> QED BY <2>3, GroupLands
<1> QED BY <1>1, <1>2, <1>3, <1>4, <1>5, <1>6, <1>7, <1>8, <1>9, <1>10, <1>11, <1>12, <1>13,
        <1>14, <1>15, <1>16

LEMMA WebhookServed == \A t :
  /\ Asks3(t, "GET", "listWebhooks", "api", "{session}", "webhooks") => Lands(t)
  /\ Asks3(t, "POST", "addWebhook", "api", "{session}", "webhooks") => Lands(t)
  /\ Asks3(t, "DELETE", "deleteWebhook", "api", "webhooks", "{id}") => Lands(t)
<1> TAKE t
<1>1. ASSUME Asks3(t, "GET", "listWebhooks", "api", "{session}", "webhooks") PROVE Lands(t)
  <2>1. Route3(webhookRoutes[1], "GET", "listWebhooks", "api", ":session", "webhooks")
    BY WebhookList
  <2>2. Alike3("api", ":session", "webhooks",
               "api", "{session}", "webhooks")
    BY Likes DEF Alike3
  <2>3. Mirrors(t, webhookRoutes[1]) BY <1>1, <2>1, <2>2, Mirrors3
  <2> QED BY <2>3, WebhookLands
<1>2. ASSUME Asks3(t, "POST", "addWebhook", "api", "{session}", "webhooks") PROVE Lands(t)
  <2>1. Route3(webhookRoutes[2], "POST", "addWebhook", "api", ":session", "webhooks")
    BY WebhookList
  <2>2. Alike3("api", ":session", "webhooks",
               "api", "{session}", "webhooks")
    BY Likes DEF Alike3
  <2>3. Mirrors(t, webhookRoutes[2]) BY <1>2, <2>1, <2>2, Mirrors3
  <2> QED BY <2>3, WebhookLands
<1>3. ASSUME Asks3(t, "DELETE", "deleteWebhook", "api", "webhooks", "{id}") PROVE Lands(t)
  <2>1. Route3(webhookRoutes[3], "DELETE", "deleteWebhook", "api", "webhooks", ":id")
    BY WebhookList
  <2>2. Alike3("api", "webhooks", ":id",
               "api", "webhooks", "{id}")
    BY Likes DEF Alike3
  <2>3. Mirrors(t, webhookRoutes[3]) BY <1>3, <2>1, <2>2, Mirrors3
  <2> QED BY <2>3, WebhookLands
<1> QED BY <1>1, <1>2, <1>3

LEMMA KeyServed == \A t :
  /\ Asks2(t, "GET", "listKeys", "api", "keys") => Lands(t)
  /\ Asks2(t, "POST", "createKey", "api", "keys") => Lands(t)
  /\ Asks3(t, "DELETE", "deleteKey", "api", "keys", "{id}") => Lands(t)
<1> TAKE t
<1>1. ASSUME Asks2(t, "GET", "listKeys", "api", "keys") PROVE Lands(t)
  <2>1. Route2(keyRoutes[1], "GET", "listKeys", "api", "keys")
    BY KeyList
  <2>2. Alike2("api", "keys",
               "api", "keys")
    BY Likes DEF Alike2
  <2>3. Mirrors(t, keyRoutes[1]) BY <1>1, <2>1, <2>2, Mirrors2
  <2> QED BY <2>3, KeyLands
<1>2. ASSUME Asks2(t, "POST", "createKey", "api", "keys") PROVE Lands(t)
  <2>1. Route2(keyRoutes[2], "POST", "createKey", "api", "keys")
    BY KeyList
  <2>2. Alike2("api", "keys",
               "api", "keys")
    BY Likes DEF Alike2
  <2>3. Mirrors(t, keyRoutes[2]) BY <1>2, <2>1, <2>2, Mirrors2
  <2> QED BY <2>3, KeyLands
<1>3. ASSUME Asks3(t, "DELETE", "deleteKey", "api", "keys", "{id}") PROVE Lands(t)
  <2>1. Route3(keyRoutes[3], "DELETE", "deleteKey", "api", "keys", ":id")
    BY KeyList
  <2>2. Alike3("api", "keys", ":id",
               "api", "keys", "{id}")
    BY Likes DEF Alike3
  <2>3. Mirrors(t, keyRoutes[3]) BY <1>3, <2>1, <2>2, Mirrors3
  <2> QED BY <2>3, KeyLands
<1> QED BY <1>1, <1>2, <1>3

(* What a handler wants is what its tool requires. *)

Holds(t, slot) == \E i \in DOMAIN t.path : t.path[i] = slot

\* What t requires and never puts into a path; and whether it has a body.
Rest(t) == t.required \ {"session", "gid", "id"}
Posts(t) == t.method \notin {"GET", "DELETE"} /\ Rest(t) # {}

\* What the step wants for not answering 400, a whole call of t gives.
Feeds(t, step) ==
  CASE step.do = "json" -> Posts(t)
    [] step.do = "field" -> step.arg \in Rest(t)
    [] step.do = "chat" -> "chat_id" \in t.required
    [] step.do = "resolve" -> "session" \in t.required
    [] step.do = "id" -> Holds(t, "{id}")
    [] step.do = "group" -> Holds(t, "{gid}")
    [] OTHER -> TRUE
FedAll(t, s) == \E S : s \in Seq(S) /\ \A step \in S : Feeds(t, step)
Fed(t) == FedAll(t, StepsOf[t.means])

LEMMA FedTuples ==
  ASSUME NEW t
  PROVE  /\ FedAll(t, << >>)
         /\ \A a : Feeds(t, a) => FedAll(t, << a >>)
         /\ \A a, b : Feeds(t, a) /\ Feeds(t, b) => FedAll(t, << a, b >>)
         /\ \A a, b, c : Feeds(t, a) /\ Feeds(t, b) /\ Feeds(t, c) => FedAll(t, << a, b, c >>)
         /\ \A a, b, c, d :
              Feeds(t, a) /\ Feeds(t, b) /\ Feeds(t, c) /\ Feeds(t, d)
                => FedAll(t, << a, b, c, d >>)
         /\ \A a, b, c, d, e :
              Feeds(t, a) /\ Feeds(t, b) /\ Feeds(t, c) /\ Feeds(t, d) /\ Feeds(t, e)
                => FedAll(t, << a, b, c, d, e >>)
         /\ \A a, b, c, d, e, f :
              Feeds(t, a) /\ Feeds(t, b) /\ Feeds(t, c) /\ Feeds(t, d) /\ Feeds(t, e) /\ Feeds(t, f)
                => FedAll(t, << a, b, c, d, e, f >>)
<1>s. \A S : \A s \in Seq(S) : (\A x \in S : Feeds(t, x)) => FedAll(t, s) BY DEF FedAll
<1>0. FedAll(t, << >>)
  <2> DEFINE s == << >>
  <2>1. s \in Seq({}) OBVIOUS
  <2> HIDE DEF s
  <2>2. FedAll(t, s) BY <1>s, <2>1
  <2> QED BY <2>2 DEF s
<1>1. \A a : Feeds(t, a) => FedAll(t, << a >>)
  <2> SUFFICES ASSUME NEW a, Feeds(t, a)
               PROVE  FedAll(t, << a >>)
    OBVIOUS
  <2> DEFINE S == {a}
             s == << a >>
  <2>1. s \in Seq(S) OBVIOUS
  <2>2. \A x \in S : Feeds(t, x) OBVIOUS
  <2> HIDE DEF S, s
  <2>3. FedAll(t, s) BY <1>s, <2>1, <2>2
  <2> QED BY <2>3 DEF s
<1>2. \A a, b : Feeds(t, a) /\ Feeds(t, b) => FedAll(t, << a, b >>)
  <2> SUFFICES ASSUME NEW a, NEW b, Feeds(t, a), Feeds(t, b)
               PROVE  FedAll(t, << a, b >>)
    OBVIOUS
  <2> DEFINE S == {a, b}
             s == << a, b >>
  <2>1. s \in Seq(S) OBVIOUS
  <2>2. \A x \in S : Feeds(t, x) OBVIOUS
  <2> HIDE DEF S, s
  <2>3. FedAll(t, s) BY <1>s, <2>1, <2>2
  <2> QED BY <2>3 DEF s
<1>3. \A a, b, c : Feeds(t, a) /\ Feeds(t, b) /\ Feeds(t, c) => FedAll(t, << a, b, c >>)
  <2> SUFFICES ASSUME NEW a, NEW b, NEW c,
                      Feeds(t, a), Feeds(t, b), Feeds(t, c)
               PROVE  FedAll(t, << a, b, c >>)
    OBVIOUS
  <2> DEFINE S == {a, b, c}
             s == << a, b, c >>
  <2>1. s \in Seq(S) OBVIOUS
  <2>2. \A x \in S : Feeds(t, x) OBVIOUS
  <2> HIDE DEF S, s
  <2>3. FedAll(t, s) BY <1>s, <2>1, <2>2
  <2> QED BY <2>3 DEF s
<1>4. \A a, b, c, d :
       Feeds(t, a) /\ Feeds(t, b) /\ Feeds(t, c) /\ Feeds(t, d) => FedAll(t, << a, b, c, d >>)
  <2> SUFFICES ASSUME NEW a, NEW b, NEW c, NEW d,
                      Feeds(t, a), Feeds(t, b), Feeds(t, c), Feeds(t, d)
               PROVE  FedAll(t, << a, b, c, d >>)
    OBVIOUS
  <2> DEFINE S == {a, b, c, d}
             s == << a, b, c, d >>
  <2>1. s \in Seq(S) OBVIOUS
  <2>2. \A x \in S : Feeds(t, x) OBVIOUS
  <2> HIDE DEF S, s
  <2>3. FedAll(t, s) BY <1>s, <2>1, <2>2
  <2> QED BY <2>3 DEF s
<1>5. \A a, b, c, d, e :
       Feeds(t, a) /\ Feeds(t, b) /\ Feeds(t, c) /\ Feeds(t, d) /\ Feeds(t, e)
         => FedAll(t, << a, b, c, d, e >>)
  <2> SUFFICES ASSUME NEW a, NEW b, NEW c, NEW d, NEW e,
                      Feeds(t, a), Feeds(t, b), Feeds(t, c), Feeds(t, d), Feeds(t, e)
               PROVE  FedAll(t, << a, b, c, d, e >>)
    OBVIOUS
  <2> DEFINE S == {a, b, c, d, e}
             s == << a, b, c, d, e >>
  <2>1. s \in Seq(S) OBVIOUS
  <2>2. \A x \in S : Feeds(t, x) OBVIOUS
  <2> HIDE DEF S, s
  <2>3. FedAll(t, s) BY <1>s, <2>1, <2>2
  <2> QED BY <2>3 DEF s
<1>6. \A a, b, c, d, e, f :
       Feeds(t, a) /\ Feeds(t, b) /\ Feeds(t, c) /\ Feeds(t, d) /\ Feeds(t, e) /\ Feeds(t, f)
         => FedAll(t, << a, b, c, d, e, f >>)
  <2> SUFFICES ASSUME NEW a, NEW b, NEW c, NEW d, NEW e, NEW f,
                      Feeds(t, a), Feeds(t, b), Feeds(t, c), Feeds(t, d), Feeds(t, e), Feeds(t, f)
               PROVE  FedAll(t, << a, b, c, d, e, f >>)
    OBVIOUS
  <2> DEFINE S == {a, b, c, d, e, f}
             s == << a, b, c, d, e, f >>
  <2>1. s \in Seq(S) OBVIOUS
  <2>2. \A x \in S : Feeds(t, x) OBVIOUS
  <2> HIDE DEF S, s
  <2>3. FedAll(t, s) BY <1>s, <2>1, <2>2
  <2> QED BY <2>3 DEF s
<1> QED BY <1>0, <1>1, <1>2, <1>3, <1>4, <1>5, <1>6

LEMMA FedKinds ==
  ASSUME NEW t
  PROVE  /\ Feeds(t, Known) /\ Feeds(t, Participants) /\ Feeds(t, Media) /\ Feeds(t, Photo)
         /\ Feeds(t, Timer) /\ Feeds(t, Seconds) /\ Feeds(t, Create)
         /\ \A op : Feeds(t, Read(op)) /\ Feeds(t, Change(op)) /\ Feeds(t, Sure(op))
         /\ Posts(t) => Feeds(t, Json)
         /\ \A f : f \in Rest(t) => Feeds(t, Field(f))
         /\ "chat_id" \in t.required => Feeds(t, Chat)
         /\ "session" \in t.required => Feeds(t, Resolve)
         /\ Holds(t, "{id}") => Feeds(t, Id)
         /\ Holds(t, "{gid}") => Feeds(t, Group)
BY DEF Feeds, Step, Known, Participants, Media, Photo, Timer, Seconds, Create, Read, Change, Sure,
       Json, Field, Chat, Resolve, Id, Group

\* The handlers, each with what it wants.
LEMMA FedHandlers ==
  ASSUME NEW t
  PROVE  /\ t.means \in {"docs", "listSessions", "getSession", "deleteSession", "startSession",
                         "stopSession", "logoutSession", "getQR", "getMe", "listWebhooks",
                         "listKeys"} => Fed(t)
         /\ t.means \in {"deleteWebhook", "deleteKey"} /\ Holds(t, "{id}") => Fed(t)
         /\ t.means \in {"createSession", "createKey"} /\ Posts(t) /\ "name" \in Rest(t) => Fed(t)
         /\ t.means = "requestPairCode" /\ Posts(t) /\ "phone" \in Rest(t) => Fed(t)
         /\ t.means = "addWebhook" /\ Posts(t) /\ "url" \in Rest(t) => Fed(t)
<1> USE FedTuples, FedKinds
<1>1. /\ FedAll(t, << >>) /\ FedAll(t, listSessions) /\ FedAll(t, getSession)
      /\ FedAll(t, deleteSession) /\ FedAll(t, startSession) /\ FedAll(t, stopSession)
      /\ FedAll(t, logoutSession) /\ FedAll(t, getQR) /\ FedAll(t, getMe)
      /\ FedAll(t, listWebhooks) /\ FedAll(t, listKeys)
  BY DEF listSessions, getSession, deleteSession, startSession, stopSession, logoutSession,
         getQR, getMe, listWebhooks, listKeys
<1>2. ASSUME Holds(t, "{id}") PROVE FedAll(t, deleteWebhook) /\ FedAll(t, deleteKey)
  BY <1>2 DEF deleteWebhook, deleteKey
<1>3. ASSUME Posts(t)
      PROVE  /\ "name" \in Rest(t) => FedAll(t, createSession) /\ FedAll(t, createKey)
             /\ "phone" \in Rest(t) => FedAll(t, requestPairCode)
             /\ "url" \in Rest(t) => FedAll(t, addWebhook)
  BY <1>3 DEF createSession, createKey, requestPairCode, addWebhook
<1>4. /\ StepsOf["docs"] = << >> /\ StepsOf["listSessions"] = listSessions
      /\ StepsOf["getSession"] = getSession /\ StepsOf["deleteSession"] = deleteSession
      /\ StepsOf["startSession"] = startSession /\ StepsOf["stopSession"] = stopSession
      /\ StepsOf["logoutSession"] = logoutSession /\ StepsOf["getQR"] = getQR
      /\ StepsOf["getMe"] = getMe /\ StepsOf["listWebhooks"] = listWebhooks
      /\ StepsOf["listKeys"] = listKeys
  BY DEF StepsOf
<1>5. /\ StepsOf["deleteWebhook"] = deleteWebhook /\ StepsOf["deleteKey"] = deleteKey
      /\ StepsOf["createSession"] = createSession /\ StepsOf["createKey"] = createKey
      /\ StepsOf["requestPairCode"] = requestPairCode /\ StepsOf["addWebhook"] = addWebhook
  BY DEF StepsOf
<1> QED BY <1>1, <1>2, <1>3, <1>4, <1>5, Zenon DEF Fed

LEMMA FedMessages ==
  ASSUME NEW t, Posts(t), "session" \in t.required, "chat_id" \in t.required
  PROVE  /\ t.means \in {"sendImage", "sendVideo", "sendVoice", "sendFile", "sendLocation",
                         "sendSeen", "startTyping", "stopTyping"} => Fed(t)
         /\ t.means = "sendText" /\ "text" \in Rest(t) => Fed(t)
         /\ t.means = "sendContact" /\ "vcard" \in Rest(t) => Fed(t)
<1>1. /\ FedAll(t, sendMedia) /\ FedAll(t, sendLocation)
      /\ FedAll(t, sendSeen) /\ FedAll(t, setTyping)
      /\ "text" \in Rest(t) => FedAll(t, sendText)
      /\ "vcard" \in Rest(t) => FedAll(t, sendContact)
  BY FedTuples, FedKinds DEF sendMedia, sendLocation, sendSeen, setTyping, sendText, sendContact
<1>2. /\ \A h \in {"sendImage", "sendVideo", "sendVoice", "sendFile"} : StepsOf[h] = sendMedia
      /\ \A h \in {"startTyping", "stopTyping"} : StepsOf[h] = setTyping
      /\ StepsOf["sendLocation"] = sendLocation /\ StepsOf["sendSeen"] = sendSeen
      /\ StepsOf["sendText"] = sendText /\ StepsOf["sendContact"] = sendContact
  BY DEF StepsOf, sendImage, sendVideo, sendVoice, sendFile
<1> QED BY <1>1, <1>2, Zenon DEF Fed

LEMMA FedReads ==
  ASSUME NEW t, "session" \in t.required
  PROVE  /\ t.means \in {"getContacts", "getChats", "getGroups"} => Fed(t)
         /\ t.means = "createGroup" /\ Posts(t) /\ "name" \in Rest(t) => Fed(t)
         /\ t.means = "joinGroup" /\ Posts(t) /\ "link" \in Rest(t) => Fed(t)
<1>1. /\ FedAll(t, getContacts) /\ FedAll(t, getGroups)
      /\ Posts(t) /\ "name" \in Rest(t) => FedAll(t, createGroup)
      /\ Posts(t) /\ "link" \in Rest(t) => FedAll(t, joinGroup)
  BY FedTuples, FedKinds DEF getContacts, getGroups, createGroup, joinGroup
<1>2. /\ StepsOf["getContacts"] = getContacts /\ StepsOf["getChats"] = getContacts
      /\ StepsOf["getGroups"] = getGroups /\ StepsOf["createGroup"] = createGroup
      /\ StepsOf["joinGroup"] = joinGroup
  BY DEF StepsOf, getChats
<1> QED BY <1>1, <1>2, Zenon DEF Fed

LEMMA FedGroups ==
  ASSUME NEW t, "session" \in t.required, Holds(t, "{gid}")
  PROVE  /\ t.means \in {"getGroupInfo", "leaveGroup", "setGroupPhoto", "getInviteLink",
                         "revokeInviteLink"} => Fed(t)
         /\ Posts(t) /\ t.means \in {"setGroupTopic", "setGroupLocked", "setGroupAnnounce",
                                    "setGroupDisappearing"} => Fed(t)
         /\ Posts(t) /\ t.means = "setGroupName" /\ "name" \in Rest(t) => Fed(t)
         /\ Posts(t) /\ "participants" \in Rest(t) /\
              t.means \in {"addParticipants", "removeParticipants", "promoteParticipants",
                           "demoteParticipants"} => Fed(t)
<1>1. /\ FedAll(t, getGroupInfo) /\ FedAll(t, leaveGroup) /\ FedAll(t, setGroupPhoto)
      /\ FedAll(t, getInviteLink) /\ FedAll(t, revokeInviteLink)
  BY FedTuples, FedKinds
  DEF getGroupInfo, leaveGroup, setGroupPhoto, getInviteLink, revokeInviteLink
<1>2. ASSUME Posts(t)
      PROVE  /\ FedAll(t, setGroupTopic) /\ FedAll(t, setGroupLocked)
             /\ FedAll(t, setGroupAnnounce) /\ FedAll(t, setGroupDisappearing)
             /\ "name" \in Rest(t) => FedAll(t, setGroupName)
             /\ "participants" \in Rest(t) => FedAll(t, updateParticipants)
  BY <1>2, FedTuples, FedKinds
  DEF setGroupTopic, setGroupLocked, setGroupAnnounce, setGroupDisappearing, setGroupName,
      updateParticipants
<1>3. /\ StepsOf["getGroupInfo"] = getGroupInfo /\ StepsOf["leaveGroup"] = leaveGroup
      /\ StepsOf["setGroupPhoto"] = setGroupPhoto /\ StepsOf["getInviteLink"] = getInviteLink
      /\ StepsOf["revokeInviteLink"] = revokeInviteLink
  BY DEF StepsOf
<1>4. /\ StepsOf["setGroupTopic"] = setGroupTopic /\ StepsOf["setGroupLocked"] = setGroupLocked
      /\ StepsOf["setGroupAnnounce"] = setGroupAnnounce
      /\ StepsOf["setGroupDisappearing"] = setGroupDisappearing
      /\ StepsOf["setGroupName"] = setGroupName
  BY DEF StepsOf
<1>5. /\ StepsOf["addParticipants"] = updateParticipants
      /\ StepsOf["removeParticipants"] = updateParticipants
      /\ StepsOf["promoteParticipants"] = updateParticipants
      /\ StepsOf["demoteParticipants"] = updateParticipants
  BY DEF StepsOf
<1> QED BY <1>1, <1>2, <1>3, <1>4, <1>5, Zenon DEF Fed

LEMMA ToolAsks ==
  ASSUME NEW name, NEW m, NEW path, NEW required, NEW h
  PROVE  LET t == Tool(name, m, path, required, h) IN
         Asks(t, m, h) /\ t.path = path /\ t.required = required
BY DEF Tool, Asks

LEMMA ToolTuples ==
  \A name, m, required, h :
    /\ \A a : Asks1(Tool(name, m, << a >>, required, h), m, h, a)
    /\ \A a, b : Asks2(Tool(name, m, << a, b >>, required, h), m, h, a, b)
    /\ \A a, b, c : Asks3(Tool(name, m, << a, b, c >>, required, h), m, h, a, b, c)
    /\ \A a : Asks3(Tool(name, m, Of(<< a >>), required, h), m, h, "api", "{session}", a)
    /\ \A a, b :
         Asks4(Tool(name, m, Of(<< a, b >>), required, h), m, h, "api", "{session}", a, b)
<1>1. /\ \A a : Path3(Of(<< a >>), "api", "{session}", a)
      /\ \A a, b : Path4(Of(<< a, b >>), "api", "{session}", a, b)
  <2> DEFINE one == <<"api", "{session}">>
  <2>1. Path2(one, "api", "{session}") BY PathTuples
  <2> HIDE DEF one
  <2>2. \A rest : Of(rest) = one \o rest BY DEF Of, one
  <2> QED BY <2>1, <2>2, PathTuples, PathsJoin
<1> TAKE name, m, required, h
<1>2. \A path : LET t == Tool(name, m, path, required, h) IN Asks(t, m, h) /\ t.path = path
  BY ToolAsks
<1>3. /\ \A a : Asks1(Tool(name, m, << a >>, required, h), m, h, a)
      /\ \A a, b : Asks2(Tool(name, m, << a, b >>, required, h), m, h, a, b)
      /\ \A a, b, c : Asks3(Tool(name, m, << a, b, c >>, required, h), m, h, a, b, c)
  BY <1>2, PathTuples DEF Asks1, Asks2, Asks3
<1>4. /\ \A a : Asks3(Tool(name, m, Of(<< a >>), required, h), m, h, "api", "{session}", a)
      /\ \A a, b :
           Asks4(Tool(name, m, Of(<< a, b >>), required, h), m, h, "api", "{session}", a, b)
  BY <1>1, <1>2 DEF Asks3, Asks4
<1> QED BY <1>3, <1>4, Zenon

LEMMA GroupTuples ==
  \A name, m, required, h :
    /\ Asks3(Tool(name, m, Of(<<"groups">> \o << >>), required, h),
             m, h, "api", "{session}", "groups")
    /\ \A a : Asks4(Tool(name, m, Of(<<"groups">> \o << a >>), required, h),
                    m, h, "api", "{session}", "groups", a)
    /\ Asks4(Tool(name, m, Of(<<"groups">> \o (<<"{gid}">> \o << >>)), required, h),
             m, h, "api", "{session}", "groups", "{gid}")
    /\ \A a : Asks5(Tool(name, m, Of(<<"groups">> \o (<<"{gid}">> \o << a >>)), required, h),
                    m, h, "api", "{session}", "groups", "{gid}", a)
    /\ \A a, b :
         Asks6(Tool(name, m, Of(<<"groups">> \o (<<"{gid}">> \o << a, b >>)), required, h),
               m, h, "api", "{session}", "groups", "{gid}", a, b)
<1> DEFINE one == <<"api", "{session}">>
           first == <<"groups">>
           second == <<"{gid}">>
<1>0. Path2(one, "api", "{session}") /\ Path1(first, "groups") /\ Path1(second, "{gid}")
  BY PathTuples
<1> HIDE DEF one, first, second
<1>1. \A rest : Of(rest) = one \o rest BY DEF Of, one
<1>2. /\ Path1(second \o << >>, "{gid}")
      /\ \A a : Path2(second \o << a >>, "{gid}", a)
      /\ \A a, b : Path3(second \o << a, b >>, "{gid}", a, b)
  BY <1>0, PathTuples, PathsJoin
<1>3. /\ \A s : Path0(s) => Path1(first \o s, "groups")
      /\ \A s, a : Path1(s, a) => Path2(first \o s, "groups", a)
      /\ \A s, a, b : Path2(s, a, b) => Path3(first \o s, "groups", a, b)
      /\ \A s, a, b, c : Path3(s, a, b, c) => Path4(first \o s, "groups", a, b, c)
  BY <1>0, PathsJoin
<1>4. /\ \A s, a : Path1(s, a) => Path3(Of(s), "api", "{session}", a)
      /\ \A s, a, b : Path2(s, a, b) => Path4(Of(s), "api", "{session}", a, b)
      /\ \A s, a, b, c : Path3(s, a, b, c) => Path5(Of(s), "api", "{session}", a, b, c)
      /\ \A s, a, b, c, d : Path4(s, a, b, c, d) => Path6(Of(s), "api", "{session}", a, b, c, d)
  BY <1>0, <1>1, PathsJoin
<1>5. /\ Path3(Of(first \o << >>), "api", "{session}", "groups")
      /\ \A a : Path4(Of(first \o << a >>), "api", "{session}", "groups", a)
      /\ Path4(Of(first \o (second \o << >>)), "api", "{session}", "groups", "{gid}")
      /\ \A a : Path5(Of(first \o (second \o << a >>)), "api", "{session}", "groups", "{gid}", a)
      /\ \A a, b : Path6(Of(first \o (second \o << a, b >>)), "api", "{session}", "groups",
                         "{gid}", a, b)
  BY <1>2, <1>3, <1>4, PathTuples
<1> TAKE name, m, required, h
<1>6. \A path : LET t == Tool(name, m, path, required, h) IN Asks(t, m, h) /\ t.path = path
  BY ToolAsks
<1>7. /\ Asks3(Tool(name, m, Of(first \o << >>), required, h),
               m, h, "api", "{session}", "groups")
      /\ \A a : Asks4(Tool(name, m, Of(first \o << a >>), required, h),
                      m, h, "api", "{session}", "groups", a)
      /\ Asks4(Tool(name, m, Of(first \o (second \o << >>)), required, h),
               m, h, "api", "{session}", "groups", "{gid}")
      /\ \A a : Asks5(Tool(name, m, Of(first \o (second \o << a >>)), required, h),
                      m, h, "api", "{session}", "groups", "{gid}", a)
      /\ \A a, b : Asks6(Tool(name, m, Of(first \o (second \o << a, b >>)), required, h),
                         m, h, "api", "{session}", "groups", "{gid}", a, b)
  BY <1>5, <1>6 DEF Asks3, Asks4, Asks5, Asks6
<1> QED BY <1>7 DEF first, second

LEMMA SessionToolsLand == \A t \in sessionsTools : Lands(t)
<1> DEFINE one == <<"api", "sessions", "{session}">>
<1>1. Path3(one, "api", "sessions", "{session}") BY PathTuples
<1> HIDE DEF one
<1>2. ASSUME NEW x PROVE Path4(Append(one, x), "api", "sessions", "{session}", x)
  <2>1. PICK S : one \in Seq(S) BY <1>1 DEF Path3, IsSeq
  <2>2. one \in Seq(S \cup {x}) BY <2>1
  <2> DEFINE s == Append(one, x)
  <2>3. s \in Seq(S \cup {x}) /\ Len(s) = Len(one) + 1 /\ s[Len(one) + 1] = x
        /\ \A i \in 1 .. Len(one) : s[i] = one[i]
    BY <2>2
  <2> HIDE DEF s
  <2>4. 1 \in 1 .. 3 /\ 2 \in 1 .. 3 /\ 3 \in 1 .. 3 /\ 3 + 1 = 4 OBVIOUS
  <2>5. Path4(s, "api", "sessions", "{session}", x) BY <1>1, <2>3, <2>4 DEF Path3, Path4, IsSeq
  <2> QED BY <2>5 DEF s
<1>3. \A name, m, required, h :
        /\ Asks3(Tool(name, m, one, required, h), m, h, "api", "sessions", "{session}")
        /\ \A x : Asks4(Tool(name, m, Append(one, x), required, h),
                        m, h, "api", "sessions", "{session}", x)
  <2> TAKE name, m, required, h
  <2>1. \A path : LET t == Tool(name, m, path, required, h) IN Asks(t, m, h) /\ t.path = path
    BY ToolAsks
  <2> QED BY <1>1, <1>2, <2>1 DEF Asks3, Asks4
<1>4. \A name, required :
        /\ Lands(Tool(name, "GET", <<"api", "sessions">>, required, "listSessions"))
        /\ Lands(Tool(name, "POST", <<"api", "sessions">>, required, "createSession"))
  BY ToolTuples, SessionServed
<1>5. \A name, required :
        /\ Lands(Tool(name, "GET", one, required, "getSession"))
        /\ Lands(Tool(name, "DELETE", one, required, "deleteSession"))
        /\ Lands(Tool(name, "POST", Append(one, "start"), required, "startSession"))
        /\ Lands(Tool(name, "POST", Append(one, "stop"), required, "stopSession"))
        /\ Lands(Tool(name, "POST", Append(one, "logout"), required, "logoutSession"))
  BY <1>3, SessionServed
<1> QED BY <1>4, <1>5 DEF sessionsTools, one

LEMMA ReadToolsLand == \A t \in authTools \cup readTools : Lands(t)
<1>1. \A name, required :
        /\ Lands(Tool(name, "GET", Of(<<"auth", "qr">>), required, "getQR"))
        /\ Lands(Tool(name, "POST", Of(<<"auth", "request-code">>), required, "requestPairCode"))
  BY ToolTuples, PairingServed
<1>2. \A name, required :
        /\ Lands(Tool(name, "GET", Of(<<"me">>), required, "getMe"))
        /\ Lands(Tool(name, "GET", Of(<<"contacts">>), required, "getContacts"))
        /\ Lands(Tool(name, "GET", Of(<<"chats">>), required, "getChats"))
  BY ToolTuples, ReadServed
<1> QED BY <1>1, <1>2 DEF authTools, readTools

\* What a tool requires, and so what it gives.
LEMMA ToolWants ==
  ASSUME NEW name, NEW m, NEW path, NEW required, NEW h
  PROVE  LET t == Tool(name, m, path, required, h) IN
         /\ t.means = h /\ t.required = required
         /\ Rest(t) = required \ {"session", "gid", "id"}
         /\ \A x \in Rest(t) : m \notin {"GET", "DELETE"} => Posts(t)
<1> DEFINE t == Tool(name, m, path, required, h)
<1>1. t.means = h /\ t.required = required /\ t.method = m BY DEF Tool
<1> HIDE DEF t
<1> QED BY <1>1 DEF Rest, Posts, t

LEMMA SlotsHeld == \A t, m, h, a, b, c, d :
  /\ \A x : Asks3(t, m, h, a, b, x) => Holds(t, x)
  /\ \A x : Asks4(t, m, h, a, b, c, x) => Holds(t, x)
  /\ \A x : Asks5(t, m, h, a, b, c, x, d) => Holds(t, x)
  /\ \A x, e : Asks6(t, m, h, a, b, c, x, d, e) => Holds(t, x)
<1> TAKE t, m, h, a, b, c, d
<1>1. ASSUME NEW n \in Nat, NEW i \in 1 .. n, NEW x, IsSeq(t.path), Len(t.path) = n, t.path[i] = x
      PROVE  Holds(t, x)
  <2>1. PICK S : t.path \in Seq(S) BY <1>1 DEF IsSeq
  <2>2. i \in DOMAIN t.path BY <1>1, <2>1
  <2> QED BY <1>1, <2>2 DEF Holds
<1>2. ASSUME NEW x, Asks3(t, m, h, a, b, x) PROVE Holds(t, x) BY <1>1, <1>2 DEF Asks3, Path3
<1>3. ASSUME NEW x, Asks4(t, m, h, a, b, c, x) PROVE Holds(t, x) BY <1>1, <1>3 DEF Asks4, Path4
<1>4. ASSUME NEW x, Asks5(t, m, h, a, b, c, x, d) PROVE Holds(t, x)
  BY <1>1, <1>4 DEF Asks5, Path5
<1>5. ASSUME NEW x, NEW e, Asks6(t, m, h, a, b, c, x, d, e) PROVE Holds(t, x)
  BY <1>1, <1>5 DEF Asks6, Path6
<1> QED BY <1>2, <1>3, <1>4, <1>5

LEMMA PlainToolsFed ==
  \A t \in sessionsTools \cup authTools \cup readTools \cup webhookTools \cup keyTools
             \cup resources : Fed(t)
<1>1. \A name, m, path, required :
        \A h \in {"docs", "listSessions", "getSession", "deleteSession", "startSession",
                  "stopSession", "logoutSession", "getQR", "getMe", "listWebhooks", "listKeys"} :
          Fed(Tool(name, m, path, required, h))
  BY FedHandlers, ToolWants
<1>2. \A name, path, required, h : \A x \in required \ {"session", "gid", "id"} :
        LET t == Tool(name, "POST", path, required, h) IN
        t.means = h /\ Posts(t) /\ x \in Rest(t)
  BY ToolWants
<1>3. \A name, path :
        /\ Fed(Tool(name, "POST", path, {"name"}, "createSession"))
        /\ Fed(Tool(name, "POST", path, {"name"}, "createKey"))
        /\ Fed(Tool(name, "POST", path, {"session", "phone"}, "requestPairCode"))
        /\ Fed(Tool(name, "POST", path, {"session", "url"}, "addWebhook"))
  <2> TAKE name, path
  <2>1. "name" \in {"name"} \ {"session", "gid", "id"}
        /\ "phone" \in {"session", "phone"} \ {"session", "gid", "id"}
        /\ "url" \in {"session", "url"} \ {"session", "gid", "id"}
    OBVIOUS
  <2>2. /\ Fed(Tool(name, "POST", path, {"name"}, "createSession"))
        /\ Fed(Tool(name, "POST", path, {"name"}, "createKey"))
    BY <1>2, <2>1, FedHandlers, Zenon
  <2>3. Fed(Tool(name, "POST", path, {"session", "phone"}, "requestPairCode"))
    BY <1>2, <2>1, FedHandlers, Zenon
  <2>4. Fed(Tool(name, "POST", path, {"session", "url"}, "addWebhook"))
    BY <1>2, <2>1, FedHandlers, Zenon
  <2> QED BY <2>2, <2>3, <2>4
<1>4. \A name, path, h :
        h \in {"getContacts", "getChats"} => Fed(Tool(name, "GET", path, {"session"}, h))
  <2> TAKE name, path, h
  <2> DEFINE t == Tool(name, "GET", path, {"session"}, h)
  <2>1. t.means = h /\ "session" \in t.required BY ToolWants
  <2> HIDE DEF t
  <2>2. h \in {"getContacts", "getChats"} => Fed(t) BY <2>1, FedReads
  <2> QED BY <2>2 DEF t
<1>5. \A name, required :
        /\ Fed(Tool(name, "DELETE", <<"api", "webhooks", "{id}">>, required, "deleteWebhook"))
        /\ Fed(Tool(name, "DELETE", <<"api", "keys", "{id}">>, required, "deleteKey"))
  <2> TAKE name, required
  <2>1. ASSUME NEW h \in {"deleteWebhook", "deleteKey"}, NEW a
        PROVE  Fed(Tool(name, "DELETE", <<"api", a, "{id}">>, required, h))
    <3> DEFINE t == Tool(name, "DELETE", <<"api", a, "{id}">>, required, h)
    <3>1. Asks3(t, "DELETE", h, "api", a, "{id}") BY ToolTuples
    <3> HIDE DEF t
    <3>2. t.means = h /\ Holds(t, "{id}") BY <3>1, SlotsHeld DEF Asks3, Asks
    <3>3. Fed(t) BY <3>2, FedHandlers
    <3> QED BY <3>3 DEF t
  <2> QED BY <2>1
<1>6. \A name, m, path, required :
        /\ Fed(Tool(name, m, path, required, "listWebhooks"))
        /\ Fed(Tool(name, m, path, required, "listKeys"))
  BY <1>1
<1>7. \A t \in sessionsTools : Fed(t) BY <1>1, <1>3 DEF sessionsTools
<1>8. \A t \in authTools \cup readTools : Fed(t) BY <1>1, <1>3, <1>4 DEF authTools, readTools
<1>9. \A t \in webhookTools : Fed(t) BY <1>3, <1>5, <1>6 DEF webhookTools
<1>10. \A t \in keyTools : Fed(t) BY <1>3, <1>5, <1>6 DEF keyTools
<1>11. \A t \in resources : Fed(t) BY <1>1 DEF resources
<1> QED BY <1>7, <1>8, <1>9, <1>10, <1>11

LEMMA MessageToolsLand == \A t \in messageTools : Lands(t) /\ Fed(t)
<1> DEFINE send(name, h, more) ==
             Tool(name, "POST", <<"api", h>>, {"session", "chat_id"} \cup more, h)
<1>1. \A name, h, more : Asks2(send(name, h, more), "POST", h, "api", h) BY ToolTuples
<1>w. \A name, h, more :
        LET t == send(name, h, more) IN
        /\ t.means = h /\ Posts(t) /\ "session" \in t.required /\ "chat_id" \in t.required
        /\ \A x \in more \ {"session", "gid", "id"} : x \in Rest(t)
  BY ToolWants
<1>2. messageTools = {
        send("waapi_send_text", "sendText", {"text"}),
        send("waapi_send_image", "sendImage", {"url"}),
        send("waapi_send_video", "sendVideo", {"url"}),
        send("waapi_send_voice", "sendVoice", {"url"}),
        send("waapi_send_file", "sendFile", {"url"}),
        send("waapi_send_location", "sendLocation", {"latitude", "longitude"}),
        send("waapi_send_contact", "sendContact", {"vcard"}),
        send("waapi_send_seen", "sendSeen", {"message_ids"}),
        send("waapi_start_typing", "startTyping", {}),
        send("waapi_stop_typing", "stopTyping", {}) }
  BY DEF messageTools
<1> HIDE DEF send
<1>3. \A t \in messageTools : Lands(t) BY <1>1, <1>2, MessageServed
<1>4. \A t \in messageTools : Fed(t) BY <1>w, <1>2, FedMessages
<1> QED BY <1>3, <1>4

LEMMA GroupToolsLand == \A t \in groupTools : Lands(t) /\ Fed(t)
<1> DEFINE all(name, method, rest, more, h) ==
             Tool(name, method, Of(<<"groups">> \o rest), {"session"} \cup more, h)
           one(name, method, rest, more, h) ==
             all(name, method, <<"{gid}">> \o rest, {"gid"} \cup more, h)
           Wants(t, m, h, more) ==
             /\ t.means = h /\ "session" \in t.required
             /\ \A x \in more \ {"session", "gid", "id"} :
                  x \in Rest(t) /\ (m \notin {"GET", "DELETE"} => Posts(t))
<1>0. \A name, m, more, h :
        /\ Asks3(all(name, m, << >>, more, h), m, h, "api", "{session}", "groups")
        /\ \A a : Asks4(all(name, m, << a >>, more, h), m, h, "api", "{session}", "groups", a)
        /\ Asks4(one(name, m, << >>, more, h), m, h, "api", "{session}", "groups", "{gid}")
        /\ \A a : Asks5(one(name, m, << a >>, more, h),
                        m, h, "api", "{session}", "groups", "{gid}", a)
        /\ \A a, b : Asks6(one(name, m, << a, b >>, more, h),
                           m, h, "api", "{session}", "groups", "{gid}", a, b)
  <2> TAKE name, m, more, h
  <2> DEFINE few == {"session"} \cup more
             both == {"session"} \cup ({"gid"} \cup more)
             first == <<"groups">>
             second == <<"{gid}">>
  <2>1. /\ Asks3(Tool(name, m, Of(first \o << >>), few, h),
                 m, h, "api", "{session}", "groups")
        /\ \A a : Asks4(Tool(name, m, Of(first \o << a >>), few, h),
                        m, h, "api", "{session}", "groups", a)
        /\ Asks4(Tool(name, m, Of(first \o (second \o << >>)), both, h),
                 m, h, "api", "{session}", "groups", "{gid}")
        /\ \A a : Asks5(Tool(name, m, Of(first \o (second \o << a >>)), both, h),
                        m, h, "api", "{session}", "groups", "{gid}", a)
        /\ \A a, b : Asks6(Tool(name, m, Of(first \o (second \o << a, b >>)), both, h),
                           m, h, "api", "{session}", "groups", "{gid}", a, b)
    <3> HIDE DEF few, both
    <3> QED BY GroupTuples DEF first, second
  <2> QED BY <2>1
<1>w. \A name, m, rest, more, h :
        /\ Wants(all(name, m, rest, more, h), m, h, more)
        /\ Wants(one(name, m, rest, more, h), m, h, more)
  <2>1. \A name, m, path, more, h : Wants(Tool(name, m, path, {"session"} \cup more, h), m, h, more)
    BY ToolWants
  <2>2. \A t, m, h, more : Wants(t, m, h, {"gid"} \cup more) => Wants(t, m, h, more) OBVIOUS
  <2> HIDE DEF Wants
  <2> QED BY <2>1, <2>2
<1>g. ASSUME NEW t, NEW m, NEW h, NEW more, Wants(t, m, h, more), Holds(t, "{gid}")
      PROVE  /\ h \in {"getGroupInfo", "leaveGroup", "setGroupPhoto", "getInviteLink",
                       "revokeInviteLink"} => Fed(t)
             /\ m = "PUT" /\ more \cap {"topic", "value", "seconds"} # {}
                  /\ h \in {"setGroupTopic", "setGroupLocked", "setGroupAnnounce",
                            "setGroupDisappearing"} => Fed(t)
             /\ m = "PUT" /\ "name" \in more /\ h = "setGroupName" => Fed(t)
             /\ m = "POST" /\ "participants" \in more
                  /\ h \in {"addParticipants", "removeParticipants", "promoteParticipants",
                            "demoteParticipants"} => Fed(t)
  <2>1. t.means = h /\ "session" \in t.required BY <1>g
  <2>2. /\ m \in {"PUT", "POST"} /\ more \ {"session", "gid", "id"} # {} => Posts(t)
        /\ "name" \in more => "name" \in Rest(t)
        /\ "participants" \in more => "participants" \in Rest(t)
    BY <1>g
  <2>3. m \in {"PUT", "POST"}
          /\ more \cap {"topic", "value", "seconds", "name", "participants"} # {}
          => Posts(t)
    BY <2>2
  <2> HIDE DEF Wants
  <2> QED BY <1>g, <2>1, <2>2, <2>3, FedGroups
<1> HIDE DEF all, one, Wants
<1>h. \A name, m, more, h :
        /\ Holds(one(name, m, << >>, more, h), "{gid}")
        /\ \A a : Holds(one(name, m, << a >>, more, h), "{gid}")
        /\ \A a, b : Holds(one(name, m, << a, b >>, more, h), "{gid}")
  BY <1>0, SlotsHeld
<1>1. \A name, more :
        /\ Lands(all(name, "GET", << >>, more, "getGroups"))
        /\ Lands(all(name, "POST", << >>, more, "createGroup"))
        /\ Lands(all(name, "POST", <<"join">>, more, "joinGroup"))
  BY <1>0, ReadServed, GroupServed
<1>2. \A name, more :
        /\ Lands(one(name, "GET", << >>, more, "getGroupInfo"))
        /\ Lands(one(name, "POST", <<"leave">>, more, "leaveGroup"))
        /\ Lands(one(name, "PUT", <<"name">>, more, "setGroupName"))
        /\ Lands(one(name, "PUT", <<"topic">>, more, "setGroupTopic"))
  BY <1>0, GroupServed
<1>p. \A name, more :
        /\ Lands(one(name, "PUT", <<"locked">>, more, "setGroupLocked"))
        /\ Lands(one(name, "PUT", <<"announce">>, more, "setGroupAnnounce"))
        /\ Lands(one(name, "PUT", <<"photo">>, more, "setGroupPhoto"))
        /\ Lands(one(name, "PUT", <<"disappearing">>, more, "setGroupDisappearing"))
        /\ Lands(one(name, "GET", <<"invite-link">>, more, "getInviteLink"))
  BY <1>0, GroupServed
<1>3. \A name, more :
        /\ Lands(one(name, "POST", <<"participants", "add">>, more, "addParticipants"))
        /\ Lands(one(name, "POST", <<"participants", "remove">>, more, "removeParticipants"))
        /\ Lands(one(name, "POST", <<"participants", "promote">>, more, "promoteParticipants"))
        /\ Lands(one(name, "POST", <<"participants", "demote">>, more, "demoteParticipants"))
        /\ Lands(one(name, "POST", <<"invite-link", "revoke">>, more, "revokeInviteLink"))
  BY <1>0, GroupServed
<1>4. groupTools = {
  all("waapi_groups_list", "GET", << >>, {}, "getGroups"),
  all("waapi_groups_create", "POST", << >>, {"name", "participants"}, "createGroup"),
  all("waapi_groups_join", "POST", <<"join">>, {"link"}, "joinGroup"),
  one("waapi_groups_get_info", "GET", << >>, {}, "getGroupInfo"),
  one("waapi_groups_leave", "POST", <<"leave">>, {}, "leaveGroup"),
  one("waapi_groups_add_participants", "POST", <<"participants", "add">>, {"participants"},
      "addParticipants"),
  one("waapi_groups_remove_participants", "POST", <<"participants", "remove">>, {"participants"},
      "removeParticipants"),
  one("waapi_groups_promote_participants", "POST", <<"participants", "promote">>,
      {"participants"}, "promoteParticipants"),
  one("waapi_groups_demote_participants", "POST", <<"participants", "demote">>,
      {"participants"}, "demoteParticipants"),
  one("waapi_groups_set_name", "PUT", <<"name">>, {"name"}, "setGroupName"),
  one("waapi_groups_set_topic", "PUT", <<"topic">>, {"topic"}, "setGroupTopic"),
  one("waapi_groups_set_locked", "PUT", <<"locked">>, {"value"}, "setGroupLocked"),
  one("waapi_groups_set_announce", "PUT", <<"announce">>, {"value"}, "setGroupAnnounce"),
  one("waapi_groups_set_photo", "PUT", <<"photo">>, {"url"}, "setGroupPhoto"),
  one("waapi_groups_set_disappearing", "PUT", <<"disappearing">>, {"seconds"},
      "setGroupDisappearing"),
  one("waapi_groups_get_invite_link", "GET", <<"invite-link">>, {}, "getInviteLink"),
  one("waapi_groups_revoke_invite_link", "POST", <<"invite-link", "revoke">>, {},
      "revokeInviteLink") }
  BY DEF groupTools, all, one
<1>5. \A name :
        /\ Fed(all(name, "GET", << >>, {}, "getGroups"))
        /\ Fed(all(name, "POST", << >>, {"name", "participants"}, "createGroup"))
        /\ Fed(all(name, "POST", <<"join">>, {"link"}, "joinGroup"))
  BY <1>w, FedReads DEF Wants
<1>6. \A name :
        /\ Fed(one(name, "GET", << >>, {}, "getGroupInfo"))
        /\ Fed(one(name, "POST", <<"leave">>, {}, "leaveGroup"))
        /\ Fed(one(name, "PUT", <<"photo">>, {"url"}, "setGroupPhoto"))
  BY <1>w, <1>h, <1>g, Zenon
<1>l. \A name :
        /\ Fed(one(name, "GET", <<"invite-link">>, {}, "getInviteLink"))
        /\ Fed(one(name, "POST", <<"invite-link", "revoke">>, {}, "revokeInviteLink"))
  BY <1>w, <1>h, <1>g, Zenon
<1>7. \A name :
        /\ Fed(one(name, "PUT", <<"name">>, {"name"}, "setGroupName"))
        /\ Fed(one(name, "PUT", <<"topic">>, {"topic"}, "setGroupTopic"))
        /\ Fed(one(name, "PUT", <<"locked">>, {"value"}, "setGroupLocked"))
        /\ Fed(one(name, "PUT", <<"announce">>, {"value"}, "setGroupAnnounce"))
        /\ Fed(one(name, "PUT", <<"disappearing">>, {"seconds"}, "setGroupDisappearing"))
  <2>1. /\ {"topic"} \cap {"topic", "value", "seconds"} # {}
        /\ {"value"} \cap {"topic", "value", "seconds"} # {}
        /\ {"seconds"} \cap {"topic", "value", "seconds"} # {}
    OBVIOUS
  <2> QED BY <1>w, <1>h, <1>g, <2>1, Zenon
<1>8. \A name :
        /\ Fed(one(name, "POST", <<"participants", "add">>, {"participants"}, "addParticipants"))
        /\ Fed(one(name, "POST", <<"participants", "remove">>, {"participants"},
                   "removeParticipants"))
        /\ Fed(one(name, "POST", <<"participants", "promote">>, {"participants"},
                   "promoteParticipants"))
        /\ Fed(one(name, "POST", <<"participants", "demote">>, {"participants"},
                   "demoteParticipants"))
  BY <1>w, <1>h, <1>g, Zenon
<1>9. \A t \in groupTools : Lands(t) BY <1>1, <1>2, <1>p, <1>3, <1>4
<1>10. \A t \in groupTools : Fed(t) BY <1>4, <1>5, <1>6, <1>l, <1>7, <1>8
<1> QED BY <1>9, <1>10

LEMMA OfferedLand == \A t \in offered : Lands(t)
<1>1. \A t \in webhookTools : Lands(t)
  <2>1. \A name, required :
          /\ Lands(Tool(name, "GET", Of(<<"webhooks">>), required, "listWebhooks"))
          /\ Lands(Tool(name, "POST", Of(<<"webhooks">>), required, "addWebhook"))
          /\ Lands(Tool(name, "DELETE", <<"api", "webhooks", "{id}">>, required,
                        "deleteWebhook"))
    BY ToolTuples, WebhookServed
  <2> QED BY <2>1 DEF webhookTools
<1>2. \A t \in keyTools : Lands(t)
  <2>1. \A name, required :
          /\ Lands(Tool(name, "GET", <<"api", "keys">>, required, "listKeys"))
          /\ Lands(Tool(name, "POST", <<"api", "keys">>, required, "createKey"))
          /\ Lands(Tool(name, "DELETE", <<"api", "keys", "{id}">>, required, "deleteKey"))
    BY ToolTuples, KeyServed
  <2> QED BY <2>1 DEF keyTools
<1>3. \A t \in resources : Lands(t)
  <2>1. \A name, required :
          /\ Lands(Tool(name, "GET", <<"api", "sessions">>, required, "listSessions"))
          /\ Lands(Tool(name, "GET", <<"openapi.yaml">>, required, "docs"))
    BY ToolTuples, SessionServed, PublicServed
  <2> QED BY <2>1 DEF resources
<1> QED BY <1>1, <1>2, <1>3, SessionToolsLand, ReadToolsLand, MessageToolsLand, GroupToolsLand
        DEF offered, registered, allTools

LEMMA OfferedFed == \A t \in offered : Fed(t)
BY PlainToolsFed, MessageToolsLand, GroupToolsLand DEF offered, registered, allTools

LEMMA OfferedSlots == \A t \in offered \cup {NoTool} : GroupSlot(t)
<1>1. \A t \in offered : GroupSlot(t) BY OfferedLand DEF Lands
<1>2. GroupSlot(NoTool)
  <2> DEFINE none == << >>
  <2>1. none \in Seq({}) /\ Len(none) = 0 OBVIOUS
  <2> HIDE DEF none
  <2>2. NoTool.path = none /\ NoTool.method = "GET" BY DEF NoTool, Tool, none
  <2>3. IsSeq(none) BY <2>1 DEF IsSeq
  <2>4. ~(Len(none) > 4) /\ Len(none) # 4 BY <2>1
  <2> QED BY <2>2, <2>3, <2>4 DEF GroupSlot
<1> QED BY <1>1, <1>2

-----------------------------------------------------------------------------
(* Rendering *)

CallShape == {"stage", "tool", "args", "path", "left", "result"} \subseteq DOMAIN call

ToolInv == call.tool \in offered \/ (call.tool = NoTool /\ call.stage = "idle")

ArgsSaid(args) == \A k \in DOMAIN args : args[k] \in Value(k) \cup {"", NotString}
ArgsInv == call.left \subseteq DOMAIN call.args /\ ArgsSaid(call.args)

PathInv ==
  /\ IsSeq(call.path) /\ DOMAIN call.path = DOMAIN call.tool.path
  /\ \A i \in DOMAIN call.path :
       \/ call.path[i] = call.tool.path[i]
       \/ /\ call.path[i] \notin Slots
          /\ \E k \in DOMAIN call.args :
               /\ Slot(k) = call.tool.path[i] /\ call.args[k] # NotString
               /\ call.path[i] = Escape(call.args[k])

\* A tool's request is under way, with the path that was rendered.
SentInv ==
  req.by = "tool" =>
    /\ req.stage # "idle" /\ call.stage \in {"waiting", "over"}
    /\ req.path = call.path /\ req.method = call.tool.method
    /\ \A i \in DOMAIN req.path : req.path[i] \notin Slots
    /\ \A k \in DOMAIN req.args :
         k \in DOMAIN call.args /\ req.args[k] = call.args[k] /\ req.args[k] # NotString

IInv == Shape /\ CallShape /\ ToolInv /\ ArgsInv /\ PathInv /\ SentInv

LEMMA SlotIsSlot == ASSUME NEW k PROVE Slot(k) \in Slots
BY DEF Slot, Slots

LEMMA InitIInv == McpInit => IInv
<1>1. IsSeq(NoTool.path) BY OfferedSlots DEF GroupSlot
<1>2. McpInit => /\ call.tool = NoTool /\ call.path = NoTool.path /\ CallShape
                 /\ ArgsInv /\ call.stage = "idle"
  <2>1. DOMAIN NoCall.args = {} /\ NoCall.left = {} BY DEF NoCall
  <2> QED BY <2>1 DEF McpInit, NoCall, NoTool, Tool, CallShape, ArgsInv, ArgsSaid
<1>3. McpInit => Shape /\ req.by = "client"
  BY IdleUntouched DEF McpInit, RequestsInit, Untouched, Shape
<1> QED BY <1>1, <1>2, <1>3 DEF IInv, ToolInv, PathInv, SentInv

LEMMA ConfluentByIInv == IInv => RenderingConfluent
BY SlotIsSlot DEF IInv, PathInv, SentInv, RenderingConfluent

\* What the gateway does to the request is no matter to the path.
LEMMA GatewayKept == ASSUME IInv, Keeps, UNCHANGED call PROVE IInv'
BY DEF IInv, Keeps, CallShape, ToolInv, ArgsInv, PathInv, SentInv

LEMMA ClientAsksKept == ASSUME IInv, ClientAsks, UNCHANGED call PROVE IInv'
<1>1. Shape' /\ req'.by = "client" BY ClientBegins DEF Begins, Untouched, Shape
<1> QED BY <1>1 DEF IInv, CallShape, ToolInv, ArgsInv, PathInv, SentInv

LEMMA EndKept ==
  ASSUME IInv, NEW result, End(result), UNCHANGED req, call.stage # "idle" PROVE IInv'
BY DEF End, IInv, Shape, CallShape, ToolInv, ArgsInv, PathInv, SentInv

LEMMA ValueSaid == ASSUME NEW k, NEW x \in Value(k) PROVE x \in SaidValues
<1>1. CASE k \in DOMAIN Said BY <1>1 DEF SaidValues, Value
<1>2. CASE k \notin DOMAIN Said BY <1>2 DEF SaidValues, Value
<1> QED BY <1>1, <1>2

LEMMA ArgumentsSaid == ASSUME NEW t, NEW args \in Arguments(t) PROVE ArgsSaid(args)
<1>1. ASSUME NEW f \in Whole(t)
      PROVE  DOMAIN f = t.required /\ \A k \in DOMAIN f : f[k] \in Value(k)
  BY DEF Whole
<1>2. ASSUME NEW f \in Whole(t) PROVE ArgsSaid(f) BY <1>1, <1>2 DEF ArgsSaid
<1>3. ASSUME NEW f \in Whole(t), NEW k, args \in Spoilt(f, k) PROVE ArgsSaid(args)
  <2>1. \A j \in DOMAIN f : f[j] \in Value(j) BY <1>1
  <2>2. CASE args = [f EXCEPT ![k] = ""] BY <2>1, <2>2 DEF ArgsSaid
  <2>3. CASE args = [f EXCEPT ![k] = NotString] BY <2>1, <2>3 DEF ArgsSaid
  <2>4. CASE args = [j \in DOMAIN f \ {k} |-> f[j]] BY <2>1, <2>4 DEF ArgsSaid
  <2> QED BY <1>3, <2>2, <2>3, <2>4 DEF Spoilt
<1>4. args \in Whole(t) \/ \E f \in Whole(t), k \in t.required : args \in Spoilt(f, k)
  BY DEF Arguments
<1> QED BY <1>2, <1>3, <1>4

LEMMA CallToolKept == ASSUME IInv, CallTool PROVE IInv'
<1>0. PICK t \in offered : \E args \in Arguments(t) :
        call' = [NoCall EXCEPT !.stage = "rendering", !.tool = t, !.args = args,
                               !.path = t.path, !.left = DOMAIN args]
  BY DEF CallTool
<1>1. PICK args \in Arguments(t) :
        call' = [NoCall EXCEPT !.stage = "rendering", !.tool = t, !.args = args,
                               !.path = t.path, !.left = DOMAIN args]
  BY <1>0
<1>2. req.by # "tool" /\ UNCHANGED req BY DEF CallTool, IInv, SentInv
<1>3. /\ CallShape' /\ call'.args = args /\ call'.left = DOMAIN args
      /\ call'.path = t.path /\ call'.tool = t
  BY <1>1 DEF CallShape, NoCall
<1>4. IsSeq(t.path) BY OfferedSlots DEF GroupSlot
<1> QED BY <1>2, <1>3, <1>4, ArgumentsSaid DEF IInv, Shape, ToolInv, ArgsInv, PathInv, SentInv

LEMMA PathStays ==
  ASSUME NEW path, IsSeq(path), NEW slot, NEW x, NEW next,
         next = [i \in DOMAIN path |-> IF path[i] = slot THEN x ELSE path[i]]
  PROVE  IsSeq(next)
<1>1. PICK S : path \in Seq(S) BY DEF IsSeq
<1>2. DOMAIN path = 1 .. Len(path) /\ Len(path) \in Nat BY <1>1
<1>3. \A i \in 1 .. Len(path) : path[i] \in S BY <1>1
<1>4. next \in [1 .. Len(path) -> S \cup {x}] BY <1>2, <1>3
<1>5. next \in Seq(S \cup {x}) BY <1>2, <1>4
<1> QED BY <1>5 DEF IsSeq

LEMMA RenderKeyKept == ASSUME IInv, NEW k \in call.left, RenderKey(k) PROVE IInv'
<1> DEFINE v == call.args[k]
           held == \E i \in DOMAIN call.path : call.path[i] = Slot(k)
<1>1. k \in DOMAIN call.args /\ v \in SaidValues \cup {NotString}
  <2>1. k \in DOMAIN call.args /\ v \in Value(k) \cup {"", NotString}
    BY DEF IInv, ArgsInv, ArgsSaid
  <2>2. "" \in SaidValues BY DEF SaidValues
  <2> QED BY <2>1, <2>2, ValueSaid
<1>2. req.by # "tool" /\ UNCHANGED req BY DEF RenderKey, IInv, SentInv
<1>a. call.stage = "rendering" BY DEF RenderKey
<1>3. CASE End("error") BY <1>2, <1>3, <1>a, EndKept
<1>4. CASE call' = [call EXCEPT !.left = @ \ {k}]
  BY <1>2, <1>4 DEF IInv, Shape, CallShape, ToolInv, ArgsInv, PathInv, SentInv
<1>5. ASSUME v # NotString,
             call' = [call EXCEPT !.left = @ \ {k},
               !.path = [i \in DOMAIN @ |-> IF @[i] = Slot(k) THEN rendered(v) ELSE @[i]]]
      PROVE  IInv'
  <2>1. Escape(v) \notin Slots BY <1>1, <1>5, McpAssumption
  <2>2. /\ CallShape' /\ call'.tool = call.tool /\ call'.args = call.args
        /\ call'.left = call.left \ {k} /\ call'.stage = call.stage
        /\ call'.path = [i \in DOMAIN call.path |->
                          IF call.path[i] = Slot(k) THEN Escape(v) ELSE call.path[i]]
    BY <1>5 DEF IInv, CallShape, rendered
  <2>3. IsSeq(call'.path)
    <3> DEFINE path == call.path
               next == call'.path
               slot == Slot(k)
               x == Escape(v)
    <3>1. IsSeq(path) BY DEF IInv, PathInv
    <3>2. next = [i \in DOMAIN path |-> IF path[i] = slot THEN x ELSE path[i]] BY <2>2
    <3> HIDE DEF path, next, slot, x
    <3>3. IsSeq(next) BY <3>1, <3>2, PathStays
    <3> QED BY <3>3 DEF next
  <2>4. PathInv' BY <1>1, <1>5, <2>1, <2>2, <2>3, SlotIsSlot DEF IInv, PathInv
  <2>5. ArgsInv' /\ ToolInv' BY <2>2 DEF IInv, ArgsInv, ToolInv
  <2> QED BY <1>2, <2>2, <2>4, <2>5 DEF IInv, Shape, SentInv
<1> QED BY <1>3, <1>4, <1>5 DEF RenderKey

\* What becomes the body: nothing is read of one with an argument of another type.
BodySent ==
  LET body == stripPathParams(call.args, call.tool.path) IN
  IF \E k \in DOMAIN body : body[k] = NotString
  THEN req'.args = << >>
  ELSE req'.args = body /\ req'.body = bodyOrNil(call.tool.method, body)

LEMMA ForwardBegins ==
  ASSUME Forward
  PROVE  \/ UNCHANGED req /\ End("error") /\ call.stage = "rendering"
         \/ /\ Begins /\ req'.by = "tool"
            /\ req'.path = call.path /\ req'.method = call.tool.method
            /\ BodySent /\ req'.name = "" /\ call.stage = "rendering"
            /\ ~ \E i \in DOMAIN call.path : call.path[i] \in Slots
            /\ call' = [call EXCEPT !.stage = "waiting"]
<1>1. ASSUME NEW b \in Bodies, NEW args,
             req' = [Idle EXCEPT !.by = "tool", !.stage = "routing", !.method = call.tool.method,
                                 !.path = call.path, !.args = args, !.body = b]
      PROVE  /\ Begins /\ req'.by = "tool"
             /\ req'.path = call.path /\ req'.method = call.tool.method
             /\ req'.args = args /\ req'.body = b /\ req'.name = ""
  BY <1>1, IdleUntouched DEF Begins, Untouched, HasFields, Idle
<1>2. \A m, body : bodyOrNil(m, body) \in Bodies BY DEF bodyOrNil, Bodies
<1> DEFINE body == stripPathParams(call.args, call.tool.path)
           odd == \E k \in DOMAIN body : body[k] = NotString
           args == IF odd THEN << >> ELSE body
           b == IF odd THEN "bad" ELSE bodyOrNil(call.tool.method, body)
<1>3. b \in Bodies BY <1>2 DEF Bodies
<1>4. \/ UNCHANGED req /\ End("error")
      \/ /\ ~ \E i \in DOMAIN call.path : call.path[i] \in Slots
         /\ call' = [call EXCEPT !.stage = "waiting"]
         /\ req' = [Idle EXCEPT !.by = "tool", !.stage = "routing", !.method = call.tool.method,
                                !.path = call.path, !.args = args, !.body = b]
  BY DEF Forward
<1>5. call.stage = "rendering" BY DEF Forward
<1>6. ASSUME req'.args = args, req'.body = b PROVE BodySent BY <1>6 DEF BodySent
<1> HIDE DEF b, args
<1>7. CASE UNCHANGED req /\ End("error") BY <1>5, <1>7
<1>8. ASSUME req' = [Idle EXCEPT !.by = "tool", !.stage = "routing", !.method = call.tool.method,
                                 !.path = call.path, !.args = args, !.body = b]
      PROVE  /\ Begins /\ req'.by = "tool"
             /\ req'.path = call.path /\ req'.method = call.tool.method
             /\ BodySent /\ req'.name = ""
  BY <1>1, <1>3, <1>6, <1>8
<1> QED BY <1>4, <1>5, <1>7, <1>8

LEMMA ForwardKept == ASSUME IInv, Forward PROVE IInv'
<1>0. call.stage = "rendering" BY DEF Forward
<1>1. CASE UNCHANGED req /\ \E result : End(result) BY <1>0, <1>1, EndKept
<1>2. ASSUME Begins, req'.by = "tool", req'.path = call.path,
             req'.method = call.tool.method,
             BodySent, call.stage = "rendering",
             ~ \E i \in DOMAIN call.path : call.path[i] \in Slots,
             call' = [call EXCEPT !.stage = "waiting"]
      PROVE  IInv'
  <2>1. Shape' /\ req'.stage = "routing" BY <1>2 DEF Begins, Untouched, Shape
  <2>2. /\ CallShape' /\ ToolInv' /\ ArgsInv' /\ PathInv' /\ call'.stage = "waiting"
        /\ call'.path = call.path /\ call'.tool = call.tool /\ call'.args = call.args
    BY <1>2 DEF IInv, CallShape, ToolInv, ArgsInv, PathInv
  <2>3. \A k \in DOMAIN req'.args :
          k \in DOMAIN call.args /\ req'.args[k] = call.args[k] /\ req'.args[k] # NotString
    BY <1>2 DEF BodySent, stripPathParams
  <2> QED BY <1>2, <2>1, <2>2, <2>3 DEF IInv, SentInv
<1> QED BY <1>1, <1>2, ForwardBegins

LEMMA NextIInv == IInv /\ [McpNext]_mcpVars => IInv'
<1> SUFFICES ASSUME IInv, [McpNext]_mcpVars PROVE IInv' OBVIOUS
<1>0. Shape BY DEF IInv
<1>1. CASE CallTool BY <1>1, CallToolKept
<1>2. ASSUME NEW k \in call.left, RenderKey(k) PROVE IInv' BY <1>2, RenderKeyKept
<1>3. CASE Forward BY <1>3, ForwardKept
<1>4. CASE HearAnswer \/ GiveUp BY <1>4, EndKept DEF HearAnswer, GiveUp
<1>5. CASE RequestsNext /\ UNCHANGED call
  BY <1>0, <1>5, ClientAsksKept, ServeKeeps, HandleKeeps, MeanwhileKeeps, GatewayKept
  DEF RequestsNext
<1>6. CASE UNCHANGED mcpVars
  BY <1>6 DEF mcpVars, IInv, Shape, CallShape, ToolInv, ArgsInv, PathInv, SentInv
<1> QED BY <1>1, <1>2, <1>3, <1>4, <1>5, <1>6 DEF McpNext

\* The path that a tool's request carries is its template with each slot replaced by
\* the escaped argument of that slot, for any arguments, in any order that a
\* Go map gives them to renderPath, and it stays so while the request is handled.
THEOREM RendersConfluently == Spec => []RenderingConfluent
<1>1. Spec => []IInv BY InitIInv, NextIInv, PTL DEF Spec
<1> QED BY <1>1, ConfluentByIInv, PTL

-----------------------------------------------------------------------------
(* The other invariants are the gateway's: a call does nothing to them but  *)
(* begin a request.                                                         *)

LEMMA McpSteps ==
  ASSUME [McpNext]_mcpVars
  PROVE  \/ RequestsNext
         \/ (Begins \/ UNCHANGED req) /\ UNCHANGED expirationVars
<1>1. CASE Forward /\ UNCHANGED expirationVars BY <1>1, ForwardBegins
<1> QED BY <1>1 DEF McpNext, mcpVars, CallTool, RenderKey, HearAnswer, GiveUp

LEMMA McpProgresses == Progress /\ [McpNext]_mcpVars => Progress'
<1>1. Begins => Progress' BY DEF Begins, Untouched, Progress, Shape, RefusedDoesNothing
<1> QED BY <1>1, McpSteps, GatewayProgresses, OthersProgress

\* A request that the gateway refuses (a 4xx, or a session that is not connected)
\* has changed nothing, in the gateway or at WhatsApp: for any texts, names,
\* timers and tools, whether a client or a tool asked, in every handler.
THEOREM RefusalsAreClean == Spec => []RefusedDoesNothing
<1>1. McpInit => Progress
  BY IdleUntouched DEF McpInit, RequestsInit, Untouched, Progress, Shape, RefusedDoesNothing
<1>2. Progress => RefusedDoesNothing BY DEF Progress
<1> QED BY <1>1, <1>2, McpProgresses, PTL DEF Spec

LEMMA AlwaysKeyed == Spec => []Keyed
<1>1. McpInit => Keyed BY InitKeyed DEF McpInit
<1>2. Keyed /\ [McpNext]_mcpVars => Keyed'
  BY McpSteps, GatewayKeyed, BeginsKeyed, StillKeyed
<1> QED BY <1>1, <1>2, PTL DEF Spec

\* Whatever a client or a tool asks for, with whatever method and path, no handler
\* but the public ones begins unless the middleware has seen a working key: the
\* router has no entry that it forgot to put the middleware in front of.
THEOREM KeysAreAsked == Spec => []NothingWithoutKey
<1>1. Keyed => NothingWithoutKey BY DEF Keyed
<1> QED BY <1>1, AlwaysKeyed, PTL

LEMMA AlwaysDecisive == Spec => []Decisive
<1>1. McpInit => Decisive BY InitDecisive DEF McpInit
<1>2. Decisive /\ [McpNext]_mcpVars => Decisive'
  BY McpSteps, GatewayDecisive, BeginsDecisive, StillDecisive
<1> QED BY <1>1, <1>2, PTL DEF Spec

\* A timer that a request gives and that fits is the timer of its message, or of
\* its group; a message without one gets the timer that some message of that chat
\* named under that session, or none: for any numbers, widths, chats and messages.
THEOREM TimersAreTheirs == Spec => []SendTimers
BY AlwaysDecisive, DecisiveMeans, PTL

\* A message whose chat had its timer on record since the last wait for WhatsApp
\* is sent with it, however the chats change while it is handled.
THEOREM TimersAreFresh == Spec => []FreshTimers
BY AlwaysDecisive, DecisiveMeans, PTL

\* What was not read to the end is neither uploaded nor sent, in any handler.
THEOREM MediaAreWhole == Spec => []CutMediaIsNotSent
<1>1. Decisive => CutMediaIsNotSent BY DecisiveMeans
<1> QED BY <1>1, AlwaysDecisive, PTL

-----------------------------------------------------------------------------
(* Which group a tool's call is about. *)

\* Of a path and a template of the same domain, one is as long as the other.
LEMMA SameLength ==
  ASSUME NEW s, NEW t, IsSeq(s), IsSeq(t), DOMAIN s = DOMAIN t
  PROVE  Len(s) = Len(t) /\ Len(s) \in Nat /\ DOMAIN s = 1 .. Len(s)
<1>1. PICK S : s \in Seq(S) BY DEF IsSeq
<1>2. PICK T : t \in Seq(T) BY DEF IsSeq
<1>3. Len(s) \in Nat /\ DOMAIN s = 1 .. Len(s) BY <1>1
<1>4. Len(t) \in Nat /\ DOMAIN t = 1 .. Len(t) BY <1>2
<1>5. ASSUME NEW m \in Nat, NEW n \in Nat, m \in 1 .. n \/ m = 0 PROVE m <= n
  BY <1>5
<1>6. ASSUME NEW m \in Nat, NEW n \in Nat, m <= n, n <= m PROVE m = n
  BY <1>6
<1>7. ASSUME NEW m \in Nat, NEW n \in Nat, 1 .. m = 1 .. n PROVE m = n
  <2>1. (m \in 1 .. m \/ m = 0) /\ (n \in 1 .. n \/ n = 0) OBVIOUS
  <2>2. (m \in 1 .. n \/ m = 0) /\ (n \in 1 .. m \/ n = 0) BY <1>7, <2>1, Zenon
  <2> QED BY <1>5, <1>6, <2>2, Zenon
<1>8. 1 .. Len(s) = 1 .. Len(t) BY <1>3, <1>4
<1> QED BY <1>3, <1>4, <1>7, <1>8

\* The gateway takes for the group what the caller gave as "gid".
LEMMA ToolPlace ==
  ASSUME IInv, Keyed, req.at # 0, req.by = "tool",
         parseGroupJID(ParamValue(req.at, req.path, ":gid")) # NoJID
  PROVE  /\ "gid" \in DOMAIN call.args /\ call.args["gid"] # NotString
         /\ ParamValue(req.at, req.path, ":gid") = Escape(call.args["gid"])
<1> DEFINE path == call.path
           template == call.tool.path
<1>1. /\ req.path = path /\ req.method = call.tool.method
      /\ \A i \in DOMAIN path : path[i] \notin Slots
      /\ IsSeq(path) /\ DOMAIN path = DOMAIN template
      /\ \A i \in DOMAIN path :
           \/ path[i] = template[i]
           \/ \E k \in DOMAIN call.args :
                /\ Slot(k) = template[i] /\ call.args[k] # NotString
                /\ path[i] = Escape(call.args[k])
  BY DEF IInv, SentInv, PathInv
<1>2. GroupSlot(call.tool) BY OfferedSlots DEF IInv, ToolInv
<1>3. /\ Len(path) > 4 \/ (Len(path) = 4 /\ req.method = "GET")
      /\ Folded(path[3]) = "groups" /\ ParamValue(req.at, req.path, ":gid") = path[4]
  <2>1. IsSeq(req.path) BY <1>1
  <2>2. /\ Len(req.path) > 4 \/ (Len(req.path) = 4 /\ req.method = "GET")
        /\ Folded(req.path[3]) = "groups" /\ ParamValue(req.at, req.path, ":gid") = req.path[4]
    BY <2>1, GroupAsked
  <2>3. req.path = path BY <1>1
  <2> HIDE DEF path
  <2> QED BY <2>2, <2>3
<1>4. IsSeq(template) BY <1>2 DEF GroupSlot
<1> HIDE DEF path, template
<1>5. Len(template) = Len(path) /\ DOMAIN path = 1 .. Len(path) /\ Len(path) \in Nat
  BY <1>1, <1>4, SameLength
<1>6. 3 \in DOMAIN path /\ 4 \in DOMAIN path BY <1>3, <1>5
<1>7. template[3] # "auth"
  <2>1. \A k : Slot(k) # "auth" BY DEF Slot
  <2>2. Folded("auth") = "auth" BY FoldedAssumption DEF Literals
  <2> QED BY <1>1, <1>3, <1>6, <2>1, <2>2
<1>8. template[4] = "{gid}"
  BY <1>1, <1>2, <1>3, <1>5, <1>7 DEF GroupSlot, template
<1>9. PICK k \in DOMAIN call.args :
        Slot(k) = "{gid}" /\ call.args[k] # NotString /\ path[4] = Escape(call.args[k])
  <2>1. path[4] \notin Slots /\ "{gid}" \in Slots BY <1>1, <1>6 DEF Slots
  <2>2. \/ path[4] = template[4]
        \/ \E k \in DOMAIN call.args :
             /\ Slot(k) = template[4] /\ call.args[k] # NotString
             /\ path[4] = Escape(call.args[k])
    BY <1>1, <1>6
  <2> QED BY <1>8, <2>1, <2>2
<1>10. k = "gid" BY <1>9 DEF Slot
<1> QED BY <1>3, <1>9, <1>10

LEMMA ToolGroup ==
  ASSUME IInv, Keyed, GroupRight, req.did # {}, req.by = "tool", Plain
  PROVE  req.jid = parseGroupJID(call.args["gid"])
<1>1. req.at # 0 BY DEF Keyed
<1> DEFINE text == ParamValue(req.at, req.path, ":gid")
<1>2. req.jid = parseGroupJID(text) /\ parseGroupJID(text) # NoJID BY DEF GroupRight
<1>3. "gid" \in DOMAIN call.args /\ text = Escape(call.args["gid"]) BY <1>1, <1>2, ToolPlace
<1>4. Escape(call.args["gid"]) = call.args["gid"] BY <1>3 DEF Plain
<1> QED BY <1>2, <1>3, <1>4

\* A call to WhatsApp about a group is made with a group's JID, and for a tool with
\* that of the group its caller named: of all routes and templates, those that put
\* something else in the place of the group reach no such call.
THEOREM GroupCallsNamed == Spec => []GroupCallsNameTheGroup
<1>1. IInv /\ Keyed /\ Decisive => GroupCallsNameTheGroup
  <2> SUFFICES ASSUME IInv, Keyed, Decisive, req.did \cap GroupCalls # {}
               PROVE  /\ req.jid.server = GroupServer
                      /\ req.by = "tool" /\ Plain =>
                           req.jid.user = Written[call.args["gid"]].user
    BY DEF GroupCallsNameTheGroup
  <2>1. GroupRight BY DecisiveMeans
  <2>2. ASSUME NEW text, req.jid = parseGroupJID(text)
        PROVE  req.jid.server = GroupServer /\ req.jid.user = Written[text].user
    <3>1. parseGroupJID(text) # NoJID BY <2>1, <2>2 DEF GroupRight
    <3>2. req.jid = [user |-> Written[text].user, server |-> GroupServer]
      BY <2>2, <3>1, GroupJID
    <3> QED BY <3>2
  <2>3. req.jid.server = GroupServer BY <2>1, <2>2 DEF GroupRight
  <2>4. req.did # {} OBVIOUS
  <2>5. req.by = "tool" /\ Plain => req.jid = parseGroupJID(call.args["gid"])
    BY <2>1, <2>4, ToolGroup, Zenon
  <2> QED BY <2>2, <2>3, <2>5
<1>2. Spec => []IInv BY InitIInv, NextIInv, PTL DEF Spec
<1> QED BY <1>1, <1>2, AlwaysKeyed, AlwaysDecisive, PTL

-----------------------------------------------------------------------------
(* Where a tool's call ends. *)

\* What the template of a plain call is rendered to.
LEMMA PlainRenders ==
  ASSUME ToolInv, PathInv, Plain, call.stage # "idle",
         ~ \E i \in DOMAIN call.path : call.path[i] \in Slots
  PROVE  Renders(call.tool, call.path, call.args)
<1> DEFINE p == call.path
           template == call.tool.path
           args == call.args
<1>1. call.tool \in offered BY DEF ToolInv
<1>2. /\ IsSeq(p) /\ DOMAIN p = DOMAIN template
      /\ \A i \in DOMAIN p : p[i] \notin Slots
      /\ \A i \in DOMAIN p : \/ p[i] = template[i]
                            \/ \E k \in DOMAIN args :
                                 Slot(k) = template[i] /\ p[i] = Escape(args[k])
  BY DEF PathInv
<1>3. IsSeq(template) /\ \A i \in DOMAIN template : template[i] \in Slots => template[i] \in Places
  BY <1>1, OfferedLand DEF Lands, GroupSlot
<1>4. \A k \in DOMAIN args : args[k] # "" BY DEF Plain, Complete
<1>5. \A k \in DOMAIN args \cap {"session", "gid", "id"} :
        Escape(args[k]) = args[k] /\ Folded(args[k]) # "sessions"
  BY DEF Plain
<1> HIDE DEF p, template, args
<1>6. Len(p) = Len(template) /\ DOMAIN p = 1 .. Len(p) BY <1>2, <1>3, SameLength
<1>7. \A x \in Places : x \in Slots BY DEF Places, Slots
<1>8. \A k : Slot(k) \in Places => k \in {"session", "gid", "id"} BY DEF Slot, Places
<1>9. \A k : Slot(k) \in Slots BY SlotIsSlot
<1>10. ASSUME NEW i \in 1 .. Len(p)
       PROVE  IF template[i] \in Places
              THEN /\ p[i] # "" /\ Folded(p[i]) # "sessions"
                   /\ \E k \in DOMAIN args : Slot(k) = template[i] /\ p[i] = args[k]
              ELSE p[i] = template[i]
  <2>1. i \in DOMAIN p BY <1>6
  <2>2. CASE template[i] \in Places
    <3>1. p[i] # template[i] BY <1>2, <1>7, <2>1, <2>2
    <3>2. PICK k \in DOMAIN args : Slot(k) = template[i] /\ p[i] = Escape(args[k])
      BY <1>2, <2>1, <3>1
    <3>3. k \in {"session", "gid", "id"} BY <1>8, <2>2, <3>2
    <3>4. p[i] = args[k] /\ args[k] # "" /\ Folded(args[k]) # "sessions"
      BY <1>4, <1>5, <3>2, <3>3
    <3> QED BY <2>2, <3>2, <3>4
  <2>3. CASE template[i] \notin Places
    <3>1. template[i] \notin Slots BY <1>2, <1>3, <2>1, <2>3
    <3> QED BY <1>2, <1>9, <2>1, <2>3, <3>1
  <2> QED BY <2>2, <2>3
<1>11. Renders(call.tool, p, args)
  <2>1. template = call.tool.path BY DEF template
  <2> QED BY <1>2, <1>6, <1>10, <2>1 DEF Renders
<1> QED BY <1>11 DEF p, args

\* The entry g is ahead of the request, is the tool's, and has only the middleware,
\* whose turn is yet to come, between the request and itself.
Ahead(g) ==
  /\ g \in DOMAIN routes /\ g > req.at
  /\ Fits(routes[g], req.method, req.path)
  /\ Mirrors(call.tool, routes[g])
  /\ \A j \in DOMAIN routes :
       req.at < j /\ j < g /\ Fits(routes[j], req.method, req.path) =>
         routes[j] = Auth /\ ~req.key

Arrives ==
  /\ req.name \in {"", call.args["session"]}
  /\ req.stage = "routing" => \E g : Ahead(g)
  /\ req.stage = "handling" =>
       /\ req.at # 0 /\ Mirrors(call.tool, routes[req.at])
       /\ InPath \cap {":session", ":name"} # {} => req.name = call.args["session"]
  /\ req.stage = "answered" =>
       \/ Handler = call.tool.means
       \/ Handler = "authMiddleware" /\ ~req.key /\ req.status \in {401, 500}

Reach == req.by = "tool" /\ Plain => Arrives

\* What a call takes for an answer is one.
Heeded ==
  /\ req.stage = "answered" => req.status \in Statuses
  /\ call.stage = "waiting" => req.by = "tool"
  /\ call.result = "ok" => /\ call.stage = "over" /\ req.by = "tool"
                           /\ req.stage = "answered" /\ req.status < 400

RInv == IInv /\ Keyed /\ Reach /\ Heeded

LEMMA InFront ==
  ASSUME NEW g \in 1 .. Len(routes)
  PROVE  /\ g \in DOMAIN routes /\ g > 0
         /\ \A j \in DOMAIN routes : j < g => j \in 1 .. g - 1
BY RoutesDomain

\* An entry is ahead when the request begins.
LEMMA ForwardArrives ==
  ASSUME IInv, Forward, Begins, Plain, req'.path = call.path, req'.method = call.tool.method,
         req'.name = "", ~ \E i \in DOMAIN call.path : call.path[i] \in Slots,
         call'.tool = call.tool, call'.args = call.args
  PROVE  Arrives'
<1>1. req'.at = 0 /\ req'.key = FALSE /\ req'.stage = "routing" BY DEF Begins, Untouched
<1>2. call.stage = "rendering" BY DEF Forward
<1>3. call.tool \in offered BY <1>2 DEF IInv, ToolInv
<1> DEFINE t == call.tool
           m == t.method
           p == call.path
<1>4. Renders(t, p, call.args) BY <1>2, PlainRenders DEF IInv
<1>5. \E e : Mirrors(t, e) /\ Takes(routes, e, m, p) BY <1>3, <1>4, OfferedLand DEF Lands
<1> HIDE DEF t, m, p
<1>6. PICK g \in 1 .. Len(routes) :
        /\ Fits(routes[g], m, p) /\ Mirrors(t, routes[g])
        /\ \A j \in 1 .. g - 1 : Fits(routes[j], m, p) => routes[j] = Auth
  BY <1>5 DEF Takes
<1>7. /\ g \in DOMAIN routes /\ g > 0
      /\ \A j \in DOMAIN routes : j < g => j \in 1 .. g - 1
  BY InFront
<1>8. Ahead(g)'
  <2>1. req'.method = m /\ req'.path = p /\ call'.tool = t
    BY DEF m, p, t
  <2> QED BY <1>1, <1>6, <1>7, <2>1 DEF Ahead
<1> QED BY <1>1, <1>8 DEF Arrives

\* An entry that is ahead is found.
LEMMA FitIsFound ==
  ASSUME NEW n, NEW method, NEW path, NEW g \in DOMAIN routes, g > n,
         Fits(routes[g], method, path)
  PROVE  NextFit(n, method, path) # 0
<1> DEFINE later == {j \in DOMAIN routes : j > n /\ Fits(routes[j], method, path)}
           first == CHOOSE j \in later : \A k \in later : j <= k
<1>1. later \subseteq Nat /\ 0 \notin later BY RoutesDomain
<1>2. later # {} OBVIOUS
<1>3. NextFit(n, method, path) = first BY <1>2, Zenon DEF NextFit
<1>4. \E j \in later : \A k \in later : j <= k BY <1>1, <1>2, Least
<1>5. first \in later BY <1>4
<1> HIDE DEF first
<1> QED BY <1>1, <1>3, <1>5

\* Where the entry i takes the parameter x from, the template of t has the slot.
Taken(i, t, path, x) ==
  \E j \in 1 .. Len(path) :
    t.path[j] = Place(x) /\ Place(x) \in Places /\ ParamValue(i, path, x) = path[j]

LEMMA ParamTaken ==
  ASSUME NEW i, NEW t, Mirrors(t, routes[i]), NEW path, NEW args, Renders(t, path, args),
         NEW x \in Params, \E j \in DOMAIN routes[i].pattern : routes[i].pattern[j] = x
  PROVE  Taken(i, t, path, x)
<1> DEFINE r == routes[i]
           at == {j \in DOMAIN r.pattern : r.pattern[j] = x}
           first == CHOOSE j \in at : TRUE
<1>1. at # {} OBVIOUS
<1>2. ParamValue(i, path, x) = path[first] BY <1>1, Zenon DEF ParamValue
<1>3. first \in at BY <1>1
<1> HIDE DEF first
<1>4. first \in DOMAIN r.pattern /\ r.pattern[first] = x BY <1>3
<1> HIDE DEF at, r
<1>5. IsSeq(r.pattern) /\ Len(t.path) = Len(r.pattern)
      /\ \A j \in 1 .. Len(r.pattern) : Like(r.pattern[j], t.path[j])
  BY DEF Mirrors, r
<1>6. first \in 1 .. Len(r.pattern)
  <2>1. PICK S : r.pattern \in Seq(S) BY <1>5 DEF IsSeq
  <2> QED BY <1>4, <2>1
<1>7. t.path[first] = Place(x) /\ Place(x) \in Places
  <2>1. Like(x, t.path[first]) BY <1>4, <1>5, <1>6
  <2> QED BY <2>1 DEF Like, Place, Places
<1>8. first \in 1 .. Len(path) BY <1>5, <1>6 DEF Renders
<1> QED BY <1>2, <1>7, <1>8 DEF Taken

\* What an entry takes from a path that the tool it is there for was rendered to.
LEMMA ParamHeld ==
  ASSUME NEW i, NEW t, Mirrors(t, routes[i]), NEW path, NEW args, Renders(t, path, args),
         NEW x \in Params, NEW k, \A n : Slot(n) = Place(x) => n = k,
         \E j \in DOMAIN routes[i].pattern : routes[i].pattern[j] = x
  PROVE  k \in DOMAIN args /\ ParamValue(i, path, x) = args[k]
<1>1. Taken(i, t, path, x) BY ParamTaken
<1>2. PICK j \in 1 .. Len(path) :
        t.path[j] = Place(x) /\ Place(x) \in Places /\ ParamValue(i, path, x) = path[j]
  BY <1>1 DEF Taken
<1>3. PICK n \in DOMAIN args : Slot(n) = t.path[j] /\ path[j] = args[n] BY <1>2 DEF Renders
<1> QED BY <1>2, <1>3

LEMMA ParamGiven ==
  ASSUME NEW i, NEW t, Mirrors(t, routes[i]), NEW path, NEW args, Renders(t, path, args),
         NEW x \in Params, NEW k, \A n : Slot(n) = Place(x) => n = k
  PROVE  LET taken == ParamValue(i, path, x) IN
         IF \E j \in DOMAIN routes[i].pattern : routes[i].pattern[j] = x
         THEN taken # "" /\ k \in DOMAIN args /\ taken = args[k] ELSE taken = ""
<1>1. CASE \E j \in DOMAIN routes[i].pattern : routes[i].pattern[j] = x
  <2>1. k \in DOMAIN args /\ ParamValue(i, path, x) = args[k] BY <1>1, ParamHeld
  <2>2. Taken(i, t, path, x) BY <1>1, ParamTaken
  <2>3. PICK j \in 1 .. Len(path) :
          t.path[j] = Place(x) /\ Place(x) \in Places /\ ParamValue(i, path, x) = path[j]
    BY <2>2 DEF Taken
  <2>4. path[j] # "" BY <2>3 DEF Renders
  <2> QED BY <1>1, <2>1, <2>3, <2>4, Zenon
<1>2. CASE ~ \E j \in DOMAIN routes[i].pattern : routes[i].pattern[j] = x
  <2>1. {j \in DOMAIN routes[i].pattern : routes[i].pattern[j] = x} = {} BY <1>2
  <2>2. ParamValue(i, path, x) = "" BY <2>1, Zenon DEF ParamValue
  <2> QED BY <1>2, <2>2, Zenon
<1> QED BY <1>1, <1>2, Zenon

\* The name of a session, from the path.
LEMMA NameGiven ==
  ASSUME NEW i, NEW t, Mirrors(t, routes[i]), NEW args, Renders(t, req.path, args)
  PROVE  /\ NameIn(i) \in {"", args["session"]}
         /\ (\E x \in {":session", ":name"} : \E j \in DOMAIN routes[i].pattern :
               routes[i].pattern[j] = x) => NameIn(i) = args["session"]
<1>1. \A x \in {":session", ":name"} : x \in Params /\ \A n : Slot(n) = Place(x) => n = "session"
  <2>1. \A x \in {":session", ":name"} : x \in Params /\ Place(x) = "{session}"
    BY DEF Params, Place
  <2>2. \A n : Slot(n) = "{session}" => n = "session" BY DEF Slot
  <2> QED BY <2>1, <2>2
<1>2. \A x \in {":session", ":name"} :
        LET taken == ParamValue(i, req.path, x) IN
        IF \E j \in DOMAIN routes[i].pattern : routes[i].pattern[j] = x
        THEN taken # "" /\ "session" \in DOMAIN args /\ taken = args["session"] ELSE taken = ""
  BY <1>1, ParamGiven
<1> QED BY <1>2 DEF NameIn

LEMMA ServeArrives ==
  ASSUME IInv, Keyed, Plain, Arrives, call.tool \in offered, req.by = "tool", Serve,
         UNCHANGED call
  PROVE  Arrives'
<1> DEFINE i == NextFit(req.at, req.method, req.path)
           t == call.tool
           h == t.means
           v == call.args["session"]
<1>0. Shape /\ req.at \in Nat BY RoutesDomain DEF Keyed
<1>1. req.stage = "routing" /\ Routed(i) BY <1>0, ServeSteps
<1>2. PICK g : Ahead(g) BY <1>1 DEF Arrives
<1>3. /\ g \in DOMAIN routes /\ g > req.at /\ Fits(routes[g], req.method, req.path)
      /\ Mirrors(t, routes[g]) /\ routes[g].handler = h
  BY <1>2 DEF Ahead, Mirrors
<1>4. i # 0 BY <1>3, FitIsFound
<1>5. /\ i \in DOMAIN routes /\ i > req.at /\ Fits(routes[i], req.method, req.path) /\ i <= g
  BY <1>3, <1>4, NextFitIs
<1>6. h \notin Middlewares BY OfferedLand DEF Lands
<1>7. call'.tool = t /\ call'.tool.means = h /\ call'.args["session"] = v OBVIOUS
<1>r. Renders(t, req.path, call.args) BY PlainRenders DEF IInv, SentInv
<1> HIDE DEF i, t, h
<1>8. /\ req'.at = i /\ req'.path = req.path /\ req'.method = req.method
  BY <1>1, <1>4 DEF Routed, Aside
<1>9. Handler' = routes[i].handler BY <1>4, <1>8 DEF Handler
<1>10. CASE i = g
  <2>1. req'.stage = "handling" /\ req'.name = NameIn(i)
    BY <1>1, <1>3, <1>4, <1>6, <1>10 DEF Routed
  <2>2. /\ NameIn(i) \in {"", v}
        /\ (\E x \in {":session", ":name"} : \E j \in DOMAIN routes[i].pattern :
              routes[i].pattern[j] = x) => NameIn(i) = v
    BY <1>3, <1>r, <1>10, NameGiven
  <2>3. InPath' = {routes[i].pattern[j] : j \in DOMAIN routes[i].pattern} BY <1>8 DEF InPath
  <2> HIDE DEF v
  <2>4. /\ req'.at # 0 /\ Mirrors(t, routes[req'.at]) /\ req'.name \in {"", v}
        /\ InPath' \cap {":session", ":name"} # {} => req'.name = v
    BY <1>3, <1>4, <1>8, <1>10, <2>1, <2>2, <2>3
  <2> QED BY <1>7, <2>1, <2>4 DEF Arrives
<1>11. CASE i # g
  <2>1. i < g BY <1>3, <1>5, <1>11, RoutesDomain
  <2>2. routes[i] = Auth /\ ~req.key BY <1>2, <1>5, <2>1 DEF Ahead
  <2>3. routes[i].handler = "authMiddleware" BY <2>2 DEF Auth, Use, R
  <2>4. routes[i].handler \notin DOMAIN StepsOf BY <2>3 DEF StepsOf
  <2>5. req'.name = req.name
        /\ \/ req'.stage = "answered" /\ req'.key = req.key /\ req'.status \in {401, 500}
           \/ req'.stage = "routing"
    BY <1>1, <1>4, <2>3, <2>4 DEF Routed
  <2>6. req'.name \in {"", v} BY <2>5 DEF Arrives, v
  <2>7. Ahead(g)'
    <3>1. \A j \in DOMAIN routes : i < j /\ j < g /\ Fits(routes[j], req.method, req.path) => FALSE
      <4> SUFFICES ASSUME NEW j \in DOMAIN routes, i < j, j < g,
                          Fits(routes[j], req.method, req.path)
                   PROVE  FALSE
        OBVIOUS
      <4>1. req.at < j BY <1>0, <1>5, RoutesDomain
      <4>2. routes[j] = Auth BY <1>2, <4>1 DEF Ahead
      <4>3. i = j BY <1>5, <2>2, <4>2, RoutesAuthOnce, RoutesDomain DEF AuthOnce
      <4> QED BY <1>5, <4>3, RoutesDomain
    <3>2. g > req'.at /\ Fits(routes[g], req'.method, req'.path)
      BY <1>3, <1>8, <2>1, <1>5, RoutesDomain
    <3>3. Mirrors(call'.tool, routes[g]) BY <1>3, <1>7
    <3>4. \A j \in DOMAIN routes :
            req'.at < j /\ j < g /\ Fits(routes[j], req'.method, req'.path) => FALSE
      BY <1>8, <3>1
    <3> QED BY <1>3, <3>2, <3>3, <3>4 DEF Ahead
  <2> QED BY <1>7, <1>9, <2>2, <2>3, <2>5, <2>6, <2>7 DEF Arrives
<1> QED BY <1>10, <1>11

LEMMA HandleArrives ==
  ASSUME IInv, Arrives, Handle, req.by = "tool", UNCHANGED call
  PROVE  Arrives'
<1>1. req.stage = "handling" BY OnlyHandling
<1>2. /\ req.at # 0 /\ Mirrors(call.tool, routes[req.at])
      /\ InPath \cap {":session", ":name"} # {} => req.name = call.args["session"]
      /\ req.name \in {"", call.args["session"]}
  BY <1>1 DEF Arrives
<1>3. Values("session") \subseteq {"", call.args["session"]}
  BY DEF Values, IInv, SentInv
<1>4. /\ req'.at = req.at /\ req'.stage \in {"handling", "answered"}
      /\ req'.name \in {req.name} \cup Values("session")
  BY HandleSteps DEF IInv, GoesOn, Advance, Decided, Stops, Stays
<1>5. InPath \cap {":session", ":name"} # {} => req'.name = req.name
  BY HandleSteps DEF IInv, GoesOn, Advance, Decided, Stops
<1>6. Handler' = call.tool.means /\ InPath' = InPath BY <1>2, <1>4 DEF Handler, InPath, Mirrors
<1>7. req'.name \in {"", call'.args["session"]} BY <1>2, <1>3, <1>4
<1>8. /\ req'.at # 0 /\ Mirrors(call'.tool, routes[req'.at])
      /\ InPath' \cap {":session", ":name"} # {} => req'.name = call'.args["session"]
  BY <1>2, <1>4, <1>5, <1>6
<1>9. Handler' = call'.tool.means BY <1>6
<1>10. req'.stage # "routing" BY <1>4
<1> QED BY <1>7, <1>8, <1>9, <1>10 DEF Arrives

LEMMA SameArrives ==
  ASSUME call'.tool = call.tool, call'.args = call.args
  PROVE  (Plain' <=> Plain) /\ (UNCHANGED req /\ Arrives => Arrives')
<1>1. Plain' <=> Plain BY DEF Plain, Complete
<1>2. ASSUME UNCHANGED req, NEW g, Ahead(g) PROVE Ahead(g)' BY <1>2 DEF Ahead
<1>3. (Handler' = Handler /\ InPath' = InPath) \/ ~UNCHANGED req BY DEF Handler, InPath
<1>4. ASSUME UNCHANGED req, Arrives PROVE Arrives'
  <2>1. Handler' = Handler /\ InPath' = InPath BY <1>3, <1>4
  <2>2. (req.stage = "routing" => \E g : Ahead(g)') /\ req'.name \in {"", call'.args["session"]}
    <3>1. /\ (req.stage = "routing" => \E g : Ahead(g))
          /\ req.name \in {"", call.args["session"]}
      BY <1>4 DEF Arrives
    <3> QED BY <1>2, <1>4, <3>1
  <2>3. req.stage = "handling" =>
          /\ req'.at # 0 /\ Mirrors(call'.tool, routes[req'.at])
          /\ InPath' \cap {":session", ":name"} # {} => req'.name = call'.args["session"]
    <3>1. req.stage = "handling" =>
            /\ req.at # 0 /\ Mirrors(call.tool, routes[req.at])
            /\ InPath \cap {":session", ":name"} # {} => req.name = call.args["session"]
      BY <1>4 DEF Arrives
    <3> QED BY <1>4, <2>1, <3>1
  <2>4. req.stage = "answered" =>
          \/ Handler = call.tool.means
          \/ Handler = "authMiddleware" /\ ~req.key /\ req.status \in {401, 500}
    BY <1>4 DEF Arrives
  <2>5. req.stage = "answered" =>
          \/ Handler' = call'.tool.means
          \/ Handler' = "authMiddleware" /\ ~req'.key /\ req'.status \in {401, 500}
    BY <1>4, <2>1, <2>4
  <2> QED BY <1>4, <2>2, <2>3, <2>5 DEF Arrives
<1> QED BY <1>1, <1>4

LEMMA CallReach == ASSUME RInv, [McpNext]_mcpVars PROVE Reach'
<1>0. /\ IInv /\ Keyed /\ Reach /\ Heeded
      /\ req.by = "tool" => /\ req.stage # "idle" /\ call.stage \in {"waiting", "over"}
                            /\ call.tool \in offered
  BY DEF RInv, IInv, SentInv, ToolInv
<1>1. CASE CallTool
  <2>1. req'.by # "tool" BY <1>0, <1>1 DEF CallTool
  <2> QED BY <2>1 DEF Reach
<1>2. ASSUME NEW k, RenderKey(k) PROVE Reach'
  <2>1. req'.by # "tool" BY <1>0, <1>2 DEF RenderKey
  <2> QED BY <2>1 DEF Reach
<1>3. ASSUME call'.tool = call.tool, call'.args = call.args, UNCHANGED req PROVE Reach'
  BY <1>0, <1>3, SameArrives DEF Reach
<1>4. CASE Forward
  <2>1. CASE UNCHANGED req /\ \E result : End(result)
    <3>1. req'.by # "tool" BY <1>0, <1>4, <2>1 DEF Forward
    <3> QED BY <3>1 DEF Reach
  <2>2. CASE /\ Begins /\ req'.by = "tool"
             /\ req'.path = call.path /\ req'.method = call.tool.method /\ req'.name = ""
             /\ ~ \E i \in DOMAIN call.path : call.path[i] \in Slots
             /\ call' = [call EXCEPT !.stage = "waiting"]
    <3>1. call'.tool = call.tool /\ call'.args = call.args BY <1>0, <2>2 DEF IInv, CallShape
    <3>2. Plain => Arrives' BY <1>0, <1>4, <2>2, <3>1, ForwardArrives
    <3> QED BY <3>1, <3>2, SameArrives DEF Reach
  <2> QED BY <1>4, <2>1, <2>2, ForwardBegins
<1>5. CASE HearAnswer \/ GiveUp
  BY <1>0, <1>3, <1>5 DEF HearAnswer, GiveUp, End, IInv, CallShape
<1>6. CASE RequestsNext /\ UNCHANGED call
  <2>0. Shape BY <1>0 DEF IInv
  <2>1. CASE ClientAsks
    <3>1. req'.by = "client" BY <2>1, ClientBegins
    <3> QED BY <3>1 DEF Reach
  <2>2. CASE Meanwhile
    <3>1. req'.by = req.by BY <2>0, <2>2, MeanwhileKeeps DEF Keeps
    <3>2. req'.by # "tool" BY <2>2, <3>1 DEF Meanwhile
    <3> QED BY <3>2 DEF Reach
  <2>3. ASSUME req'.by = req.by, req.by = "tool" /\ Plain /\ Arrives => Arrives' PROVE Reach'
    BY <1>0, <1>6, <2>3, SameArrives DEF Reach
  <2>4. CASE Serve
    <3>1. req'.by = req.by BY <2>0, <2>4, ServeKeeps DEF Keeps
    <3> QED BY <1>0, <1>6, <2>3, <2>4, <3>1, ServeArrives
  <2>5. CASE Handle
    <3>1. req'.by = req.by BY <2>0, <2>5, HandleKeeps DEF Keeps
    <3> QED BY <1>0, <1>6, <2>3, <2>5, <3>1, HandleArrives
  <2> QED BY <1>6, <2>1, <2>2, <2>4, <2>5 DEF RequestsNext
<1>7. CASE UNCHANGED mcpVars BY <1>3, <1>7 DEF mcpVars
<1> QED BY <1>1, <1>2, <1>4, <1>5, <1>6, <1>7 DEF McpNext

LEMMA CallHeeded == ASSUME RInv, [McpNext]_mcpVars PROVE Heeded'
<1>0. /\ IInv /\ Keyed /\ Heeded
      /\ req.by = "tool" => req.stage # "idle" /\ call.stage \in {"waiting", "over"}
  BY DEF RInv, IInv, SentInv
<1>s. Shape /\ CallShape BY <1>0 DEF IInv
<1>1. CASE CallTool
  <2>1. call'.stage = "rendering" /\ call'.result = "none" BY <1>1 DEF CallTool, NoCall
  <2>2. req' = req BY <1>1 DEF CallTool
  <2> QED BY <1>0, <2>1, <2>2 DEF Heeded
<1>2. ASSUME NEW result, End(result), UNCHANGED req, call.stage # "over",
             result = "ok" => /\ req.by = "tool" /\ req.stage = "answered" /\ req.status < 400
      PROVE  Heeded'
  <2>1. call'.stage = "over" /\ call'.result = result BY <1>2, <1>s DEF End, CallShape
  <2> QED BY <1>0, <1>2, <2>1 DEF Heeded
<1>3. ASSUME NEW k, RenderKey(k) PROVE Heeded'
  <2>1. call.stage = "rendering" /\ UNCHANGED req BY <1>3 DEF RenderKey
  <2>2. CASE End("error") BY <1>2, <2>1, <2>2
  <2>3. CASE call'.stage = call.stage /\ call'.result = call.result BY <1>0, <2>1, <2>3 DEF Heeded
  <2> QED BY <1>3, <1>s, <2>2, <2>3 DEF RenderKey, CallShape
<1>4. CASE Forward
  <2>1. CASE UNCHANGED req /\ End("error") /\ call.stage = "rendering"
    BY <1>2, <2>1
  <2>2. CASE Begins /\ req'.by = "tool" /\ call.stage = "rendering"
             /\ call' = [call EXCEPT !.stage = "waiting"]
    <3>1. req'.stage = "routing" /\ call'.stage = "waiting" /\ call'.result = call.result
      BY <1>s, <2>2 DEF Begins, CallShape
    <3> QED BY <1>0, <2>2, <3>1 DEF Heeded
  <2> QED BY <1>4, <2>1, <2>2, ForwardBegins
<1>5. CASE HearAnswer
  <2>1. /\ call.stage = "waiting" /\ req.stage = "answered" /\ UNCHANGED req
        /\ End(doResult(req.status)) /\ req.by = "tool" /\ req.status \in Statuses
    BY <1>0, <1>5 DEF HearAnswer, Heeded
  <2>2. doResult(req.status) = "ok" => req.status < 400
    <3>1. doResult(req.status) = "ok" => ~(req.status >= 400) BY DEF doResult
    <3>2. \A x \in Statuses : ~(x >= 400) => x < 400 BY DEF Statuses
    <3> QED BY <2>1, <3>1, <3>2
  <2> QED BY <1>2, <2>1, <2>2
<1>6. CASE GiveUp BY <1>2, <1>6 DEF GiveUp
<1>7. CASE RequestsNext /\ UNCHANGED call
  <2>1. ASSUME req.stage # "answered", req'.stage = "answered" => req'.status \in Statuses,
               req'.by = req.by \/ req.stage = "idle"
        PROVE  Heeded'
    BY <1>0, <1>7, <2>1 DEF Heeded
  <2>2. CASE ClientAsks
    <3>1. req.stage = "idle" /\ req'.stage = "routing"
      BY <2>2, ClientBegins DEF ClientAsks, Begins
    <3> QED BY <2>1, <3>1
  <2>3. CASE Serve
    <3>1. req.stage = "routing" /\ (req'.stage = "answered" => req'.status \in Statuses)
      BY <1>s, <2>3, ServeSteps DEF Routed
    <3> QED BY <1>s, <2>1, <2>3, <3>1, ServeKeeps DEF Keeps
  <2>4. CASE Handle
    <3>1. req.stage = "handling" BY <2>4, OnlyHandling
    <3>2. req'.stage = "answered" => req'.status \in Statuses
      BY <1>s, <2>4, HandleSteps DEF GoesOn, Advance, Stops
    <3> QED BY <1>s, <2>1, <2>4, <3>1, <3>2, HandleKeeps DEF Keeps
  <2>5. CASE Meanwhile
    <3>1. req.stage = "handling" /\ req'.stage = "handling"
      BY <1>s, <2>5 DEF Meanwhile, Shape, HasFields
    <3> QED BY <1>s, <2>1, <2>5, <3>1, MeanwhileKeeps DEF Keeps
  <2> QED BY <1>7, <2>2, <2>3, <2>4, <2>5 DEF RequestsNext
<1>8. CASE UNCHANGED mcpVars BY <1>0, <1>8 DEF mcpVars, Heeded
<1> QED BY <1>1, <1>3, <1>4, <1>5, <1>6, <1>7, <1>8 DEF McpNext

LEMMA AlwaysReach == Spec => []RInv
<1>1. McpInit => RInv
  <2> SUFFICES ASSUME McpInit PROVE RInv OBVIOUS
  <2>1. IInv /\ Keyed BY InitIInv, InitKeyed DEF McpInit
  <2>2. req = Idle /\ call = NoCall BY DEF McpInit, RequestsInit
  <2>3. call.stage = "idle" /\ call.result = "none" BY <2>2 DEF NoCall
  <2>4. Reach /\ Heeded BY <2>2, <2>3, IdleUntouched DEF Reach, Heeded
  <2> QED BY <2>1, <2>4 DEF RInv
<1>2. RInv /\ [McpNext]_mcpVars => RInv'
  <2> SUFFICES ASSUME RInv, [McpNext]_mcpVars PROVE RInv' OBVIOUS
  <2>1. IInv /\ Keyed BY DEF RInv
  <2>2. IInv' BY <2>1, NextIInv
  <2>3. Keyed' BY <2>1, McpSteps, GatewayKeyed, BeginsKeyed, StillKeyed
  <2> QED BY <2>2, <2>3, CallReach, CallHeeded DEF RInv
<1> QED BY <1>1, <1>2, PTL DEF Spec

\* Of all entries of the router, the one that a plain call of a tool comes to is the
\* one that the tool's description tells of, for the session that the call
\* named, or its key is refused: for any tools that are offered, any texts, and
\* any escaping, since no template can be rendered to what an earlier entry takes.
THEOREM ToolsReachTheirHandlers == Spec => []ToolReachesItsHandler
<1>1. RInv => ToolReachesItsHandler
  BY DEF RInv, Reach, Arrives, Handler, Mirrors, ToolReachesItsHandler
<1> QED BY <1>1, AlwaysReach, PTL

\* A tool reports success only for a request that its own handler has handled to the
\* end: what the middleware, the router or a refusing handler answers is an error.
THEOREM OkIsHandled == Spec => []ToolOkMeansHandled
<1>1. ASSUME RInv, call.result = "ok", Plain PROVE req.status = 200 /\ Handler = call.tool.means
  <2>1. /\ req.by = "tool" /\ req.stage = "answered" /\ req.status < 400
        /\ req.status \in Statuses
    BY <1>1 DEF RInv, Heeded
  <2>2. \A x \in Statuses : x < 400 => x = 200 BY DEF Statuses
  <2>3. req.status = 200 BY <2>1, <2>2
  <2>4. \/ Handler = call.tool.means
        \/ req.status \in {401, 500}
    BY <1>1, <2>1 DEF RInv, Reach, Arrives
  <2> QED BY <2>3, <2>4
<1>2. RInv => ToolOkMeansHandled BY <1>1 DEF ToolOkMeansHandled
<1> QED BY <1>2, AlwaysReach, PTL
-----------------------------------------------------------------------------
(* What a whole call is refused for. *)

\* A slot of the template stands beside a parameter of the pattern.
LEMMA HeldIsTaken ==
  ASSUME NEW t, NEW r, Mirrors(t, r), NEW slot \in Places, Holds(t, slot)
  PROVE  \E j \in DOMAIN r.pattern : r.pattern[j] \in Params /\ Place(r.pattern[j]) = slot
<1>1. PICK j \in DOMAIN t.path : t.path[j] = slot BY DEF Holds
<1>2. j \in 1 .. Len(r.pattern)
  <2>1. PICK S : t.path \in Seq(S) BY DEF Mirrors, IsSeq
  <2> QED BY <1>1, <2>1 DEF Mirrors
<1>3. j \in DOMAIN r.pattern
  <2>1. PICK S : r.pattern \in Seq(S) BY DEF Mirrors, IsSeq
  <2> QED BY <1>2, <2>1
<1>4. Like(r.pattern[j], slot) BY <1>1, <1>2 DEF Mirrors
<1>5. slot \in Slots BY DEF Places, Slots
<1> QED BY <1>3, <1>4, <1>5 DEF Like

\* What is in no path stays in the body.
LEMMA BodyHolds ==
  ASSUME NEW t, NEW args, NEW k \in DOMAIN args, ~Holds(t, Slot(k))
  PROVE  LET body == stripPathParams(args, t.path) IN k \in DOMAIN body /\ body[k] = args[k]
BY DEF stripPathParams, Holds

\* The body of a whole call of a tool that posts is one.
LEMMA BodyWhole ==
  ASSUME Complete
  PROVE  LET body == stripPathParams(call.args, call.tool.path) IN
         ~ \E k \in DOMAIN body : body[k] = NotString
BY DEF stripPathParams, Complete

LEMMA BodyIs ==
  ASSUME Complete, call.tool \in offered, Posts(call.tool)
  PROVE  bodyOrNil(call.tool.method, stripPathParams(call.args, call.tool.path)) = "json"
<1> DEFINE t == call.tool
           body == stripPathParams(call.args, t.path)
<1>1. PICK f : f \in t.required \ {"session", "gid", "id"} BY DEF Posts, Rest
<1>2. f \in DOMAIN call.args BY <1>1 DEF Complete
<1>3. Slot(f) = "{}" BY <1>1 DEF Slot
<1>4. ~Holds(t, Slot(f)) BY <1>3, OfferedLand DEF Lands, Holds, Slots, Places
<1>5. f \in DOMAIN body BY <1>2, <1>4, BodyHolds
<1>6. t.method \notin {"GET", "DELETE"} BY DEF Posts
<1> HIDE DEF body, t
<1>7. DOMAIN body # {} BY <1>5
<1>8. bodyOrNil(t.method, body) = "json" BY <1>6, <1>7 DEF bodyOrNil
<1> QED BY <1>8 DEF body, t

\* A step that is fed lacks nothing that a well-formed call can give.
LEMMA FedTakes ==
  ASSUME IInv, Arrives, WellFormed, call.tool \in offered, req.by = "tool",
         req.stage = "handling", req.args = stripPathParams(call.args, call.tool.path),
         Posts(call.tool) => req.body = "json",
         NEW step, Feeds(call.tool, step), Lacks(step)
  PROVE  step.do \in {"media", "photo", "participants"}
<1> DEFINE t == call.tool
           args == call.args
           i == req.at
<1>1. /\ Mirrors(t, routes[i])
      /\ InPath \cap {":session", ":name"} # {} => req.name = args["session"]
  BY DEF Arrives
<1>2. Plain /\ Complete BY DEF WellFormed, Plain
<1>3. Renders(t, req.path, args) BY <1>2, PlainRenders DEF IInv, SentInv
<1>4. t.required \subseteq DOMAIN args /\ \A k \in DOMAIN args : args[k] # ""
  BY <1>2 DEF Complete
<1>5. ~Holds(t, "{}") BY OfferedLand DEF Lands, Holds, Slots, Places
<1>6. ASSUME NEW k \in DOMAIN args, ~Holds(t, Slot(k)) PROVE Values(k) = {args[k]}
  <2>1. k \in DOMAIN req.args /\ req.args[k] = args[k] BY <1>6, BodyHolds
  <2> QED BY <2>1 DEF Values
<1>7. \A k : k \notin {"session", "gid", "id"} => Slot(k) = "{}" BY DEF Slot
<1>8. \A k : k \in t.required /\ k \notin {"session", "gid", "id"} => Values(k) = {args[k]}
  BY <1>4, <1>5, <1>6, <1>7
<1>9. /\ "chat_id" \in DOMAIN args => parseJID(args["chat_id"]) # NoJID
      /\ "gid" \in DOMAIN args => parseGroupJID(args["gid"]) # NoJID
      /\ "id" \in DOMAIN args => args["id"] \in Ids
  BY DEF WellFormed
<1>h. ASSUME NEW slot \in Places, Holds(t, slot)
      PROVE  \E j \in DOMAIN routes[i].pattern :
               routes[i].pattern[j] \in Params /\ Place(routes[i].pattern[j]) = slot
  BY <1>1, <1>h, HeldIsTaken
<1>10. ASSUME NEW x \in Params, NEW k, \A n : Slot(n) = Place(x) => n = k,
              \A y \in Params : Place(y) = Place(x) => y = x, Holds(t, Place(x))
       PROVE  k \in DOMAIN args /\ ParamValue(i, req.path, x) = args[k]
  <2>1. Place(x) \in Places BY DEF Place, Places
  <2>2. \E j \in DOMAIN routes[i].pattern : routes[i].pattern[j] = x BY <1>h, <1>10, <2>1
  <2>3. Mirrors(t, routes[i]) /\ \A n : Slot(n) = Place(x) => n = k BY <1>1, <1>10
  <2> HIDE DEF t, args, i
  <2> QED BY <1>3, <2>2, <2>3, ParamHeld
<1> HIDE DEF t, args, i
<1>11. CASE step.do = "json"
  <2>1. req.body = "json" BY <1>11 DEF Feeds, t
  <2>2. "bad" \notin BodyIn({"json", "bad"}) BY <2>1 DEF BodyIn
  <2> QED BY <1>11, <2>2 DEF Lacks
<1>12. CASE step.do = "field"
  <2>1. step.arg \in Rest(t) BY <1>12 DEF Feeds, t
  <2>2. "" \notin Values(step.arg) BY <1>4, <1>8, <2>1 DEF Rest
  <2> QED BY <1>12, <2>2 DEF Lacks
<1>13. CASE step.do = "chat"
  <2>1. "chat_id" \in t.required BY <1>13 DEF Feeds, t
  <2>2. Values("chat_id") = {args["chat_id"]} /\ "chat_id" \in DOMAIN args BY <1>4, <1>8, <2>1
  <2> QED BY <1>9, <1>13, <2>2 DEF Lacks
<1>14. CASE step.do = "id"
  <2>1. Holds(t, "{id}") BY <1>14 DEF Feeds, t
  <2>2. /\ ":id" \in Params /\ Place(":id") = "{id}"
        /\ \A n : Slot(n) = Place(":id") => n = "id"
        /\ \A y \in Params : Place(y) = Place(":id") => y = ":id"
    BY DEF Params, Place, Slot
  <2>3. "id" \in DOMAIN args /\ ParamValue(i, req.path, ":id") = args["id"]
    BY <1>10, <2>1, <2>2
  <2>4. ParamValue(req.at, req.path, ":id") \in Ids BY <1>9, <2>3 DEF i
  <2> QED BY <1>14, <2>4 DEF Lacks
<1>15. CASE step.do = "group"
  <2>1. Holds(t, "{gid}") BY <1>15 DEF Feeds, t
  <2>2. /\ ":gid" \in Params /\ Place(":gid") = "{gid}"
        /\ \A n : Slot(n) = Place(":gid") => n = "gid"
        /\ \A y \in Params : Place(y) = Place(":gid") => y = ":gid"
    BY DEF Params, Place, Slot
  <2>3. "gid" \in DOMAIN args /\ ParamValue(i, req.path, ":gid") = args["gid"]
    BY <1>10, <2>1, <2>2
  <2>4. parseGroupJID(ParamValue(req.at, req.path, ":gid")) # NoJID BY <1>9, <2>3 DEF i
  <2> QED BY <1>15, <2>4 DEF Lacks
<1>16. CASE step.do = "resolve"
  <2>1. "session" \in t.required /\ "session" \in DOMAIN args
    BY <1>4, <1>16 DEF Feeds, t
  <2>2. args["session"] # "" BY <1>4, <2>1
  <2>3. CASE InPath \cap {":session", ":name"} # {}
    <3>1. "" \notin {req.name} BY <1>1, <2>2, <2>3
    <3> QED BY <1>16, <2>3, <3>1 DEF Lacks
  <2>4. CASE InPath \cap {":session", ":name"} = {}
    <3>1. \A x \in Params : Place(x) = "{session}" => x \in {":session", ":name"}
      BY DEF Params, Place
    <3>2. ~Holds(t, "{session}")
      <4> SUFFICES ASSUME Holds(t, "{session}") PROVE FALSE OBVIOUS
      <4>1. "{session}" \in Places BY DEF Places
      <4>2. \E y \in InPath : y \in Params /\ Place(y) = "{session}"
        BY <1>h, <4>1, Zenon DEF InPath, i
      <4> QED BY <2>4, <3>1, <4>2, Zenon
    <3>3. Slot("session") = "{session}" BY DEF Slot
    <3>4. "" \notin Values("session") BY <1>6, <2>1, <2>2, <3>2, <3>3
    <3> QED BY <1>16, <2>4, <3>4 DEF Lacks
  <2> QED BY <2>3, <2>4
<1>17. CASE step.do \notin {"json", "field", "chat", "id", "group", "resolve"}
  BY <1>17 DEF Lacks
<1> QED BY <1>11, <1>12, <1>13, <1>14, <1>15, <1>16, <1>17

Supply ==
  /\ req.args = stripPathParams(call.args, call.tool.path)
  /\ Posts(call.tool) => req.body = "json"
  /\ req.stage # "answered" => req.status # 400
  /\ req.stage = "handling" => FedAll(call.tool, req.todo)
  /\ req.status = 400 => Head(req.todo).do \in {"media", "photo", "participants"}

Supplied == req.by = "tool" /\ WellFormed => Supply

LEMMA SameSupplied ==
  ASSUME call'.tool = call.tool, call'.args = call.args
  PROVE  (WellFormed' <=> WellFormed) /\ (UNCHANGED req /\ Supply => Supply')
<1>1. WellFormed' <=> WellFormed BY SameArrives DEF WellFormed
<1>2. UNCHANGED req /\ Supply => Supply' BY DEF Supply
<1> QED BY <1>1, <1>2

LEMMA ForwardSupplied ==
  ASSUME WellFormed, call.tool \in offered, call'.tool = call.tool, call'.args = call.args, Begins,
         BodySent
  PROVE  Supply'
<1>1. Complete BY DEF WellFormed, Plain
<1>2. /\ req'.args = stripPathParams(call.args, call.tool.path)
      /\ Posts(call.tool) => req'.body = "json"
  BY <1>1, BodyIs, BodyWhole DEF BodySent
<1>3. req'.stage = "routing" /\ req'.status # 400 BY DEF Begins, Untouched
<1> QED BY <1>2, <1>3 DEF Supply

LEMMA ServeSupplied ==
  ASSUME Shape, Supply, Arrives', call.tool \in offered, Serve, UNCHANGED call
  PROVE  Supply'
<1> DEFINE i == NextFit(req.at, req.method, req.path)
           t == call.tool
<1>1. req.stage = "routing" /\ Routed(i) BY ServeSteps
<1>2. req'.args = req.args /\ req'.body = req.body BY <1>1 DEF Routed, Aside
<1>3. req'.status # 400 BY <1>1 DEF Routed, Supply
<1>4. ASSUME req'.stage = "handling" PROVE FedAll(t, req'.todo)
  <2>1. /\ routes[i].handler \in DOMAIN StepsOf => req'.todo = StepsOf[routes[i].handler]
        /\ routes[i].handler \in DOMAIN StepsOf /\ req'.at = i
    BY <1>1, <1>4 DEF Routed
  <2>2. t.means = routes[i].handler BY <1>4, <2>1 DEF Arrives, Mirrors
  <2>3. Fed(t) BY OfferedFed
  <2> HIDE DEF t, i
  <2> QED BY <2>1, <2>2, <2>3 DEF Fed
<1> QED BY <1>2, <1>3, <1>4 DEF Supply

LEMMA HandleSupplied ==
  ASSUME IInv, Arrives, Supply, WellFormed, call.tool \in offered, req.by = "tool", Handle,
         UNCHANGED call
  PROVE  Supply'
<1> DEFINE t == call.tool
           ill == req'.status = 400
<1>0. /\ req.stage = "handling" /\ Shape /\ req.status # 400 /\ FedAll(t, req.todo)
      /\ req.args = stripPathParams(call.args, call.tool.path)
      /\ Posts(call.tool) => req.body = "json"
  BY OnlyHandling DEF Supply, IInv
<1>1. PICK S : req.todo \in Seq(S) /\ \A step \in S : Feeds(t, step) BY <1>0 DEF FedAll
<1>2. CASE GoesOn
  <2>1. /\ req.todo # << >> /\ req'.args = req.args /\ req'.stage = "handling"
        /\ req'.status = req.status /\ req'.todo = Tail(req.todo) /\ Decided(req')
    BY <1>2 DEF GoesOn, Advance, Stays
  <2>2. BodyIn(Bodies) = {req.body} BY DEF BodyIn
  <2>3. req'.body = req.body BY <2>1, <2>2 DEF Decided
  <2>4. Tail(req.todo) \in Seq(S) BY <1>1, <2>1
  <2>5. FedAll(t, req'.todo) BY <1>1, <2>1, <2>4 DEF FedAll
  <2> QED BY <1>0, <2>1, <2>3, <2>5 DEF Supply
<1>3. CASE Stops
  <2>1. req'.args = req.args /\ req'.body = req.body /\ req'.stage = "answered"
    BY <1>3 DEF Stops, Stays
  <2>2. ~ill \/ (req'.todo = req.todo /\ req'.todo # << >> /\ Lacks(Head(req'.todo)))
    BY <1>0, Rejects
  <2> HIDE DEF ill
  <2>3. ASSUME ill PROVE Head(req'.todo).do \in {"media", "photo", "participants"}
    <3>1. req'.todo = req.todo /\ req.todo # << >> /\ Lacks(Head(req.todo)) BY <2>2, <2>3
    <3>2. Head(req.todo) \in S BY <1>1, <3>1
    <3>3. Feeds(call.tool, Head(req.todo)) BY <1>1, <3>2
    <3>4. Head(req.todo).do \in {"media", "photo", "participants"}
      BY <1>0, <3>1, <3>3, FedTakes
    <3> QED BY <3>1, <3>4
  <2>4. req'.status = 400 => ill BY DEF ill
  <2> QED BY <1>0, <2>1, <2>3, <2>4 DEF Supply
<1> QED BY <1>0, <1>2, <1>3, HandleSteps

LEMMA CallSupplied == ASSUME RInv, Reach', Supplied, [McpNext]_mcpVars PROVE Supplied'
<1>0. /\ IInv /\ Shape /\ Reach /\ Supplied
      /\ req.by = "tool" => /\ req.stage # "idle" /\ call.stage \in {"waiting", "over"}
                            /\ call.tool \in offered
  BY DEF RInv, IInv, SentInv, ToolInv
<1>1. CASE CallTool
  <2>1. req'.by # "tool" BY <1>0, <1>1 DEF CallTool
  <2> QED BY <2>1 DEF Supplied
<1>2. ASSUME NEW k, RenderKey(k) PROVE Supplied'
  <2>1. req'.by # "tool" BY <1>0, <1>2 DEF RenderKey
  <2> QED BY <2>1 DEF Supplied
<1>3. ASSUME call'.tool = call.tool, call'.args = call.args, UNCHANGED req PROVE Supplied'
  BY <1>0, <1>3, SameSupplied DEF Supplied
<1>4. CASE Forward
  <2>0. call.stage = "rendering" /\ call.tool \in offered
    BY <1>0, <1>4 DEF Forward, IInv, ToolInv
  <2>1. CASE UNCHANGED req /\ \E result : End(result)
    <3>1. req'.by # "tool" BY <1>0, <2>0, <2>1
    <3> QED BY <3>1 DEF Supplied
  <2>2. CASE /\ Begins /\ call' = [call EXCEPT !.stage = "waiting"]
             /\ BodySent
    <3>1. call'.tool = call.tool /\ call'.args = call.args BY <1>0, <2>2 DEF IInv, CallShape
    <3>2. WellFormed => Supply' BY <2>0, <2>2, <3>1, ForwardSupplied
    <3> QED BY <3>1, <3>2, SameSupplied DEF Supplied
  <2> QED BY <1>4, <2>1, <2>2, ForwardBegins
<1>5. CASE HearAnswer \/ GiveUp
  BY <1>0, <1>3, <1>5 DEF HearAnswer, GiveUp, End, IInv, CallShape
<1>6. CASE RequestsNext /\ UNCHANGED call
  <2>1. CASE ClientAsks
    <3>1. req'.by = "client" BY <2>1, ClientBegins
    <3> QED BY <3>1 DEF Supplied
  <2>2. CASE Meanwhile
    <3>1. req'.by = req.by BY <1>0, <2>2, MeanwhileKeeps DEF Keeps
    <3>2. req'.by # "tool" BY <2>2, <3>1 DEF Meanwhile
    <3> QED BY <3>2 DEF Supplied
  <2>3. ASSUME req'.by = req.by, req.by = "tool" /\ WellFormed /\ Supply => Supply' PROVE Supplied'
    BY <1>0, <1>6, <2>3, SameSupplied DEF Supplied
  <2>4. WellFormed => Plain /\ Plain' BY <1>6, SameArrives DEF WellFormed
  <2>5. CASE Serve
    <3>1. req'.by = req.by BY <1>0, <2>5, ServeKeeps DEF Keeps
    <3>2. req.by = "tool" /\ WellFormed => Arrives' BY <2>4, <3>1 DEF Reach
    <3> QED BY <1>0, <1>6, <2>3, <2>5, <3>1, <3>2, ServeSupplied
  <2>6. CASE Handle
    <3>1. req'.by = req.by BY <1>0, <2>6, HandleKeeps DEF Keeps
    <3>2. req.by = "tool" /\ WellFormed => Arrives BY <1>0, <2>4 DEF Reach
    <3> QED BY <1>0, <1>6, <2>3, <2>6, <3>1, <3>2, HandleSupplied
  <2> QED BY <1>6, <2>1, <2>2, <2>5, <2>6 DEF RequestsNext
<1>7. CASE UNCHANGED mcpVars BY <1>3, <1>7 DEF mcpVars
<1> QED BY <1>1, <1>2, <1>4, <1>5, <1>6, <1>7 DEF McpNext

\* A call with all that its tool requires, every identifier of which is one, is a bad
\* request only for what its URL yields or for its participants: what renderPath
\* puts into the path and bodyOrNil and stripPathParams leave in the body is all that
\* the steps of the tool's own handler want, for any tools and any texts.
THEOREM CallsAreTaken == Spec => []WellFormedCallsAreTaken
<1>1. McpInit => Supplied
  BY IdleUntouched DEF McpInit, RequestsInit, Supplied
<1>2. RInv /\ RInv' /\ Supplied /\ [McpNext]_mcpVars => Supplied'
  <2>1. RInv' => Reach' BY DEF RInv
  <2> QED BY <2>1, CallSupplied
<1>3. Supplied => WellFormedCallsAreTaken BY DEF Supplied, Supply, WellFormedCallsAreTaken
<1> QED BY <1>1, <1>2, <1>3, AlwaysReach, PTL DEF Spec

-----------------------------------------------------------------------------
(* Types.  What a handler takes for a chat or a group must be a text.      *)

CallTypes == /\ call.stage \in {"idle", "rendering", "waiting", "over"}
             /\ call.result \in {"none", "ok", "error"}

TypesInv == GatewayTypes /\ CallTypes /\ Asking

LEMMA ChatsAreTexts == ASSUME IInv PROVE ChatIsText
<1>1. "" \in Texts BY RequestsAssumption, Zenon
<1>2. Said["chat_id"] \subseteq Texts BY McpAssumption
<1>3. Value("chat_id") = Said["chat_id"] BY McpAssumption DEF Value
<1>4. CASE req.by = "tool" /\ "chat_id" \in DOMAIN req.args
  <2>1. req.args["chat_id"] \in Value("chat_id") \cup {""}
    BY <1>4 DEF IInv, SentInv, ArgsInv, ArgsSaid
  <2> QED BY <1>1, <1>2, <1>3, <1>4, <2>1 DEF ChatIsText, Values
<1>5. CASE req.by = "tool" /\ "chat_id" \notin DOMAIN req.args
  BY <1>1, <1>5 DEF ChatIsText, Values
<1>6. CASE req.by # "tool" BY <1>6 DEF ChatIsText, Values
<1> QED BY <1>4, <1>5, <1>6

LEMMA GroupsAreTexts ==
  ASSUME IInv, Keyed, Asking, req.by \in {"client", "tool"} PROVE GroupIsText
<1> DEFINE text == ParamValue(req.at, req.path, ":gid")
<1> SUFFICES ASSUME req.stage = "handling", parseGroupJID(text) # NoJID PROVE text \in Texts
  BY DEF GroupIsText
<1>1. req.at # 0 BY DEF Keyed
<1>2. CASE req.by = "tool"
  <2>1. /\ "gid" \in DOMAIN call.args /\ call.args["gid"] # NotString
        /\ text = Escape(call.args["gid"])
    BY <1>1, <1>2, ToolPlace
  <2>2. call.args["gid"] \in Value("gid") \cup {""} BY <2>1 DEF IInv, ArgsInv, ArgsSaid
  <2>3. Value("gid") = Said["gid"] BY McpAssumption DEF Value
  <2>4. \A v \in Said["gid"] \cup {""} : Escape(v) \in Texts BY McpAssumption
  <2> QED BY <2>1, <2>2, <2>3, <2>4
<1>3. CASE req.by = "client"
  <2>1. req.path \in Paths BY <1>3 DEF Asking
  <2>2. IsSeq(req.path) BY <2>1, PathsAre
  <2>3. Len(req.path) \in Nat BY <2>2 DEF IsSeq
  <2>4. /\ Len(req.path) > 4 \/ (Len(req.path) = 4 /\ req.method = "GET")
        /\ Folded(req.path[3]) = "groups" /\ text = req.path[4]
    BY <1>1, <2>2, GroupAsked
  <2>5. Len(req.path) > 3 BY <2>3, <2>4
  <2> QED BY <2>1, <2>4, <2>5, PathsAssumption
<1> QED BY <1>2, <1>3

LEMMA GatewayTyped ==
  ASSUME IInv, Keyed, Decisive, TypesInv, RequestsNext, UNCHANGED call PROVE TypesInv'
<1>0. /\ Shape /\ Quiet /\ ChatsInv /\ GatewayTypes /\ Asking
      /\ req.by \in {"client", "tool"}
  BY DEF Decisive, TypesInv, GatewayTypes, TypedRequest
<1>1. CallTypes' BY DEF TypesInv, CallTypes
<1>2. ASSUME Keeps, req.stage # "idle" PROVE Asking' BY <1>0, <1>2 DEF Asking, Keeps
<1>3. CASE ClientAsks
  <2>1. Untouched(req') /\ req'.stage = "routing" /\ req'.by = "client"
    BY <1>3, ClientBegins DEF Begins
  <2>2. GatewayTypes' BY <2>1, BeginsTyped DEF GatewayTypes
  <2>3. req'.path \in Paths BY <1>3, IdleUntouched DEF ClientAsks, Untouched, HasFields, Idle
  <2> QED BY <1>1, <2>2, <2>3 DEF TypesInv, Asking
<1>4. CASE Serve
  <2>1. req.stage = "routing" /\ Keeps BY <1>0, <1>4, ServeSteps, ServeKeeps
  <2>2. GatewayTypes' BY <1>0, <1>4, ServeTyped
  <2> QED BY <1>1, <1>2, <2>1, <2>2 DEF TypesInv
<1>5. CASE Handle
  <2>1. req.stage = "handling" /\ Keeps BY <1>0, <1>5, OnlyHandling, HandleKeeps
  <2>2. RequestsTypeOK BY <1>0, TypesAre
  <2>3. GatewayTypes' BY <1>0, <1>5, <2>2, ChatsAreTexts, GroupsAreTexts, HandleTyped
  <2> QED BY <1>1, <1>2, <2>1, <2>3 DEF TypesInv
<1>6. CASE Meanwhile
  <2>1. req.stage = "handling" /\ Keeps BY <1>0, <1>6, MeanwhileKeeps DEF Meanwhile
  <2>2. GatewayTypes'
    BY <1>0, <1>6 DEF Meanwhile, Shape, HasFields, GatewayTypes, TypedRequest
  <2> QED BY <1>1, <1>2, <2>1, <2>2 DEF TypesInv
<1> QED BY <1>3, <1>4, <1>5, <1>6 DEF RequestsNext

LEMMA NextTyped ==
  ASSUME IInv, Keyed, Decisive, TypesInv, [McpNext]_mcpVars PROVE TypesInv'
<1>0. CallShape /\ CallTypes BY DEF IInv, TypesInv
<1>1. ASSUME UNCHANGED req, CallTypes' PROVE TypesInv'
  BY <1>1 DEF TypesInv, GatewayTypes, Asking
<1>2. ASSUME NEW result \in {"ok", "error"}, End(result) PROVE CallTypes'
  BY <1>0, <1>2 DEF End, CallShape, CallTypes
<1>3. CASE CallTool
  <2>1. UNCHANGED req /\ call'.stage = "rendering" /\ call'.result = "none"
    BY <1>3 DEF CallTool, NoCall
  <2> QED BY <1>1, <2>1 DEF CallTypes
<1>4. ASSUME NEW k, RenderKey(k) PROVE TypesInv'
  <2>1. UNCHANGED req /\ (End("error") \/ (call'.stage = call.stage /\ call'.result = call.result))
    BY <1>0, <1>4 DEF RenderKey, CallShape
  <2> QED BY <1>0, <1>1, <1>2, <2>1 DEF CallTypes
<1>5. CASE Forward
  <2>1. CASE UNCHANGED req /\ End("error") BY <1>1, <1>2, <2>1
  <2>2. CASE Begins /\ req'.by = "tool" /\ call' = [call EXCEPT !.stage = "waiting"]
    <3>1. CallTypes' BY <1>0, <2>2 DEF CallShape, CallTypes
    <3>2. GatewayTypes' BY <2>2, BeginsTyped DEF Begins, GatewayTypes
    <3>3. Asking' BY <2>2 DEF Asking
    <3> QED BY <3>1, <3>2, <3>3 DEF TypesInv
  <2> QED BY <1>5, <2>1, <2>2, ForwardBegins
<1>6. CASE HearAnswer
  <2>1. doResult(req.status) \in {"ok", "error"} BY DEF doResult
  <2> QED BY <1>1, <1>2, <1>6, <2>1 DEF HearAnswer
<1>7. CASE GiveUp BY <1>1, <1>2, <1>7 DEF GiveUp
<1>8. CASE RequestsNext /\ UNCHANGED call BY <1>8, GatewayTyped
<1>9. CASE UNCHANGED mcpVars
  <2>1. UNCHANGED <<req, call>> BY <1>9 DEF mcpVars
  <2> QED BY <1>0, <1>1, <2>1 DEF CallTypes
<1> QED BY <1>3, <1>4, <1>5, <1>6, <1>7, <1>8, <1>9 DEF McpNext

\* Every reachable state of the chats, the requests and the tools' calls is well
\* typed.  In particular, what a handler parses for a chat or a group is always
\* a text: of a body with an argument of another type nothing is read, and
\* renderPath puts no such argument into a path.
THEOREM TypeCorrect == Spec => []TypeOK
<1>1. McpInit => TypesInv
  <2> SUFFICES ASSUME McpInit PROVE TypesInv OBVIOUS
  <2>1. req = Idle /\ call = NoCall BY DEF McpInit, RequestsInit
  <2>2. GatewayTypes BY <2>1, IdleUntouched, BeginsTyped DEF GatewayTypes
  <2>3. CallTypes BY <2>1 DEF CallTypes, NoCall
  <2>4. Asking BY <2>1, IdleUntouched DEF Asking
  <2> QED BY <2>2, <2>3, <2>4 DEF TypesInv
<1>2. IInv /\ Keyed /\ Decisive /\ TypesInv /\ [McpNext]_mcpVars => TypesInv' BY NextTyped
<1>3. IInv /\ Keyed /\ Decisive /\ TypesInv => TypeOK
  <2> SUFFICES ASSUME IInv, Keyed, Decisive, TypesInv PROVE TypeOK OBVIOUS
  <2>1. ExpirationTypeOK /\ RequestsTypeOK
    BY TypesAre DEF Decisive, ChatsInv, TypesInv
  <2>2. McpTypeOK BY DEF McpTypeOK, TypesInv, CallTypes, IInv, ToolInv, ArgsInv, SentInv
  <2> QED BY <2>1, <2>2 DEF TypeOK
<1>4. Spec => []IInv BY InitIInv, NextIInv, PTL DEF Spec
<1> QED BY <1>1, <1>2, <1>3, <1>4, AlwaysKeyed, AlwaysDecisive, PTL DEF Spec
=============================================================================
