----------------------------- MODULE MCMcpTools -----------------------------
(* An instance of McpTools for TLC. *)
EXTENDS McpTools

MCFolded(t) == IF t = "Sessions" THEN "sessions" ELSE IF t = "ME" THEN "me" ELSE t

MCTexts == {"", "a", "sessions", "Sessions", "ME", "7", "g", "g@g.us", "@g.us", "u@s.whatsapp.net",
            "@s.whatsapp.net", "@", "1.2.3@g.us", "join", "{session}", "%7Bsession%7D"}
MCWritten == [t \in MCTexts |->
  CASE t = "" -> [user |-> "", server |-> "none"]
    [] t = "g@g.us" -> [user |-> "g", server |-> GroupServer]
    [] t = "@g.us" -> [user |-> "", server |-> GroupServer]
    [] t = "u@s.whatsapp.net" -> [user |-> "u", server |-> UserServer]
    [] t = "@s.whatsapp.net" -> [user |-> "", server |-> UserServer]
    [] t = "@" -> [user |-> "", server |-> "other"]
    [] t = "1.2.3@g.us" -> [user |-> "1.2.3", server |-> "malformed"]
    [] OTHER -> [user |-> t, server |-> "none"]]
MCPathValues == {"", "a", "sessions", "ME", "7", "g@g.us", "@g.us", "u@s.whatsapp.net",
                 "1.2.3@g.us"}

MCEscape(v) ==
  CASE v = "a b" -> "a%20b" [] v = "{gid}" -> "%7Bgid%7D"
    [] v = "{session}" -> "%7Bsession%7D" [] OTHER -> v
MCSaid == [session |-> {"a", "Sessions", "a b", "{gid}"}, gid |-> {"g", "@g.us", "{session}"},
           id |-> {"7", "a"}, chat_id |-> {"g@g.us", "@s.whatsapp.net", "7", "1.2.3@g.us"}]

MCNames == {"a", "b", "a b", "Sessions"}
U == [user |-> "u", server |-> UserServer]
MCWatched == {<<"a", U>>, <<"b", U>>}
MCTimers == 2 .. 3
MCAsked == -5 .. 9
MCObserved == {"sendText", "sendImage"}
=============================================================================
