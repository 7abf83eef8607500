----------------------------- MODULE MCMyClient -----------------------------
EXTENDS MyClient

JSON(type, value) == [is |-> type, val |-> value]

Text(s) == JSON("string", s)

\* A text channel, a voice channel and one whose type is missing.
Channels == JSON("array", <<
  JSON("object", [id |-> Text("c1"), type |-> JSON("int", 0), nsfw |-> JSON("bool", FALSE),
                  name |-> Text("general"), parent_id |-> JSON("null", 0)]),
  JSON("object", [id |-> Text("c2"), type |-> JSON("int", 2), bitrate |-> JSON("int", 64000)]),
  JSON("object", [id |-> Text("c3")])>>)

MemberOf(name, role) ==
  JSON("object", [user |-> JSON("object", [id |-> Text(name), username |-> Text(name)]),
                  roles |-> JSON("array", <<role>>), deaf |-> JSON("bool", FALSE)])

GuildOf(name) ==
  [id |-> Text(name), name |-> Text(name), channels |-> Channels,
   verification_level |-> JSON("int", 1), afk_channel_id |-> JSON("null", 0),
   members |-> JSON("array", <<MemberOf("u1", Text("r1")), MemberOf("u2", Text("r2"))>>),
   roles |-> JSON("array", <<JSON("object", [id |-> Text("r1"), permissions |-> JSON("int", 8)])>>),
   features |-> JSON("array", <<Text("f")>>)]

Sent(name, doc) == [name |-> name, doc |-> doc]

GuildEvents ==
  {Sent("READY", [v |-> JSON("int", 6), session_id |-> Text("s"),
                  user |-> JSON("object", [id |-> Text("u1")]),
                  guilds |-> JSON("array",
                              [i \in 1..4 |-> JSON("object", GuildOf(<<"g1", "g2", "g3", "g4">>[i]))])]),
   Sent("GUILD_CREATE", GuildOf("g1")),
   Sent("GUILD_CREATE", GuildOf("g2"))}

OtherEvents ==
  {Sent("MESSAGE_CREATE", [id |-> Text("m"), content |-> Text("hahaha"),
                           author |-> JSON("object", [username |-> Text("u1")])]),
   Sent("TYPING_START", [user_id |-> Text("u1"), timestamp |-> JSON("int", 1561550561),
                         member |-> MemberOf("u1", Text("r1"))]),
   Sent("TYPING_START", [member |-> MemberOf("u1", JSON("int", 1))]),
   Sent("MESSAGE_REACTION_ADD", [user_id |-> Text("u1"), message_id |-> Text("m"),
                                 emoji |-> JSON("object", [name |-> Text("e")])])}

AllEvents == GuildEvents \cup OtherEvents

\* The documents of these events are such as the API describes.
ASSUME EventAssumption == \A event \in AllEvents : EventFits(event.name, event.doc)
=============================================================================
