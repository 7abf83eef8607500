---------------------------- MODULE Serializers ----------------------------
(***************************************************************************)
(* serializers.cpp: how the JSON documents of the gateway become the       *)
(* structs of discord/*.hpp.                                               *)
(*                                                                         *)
(* A JSON value is a record [is, val]: is names its type as rapidjson sees *)
(* it ("int" is a number that IsInt accepts, any other is "number"), val   *)
(* is the value; an object is a function of its member names.  A struct is *)
(* a function of the JSON names that LoadFrom looks up.  A member that is  *)
(* absent, or not of the type LoadFrom asks for, keeps what the default    *)
(* constructor leaves: nothing in an optional or a string, 0 in a          *)
(* Snowflake, and no value at all (Garbage) in a plain integer or bool.    *)
(*                                                                         *)
(* Abstracted: a Snowflake is the text of its digits, which its            *)
(* constructor reads back; the negative numbers, which none of the         *)
(* unsigned members has.                                                   *)
(***************************************************************************)
EXTENDS Integers, Sequences

CONSTANTS Empty,    \* an empty optional, "" or Snowflake 0
          Garbage   \* what an uninitialized integer or bool holds

\* The types of the members: integers of the widths of the structs, those
\* that are optional, and the rest.
PlainInt == {"int32", "uint8", "uint64"}

Integer == PlainInt \cup {"int32?", "uint32?"}

Asked(type) ==
  CASE type \in Integer -> "int"
    [] type \in {"bool", "bool?"} -> "bool"
    [] type \in {"string", "snowflake"} -> "string"

Default(type) == IF type \in PlainInt \cup {"bool"} THEN Garbage ELSE Empty

Converted(type, value) == IF type = "uint8" THEN value % 256 ELSE value

\* Pointer(pointer + "/" + m).Get(doc), for a document that has it or not.
Has(doc, m, type) == m \in DOMAIN doc /\ doc[m].is = type

\* The members that are read by a test, a conversion and an assignment.
Flat(struct, doc) ==
  [m \in DOMAIN struct |->
     IF Has(doc, m, Asked(struct[m])) THEN Converted(struct[m], doc[m].val)
     ELSE Default(struct[m])]

\* A struct of the members of f and those of g.
With(f, g) == [m \in DOMAIN f \cup DOMAIN g |-> IF m \in DOMAIN f THEN f[m] ELSE g[m]]

NoDocument == <<>>

\* What a pointer into a value sees; only an object has members.
Members(value) == IF value.is = "object" THEN value.val ELSE NoDocument

\* A vector of structs: one for each element of the array.
List(doc, m, Load(_)) ==
  IF Has(doc, m, "array")
  THEN [i \in DOMAIN doc[m].val |-> Load(Members(doc[m].val[i]))]
  ELSE <<>>

\* A struct inside a struct, default constructed if the member is missing.
Inner(doc, m, Load(_)) == Load(IF Has(doc, m, "object") THEN doc[m].val ELSE NoDocument)

-----------------------------------------------------------------------------
UserFields ==
  [id |-> "snowflake", username |-> "string", discriminator |-> "string",
   avatar_hash |-> "string", bot |-> "bool?", mfa_enabled |-> "bool?",
   locale |-> "string", flags |-> "uint32?", premium_type |-> "int32?"]

User(doc) == Flat(UserFields, doc)

RoleFields ==
  [id |-> "snowflake", name |-> "string", color |-> "int32", hoist |-> "bool",
   position |-> "int32", permissions |-> "int32", managed |-> "bool",
   mentionable |-> "bool"]

Role(doc) == Flat(RoleFields, doc)

EmojiFields ==
  [id |-> "snowflake", name |-> "string", require_colons |-> "bool?",
   managed |-> "bool?", animated |-> "bool?"]

Emoji(doc) == Flat(EmojiFields, doc)

ChannelFields ==
  [id |-> "snowflake", type |-> "int32", name |-> "string", topic |-> "string",
   nsfw |-> "bool?", icon_hash |-> "string", guild_id |-> "snowflake",
   owner_id |-> "snowflake", application_id |-> "snowflake",
   parent_category_id |-> "snowflake", last_message_id |-> "snowflake",
   position |-> "int32?", permission_overwrites |-> "uint32?",
   bitrate |-> "int32?", user_limit |-> "int32?",
   rate_limit_per_user |-> "int32?", last_pin_timestamp |-> "string"]

Channel(doc) ==
  With(Flat(ChannelFields, doc), [recipients |-> List(doc, "recipients", User)])

\* GetString is called on every element of roles, whatever it is.
RolesAbort(doc) ==
  Has(doc, "roles", "array") /\ \E i \in DOMAIN doc.roles.val : doc.roles.val[i].is /= "string"

MemberFields ==
  [nickname |-> "string", joined_at |-> "string", premium_since |-> "string",
   deaf |-> "bool", mute |-> "bool"]

\* Mutant: the user is looked up in the member itself.
MemberAsUser(doc) == With(Flat(MemberFields, doc), [user |-> User(doc), roles |-> <<>>])

Member(doc) ==
  With(Flat(MemberFields, doc),
       [user |-> Inner(doc, "user", User),
        roles |-> IF Has(doc, "roles", "array")
                  THEN [i \in DOMAIN doc.roles.val |-> doc.roles.val[i].val] ELSE <<>>])

GuildFields ==
  [id |-> "snowflake", name |-> "string", splash_hash |-> "string",
   icon_hash |-> "string", owner_id |-> "snowflake", permissions |-> "uint32?",
   region |-> "string", afk_channel_id |-> "snowflake", afk_timeout |-> "int32",
   embedable |-> "bool?", embed_channel_id |-> "snowflake",
   verification_level |-> "uint8", default_message_notifications_level |-> "uint8",
   explicit_content_filter_level |-> "uint8", mfa_level |-> "uint8",
   application_id |-> "snowflake", widget_enabled |-> "bool?",
   widget_channel_id |-> "snowflake", system_channel_id |-> "snowflake",
   joined_at |-> "string", large |-> "bool?", unavailable |-> "bool?",
   member_count |-> "int32?", max_presences |-> "int32", max_members |-> "int32",
   premium_tier |-> "int32", description |-> "string", banner_hash |-> "string"]

\* The elements that are no strings are left out.
Features(doc) ==
  LET text(v) == v.is = "string"
      kept == SelectSeq(doc.features.val, text)
  IN IF Has(doc, "features", "array") THEN [i \in DOMAIN kept |-> kept[i].val] ELSE <<>>

Guild(doc) ==
  With(Flat(GuildFields, doc),
       [roles |-> List(doc, "roles", Role), emoji |-> List(doc, "emoji", Emoji),
        features |-> Features(doc),
        members |-> List(doc, "members", Member),
        channels |-> List(doc, "channels", Channel)])

\* LoadFrom of the guild fails an assertion of rapidjson.
GuildAborts(doc) ==
  Has(doc, "members", "array") /\ \E i \in DOMAIN doc.members.val : RolesAbort(Members(doc.members.val[i]))

MessageFields ==
  [id |-> "snowflake", channel_id |-> "snowflake", guild_id |-> "snowflake",
   nonce |-> "snowflake", type |-> "int32", content |-> "string",
   timestamp |-> "string", edited_timestamp |-> "string", tts |-> "bool",
   mention_everyone |-> "bool", pinned |-> "bool", webhook_id |-> "snowflake"]

Message(doc) ==
  With(Flat(MessageFields, doc), [author |-> Inner(doc, "author", User)])

ReadyFields == [v |-> "int32", session_id |-> "string"]

ReadyPacket(doc) ==
  With(Flat(ReadyFields, doc),
       [user |-> Inner(doc, "user", User),
        private_channels |-> List(doc, "private_channels", Channel),
        guilds |-> List(doc, "guilds", Guild)])

TypingFields ==
  [user_id |-> "snowflake", guild_id |-> "snowflake",
   channel_id |-> "snowflake", timestamp |-> "uint64"]

\* The member is an optional, empty if the document has none.
TypingStartPacket(doc) ==
  With(Flat(TypingFields, doc),
       [member |-> IF Has(doc, "member", "object") THEN Member(doc.member.val) ELSE Empty])

ReactionFields ==
  [user_id |-> "snowflake", guild_id |-> "snowflake",
   channel_id |-> "snowflake", message_id |-> "snowflake"]

MessageReactionPacket(doc) ==
  With(Flat(ReactionFields, doc), [emoji |-> Inner(doc, "emoji", Emoji)])

-----------------------------------------------------------------------------
(* A reference: a struct agrees with a document if every member that both  *)
(* have, and that is not null in the document, has the document's value.   *)

Scalar == {"string", "int", "number", "bool"}

FlatAgrees(x, doc) ==
  \A m \in DOMAIN x \cap DOMAIN doc : doc[m].is \in Scalar => x[m] = doc[m].val

Same(a, b) == a = b

AllAgree(xs, doc, m, Agrees(_, _)) ==
  m \in DOMAIN doc =>
    /\ Len(xs) = Len(doc[m].val)
    /\ \A i \in DOMAIN xs : Agrees(xs[i], doc[m].val[i].val)

InnerAgrees(x, doc, m, Agrees(_, _)) == m \in DOMAIN doc => Agrees(x, doc[m].val)

MemberAgrees(x, doc) ==
  /\ FlatAgrees(x, doc)
  /\ InnerAgrees(x.user, doc, "user", FlatAgrees)
  /\ AllAgree(x.roles, doc, "roles", Same)

GuildAgrees(x, doc) ==
  /\ FlatAgrees(x, doc)
  /\ AllAgree(x.roles, doc, "roles", FlatAgrees)
  /\ AllAgree(x.channels, doc, "channels", FlatAgrees)
  /\ AllAgree(x.members, doc, "members", MemberAgrees)

\* By the class of the event.
EventAgrees(class, x, doc) ==
  /\ FlatAgrees(x, doc)
  /\ class = "READY" => /\ InnerAgrees(x.user, doc, "user", FlatAgrees)
                        /\ AllAgree(x.guilds, doc, "guilds", GuildAgrees)
  /\ class = "GUILD_CREATE" => GuildAgrees(x, doc)
  /\ class = "MESSAGE_CREATE" => InnerAgrees(x.author, doc, "author", FlatAgrees)
  /\ class = "TYPING_START" => InnerAgrees(x.member, doc, "member", MemberAgrees)
  /\ class \in {"MESSAGE_REACTION_ADD", "MESSAGE_REACTION_REMOVE"} =>
       InnerAgrees(x.emoji, doc, "emoji", FlatAgrees)

-----------------------------------------------------------------------------
(* The documents for which it agrees: every member is null or of the type  *)
(* that LoadFrom asks for, an integer of 8 bits is below 256, and what the *)
(* API describes as an object or an array is one.  No value is Garbage.    *)

Fits(fields, doc) ==
  \A m \in DOMAIN fields \cap DOMAIN doc :
    \/ doc[m].is = "null"
    \/ /\ doc[m].is = Asked(fields[m]) /\ doc[m].val /= Garbage
       /\ fields[m] = "uint8" => doc[m].val \in 0..255

NotScalar(doc, ms) == \A m \in ms \cap DOMAIN doc : doc[m].is \notin Scalar

ObjectFits(doc, m, Rest(_)) ==
  m \in DOMAIN doc => doc[m].is = "object" /\ Rest(doc[m].val)

Array(doc, m) ==
  m \in DOMAIN doc =>
    /\ doc[m].is = "array"
    /\ Len(doc[m].val) \in Nat /\ DOMAIN doc[m].val = 1..Len(doc[m].val)

ArrayFits(doc, m, Rest(_)) ==
  /\ Array(doc, m)
  /\ m \in DOMAIN doc =>
       \A i \in DOMAIN doc[m].val : doc[m].val[i].is = "object" /\ Rest(doc[m].val[i].val)

UserFits(doc) == Fits(UserFields, doc)

RoleFits(doc) == Fits(RoleFields, doc)

EmojiFits(doc) == Fits(EmojiFields, doc)

ChannelFits(doc) ==
  Fits(ChannelFields, doc) /\ NotScalar(doc, {"recipients"}) /\ Has(doc, "id", "string")

MemberFits(doc) ==
  Fits(MemberFields, doc) /\ ObjectFits(doc, "user", UserFits) /\ Array(doc, "roles")

GuildFits(doc) ==
  /\ Fits(GuildFields, doc) /\ NotScalar(doc, {"emoji", "features"})
  /\ ArrayFits(doc, "roles", RoleFits)
  /\ ArrayFits(doc, "members", MemberFits)
  /\ ArrayFits(doc, "channels", ChannelFits)

EventFits(class, doc) ==
  /\ class = "READY" =>
       /\ Fits(ReadyFields, doc) /\ NotScalar(doc, {"private_channels"})
       /\ ObjectFits(doc, "user", UserFits)
       /\ ArrayFits(doc, "guilds", GuildFits)
  /\ class = "GUILD_CREATE" => GuildFits(doc)
  /\ class = "MESSAGE_CREATE" => Fits(MessageFields, doc) /\ ObjectFits(doc, "author", UserFits)
  /\ class = "TYPING_START" => Fits(TypingFields, doc) /\ ObjectFits(doc, "member", MemberFits)
  /\ class \in {"MESSAGE_REACTION_ADD", "MESSAGE_REACTION_REMOVE"} =>
       Fits(ReactionFields, doc) /\ ObjectFits(doc, "emoji", EmojiFits)
=============================================================================
