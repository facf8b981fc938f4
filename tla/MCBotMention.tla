---------------------------- MODULE MCBotMention ----------------------------
(***************************************************************************)
(* Instances of BotMention for TLC: up to three mentions of the bot, of    *)
(* people with and without a name and of everyone, in any body of three    *)
(* segments; and one message that mentions ten people.                     *)
(***************************************************************************)
EXTENDS BotMention

MCNameOf == [bot |-> "Beak", alice |-> "Alice", nameless |-> ""]

Told == {{"open_id"}, {"user_id"}, {"open_id", "union_id"}}
Of(who) == {[who |-> who, told |-> t] : t \in Told}
All == [who |-> Everyone, told |-> {}]

Lists ==
    {<<>>, <<All>>}
    \cup {<<m>> : m \in Of("bot") \cup Of("alice") \cup Of("nameless")}
    \cup {<<a, b, All>> : a \in Of("bot"), b \in Of("alice") \cup Of("nameless")}
    \cup {<<b, a>> : a \in Of("bot"), b \in Of("alice") \cup Of("bot")}

\* Every mention of a list is in the body; the same may be there twice.
Bodies(list) ==
    {b \in UNION {[1..n -> 0..Len(list)] : n \in 0..3} :
         1..Len(list) \subseteq Range(b)}

FewMentions ==
    UNION {[post : BOOLEAN, mentions : {l}, body : Bodies(l)] : l \in Lists}

TenMentions ==
    {[post |-> FALSE,
      mentions |-> [i \in 1..10 |-> [who |-> "alice", told |-> {"open_id"}]],
      body |-> [i \in 1..10 |-> i]]}

MCIdentities ==
    {{}, {"open_id"}, {"open_id", "name"}, {"open_id", "user_id"}, {"name"}}

\* The instances satisfy what the proofs assume, but for the ten mentions.
ASSUME MCAssumption ==
    /\ Events # TenMentions => FewMentioned
    /\ NamesAreNotKeys /\ BotHasAName /\ BotIsNamedApart /\ BotIsToldAlike
=============================================================================
