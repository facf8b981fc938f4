------------------------------ MODULE BotMention ------------------------------
(***************************************************************************)
(* What a message with mentions becomes: the bot's identity is completed   *)
(* if that may be needed (ensureLarkBotIdentity), the placeholders of the  *)
(* mentions are replaced one mention after the other, the bot's own are    *)
(* stripped (resolveMentionPlaceholders), and a message that has no text   *)
(* left is ignored unless it mentions the bot (processMessageEvent).       *)
(*                                                                         *)
(* A text is a sequence of symbols: words, names, and the two or three     *)
(* symbols of a placeholder such as "@_user_12".  The sender wrote a body  *)
(* of segments: 0 for a word, i for the i-th mention.                      *)
(***************************************************************************)
EXTENDS Naturals, Sequences, SequencesExt, FiniteSetsExt

CONSTANTS
    Bot,        \* the bot, a person as the others
    NameOf,     \* the display name of each person, "" if the platform gives none
    Events,     \* messages: [post, mentions, body]
    Identities  \* what accounts know of their bot

IdTypes == {"open_id", "user_id", "union_id"}
Everyone == "all"

Mentions == [who : {Everyone} \cup DOMAIN NameOf, told : SUBSET IdTypes]

\* The platform tells at least one id of whom is mentioned.
ASSUME MentionAssumption ==
    /\ Bot \in DOMAIN NameOf /\ Everyone \notin DOMAIN NameOf
    /\ Identities \subseteq SUBSET (IdTypes \cup {"name"})
    /\ Events \subseteq [post : BOOLEAN, mentions : Seq(Mentions), body : Seq(Nat)]
    /\ \A e \in Events :
           /\ \A m \in Range(e.mentions) : m.who # Everyone => m.told # {}
           /\ \A i \in Range(e.body) : i <= Len(e.mentions)

VARIABLES
    event,   \* the message
    known,   \* which of its bot's ids, and its name, the account knows
    info,    \* what BotInfo answered, if it was asked
    step,    \* what the handler is doing
    text,    \* the text so far
    next,    \* the mention whose placeholder is replaced next
    result   \* what the message became

vars == <<event, known, info, step, text, next, result>>

Answers == {"unasked", "named", "nameless", "failed"}

Undecided == [verdict |-> "none", mentionedMe |-> FALSE, mentionAll |-> FALSE]

TypeOK ==
    /\ event \in Events
    /\ known \subseteq IdTypes \cup {"name"}
    /\ info \in Answers
    /\ step \in {"identify", "resolve", "done"}
    /\ next \in 1..(Len(event.mentions) + 1)
    /\ result \in [verdict : {"none", "deliver", "ignored", "error"},
                   mentionedMe : BOOLEAN, mentionAll : BOOLEAN]

Init ==
    /\ event \in Events
    /\ known \in Identities
    /\ info = "unasked"
    /\ step = "identify"
    /\ text = <<>>
    /\ next = 1
    /\ result = Undecided

-----------------------------------------------------------------------------
(* Helpers                                                                 *)

Mention(i) == event.mentions[i]

IsAll(m) == m.who = Everyone

Name(m) == IF IsAll(m) THEN Everyone ELSE NameOf[m.who]

Digit(n) == <<"0", "1", "2", "3", "4", "5", "6", "7", "8", "9">>[n + 1]

\* The platform numbers the placeholders.
Key(i) ==
    IF IsAll(Mention(i)) THEN <<"@_all">>
    ELSE <<"@_user_">> \o (IF i < 10 THEN <<>> ELSE <<Digit(i \div 10)>>)
                       \o <<Digit(i % 10)>>

\* larkMentionMatchesBot: by an id that is known, or by the name.
MatchesBot(m) ==
    \/ m.who = Bot /\ m.told \cap known # {}
    \/ "name" \in known /\ ~IsAll(m) /\ Name(m) = NameOf[Bot]

\* Mutant of MentionsBot: by the ids only.
MentionsBotById ==
    \E m \in Range(event.mentions) : m.who = Bot /\ m.told \cap known # {}

\* larkMentionIdentities and larkMentionsBot: an entry for each id told, each
\* compared by its id and by its name.
MentionsBot ==
    LET identities == {[type |-> t, m |-> m] :
                           t \in IdTypes, m \in Range(event.mentions)}
    IN  \E x \in identities :
            /\ x.type \in x.m.told /\ ~IsAll(x.m)
            /\ \/ x.m.who = Bot /\ x.type \in known
               \/ "name" \in known /\ Name(x.m) = NameOf[Bot]

\* larkMessageNeedsBotName: someone is told by a name and no open_id.
NeedsBotName ==
    \E m \in Range(event.mentions) :
        ~IsAll(m) /\ Name(m) # "" /\ "open_id" \notin m.told

\* Mutant of Identified: the name is not waited for.
IdentifiedById == known \cap IdTypes # {}

\* ensureLarkBotIdentity has no need to ask.
Identified ==
    \/ known \cap {"user_id", "union_id"} # {}
    \/ "open_id" \in known /\ (NeedsBotName => "name" \in known)

\* Mutant of ReplaceKey: the first occurrence only.
ReplaceKeyOnce(s, key, by) ==
    LET at == {i \in 1..Len(s) : IsPrefix(key, SubSeq(s, i, Len(s)))}
    IN  IF at = {} THEN s
        ELSE SubSeq(s, 1, Min(at) - 1) \o by
                 \o SubSeq(s, Min(at) + Len(key), Len(s))

\* strings.ReplaceAll, for a key that is not empty.
ReplaceKey(s, key, by) ==
    LET from[i \in 1..(Len(s) + 1)] ==
            IF i > Len(s) THEN <<>>
            ELSE IF IsPrefix(key, SubSeq(s, i, Len(s)))
                 THEN by \o from[i + Len(key)]
                 ELSE <<s[i]>> \o from[i + 1]
    IN  from[1]

\* Mutant of Replacement: "@all" is a mention of everyone, the bot included.
ReplacementOfAll(m) ==
    IF MatchesBot(m) \/ IsAll(m) THEN <<>>
    ELSE IF Name(m) # "" THEN <<"@", Name(m)>> ELSE <<>>

\* What resolveMentionPlaceholders puts for a mention.
Replacement(m) ==
    IF MatchesBot(m) THEN <<>>
    ELSE IF Name(m) # "" THEN <<"@", Name(m)>> ELSE <<>>

\* mentionByID: the first mention that tells one of the ids.
FirstOf(i) ==
    Min({j \in 1..i : /\ Mention(j).who = Mention(i).who
                      /\ Mention(j).told \cap Mention(i).told # {}})

\* The "at" element of a post: "@all", nothing if it is to be stripped, or the
\* key of the mention.
AtElement(i) ==
    IF IsAll(Mention(i)) THEN <<"@", Everyone>>
    ELSE IF MatchesBot(Mention(FirstOf(i))) THEN <<>>
    ELSE Key(FirstOf(i))

\* The text before placeholders are replaced.
Written ==
    LET Segment(i) == IF i = 0 THEN <<"word">>
                      ELSE IF event.post THEN AtElement(i) ELSE Key(i)
    IN  FlattenSeq([n \in DOMAIN event.body |-> Segment(event.body[n])])

-----------------------------------------------------------------------------
(* The handler                                                             *)

\* The identity is known well enough, or as well as BotInfo knows it; the text
\* is taken.
Recognise ==
    /\ step = "identify"
    /\ Identified \/ info # "unasked"
    /\ step' = "resolve"
    /\ text' = Written
    /\ UNCHANGED <<event, known, info, next, result>>

\* Mutant of AskBotInfo: the name is kept under the platform's word for it.
AskBotInfoAppName ==
    /\ step = "identify"
    /\ ~Identified /\ info = "unasked"
    /\ known' = known \cup {"open_id", "app_name"}
    /\ info' = "named"
    /\ UNCHANGED <<event, step, text, next, result>>

\* BotInfo answers, with the open_id and, unless the app has none, the name; a
\* name that was configured stays.
AskBotInfo ==
    /\ step = "identify"
    /\ ~Identified /\ info = "unasked"
    /\ \/ info' = "named" /\ known' = known \cup {"open_id", "name"}
       \/ info' = "nameless" /\ known' = known \cup {"open_id"}
    /\ UNCHANGED <<event, step, text, next, result>>

\* BotInfo fails: the handler goes on with what it knows, if anything.
BotInfoFails ==
    /\ step = "identify"
    /\ ~Identified /\ info = "unasked"
    /\ info' = "failed"
    /\ IF known # {}
       THEN /\ step' = "resolve"
            /\ text' = Written
            /\ UNCHANGED result
       ELSE /\ step' = "done"
            /\ result' = [Undecided EXCEPT !.verdict = "error"]
            /\ UNCHANGED text
    /\ UNCHANGED <<event, known, next>>

\* One mention's placeholder is replaced, wherever it stands.
Resolve ==
    /\ step = "resolve"
    /\ next <= Len(event.mentions)
    /\ text' = ReplaceKey(text, Key(next), Replacement(Mention(next)))
    /\ next' = next + 1
    /\ UNCHANGED <<event, known, info, step, result>>

\* The message is described, and ignored if it is empty and not for the bot.
Decide ==
    /\ step = "resolve"
    /\ next > Len(event.mentions)
    /\ step' = "done"
    /\ result' = [verdict |-> IF text = <<>> /\ ~MentionsBot THEN "ignored"
                              ELSE "deliver",
                  mentionedMe |-> MentionsBot,
                  mentionAll |-> \E m \in Range(event.mentions) : IsAll(m)]
    /\ UNCHANGED <<event, known, info, text, next>>

Next == Recognise \/ AskBotInfo \/ BotInfoFails \/ Resolve \/ Decide

Spec == Init /\ [][Next]_vars

-----------------------------------------------------------------------------
(* Properties                                                              *)

\* Each mention of the body shows as the name of whom it mentions, the bot's
\* own as nothing, and the rest of the text is as written: replacing one
\* placeholder after the other, anywhere in the text, comes to the same as
\* replacing each where the sender put it.
MentionsResolved ==
    step = "resolve" /\ next > Len(event.mentions) =>
        text = FlattenSeq([n \in DOMAIN event.body |->
                   IF event.body[n] = 0 THEN <<"word">>
                   ELSE Replacement(Mention(event.body[n]))])

\* A message of which something was stripped as the bot's mention
\* (larkMentionMatchesBot) is delivered, as one that mentions the bot
\* (larkMentionsBot, a test written apart), though no text may be left of it.
StrippedIsDelivered ==
    result.verdict \in {"deliver", "ignored"}
    /\ (\E m \in Range(event.mentions) : MatchesBot(m))
    => result.verdict = "deliver" /\ result.mentionedMe

\* A message that mentions the bot is delivered as such whichever id the platform
\* tells, though the account may know another: unless BotInfo fails or has no
\* name to tell, or a configured user or union id ends the search early.
BotRecognised ==
    /\ step = "done" /\ info \in {"unasked", "named"}
    /\ known \cap {"user_id", "union_id"} = {}
    /\ \E m \in Range(event.mentions) : m.who = Bot
    => result.mentionedMe /\ result.verdict = "deliver"

\* A mention of everyone, or of other people, is not a mention of the bot, and
\* it is not stripped from the text.
OthersAreNotTheBot ==
    step = "done" /\ (\A m \in Range(event.mentions) : m.who # Bot) =>
        /\ ~result.mentionedMe
        /\ (\E n \in DOMAIN event.body :
                event.body[n] # 0 /\ Name(Mention(event.body[n])) # "") =>
               result.verdict # "ignored"

-----------------------------------------------------------------------------
(* What the properties rest on                                             *)

\* No message has a placeholder that is the beginning of another.
FewMentioned == \A e \in Events : Len(e.mentions) < 10

\* Nobody is called as a placeholder begins.
NamesAreNotKeys ==
    \A p \in DOMAIN NameOf : NameOf[p] \notin {"@_user_", "@_all"}

BotHasAName == NameOf[Bot] # ""

\* Nobody else bears the bot's name.
BotIsNamedApart == \A p \in DOMAIN NameOf \ {Bot} : NameOf[p] # NameOf[Bot]

\* Of two mentions of the bot in a message that share an id, both tell an id
\* that the account knows or neither does, before it has asked BotInfo and after.
BotIsToldAlike ==
    \A e \in Events, I \in Identities : \A m, o \in Range(e.mentions) :
        m.who = Bot /\ o.who = Bot /\ m.told \cap o.told # {} =>
            \A b \in {I, I \cup {"open_id"}} :
                m.told \cap b # {} <=> o.told \cap b # {}
=============================================================================
