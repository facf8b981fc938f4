SPECIFICATION Spec
CONSTANTS
    Bot = "bot"
    NameOf <- MCNameOf
    Events <- FewMentions
    Identities <- MCIdentities
INVARIANTS
    TypeOK
    MentionsResolved
    StrippedIsDelivered
    BotRecognised
    OthersAreNotTheBot
CHECK_DEADLOCK FALSE
