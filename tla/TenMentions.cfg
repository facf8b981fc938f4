SPECIFICATION Spec
CONSTANTS
    Bot = "bot"
    NameOf <- MCNameOf
    Events <- TenMentions
    Identities <- MCIdentities
INVARIANTS
    MentionsResolved
CHECK_DEADLOCK FALSE
