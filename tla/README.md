# Verification of the Lark/Feishu connector

TLA+ models of the Beak agent channel connector for Lark/Feishu (the Go
package in `src/`), checked with TLC on small instances and, where it says so,
proved with TLAPS for every value of the constants.

1. [The system](#1-the-system)
2. [Modules](#2-modules)
3. [How state and actions correspond to the code](#3-how-state-and-actions-correspond-to-the-code)
4. [Runs, bounds and what they show](#4-runs-bounds-and-what-they-show)
5. [Fairness](#5-fairness)
6. [Proofs](#6-proofs)
7. [Disagreements found](#7-disagreements-found)
8. [Not modelled, and the plan](#8-not-modelled-and-the-plan)

## 1. The system

The package is a library: a *host* (the Beak channel gateway's process) calls
it, and it calls back into the host's `Gateway` (sessions, messages,
interactions) and `AccountStore` (one map of account state per bot account), and
out to the *platform* (Lark/Feishu Open API, an upload/download store and a
WebSocket that the host owns).

There are no goroutines of its own: what is concurrent are the host's calls.
Every call loads the whole account state, works on a copy through a chain of
requests, and writes the whole copy back, without a lock or a version. A call
can fail at any request, its context can be cancelled, and both the platform
(events, until acknowledged) and the host (messages to send) try again.

| component | state | operations | interacts with | what makes it correct |
|---|---|---|---|---|
| inbound message handling (`processMessageEvent`) | the call's copy of the account state | `HandleEvent`, `HandleWebhook` | AccountStore (load whole, save whole), Gateway, platform lookups | message before dedupe key before acknowledgement; a redelivery is a duplicate; only users' complete messages |
| account state and pruning (`state/state.go`) | tracked maps with times, name caches | `TouchAccount` on each save | every operation that saves | bounded; recent keys stay; ages are not renewed |
| tenant access token (`connector.go`, `internal/lark/client.go`) | token and expiry in the account state and in each short-lived client | `TenantAccessTokenWithExpiry`, `tokenForRequest`, `seedLarkClientToken`, `captureLarkClientToken` | every request | a token is never paired with another's or a later expiry; none expires while a request is under way |
| host stream (`stream_host.go`) | fragment table, ping interval of one connection | `ConnectStream`, `BuildStreamPing`, `HandleStreamFrame` | inbound handling, card callbacks | whole payloads only; an event is acknowledged after its message, and in the end |
| outbound messages (`Send`, `outbound_media.go`) | the loop over attachments, the result | `Send` | platform uploads and messages, AccountStore (token) | no part twice within the deduplication window; a success leaves nothing out silently |
| media files (`DownloadMessageResource`, `DownloadURL`, `UploadMedia`) | temporary files, size limits | downloads before the gateway is called; uploads in `Send` | inbound handling, `Send`, the host's own files | files are removed on every path and not before they are read; only whole files |
| bot identity and mentions (`ensureLarkBotIdentity`, `internal/lark/types.go`) | the ids and the name known of the bot | text of a message, `mentioned_me`, the empty-text rule | inbound handling, `BotInfo` | each placeholder becomes the right name; the bot is recognised, others are not |
| acknowledge (`Acknowledge`) | none of its own | a reaction on a message | AccountStore (token) | token handling as in `Send` |
| start and account selection (`Start`, `selectRuntimeAccount`) | the link session of each account | `Start` over all accounts | Gateway, identity, AccountStore | linked when it returns, also after failures half way |
| card interactions (`interaction.go`, `sdk/interaction.go`, `internal/lark/`) | none; a reference in each button | send, update, callback, toast | Gateway, platform, members | a decision is about what its member saw; an update reaches its message; toasts tell the truth |
| credential validation (`ValidateCredential`, `errors.go`) | attempts, the client's token | token and bot lookup, again after what may pass | platform, the host's setup | the verdict is the platform's, not a disturbance's |
| webhook requests (`HandleWebhookRequest`, `webhook_security.go`) | none | signature, freshness, decryption | inbound handling | pure functions |
| card and post rendering, locale, metadata | none | formatting | | |

What is hard to test here, and what the properties are aimed at: whole-state
writes that overlap; a failure between the gateway's `CreateMessage` and the
save; redelivery during and after handling; frames of several events and
resends interleaved over broken connections; a lost response of a message that
was sent; several attachments of which some fail; a token that is replaced or
expires during a call; temporary files over a dozen error returns; a file that
changes between the size check and the read; placeholders replaced one after
the other in the text that earlier replacements have left; a `Start` that fails
at one of several accounts while other calls save the same states; a credential
that is revoked or repaired while it is validated; and cards that were sent twice,
updated in the wrong order or clicked when they were outdated. Each is listed in
`PROJECT.json` under `hazards`, at its line.

## 2. Modules

| module | models | used by |
|---|---|---|
| `TrackedKeys` | the two pruning functions of `state/state.go`, as operators | `InboundEvent`, `AccountTouch` |
| `InboundEvent` | concurrent handlers and token refreshes over one account state | |
| `InboundContract` | abstract: at-least-once delivery, message before acknowledgement | `InboundEvent`, `HostStream` as a property |
| `AccountTouch` | one account's bounded maps over a long time | |
| `HostStream` | one account's connections, frames and answers | |
| `Outbound` | calls of `Send` with retries and the platform's deduplication | |
| `TokenCache` | the token in the state, the copies and the clients | |
| `MediaFiles` | the files of downloads and uploads | |
| `BotMention` | what becomes of a message with mentions | |
| `Faults` | one budget for all faults of the modules that extend it | the four below |
| `RuntimeAccounts` | the accounts of a runtime, their keys and the choice by id | the four below |
| `CredentialValidation` | a validation of each account with its attempts and errors | `ConnectorLifecycle` |
| `ConnectorStart` | calls of `Start` next to other calls that save the states | `ConnectorLifecycle` |
| `Interaction` | requests as cards: sent, updated, clicked, decided | `ConnectorLifecycle` |
| `ConnectorLifecycle` | the three composed: validated, started, live | |
| `MC...` | instances for TLC | the runs |
| `..._proofs` | theorems (section 6) | |

`InboundEvent` and `HostStream` both implement `InboundContract`: the first
with `messages` and `acked` as they are, the second with `messages` mapped to
whether the key's message was created. `HostStream` takes a call of
`HandleEvent` as one step with the outcomes `InboundEvent` allows it: success
after the message was created, or failure before or after. `Outbound`,
`TokenCache` and `MediaFiles` are three views of `Send`: the messages, the
token and the files; `InboundEvent`, `TokenCache`, `MediaFiles` and
`BotMention` four of `processMessageEvent`. They are kept apart because the
control that each is about does not depend on the others' data: what a view
leaves out appears in it as a choice of the environment (a request that fails,
a token that is or is not usable).

`ConnectorLifecycle` composes three components over the same accounts, as a host
uses them one after the other: it starts the connector when every credential is
valid, and puts requests to members when `Start` has returned. Each component has
a `Next` of its own (`ValidationNext`, `StartNext`, `InteractionNext`) that
mentions its own variables and the common budget of faults only, so that what is
proved of a component carries over.

## 3. How state and actions correspond to the code

**InboundEvent.** `store` is what the host's `AccountStore` keeps; `copy[a]` the
`*state.AccountState` of a call. A handler's `pc` follows `processMessageEvent`:
`Load` (`LoadAccount`), `UseKnownIdentity` / `FetchIdentity` /
`ProceedWithPartialIdentity` / `SaveIdentity` (`ensureLarkBotIdentity`), `Ignore`
(self echo, incomplete, duplicate: three early returns that acknowledge), `Admit`,
`EnsureChatSession`, `CreateMessage`, `SaveInbound`. `SaveAccount` prunes
(`TouchAccount`) in the same step that writes. `Abandon`, `CreateThenFail` and
`SaveThenFail` are the error returns, a cancelled context and a host that dies;
`SaveThenFail` is a save that took effect although it reported an error. The
senders are the load, token and save of `Send` and `Acknowledge`. `lost` and
`evicted` count what explains a duplicate; nothing reads them.
`WriteConnectionHealth` is the host's own write, which the SDK documents.
What is known of the bot is the set of the types of its ids that the account has,
and its name (`BotKnowledge`); an event tells its sender by ids of some types, and
`IsSelfEcho` compares those of the same type, as `larkSenderMatchesBot` does.

**AccountTouch and TrackedKeys.** A timestamp map is a function from keys to
times, 0 (`Unparsed`) for a text that is not a time. `PruneTimestampMap` is the
set of maps that pruning may give: Go's unstable sort leaves ties open, so any
choice of newest entries is allowed. `PruneStringMap` keeps the ids that sort
last, as the code does.

**HostStream.** `fragments` is `larkHostStreamState.Fragments`, a row of slots
per event; a piece is named by its place and its connection. `HandleFrame` is
`HandleStreamFrame` with `combine`: store, or complete and dispatch, answer with
200 or 500, or no answer for a frame that is not an event. `Pong` is
`handleLarkControlFrame`.

**Outbound.** `call[c]` is the local state of `Send`: the attachment the loop is
at, which were sent or failed, whether `result.MessageID` is set and whether the
notice failed. Each request to the platform may fail before or after it took
effect (`MayAccept`); `window` is the platform's memory of `uuid`s and
`PartUuid` is `larkMediaMessageUUID` / the text's `MessageUUID`.

**TokenCache.** `store`, `call[c].copy` and `call[c].client` each hold a token and
an expiry, 0 for Go's zero time. `Fresh` is the test with the reserve of five
minutes, `Usable` the one that takes an unknown expiry as well; `Seeded` and
`Captured` are `seedLarkClientToken` and `captureLarkClientToken`. An inbound
call opens a client four times (identity, media, names, referenced message); the
media client's capture is deferred past the save and therefore reaches nothing,
as in the code.

**MediaFiles.** `disk` is the temporary directory; a file is its size. `Copy`
reads at most the limit and one byte; `Discard` is each error path after
`os.CreateTemp`; `Read` is the second size check of `UploadMedia`; `Return` and
`EndPart` are the deferred cleanups.

**BotMention.** A text is a sequence of symbols, a placeholder two or three of
them, so that one key can be a prefix of another. `Written` is the text that
`TextWithMentionFilter` starts from, with `AtElement` for the mentions of a post,
`Resolve` one turn of `resolveMentionPlaceholders`' loop, `Decide` the rule for a
text without content and `mentioned_me`. `info` is what `BotInfo` answered: the
name, no name (an app may have none), or an error.

**RuntimeAccounts.** `Runtime` is `Runtime.Account` followed by
`Runtime.Accounts`; `Candidates` are the places that
`runtimeAccountCandidates` keeps (an account listed twice counts once, one
without any id not at all), and `SelectRuntimeAccount` is a set with at most one
place, empty for the errors of `selectRuntimeAccount`.

**CredentialValidation.** `check[i]` is the call of `ValidateCredential` for
account `i`, its `step` the request it is at: `TenantAccessTokenWithExpiry`
(`token`), the token that `BotInfo` asks for itself if the first does not last
(`info`), `/bot/v3/info` (`ask`). `Lives` tells tokens apart by the two clocks,
the call's `now` and `BotInfo`'s. An error is its kind, the class of its status
and of the code in its body; `IsCredentialRejected`, `IsRetryableError` and
`GivesUp` are the code's tests. `quality` is the platform's opinion, which
`Revoke` and `Repair` change; 401 and 403 count as its refusal. `seen`,
`troubles` and `fatal` are history that only the property reads.

**ConnectorStart.** `start[s]` is a call of `Start`: the account of the loop, the
gateway's answer and the state as loaded. The loaded state goes through
`ensureLarkBotIdentity` (`UseKnownIdentity`, `FetchIdentity`,
`ProceedWithName`, `SaveIdentity`) and is saved whole, with the session if it
differs (`KeepLink`, `SaveLink`). `StartFails` and `SaveThenFail` are the error
returns, the latter of a save that took effect. `writer[w]` is any other call
that loads a state and saves it (`Send`, an inbound event). `loose` is history:
the accounts whose session or state somebody else changed since the gateway was
asked for it.

**Interaction.** `chat` are the messages with what they show; `send[s]` a call of
`sendLarkInteraction`, `click[e]` a callback on its way through
`handleLarkInteraction`, `processLarkInteraction` and the host. A card shows its
text (named by request and revision), its status and its buttons, each with the
label that a member sees and the token that comes back (`Token`, `ParseToken`); a
plan's revise button with feedback is a form, which is unfit if what was typed is
blank or longer than 1000 characters. `POST` creates a message once per
`uuid`, `PATCH` replaces what a message shows. The host is modelled from the
comments and types of `sdk/interaction.go`: it owns the request with its revision
and state, decides once, for the requester and the current revision only, and
coordinates its calls for one request; two that overlap are a fault, after which
it sends the card once more. `told` is the card that the chat must now show, by
the host's knowledge; `decision` is history.

The `map` in `PROJECT.json` gives the lines of each definition. An operator whose
comment begins "Mutant of" is a plausible mistake in the definition it names;
`mutants` says which property notices it.

## 4. Runs, bounds and what they show

| run | instance | shows |
|---|---|---|
| `InboundConcurrent` | 2 handlers, 1 sender, 2 messages, 1 fault, 1 duplicate delivery | whatever the interleaving, no key is marked and no event acknowledged without its message, a marked key has its session, and `InboundContract` is implemented with its liveness |
| `InboundSerialized` | one call at a time, 5 kinds of events, a bot known by an open id or by a user id, 2 faults, pruning at 1 key, TTL 1 of 3 ticks | each second message has a failed save or a pruned key as its cause; acknowledged keys stay; no save undoes another; only users' messages |
| `AccountTouch` | 4 keys and 3 ids with a limit of 2, TTL 2 of 5 ticks, a legacy entry | what pruning keeps and drops |
| `HostStream` | a message in 3 frames, a card click, a non-event in 2 frames; 2 connections, 1 resend, 1 failing handler, 1 pong | only whole payloads; the table holds no finished event; `InboundContract` with its liveness |
| `OutboundRetried` | 2 calls; a text with 2 attachments, one broken, and 2 files without a `MessageUUID`; 2 faults, 1 overlap, 1 passing window | no part twice per window, none merged with another, no silent omission, every part settled in the end |
| `TokenCache` | 2 calls of any kind, 2 tokens, 5 ticks, lifetimes told and not told | no late expiry, no request with an expired token |
| `MediaFiles` | 2 calls, 3 names, resources of all sizes around limits 1 and 2, a host file rewritten once | files owned, whole and released |
| `BotMention` | all bodies of 3 segments over lists of up to 3 mentions, as text and post; 5 states of knowledge; `BotInfo` answers with a name, without one, or fails | names, stripping, recognition |
| `ConnectorLifecycle` | 2 accounts (one listed twice, one without a UUID, an entry without ids); 2 attempts; 1 call of `Start` and 1 other writer; a plan with 2 revisions, a request that cannot be sent; 2 calls of `Send`, 2 clicks, 2 members; 4 messages; 2 faults in all | verdicts are the platform's, `Start` leaves accounts linked, decisions are as seen, toasts true, updates shown, and each request is settled in the end |
| `InboundDedupeLost`, `InboundHealthLost`, `TenMentions` | | section 7 |

Why these bounds are enough for what the runs ask. The conflicts are between two
calls (a lost update needs two writers) and a third adds only repetitions. One
fault is enough to separate each step from the next; two allow a failed retry.
Limits of 1 or 2 with one or two entries more reach the pruning code; clocks of
3 to 5 ticks pass the TTL and an expiry with the reserve on either side. A
message in three frames has a first, a middle and a last piece; two connections
are one broken and one new. Sizes 0 to 4 with limits 1 and 2 have an empty, a
largest allowed, a one-too-large and a larger file. Three segments have two
placeholders in both orders and one twice; that ten placeholders matter is the
run `TenMentions`. In `ConnectorLifecycle` two faults are shared by the three
phases: two use up both attempts of a validation, a half-done save and another
writer's older state meet in one `Start`, and a lost answer and an overlapping call
meet in one request; two revisions make a card outdated, and four messages are
one for each revision and status that can be sent anew. Symmetry is used where the properties are invariants only and
the permuted values are interchangeable.

Deadlock is checked in all runs but `BotMention` and `TenMentions`, where the
handling of one message ends; other modules that may come to rest have an
explicit step for it (`Quiescent`, `Idle`, `Rest`) that is enabled only when nothing is
left to do.

## 5. Fairness

- A call that has begun takes its next step (weak fairness of each handler, sender,
  call): requests have a timeout (`RequestTimeout`) and the Go scheduler runs
  goroutines.
- The platform delivers an event again while it is not acknowledged; this is the
  documented behaviour of Lark's event push that the dedupe keys exist for.
- The host reconnects and reads frames (it owns the WebSocket), and tries a
  message again until a call succeeds, which is what the `uuid`s that `Send`
  derives from the `MessageUUID` are for.
- In `ConnectorLifecycle` the host repairs and validates credentials until they
  are valid, calls `Start` again after an error, and sends a card until a call
  returned without one; the requester answers what the chat shows. The connector
  has no retry of its own for `Start` and cards: it leaves them to the host, and
  the property says that calling again is enough. Fairness is per account, call,
  request and click, of the steps of the phase the host is in.
- Faults, duplicates, disconnections, overlaps, passing windows and the clock are
  never fair, and they are bounded: that an event is acknowledged in the end is
  claimed only if failures end.

## 6. Proofs

All theorems hold for every value of the constants that meets the named
assumption of the module (`InboundAssumption`, `OutboundAssumption`,
`TokenAssumption`, `TrackingAssumption`, `FaultsAssumption`,
`RuntimeAssumption`, `AttemptsAssumption`, `InteractionAssumption`,
`StreamAssumption`, `MediaAssumption`, `MediaInputs`, `TouchAssumption`,
`MentionAssumption`); TLC evaluates these assumptions in the runs. They say what
values the constants may have, in `TokenAssumption` also how the times relate; what a
theorem needs beyond that stands in its statement as a hypothesis.

Two parts of the code are loops over lists of any length: the walk of
`larkMediaDescriptors` and the replacing of placeholders. The induction theorems
of the library cannot be used here, so each proof states what it shows as the set
of numbers for which it holds and finds a contradiction in the least number
outside (`NaturalInduction`, from the well-foundedness of the naturals).

**`InboundEvent_proofs`** (any number of handlers, senders, events, faults).
`TypeCorrect`; `SeenMeansCreated`, `CreatedBeforeAcked` and `SeenStaysConsistent`
from `IInv`: `SeenImpliesCreated` alone is not inductive, since what a handler is
about to save must already be justified. `IInv` adds that each copy is *sound*
(its keys are created, its peers and last event fit them) and that a handler at
`save` has created its message; pruning only removes keys (`PruneForgets`), so
soundness survives every save. `DuplicatesAreExplained` and
`AckedStaysRemembered` assume `Serialized` and rest on `SerialInv`: at most one
actor is active, and its copy and the store differ only by what it has done.
Without that assumption both are false (section 7).

`NoSaveUndoesAnother` is the action property `SavesUndoNothing`, also for calls one
at a time: a `SaveAccount` writes a whole state that was loaded several network
calls before, and takes nothing back of what was saved meanwhile. The argument is
`CopyFollows`: from `load` on, the copy of the only active call is the stored
state but for what the call learned of the bot, so the step that adds to the copy
and saves it goes on from the store. The host's connection health is left out of
the property, as it is overwritten even then (section 7).

In the last part, `OnlyUserMessages` and `ImplementsContract` have the hypothesis
`EchoesAreTold`: the bot's own messages tell an id that the account knows of its
bot, or the open id if it knows nothing. `IdentityInv` keeps this for the stored
state and for every copy, as knowledge only grows, and adds that past the identity
check something is known. `ImplementsContract`: every step of inbound handling is a step of
`InboundContract` or leaves its variables alone (the safety part; liveness is
TLC's).

**`Outbound_proofs`**. `TypeCorrect`, `SuccessLeavesNothingOut`,
`SentMeansVisible`, `OncePerWindow`, `TextComesFirst` from one invariant:
`CallInv` says what each step of a call has already put in the chat, `NoticeInv` why a notice that the
platform drops as a duplicate leaves nothing out, `WindowInv` that a remembered
`uuid` belongs to a visible part, `BoundInv` that a part is visible at most once
per passed window, and once more only when it is still remembered.
`TextComesFirst` needs besides that only a call past its text, or the text's own,
shows a part (`Speaking`). `SentIsVisible` and `TextIsFirst` are only proved: added
to `OutboundRetried.cfg` they hold, but the run asks `SuccessIsComplete` instead.

**`TokenCache_proofs`**. `TypeCorrect`, `NeverRecordedLate`,
`NeverExpiresInFlight`. The argument: an expiry is counted from before the
request, so it is *early*; token and expiry only travel as a pair; and a request
starts with more of its token's life left than it may last, either checked or
because the token is new. The assumption is that a request ends within the
reserve (15 seconds against five minutes by default) and that a token lives
longer than two requests.

**`ConnectorLifecycle_proofs`** (any accounts, requests, members, calls, clicks,
faults). Of cards on their own, `InteractionCorrect`, from `InteractionInv`, which adds to the three properties:
`ClickInv` (a click's button is one that its card showed, and a click that was
accepted has its effect in the host's record), `SendInv` (a call updates the
message that the host has; a first card, and one that runs alone, has no other
call next to it), `HostInv` (the host knows at most one message of a request) and
`ChatInv` (every other message still shows the card it was sent with).
`SuccessIsShown` alone is not inductive: that an update reaches all known
messages holds because a first card is never sent twice at a time.

`AccountsAreFound` is about the configuration alone: `selectRuntimeAccount` finds
at most one account, and for the key of every configured account it finds one
that has this key among its ids. Not necessarily the one whose key it is: an
earlier account may have it as another id.

For the composed specification: `LifecycleTypes`;
`VerdictsAreThePlatforms` from `CallInv` (what each step of a validation may
conclude is already among what it has seen, and passing disturbances are as many
as attempts used); `StartLinks` from `LinkInv` (every account that the loop has
passed and nobody touched is linked, and the copy of the current one is the
stored state unless it was touched); and the three properties of cards, carried
over from `InteractionInv` step by step.

**`HostStream_proofs`** (any events, pieces, connections, intervals, faults).
`TypeCorrect`, `OnlyWholeEvents`, `NothingLeftOver` and
`StreamImplementsContract`, the safety part of the contract. `IInv` adds that
frames on the wire are of the present connection (`WireInv`), that the table's
pieces are in their places and of that connection too (`TableInv`: this is why a
completed event is whole), that without early resends each piece of an event
under way is either on the wire or in the table (`Tidy`: why nothing is left
over), and that a success response comes after its message (`AnswerInv`).

**`MediaFiles_proofs`** (any calls, contents, attachments, sizes, limits).
`TypeCorrect`, `FilesAreOwned`, `GatewayHasWholeFiles`, `UploadsAreWhole`.
`StepInv` is the argument in one lemma: a step of one call that leaves on disk
exactly the files it then has, and touches no other, keeps the invariant; each
action is shown to be such a step. `Holds` carries what `LimitReader` puts into a
copy from `Copy` to `Keep`, where at most the limit means whole.
`DescriptorsListed`: for a walk of any length, `larkMediaDescriptors` lists every
resource that has an id exactly once, in the order of their first occurrence. The
fold of the model is shown to be a turn-by-turn recursion (`DescriptorsByStep`),
and `NotedIsListed` says what each turn keeps.

**`AccountTouch_proofs`** (any keys, ids, limit, TTL, clock). `StaysBounded`,
`RecentKeysStay`, `OnlyEarlyNamesGo`. If pruning drops a key in time, what stays
is the limit's worth of keys recorded no earlier (`PruneKeeps`); these are among
the keys that `RecentKeysKept` counts, so the count cannot be below the limit. Of
one name more than fits, only the least goes (`PruneNames`, `NamesAfter`).

**`BotMention_proofs`** (any people and names, messages of any length).
`MentionTypes`, `StrippedMessagesAreDelivered` without further hypotheses. The
latter is about mentions that the handler takes for the bot's (`MatchesBot`): one
that is told by an id the account does not know, by no name it knows, is not
stripped as the bot's, and a message of nothing else may be ignored; and if
`BotInfo` fails for an account that knows nothing, the handling ends with an error.
And, each with the hypotheses it needs,

- `BotIsRecognised`: the bot has a name (`BotHasAName`); the property itself leaves
  out a `BotInfo` that fails or has no name to tell, and accounts with a user or
  union id.
- `OthersAreNotMistaken`: nobody else bears the bot's name (`BotIsNamedApart`), the
  message has fewer than ten mentions and nobody is called as a placeholder begins
  (`FewMentioned`, `NamesAreNotKeys`).
- `MentionsAreResolved`: the last two, and that of two mentions of the bot which
  share an id, the account knows an id of both or of neither, also with the open id
  that `BotInfo` tells (`BotIsToldAlike`).
  In a post `mentionByID` takes the first mention that shares an id with the
  element, and its placeholder; if only one of the two mentions is known to be
  the bot's, one is stripped in the other's place. A platform that tells the same
  ids of a participant in all mentions of a message satisfies this.

A name is one symbol: a display name that contains a placeholder is outside of the
model, and `NamesAreNotKeys` says so.

`MCBotMention` states that its instances meet the hypotheses (`MCAssumption`), all
but the first for `TenMentions`, where the conclusion fails (section 7): ten
mentions are exactly what the theorem cannot allow. The argument: `HandlerInv`
says where in the handling a message is and what the account then knows of its
bot. `TextInv` says that the text, after any number of turns of the loop, is the
one in which the mentions done so far have been replaced where the sender put
them. For this a replacement must not hit inside another placeholder, in a name,
or across the border of two segments: `ReplaceSegments` shows that `ReplaceKey` over
a text of segments replaces whole segments, if every other segment is free of the
key. Stripping and recognising are two tests in the code; that the first implies
the second is what `StrippedMessagesAreDelivered` rests on.

Only model-checked: the liveness properties (`DeliversAtLeastOnce`,
`StreamDeliversAtLeastOnce`, `EventuallySettled`, `FilesReleased`,
`EventuallyDecided`), which are out of the prover's reach.

## 7. Disagreements found

- **A lost dedupe key** (`InboundDedupeLost`). Two events handled at once: both
  load the state, both save the whole of it, and the key of the one that saved
  first is gone although its event was acknowledged. A redelivery makes a second
  message. The gateway gets the key as `DedupeKey`, so a host that dedupes there
  is safe; the README of the source promises it of the connector.
- **The host's connection health overwritten** (`InboundHealthLost`). The README
  says that the host writes connection and reconnect health and the SDK event
  activity; each save writes all of them, as loaded when the call began.
- **The tenth mention** (`TenMentions`). `@_user_1` is replaced inside
  `@_user_10`: a message with ten mentions shows "@Alice0" for the tenth.

## 8. Not modelled, and the plan

Not modelled for good: webhook signature, decryption and verification token (pure
functions over bytes); rendering of posts, cards and markdown, locale, credential
schema and plugin metadata (formatting and declarations); HTTP plumbing.

Left for later: the reply target of `Send` (`larkReplyTarget`,
`LatestThreadMessage`) and the choice of the reaction in `Acknowledge`, which
belong in `Outbound`.

Known limits of the models: accounts have a UUID (without one the state is saved
under the app id but never loaded again); the bot's own messages tell an id that
the account knows (`EchoesAreTold`: with a user or union id configured `BotInfo` is
never asked, and only ids of the same type are compared, so an echo that tells the
open id alone would be taken for a user's message; the source's README promises
the filter for `bot_open_id` only); nobody else bears the bot's name
(`BotIsNamedApart`: the connector cannot tell namesakes without ids); a lone
fragment of an early resend stays in the table until the connection ends
(`NoLeftovers` leaves it out); `SuccessIsShown` is claimed of updates that ran
alone, since an overlapping one may overwrite a later state (`EventuallyDecided`
covers that the host's next update repairs it); the platform's deduplication
window is modelled from how the code's comments and the `uuid` field use it; a
user or union id that is configured is taken to be right.
