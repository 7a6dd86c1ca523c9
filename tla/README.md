# OpenDating: a formal model

TLA+ modules of the OpenDating relay: a Nostr relay on Cloudflare Workers
(`src/src/relay-worker.ts`, `src/src/durable-object.ts`), the dating protocol
that runs on it (`src/src/protocols/opendating`), its media server, its
command-line client and the blast relay beside it. TLC checks small instances
of the modules; TLAPS proves the main theorems for every value of the
constants. Paths below are relative to `src/src` unless they begin with
`docs/`, `migrations/`, `tests/`, `scripts/` or are `send-it.js`.

    tlc -config MCMatchingAll.cfg MCMatching     one run
    tlapm MatchingProofs.tla                     one proof module

`PROJECT.json` lists components, runs, mutants, the source lines of every
definition, findings, hazards and theorems.

## 1. The system

A client opens a WebSocket to the **regional relay**, a Durable Object chosen
by its region. The Durable Object answers `REQ`s through two caches and D1,
stores `EVENT`s, and broadcasts them to its own sessions and to the Durable
Objects of the other regions. Events that are gift wraps addressed to the
service key are requests: the **extension** unwraps one, the **router** checks
its freshness and its idempotency record and calls a **service**, whose
effects are SQL statements on D1, and the reply goes back as an event. A
**housekeeper** runs from a Durable Object's alarm and prunes tables. A visit of
the landing page makes or migrates the tables of the event store. The **media
server** keeps blobs in R2, the **client** logs in, sends requests and waits for
replies, and the **blast relay**, a worker of its own, passes events on to
public relays.

| part | state | operations | talks to |
|---|---|---|---|
| Matcher (`services/matcher`) | `od_intents`, `od_matches`, `od_match_notifications`; consumes `od_candidate_grants`; counts in `od_discovery_quotas` | `intent.like`, `intent.revoke`, `match.list` | discovery's grants, block's rows |
| Block (`services/block`) | `od_blocks`; closes matches, intents, grants | `block.create`, `block.remove`, `unmatch.create`, `block.list` | the matcher's rows |
| Deletion (`services/deletion`) | rows of every table of the member | `account.delete` | matcher, block, membership rows |
| Discovery (`services/discovery`) | the deck: grants, `od_seen_candidates`; preferences, quota row, location | `get_candidates` with its pages and tiers, `update_preferences`, `update_location` | index, blocks, quota |
| DM policy (`services/dm-policy.ts`) | none | `checkDirectMessagePolicy` | blocks, matches |
| Profile and membership (`services/profile`, `storage/d1/membership.ts`) | `od_members`, `od_profiles`, `od_discovery_index` | create, update, visibility, pause, resume | all services through `ensureMember` |
| Moderation (`services/moderation`) | `od_reports`, `od_moderation_actions`, `od_sanctions` | report, action | profiles |
| Router and idempotency (`transport`, `storage/d1/idempotency.ts`) | `od_idempotency` | one request | services |
| Housekeeper (`cloudflare/housekeeper.ts`) | its last run | prune grants, ledger and idempotency records, reset quotas | the tables of the above |
| Regional relay (`durable-object.ts`) | sessions, subscriptions, `queryCache`, `activeQueries`, the colo's cache | `REQ`, `EVENT`, `CLOSE`, `AUTH`, broadcasts, alarms, hibernation | event store, other regions |
| Extension and gift wrap (`extension.ts`, `crypto`) | none | claim, unwrap, screen, route, wrap, store and announce the reply | relay, router |
| Rate limiter (`types.ts`) | two token buckets per session | `removeToken` | sessions |
| Event store (`relay-worker.ts`) | `events`, `tags`, `event_tags_cache_multi`, ids in the worker cache | save, replace, delete, query, prune | D1 |

| Start-up (`relay-worker.ts`: `initializeDatabase`) | `system_config`, the tables and columns | check, create, migrate, fill | event store |
| Media server (`protocols/blossom`) | R2 objects with their uploader | upload, get, delete, list | |
| Client (`scripts/od-client.ts`) | the connection, requests that wait, their timers | log in, subscribe, request, send a message | relay |
| Blast relay (`send-it.js`) | ids it has seen, the list of relays, a semaphore | `EVENT` | public relays |

What makes it hard: D1 runs one statement at a time and no transaction spans
two `await`s, so every service is a sequence of statements with everybody
else's statements in between; any statement may be the last a handler runs
(an error is thrown out of the service, or the isolate is gone); reads may be
answered by replicas; clocks are whole seconds compared with four operators;
caches are shared by objects that do not tell each other; broadcasts get lost;
a migration runs while events are saved, twice at once, or half.

What makes each part right: two likes become one match, however they
interleave; a match is earned, unique and never re-opened; blocking, deleting
and unmatching close what they should; limits hold; nobody is dealt to others
against their will; a deck is dealt once, nearest first, and survives a lost
answer; a request has its effects once, and is answered or lost in a known way; a
subscriber misses nothing and a client sees what it wrote; an accepted event is
kept, once, and only its latest version; a database that says it is migrated is;
nobody erases another's photos; what is called a duplicate is on its way.

## 2. The modules

| module | models | composed with |
|---|---|---|
| `Matching` | matcher, block, deletion, DM policy, grants and ledger of discovery, two housekeeping statements | implements `Courtship` |
| `Courtship` | abstract: what the relationship services promise about a pair | |
| `Deck` | discovery for one member: preferences, tiers, pages, grants and ledger | |
| `Quota` | the row `od_discovery_quotas` and its three writers | |
| `Membership` | the member's rows in `od_members`, `od_profiles`, `od_discovery_index`, and sanctions | |
| `Exchange` | a client and the relay from the connection to the answer, and direct messages: NIP-42, inbox, extension, policy | |
| `Requests` | the life of one request id: freshness, check, execution, record, pruning | |
| `GiftWrap` | the padding of a reply's two layers, and what becomes of one that does not fit | |
| `EventStore` | saving, replacing, deleting and pruning events and their tag rows | |
| `Startup` | `initializeDatabase`: creation and migration of the tables, while others do the same and events are saved | |
| `Query` | how the stored events that match the filters of a REQ are found, and a client that pages | |
| `Delivery` | caches, queries, bookmarks, subscriptions and broadcasts of one filter | |
| `Session` | connections: sessions, attachments, stored subscriptions, NIP-42, the alarm, hibernation | |
| `RateLimiter` | the token bucket of a session | |
| `Blossom` | uploads, deletions and lists of the media server | |
| `Blast` | the blast relay: its cache, its list of relays, its semaphore and attempts | |
| `MatchingProofs` | theorems on `Matching`, and its refinement of `Courtship` | extends `Matching` |
| `QueryProofs`, `DeliveryProofs` | theorems | extend the module they are about |
| `MembershipProofs` | theorems | extends `Membership`, `Deck` |
| `RequestsProofs` | theorems | extends `Requests`, `Quota` |
| `EventStoreProofs` | theorems | extends `EventStore`, `Startup` |
| `SessionProofs` | theorems | extends `Session`, `RateLimiter`, `GiftWrap`, `Blossom` |
| `ExchangeProofs` | theorems | extends `Exchange`, `Blast` |
| `MCMatching`, `MCDelivery` | constants for TLC | extend one module |
| `MCMember` | `Membership`, `Deck`, `Quota`: one member's rows | extends all three |
| `MCEventStore` | `EventStore`, `Blast`: events kept, and events passed on | extends both |
| `MCQuery` | `Query`, `Exchange`, `Startup`: what a client asks, and the tables it asks | extends all three |
| `MCSession` | `Session`, `RateLimiter`, `Requests`, `GiftWrap`, `Blossom`: a message's way in and out | extends all five |
| `MCDeck`, `MCGiftWrap` | the smallest instances that show the two violations | extend `Deck`, `GiftWrap` |

They are cut so that no property spans two of them: they share the process
(a handler that awaits one statement at a time), and what one module does in
several steps is one step of another where that is all the other needs.

- The save of an event is `EventStore` in full and one step of `Delivery`, which
  needs that a save answered "saved" added an event that a later read has.
  `Query` sees `EventStore` as `Save` and `Remove` of an event with all its rows.
- A query is `Query` in full and one read of `Delivery`, answered at a version
  of the database or failed.
- A message of a client is `Delivery` as far as it concerns one filter, and
  `Session` as far as it concerns who sent it; `Delivery`'s session bookmark
  survives as `Session`'s attachment does.
- The status of a member is in `Membership` in full and in `Matching` as the set
  `deleted`, with `Resume` as the one thing that empties it.
- What a request is answered with is `Requests` (whether it runs) and the
  services; `Exchange` has it as an outcome, and follows it from the client
  through the relay's handlers and back. `Exchange` gives every request an id of
  its own, so that none is a duplicate.
- That a reply is too long for its padding is `GiftWrap` in full, the set `Bulky`
  of `Exchange`, and a reply that is not announced in `Delivery`.
- A session may refuse a message in `Session` and `Exchange` at any time;
  `RateLimiter` says when it does. The blast relay has the same bucket.
- The grants a like consumes are in `Matching`, where a discovery request is what
  a like can race with; how they come to be dealt is `Deck`, which sees the others'
  likes and blocks as candidates that go away.
- `Startup` saves an event as `EventStore` does, without what it replaces.
- The likes' quota is in `Quota` alone; a like it refuses writes nothing and is
  a stuttering step of `Matching`.

**How the code maps to actions.** A request is a process: `Begin` takes the
parameters (and the `now` the handler computes), and every awaited statement
or `db.batch` is one action, in the order of the code, with its early returns.
`Abort` ends a request before any statement. In `Delivery` a handler yields
where it awaits D1, the colo's cache or another object; an await of the Durable
Object's own storage closes its input gate and is no step. Each action carries
the name of the function or statement; rows that do not exist are `"none"` or
`Never`; `INSERT OR IGNORE`, `INSERT OR REPLACE` and `UPDATE ... WHERE` are
spelt out by what they do to the row.

*Matching.* Per ordered pair: grant (second of issue), ledger row, like, match
row, block. A grant's token is a hash of viewer, candidate and second
(`services/discovery/service.ts:553`), so the second stands for the token.
`DiscoverPersist` writes grant and ledger in one batch; what it writes was
chosen from rows read earlier, and that read may be answered by a replica, so
the written `now` lies anywhere between the second that was read and the
clock. History: `granted`, and `cut`, the likes that were cut off between
intent and notifications.

*Deck.* One member, whose requests overlap; the others are a set with a tier each
(same cell, next cells, farther) and a filter is who it fits and how far it
reaches. `UpsertPrefs` and `DropDeck` are the two statements of
`update_preferences`. A deck is `Ask` (preferences), `LoadGrants` (what is
dealt again), one `Search` per tier with the LIMIT of the code, `Persist` (grants
and ledger) and `Answer` (the page and its cursor), and may end anywhere
(`Abandon`). A client repeats a request, pages on, or starts again; likes use
grants up (`UseGrant`), the others come and go (`Move`). History: `deals`, the
grants of a candidate since the ledger forgot it last; `alone`, that nothing else
changed while a request ran.

*Quota.* One row, `reset = 0` for no row. The like reads the row, checks and
writes in a second statement; the deck reads, and writes absolute values; the
housekeeper resets. History: likes counted and candidates dealt, by second, and
`putBack`, that a deck wrote back a window that another request had closed. `Count`
is the sum over a window, as the size of a disjoint union, so that it can be
reasoned about.

*Membership.* One member. `syncDiscoveryIndex` is a read and a write.
`SanctionHide` always fails: the statement names a column that
`od_profiles` does not have. History: `mixed`, the requests that overlapped
another, and `past`, which says whether since the last sync of a request on
its own something was cut off or overlapped.

*Requests.* One request id, copies of which arrive whenever the client
likes. `CheckFails` is the check that fails open. History: `failed`.

*Exchange.* Two wires that keep their order, and a handler per message that the
relay has begun with: `Begin…` and `End…` of AUTH, REQ and EVENT, `Dispatch`,
`Screen`, `Route`, `SendResponse`, `Publish`, `Policy` and `Store` are the
stretches between two awaits. A reply that is announced reaches an inbox that is
there; what is stored reaches one that is read later (`Batches`). `Lose` and
`Dial` are a lost and a new connection, `GiveUp` the client's timer of 30
seconds. The peer matches, unmatches and blocks at any time (`Turn`). History:
`missed`, `cut`, and `fit`, the letters that were to a match at some time while
they were handled.

*GiftWrap.* Sizes only: `PaddedLen`, `Fits` and `Frame` are `calcPaddedLen` and
`pad` as they are written, `Unpad` is the recipient's; a reply is a rumor in a
seal in a gift wrap, each of which is encrypted, or throws. `SpreadLimit` is the
number of arguments the engine lets `String.fromCharCode` have.

*EventStore.* The set of stored events, those with rows in `tags` and in
`event_tags_cache_multi`, the cached ids, and per handler the event, the next
statement and what it is about to remove. The tag rows of a `Large` event need
two batches. `Match` may miss whatever is cached (entries expire, and each colo
has its own cache). The foreign key of `tags` makes `TagsRejected`; the index
has none. A deletion request erases in chunks and then saves itself through the
same actions; its answer does not depend on that save and is left out. History:
`removed` and `gone` (what was removed, and for which reasons it may be), `torn`
(saves cut off among their rows), `raced` (places where one save ran its SELECT
between another's SELECT and INSERT), `refused`, `saved`.

*Startup.* A visit is a process with one action per statement (the ALTERs of one
version, which nothing separates that matters, are one). A tag name stands for the
columns filled from it; `filled`, `tagRows` and `cacheRows` say what of an event
each table has. The initial states are a new database, those of older releases,
and one that `migrations/` have made, which says version 12. `VisitEnds` cuts an
initialization off. A read that fails counts as "no" (`Visit`, `Check`). History:
`halved`, the events that a migration read before their tag rows were written,
and `unfilled`, that the last statement was never reached.

*Query.* One REQ at a time. `query` is the local state of `queryEvents`: the
filters still to do and how, what a chunked filter has asked for and found,
what is collected. `Chunk`, `Precheck` and `Batch` are one awaited statement
each (a batch of statements is one round trip), with `ChunkFails` and
`QueryFails` for the errors that are logged and answered as if nothing had been
found. `Rows` is what the joins of `buildQuery` return, so an event with two
matching tag values is two rows of a statement without `DISTINCT`; `Newest` is
`ORDER BY created_at DESC LIMIT`, any order within a second. Arrays are sets per
dimension; a size is a cardinality. `NextPage` is a client that repeats its
filter with the cursor of the last event it got. History: `kept`, `stayed` and
`seen` (stored all along since the REQ, since the first page, at any time) and
`gaps` (filters skipped or failed).

*Delivery.* The database is the sequence of saved events; version *v* holds
events 1..*v*. A D1 bookmark is a version; a read at a bookmark is answered at
any version at least that new which also holds whatever is older than the lag.
One filter; its cache key is filter and bookmark, so caches are indexed by
bookmark. Version 1 is there from the start. `Mishaps` names what may go wrong:
a query, a put into the colo's cache, a save, a broadcast, the isolate, an entry
of the local cache. History: what a session wrote,
and `owed`, the events saved since it subscribed that it was not sent.

*Session.* `socket`, `attachment` and `stored` survive hibernation; `sessions`
is the map, and `objects` the session objects somebody refers to: the map, or
a handler in flight, which goes on with the object it started with. A message
that awaits only storage is one action (`Refuse`, `CloseSubscription`), the
others are two or three: `Auth` and `Grant`, `Req` and `Finish`, `Event`,
`Announce` and `Finish`. The digest of the signature check is awaited, so
another message may come in between. `alarm()` counts the sockets, awaits the
housekeeper (`AlarmFires`), and sets the next alarm or clears the map
(`Reschedule`, `Cleanup`). A challenge is a number, fresh from `issued`; a
client answers those it was `sent`. Whether the socket that closes is still
listed when `webSocketClose` runs is left open. A crash closes the sockets, and
the runtime runs an alarm again that did not end. History: `granted`, `asked`,
`accepted`, and `split`, the connections whose session was dropped during a
message.

*RateLimiter.* A clock, a bucket, and one window that begins at any moment
(`Observe`); `Refresh` is the full bucket of a restored session. History: what was
let in, turned away, and handed out in the window.

*Blossom.* A handler is a look at the bucket (`HeadFor…`) and a change, or a list
and one look per key. An authorization is used as often as its holder likes until
it expires. History: `uploaders`, and per list what was its user's all along.

*Blast.* One action per await, timer and event of a socket. A query of a bootstrap
relay settles in some way (`Settle`); an attempt waits for a slot (`Begin`, `Wake`),
connects, sends, and ends by success, timer, error or close, whichever is first.
`Forged` messages carry the id of a good one. History: `sent`, `dropped`,
`stranded`.

## 3. The runs

Deadlock is checked in `MCQuery`. In the others the bounds on clock, requests or
versions let an instance stop, so the cfg turns it off: a stopped instance is one
that used up its bound.

Several components share a run where none of them changes a variable of another.
The MC module then has a variable `part`, chosen in the initial state: a behaviour
is one of one component, with the others at rest, so TLC visits the sum of their
states and checks each property in all states of its component.

| run | instance | what it shows |
|---|---|---|
| `MCMatchingAll` | 2 members, 2 handlers, all 7 operations, cut off anywhere, one second | `MutualLikesMatch`, `MatchIsEarned`, `OneRowBothNotified`, `ClosedStaysClosed`, and that the statements implement `Courtship` |
| `MCMatchingSerial` | 2 members, 1 handler, all operations, clock 0..2, grants of 1 tick | `Severed`: the client guide's sentences on blocking and deletion; `UnmatchTakesHold`; the ledger outlives the grant (`SeenCoversGrant`) |
| `MCMatchingLive` | 2 members, 2 handlers, likes and unmatches, fair handlers | two standing likes lead to a match |
| `MCMatchingBlockRace` | as above with blocks; **violation** | a block inside a like leaves an active match |
| `MCMember` | *account*: 1 member, 2 requests at a time, cut off anywhere, unbounded | `ListedIsEntitled`, `IndexAgrees`, `TombstoneHolds` |
| | *deck*: 3 candidates in 3 tiers, one of whom comes and goes, 2 preferences, pages of 2, 3 requests, 2 at a time, clock to 3, grants and ledger rows of 1 tick | `DealtOnce`, `NothingBurned`, `NobodyNearer` |
| | *quota*: limits of 2, a day of 3 ticks, clock 1..6, 6 requests, 2 at a time | `LikeCap`, `ServedCap` over two days |
| `MCEventStore` | *store*: 2 versions of a profile, 2 of an addressable event without a d tag, a large note, a deletion that names one's own and a foreign event; 2 handlers, 4 requests, failures, the pruner | `SavedIsKept`, `SavedOnce`, `RefusedWasStored`, `RowsAgree`, `LatestOnly` |
| | *blast*: a good message, a forged copy of it and a blocked one; 3 relays, 1 slot | `SlotsHold`, `DroppedIsOnItsWay` |
| `MCDelivery` | 2 regions in one colo, a client in each that sends one message at a time, all operations, 2 versions; queries, saves and broadcasts fail, entries and isolates go | `NoGap`, `ReadYourWrites` |
| `MCDeliveryAge` | 1 client with 2 messages at a time that share queries, replies, failing puts, lifetimes of 1 tick, clock 0..4 | `BoundedStaleness` |
| `MCSession` | *session*: 2 connections, 2 messages at a time, 2 keys, 2 subscriptions; hibernation, crashes, closed and failing sockets, alarms, unbounded | `Remembered`, `AcceptedOnce`, `AlarmIsSet` |
| | *limiter*: 3 tokens, one per 2 ticks, clock to 10, 8 attempts, 2 buckets | `RateBound` |
| | *requests*: life of 2+1 ticks, record kept 4, 2 copies at a time, failures | `OncePerCopyInFlight` |
| | *wrap*: rumors of 250 to 2200 bytes and around 65536 and 81920 | `WholeOrLostAtTheEdge` |
| | *blossom*: 2 users, 3 blobs, 2 requests, lists of 2 | `OnlyUploadersDelete`, `OwnListed` |
| `MCQuery` | *query*: 4 events, 2 of them of one second; limit, chunk size and global maximum of 2, 2 and 3; 9 requests; failing statements, saves and removals | `NothingMissed`, `PagesComplete` |
| | *exchange*: a profile that is screened, a request whose service has no fit key, a letter | `ToldOrLost`, `MailWasWelcome` |
| | *startup*: 2 visits, an event that an older release stored and one saved meanwhile, 3 tag names, batches of 2 | `SixIsComplete` |
| `MCDeck` | 1 candidate in each of 2 tiers; **violation** | a page with room left ends a deck that has somebody left |
| `MCGiftWrap` | answers around 256 bytes; **violation** | two lengths per bucket cannot be padded |

The type invariants of all modules are proved for all constants (section 4; of
`GiftWrap` as part of `WrapInv`), so the runs do not repeat them.

**Why the bounds are enough.** Every statement of the matcher names one pair
and every property of `Matching` is about one pair; a deletion touches all
pairs of a member alike; so two members exercise every statement, and the
proofs remove the bound. Two handlers give every interleaving of two
sequences; a third matters only where a count does, and there the bound in the
property (`LikeCap`, `OncePerCopyInFlight`) is stated in the number of
handlers. `MCMatchingAll` runs in one second: its properties do not look at
the clock, and everything that expires is in `MCMatchingSerial`, where
`SeenRetention = 0` is the smallest the assumption allows, so a purge one tick
early is found. A day of three ticks has a first, an inner and a last second,
six ticks have two windows and the end of a third; six requests pass a limit
of two, roll the window over and race with a deck, which is what `putBack` takes
(with five it does not happen, and the clause would look superfluous).
The deck's three candidates are one per tier, so a page of two is filled from
one tier, from two, or from a tier that repeats a nearer one; three requests are a
page, the next one and a repetition, two of them together.
In `MCEventStore` four requests are two saves that race and a deletion or a retry
on either side of them; every property is about one event or two at one place,
and all of them are proved without the bounds. `MCQuery` has one filter per way
of asking (ids, authors, tags of one table, of both, none; chunked and not) and
answers that fill the statement's limit, the chunk and the global maximum; four
events are a full page, a page and a half, and two that tie. In `MCDelivery` two
versions are the one that was there and one new one, which is what a gap needs;
a failing put is left to `MCDeliveryAge`, where the message that put is not alone.
That run needs the clock to reach the sum of both lifetimes and two spans, which
is 4. In `MCSession` one connection is there while the other comes and goes; no
more than three challenges are ever generated for one, so `MaxChallenges = 4` cuts
nothing off.

The rumors of *wrap* are every length from the first edge that bites (256) over
four widths of bucket, and those around the change of the prefix (65536) and the
edge of a bucket behind it (81920); the seal around each is as long as the code
makes it. A bucket of three tokens is full, partly full and
empty; ten ticks empty and fill it. In *blossom* a list of two cuts three blobs
off. In *exchange* every outcome that no constant names (screened, refused, lost,
stored or not) is a choice; two requests suffice to overtake each other. One slot
and three relays let an attempt wait, be woken and be overtaken. Two visits of
*startup* are the one that is cut off and the one that meets what it left; two
rows a batch tear three tags.

`MCMember` sets `OneDeck`: a member waits for a deck before asking for the next
(quota only). `MCDelivery` sets `OneAtATime`: a client waits for the answer to one
message. `MCSession` sets `Lagging = FALSE`. Section 5 says what happens without.

**Fairness.** Only `MCMatchingLive` uses it: `FairSpec` gives every handler
weak fairness of its next statement. The runtime always runs the continuation
of a settled promise and D1 settles every statement; a handler that fails is
`Abort`, which the liveness run leaves out, because a like that is cut off is
not repeated by anything (section 5). Nothing is assumed of clients: no
request has to arrive.

**Mutants.** Every property of a passing run has a mutant of an action, next
to the original and marked as one: a lost guard, a key that is one-way, a
cutoff a tick early, a challenge compared before the await.

## 4. What is proved

All theorems hold for any constants that satisfy the named assumptions of the
module; liveness is not among them.

- `MatchingProofs`. Inductive invariant `IInv`: types; *provenance* (a like
  that passed its consume was granted, one that is on record came from a
  granted like, a handler at the match insert has both likes on record); one
  row per pair; and `MutualLikesMatch`, which is inductive given these. From it
  `TypeCorrect`, `MutualLikes`, `Earned` and `ClosedStays`.
- Refinement (in `MatchingProofs`). Every step of `Matching` is a step of `Courtship`, or
  none, with recorded likes for intent rows in any state, and the stage of a
  pair for the state of its match row. Provenance is what maps `LikeMatch` to
  `Meet`.
- Ledger (in `MatchingProofs`). `LedgerCovers`: a grant that can be liked has a ledger row
  no older than the grant less two spans of a discovery request. The row is
  needed because `INSERT OR IGNORE` keeps an old row's timestamp while
  `INSERT OR REPLACE` renews the grant; the assumption is `SeenRetention >=
  GrantTTL + 2 * MaxSpan - 1`, which seven days and one day meet by far.
- Notices and endings (in `MatchingProofs`). `RowsAndNotices` from `BothNotified`:
  the like that inserts a row is the one that has still to notify, and the insert
  is ignored by whoever comes second. `NothingStaysOpen` and `UnmatchHolds` are
  about requests that run one at a time (`Serial`; with two in flight the sentence
  they are about is refuted, section 5), for any sequence of them: `SerialInv` says
  what each statement of a block or a deletion leaves to those after it (`Closing`,
  `Leaving`), and that what opens something has looked whether it may.
- `MembershipProofs`. `Inv` adds to the types what a request on its own knows
  between its statements (`Lone`, `Current`), that a sync on its own ends in
  agreement (`Settled`), and that a cut-off request errs on the side of hiding
  (`Mended`). Theorems: `ListedAreEntitled`, `IndexIsRight`, `TombstoneStands`.
- Deck (in `MembershipProofs`). `DealtOnceHolds` from `Counted`: the grants of a
  candidate and the requests that hold them (have found them unseen and may still
  deal them) are together at most the requests there can be, since nobody comes to
  hold who is in the ledger. `NothingBurnedHolds` and `NobodyNearerHolds`
  from `Collects`, which says, step by step, what a request during which nothing else
  changed has in hand: the grants in force (`Honest`), and all of the tiers it has
  searched but those farther away than somebody it found (`Nearest`, `Reached`). The
  lemmas are about the sizes of pages and about what a LIMIT leaves out of a tier.
- `RequestsProofs`, with `Lagging = FALSE`. `InTime`: a record that exists
  expires after the last moment at which a copy is fresh; `Counted`: the
  executions so far are at most the copies between execution and record, or
  those that passed the check together with them. Theorem
  `ExecutedOncePerCopy`, by cardinalities of the sets of copies.
- Quota (in `RequestsProofs`). Both limits are about sums over a window that moves,
  so the lemmas split `Count` at a second and change it at one. `LikeCapHolds` from
  `Forward`, which holds until `putBack` is set: no like is counted past the end of
  the window, which does not move back behind what a like has read; the column counts
  every like of the window; and the likes of the window, with those past the check
  that still count in it, are within the bound. `ServedCapHolds`, with `OneDeck`,
  from `Dealt`: the column counts every candidate of the window, and so does the one
  a deck has read, whatever became of the row since. Both need that a request is over
  in time (`Timely`), and `2 * ServiceSpan < Day` says that it does not run for half
  a day.
- `EventStoreProofs`. Every property of the run. `EverInv`: what is cached,
  accepted, refused or past its INSERT was stored at some time (`Refused`).
  `OnceInv`: per insertion one handler is past it (`Once`). `OwnInv` and
  `KeptInv`: what a handler is about to remove is its author's or an older
  version of its event, so what leaves has an heir, or left for a reason; heirs
  are handed on as newer versions come (`Saved`). `RowsInv`: all rows, or a
  handler that will write them (`Rows`). `PlaceInv`: between the SELECT and the
  INSERT nothing is in the place but what will be removed (`Latest`).
- Start-up (in `EventStoreProofs`). `StartupTypeCorrect`, and `SixComplete` from an
  invariant that says what the version tells of the columns and tables
  (`VersionTells`: 6 is only written by a visit that has read one and done what was
  missing), what a visit that runs has already seen done (one `Knows` per
  statement), and that a migrated database stays so (`Lasts`): a CREATE, an ALTER
  or either UPDATE of a visit behind leaves every event right whose tag rows are
  complete, and a save fills its own columns. Events read among their rows are in
  `halved`.
- `QueryProofs`. `IInv == Typed /\ Loops /\ FoundMatches`: a filter is in one
  list of what is to be done, and what has been found matches it (a chunk asks
  for a part of one array and all of the others, so that only ids may be
  chunked: `OnlyIdsAreLarge`, from the assumption `QueryWeights`). `Counted`
  gives the global maximum (`TypeOKHolds`). `Pages`: every page is newer than
  the cursor of the next, so nothing comes twice (`NothingTwiceHolds`), and what
  stayed and was passed over shares its second with another match
  (`PagesCompleteHolds`). `NothingMissedHolds` from `Complete`: a match that was
  stored all along and is not in the answer is still to be read by a chunk or a
  statement, or the answer is full, or the filter's limit went to rows at least as
  new, and `AllRead`: an answered REQ has nothing left to read. Lemmas: what a
  statement with a LIMIT leaves out is older than all it returns (`LeftOut`), a
  narrower filter has fewer rows (`RowsWithin`), and a chunk finds what it asks for
  or has no room for it (`ChunkReads`).
- `DeliveryProofs`. `TypeCorrect`, with `ActiveRuns` (every query in
  `activeQueries` is run by a handler that will finish it) as the part the
  types need. `OwnWritesAreRead`, with `OneAtATime`, from `Order`: entries are
  at least as new as the bookmark they are keyed by (`Keyed`), a waiting
  REQ waits for a query of its own bookmark (`Joined`), a REQ carries a
  bookmark at least as new as what its session wrote (`Current`), sessions mark
  their writes (`Marked`) and have one message in flight (`Alone`). `NothingIsOwed`
  from `Pending`: what a session is owed is in a notice to its region or with a
  handler that is about to announce it. `AnswersAreFresh` from `Ages`: how far back
  a result reaches that was read (`Aged`), that the colo's cache holds (`EdgeAge`)
  and that the object's cache holds (`LocalAge`), each the one before it plus a
  lifetime or a span. The empty result of a query that failed has no age
  (`Failed`).
- `SessionProofs`. *Session*: the invariant `Good`, of one
  connection: the subscriptions are the same in the map's object, in the storage
  and with the client, and no key is known that was not granted (`Kept`); unless the
  connection is in `split`, all that refers to it refers to one object
  (`OneObject`), which agrees with the attachment (`Agrees`), and of all challenges
  the client knows only the first (`OnlyFirst`). Every step does one of a few things
  to a connection (a message goes on, or arrives, or is accepted; it is opened, or
  let go), and one lemma each keeps `Good`. Theorems `RememberedHolds`,
  `AcceptedOnceHolds`, `AlarmIsSetHolds`. *RateLimiter*: `RateBounded` from
  a budget, what was let in plus the tokens at hand is at most what was handed out plus the tokens of the
  time until the last refill; `PatientServed` (not in a run), that an attempt is
  refused only within an interval of the one before it. *GiftWrap*: `WholeOrLost`, for
  every length that the memory of an isolate (`Memory`, 128 MB) holds. The powers of two are listed, for
  the provers know nothing of `2^k`: any two of them are at least a factor of two apart
  (`Doubling`), so one with `n <= p < 2n` is `NextPower(n)`. A padded plaintext is one
  to eight chunks of 32 bytes or five to eight larger ones (`Chunked`); the seal around
  it is four thirds as long and some 430 bytes more, so it ends in a chunk that leaves
  room for the prefix, which is checked one by one for chunks up to 1024 bytes and at
  once for the larger ones (`SealFits`). *Blossom*:
  `UploadersDelete` from `Stored` (whose a blob is, has uploaded it) and
  `ListComplete` from `Complete` (a list that goes on has found or has still to look
  at whatever was its user's all along).
- `ExchangeProofs`. *Exchange*: the wires are sequences, of which the proofs only
  use the set of what is on them (`On`), with lemmas for what sending and taking do
  to it. `ExchangeTypes`, with `Coded` (a reply on its way has a code), then
  `RequestsAreTold` from `Greeted` (a member logged in, subscribed, or will by what
  is on the wire) and `Cared` (every request that waits is on the wire, in a
  handler, on its way back, missed or lost in a known way), and
  `StoredMailWasWelcome` (a letter past the policy is in `fit`). *Blast*:
  `SlotsAreKept`, where a slot that is given back and the attempt that is woken by
  it count as one, so that the holders only swap; `DuplicatesAreOnTheirWay`, where
  every id that is remembered or dropped is accounted for by a message.

Only model-checked is `MutualLikesLeadToMatch`: liveness under fairness, like ENABLED
and induction over data, is beyond TLAPS as used here. `OneAtATime`, `OneDeck`,
`Serial` and `Lagging = FALSE` are hypotheses of the theorems that name them, and
constants of the runs; without them the properties fail (section 5).

Every invariant and action property that a passing run checks is a theorem. The
three properties of section 5 are false, so there is nothing to prove of them.

## 5. Where the code and its documents part

Three runs expect a violation, and `PROJECT.json` quotes the sentence each refutes.

- `MCMatchingBlockRace` (`services/matcher/service.ts:124`): a block runs between
  the reciprocal read of a like and its match insert, and the blocked pair has an
  active match.
- `MCGiftWrap` (`protocols/opendating/crypto/encryption.ts:147`): the padded buffer
  is as long as the padded plaintext, without the two or six bytes of length in
  front (NIP-44 has 2 + calc_padded_len; line 2 of the file names NIP-44), so a
  reply that ends within a prefix of the end of its bucket cannot be written.
  `sendResponse` catches the error: the service has run, the client is told OK and
  never gets the answer. `String.fromCharCode(...bytes)` fails for long ones too.
- `MCDeck` (`services/discovery/service.ts:368`): the LIMIT of a farther tier is
  what is missing from the page, but its rows include those a nearer tier has
  already given, which are dropped afterwards; a page with room left then has no
  cursor while somebody is left to deal.

The following were met while modelling; the models do what the code does, and the
properties above are stated around them.

*Relationships, members and decks*

- A deletion inside a like leaves an active match with a deleted account, as a
  block does (`services/deletion/service.ts:40`; docs say "full cleanup").
- Two decks of one second write the same grant token. One that is written
  after the token was consumed puts it back, so two likes pass the consume
  that `services/matcher/service.ts:84-85` calls atomic (`MatchIsEarned` still
  holds).
- A like after a revoke, or after a block that was removed, spends grant and
  quota, but `INSERT OR IGNORE` leaves the revoked row
  (`services/matcher/service.ts:100`).
- A like of a pair whose match was unmatched is answered with
  `match_created: true` although no match is active
  (`services/matcher/service.ts:144`).
- A like that is cut off after its intent leaves two active likes without a
  match, and its grant is spent (`services/matcher/service.ts:116`): hence
  `cut` in `MutualLikesMatch`.
- The ledger is purged after seven days (`cloudflare/housekeeper.ts:112`)
  although `services/discovery/service.ts:425-428` says it does not expire.
- In the second `daily_reset_at` the check says the window is over and the
  upsert says it is not (`services/matcher/service.ts:77` and `:110`), so the
  likes of that second are let through; `LikeCap` counts by window and holds.
- A deck that read the quota row before its window was over and writes it after a
  like has rolled it over puts the closed window back
  (`services/discovery/service.ts:511-513`), so the next like opens the day, and its
  count, anew (`services/matcher/service.ts:109-111`): more likes are
  counted in one day than the limit. Hence `putBack` in `LikeCap`; the proof of
  `LikeCapHolds` shows that nothing else does it.
- A deck that rolls the window over keeps yesterday's likes, a like that rolls
  it over keeps yesterday's candidates (`services/discovery/service.ts:512`,
  `services/matcher/service.ts:109`): today's first like or deck is refused.
- `update_preferences` keeps `od_seen_candidates`: who was in the deck it deletes
  is not dealt again although nobody saw them (`services/discovery/service.ts:175`);
  and a `get_candidates` that read the old preferences may write its deck after
  that deletion, so cards of the old filters are dealt.
- The pages after the first deal the cards of the first again when those are
  still granted, and charge the quota for them. A card whose member is gone is
  dropped after the page was cut, so a short page ends the deck.
- Preferences, blocks and grants are read from a replica
  (`services/discovery/service.ts:371`): who has blocked the member a moment ago may
  be granted.
- Two decks at once are counted once (`services/discovery/service.ts:511`):
  `ServedCap` fails without `OneDeck`.
- A sync that read before a hide writes after it (`storage/d1/membership.ts:563`):
  hence `past` in `ListedIsEntitled`.
- A sanction's UPDATE names a column `visibility` that does not exist
  (`services/moderation/service.ts:112-113`): it always fails, after the record and
  the sanction were written, so a suspended or banned member stays listed. The
  action is in `Membership`; no property can hold of it.
- `profile.resume` and `profile.pause` look at no status
  (`storage/d1/membership.ts:333-345`), so they lift a deleted member's
  tombstone, which `tests/opendating/e2e/three-user.test.ts:364` says prevents
  resurrection: hence the second disjunct of `TombstoneHolds`.
- `deleteMember` keeps the payload of the profile (`storage/d1/membership.ts:350`).
- Copies of a request in flight together all run (`transport/router.ts:105`),
  and a check answered by a lagging replica lets any later copy run
  (`storage/d1/idempotency.ts:21`): hence `OncePerCopyInFlight` and
  `Lagging = FALSE`; `docs/opendating/PROTOCOL.md:180` says "processed once".

*Requests, answers and letters*

- The DM policy looks at the first `p` tag only (`services/dm-policy.ts:9-46`), and a
  client's copy to itself is stored when the letter is refused.
- The profile screening runs before freshness, sender and idempotency are looked at
  (`protocols/opendating/extension.ts:197`), and its rejection is not recorded.
- The client does not look at the OK of an EVENT (`scripts/od-client.ts:99-142`): a
  request the relay refused is only known by the timer of 30 seconds. A request
  sent while the client's AUTH is being verified is refused.
- `ensureODInit` does not retry when the membership keys were missing: no service
  answers until the isolate is replaced.
- The rate limiter forgets the part of an interval at every attempt, refused or not
  (`types.ts:119-141`), so a client that asks too often is served less than its
  rate; `docs/SECURITY.md:91` and `config.ts:157` name the rates.

*The event store and its start*

- `db_initialized` is set before the migrations and before the cache of tags is
  filled (`relay-worker.ts:209`), and whoever finds it set returns
  (`relay-worker.ts:107-114`): an initialization that is cut off in between, or a
  database that an older release has flagged, is never migrated, and saves fail for
  the columns that are missing. `PRD.md:2918` says that requests
  must not migrate.
- A read that fails counts as "not initialized" (`relay-worker.ts:108-110`): the
  tables are then made again, and `schema_version`, which `migrations/` share, goes
  back from 12 to 6. So `SixIsComplete` speaks of 6 alone.
- The UPDATEs of the migrations set columns to NULL for events whose tag rows are
  still being written (`relay-worker.ts:232-288`); their columns stay empty (`tag_d`
  is what the next version is looked up by): hence `halved`.
- Two saves at one place at once leave two versions, and a later save removes
  only one of them (`relay-worker.ts:672`, `LIMIT 1`): hence `raced` in
  `LatestOnly`. `docs/RETENTION.md:9` says "Only latest version kept".
- An addressable event without a d tag is looked up as `tag_d = ''` and stored
  as `NULL` (`relay-worker.ts:696-698`, `:738`), so its older versions are never
  found and stay: hence `Undefined`.
- A failure between the deletion of the older version and the insert of the
  newer loses both (`relay-worker.ts:682-771`): hence `gone` in `SavedIsKept`.
- A save that fails after its INSERT leaves an event without its rows, which
  filters by tag do not find, and the retry that would mend it is answered
  "duplicate" (`relay-worker.ts:663`, `:837`): hence `torn` in `RowsAgree`.
- A deletion request leaves nothing that says what it deleted: an event it
  names that arrives, or arrives again, later is stored
  (`relay-worker.ts:859-943`; for vanish requests
  `docs/opendating/CLIENT-INTEGRATION.md:333` says the opposite).

*Delivery and queries*

- A REQ that overlaps an EVENT of its session sets the bookmark back
  (`durable-object.ts:1081`): `ReadYourWrites` fails without `OneAtATime`.
- A broadcast clears the local cache only; the colo's cache is asked first
  (`durable-object.ts:307`): `BoundedStaleness` is what remains.
- A reply of a service clears no cache of its own object, and its session's
  bookmark does not move: a client that reconnects may be answered from a cache
  without a reply that was announced before (`protocols/opendating/extension.ts:165`
  says "a client that reconnects can still fetch the reply"). `NoGap` is about
  what is saved after a subscription was stored, `BoundedStaleness` says how long
  an older reply can be missing.
- A filter over `MAX_QUERY_COMPLEXITY` is skipped and the REQ answered with EOSE
  (`relay-worker.ts:1608`): more than 1000 ids, or 500 without a time bound,
  although 5000 pass the validation (`durable-object.ts:1054`). So chunks are
  reached by 501 to 1000 ids with `since` or `until` only, while
  `docs/BASELINE.md:456` says they handle large filter arrays. Hence `Simple` in
  `NothingMissed`.
- The answer of a chunked filter is not its newest rows, so a client that pages
  over it loses events (`relay-worker.ts:1543`): hence `Large` in `PagesComplete`.
- The cursor goes by id within a second, the order of the rows does not
  (`relay-worker.ts:1435`, `:1443`): a page that ends among events of one second
  skips some of them. Hence the tie in `PagesComplete`.
- A COUNT, a chunk or a batch that fails is answered as empty, with EOSE, and
  the empty answer is cached; the CLOSED of `durable-object.ts:1094` is not
  reached. Hence `gaps`.
- The COUNT leaves ids and the cursor out (`relay-worker.ts:959-1148`), so a page
  of a large result is skipped for what the first page would have cost.
- The `OR` between tags is not in parentheses (`relay-worker.ts:1319`): that
  other conditions bind to its last part only is made good by `HAVING`. A single
  tag outside the cache table is joined without `DISTINCT`: an event with two
  of the values uses two rows of the limit.
- `since: 0` and `until: 0` count as not given (`relay-worker.ts:1422-1430`).

*Sessions*

- The challenge that replaces a used one is not sent (`durable-object.ts:1199`;
  `sendAuth` is called for new and for restored unauthenticated sessions only).
  A connection can authenticate one pubkey, although `docs/SECURITY.md:18` says
  "clients can authenticate multiple pubkeys": that is `AcceptedOnce`. If the
  challenge were sent, `Array.from(authenticatedPubkeys)[0]`
  (`durable-object.ts:907`) would no longer name the sender of every message.
- `alarm()` clears the sessions when there were no sockets before it awaited the
  housekeeper (`durable-object.ts:133`, `:156`). A connection made meanwhile with
  an AUTH in flight is then split between two objects: the key may be granted to
  the one that the next message does not see, a challenge may pass on both, and
  the later attachment wins. Hence `split`; `docs/SECURITY.md:17` says "auth state
  persists in WebSocket attachment".
- `webSocketError` and a crash leave the `subs:` key of the session in storage
  (`durable-object.ts:711`). Only `cleanup` removes it, and only when an alarm
  finds no sockets; but the last close deletes the alarm (`durable-object.ts:705`),
  so the sweep happens only after an error or a crash of the last connection.
- A restored session has full token buckets (`durable-object.ts:641`), so
  hibernation and `cleanup` reset the rate limits: hence `allowance` in `RateBound`.

*Media and the blast relay*

- The owner of a blob is looked up before it is deleted
  (`protocols/blossom/server.ts:276`): by then it may be gone, and uploaded by another.
  `OnlyUploadersDelete` is what remains. Who uploads bytes that are stored already
  is answered 201 and is not their owner.
- A list has the blobs among the first 1000 objects of the bucket, whoever's they
  are: hence the limit in `OwnListed`.
- An authorization that expires in more than ten minutes is refused until its last
  ten, in which it is valid.
- The blast relay answers OK before it looks whether the author, the kind or the
  content is blocked. A connection that opens after its three seconds is sent the
  event, not counted, and never closed. A client that is gone when its event is
  accepted leaves the id in the cache: the event is passed on by nobody and called a
  duplicate for 60 seconds (`stranded`). Two copies verified at once are both passed
  on.

## 6. Not modelled

- Data the properties do not tell apart: distances, ages, cards, profiles, the
  encryption of columns and the reads that only decrypt them
  (`storage/d1/membership.ts`), ciphers and signatures, what makes an envelope valid.
- `DELETE ... LIMIT` of the housekeeper is one row per action; its interval and
  its alarm only decide when.
- LRU eviction and the cleaning of the local cache, and hibernation as far as
  it empties memory, are `Evict`: any entry, at any time.
- In `Query`: tags without a value, arrays `"#x": []`, repeated values, the
  factor for limits over 1000 (they are capped before), index hints.
- In `Session`: the payment status (switched off), storage operations that fail (the
  runtime resets the object, which is `Crash`).
- In `Startup`: removed events, indexes, ANALYZE, tables that nothing here uses.
- In `Exchange`: the commands of the client that call `LiveClient` one after another.
- Replica lag in the reads of `Quota` and `Membership`: `Quota` reads the row
  in the session that writes it; an older row in `getMember` is what an earlier
  read would have seen.
- Ephemeral events, the duplicate-content check, NIP-05 (`config.ts:128`) and payments,
  which are switched off; HTTP, NIP-11, the landing page and the choice of a region by
  country (`relay-worker.ts:2268-2432`), which are stateless; the queue, which has no
  producer, and the modules of `relay/**`, which nothing imports.
- A broadcast that fails or times out is not sent again (`durable-object.ts:1299`), and
  the subscriber misses the live event: `NoGap` excuses it, for there is no recovery
  to check.

**Coverage.** Of 26510 lines of code, 10338 are `worker.js`, the esbuild bundle of
`src/index.ts` that `npm run build` writes and wrangler names as `main`: it repeats
the sources the models are of, and a library. About 2000 of `send-it.js` are a bundled
cryptography library; `packages/protocol` and `migrations/run-all.sql` repeat other
files. The map covers 5475 lines, about 45% of the rest; what is left of that is
listed above: rendering, tables of data, cryptography, encrypted reads, declarations
of types, and modules that do not run.

## 7. Plan

Done: the core (`Matching`, `Quota`, `Membership`, `Requests`), the relay
(`EventStore`, `Delivery`, `Query`, `Session`), then `Deck`, `RateLimiter`,
`GiftWrap`, `Blossom`, `Exchange`, `Blast` and `Startup`. What is left:

1. Abstract specification of `EventStore`: a register per place that only moves
   to newer versions, implemented as long as the place is not raced.
2. Proofs: the refinement of 1, step by step.
