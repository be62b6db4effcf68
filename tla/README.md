# nodefall: models, checks and proofs

nodefall is a small battle royale in the browser. Players queue for a match,
a matchmaker places groups of them on one of several game instances, and each
match runs there on an authoritative engine that ticks twenty times a second.
This directory holds TLA+ models of the parts of it that have state, TLC
configurations that check them on small instances, and TLAPS proofs of the
safety properties for every value of the constants.

## The system

| Component | Source | State | Operations |
|---|---|---|---|
| match engine | `services/game/engine/engine.go` | players, clients, bullets, items, zone, respawn timers, phase, countdown, winner, under one mutex | `Join`, `Leave`, `HandleInput`, the stages of `Tick` |
| world rules | `services/game/world` | the fields of players, bullets, items, zone | damage, respawn, movement, pickups, shrinking |
| game sockets | `services/game/server/server.go`, `client.go` | per connection: two pumps, a context, a send buffer of 16 | `ServeWS`, `readPump`, `writePump`, `Send` |
| match manager | `services/game/matchmanager`, `server/grpc.go` | match ID to engine | `StartMatch`/`CreateMatch`, `Get` |
| matchmaker | `services/matchmaker` | `waiting`, `matched`, under one mutex, and the pass under way | `Join`, `Leave`, `Status`, `tryFormMatch` |
| service registry | `shared/registry` | an expiring Redis key per instance | `Register`, `Heartbeat`, `ListLive` |
| friends | `services/auth/db/friends.go`, `friends_handlers.go` | the `friendships` table | request, accept, remove, list |
| accounts, tokens | `services/auth`, `shared/jwt` | the `users` table | register, log in, verify |
| rate limiter | `shared/middleware/ratelimit.go` | a token bucket per client address | `Wrap` |
| pages | `frontend/src/pages/QueuePage.jsx`, `PlayPage.jsx` | the page a tab shows, its requests under way, its timer, its token | join, poll, leave, play, come back |

How they interact: the browser posts to the matchmaker (HTTP) and polls it.
The matchmaker's single loop takes players off the queue, lists live instances
from Redis, and calls `StartMatch` (gRPC, two seconds each) on one after the
other until one accepts. The polling browser learns match and address and opens
a WebSocket. `ServeWS` joins it to the engine; `readPump` feeds inputs in, the
engine's ticks broadcast into each client's buffer, and `writePump` drains it.
Instances renew their registry entry every two seconds with a TTL of five.

What is hard here: the goroutines of old and new connections of one player
interleave with each other and with ticks, and leaving is by player ID, not by
connection; the matchmaker's queue is unlocked for seconds in the middle of a
pass; calls time out after they were carried out; instances crash and come back
empty; entries expire between two reads; checks and changes in the friends
service are separate SQL statements; a reset has to undo everything a match
did; a page sends its requests without waiting for those of the page before it, its
timers outlive it, and its token expires under it. What makes each part correct is stated as properties below; the full list
of hazards, each at its line, is in `PROJECT.json`.

## Modules

**`Engine`** models `engine.go` and the rules of `world`. Each action is one
critical section of `Engine.mu`: `Join`, `RefuseJoin`, `Leave`, `HandleInput`,
and the ticks `TickWaiting`, `TickLive`, `TickLiveEmpty`, `TickEnded`, in the
order of stages `tickLive` has (move bullets, hits, pickups, shrink and zone
damage, respawns, decision). `open` holds the connections between their `Join`
and their deferred `Leave`. Instants are kept as elapsed or remaining time, no
further than the delay they are compared with; `AdvanceTime` ages all of them,
in every phase. Positions are rings around the centre, the distance the zone is
compared with; which bullets hit and which items are touched is
nondeterministic where only geometry decides, but the code's own conditions
(alive, not the owner, gone after a hit, one taker per item) are kept. All hits
in a tick are applied by one `ApplyDamage` of their sum, which the theorems
`DamageAdds` and `PickupsAdd` justify.

**`MatchLifecycle`** is the contract of a match, without bullets or timers:
players enter and exit, a countdown ends, rounds fell and raise players, one
left standing is the winner, and the match starts over. `Engine` implements it
(`ImplementsLifecycle`) with `members <- DOMAIN players` and
`standing <- Alive(players)`.

**`Attendance`** is what sockets and engine agree on: which connections have joined
a match, and which one per player the engine broadcasts to. Both sides implement
it. `GameServer` shows that whatever its goroutines do, every engine sees a
connection join and then leave once (`ImplementsAttendance`, with `joined` the
connections of the match that are served or closing); `Engine` keeps its side with
`joined <- open` (`Attends`). The connections that `Engine` lets join and leave in
any order are therefore those an instance really has, and what is shown of
`Engine` holds of each engine of a `GameServer`. Inputs, the third kind of call,
come only between the two: `InputsPrecedeLeave`.

**`GameServer`** models an instance from its sockets, goroutine by goroutine:
the stages of `ServeWS`, both pumps and the context they share, the send
buffer, and a peer that may stall or vanish. Of the engine it keeps the client
table only. One action of a pump is the code between two waits. `StartMatch`
creates a match once; that the code would replace its engine if it were asked
again is left out here, and whether it is asked again is `CreatedOnce` of
`Matchmaker`.

**`MatchQueue`** has the critical sections of `Queue`, each an action on `waiting`,
`matched` and the players a pass holds (`taken`), and the contract they add up to,
`QueueContract`: one pass at a time, its players taken from the front, and its match,
always the newest and never concluded before, recorded for exactly its players with
an instance that has created it. A match ID is the number of its UUID in the order
of generation. `Host` is `StartMatch` of an instance.

**`Matchmaker`** puts these sections into the control flow of `handlers.go` and
`tryFormMatch`, cut where it releases the mutex and waits: `TakePlayers`,
`ListNone`/`ListLive`, `Call`, `CallFails`/`Accepted`, `AllRejected`. Around it
instances crash and restart, a listing has any instances in any order, one of them
twice if SCAN repeats its key (`Registry` says which can be there), and requests are delayed, lost, or carried out after the caller gave
up. `wants` is a history variable: whose last request was to queue. It implements the
contract (`ImplementsContract`).

**`Lobby`** puts `QueuePage` and `PlayPage` of every player on top of the contract:
it is built from the same sections of `MatchQueue`, guarded as in the contract, so
whatever a matchmaker does that implements the contract is among its behaviours.
`page` is what a tab shows: `joining` (POST not answered), `polling`, `stuck` (POST
failed), `connecting`, `playing`, `lost`, or `home` for every other page. `game` is
the match in the last `/play` address, `returning` the timers of `ws.onclose` that
have not fired, `posts` and `deletes` the requests of pages that were left, which
fail or arrive in any order, `session` what the token is worth (`WithAuth`,
`Verify`: 24 hours from `handleLogin`), `running` the matches whose instance is up.
`Show` is the cleanup of the page that is left; the timer is not part of it.
`raced` is a history variable: visits whose POST was handled while a DELETE of an
earlier visit was on its way.

**`Registry`** models `Register`, `Heartbeat` and `ListLive` against expiring
keys. `AdvanceTime` is one unit of time. A call of `Register` has three moments
with time between them: it is made (`Start`, before there is a ticker, or
`Heartbeat`, at a tick), Redis carries out a SET of it (`Set`, from which the
TTL runs), and its answer arrives (`Register`) or never does (`RegisterFails`).
The ticker is created when the first call is over and holds one tick for a
loop that is busy, so calls may outlast the interval. What a call that failed,
or whose process ended, has sent may still be carried out (`late`, `SetLate`).
`missed` and `downFor` are history variables.

**`Friends`** models every operation statement by statement, with any number of
requests at once; `began` and `since` record which requests overlapped.

`MCEngine`, `MCGameServer`, `MCMatchmaker`, `MCLobby`, `MCRegistry` and `MCFriends`
extend these for TLC with the symmetry sets the configurations use. A symmetry is
used only in runs without liveness. The modules named `...Proofs` hold the proofs:
`EngineStepProofs` those about single steps of the engine that build on
`EngineProofs`, and `MatchQueueProofs` the lemmas that `MatchmakerProofs` and
`LobbyProofs` share and what follows from the contract of the queue alone.
Definitions named as mutants are variations of the one that follows them; they
are no part of the specification.

## Runs

| Run | Instance | Question |
|---|---|---|
| `Engine_match` | 3 roster players and 1 stranger, 2 connections each, 1 bullet, 1 item, health 1, armour 1; 383,440 states up to symmetry | do health, timers, clients, phase and winner agree, whatever the order of joins, leaves, inputs and ticks? |
| `Engine_live` | the same players, 1 connection, 2 bullets, no items; 29,498 states | does the engine implement `MatchLifecycle`, and do matches start, end and reopen, and the dead come back? |
| `GameServer_conns` | 2 connections of a player, 2 matches, buffer of 2; 61,704 states | are only served connections sent to, do joins and leaves come as `Attendance` says and inputs between them, and is a lost or stalled peer let go? |
| `Matchmaker_queue` | 3 players, 2 instances, pairs, 1 match ID, listings of up to 2, queue of 3; 583,420 states | is anybody forgotten or overtaken when passes fail, does a pass keep to the contract of the queue, is a match created over a running one, and does no pass hang? |
| `Lobby_pages` | 2 players, 1 of them steady, 1 instance, 1 match ID, 1 abandoned request of a kind and 1 timer; 602,069 states | does the matchmaker know who searches, and does no page of a matched or disconnected player hang? |
| `Registry_heartbeat` | 1 instance, TTL 15, interval 6, calls up to 1, SETs up to 1 late; 44,680 states | is a running instance listed, a crashed one not, and does one come back? |
| `Friends_calls` | 3 users, 3 requests at once, 2 rows; 954,442 states | what can overlapping requests do to a friendship? |
| `Engine_count`, `Engine_revive`, `Matchmaker_rejoin`, `Lobby_lost`, `Friends_pair` | | the five disagreements below |

What the bounds leave in. Three players are enough for a player to be killed,
come back and decide a match between two others; two connections of a player
for the overlap of an old one and a new one; a fourth identity off the roster
fires `RefuseJoin`. Health 1 makes one hit lethal; the sums of several hits are
the theorem `DamageAdds`, and `TypeOK` and `AliveMeansHealth` are proved for all
amounts. Radius 1 over rings 0 and 1 lets the zone shrink once and hit players;
a zone that leaves the corners out from the start is within the assumptions of
the proofs. `RespawnDelay` 2 tells "due" from "due soon". In `Engine_live` a match
can be shot, zoned or left to its end; fire rate, armour and items, which do not
bear on progress, are switched off. Two instances give the matchmaker one to
fail on and one to go on to; three players with pairs to be matched leave one
behind to be overtaken. `MaxWaiting` and `MaxMatches` bound the queue a player
joins and the passes that get as far as a listing; a pass that finds none is not
bounded. `MaxListed` bounds a listing, in which an instance may stand twice. In
`Lobby_pages` both players are needed for a match, so one who
searches, leaves, reloads or is logged out decides what the other finds.
`MaxInFlight` bounds, for each player, the POSTs and the DELETEs of earlier visits
still on their way and the timers of a tab; one of each is enough for a request to
be overtaken by the next visit and for a timer to fire on another page. That the
pages of a match are all at one instance (`PlayPagesAgree`) takes two instances and
two matches to go wrong, with which the pages have more than ten million states even
without liveness; it is in no run, and the theorem `OneDoor` has it for any number of
both. `Registry_heartbeat` has the times of `services/game/main.go` in thirds of a
second, with two failed heartbeats counted; instances share nothing, so one is
enough. Nothing in the code bounds a call of `Register`, whose context has no
deadline, but the timeouts of the Redis client; `MaxCall`, a third of a second, and
`MaxLate`, as much, are those of a network that works. The premise of
`RunningStaysListed` is then met with one failure, and nothing is to spare: with
a TTL of 14, which the premise with `<=` would admit, a running instance is missing
from the registry, and one that is down may be found up to a unit before `LongGone`. The proofs
are for any times, calls that outlast the interval included. Three requests at a time
is one more than any of the races of two users needs, and a third user is there who
has nothing to do with a row. Deadlock is checked in every run.

Every property of a passing run has a mutant in `PROJECT.json`: a plausible bug in
a mapped definition with which TLC finds that property violated.

## Fairness

- `Engine`: the ticker of `Run` keeps firing and the clock runs. No fairness for
  players, who may come, go or stay silent. `WF(Tick)` is about ticks that
  change something; a live match ticks always.
- `GameServer`: each goroutine of a connection runs when it can, and matches
  tick. `Read` has none, since a peer need not send, and no step of a peer has.
  `WriteFails` of a stalled peer is the five second limit of a write; `ReadFails`
  of a gone one is the failing read.
- `Matchmaker`: `WF(TryFormMatch)` is the loop of `Queue.Run`, which calls
  `tryFormMatch` at every tick; each of its waits ends, the listing because it
  may fail, a call by `startMatchTimeout`. Instances need do nothing.
- `Lobby`, for the players in `Steady` only: a request on the page or a WebSocket
  handshake succeeds or fails in the end, polls go on, a WebSocket to an instance
  that is gone is noticed, abandoned requests end, and timers fire. A browser gives
  up on each of these by itself. No player has to do anything, a token may expire
  at any time, and no pass has to succeed.
- `Registry`: the heartbeat of a running instance goes on, a SET that is sent again
  and again is carried out while Redis answers, and the clock runs. The clock has
  strong fairness, since a process that crashes and restarts for ever, with a
  tick to take each time, must not stop it.
- `Friends` has no liveness: each request is a few statements that end or fail.

## Proofs

All theorems hold for every value of the constants that satisfies the named
assumptions of the module (finite players and slots, positive health, a floor of
the zone below its initial radius, times that are natural numbers).

`EngineProofs`. The eight state predicates of `Engine_match` are proved together:
`IInv` is their conjunction. A live tick needs `TypeOK` with `AliveMeansHealth`
(health and armour stay in range and in step stage by stage),
`RespawnsNameMembers` with `DeadAreScheduled` (the schedule of a tick extends the
one before), and `WinnerStands` (no winner is set while a match is live).
A live tick is proved stage by stage: `Squad` says that
a set of players is well-formed and consistent, and one lemma per stage that it
keeps it. `DecidedByLastStanding` and `NoEarlyRespawn` are action properties
proved from `IInv`; the latter says of every step that health goes up only for a
player whose timer is over, in a reset, or by joining again. `Implementation` shows step by step that the engine implements
the safety part of `MatchLifecycle`, with a stutter for inputs, waiting and time.

`EngineStepProofs`. Two theorems under a condition, for the two findings about the
engine, and two about time; see below. `CountIsConnectedIfFinal` carries `Present`
(the players are those with an open connection), which only a `Leave` of a connection
that is not the player's last one breaks. `OnlyTheDeadRespawn` carries that
respawn timers belong to the dead, which only a `Join` of a dead player breaks.
`ZoneShrinks` says that nobody is given room back within a match.

`GameServerProofs`. `IInv` is the three predicates of the run together.
`ClientsAreConnections` survives `Leave` only because it deletes by player: a
client that a newer connection put there goes too, so none is left over. `Contract`
needs `Asked` besides (who is served has asked for a match that exists) and is
proved match by match: `Join` and `Leave` are those of the match the connection
asked for and leave the others alone, and every other step changes no attendance.
`PumpsDoNotDeadlock` and `TeardownsShrink` need `PumpsTogether`: a pump that ends has
cancelled the context of both.

`MatchQueueProofs`. Lemmas about sequences say what appending, joining, cutting and
removing do to the set of players in line; from them follows, section by section,
that nobody the matchmaker knows (waiting, taken or matched) is forgotten but by
their own `Leave`. The theorems of this module are about `QueueContract` and so about
everything that keeps it: matched players are listed by a match that an instance has
created (`ContractHostsMatches`), and players of one match are sent to one instance
(`ContractLetsPlayersMeet`). Under `NoRejoin`, the condition that no POST adds a player
whom a pass holds, everybody stands in one place (`OnePlaceWithoutRejoin`) and a
match is for good (`ForGoodWithoutRejoin`).

`MatchmakerProofs`. `Kept` (who wants a match is known) is the inductive form of
`NoPlayerLost`. `KeepingPlace` looks at the line `taken \o waiting`: taking and
requeueing leave it as it is, a join adds behind, and a leave or a success takes out
only players the property does not speak of. `Contract` needs `Fresh` (no match
newer than the rosters has been asked for, and the match of a pass under way is
recorded nowhere yet) to see that a request, however late, hosts a match that was
announced, and that a pass never concludes a match twice. By `Contract` the theorems
about the contract hold of the matchmaker (`PlayersOfAMatchMeet`). `CreatesOnce` needs
`Untried`: the instances still to be called have not been sent a request for the
match of the pass. Its premise, that no instance is listed twice, is used only
where a pass goes on to the next one.

`LobbyProofs`. `SearchersAreKnown` needs `Clear` (a page that polls has no DELETE
behind it). `PlayPagesAgree` speaks of addresses, which outlive the entries of
`matched` they came from, so it is proved together with the same statement about
the entries (`Entries`, `OneInstance`) and with `Newest`: an address of the newest
match has an entry beside it, which keeps the contract from concluding that match
once more on another instance. `KeepsContract` shows that the pages only ever ask the
matchmaker to join or leave, so the theorems about `QueueContract` hold under them,
too: with `ForGoodWithoutRejoin`, every address and every poll of a player is one
match (`OneMatchEach`). `PlayPagesAgree` is proved only (`OneDoor`).

`RegistryProofs`. `RunningStaysListed` counts failures and says nothing of time, so
`Lasting` supplies it: `Silence` is how long ago the SET of the last success can have
been carried out, given failures, ticker and call, and an entry is at most that old.
A success adds the duration of its call, since the TTL runs from the SET and the
interval, the first time, from the answer; a failure adds `Period`, the interval or
the call, whichever is longer. `InStep` relates the length of a call to the ticker,
without which `Silence` would not be kept when a tick fires during a call, and the
entry to the call whose SET it is. `RunsOut` bounds the entry of a stopped instance:
its rest and the downtime are no more than the TTL and `MaxLate`, because a SET
still on its way is older than the downtime. `CrashedAreGone` follows from it. Every
lemma about a step of one instance leaves the others to `OnlyOne`. `HeartbeatGoesOn`
says of `ToAnswer`, the time until the next answer, that it shrinks with the clock and
never grows while the instance runs and reaches Redis.

`FriendsProofs`. `DuplicatesOverlapped` needs `Looked` (a call about to insert saw
the table before any row of its pair that is there now), `ChangedByParticipants`
needs `Entitled` (what a call found out about a row and its user stays true), and
`ListedOnce` needs `Seen` (an accepted row is never pending again).
`NothingComesBack` says that an accept or a removal decided on a row that has changed
meanwhile neither brings a removed row back nor undoes an acceptance.

### What the findings come down to

The counterexamples of five runs show that a property fails; these theorems show
what it takes. Each says that the property holds in every behaviour that avoids one
interleaving, so that nothing else in the code stands against it.

| Run | Theorem | Holds as long as |
|---|---|---|
| `Engine_count` | `CountIsConnectedIfFinal` | no connection leaves before another one of its player (`LeavesAreFinal`) |
| `Engine_revive` | `OnlyTheDeadRespawn` | nobody joins while a respawn timer of theirs runs (`JoinsAreFresh`) |
| `Matchmaker_rejoin` | `NoDuplicateWithoutRejoin` | no POST adds a player whom a pass holds (`NoRejoin`) |
| `Friends_pair` | `TurnsAreEnough` | no two requests of a pair are between their two statements at once (`RequestsTakeTurns`) |

`Lobby_lost` is of another kind. `EveryReturnIsTheSame` shows that its
counterexample takes no race: under `NoRejoin`, *every* return to the queue leads to
the match that was left. `InOrderAllAreKnown` does for `SearchersAreKnown` what the
table does for the runs: its exception (`raced`) is empty if no DELETE outlives the
next POST of its player (`RequestsInOrder`).

The conditions are hypotheses about a behaviour; the code enforces none of them.
Each of them is met by ordinary behaviours (somebody with one tab and one
connection, who waits for each answer).

### Liveness

Liveness is only model-checked, since the prover does not reason about fairness and
ENABLED: `MatchStarts`, `MatchIsDecided`, `MatchReopens`, `DeadComeBack`,
`GoneIsLeft`, `StalledIsLeft`, `PassEnds`, `QueueIsTried`, `PagesMoveOn`,
`ReturnsToListing`. What is proved, for all constants, is the safety half of the
argument for most of them: that whatever else happens, nothing puts the goal off.

| Checked | Proved | Which says |
|---|---|---|
| `MatchStarts`, `MatchReopens`, `DeadComeBack` | `DelaysAreKept` | countdown, result and respawn timer never start over while somebody waits for them |
| `GoneIsLeft` | `PumpsDoNotDeadlock`, `TeardownsShrink` | somebody can always go on, and every step leaves less to do |
| `PassEnds` | `PassesShrink` | so does every step of a pass, and nobody else adds to it |
| `PagesMoveOn` (lost pages) | `LostHaveTimers` | a page without its connection has a timer |
| `ReturnsToListing` | `HeartbeatGoesOn` | the next answer of a running instance that reaches Redis comes closer with time, and nothing puts it off |

`MatchIsDecided`, `StalledIsLeft`, `QueueIsTried` and `PagesMoveOn` for the other pages
have no such theorem.

## Where code and comments disagree

Five runs end in a counterexample.

1. `Engine_count`. `Leave` deletes by player ID. When the older of two connections
   of a player ends, the player of the newer one is out of the match
   (`engine.go:131`, against `engine.go:136`).
2. `Engine_revive`. A dead player who connects again is alive at once but keeps the
   respawn timer, which later restores health and moves the player in mid-fight
   (`engine.go:358`, against `engine.go:351`).
3. `Matchmaker_rejoin`. A player who joins again during a pass stands in the queue
   twice after it fails, and can be matched against themselves
   (`queue.go:167`, against `queue_test.go:82`).
4. `Lobby_lost`. No entry of `matched` is ever removed and `Join` does nothing for a
   player who has one. When the instance of a match is gone, the page goes "back to
   matchmaking", which sends it to the same match again, every two seconds and for
   ever (`queue.go:53`, against `PlayPage.jsx:303-306`).
5. `Friends_pair`. Two requests of the same pair at once are both inserted
   (`friends.go:112`, against `friends.go:90`).

Smaller ones, which the models contain but no run states:

- The countdown of a waiting match survives the player who started it; the next
  first player inherits what is left (`engine.go:116`, against 104).
- The circle of the initial zone leaves the corners of the square map out
  (`zone.go:51`, against `zone.go:8`).
- A superseded connection is never broadcast to again; if its peer vanishes
  without closing, nothing is written and the read has no deadline, so it stays
  (`server.go:105`, against `engine.go:363`). `StalledIsLeft` therefore speaks of
  served connections only.
- A call that times out after it was carried out is followed by one to the next
  instance, so two may host the match; players are only ever sent to one of them
  (`OneDoor`), and the other ticks on without them (`queue.go:142`).
- An instance that has crashed may be selected while its entry lasts, and for as long
  as the pass takes that listed it; the call then fails by its timeout
  (`queue.go:127`, against 31-33).
- `CreateMatch` replaces a match that exists (`manager.go:37`). A SCAN of Redis may
  return a key twice, and then a pass whose call of an instance timed out calls that
  instance again: a request that is still on its way may put an empty engine in the
  place of one that players have joined. `CreatedOnce` shows that this is the only
  way to two requests at one instance, whatever times out or comes late.
- A DELETE of an earlier visit that is handled after the POST of the next one
  takes the player out of the queue while the page says SEARCHING FOR MATCH..., and
  it does not join again (`QueuePage.jsx:57`). `SearchersAreKnown` makes an exception
  for exactly these visits.
- A closed tab sends no DELETE, and one with an expired token sends one that is
  refused, so its player is matched with nobody there (`QueuePage.jsx:57`).
- The timer of a lost connection is not cleared and takes its player out of
  whatever page is open two seconds later (`PlayPage.jsx:69`).
- Behind nginx all clients have one address, so they share one bucket of the rate
  limiter (`ratelimit.go:55`, against 11-12).
- `DELETE /queue` during a pass finds nothing to remove, and the player is matched
  or queued again (`queue.go:69`, against `handlers.go:53`); `GET /queue` tells the
  players of a pass that they are not queued (`queue.go:89`, against
  `handlers.go:32`). `NoPlayerLost` makes an exception for exactly these.
- `ListLive` takes every error of a GET for an expired entry (`registry.go:75`,
  against 66).
- `AcceptFriend` reports success when the row has just been removed
  (`friends.go:136`, against 119), and a request accepted between the two queries
  of a listing is in neither (`friends_handlers.go:65`, against 50).

## Not modelled

- A crash or restart of the matchmaker. Its queue and `matched` are in memory
  (`queue.go:34-39`), so a restart forgets both while the queue pages, which join once,
  poll on. `NoPlayerLost` and `SearchersAreKnown` hold as long as the process runs.
- Registration: one INSERT under a UNIQUE constraint, and accounts never change
  afterwards; password hashing, signatures and CORS. Of `handleLogin` and `Verify`
  only the life of a token is modelled, in `Lobby`.
- The rate limiter: a map around `golang.org/x/time/rate`, whose arithmetic decides
  who is refused.
- `Manager.Remove`, which nobody calls; two passes that generate the same UUID; gun
  pickups, which set a field nothing reads.
- Coordinates. Movement is any ring at once, since inputs are not limited.
- Of the pages: drawing, interpolation and input; two tabs of one player; a poll
  answered with what was true earlier; logging out while a page is open, which is
  `GoHome`; the second mount of an effect that StrictMode adds in development,
  which is `Visit`, `GoHome`, `Visit`.
- Friends, home, login and register pages, configuration, event types, generated
  code, layout, deployment.

## Plan

The order followed the weight of what can go wrong; all of it is done.

1. `Engine` with `MatchLifecycle`, proofs of every safety property and of the
   implementation.
2. `GameServer`: connections under the engine, and `Attendance` between the two.
3. `MatchQueue` and `Matchmaker`: the queue among failing instances, its contract,
   and the places in it.
4. `Registry`: who is listed when.
5. `Friends`: overlapping requests.
6. `Lobby`: the pages on the contract of the matchmaker.

The proofs followed the models: first every safety property of the runs, then what
the contracts imply, the conditions behind the findings, and the variants behind
liveness.

What could follow: `Lobby` on `Registry` and `GameServer` too, so that "the instance
is gone" is their crash and not an action of its own; and a matchmaker that clears
`matched`, for which `ReturnFindsAnother` is the property to reach.
