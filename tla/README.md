# Formal models of the music bot

A Telegram bot plays music in the video chats of groups: a user sends `/play`,
the bot finds the track, downloads it, and one of several *assistant* accounts
joins the group's call and streams it.  This directory holds TLA+ models of the
parts of the program whose correctness depends on the order of events, the TLC
configurations that check them, and proofs that TLAPS checks.

Paths below are relative to `src/`.  Line numbers are those of the commit the
models were written from; `PROJECT.json` maps every definition to its lines.

## 1. Inventory

The program is one Go process.  Every update of Telegram runs its handler in a
goroutine of its own, every call-back of the streaming library (ntgcalls) starts
another, and nothing orders two goroutines of one chat.  What they share is
memory behind mutexes, MongoDB, and the state Telegram and ntgcalls keep.

| Component | State | Operations | What is hard | What makes it correct |
|---|---|---|---|---|
| **Chat queue** `internal/cache/player_cache.go` | per chat: the queue (a Go slice of pointers), the autoplay flag and history; the loop count of a song | add one, many, next; move next; remove current or any; clear; loop; autoplay | in-place shifts of one backing array; history filled from three places | no track lost, doubled or overtaken; the current one stable; the slice code does what a queue does |
| **Playback and commands** `internal/bot/{play,skip,stop,loop,remove,callbacks,autoplay,watcher}.go`, `internal/calls/{playback,autoplay,get_calls}.go` | the queue, the stream, what every handler has read | `/play`, `/fplay`, playlists, skip, stop, play-now, loop, remove, autoplay; end of stream; video chat messages | every network call is a gap in which others run; `PlayNext` and `playTrack` recurse; failures in the middle; retries after the queue was cleared | the head of the queue is what plays; nothing plays without a queue; handlers return; the queue drains; limits hold |
| **Assistant assignment and rotation** `internal/calls/{playback,assistant}.go`, `internal/db/assistant.go` | a document per chat, a cache with a lifetime before it, the accounts in the call, what a call has tried | `PlayMedia`, `rotateAndPlay`, `Stop`, `/clearass` | write to the document and to the cache are two steps; either may fail or its answer be lost; retries and rotations follow each other | attempts are bounded; the call returns; cache and document agree; one account plays and Stop finds it |
| **Group call connection** `internal/calls/call.go`, `time.go` | ntgcalls' bindings, pending connections, known group calls | connect, wait, update, stop | one channel per chat for all waiters; updates that come late or not at all | a waiter gets the outcome of its own connection; a stopped call is gone |
| **Assistant membership** `internal/calls/membership.go`, `join_all.go`, `internal/bot/participant.go` | member status and invite link caches | ensure, join, recover, approve, leave, follow member updates | answers cached after the update that made them wrong; links revoked between two uses; updates in any order | success has a cause; a refused link is not tried again; whoever is asked for ends up in the chat |
| **TTL cache and janitor** `internal/cache/cache.go` | entries with an expiration, one janitor for all caches | get, set, delete, clear, sweep, start, stop | an entry is seen under one lock and deleted under the next; the janitor ends with the last cache and starts anew with the next one | a fresh entry is not deleted; one goroutine sweeps, and expired entries go |
| **Administrator cache** `internal/cache/admins.go`, `internal/bot/{admins,participant,filters,auth}.go` | list of administrators per chat, the time of the last /reload | fetch, correct on an update, clear, check | read, change and write back in separate steps; updates in any order, and only about the bot and its assistant | the list is wrong for a known reason only; nobody else is let through |
| **Settings** `internal/db/{chats,users,auth,logger}.go`, `internal/bot/{settings,auth,devs}.go` | documents and the caches before them | show, toggle, set, admit, meet | the cache is filled after the read without a check; a button changes what was read earlier | what is served is what was stored, or stale for a known reason |
| **Playlists** `internal/db/playlist.go`, `internal/bot/playlist.go`, `callbacks.go` | documents | create, add, remove, delete, the button under a track | look and write apart; writes that do not ask for the owner | ownership and limits hold; no track twice |
| **Broadcast** `internal/bot/broadcast.go` | two flags; who cannot be reached | start, send, mark, cancel | look and set apart; who is marked may be back | one at a time, a cancel stops the one that was meant, nobody stays marked |
| **Download cleanup** `internal/downloader/cleanup.go` | files, the paths in the queues | routine and urgent sweep | the files in use are collected before the sweep; the look at a file and its removal are two steps, by name | a file in use is never deleted, nor one that is being made; what the sweep is for does not stay for ever |
| **Downloaders** `internal/downloader` | files | resolve, download, decrypt, convert | fallback between sources; two downloads of one track | a path that is returned is a whole file |
| **Backup** `internal/db/backup.go`, `internal/bot/backup.go` | all collections | dump, send, restore | commands go on meanwhile; a collection may fail | no document missing in silence; a restore is exact |
| **Configuration, information commands, shell command, utilities, pause/mute/seek, ntgcalls binding** | — | — | start-up, texts, one request each, cgo | not about order |

How they interact: a handler of *commands* reads and changes the *queue* and calls
*playback*; *playback* asks *assignment* for an account, *membership* to bring
it into the chat and *connection* to join the call; ntgcalls calls back into
*playback* at the end of a stream; Telegram's updates reach *connection*
(group call of an assistant) and *commands* (message to the bot) independently.
Before it runs, a command asks the *administrator cache* and the *settings* who
may give it; the *cleanup* reads the paths of the *queues*, and *playback* writes
the files it removes; *broadcast* marks documents that *settings* stores;
*backup* replaces documents under the *settings'* caches.

## 2. Modules

| Module | Models | State and actions |
|---|---|---|
| `QueueOps` | what the methods of `ChatCacher` compute | operators on sequences |
| `ChatQueue` | the specification of one chat's entry | one action per method, atomic as under the mutex |
| `SliceQueue` | the same, as the Go code does it | backing array, window, `append` with and without room, `copy` on overlapping ranges, nil entries |
| `Player` | handlers and call-backs of one chat | `pc[h]` and `frame[h]` are a goroutine's place and locals; a step is what happens between two network calls or two locks |
| `Rotation` | `PlayMedia`, `rotateAndPlay`, `GetAccount`, `Stop`, `ClearAllAssistants` | a step per access to the document, to the cache, to Telegram |
| `Connect` | `startCallStream`, `connectCall`, `getInputGroupCall`, `stopAssistantCall`, the handlers of group call updates and connection events | one assistant and one chat: its entries in `AssistantAccount`'s maps, the binding's call, Telegram's group call, the updates and events on their way |
| `Membership` | `ensureAssistantMember`, `/join`, `JoinAllAssistants`, `leaveAssistantDialogs`, `handleParticipant` | the two caches beside what is true in Telegram; a call's `frame` has its locals |
| `TTLCache` | `Cache`, `cacheJanitor` | the expiration of every entry; the registry, the stop channel by the goroutine it was given to; a step per lock that is taken |
| `AdminCache` | `GetAdmins`, `UpdateAdminCache`, `/reload`, the filters, `handleParticipant` | Telegram's list beside the cached one; a handler's `frame` has the list it has read |
| `Store` | the cache-aside reads and writes of `internal/db`, the commands that use them, backup and restore | a document is the set of what is on in it; a step is one request to MongoDB or one access to a cache |
| `Broadcast` | `/broadcast`, `/stop_broadcast`, the goroutine that sends, `storeChatToDB` | both flags, the flagged documents, who cannot be reached in truth; the stops that have looked at one flag and not raised the other |
| `Playlist` | the playlist commands and the button | the documents, the songs of each as a bag; a handler's `job` is what it has read |
| `Downloads` | the ways a track's file comes to be, the cleanup | the disk as names with age, wholeness and writer; `job` is a handler, `sweep` the cleanup: TDLib's directories one by one, then the bot's, a look and a removal per file |
| `CacheProofs`, `PlayerProofs`, `RotationProofs`, `ConnectProofs`, `MembersProofs`, `StoreProofs`, `CommandsProofs`, `DownloadsProofs` | — | lemmas and proofs; `CacheProofs`, `MembersProofs` and `CommandsProofs` are about the modules that the MC module of that name puts into one run |
| `MC*` | — | the values TLC is given, and which modules share a run |

`Player` instantiates `ChatQueue` (`Cache == INSTANCE ChatQueue`) and composes
its actions; `SliceQueue` implements it (`Abstract == INSTANCE ChatQueue WITH
queue <- Window`).  `Player` sees `PlayMedia` as a sequence of attempts that
succeed, or fail and clear the chat; `Rotation` is that sequence in detail.
Each attempt of `Rotation` has a step `Member`, whose outcomes `Membership` explains,
and a step `Connect`, which `Connect` does.  `Player`'s download, which succeeds or
fails, is `Downloads` in detail.  The flags `Broadcast` writes straight to the
database are documents of `Store`, which has the cache before them.

Modelling decisions a reader should know:

* A song is the identity of a `*PlayerCache`; two songs may have one `TrackID`.
  A handler always adds an object it has just allocated, so `Fresh` and
  `Unallocated` are facts of the code and not restrictions.
* A chat without an entry and with an empty one are one state: no method
  distinguishes them.  Chats share nothing, so each model has one.
* The calls of `ChatCacher` are atomic (its mutex).  `LoopFirst` writes a song's
  loop count without it, as play.go:372 does; Go's memory model gives an
  `int` one value or the other, which interleaving covers.
* A message, a search, a download or a request is a point where the handler may
  be interrupted and where it may fail.  A failure with no effect on the state
  that is modelled, such as a reply that is not sent, is left out.
* In `Rotation` an error is its class (`classifyError`): fatal, retry once,
  rotate, unknown.  Which error text falls into which class is not modelled.
  A Mongo write fails in two ways, not done (`db`) or done with the answer lost
  (`lost`).  The document outlives the process, so it may name an account
  beyond those that started (`Earlier`).
* In `Connect` an update about a group call names its chat (`updateGroupCall.Peer`);
  the search by identifier for older servers finds the same entry.  Every update
  and every event of ntgcalls has a goroutine of its own and nothing orders two of
  them; two alike that run together count as one, and one reconnection at a time
  is a bound.  Which outcome a connection has is not kept, only whether it has
  come.
* In `Membership` a restricted assistant is in the chat.  A link is a name that is
  used again when nothing holds it, so finitely many suffice.  `trouble` is what
  people, failures and commands other than the chat's own calls may still do; the
  calls themselves are not bounded.  What a handler of a member update does before
  it touches the caches only delays it, so it is one step at any later moment.
  A link of another chat given to `/join` is left out: the code does not
  compare, and `EnsureSound` would not be true of it.
* Some properties allow a named reason, kept in a variable of the model that the
  code does not have (`suspect`, `unheard`, `doubled`, `overlapped`, `missed`,
  `raced`, `killed`, `snatched`, `lapse`, `crossed` and `own`).  Such a
  variable is set only by the interleaving or the failure it is named for, and
  cleared, if at all, where the code makes good; what remains is the claim that
  nothing *else* leads there.  Where the code meets a hazard in just that way, the
  property does not show that it cannot happen; the notes of the hazards in
  `PROJECT.json` say so for each.
* In `Store` a handler's own messages are left out, and so is what a setting
  means: only that a document is absent, holds an item or does not.
* In `Playlist` the songs of a playlist are a bag, how often each track is in it:
  no request reads their order.
* The `ASSUME`s say what the values of the constants have in common with the
  code: a document is of one kind, a chat has a flag for being unreachable and a
  logger's document is one switch (`Store`); what stands for "none" is no value
  of the kind it is none of (`AdminCache`, `Store`, `Downloads`, `SliceQueue`).
* In `AdminCache` a user's rank is whether the entry says administrator or owner.
  Telegram may deliver updates in any order, and updates about members other
  than the bot and the assistant never arrive at the cache (participant.go:37).
* In `Downloads` a file's age is whether it is older than the routine sweep's
  limit.  `raced` names the tracks fetched by two handlers at once, `killed` those
  whose ffmpeg or yt-dlp was killed or ended with the process, `snatched` those with a
  scratch file that was written anew between the sweep's look at it and its removal.
* The sweep walks three of TDLib's directories, each with a list of extensions
  (cleanup.go:45-49).  A track of Telegram is in one of them with an extension that is
  listed (`Media`), or is `"unswept"`: voice notes and video notes, which TDLib keeps
  elsewhere, an `.mkv` in `videos`, an `.mp4` in `documents`.  The bot plays those,
  and they are never removed.  Nor is a download whose name begins with a dot, which only
  the service it comes from could give it; no name of the model does.
* A stop of a broadcast is two steps (broadcast.go:113, 118), and so is the removal of
  a file by the sweep (cleanup.go:202-211, 280-289): what is true at the first may not be
  at the second.
* `Cache.Close` is called by tests only, and the administrators' cache is never closed: in
  the program the janitor starts once.  `TTLCache` is the component with all its
  operations, so that `OneJanitor` says more than the program asks of it today.
* Definitions marked `slip` are deliberate errors that take the place of the
  definition that follows them when a property's strength is tested
  (`mutants` in `PROJECT.json`).  No specification uses them.

## 3. What TLC checks

| Run | Instance | Shows |
|---|---|---|
| `cache` | the queue in place: 4 songs (two with one identifier, one recommended, one without identifier), batches of 2, arrays of up to 4 slots; or two caches, one key, one reader, two starts of the janitor | the slice code implements `ChatQueue` (`ImplementsChatQueue`), `QueueDistinct`, `OrderIsPreserved`; `OneJanitor`, `FreshIsKept`, `ExpiredIsSwept` |
| `player_sequential` | 1 handler at a time, 2 songs of users and 2 of the mix, 5 commands, downloads and mixes fail | `HeadIsPlaying`, `InactiveIsSilent`, `RecommendationsBounded`, `QueueDrains` |
| `player_concurrent` | 2 handlers, 3 songs, limit 0, failures and events | `QueueBounded`, `HandlersReturn` |
| `rotation` | 3 accounts, 4 earlier ones, 2 calls one after the other, every failure; or 2 accounts, 2 calls of `PlayMedia` or `Stop` at a time, joins fail | `CoherentUnlessUnseen`, `OneWhenCalm`; `TwoCallsReturn`; `AttemptsBounded` in both |
| `connect` | 1 goroutine that starts and stops, 1 reconnection, every failure; 3 starts and stops in one group call, or 1 and a second group call | `RegisteredHears`, `ConnectedTakesPart` |
| `members` | 2 assistants, any number of calls one after the other, 2 troubles, 3 links; or the bot and a user, 2 handlers, 2 changes, 2 commands, 1 failure | `EnsureSound`, `RefusedIsForgotten`, `JoinedInTheEnd`; `WrongForAReason`, `FormerAdminsRefused` |
| `store` | 1 document of each kind, 2 commands of any kind at a time, 1 refusal, lost answer or restart | `StaleForAReason`, `TogglesFlip`, `BackupIsWhole`, `RestoreIsExact`, type |
| `commands` | 1 chat, 1 user, 2 handlers, 3 commands, 1 move, 1 restart; or 2 users, 3 playlists, limit 1, 2 handlers, 4 commands | `FlagIsRight`, `StopIsObeyed`, `FlaggedForAReason`; `OnceForAReason`, `PlaylistsBounded`, `OnlyOwnersChange`; types |
| `downloads` | 2 chats that want one track of one of 5 kinds, 2 cycles, one failure, urgent sweep or restart | `MissingForAReason`, `PartialForAReason`, `RoutineIsGentle`, `UnusedIsRemoved`, type |

Two modules share a run (`cache`, `members`, `commands`) only when neither reads
what the other writes.  The first state chooses which of them goes on, so that
the run has the behaviours of each and not their product; `rotation` chooses between
one call with every failure and two that overlap the same way.  The parts of a run have nothing else to
do with each other.

The conditions under which a property holds are part of the result:

* `HeadIsPlaying` and `InactiveIsSilent` hold when handlers run one after the
  other and only downloads fail.  With two handlers, or with a call that fails
  and is retried, they do not (section 4).
* `QueueBounded` is the bound that does hold for concurrent handlers: the limit
  is tested before the search and the track is added after it, so each running
  handler can overshoot by its own songs.  The run sets the limit to 0 so that
  the bound is reached with three songs.
* `OneWhenCalm` holds as long as calls come one at a time and only joins fail
  (`lapse = "none"`).  A failure after the join, or of the membership check while an
  earlier account is still in the call, breaks it (`stop_elsewhere`).
* `ConnectedTakesPart` holds until somebody crosses: a goroutine has joined the
  group call, loses its call of ntgcalls to a stop or to a discarded group call, and
  connects the call that the next start has made; or the request to leave (call.go:62)
  comes after another goroutine has created a call.  Then the account is out of the
  group call while the binding is connected, and nothing in the program notices.
  The first takes three starts and stops beside the reconnection, two goroutines
  or not.
* `RegisteredHears` is about the call that is registered: two that overlap share one
  entry of `waitConnect`, and the one that is overwritten ends by its timeout.
* `JoinedInTheEnd` needs that cached entries come to their end (two hours): a
  status can be cached after the update that made it wrong, a ban lifted into
  membership is not noted (participant.go:114), and a public name that no longer
  exists is kept as the link whatever Telegram answers.
* `CoherentUnlessUnseen` holds as long as no two calls have been in progress at a
  time and every answer to a write arrives (`lapse # "unseen"`).  A lost answer
  leaves the document changed and the cache not, until the entry expires.
* `RefusedIsForgotten`: the run has one call at a time.  With two, a call that was
  given a link of its own and has joined with it keeps the link although another
  call has been refused with it in between (membership.go:411).
* `StaleForAReason` names what makes an entry old: a reader that puts back what it
  has read before somebody wrote, a lost answer, a restore, which leaves the
  caches alone, or a writer that is between the write and the eviction.  Every
  one of them can happen; nothing else can, and a restart makes all good.
* `TogglesFlip` holds for a press whose document nobody has changed since it was
  read: two presses at once may flip once.
* `WrongForAReason`: a demoted ordinary administrator stays in the list until it
  expires or somebody reloads it, since such updates are not looked at
  (participant.go:37); and two updates at once may lose one.
* `FlagIsRight` and `StopIsObeyed` exclude two `/broadcast` that both find the flag
  down.  Then two run, and the first to end lowers the flag of the other.
* `StopIsObeyed`: a stop looks at the flag of one broadcast and raises the other flag
  later.  In between that broadcast may end and the next one pass its
  reset: then the next one leaves out all its targets, though nobody meant it
  (`crossed`).  It takes that the stop was on when the next command came; no stop
  that comes after it, and none that was stored before the reset, does harm.
* `OnceForAReason`, `PlaylistsBounded`: handlers look and then write, so two of
  them can add a track twice or exceed the limit by one each.  A request
  that fails counts as "not there" (db/playlist.go:94).
* `PartialForAReason`: two downloads of one track share a temporary file; the one
  that ends first gives the other's half the final name (`raced`).  One download alone
  does not.  yt-dlp writes under the final name (`--no-part`), as does ffmpeg: killed,
  after two minutes or twenty seconds, or with the process, they leave a truncated file that
  the next request takes for downloaded (`killed`).
* `MissingForAReason`: a queued track may lose its file to a sweep that had collected the
  paths before the track got its own: to an urgent one whatever the file's age
  (`swept_in_use`), to a routine one when it is an old file that a request has
  found again.
* `RoutineIsGentle`: a scratch file that a dead process or a failed attempt left and that
  is old may be found by the sweep, written anew by the next download, and then
  removed (`snatched`): the rename of that download fails.
* `UnusedIsRemoved` is of the bot's own directory and of what the sweep may remove from
  TDLib's; the rest, section 2, stays for ever.

### Bounds

Each bound is a named constant: `MaxRequests` and `MaxCalls` stop new commands and
calls, never a running one; `MaxBatch` is the size of a playlist; `Attempts` the
attempts of a `PlayMedia` (at least 2, so that a retry follows a failure);
`QueueLimit` and `AutoPlayLimit` replace 10 and the configured value by values
that are reached.  Four songs give a queue in which a track has one before and
two behind it, which is every case of the shifts; two with the same identifier
make "first match" matter.  Two handlers give every pair of steps of two
handlers in every order.  Two or three accounts give a first, a last and one in
between.  `made` in `Rotation` stops counting just beyond the bound that
`AttemptsBounded` states, so that a wrong model still has finitely many states.
Two troubles are a link revoked and an account banned, or either of them and a
request that fails, at any two moments of any number of calls; two assistants
are the chat's own and one whose updates are not looked at.  Two group calls are
the one that is joined and the one that follows it, and three starts and stops are a
start, its stop and the start in which a late step of the first meets the second.
Two starts of the janitor are a goroutine and the one after it, which is all
a stop channel can be mistaken for.  The clock of `TTLCache` has room for an entry
that expires, is replaced and expires again.  In `Store`, `Playlist`, `AdminCache`,
`Broadcast` and `Downloads` two handlers give every pair of commands in every order
of their steps, and the third command of `Broadcast` is the `/stop_broadcast` or the
next broadcast; `PlaylistLimit` is 1 in place of 10, so that it is reached.
In `downloads` the two chats are alike, so that the first to ask is `c1`; a queue is
cleared while its track is fetched (`Stop`) for `c1` only, between two sweeps, and not for
Spotify's track, whose steps are many: an empty queue only takes a path from what the
next sweep collects.  A directory is listed in the order of its names, as `os.ReadDir` and
`WalkDir` do, and one track is wanted, so that one of TDLib's directories is walked.
In `store` one document of each kind is enough because no command reads two
documents of a kind and decides by both.  `MaxTrouble` and `MaxTroubles` bound
failures, not what follows them.
Deadlock is not checked: every behaviour may end when the commands are used up
and nothing plays.

### Fairness

`FairSpec` says that each goroutine that can go on does (`WF` of the steps of each
handler) and that an event's call-back runs when a goroutine for it is free.
That is the Go scheduler, and that every request has a timeout: HTTP clients and
Mongo contexts have one, the wait for a connection is bounded by one
(`calls/call.go`), and gogram's requests return an error when the connection is
lost.  `DrainSpec`, for `QueueDrains` only, adds that a stream comes to its end.
Nothing is assumed of users there: commands are never fair.  The fairness of
`members`, for `JoinedInTheEnd`, adds that cached entries come to their end, which is a timer's,
and that somebody asks for music again and again, which is what the property is
about; failures and changes are finitely many.  In `cache` the janitor's goroutine
goes on (`TTLCache!Fairness`): its ticker fires whatever else happens.  In
`downloads` handlers and the cleanup go on, the cleanup begins again and again
(its ticker), and files grow old.  The last is strong fairness: a file ages only
between sweeps, because a sweep compares with a time it takes as it begins and is over
within minutes, while twelve hours pass between two routine sweeps.

## 4. Where the code and its texts disagree

These runs check a property that a text of the repository states; TLC shows a
behaviour of the code that breaks it.

| Run | Property | What happens |
|---|---|---|
| `stop_elsewhere` | `StopHalts` | the account that joined is not the one that is stored; Stop leaves with another |
| `auto_leave` | `ActiveIsKept` | the queue is looked up under the dialog's identifier, which is never the chat's; assistants leave chats in which music plays |
| `swept_in_use` | `NeverSwept` | the paths in use are collected once; a track that gets its path afterwards, its file being found on the disk, loses it to an urgent sweep |

Smaller disagreements and limits seen while modelling, which the modules keep as the code has
them and no run is about: the handler of a first track whose download fails removes the
current song and returns, so that tracks added meanwhile stay queued with nothing
playing and nothing to start them (play.go:291; `HeadIsPlaying` does not hold of
two handlers); `> 10` in play.go:73 lets an eleventh track in where
the reply says "max 10 tracks"; two requests for one track that search at the
same time both find it absent (play.go:249) and both add it; `/skip` on a track
with a loop count plays it again (playback.go:207); `/remove` accepts the number
`len(queue)` (remove.go:85), removes nothing and reports it removed; a
join that fails leaves the binding's call, and the retry replaces its media and
reports success without having joined (call.go:120); an attempt that fails
clears the queue, and when the retry succeeds the track plays in a chat without a
queue (playback.go:77); a group call that opens between the request and the answer's
storing stays "closed" until the next update (call.go:297); `/remove` checks its
number against an earlier copy of the queue (remove.go:33); two presses of the
autoplay button at once toggle once (autoplay.go:52); two `/reload` that come
before either has stored its time both fetch (admins.go:36); a restore leaves the
caches as they were, so that for up to their lifetime the bot serves what the
backup has replaced (backup.go:205); a stop of a broadcast that has
ended meanwhile cancels the next one (broadcast.go:118); a truncated file that a killed
yt-dlp or ffmpeg left is played as if it were whole until it is swept (youtube.go:194-195,
spotify_dl.go:45); some of the files that are played from Telegram are never removed
(cleanup.go:45-49).

## 5. What is proved

TLAPS proves every safety invariant and every action property the passing runs
check, and the refinement, for every value of the constants that satisfies the
modules' `ASSUME`s; where a theorem has a further condition it is stated below.
Each proof has an invariant that the initial states satisfy and every step keeps.
There is no induction over data: facts about sequences are facts about
their elements, positions and lengths.

**`CacheProofs`** (`MCCache`: `ChatQueue`, `SliceQueue`, `TTLCache`)

* `TypeCorrect`, `QueueStaysDistinct`, `HistoryStaysDistinct` are proved together:
  `QueueDistinct` needs the types, since what inserting, removing and moving do to a
  sequence is a fact about sequences of songs.  `HeadStaysStable` and `OrderStays`
  (`OrderIsPreserved`) are action properties from the same invariant.  For the order
  it matters that the queue has no repetitions: "x before y" is then a
  relation of songs, and every method but `MoveTrackToFront` and `AddSongToFront`
  keeps it for all pairs, these two for all pairs without the song they move.
* `SlicesImplementQueue` (`ImplementsChatQueue`): the in-place code implements the
  queue under the mapping `queue <- Window`.  `SliceOK` is the invariant: the window
  lies within the array, and all that is in it are songs, the nil pointers that
  removals leave behind being outside.  Then each method of the code is the
  method of `ChatQueue` by the elements of the window: `copy` on overlapping
  ranges, `append` with room and without, whatever capacity it allocates.
* `JanitorIsOne` (`OneJanitor`), inductive with: the stop channel of a goroutine that
  has not started is open, so that the next start is not stopped at once.
* `FreshStaysKept` (`FreshIsKept`): what a sweep has found carries the time it
  looked at, and the clock does not go back; an entry stored after the look expires
  at `now + TTL` at the earliest, so the second look under the write lock keeps it.

**`PlayerProofs`**

* `TypeCorrect`, `QueueStaysBounded` (`QueueBounded`), for any finite set of handlers.
  `QueueBounded` is not inductive, since a handler that has passed the test still has
  songs to add when others have used the room.  The invariant counts them: a
  handler between the test and the addition has a *reservation*, and `Room` says
  that the queue and all reservations together are within the bound.  A step that
  adds a song pays with its handler's reservation; a reservation is made only by a
  step that leaves the queue within `QueueLimit`, and then all of them fit
  whatever they are.  The sum is the cardinality of `Slots`, a set of pairs,
  so no recursive sum is needed.
* `HeadStaysPlaying` (`HeadIsPlaying`), `InactiveStaysSilent` (`InactiveIsSilent`): for one
  handler at a time and `Reliable` faults, which are those of downloads, searches
  and mixes, not of messages, calls or the video chat.  `Solo` is the invariant:
  while the handler waits for a request the stream is the head of the queue, or has
  ended and its call-back is to come (`Calm`); between adding to an empty
  queue and playing, the queue is the handler's own song alone.  `/remove` with a
  range deletes from the largest index down, which never reaches index 0; that
  there is a largest one is the well-foundedness of a finite set of numbers
  (`LargestExists`).
* `RecommendationsStayBounded` (`RecommendationsBounded`): one handler at a time, any
  faults.  `Limited` says that only the first track of a queue can be a
  recommendation (autoplay adds to an empty queue and users' tracks go behind),
  and that the history has not grown since the pick compared it with the limit.
  With a limit of one the theorem needs that the video chat does not end between
  the look at the history and the pick (`CalmChat`): the history is then built anew
  from two tracks, and the limit is exceeded.

**`RotationProofs`**

* `TypeCorrect`: the account a call goes on with is one that started, even when the
  document names one that no longer exists.
* `AttemptsStayBounded` (`AttemptsBounded`): at most two attempts with each account, for
  calls that interleave.  What makes it inductive is `CallOK`: a call has made at most
  two attempts for each account it has *tried*, less those that the account in hand
  still has, so that trying an account pays for two more attempts.
* `CacheStaysCoherent` (`CoherentUnlessUnseen`), `OneTakesPart` (`OneWhenCalm`): `Guarded`
  adds to the types, as long as nothing has gone unseen, that what the call in
  progress has in hand is what the document holds, and that the cache is wrong only
  between a write and the access to the cache that follows it (`SeenOK`); and, as long
  as only joins fail, that an account in the call is the one in the hands of the
  call in progress, and nobody is in it when an assignment is given up (`CalmOK`).

**`ConnectProofs`**

* `TypeCorrect`, for any goroutines.
* `RegisteredIsTold` (`RegisteredHears`): from the moment a connection is asked for to the
  end of the wait, once ntgcalls is connected the outcome is in the channel of the
  one who is registered, or with an event that has found it, or with one that has
  still to look (`Coming`).  Registering comes before asking, so no event can look
  too early.
* `ConnectedIsThere` (`ConnectedTakesPart`): until somebody has crossed, a call that is being
  connected, and the call of whoever is about to connect, is in the group call that
  is there, or is `Doomed`: an update about a discarded group call, or its handler,
  has still to stop it (`Covered`).  `Owned` and `Moded` say that a call somebody works
  on exists.
  The attempt to prove the property with no condition but one goroutine at a time
  failed for a good reason: with three starts and stops a reconnection that joined
  before a stop connects the next start's call after that stop has left.  The run's
  bound had been two.  The property now names the crossing, and the bound is three.

**`MembersProofs`** (`MCMembers`: `Membership`, `AdminCache`)

* `TypeCorrect`, `EnsureIsSound` (`EnsureSound`), for any assistants, calls and links.
  `Earned` carries the success back along every path that ends in it, and `Seen`
  says why it holds where such a path begins: a call that runs has seen its
  assistant in the chat if it is there now.  That a new link is always free is a
  count: fewer links are held than there are (`NewLinkIsFree`).
* `RefusedStaysForgotten` (`RefusedIsForgotten`): any number of calls, provided that a call
  with a link of its own runs alone (`Apart`); `RefusedByOne` is the case of one
  goroutine, in which the run checks it, where that is always so.  The invariant:
  a cached link that was refused has somebody about to take it away, a new link is
  nobody else's, and a link given with the command was not refused since the join.
* `WrongOnlyForAReason` (`WrongForAReason`), `OnlyAdminsPass` (`FormerAdminsRefused`): any
  users and handlers.  `LooksOK` says what a handler's copy of the list is worth at each
  of its labels: it is the list of the moment it was read, and stays so until
  somebody writes, which sets the handler's mark.

**`StoreProofs`**: `StoreTyped` (`TypeOK`), `StaleOnlyForAReason` (`StaleForAReason`), `BackupsAreWhole`
(`BackupIsWhole`), `RestoresAreExact` (`RestoreIsExact`), `ButtonsFlip` (`TogglesFlip`), for any
documents and threads.  `FrameOK` says for each label of a command what its copy is worth: equal
to the document unless the document was touched since; a dump has every document of
the collections it is past, a restore has put back those it is past, but for
the documents touched since.

**`CommandsProofs`** (`MCCommands`: `Broadcast`, `Playlist`)

* `CommandsTyped` (`TypesOK`).
* `FlagStaysRight` (`FlagIsRight`), `BroadcastIsOne`, `StopStaysObeyed` (`StopIsObeyed`): as long as no
  two commands overlap at most one handler is between the look at the flag and its
  end, and the flag is up exactly for it (`Alone`).  For `StopIsObeyed`,
  `Meant` says of every stop between its two steps that it has found the broadcast that is
  on, or was on itself when that one's command came, so that whoever it tells to stop is
  one that was meant or has crossed with it; `Told`, that the cancel flag a broadcast
  reads is what it has been told since its reset.  `FlaggedOnlyForAReason`
  (`FlaggedForAReason`): `Aimed` says that a handler about to mark has its reason.
* `TracksOnceForAReason` (`OnceForAReason`): a handler about to add a track found none, or has
  somebody between it and the list who is named.  `LimitHolds` (`PlaylistsBounded`): the
  playlists of a user and the handlers that have counted while one more was allowed
  are together within the bound (`Bounded`).  `OwnersAlone` (`OnlyOwnersChange`): a handler
  past the question goes on with a playlist that is its user's as long as it exists,
  because owners never change and an identifier is never given twice.

**`DownloadsProofs`**: `DownloadsTyped` (`TypeOK`), `FilesStayWhileQueued` (`MissingForAReason`),
`ShownFilesAreWhole` (`PartialForAReason`), `RoutineStaysGentle` (`RoutineIsGentle`), for any chats, tracks
and kinds of file, from one invariant, `DownloadsInv`: a sweep removes nothing it has
collected as in use (`SweepOK`); two that fetch one track are known to (`Alone`); the
scratch file of a track that one handler fetches is as it left it (`ScratchOK`), and where no
urgent sweep has been it is young and not the one that the sweep is about to remove
(`GentleOK`, `Safe`): what was found old is none that a download relies on, and what is
written anew under its name is `snatched`.  A file that is not whole, under a name that
requests take for downloaded, is still being written, or its program was killed; a
CDN's has the name only by a rename, which two handlers must share to spoil it (`Shown`).

The type invariants of `ChatQueue`, `Player`, `Rotation`, `Connect` and `Membership`, and
`HistoryDistinct`, `HeadIsStable` and `OneBroadcast`, are proved and are in no run.

Only model-checked: liveness under fairness (`HandlersReturn`, `QueueDrains`,
`TwoCallsReturn`, `JoinedInTheEnd`, `ExpiredIsSwept`, `UnusedIsRemoved`), which is
beyond the prover.  The properties of the three runs that expect a violation are
false of the code.

## 6. Not modelled

Formatting, keyboards, translations, help, configuration, the shell command and the
cgo binding: no state that two steps share.  The downloaders' searches, parsers and
API clients: requests and data, of which the models keep that they succeed or
fail.  Pause, mute and seek: one request to the binding each.  Functions no
handler calls: the saved state of a broadcast (db/broadcast.go:20-88), the
blacklist, languages, and a few setters of `internal/db`.  Starting and stopping the
assistants' clients.  Presentation streams and participants of a group call.

A hazard without a property (`PROJECT.json`): an error after the binding has created
its call keeps the call, and the next attempt takes it for joined (call.go:120).
`Connect` has the step; what would have to hold, that the account takes part
whenever the start reports success, is what the code does not do, and no text of
the program promises it.

## 7. What is left

1. Refinements: `Connect` and `Membership` as what `Rotation`'s steps abstract, and
   `Downloads` as `Player`'s download.
2. Proofs: what a queue of several handlers says about the stream, under conditions
   weaker than one handler at a time.
3. Seek, pause and mute in `Player`; two chats that share an assistant.
