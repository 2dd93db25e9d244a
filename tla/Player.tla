------------------------------- MODULE Player -------------------------------
(***************************************************************************)
(* Playback in one chat: the goroutines that run the command handlers      *)
(* (internal/bot), the callback of the end of a stream and what they share *)
(* of internal/calls, PlayNext, playTrack, handleAutoplay, PlayMedia and   *)
(* Stop.  The chat's queue is ChatQueue: a call of a ChatCacher method is  *)
(* one atomic step, a network call (a message, a search, a download, a     *)
(* group call request) separates the steps before and after it, and the    *)
(* steps of different handlers interleave.                                 *)
(*                                                                         *)
(* PlayMedia appears here as a series of attempts (Rotation has the        *)
(* assistants the attempts are made with): an attempt starts the stream,   *)
(* or it fails and clears the chat, and then PlayMedia tries again or      *)
(* gives up.                                                               *)
(***************************************************************************)
EXTENDS QueueOps, FiniteSets

CONSTANTS
  Songs, TrackIDs, NoID, TrackID, Recommended, YouTube, MaxLoop, MaxBatch,
  None,           \* no song
  Handlers,       \* the goroutines that may be running at one time
  QueueLimit,     \* the literal 10 of play.go:73
  AutoPlayLimit,  \* config.AutoPlayLimit
  Attempts,       \* the most attempts of one PlayMedia
  Commands,       \* the commands users give
  Faults,         \* what may fail: "send", "download", "call", "mix", "videochat"
  MaxRequests     \* bound: the number of commands of a behaviour

ASSUME PlayerAssumption ==
  /\ TrackID \in [Songs -> TrackIDs \cup {NoID}]
  /\ NoID \notin TrackIDs
  /\ Recommended \subseteq YouTube /\ YouTube \subseteq Songs
  /\ None \notin Songs
  /\ IsFiniteSet(Handlers)
  /\ {QueueLimit, AutoPlayLimit, MaxRequests} \subseteq Nat
  /\ {MaxLoop, MaxBatch, Attempts} \subseteq Nat \ {0}

VARIABLES
  queue, autoplay, history, loop,  \* the chat's entry in ChatCache
  stream,    \* the song the assistant streams to the video chat, or None
  ended,     \* stream-end events whose callback has not started
  path,      \* the songs whose FilePath is set
  requests,  \* commands users may still give
  pc,        \* where each handler is, "idle" when it has returned
  frame      \* each handler's local variables

Cache == INSTANCE ChatQueue

cacheVars == <<queue, autoplay, history, loop>>
vars == <<queue, autoplay, history, loop, stream, ended, path, requests, pc, frame>>

(* song: the track in hand; batch: the songs left to add; total: how many
   they were; force: /fplay; n: a count read or given; id: an identifier read
   or given; seen: the autoplay history read; picks: the indexes left to
   remove. *)
NoFrame ==
  [song |-> None, batch |-> <<>>, total |-> 0, force |-> FALSE,
   n |-> 0, id |-> NoID, seen |-> {}, picks |-> {}]

Init ==
  /\ Cache!Init
  /\ stream = None
  /\ ended = 0
  /\ path = {}
  /\ requests = MaxRequests
  /\ pc = [h \in Handlers |-> "idle"]
  /\ frame = [h \in Handlers |-> NoFrame]

\* A song no one refers to stands for one that is not allocated yet.
Unallocated(s) ==
  /\ Cache!Fresh(s)
  /\ stream # s
  /\ \A h \in Handlers : frame[h].song # s /\ ~ Contains(frame[h].batch, s)

At(h, label) == pc[h] = label
Goto(h, label) == pc' = [pc EXCEPT ![h] = label]
Return(h) == Goto(h, "idle") /\ frame' = [frame EXCEPT ![h] = NoFrame]
Keep == UNCHANGED <<stream, ended, path, requests>>
-----------------------------------------------------------------------------
(* Commands.  A command that is refused at once changes nothing; the action
   is the one that goes on. *)

Begin(h, label, f) ==
  /\ At(h, "idle")
  /\ requests > 0
  /\ requests' = requests - 1
  /\ Goto(h, label)
  /\ frame' = [frame EXCEPT ![h] = f]
  /\ UNCHANGED <<cacheVars, stream, ended>>

\* slip: the length of the queue is not checked.
PlayUnlimited(h, s, force) ==
  /\ Unallocated(s)
  /\ s \notin Recommended
  /\ Begin(h, "lookup", [NoFrame EXCEPT !.song = s, !.force = force])
  /\ path' = path \ {s}

\* handlePlay with one song: the length of the queue is read first; the
\* search and the rest of the handler come later.
Play(h, s, force) ==
  /\ Len(queue) <= QueueLimit
  /\ Unallocated(s)
  /\ s \notin Recommended
  /\ Begin(h, "lookup", [NoFrame EXCEPT !.song = s, !.force = force])
  /\ path' = path \ {s}

\* handlePlay with a playlist: the tracks are not looked up in the queue.
PlayList(h, songs, force) ==
  /\ Len(queue) <= QueueLimit
  /\ IsInjective(songs)
  /\ \A i \in 1 .. Len(songs) : Unallocated(songs[i]) /\ songs[i] \notin Recommended
  /\ Begin(h, IF force THEN "addEach" ELSE "addAll",
           [NoFrame EXCEPT !.song = songs[1], !.batch = songs, !.total = Len(songs)])
  /\ path' = path \ ToSet(songs)

Active == queue # <<>>

SkipCommand(h) == Active /\ Begin(h, "next", NoFrame) /\ UNCHANGED path

StopCommand(h) == Active /\ Begin(h, "stop", NoFrame) /\ UNCHANGED path

PlayNow(h, id) ==
  Active /\ Begin(h, "move", [NoFrame EXCEPT !.id = id]) /\ UNCHANGED path

Loop(h, n) == Active /\ Begin(h, "setLoop", [NoFrame EXCEPT !.n = n]) /\ UNCHANGED path

ToggleAutoplay(h) == Active /\ Begin(h, "readAutoplay", NoFrame) /\ UNCHANGED path

\* The indexes are checked against a copy of the queue; one as large as the
\* queue's length passes.
RemoveCommand(h, picks) ==
  /\ Active
  /\ picks # {} /\ picks \subseteq 1 .. Len(queue)
  /\ Begin(h, "removeTracks", [NoFrame EXCEPT !.picks = picks])
  /\ UNCHANGED path

Command(h) ==
  \/ \E s \in Songs, force \in BOOLEAN :
       (IF force THEN "fplay" ELSE "play") \in Commands /\ Play(h, s, force)
  \/ \E force \in BOOLEAN, n \in 2 .. MaxBatch : \E songs \in [1 .. n -> Songs] :
       (IF force THEN "flist" ELSE "list") \in Commands /\ PlayList(h, songs, force)
  \/ "skip" \in Commands /\ SkipCommand(h)
  \/ "stop" \in Commands /\ StopCommand(h)
  \/ "playnow" \in Commands /\ \E id \in TrackIDs : PlayNow(h, id)
  \/ "loop" \in Commands /\ \E n \in 0 .. MaxLoop : Loop(h, n)
  \/ "autoplay" \in Commands /\ ToggleAutoplay(h)
  \/ "remove" \in Commands /\ \E picks \in SUBSET (1 .. Len(queue)) : RemoveCommand(h, picks)
-----------------------------------------------------------------------------
(* The rest of the play handlers. *)

\* The search has answered: a track whose identifier is queued is refused.
Lookup(h) ==
  /\ At(h, "lookup")
  /\ IF Queued(queue, TrackID, TrackID[frame[h].song])
     THEN Return(h)
     ELSE Goto(h, "enqueue") /\ UNCHANGED frame
  /\ UNCHANGED cacheVars /\ Keep

\* enqueueTrack: the only song of the queue is played by this handler, a
\* forced one by PlayNext, any other one waits for its turn.
Enqueue(h) ==
  /\ At(h, "enqueue")
  /\ IF frame[h].force THEN Cache!AddSongToFront(frame[h].song)
                       ELSE Cache!AddSong(frame[h].song)
  /\ IF queue = <<>>
     THEN Goto(h, "ownDownload") /\ UNCHANGED frame
     ELSE IF frame[h].force
     THEN Goto(h, "next") /\ UNCHANGED frame
     ELSE Return(h)
  /\ Keep

OwnDownload(h) ==
  /\ At(h, "ownDownload")
  /\ \/ path' = path \cup {frame[h].song} /\ Goto(h, "ownMedia")
     \/ "download" \in Faults /\ Goto(h, "rollback") /\ UNCHANGED path
  /\ UNCHANGED <<cacheVars, stream, ended, requests, frame>>

\* slip: the track that cannot be played stays in the queue.
RollbackNothing(h) ==
  /\ At(h, "rollback")
  /\ Return(h)
  /\ UNCHANGED cacheVars /\ Keep

\* After a failure the handler takes the current song off the queue.
Rollback(h) ==
  /\ At(h, "rollback")
  /\ IF Active THEN Cache!RemoveCurrentSong ELSE UNCHANGED cacheVars
  /\ Return(h)
  /\ Keep

\* Playlist, not forced: one call adds all songs.  If they are the whole
\* queue the first is given a loop count, for PlayNext to use up.
AddAll(h) ==
  /\ At(h, "addAll")
  /\ Cache!AddSongs(frame[h].batch)
  /\ IF queue = <<>>
     THEN Goto(h, "loopFirst") /\ frame' = [frame EXCEPT ![h].batch = <<>>]
     ELSE Return(h)
  /\ Keep

\* Playlist, forced: one call per song, from the last one to the first.
\* What the queue held before is computed from its length afterwards.
AddEach(h) ==
  /\ At(h, "addEach")
  /\ Cache!AddSongToFront(Last(frame[h].batch))
  /\ LET rest == Front(frame[h].batch)
         startLen == Len(queue) + 1 - frame[h].total IN
     IF rest = <<>> /\ startLen < 0
     THEN Return(h)
     ELSE /\ Goto(h, IF rest # <<>> THEN "addEach"
                     ELSE IF startLen = 0 THEN "loopFirst" ELSE "next")
          /\ frame' = [frame EXCEPT ![h].batch = rest]
  /\ Keep

\* firstTrack.Loop = 1, without the cacher's mutex.
LoopFirst(h) ==
  /\ At(h, "loopFirst")
  /\ loop' = [loop EXCEPT ![frame[h].song] = 1]
  /\ Goto(h, "next")
  /\ UNCHANGED <<queue, autoplay, history, frame>> /\ Keep
-----------------------------------------------------------------------------
(* The rest of the other commands. *)

Move(h) ==
  /\ At(h, "move")
  /\ \/ Cache!MoveTrackToFront(frame[h].id) /\ Goto(h, "next") /\ UNCHANGED frame
     \/ /\ \A i \in 2 .. Len(queue) : TrackID[queue[i]] # frame[h].id
        /\ Return(h)
        /\ UNCHANGED cacheVars
  /\ Keep

SetLoop(h) ==
  /\ At(h, "setLoop")
  /\ IF Active THEN Cache!SetLoopCount(frame[h].n) ELSE UNCHANGED cacheVars
  /\ Return(h)
  /\ Keep

ReadAutoplay(h) ==
  /\ At(h, "readAutoplay")
  /\ Goto(h, IF autoplay THEN "turnOff" ELSE "turnOn")
  /\ UNCHANGED <<cacheVars, frame>> /\ Keep

SetAutoplay(h) ==
  /\ pc[h] \in {"turnOff", "turnOn"}
  /\ Cache!SetAutoplay(At(h, "turnOn"))
  /\ Return(h)
  /\ Keep

\* The largest index first; index t of the code is position t + 1.
RemoveTracks(h) ==
  /\ At(h, "removeTracks")
  /\ LET t == CHOOSE m \in frame[h].picks : \A p \in frame[h].picks : p <= m
         rest == frame[h].picks \ {t} IN
     /\ IF t + 1 <= Len(queue) THEN Cache!RemoveTrack(t + 1) ELSE UNCHANGED cacheVars
     /\ IF rest = {}
        THEN Return(h)
        ELSE frame' = [frame EXCEPT ![h].picks = rest] /\ UNCHANGED pc
  /\ Keep
-----------------------------------------------------------------------------
(* PlayNext. *)

\* GetLoopCount decides between replaying the current track and the next.
PlayNext(h) ==
  /\ At(h, "next")
  /\ LET n == IF Active THEN loop[Head(queue)] ELSE 0 IN
     IF n > 0
     THEN Goto(h, "countLoop") /\ frame' = [frame EXCEPT ![h].n = n]
     ELSE Goto(h, "remove") /\ UNCHANGED frame
  /\ UNCHANGED cacheVars /\ Keep

\* slip: the count does not go down.
CountLoopNever(h) ==
  /\ At(h, "countLoop")
  /\ Goto(h, "replay")
  /\ UNCHANGED <<cacheVars, frame>> /\ Keep

CountLoop(h) ==
  /\ At(h, "countLoop")
  /\ IF Active THEN Cache!SetLoopCount(frame[h].n - 1) ELSE UNCHANGED cacheVars
  /\ Goto(h, "replay")
  /\ UNCHANGED frame /\ Keep

TakePlaying(h, otherwise) ==
  /\ IF Active
     THEN Goto(h, "announce") /\ frame' = [frame EXCEPT ![h].song = Head(queue)]
     ELSE Goto(h, otherwise) /\ UNCHANGED frame
  /\ UNCHANGED cacheVars /\ Keep

Replay(h) == At(h, "replay") /\ TakePlaying(h, "remove")

RemoveCurrent(h) ==
  /\ At(h, "remove")
  /\ IF Active THEN Cache!RemoveCurrentSong ELSE UNCHANGED cacheVars
  /\ Goto(h, "head")
  /\ UNCHANGED frame /\ Keep

NextSong(h) == At(h, "head") /\ TakePlaying(h, "lastID")

\* The queue has run out: autoplay needs a last track to start from and the
\* chat's setting; otherwise handleNoSong stops the call.
LastID(h) ==
  /\ At(h, "lastID")
  /\ IF history = <<>>
     THEN Goto(h, "stop") /\ UNCHANGED frame
     ELSE Goto(h, "wanted") /\ frame' = [frame EXCEPT ![h].id = Last(history)]
  /\ UNCHANGED cacheVars /\ Keep

Wanted(h) ==
  /\ At(h, "wanted")
  /\ Goto(h, IF autoplay THEN "recommend" ELSE "stop")
  /\ UNCHANGED <<cacheVars, frame>> /\ Keep
-----------------------------------------------------------------------------
(* handleAutoplay. *)

\* slip: off by one.
RecommendLate(h) ==
  /\ At(h, "recommend")
  /\ IF Len(history) > AutoPlayLimit
     THEN Goto(h, "limit") /\ UNCHANGED frame
     ELSE Goto(h, "mix") /\ frame' = [frame EXCEPT ![h].seen = ToSet(history)]
  /\ UNCHANGED cacheVars /\ Keep

Recommend(h) ==
  /\ At(h, "recommend")
  /\ IF Len(history) >= AutoPlayLimit
     THEN Goto(h, "limit") /\ UNCHANGED frame
     ELSE Goto(h, "mix") /\ frame' = [frame EXCEPT ![h].seen = ToSet(history)]
  /\ UNCHANGED cacheVars /\ Keep

LimitReached(h) ==
  /\ At(h, "limit")
  /\ Cache!ClearAutoplayHistory
  /\ Goto(h, "stop")
  /\ UNCHANGED frame /\ Keep

\* A random track of the mix that is not in the history that was read; no
\* answer, and an answer without such a track, end the playback.
Mix(h) ==
  /\ At(h, "mix")
  /\ \/ \E s \in Recommended :
          /\ Unallocated(s)
          /\ TrackID[s] \notin frame[h].seen \cup {frame[h].id}
          /\ Goto(h, "remember")
          /\ frame' = [frame EXCEPT ![h].song = s]
          /\ path' = path \ {s}
     \/ /\ \/ "mix" \in Faults
           \/ \A s \in Recommended : TrackID[s] \in frame[h].seen \cup {frame[h].id}
        /\ Goto(h, "stop")
        /\ UNCHANGED <<frame, path>>
  /\ UNCHANGED <<cacheVars, stream, ended, requests>>

RememberPick(h) ==
  /\ At(h, "remember")
  /\ Cache!AddAutoplayHistory(frame[h].id, TrackID[frame[h].song])
  /\ Goto(h, "addPick")
  /\ UNCHANGED frame /\ Keep

AddPick(h) ==
  /\ At(h, "addPick")
  /\ Cache!AddSong(frame[h].song)
  /\ Goto(h, "announce")
  /\ UNCHANGED frame /\ Keep
-----------------------------------------------------------------------------
(* playTrack and PlayMedia. *)

Announce(h) ==
  /\ At(h, "announce")
  /\ \/ /\ Goto(h, IF frame[h].song \in path THEN "media" ELSE "download")
        /\ frame' = [frame EXCEPT ![h].n = 0]
     \/ "send" \in Faults /\ Return(h)
  /\ UNCHANGED cacheVars /\ Keep

\* A download that fails makes playTrack call PlayNext again.
Download(h) ==
  /\ At(h, "download")
  /\ \/ path' = path \cup {frame[h].song} /\ Goto(h, "media")
     \/ "download" \in Faults /\ Goto(h, "next") /\ UNCHANGED path
  /\ UNCHANGED <<cacheVars, stream, ended, requests, frame>>

MediaStarts(h) ==
  /\ pc[h] \in {"media", "ownMedia"}
  /\ stream' = frame[h].song
  /\ Return(h)
  /\ UNCHANGED <<cacheVars, ended, path, requests>>

\* A failed attempt clears the chat.  What was streaming goes on if the
\* assistant's membership could not be established, and may have stopped if
\* the call failed.  frame.n counts the failures.
MediaFails(h) ==
  /\ pc[h] \in {"media", "ownMedia"}
  /\ "call" \in Faults
  /\ Cache!ClearChat
  /\ UNCHANGED stream \/ stream' = None
  /\ \/ /\ frame[h].n + 1 < Attempts
        /\ frame' = [frame EXCEPT ![h].n = @ + 1]
        /\ UNCHANGED pc
     \/ IF At(h, "ownMedia") THEN Goto(h, "rollback") /\ UNCHANGED frame ELSE Return(h)
  /\ UNCHANGED <<ended, path, requests>>
-----------------------------------------------------------------------------
(* Stop. *)

StopAutoplay(h) ==
  /\ At(h, "stop")
  /\ Cache!SetAutoplay(FALSE)
  /\ Goto(h, "clear")
  /\ UNCHANGED frame /\ Keep

StopClear(h) ==
  /\ At(h, "clear")
  /\ Cache!ClearChat
  /\ Goto(h, "leave")
  /\ UNCHANGED frame /\ Keep

\* slip: the chat is cleared and the call goes on.
StopCallNever(h) ==
  /\ At(h, "leave")
  /\ Return(h)
  /\ UNCHANGED cacheVars /\ Keep

StopCall(h) ==
  /\ At(h, "leave")
  /\ \/ stream' = None
     \/ "call" \in Faults /\ UNCHANGED stream
  /\ Return(h)
  /\ UNCHANGED <<cacheVars, ended, path, requests>>
-----------------------------------------------------------------------------
(* Events. *)

\* ntgcalls reports the end of the media.
StreamEnds ==
  /\ stream # None
  /\ stream' = None
  /\ ended' = ended + 1
  /\ UNCHANGED <<cacheVars, path, requests, pc, frame>>

\* The callback runs PlayNext in a goroutine of its own.
StreamEndCallback(h) ==
  /\ At(h, "idle")
  /\ ended > 0
  /\ ended' = ended - 1
  /\ Goto(h, "next")
  /\ UNCHANGED <<cacheVars, stream, path, requests, frame>>

\* The chat gets the message that a video chat started or ended.
VideoChatMessage ==
  /\ "videochat" \in Faults
  /\ Cache!ClearChat
  /\ UNCHANGED <<stream, ended, path, requests, pc, frame>>

\* The assistant learns that the group call was discarded.
GroupCallDiscarded ==
  /\ "videochat" \in Faults
  /\ stream # None
  /\ stream' = None
  /\ UNCHANGED <<cacheVars, ended, path, requests, pc, frame>>

Step(h) ==
  \/ Lookup(h) \/ Enqueue(h) \/ OwnDownload(h) \/ Rollback(h)
  \/ AddAll(h) \/ AddEach(h) \/ LoopFirst(h)
  \/ Move(h) \/ SetLoop(h) \/ ReadAutoplay(h) \/ SetAutoplay(h) \/ RemoveTracks(h)
  \/ PlayNext(h) \/ CountLoop(h) \/ Replay(h) \/ RemoveCurrent(h) \/ NextSong(h)
  \/ LastID(h) \/ Wanted(h)
  \/ Recommend(h) \/ LimitReached(h) \/ Mix(h) \/ RememberPick(h) \/ AddPick(h)
  \/ Announce(h) \/ Download(h) \/ MediaStarts(h) \/ MediaFails(h)
  \/ StopAutoplay(h) \/ StopClear(h) \/ StopCall(h)

Next ==
  \/ \E h \in Handlers : Command(h) \/ StreamEndCallback(h) \/ Step(h)
  \/ StreamEnds
  \/ VideoChatMessage
  \/ GroupCallDiscarded

Spec == Init /\ [][Next]_vars

\* The Go scheduler runs every goroutine that can go on, and every network
\* call returns, with an answer, an error or a timeout.
FairSpec ==
  /\ Spec
  /\ \A h \in Handlers : WF_vars(Step(h)) /\ WF_vars(StreamEndCallback(h))
-----------------------------------------------------------------------------
Labels ==
  {"idle", "lookup", "enqueue", "ownDownload", "ownMedia", "rollback", "addAll",
   "addEach", "loopFirst", "move", "setLoop", "readAutoplay", "turnOn", "turnOff",
   "removeTracks", "next", "countLoop", "replay", "remove", "head", "lastID",
   "wanted", "recommend", "limit", "mix", "remember", "addPick", "announce",
   "download", "media", "stop", "clear", "leave"}

Frames ==
  [song : Songs \cup {None}, batch : Seq(Songs),
   total : 0 .. MaxBatch, force : BOOLEAN, n : Nat, id : TrackIDs \cup {NoID},
   seen : SUBSET TrackIDs, picks : SUBSET Nat]

TypeOK ==
  /\ Cache!TypeOK
  /\ stream \in Songs \cup {None}
  /\ ended \in Nat
  /\ path \subseteq Songs
  /\ requests \in 0 .. MaxRequests
  /\ pc \in [Handlers -> Labels]
  /\ frame \in [Handlers -> Frames]

\* The queue's length is read when /play comes and the songs are added after
\* the search (play.go:73, 165, 423), so handlers that run together overshoot
\* the limit, but each by no more than the songs it adds.
QueueBounded == Len(queue) <= QueueLimit + MaxBatch * Cardinality(Handlers)

Quiet == ended = 0 /\ \A h \in Handlers : At(h, "idle")

\* When no handler is at work, a chat with a queue streams the first track
\* of it: GetPlayingTrack returns the currently playing track
\* (player_cache.go:131).
HeadIsPlaying == (Quiet /\ Active) => stream = Head(queue)

\* When no handler is at work, nothing is streamed to a chat without a queue,
\* in which /skip and /stop answer that the bot is not streaming (skip.go:25,
\* stop.go:26).
InactiveIsSilent == (Quiet /\ ~ Active) => stream = None

\* A recommended track plays only while the history autoplay has built is
\* within AutoPlayLimit (autoplay.go:18).
RecommendationsBounded ==
  (Active /\ Head(queue) \in Recommended) => Len(history) <= AutoPlayLimit

\* Every handler returns.  PlayNext and playTrack call each other when a
\* download fails (playback.go:242), with a loop count, with autoplay and
\* whatever the other handlers do in the meantime.
HandlersReturn == \A h \in Handlers : ~ At(h, "idle") ~> At(h, "idle")

\* When users give no more commands and every stream ends, the queue is
\* played to its end and the call is left.
QueueDrains == (requests = 0) ~> (Quiet /\ ~ Active /\ stream = None)

DrainSpec == FairSpec /\ WF_vars(StreamEnds)
=============================================================================
