----------------------------- MODULE ChatQueue ------------------------------
(***************************************************************************)
(* The state ChatCacher keeps for one chat, and the methods that change    *)
(* it, each one atomic under the cacher's mutex.  A chat without an entry  *)
(* in the map and a chat with an empty entry are the same to every method, *)
(* so the model has one empty state for both; the entries of two chats     *)
(* share nothing, so one chat is enough.                                   *)
(*                                                                         *)
(* A song is the identity of a *PlayerCache: two songs may have the same   *)
(* TrackID.  A call that changes nothing and reports so (an index out of   *)
(* range, an identifier that is not queued) is a stuttering step.          *)
(***************************************************************************)
EXTENDS QueueOps

CONSTANTS
  Songs,        \* the PlayerCache objects
  TrackIDs,     \* the identifiers a platform gives its tracks
  NoID,         \* the empty identifier
  TrackID,      \* the TrackID field of a song
  Recommended,  \* the songs autoplay created (User = AutoPlay)
  YouTube,      \* the songs whose Platform is YouTube
  MaxLoop,      \* the largest loop count a handler sets
  MaxBatch      \* bound: the most songs AddSongs is given at once

ASSUME ChatQueueAssumption ==
  /\ NoID \notin TrackIDs
  /\ TrackID \in [Songs -> TrackIDs \cup {NoID}]
  /\ Recommended \subseteq YouTube
  /\ YouTube \subseteq Songs
  /\ MaxLoop \in Nat
  /\ MaxBatch \in Nat

VARIABLES
  queue,     \* VCData.Queue
  autoplay,  \* VCData.Autoplay
  history,   \* VCData.AutoplayHistory
  loop       \* PlayerCache.Loop of every song

vars == <<queue, autoplay, history, loop>>

Init ==
  /\ queue = <<>>
  /\ autoplay = FALSE
  /\ history = <<>>
  /\ loop = [s \in Songs |-> 0]

\* A handler allocates the song it adds: no other entry of the queue is that
\* object.
Fresh(song) == \A i \in 1 .. Len(queue) : queue[i] # song
-----------------------------------------------------------------------------
\* A song a user asks for ends the run of recommendations.
AddSong(song) ==
  /\ Fresh(song)
  /\ queue' = Append(queue, song)
  /\ history' = IF song \in Recommended THEN history ELSE <<>>
  /\ loop' = [loop EXCEPT ![song] = 0]
  /\ UNCHANGED autoplay

AddSongs(songs) ==
  /\ IsInjective(songs)
  /\ \A i \in 1 .. Len(songs) : Fresh(songs[i])
  /\ queue' = queue \o songs
  /\ loop' = [s \in Songs |-> IF Contains(songs, s) THEN 0 ELSE loop[s]]
  /\ UNCHANGED <<autoplay, history>>

AddSongToFront(song) ==
  /\ Fresh(song)
  /\ queue' = InsertNext(queue, song)
  /\ loop' = [loop EXCEPT ![song] = 0]
  /\ UNCHANGED <<autoplay, history>>

MoveTrackToFront(id) ==
  \E i \in 2 .. Len(queue) :
    /\ IsFirstUpcoming(queue, TrackID, id, i)
    /\ queue' = MoveNext(queue, i)
    /\ UNCHANGED <<autoplay, history, loop>>

RemoveCurrentSong ==
  /\ queue # <<>>
  /\ queue' = Tail(queue)
  /\ history' = IF Head(queue) \in YouTube
                THEN Remember(history, TrackID[Head(queue)], NoID)
                ELSE history
  /\ UNCHANGED <<autoplay, loop>>

\* The code counts from 0: its index is i - 1.
RemoveTrack(i) ==
  /\ i \in 1 .. Len(queue)
  /\ queue' = RemoveAt(queue, i)
  /\ UNCHANGED <<autoplay, history, loop>>

SetAutoplay(state) ==
  /\ autoplay' = state
  /\ history' = IF state THEN history ELSE <<>>
  /\ UNCHANGED <<queue, loop>>

\* Its only caller adds the identifier of the last track and of the next.
AddAutoplayHistory(last, next) ==
  /\ history' = Remember(Remember(history, last, NoID), next, NoID)
  /\ UNCHANGED <<queue, autoplay, loop>>

ClearAutoplayHistory ==
  /\ history' = <<>>
  /\ UNCHANGED <<queue, autoplay, loop>>

ClearChat ==
  /\ queue' = <<>>
  /\ autoplay' = FALSE
  /\ history' = <<>>
  /\ UNCHANGED loop

SetLoopCount(n) ==
  /\ queue # <<>>
  /\ loop' = [loop EXCEPT ![Head(queue)] = n]
  /\ UNCHANGED <<queue, autoplay, history>>

Next ==
  \/ \E s \in Songs : AddSong(s) \/ AddSongToFront(s)
  \/ \E n \in 1 .. MaxBatch : \E ss \in [1 .. n -> Songs] : AddSongs(ss)
  \/ \E id \in TrackIDs : MoveTrackToFront(id)
  \/ RemoveCurrentSong
  \/ \E i \in 1 .. Len(queue) : RemoveTrack(i)
  \/ \E state \in BOOLEAN : SetAutoplay(state)
  \/ \E last, next \in TrackIDs : AddAutoplayHistory(last, next)
  \/ ClearAutoplayHistory
  \/ ClearChat
  \/ \E n \in 0 .. MaxLoop : SetLoopCount(n)

Spec == Init /\ [][Next]_vars
-----------------------------------------------------------------------------
TypeOK ==
  /\ queue \in Seq(Songs)
  /\ autoplay \in BOOLEAN
  /\ history \in Seq(TrackIDs)
  /\ loop \in [Songs -> 0 .. MaxLoop]

\* No song object is queued twice: inserting and moving by shifting the
\* entries in place neither loses an entry nor leaves a copy of one behind
\* (player_cache.go:90-92, 124-126, 196-199).
QueueDistinct == IsInjective(queue)

\* No identifier is in the autoplay history twice, so that the history's
\* length, which autoplay.go:18 compares with the limit, counts tracks.
HistoryDistinct == IsInjective(history)

\* The current track is replaced only by being taken off the queue: no
\* insertion and no move changes the track at index 0 (the comment at
\* player_cache.go:99).
HeadIsStable ==
  [][\/ queue = <<>>
     \/ queue' = <<>>
     \/ Head(queue') = Head(queue)
     \/ queue' = Tail(queue)]_vars

\* A step never swaps two queued tracks, except that the track it puts right
\* after the current one may overtake others (player_cache.go:97, 184).
OrderIsPreserved ==
  [][\A i, j \in 1 .. Len(queue) : \A k, l \in 1 .. Len(queue') :
       (i < j /\ queue'[k] = queue[i] /\ queue'[l] = queue[j])
         => (k < l \/ l = 2)]_vars
=============================================================================
