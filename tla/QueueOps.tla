------------------------------ MODULE QueueOps ------------------------------
(***************************************************************************)
(* What the methods of ChatCacher (internal/cache/player_cache.go) do to a *)
(* chat's queue and to its autoplay history, as operators on sequences.    *)
(* The queue's first element is the track that is playing.  The modules    *)
(* that need a queue are built from these operators.                       *)
(***************************************************************************)
EXTENDS Integers, SequencesExt

(* The definitions marked "slip" are wrong on purpose: each is what a
   plausible slip would make of the definition that follows it, and the
   properties must tell the two apart. *)

\* AddSongToFront: the song goes right after the current one, or becomes the
\* current one when there is none.
InsertNext(q, song) ==
  IF q = <<>> THEN <<song>> ELSE InsertAt(q, 2, song)

\* MoveTrackToFront, once the track is found at position i > 1: the tracks
\* from 2 to i - 1 shift one place back and the track takes position 2.
MoveNext(q, i) == InsertAt(RemoveAt(q, i), 2, q[i])

\* Position i holds the first track after the current one whose identifier
\* is id.
IsFirstUpcoming(q, TrackID, id, i) ==
  /\ i \in 2 .. Len(q)
  /\ TrackID[q[i]] = id
  /\ \A j \in 2 .. i - 1 : TrackID[q[j]] # id

\* GetTrackIfExists finds a track: some queued track has the identifier.
Queued(q, TrackID, id) == \E i \in 1 .. Len(q) : TrackID[q[i]] = id

\* One identifier added to the autoplay history: an empty one and one the
\* history holds already are ignored.
Remember(history, id, noID) ==
  IF id = noID \/ Contains(history, id) THEN history ELSE Append(history, id)
=============================================================================
