----------------------------- MODULE SliceQueue -----------------------------
(***************************************************************************)
(* ChatQueue one level down: VCData.Queue is a Go slice, a window on a     *)
(* backing array that append may write behind or replace, and the methods  *)
(* of ChatCacher shift the entries in place with copy.  Implements         *)
(* ChatQueue under the mapping that reads the window as a sequence.        *)
(***************************************************************************)
EXTENDS QueueOps

CONSTANTS
  Songs, TrackIDs, NoID, TrackID, Recommended, YouTube, MaxLoop, MaxBatch,
  Nil,         \* the nil pointer
  Capacities   \* the capacities the runtime may give a grown array

VARIABLES
  array,  \* the backing array: a function on 0 .. capacity - 1
  base,   \* where the window starts
  size,   \* the length of the window
  autoplay, history, loop

vars == <<array, base, size, autoplay, history, loop>>

Window == [i \in 1 .. size |-> array[base + i - 1]]

Abstract == INSTANCE ChatQueue WITH queue <- Window

Init ==
  /\ array = [x \in {} |-> Nil]
  /\ base = 0
  /\ size = 0
  /\ autoplay = FALSE
  /\ history = <<>>
  /\ loop = [s \in Songs |-> 0]

Fresh(song) == \A i \in 0 .. size - 1 : array[base + i] # song
-----------------------------------------------------------------------------
\* copy(dst, src) on k entries of one array, dst and src given by the slots
\* they start at; the runtime moves overlapping ranges correctly.
Copy(a, dst, src, k) ==
  [x \in DOMAIN a |-> IF x \in dst .. dst + k - 1 THEN a[src + x - dst] ELSE a[x]]

\* append(q, xs...): the new entries are written behind the window when the
\* array has room for them, otherwise to a new array that starts with a copy
\* of the window.  The result is the array and the start of the window.
Appended(xs) ==
  IF (base + size + Len(xs)) - 1 \in DOMAIN array
  THEN {<<[x \in DOMAIN array |-> IF x \in base + size .. base + size + Len(xs) - 1
                                  THEN xs[x - (base + size) + 1]
                                  ELSE array[x]],
          base>>}
  ELSE {<<[x \in 0 .. c - 1 |-> IF x < size THEN array[base + x]
                                ELSE IF x < size + Len(xs) THEN xs[x - size + 1]
                                ELSE Nil],
          0>> : c \in {c \in Capacities : c >= size + Len(xs)}}

Unchanged == UNCHANGED <<autoplay, history>>
-----------------------------------------------------------------------------
AddSong(song) ==
  /\ Fresh(song)
  /\ \E r \in Appended(<<song>>) : array' = r[1] /\ base' = r[2]
  /\ size' = size + 1
  /\ history' = IF song \in Recommended THEN history ELSE <<>>
  /\ loop' = [loop EXCEPT ![song] = 0]
  /\ UNCHANGED autoplay

AddSongs(songs) ==
  /\ IsInjective(songs)
  /\ \A i \in 1 .. Len(songs) : Fresh(songs[i])
  /\ \E r \in Appended(songs) : array' = r[1] /\ base' = r[2]
  /\ size' = size + Len(songs)
  /\ loop' = [s \in Songs |-> IF Contains(songs, s) THEN 0 ELSE loop[s]]
  /\ Unchanged

\* The first song of an empty queue is appended; otherwise a nil entry is
\* appended, the entries from 1 on move one slot up, and the song is written
\* at index 1.
AddSongToFront(song) ==
  /\ Fresh(song)
  /\ \/ /\ size = 0
        /\ \E r \in Appended(<<song>>) : array' = r[1] /\ base' = r[2]
     \/ /\ size > 0
        /\ \E r \in Appended(<<Nil>>) :
             /\ array' = [Copy(r[1], r[2] + 2, r[2] + 1, size - 1) EXCEPT ![r[2] + 1] = song]
             /\ base' = r[2]
  /\ size' = size + 1
  /\ loop' = [loop EXCEPT ![song] = 0]
  /\ Unchanged

\* slip: the track is written before the entries move.
MoveTrackToFrontEarly(id) ==
  \E index \in 1 .. size - 1 :
    /\ TrackID[array[base + index]] = id
    /\ \A i \in 1 .. index - 1 : TrackID[array[base + i]] # id
    /\ array' = Copy([array EXCEPT ![base + 1] = array[base + index]],
                     base + 2, base + 1, index - 1)
    /\ UNCHANGED <<base, size, loop>>
    /\ Unchanged

\* slip: the track changes places with the one at index 1.
MoveTrackToFrontSwaps(id) ==
  \E index \in 1 .. size - 1 :
    /\ TrackID[array[base + index]] = id
    /\ \A i \in 1 .. index - 1 : TrackID[array[base + i]] # id
    /\ array' = [array EXCEPT ![base + 1] = array[base + index],
                             ![base + index] = array[base + 1]]
    /\ UNCHANGED <<base, size, loop>>
    /\ Unchanged

\* The loop looks for the first match from index 1 on and skips nil entries.
MoveTrackToFront(id) ==
  \E index \in 1 .. size - 1 :
    LET found(i) == array[base + i] # Nil /\ TrackID[array[base + i]] = id IN
    /\ found(index)
    /\ \A i \in 1 .. index - 1 : ~found(i)
    /\ array' = [Copy(array, base + 2, base + 1, index - 1)
                   EXCEPT ![base + 1] = array[base + index]]
    /\ UNCHANGED <<base, size, loop>>
    /\ Unchanged

RemoveCurrentSong ==
  /\ size > 0
  /\ LET removed == array[base] IN
     history' = IF removed # Nil /\ removed \in YouTube
                THEN Remember(history, TrackID[removed], NoID)
                ELSE history
  /\ array' = [array EXCEPT ![base] = Nil]
  /\ base' = base + 1
  /\ size' = size - 1
  /\ UNCHANGED <<autoplay, loop>>

RemoveTrack(index) ==
  /\ index \in 0 .. size - 1
  /\ array' = [Copy(array, base + index, base + index + 1, size - index - 1)
                 EXCEPT ![base + size - 1] = Nil]
  /\ size' = size - 1
  /\ UNCHANGED <<base, loop>>
  /\ Unchanged

SetAutoplay(state) ==
  /\ autoplay' = state
  /\ history' = IF state THEN history ELSE <<>>
  /\ UNCHANGED <<array, base, size, loop>>

AddAutoplayHistory(last, next) ==
  /\ history' = Remember(Remember(history, last, NoID), next, NoID)
  /\ UNCHANGED <<array, base, size, autoplay, loop>>

ClearAutoplayHistory ==
  /\ history' = <<>>
  /\ UNCHANGED <<array, base, size, autoplay, loop>>

\* The entry is deleted: the next getOrCreate starts from a nil slice.
ClearChat ==
  /\ array' = [x \in {} |-> Nil]
  /\ base' = 0
  /\ size' = 0
  /\ autoplay' = FALSE
  /\ history' = <<>>
  /\ UNCHANGED loop

SetLoopCount(n) ==
  /\ size > 0
  /\ array[base] # Nil
  /\ loop' = [loop EXCEPT ![array[base]] = n]
  /\ UNCHANGED <<array, base, size>>
  /\ Unchanged

Next ==
  \/ \E s \in Songs : AddSong(s) \/ AddSongToFront(s)
  \/ \E n \in 1 .. MaxBatch : \E ss \in [1 .. n -> Songs] : AddSongs(ss)
  \/ \E id \in TrackIDs : MoveTrackToFront(id)
  \/ RemoveCurrentSong
  \/ \E index \in 0 .. size - 1 : RemoveTrack(index)
  \/ \E state \in BOOLEAN : SetAutoplay(state)
  \/ \E last, next \in TrackIDs : AddAutoplayHistory(last, next)
  \/ ClearAutoplayHistory
  \/ ClearChat
  \/ \E n \in 0 .. MaxLoop : SetLoopCount(n)

Spec == Init /\ [][Next]_vars
-----------------------------------------------------------------------------
\* The slices implement the queue: the in-place code of every method does
\* what ChatQueue says the method does.
ImplementsChatQueue == Abstract!Spec
=============================================================================
