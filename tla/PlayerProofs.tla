---------------------------- MODULE PlayerProofs ----------------------------
(***************************************************************************)
(* Proofs about Player, for any songs, limits and commands: for any faults *)
(* and any finite set of handlers type correctness and the bound on the    *)
(* queue; for handlers that run one at a time, that what is streamed is    *)
(* what the queue says and that autoplay stays within its limit.           *)
(***************************************************************************)
EXTENDS Player, SequenceTheorems, FiniteSetTheorems, TLAPS

(* What the operators of QueueOps make of the elements of a queue. *)

\* Inserting at a position shifts the elements from that position on.
LEMMA InsertAtElements ==
  ASSUME NEW S, NEW q \in Seq(S), NEW e \in S, NEW i \in 1 .. Len(q) + 1
  PROVE  /\ InsertAt(q, i, e) \in Seq(S)
         /\ Len(InsertAt(q, i, e)) = Len(q) + 1
         /\ \A j \in 1 .. Len(q) + 1 :
              InsertAt(q, i, e)[j] = IF j < i THEN q[j] ELSE IF j = i THEN e ELSE q[j - 1]
<1> DEFINE l == SubSeq(q, 1, i - 1)
           m == <<e>>
           r == SubSeq(q, i, Len(q))
<1>1. /\ l \in Seq(S) /\ Len(l) = i - 1
      /\ \A j \in 1 .. i - 1 : l[j] = q[j]
  BY SubSeqProperties, ElementOfSeq, LenProperties
<1>2. /\ r \in Seq(S) /\ Len(r) = Len(q) + 1 - i
      /\ \A j \in 1 .. Len(q) + 1 - i : r[j] = q[i + j - 1]
  BY SubSeqProperties, ElementOfSeq, LenProperties
<1>3. m \in Seq(S) /\ Len(m) = 1 /\ m[1] = e
  OBVIOUS
<1> HIDE DEF l, m, r
<1>4. /\ l \o m \in Seq(S) /\ Len(l \o m) = i
      /\ \A j \in 1 .. i : (l \o m)[j] = IF j < i THEN q[j] ELSE e
  <2>1. /\ l \o m \in Seq(S) /\ Len(l \o m) = Len(l) + Len(m)
        /\ \A j \in 1 .. Len(l) + Len(m) :
             (l \o m)[j] = IF j <= Len(l) THEN l[j] ELSE m[j - Len(l)]
    BY <1>1, <1>3, ConcatProperties
  <2>2. Len(q) \in Nat /\ Len(l) + Len(m) = i
    BY <1>1, <1>3, LenProperties
  <2>3. ASSUME NEW j \in 1 .. i
        PROVE  (l \o m)[j] = IF j < i THEN q[j] ELSE e
    <3>1. CASE j < i
      <4>1. j \in 1 .. Len(l) + Len(m) /\ j \in 1 .. i - 1 /\ j <= Len(l)
        BY <1>1, <2>2, <3>1
      <4>2. (l \o m)[j] = l[j]
        BY <2>1, <4>1
      <4> QED
        BY <1>1, <3>1, <4>1, <4>2
    <3>2. CASE j = i
      <4>1. /\ i \in 1 .. Len(l) + Len(m) /\ ~ i <= Len(l)
            /\ i - Len(l) = 1
        BY <1>1, <1>3, <2>2
      <4>2. (l \o m)[i] = m[1]
        BY <2>1, <4>1
      <4> QED
        BY <1>3, <3>2, <4>2
    <3> QED
      BY <2>2, <3>1, <3>2
  <2> QED
    BY <2>1, <2>2, <2>3
<1>5. /\ (l \o m) \o r \in Seq(S) /\ Len((l \o m) \o r) = Len(q) + 1
      /\ \A j \in 1 .. Len(q) + 1 :
           ((l \o m) \o r)[j] = IF j <= i THEN (l \o m)[j] ELSE r[j - i]
  <2>1. PICK a \in Seq(S) : a = l \o m /\ Len(a) = i
    BY <1>4
  <2>2. /\ a \o r \in Seq(S) /\ Len(a \o r) = Len(a) + Len(r)
        /\ \A j \in 1 .. Len(a) + Len(r) :
             (a \o r)[j] = IF j <= Len(a) THEN a[j] ELSE r[j - Len(a)]
    BY <1>2, ConcatProperties
  <2>3. Len(a) + Len(r) = Len(q) + 1
    BY <1>2, <2>1, LenProperties
  <2> QED
    BY <2>1, <2>2, <2>3
<1>6. InsertAt(q, i, e) = (l \o m) \o r
  BY DEF InsertAt, l, m, r
<1> QED
  BY <1>2, <1>4, <1>5, <1>6, LenProperties

\* AddSongToFront: the current song stays first, the new one is second.
LEMMA InsertNextElements ==
  ASSUME NEW S, NEW q \in Seq(S), NEW song \in S
  PROVE  /\ InsertNext(q, song) \in Seq(S)
         /\ Len(InsertNext(q, song)) = Len(q) + 1
         /\ q = <<>> => InsertNext(q, song)[1] = song
         /\ q # <<>> => \A j \in 1 .. Len(q) + 1 :
              InsertNext(q, song)[j] = IF j < 2 THEN q[j] ELSE IF j = 2 THEN song ELSE q[j - 1]
<1>1. CASE q = <<>>
  BY <1>1 DEF InsertNext
<1>2. CASE q # <<>>
  <2>1. 2 \in 1 .. Len(q) + 1
    BY <1>2, EmptySeq
  <2> QED
    BY <1>2, <2>1, InsertAtElements DEF InsertNext
<1> QED
  BY <1>1, <1>2

\* Removing a position shifts the elements behind it back.
LEMMA RemoveAtElements ==
  ASSUME NEW S, NEW q \in Seq(S), NEW i \in 1 .. Len(q)
  PROVE  /\ RemoveAt(q, i) \in Seq(S)
         /\ Len(RemoveAt(q, i)) = Len(q) - 1
         /\ \A j \in 1 .. Len(q) - 1 :
              RemoveAt(q, i)[j] = IF j < i THEN q[j] ELSE q[j + 1]
<1> DEFINE l == SubSeq(q, 1, i - 1)
           r == SubSeq(q, i + 1, Len(q))
<1>1. /\ l \in Seq(S) /\ Len(l) = i - 1
      /\ \A j \in 1 .. i - 1 : l[j] = q[j]
  BY SubSeqProperties, ElementOfSeq, LenProperties
<1>2. /\ r \in Seq(S) /\ Len(r) = Len(q) - i
      /\ \A j \in 1 .. Len(q) - i : r[j] = q[i + j]
  BY SubSeqProperties, ElementOfSeq, LenProperties
<1> HIDE DEF l, r
<1>3. /\ l \o r \in Seq(S) /\ Len(l \o r) = Len(q) - 1
      /\ \A j \in 1 .. Len(q) - 1 : (l \o r)[j] = IF j < i THEN l[j] ELSE r[j + 1 - i]
  <2>1. /\ l \o r \in Seq(S) /\ Len(l \o r) = Len(l) + Len(r)
        /\ \A j \in 1 .. Len(l) + Len(r) :
             (l \o r)[j] = IF j <= Len(l) THEN l[j] ELSE r[j - Len(l)]
    BY <1>1, <1>2, ConcatProperties
  <2>2. Len(q) \in Nat /\ Len(l) + Len(r) = Len(q) - 1
    BY <1>1, <1>2, LenProperties
  <2>3. ASSUME NEW j \in 1 .. Len(q) - 1
        PROVE  (l \o r)[j] = IF j < i THEN l[j] ELSE r[j + 1 - i]
    <3>1. (l \o r)[j] = IF j <= Len(l) THEN l[j] ELSE r[j - Len(l)]
      BY <2>1, <2>2
    <3>2. (j <= Len(l) <=> j < i) /\ j - Len(l) = j + 1 - i
      BY <1>1, <2>2
    <3> QED
      BY <3>1, <3>2
  <2> QED
    BY <2>1, <2>2, <2>3
<1>4. RemoveAt(q, i) = l \o r
  BY DEF RemoveAt, l, r
<1>5. Len(q) \in Nat
  BY LenProperties
<1>6. ASSUME NEW j \in 1 .. Len(q) - 1
      PROVE  (l \o r)[j] = IF j < i THEN q[j] ELSE q[j + 1]
  <2>1. CASE j < i
    BY <1>1, <1>3, <1>5, <2>1
  <2>2. CASE j >= i
    <3>1. j + 1 - i \in 1 .. Len(q) - i /\ i + (j + 1 - i) = j + 1
      BY <1>5, <2>2
    <3> QED
      BY <1>2, <1>3, <1>5, <2>2, <3>1
  <2>3. j < i \/ j >= i
    BY <1>5
  <2> QED
    BY <2>1, <2>2, <2>3
<1> QED
  BY <1>3, <1>4, <1>6

\* MoveTrackToFront: the entries from 2 to i - 1 shift one place back.
LEMMA MoveNextElements ==
  ASSUME NEW S, NEW q \in Seq(S), NEW i \in 2 .. Len(q)
  PROVE  /\ MoveNext(q, i) \in Seq(S)
         /\ Len(MoveNext(q, i)) = Len(q)
         /\ \A j \in 1 .. Len(q) :
              MoveNext(q, i)[j] = IF j = 2 THEN q[i]
                                  ELSE IF j \in 3 .. i THEN q[j - 1] ELSE q[j]
<1>1. Len(q) \in Nat /\ i \in 1 .. Len(q) /\ q[i] \in S
  BY LenProperties, ElementOfSeq
<1>2. PICK r \in Seq(S) :
        /\ r = RemoveAt(q, i) /\ Len(r) = Len(q) - 1
        /\ \A j \in 1 .. Len(q) - 1 : r[j] = IF j < i THEN q[j] ELSE q[j + 1]
  BY <1>1, RemoveAtElements
<1>3. PICK e \in S : e = q[i]
  BY <1>1
<1>4. 2 \in 1 .. Len(r) + 1 /\ Len(r) + 1 = Len(q)
  BY <1>1, <1>2
<1>5. /\ InsertAt(r, 2, e) \in Seq(S) /\ Len(InsertAt(r, 2, e)) = Len(q)
      /\ \A j \in 1 .. Len(q) :
           InsertAt(r, 2, e)[j] = IF j < 2 THEN r[j] ELSE IF j = 2 THEN e ELSE r[j - 1]
  BY <1>4, InsertAtElements
<1>6. MoveNext(q, i) = InsertAt(r, 2, e)
  BY <1>2, <1>3 DEF MoveNext
<1>7. ASSUME NEW j \in 1 .. Len(q), j > 2
      PROVE  r[j - 1] = IF j \in 3 .. i THEN q[j - 1] ELSE q[j]
  <2>1. j - 1 \in 1 .. Len(q) - 1 /\ (j - 1) + 1 = j /\ (j - 1 < i <=> j \in 3 .. i)
    BY <1>1, <1>7
  <2> QED
    BY <1>2, <2>1
<1>8. r[1] = q[1]
  BY <1>1, <1>2
<1> QED
  BY <1>1, <1>3, <1>5, <1>6, <1>7, <1>8
-----------------------------------------------------------------------------
(* Type correctness and the bound on the queue. *)

(* A handler that has passed the test of the queue's length, or has found
   the queue empty, still has songs to add.  Its reservation counts them.  A
   slot is a handler and a number up to its reservation, so that the number
   of slots is the sum of the reservations. *)

Adding == {"lookup", "enqueue"}
AddingMany == {"addAll", "addEach"}
Recommending == {"lastID", "wanted", "recommend", "limit", "mix", "remember", "addPick"}

Reserved(label, f) ==
  IF label \in Adding \cup Recommending THEN 1
  ELSE IF label \in AddingMany THEN Len(f.batch)
  ELSE 0

Reservations == [h \in Handlers |-> Reserved(pc[h], frame[h])]

Slots(R) == {x \in Handlers \X (1 .. MaxBatch) : x[2] <= R[x[1]]}

CacheOK ==
  /\ queue \in Seq(Songs)
  /\ autoplay \in BOOLEAN
  /\ history \in Seq(TrackIDs)
  /\ loop \in [Songs -> 0 .. MaxLoop]

SharedOK ==
  /\ CacheOK
  /\ stream \in Songs \cup {None}
  /\ ended \in Nat
  /\ path \subseteq Songs
  /\ requests \in 0 .. MaxRequests

\* The labels at which a handler has a track in hand.
HasSong ==
  {"lookup", "enqueue", "ownDownload", "ownMedia", "addAll", "addEach", "loopFirst",
   "remember", "addPick", "announce", "download", "media"}

\* The local variables f of a handler at a label.
FrameOK(label, f) ==
  /\ label \in Labels
  /\ f \in Frames
  /\ label \in HasSong => f.song \in Songs
  /\ label \in AddingMany => Len(f.batch) \in 1 .. MaxBatch
  /\ label = "countLoop" => f.n \in 1 .. MaxLoop
  /\ label = "setLoop" => f.n \in 0 .. MaxLoop

LocalOK ==
  /\ pc \in [Handlers -> Labels]
  /\ frame \in [Handlers -> Frames]
  /\ \A h \in Handlers : FrameOK(pc[h], frame[h])

Limit == QueueLimit + MaxBatch * Cardinality(Handlers)

\* The queue and the songs that are still to be added stay within the bound.
Room == Len(queue) + Cardinality(Slots(Reservations)) <= Limit

Inv == SharedOK /\ LocalOK /\ Room
-----------------------------------------------------------------------------
(* Counting slots. *)

LEMMA Naturals ==
  /\ QueueLimit \in Nat /\ MaxRequests \in Nat /\ AutoPlayLimit \in Nat
  /\ MaxLoop \in Nat \ {0} /\ MaxBatch \in Nat \ {0} /\ Attempts \in Nat \ {0}
  /\ IsFiniteSet(Handlers) /\ Cardinality(Handlers) \in Nat
  /\ Limit \in Nat
  BY PlayerAssumption, FS_CardinalityType DEF Limit

LEMMA SlotsFinite ==
  ASSUME NEW R
  PROVE  /\ IsFiniteSet(Slots(R)) /\ Cardinality(Slots(R)) \in Nat
         /\ QueueLimit + Cardinality(Slots(R)) <= Limit
<1>1. IsFiniteSet(1 .. MaxBatch) /\ Cardinality(1 .. MaxBatch) = MaxBatch
  BY Naturals, FS_Interval
<1>2. /\ IsFiniteSet(Handlers \X (1 .. MaxBatch))
      /\ Cardinality(Handlers \X (1 .. MaxBatch)) = Cardinality(Handlers) * MaxBatch
  BY <1>1, Naturals, FS_Product
<1>3. Slots(R) \in SUBSET (Handlers \X (1 .. MaxBatch))
  BY DEF Slots
<1>4. IsFiniteSet(Slots(R)) /\ Cardinality(Slots(R)) <= Cardinality(Handlers) * MaxBatch
  BY <1>2, <1>3, FS_Subset
<1>5. Cardinality(Slots(R)) \in Nat
  BY <1>4, FS_CardinalityType
<1>6. Cardinality(Handlers) * MaxBatch = MaxBatch * Cardinality(Handlers)
  BY Naturals
<1> QED
  BY <1>4, <1>5, <1>6, Naturals DEF Limit

\* When one handler's reservation goes down by some number, so does the
\* number of slots.
LEMMA SlotsRemoved ==
  ASSUME NEW R \in [Handlers -> 0 .. MaxBatch], NEW h \in Handlers,
         NEW r \in 0 .. MaxBatch, r <= R[h]
  PROVE  Cardinality(Slots(R)) = Cardinality(Slots([R EXCEPT ![h] = r])) + (R[h] - r)
<1> DEFINE S == Slots([R EXCEPT ![h] = r])
           T == {h} \X (r + 1 .. R[h])
<1>1. R[h] \in 0 .. MaxBatch /\ r \in Nat /\ R[h] \in Nat
  BY Naturals
<1>2. IsFiniteSet(r + 1 .. R[h]) /\ Cardinality(r + 1 .. R[h]) = R[h] - r
  <2>1. r + 1 \in Int /\ R[h] \in Int
    BY <1>1
  <2>2. IsFiniteSet(r + 1 .. R[h])
        /\ Cardinality(r + 1 .. R[h]) = IF r + 1 > R[h] THEN 0 ELSE R[h] - (r + 1) + 1
    BY <2>1, FS_Interval
  <2> QED
    BY <1>1, <2>2
<1>3. IsFiniteSet({h}) /\ Cardinality({h}) = 1
  BY FS_Singleton
<1>4. IsFiniteSet(T) /\ Cardinality(T) = R[h] - r
  <2>1. IsFiniteSet(T) /\ Cardinality(T) = Cardinality({h}) * Cardinality(r + 1 .. R[h])
    BY <1>2, <1>3, FS_Product
  <2> QED
    BY <1>1, <1>2, <1>3, <2>1
<1>5. S \cap T = {}
  BY <1>1 DEF Slots
<1>6. Slots(R) = S \cup T
  <2>1. ASSUME NEW x \in Slots(R) PROVE x \in S \cup T
    BY <1>1, <2>1, Naturals DEF Slots
  <2>2. ASSUME NEW x \in S PROVE x \in Slots(R)
    <3>1. x \in Handlers \X (1 .. MaxBatch) /\ x[2] <= [R EXCEPT ![h] = r][x[1]]
      BY <2>2 DEF Slots
    <3>2. x[1] \in Handlers /\ x[2] \in Nat
      BY <3>1
    <3>3. CASE x[1] = h
      BY <1>1, <3>1, <3>2, <3>3 DEF Slots
    <3>4. CASE x[1] # h
      BY <3>1, <3>2, <3>4 DEF Slots
    <3> QED
      BY <3>3, <3>4
  <2>3. ASSUME NEW x \in T PROVE x \in Slots(R)
    BY <1>1, <2>3, Naturals DEF Slots
  <2> QED
    BY <2>1, <2>2, <2>3
<1>7. IsFiniteSet(S) /\ Cardinality(S) \in Nat
  BY SlotsFinite
<1> HIDE DEF S, T
<1>8. Cardinality(S \cup T) = Cardinality(S) + Cardinality(T) - Cardinality({})
  BY <1>4, <1>5, <1>7, FS_Union
<1>9. Cardinality({}) = 0
  BY FS_EmptySet
<1>10. Cardinality(Slots(R)) = Cardinality(S) + (R[h] - r)
  BY <1>1, <1>4, <1>6, <1>7, <1>8, <1>9
<1> QED
  BY <1>10 DEF S
-----------------------------------------------------------------------------
(* What the calls of the cacher's methods do to the types and to the length
   of the queue. *)

\* The four parts make up the cache's type.
LEMMA CacheParts ==
  ASSUME queue' \in Seq(Songs), autoplay' \in BOOLEAN, history' \in Seq(TrackIDs),
         loop' \in [Songs -> 0 .. MaxLoop]
  PROVE  CacheOK'
  BY Zenon DEF CacheOK

\* The operators that ChatQueue brings along are the ones of QueueOps.
LEMMA SameOperators ==
  /\ \A q, s : Cache!InsertNext(q, s) = InsertNext(q, s)
  /\ \A q, i : Cache!MoveNext(q, i) = MoveNext(q, i)
  /\ \A q, i : Cache!RemoveAt(q, i) = RemoveAt(q, i)
  /\ \A h, id, no : Cache!Remember(h, id, no) = Remember(h, id, no)
  /\ \A q, s : Cache!Contains(q, s) = Contains(q, s)
<1>1. \A q, i, s : Cache!InsertAt(q, i, s) = InsertAt(q, i, s)
  BY DEF Cache!InsertAt, InsertAt
<1>2. \A q, i : Cache!RemoveAt(q, i) = RemoveAt(q, i)
  BY DEF Cache!RemoveAt, RemoveAt
<1>3. \A q, s : Cache!InsertNext(q, s) = InsertNext(q, s)
  BY <1>1 DEF Cache!InsertNext, InsertNext
<1>4. \A q, i : Cache!MoveNext(q, i) = MoveNext(q, i)
  BY <1>1, <1>2 DEF Cache!MoveNext, MoveNext
<1>5. \A q, s : Cache!Contains(q, s) = Contains(q, s)
  BY DEF Cache!Contains, Contains
<1>6. \A h, id, no : Cache!Remember(h, id, no) = Remember(h, id, no)
  BY <1>5 DEF Cache!Remember, Remember
<1> QED
  BY <1>2, <1>3, <1>4, <1>5, <1>6

LEMMA AddSongOK ==
  ASSUME CacheOK, NEW s \in Songs, Cache!AddSong(s)
  PROVE  CacheOK' /\ Len(queue') = Len(queue) + 1
<1>1. /\ queue' = Append(queue, s)
      /\ history' = history \/ history' = <<>>
      /\ loop' = [loop EXCEPT ![s] = 0] /\ UNCHANGED autoplay
  BY DEF Cache!AddSong
<1>2. queue' \in Seq(Songs) /\ Len(queue') = Len(queue) + 1
  BY <1>1, AppendProperties DEF CacheOK
<1>3. autoplay' \in BOOLEAN
  BY <1>1, Zenon DEF CacheOK
<1>4. history' \in Seq(TrackIDs)
  <2>1. <<>> \in Seq(TrackIDs) /\ history \in Seq(TrackIDs)
    BY DEF CacheOK
  <2> QED
    BY <1>1, <2>1
<1>5. loop' \in [Songs -> 0 .. MaxLoop]
  BY <1>1, Naturals DEF CacheOK
<1> QED
  BY <1>2, <1>3, <1>4, <1>5, CacheParts

LEMMA AddSongToFrontOK ==
  ASSUME CacheOK, NEW s \in Songs, Cache!AddSongToFront(s)
  PROVE  CacheOK' /\ Len(queue') = Len(queue) + 1
<1>1. /\ queue' = InsertNext(queue, s)
      /\ loop' = [loop EXCEPT ![s] = 0] /\ UNCHANGED <<autoplay, history>>
  BY SameOperators DEF Cache!AddSongToFront
<1>2. queue' \in Seq(Songs) /\ Len(queue') = Len(queue) + 1
  BY <1>1, InsertNextElements DEF CacheOK
<1>3. autoplay' \in BOOLEAN
  BY <1>1, Zenon DEF CacheOK
<1>4. history' \in Seq(TrackIDs)
  BY <1>1 DEF CacheOK
<1>5. loop' \in [Songs -> 0 .. MaxLoop]
  BY <1>1, Naturals DEF CacheOK
<1> QED
  BY <1>2, <1>3, <1>4, <1>5, CacheParts

LEMMA AddSongsOK ==
  ASSUME CacheOK, NEW songs \in Seq(Songs), Cache!AddSongs(songs)
  PROVE  CacheOK' /\ Len(queue') = Len(queue) + Len(songs)
<1>1. /\ queue' = queue \o songs
      /\ loop' = [s \in Songs |-> IF Contains(songs, s) THEN 0 ELSE loop[s]]
      /\ UNCHANGED <<autoplay, history>>
  BY SameOperators DEF Cache!AddSongs
<1>2. queue' \in Seq(Songs) /\ Len(queue') = Len(queue) + Len(songs)
  BY <1>1, ConcatProperties DEF CacheOK
<1>3. autoplay' \in BOOLEAN
  BY <1>1, Zenon DEF CacheOK
<1>4. history' \in Seq(TrackIDs)
  BY <1>1 DEF CacheOK
<1>5. loop' \in [Songs -> 0 .. MaxLoop]
  BY <1>1, Naturals DEF CacheOK
<1> QED
  BY <1>2, <1>3, <1>4, <1>5, CacheParts

LEMMA MoveOK ==
  ASSUME CacheOK, NEW id, Cache!MoveTrackToFront(id)
  PROVE  CacheOK' /\ Len(queue') = Len(queue)
<1>1. PICK i \in 2 .. Len(queue) :
        queue' = MoveNext(queue, i) /\ UNCHANGED <<autoplay, history, loop>>
  BY SameOperators DEF Cache!MoveTrackToFront
<1>2. queue' \in Seq(Songs) /\ Len(queue') = Len(queue)
  BY <1>1, MoveNextElements DEF CacheOK
<1>3. autoplay' \in BOOLEAN
  BY <1>1, Zenon DEF CacheOK
<1>4. history' \in Seq(TrackIDs)
  BY <1>1 DEF CacheOK
<1>5. loop' \in [Songs -> 0 .. MaxLoop]
  BY <1>1, Naturals DEF CacheOK
<1> QED
  BY <1>2, <1>3, <1>4, <1>5, CacheParts

\* An identifier that is added keeps the type of the history.
LEMMA RememberType ==
  ASSUME NEW h \in Seq(TrackIDs), NEW id \in TrackIDs \cup {NoID}
  PROVE  Remember(h, id, NoID) \in Seq(TrackIDs)
<1>1. CASE id = NoID \/ Contains(h, id)
  BY <1>1 DEF Remember
<1>2. CASE id \in TrackIDs /\ ~ Contains(h, id) /\ id # NoID
  BY <1>2, AppendProperties DEF Remember
<1> QED
  BY <1>1, <1>2

LEMMA RemoveCurrentSongOK ==
  ASSUME CacheOK, Cache!RemoveCurrentSong
  PROVE  CacheOK' /\ Len(queue') = Len(queue) - 1
<1>1. /\ queue # <<>> /\ queue' = Tail(queue)
      /\ \/ history' = history
         \/ history' = Remember(history, TrackID[Head(queue)], NoID)
      /\ UNCHANGED <<autoplay, loop>>
  BY SameOperators DEF Cache!RemoveCurrentSong
<1>2. /\ queue' \in Seq(Songs) /\ Len(queue') = Len(queue) - 1
      /\ Head(queue) \in Songs
  BY <1>1, HeadTailProperties DEF CacheOK
<1>3. TrackID[Head(queue)] \in TrackIDs \cup {NoID}
  BY <1>2, PlayerAssumption
<1>4. history' \in Seq(TrackIDs)
  BY <1>1, <1>3, RememberType DEF CacheOK
<1>5. autoplay' \in BOOLEAN
  BY <1>1, Zenon DEF CacheOK
<1>6. loop' \in [Songs -> 0 .. MaxLoop]
  BY <1>1 DEF CacheOK
<1> QED
  BY <1>2, <1>4, <1>5, <1>6, CacheParts

LEMMA RemoveTrackOK ==
  ASSUME CacheOK, NEW i, Cache!RemoveTrack(i)
  PROVE  CacheOK' /\ Len(queue') = Len(queue) - 1
<1>1. /\ i \in 1 .. Len(queue) /\ queue' = RemoveAt(queue, i)
      /\ UNCHANGED <<autoplay, history, loop>>
  BY SameOperators DEF Cache!RemoveTrack
<1>2. queue' \in Seq(Songs) /\ Len(queue') = Len(queue) - 1
  BY <1>1, RemoveAtElements DEF CacheOK
<1>3. autoplay' \in BOOLEAN
  BY <1>1, Zenon DEF CacheOK
<1>4. history' \in Seq(TrackIDs)
  BY <1>1 DEF CacheOK
<1>5. loop' \in [Songs -> 0 .. MaxLoop]
  BY <1>1, Naturals DEF CacheOK
<1> QED
  BY <1>2, <1>3, <1>4, <1>5, CacheParts

LEMMA SetAutoplayOK ==
  ASSUME CacheOK, NEW state \in BOOLEAN, Cache!SetAutoplay(state)
  PROVE  CacheOK' /\ Len(queue') = Len(queue)
<1>1. history' \in Seq(TrackIDs)
  BY DEF Cache!SetAutoplay, CacheOK
<1> QED
  BY <1>1 DEF Cache!SetAutoplay, CacheOK

LEMMA AddAutoplayHistoryOK ==
  ASSUME CacheOK, NEW last \in TrackIDs \cup {NoID}, NEW next \in TrackIDs \cup {NoID},
         Cache!AddAutoplayHistory(last, next)
  PROVE  CacheOK' /\ Len(queue') = Len(queue)
<1>1. Remember(history, last, NoID) \in Seq(TrackIDs)
  BY RememberType DEF CacheOK
<1>2. history' = Remember(Remember(history, last, NoID), next, NoID)
  BY SameOperators DEF Cache!AddAutoplayHistory
<1>3. history' \in Seq(TrackIDs)
  BY <1>1, <1>2, RememberType
<1> QED
  BY <1>3 DEF Cache!AddAutoplayHistory, CacheOK

LEMMA ClearAutoplayHistoryOK ==
  ASSUME CacheOK, Cache!ClearAutoplayHistory
  PROVE  CacheOK' /\ Len(queue') = Len(queue)
  BY DEF Cache!ClearAutoplayHistory, CacheOK

LEMMA ClearChatOK ==
  ASSUME CacheOK, Cache!ClearChat
  PROVE  CacheOK' /\ Len(queue') <= Len(queue)
<1>1. queue' = <<>> /\ autoplay' = FALSE /\ history' = <<>> /\ loop' = loop
  BY DEF Cache!ClearChat
<1>2. queue' \in Seq(Songs) /\ history' \in Seq(TrackIDs) /\ Len(queue') = 0
  BY <1>1
<1>3. autoplay' \in BOOLEAN
  BY <1>1, Zenon
<1>4. Len(queue) \in Nat
  BY LenProperties DEF CacheOK
<1> QED
  BY <1>1, <1>2, <1>3, <1>4 DEF CacheOK

LEMMA SetLoopCountOK ==
  ASSUME CacheOK, NEW n \in 0 .. MaxLoop, Cache!SetLoopCount(n)
  PROVE  CacheOK' /\ Len(queue') = Len(queue)
  BY DEF Cache!SetLoopCount, CacheOK

LEMMA SameCache ==
  ASSUME CacheOK, UNCHANGED cacheVars
  PROVE  CacheOK' /\ Len(queue') = Len(queue)
  BY DEF CacheOK, cacheVars
-----------------------------------------------------------------------------
(* A step of a handler, seen from the reservations. *)

LEMMA ReservedType ==
  ASSUME NEW label, NEW f, FrameOK(label, f)
  PROVE  Reserved(label, f) \in 0 .. MaxBatch
  BY Naturals DEF Reserved, FrameOK

\* Handler h moves to a label with the local variables f.
Moves(h, label, f) ==
  /\ pc' = [pc EXCEPT ![h] = label]
  /\ frame' = [frame EXCEPT ![h] = f]

LEMMA LocalStep ==
  ASSUME LocalOK, NEW h \in Handlers, NEW label, NEW f, Moves(h, label, f),
         FrameOK(label, f)
  PROVE  /\ LocalOK'
         /\ Reservations \in [Handlers -> 0 .. MaxBatch]
         /\ Reservations[h] = Reserved(pc[h], frame[h])
         /\ Reservations' = [Reservations EXCEPT ![h] = Reserved(label, f)]
<1>1. LocalOK'
  BY DEF LocalOK, Moves, FrameOK
<1>2. \A g \in Handlers : Reserved(pc[g], frame[g]) \in 0 .. MaxBatch
  BY ReservedType DEF LocalOK
<1>3. Reservations \in [Handlers -> 0 .. MaxBatch]
  BY <1>2 DEF Reservations
<1>4. Reservations[h] = Reserved(pc[h], frame[h])
  BY DEF Reservations
<1>5. /\ \A g \in Handlers \ {h} : pc'[g] = pc[g] /\ frame'[g] = frame[g]
      /\ pc'[h] = label /\ frame'[h] = f
  BY DEF LocalOK, Moves
<1>6. Reservations' = [g \in Handlers |-> Reserved(pc'[g], frame'[g])]
  BY DEF Reservations, Reserved
<1>7. Reservations' = [Reservations EXCEPT ![h] = Reserved(label, f)]
  BY <1>5, <1>6 DEF Reservations
<1> QED
  BY <1>1, <1>3, <1>4, <1>7

\* The songs that are added come out of the handler's reservation.
LEMMA HandlerStep ==
  ASSUME Inv, NEW h \in Handlers, NEW label, NEW f, Moves(h, label, f),
         FrameOK(label, f), SharedOK',
         Reserved(label, f) <= Reserved(pc[h], frame[h]),
         Len(queue') + Reserved(label, f) <= Len(queue) + Reserved(pc[h], frame[h])
  PROVE  Inv'
<1> DEFINE R == Reservations
           r == Reserved(label, f)
<1>1. LocalOK' /\ R \in [Handlers -> 0 .. MaxBatch] /\ R[h] = Reserved(pc[h], frame[h])
      /\ R' = [R EXCEPT ![h] = r]
  BY LocalStep DEF Inv
<1>2. r \in 0 .. MaxBatch /\ r \in Nat /\ R[h] \in Nat
  BY <1>1, ReservedType, Naturals
<1>3. Cardinality(Slots(R)) = Cardinality(Slots([R EXCEPT ![h] = r])) + (R[h] - r)
  BY <1>1, <1>2, SlotsRemoved
<1>4. /\ Cardinality(Slots(R)) \in Nat
      /\ Cardinality(Slots([R EXCEPT ![h] = r])) \in Nat
  BY SlotsFinite
<1>5. Len(queue) \in Nat /\ Len(queue') \in Nat
  BY LenProperties DEF Inv, SharedOK, CacheOK
<1>6. Len(queue) + Cardinality(Slots(R)) <= Limit
  BY DEF Inv, Room
<1>7. Len(queue') + r <= Len(queue) + R[h]
  BY <1>1
<1> HIDE DEF R, r
<1>8. Len(queue') + Cardinality(Slots([R EXCEPT ![h] = r])) <= Limit
  BY <1>2, <1>3, <1>4, <1>5, <1>6, <1>7, Naturals
<1>9. Room'
  BY <1>1, <1>8 DEF Room, Limit, Slots, R
<1> QED
  BY <1>1, <1>9 DEF Inv

\* A reservation that is made while the queue is within the limit.
LEMMA ReservingStep ==
  ASSUME Inv, NEW h \in Handlers, NEW label, NEW f, Moves(h, label, f),
         FrameOK(label, f), SharedOK', Len(queue') <= QueueLimit
  PROVE  Inv'
<1>1. LocalOK'
  BY LocalStep DEF Inv
<1>2. Len(queue') \in Nat
  BY LenProperties DEF SharedOK, CacheOK
<1>3. \A R : Cardinality(Slots(R)) \in Nat /\ QueueLimit + Cardinality(Slots(R)) <= Limit
  BY SlotsFinite
<1>4. \A R : Len(queue') + Cardinality(Slots(R)) <= Limit
  BY <1>2, <1>3, Naturals
<1>5. Len(queue') + Cardinality(Slots(Reservations')) <= Limit
  BY <1>4
<1>6. Room'
  BY <1>5 DEF Room, Limit, Slots
<1> QED
  BY <1>1, <1>6 DEF Inv
-----------------------------------------------------------------------------
(* The forms a step takes. *)

LEMMA SharedKept ==
  ASSUME SharedOK, CacheOK', Keep
  PROVE  SharedOK'
  BY DEF SharedOK, Keep

LEMMA SharedSame ==
  ASSUME SharedOK, UNCHANGED cacheVars, Keep
  PROVE  SharedOK' /\ Len(queue') = Len(queue)
  BY SameCache, SharedKept DEF SharedOK

LEMMA LengthType ==
  ASSUME Inv
  PROVE  /\ Len(queue) \in Nat
         /\ SharedOK' => Len(queue') \in Nat
         /\ \A h \in Handlers : /\ FrameOK(pc[h], frame[h])
                                /\ Reserved(pc[h], frame[h]) \in 0 .. MaxBatch
                                /\ Reserved(pc[h], frame[h]) \in Nat
<1>1. \A h \in Handlers : FrameOK(pc[h], frame[h])
  BY DEF Inv, LocalOK
<1>2. \A h \in Handlers : Reserved(pc[h], frame[h]) \in 0 .. MaxBatch
  BY <1>1, ReservedType
<1> QED
  BY <1>1, <1>2, LenProperties, Naturals DEF Inv, SharedOK, CacheOK

LEMMA NoFrameOK == NoFrame \in Frames /\ FrameOK("idle", NoFrame)
<1>1. <<>> \in Seq(Songs)
  OBVIOUS
<1>2. FALSE \in BOOLEAN
  OBVIOUS
<1>3. NoFrame \in Frames
  BY <1>1, <1>2, Naturals DEF NoFrame, Frames
<1> QED
  BY <1>3 DEF FrameOK, Labels, HasSong, AddingMany

\* Labels at which nothing is asked of the local variables and no song is
\* still to be added.
Plain ==
  {"idle", "rollback", "move", "readAutoplay", "turnOn", "turnOff", "removeTracks",
   "next", "replay", "remove", "head", "stop", "clear", "leave"}

LEMMA PlainOK ==
  ASSUME NEW label \in Plain, NEW f \in Frames
  PROVE  FrameOK(label, f) /\ Reserved(label, f) = 0
  BY DEF Plain, FrameOK, Reserved, Labels, HasSong, AddingMany, Adding, Recommending

LEMMA ReturnStep ==
  ASSUME Inv, NEW h \in Handlers, Return(h), SharedOK',
         Len(queue') <= Len(queue) + Reserved(pc[h], frame[h])
  PROVE  Inv'
<1>1. Moves(h, "idle", NoFrame)
  BY DEF Return, Goto, Moves
<1>2. FrameOK("idle", NoFrame) /\ Reserved("idle", NoFrame) = 0
  BY NoFrameOK, PlainOK DEF Plain
<1> QED
  BY <1>1, <1>2, HandlerStep, LengthType

LEMMA GotoMoves ==
  ASSUME Inv, NEW h \in Handlers, NEW label, Goto(h, label), UNCHANGED frame
  PROVE  Moves(h, label, frame[h])
  BY DEF Inv, LocalOK, Goto, Moves

LEMMA PlainStep ==
  ASSUME Inv, NEW h \in Handlers, NEW label \in Plain, Goto(h, label), UNCHANGED frame,
         SharedOK', Len(queue') <= Len(queue) + Reserved(pc[h], frame[h])
  PROVE  Inv'
<1>1. Moves(h, label, frame[h])
  BY GotoMoves
<1>2. FrameOK(label, frame[h]) /\ Reserved(label, frame[h]) = 0
  BY PlainOK DEF Inv, LocalOK
<1> QED
  BY <1>1, <1>2, HandlerStep, LengthType
-----------------------------------------------------------------------------
(* Commands. *)

LEMMA BeginStep ==
  ASSUME Inv, NEW h \in Handlers, NEW label, NEW f, Begin(h, label, f),
         path' \subseteq Songs, FrameOK(label, f),
         Len(queue) <= QueueLimit \/ Reserved(label, f) = 0
  PROVE  Inv'
<1>1. Moves(h, label, f)
  BY DEF Begin, Goto, Moves
<1>2. CacheOK' /\ Len(queue') = Len(queue)
  BY SameCache DEF Begin, Inv, SharedOK
<1>3. requests' \in 0 .. MaxRequests
  BY Naturals DEF Begin, Inv, SharedOK
<1>4. SharedOK'
  BY <1>2, <1>3 DEF Begin, Inv, SharedOK
<1>5. CASE Len(queue) <= QueueLimit
  BY <1>1, <1>2, <1>4, <1>5, ReservingStep
<1>6. CASE Reserved(label, f) = 0
  BY <1>1, <1>2, <1>4, <1>6, HandlerStep, LengthType
<1> QED
  BY <1>5, <1>6

LEMMA SharedPath == Inv => path \subseteq Songs
  BY DEF Inv, SharedOK

LEMMA PlayStep ==
  ASSUME Inv, NEW h \in Handlers, NEW s \in Songs, NEW force \in BOOLEAN, Play(h, s, force)
  PROVE  Inv'
<1> DEFINE f == [NoFrame EXCEPT !.song = s, !.force = force]
<1>1. Begin(h, "lookup", f) /\ Len(queue) <= QueueLimit /\ path' = path \ {s}
  BY DEF Play
<1>2. f \in Frames /\ f.song = s
  BY NoFrameOK DEF Frames
<1> HIDE DEF f
<1>3. FrameOK("lookup", f)
  BY <1>2 DEF FrameOK, Labels, HasSong, AddingMany
<1> QED
  BY <1>1, <1>3, BeginStep, SharedPath

BatchFrame(s, b, n) == [NoFrame EXCEPT !.song = s, !.batch = b, !.total = n]

LEMMA BatchFrameOK ==
  ASSUME NEW s \in Songs, NEW b \in Seq(Songs), NEW n \in 0 .. MaxBatch
  PROVE  /\ BatchFrame(s, b, n) \in Frames
         /\ BatchFrame(s, b, n).song = s /\ BatchFrame(s, b, n).batch = b
  BY NoFrameOK DEF Frames, BatchFrame

LEMMA PlayListStep ==
  ASSUME Inv, NEW h \in Handlers, NEW force \in BOOLEAN, NEW n \in 2 .. MaxBatch,
         NEW songs \in [1 .. n -> Songs], PlayList(h, songs, force)
  PROVE  Inv'
<1> DEFINE f == [NoFrame EXCEPT !.song = songs[1], !.batch = songs, !.total = Len(songs)]
           label == IF force THEN "addEach" ELSE "addAll"
<1>1. songs \in Seq(Songs) /\ Len(songs) = n /\ n \in 1 .. MaxBatch /\ songs[1] \in Songs
  BY Naturals
<1>2. Begin(h, label, f) /\ Len(queue) <= QueueLimit /\ path' = path \ ToSet(songs)
  BY DEF PlayList
<1>3. f \in Frames /\ f.song = songs[1] /\ f.batch = songs
  <2>1. Len(songs) \in 0 .. MaxBatch
    BY <1>1, Naturals
  <2>2. f = BatchFrame(songs[1], songs, Len(songs))
    BY DEF BatchFrame
  <2> HIDE DEF f
  <2> QED
    BY <1>1, <2>1, <2>2, BatchFrameOK
<1>4. label \in AddingMany
  BY DEF AddingMany
<1> HIDE DEF f, label
<1>5. FrameOK(label, f)
  BY <1>1, <1>3, <1>4 DEF FrameOK, Labels, HasSong, AddingMany
<1> QED
  BY <1>2, <1>5, BeginStep, SharedPath

\* The other commands add nothing.
LEMMA PlainBegin ==
  ASSUME Inv, NEW h \in Handlers, NEW label \in Plain, NEW f \in Frames,
         Begin(h, label, f), UNCHANGED path
  PROVE  Inv'
  BY PlainOK, BeginStep, SharedPath

LEMMA LoopStep ==
  ASSUME Inv, NEW h \in Handlers, NEW n \in 0 .. MaxLoop, Loop(h, n)
  PROVE  Inv'
<1> DEFINE f == [NoFrame EXCEPT !.n = n]
<1>1. f \in Frames /\ f.n = n
  BY NoFrameOK, Naturals DEF Frames
<1>2. Begin(h, "setLoop", f) /\ UNCHANGED path
  BY DEF Loop
<1> HIDE DEF f
<1>3. FrameOK("setLoop", f) /\ Reserved("setLoop", f) = 0
  BY <1>1 DEF FrameOK, Reserved, Labels, HasSong, AddingMany, Adding, Recommending
<1> QED
  BY <1>2, <1>3, BeginStep, SharedPath

LEMMA CommandStep ==
  ASSUME Inv, NEW h \in Handlers, Command(h)
  PROVE  Inv'
<1>1. CASE \E s \in Songs, force \in BOOLEAN : Play(h, s, force)
  BY <1>1, PlayStep
<1>2. CASE \E force \in BOOLEAN, n \in 2 .. MaxBatch :
             \E songs \in [1 .. n -> Songs] : PlayList(h, songs, force)
  BY <1>2, PlayListStep
<1>3. CASE SkipCommand(h) \/ StopCommand(h) \/ ToggleAutoplay(h)
  BY <1>3, PlainBegin, NoFrameOK DEF SkipCommand, StopCommand, ToggleAutoplay, Plain
<1>4. CASE \E id \in TrackIDs : PlayNow(h, id)
  <2>1. PICK id \in TrackIDs : PlayNow(h, id)
    BY <1>4
  <2>2. [NoFrame EXCEPT !.id = id] \in Frames
    BY NoFrameOK DEF Frames
  <2> QED
    BY <2>1, <2>2, PlainBegin DEF PlayNow, Plain
<1>5. CASE \E n \in 0 .. MaxLoop : Loop(h, n)
  BY <1>5, LoopStep
<1>6. CASE \E picks \in SUBSET (1 .. Len(queue)) : RemoveCommand(h, picks)
  <2>1. PICK picks \in SUBSET (1 .. Len(queue)) : RemoveCommand(h, picks)
    BY <1>6
  <2>2. picks \subseteq Nat
    BY LengthType
  <2>3. [NoFrame EXCEPT !.picks = picks] \in Frames
    BY <2>2, NoFrameOK DEF Frames
  <2> QED
    BY <2>1, <2>3, PlainBegin DEF RemoveCommand, Plain
<1> QED
  BY <1>1, <1>2, <1>3, <1>4, <1>5, <1>6, Zenon DEF Command
-----------------------------------------------------------------------------
(* The steps of the handlers. *)

LEMMA GotoStep ==
  ASSUME Inv, NEW h \in Handlers, NEW label, Goto(h, label), UNCHANGED frame,
         FrameOK(label, frame[h]), SharedOK',
         Reserved(label, frame[h]) <= Reserved(pc[h], frame[h]),
         Len(queue') + Reserved(label, frame[h]) <= Len(queue) + Reserved(pc[h], frame[h])
  PROVE  Inv'
  BY GotoMoves, HandlerStep

LEMMA LookupStep ==
  ASSUME Inv, NEW h \in Handlers, Lookup(h)
  PROVE  Inv'
<1>1. SharedOK' /\ Len(queue') = Len(queue)
  BY SharedSame DEF Lookup, Inv
<1>2. CASE Return(h)
  BY <1>1, <1>2, ReturnStep, LengthType
<1>3. CASE Goto(h, "enqueue") /\ UNCHANGED frame
  <2>1. FrameOK("lookup", frame[h]) /\ pc[h] = "lookup"
    BY LengthType DEF Lookup, At
  <2>2. FrameOK("enqueue", frame[h])
    BY <2>1 DEF FrameOK, Labels, HasSong, AddingMany
  <2>3. Reserved("enqueue", frame[h]) = 1 /\ Reserved(pc[h], frame[h]) = 1
    BY <2>1 DEF Reserved, Adding
  <2> QED
    BY <1>1, <1>3, <2>2, <2>3, GotoStep, LengthType
<1> QED
  BY <1>2, <1>3 DEF Lookup

LEMMA EnqueueStep ==
  ASSUME Inv, NEW h \in Handlers, Enqueue(h)
  PROVE  Inv'
<1>1. FrameOK("enqueue", frame[h]) /\ pc[h] = "enqueue"
  BY LengthType DEF Enqueue, At
<1>2. frame[h].song \in Songs
  BY <1>1 DEF FrameOK, HasSong
<1>3. CacheOK' /\ Len(queue') = Len(queue) + 1
  BY <1>2, AddSongOK, AddSongToFrontOK DEF Enqueue, Inv, SharedOK
<1>4. SharedOK'
  BY <1>3, SharedKept DEF Enqueue, Inv
<1>5. Reserved(pc[h], frame[h]) = 1
  BY <1>1 DEF Reserved, Adding
<1>6. CASE Return(h)
  BY <1>3, <1>4, <1>5, <1>6, ReturnStep, LengthType
<1>7. CASE Goto(h, "ownDownload") /\ UNCHANGED frame
  <2>1. FrameOK("ownDownload", frame[h])
    BY <1>1, <1>2 DEF FrameOK, Labels, HasSong, AddingMany
  <2>2. Reserved("ownDownload", frame[h]) = 0
    BY DEF Reserved, Adding, Recommending, AddingMany
  <2> QED
    BY <1>3, <1>4, <1>5, <1>7, <2>1, <2>2, GotoStep, LengthType
<1>8. CASE Goto(h, "next") /\ UNCHANGED frame
  BY <1>3, <1>4, <1>5, <1>8, PlainStep, LengthType DEF Plain
<1> QED
  BY <1>6, <1>7, <1>8 DEF Enqueue

LEMMA OwnDownloadStep ==
  ASSUME Inv, NEW h \in Handlers, OwnDownload(h)
  PROVE  Inv'
<1>1. FrameOK("ownDownload", frame[h]) /\ pc[h] = "ownDownload"
  BY LengthType DEF OwnDownload, At
<1>2. frame[h].song \in Songs
  BY <1>1 DEF FrameOK, HasSong
<1>3. CacheOK' /\ Len(queue') = Len(queue)
  BY SameCache DEF OwnDownload, Inv, SharedOK
<1>4. SharedOK'
  BY <1>2, <1>3 DEF OwnDownload, Inv, SharedOK
<1>5. CASE Goto(h, "ownMedia")
  <2>1. FrameOK("ownMedia", frame[h])
    BY <1>1, <1>2 DEF FrameOK, Labels, HasSong, AddingMany
  <2>2. Reserved("ownMedia", frame[h]) = 0
    BY DEF Reserved, Adding, Recommending, AddingMany
  <2> QED
    BY <1>3, <1>4, <1>5, <2>1, <2>2, GotoStep, LengthType DEF OwnDownload
<1>6. CASE Goto(h, "rollback")
  BY <1>3, <1>4, <1>6, PlainStep, LengthType DEF Plain, OwnDownload
<1> QED
  BY <1>5, <1>6 DEF OwnDownload

LEMMA RemovedOrSame ==
  ASSUME Inv, IF Active THEN Cache!RemoveCurrentSong ELSE UNCHANGED cacheVars, Keep
  PROVE  SharedOK' /\ Len(queue') <= Len(queue)
<1>1. CASE Active
  <2>1. CacheOK' /\ Len(queue') = Len(queue) - 1
    BY <1>1, RemoveCurrentSongOK DEF Inv, SharedOK
  <2> QED
    BY <2>1, SharedKept, LengthType DEF Inv
<1>2. CASE ~ Active
  BY <1>2, SharedSame, LengthType DEF Inv
<1> QED
  BY <1>1, <1>2

LEMMA RollbackStep ==
  ASSUME Inv, NEW h \in Handlers, Rollback(h)
  PROVE  Inv'
<1>1. SharedOK' /\ Len(queue') <= Len(queue)
  BY RemovedOrSame DEF Rollback
<1> QED
  BY <1>1, ReturnStep, LengthType DEF Rollback

LEMMA AddAllStep ==
  ASSUME Inv, NEW h \in Handlers, AddAll(h)
  PROVE  Inv'
<1>1. FrameOK("addAll", frame[h]) /\ pc[h] = "addAll"
  BY LengthType DEF AddAll, At
<1>2. /\ frame[h] \in Frames /\ frame[h].batch \in Seq(Songs)
      /\ Len(frame[h].batch) \in Nat /\ frame[h].song \in Songs
  BY <1>1 DEF FrameOK, Frames, HasSong
<1>3. CacheOK' /\ Len(queue') = Len(queue) + Len(frame[h].batch)
  BY <1>2, AddSongsOK DEF AddAll, Inv, SharedOK
<1>4. SharedOK'
  BY <1>3, SharedKept DEF AddAll, Inv
<1>5. Reserved(pc[h], frame[h]) = Len(frame[h].batch)
  BY <1>1 DEF Reserved, Adding, Recommending, AddingMany
<1>6. CASE Return(h)
  BY <1>3, <1>4, <1>5, <1>6, ReturnStep, LengthType
<1>7. CASE Goto(h, "loopFirst") /\ frame' = [frame EXCEPT ![h].batch = <<>>]
  <2> DEFINE f == [frame[h] EXCEPT !.batch = <<>>]
  <2>0. <<>> \in Seq(Songs)
    OBVIOUS
  <2>1. f \in Frames /\ f.song \in Songs
    BY <1>2, <2>0 DEF Frames
  <2>2. Moves(h, "loopFirst", f)
    BY <1>7 DEF Moves, Goto
  <2> HIDE DEF f
  <2>3. FrameOK("loopFirst", f) /\ Reserved("loopFirst", f) = 0
    BY <2>1 DEF FrameOK, Reserved, Labels, HasSong, AddingMany, Adding, Recommending
  <2> QED
    BY <1>2, <1>3, <1>4, <1>5, <2>2, <2>3, HandlerStep, LengthType
<1> QED
  BY <1>6, <1>7 DEF AddAll

LEMMA AddEachStep ==
  ASSUME Inv, NEW h \in Handlers, AddEach(h)
  PROVE  Inv'
<1> DEFINE batch == frame[h].batch
           rest == Front(batch)
           f == [frame[h] EXCEPT !.batch = rest]
<1>1. FrameOK("addEach", frame[h]) /\ pc[h] = "addEach"
  BY LengthType DEF AddEach, At
<1>2. /\ frame[h] \in Frames /\ batch \in Seq(Songs) /\ frame[h].song \in Songs
      /\ Len(batch) \in 1 .. MaxBatch
  BY <1>1 DEF FrameOK, Frames, HasSong, AddingMany
<1>3. Last(batch) \in Songs /\ rest \in Seq(Songs) /\ Len(rest) = Len(batch) - 1
  BY <1>2, LenProperties, Naturals DEF Last, Front
<1>4. CacheOK' /\ Len(queue') = Len(queue) + 1
  BY <1>3, AddSongToFrontOK DEF AddEach, Inv, SharedOK
<1>5. SharedOK'
  BY <1>4, SharedKept DEF AddEach, Inv
<1>6. Reserved(pc[h], frame[h]) = Len(batch)
  BY <1>1 DEF Reserved, Adding, Recommending, AddingMany
<1>7. Len(batch) \in Nat /\ Len(batch) >= 1 /\ Len(batch) <= MaxBatch
  BY <1>2, Naturals
<1>8. CASE Return(h)
  BY <1>4, <1>5, <1>6, <1>7, <1>8, ReturnStep, LengthType
<1>9. CASE /\ ~ Return(h)
           /\ frame' = [frame EXCEPT ![h].batch = rest]
  <2>1. PICK label \in {"addEach", "loopFirst", "next"} :
          Goto(h, label) /\ (label = "addEach" => rest # <<>>)
    BY <1>9 DEF AddEach
  <2>2. f \in Frames /\ f.song \in Songs /\ f.batch = rest
    BY <1>2, <1>3 DEF Frames
  <2>3. Moves(h, label, f)
    BY <1>9, <2>1 DEF Moves, Goto
  <2>4. rest # <<>> => Len(rest) \in 1 .. MaxBatch
    BY <1>3, <1>7, Naturals, EmptySeq
  <2>5. FrameOK(label, f)
    BY <2>1, <2>2, <2>4 DEF FrameOK, Labels, HasSong, AddingMany
  <2>6. Reserved(label, f) <= Len(batch) - 1
    <3>1. CASE label = "addEach"
      BY <1>3, <2>2, <3>1, <1>7 DEF Reserved, Adding, Recommending, AddingMany
    <3>2. CASE label # "addEach"
      BY <2>1, <3>2, <1>7 DEF Reserved, Adding, Recommending, AddingMany
    <3> QED
      BY <3>1, <3>2
  <2>7. Reserved(label, f) \in Nat
    BY <2>5, ReservedType, Naturals
  <2> QED
    BY <1>4, <1>5, <1>6, <1>7, <2>3, <2>5, <2>6, <2>7, HandlerStep, LengthType
<1> QED
  BY <1>8, <1>9 DEF AddEach

LEMMA LoopFirstStep ==
  ASSUME Inv, NEW h \in Handlers, LoopFirst(h)
  PROVE  Inv'
<1>1. loop' \in [Songs -> 0 .. MaxLoop]
  <2>1. loop \in [Songs -> 0 .. MaxLoop] /\ loop' = [loop EXCEPT ![frame[h].song] = 1]
    BY DEF LoopFirst, Inv, SharedOK, CacheOK
  <2>2. 1 \in 0 .. MaxLoop
    BY Naturals
  <2> QED
    BY <2>1, <2>2
<1>2. queue' \in Seq(Songs) /\ history' \in Seq(TrackIDs)
  BY DEF LoopFirst, Inv, SharedOK, CacheOK
<1>3. autoplay' \in BOOLEAN
  BY Zenon DEF LoopFirst, Inv, SharedOK, CacheOK
<1>4. SharedOK'
  BY <1>1, <1>2, <1>3, CacheParts, SharedKept DEF LoopFirst, Inv
<1>5. Len(queue') = Len(queue)
  BY DEF LoopFirst
<1> QED
  BY <1>4, <1>5, PlainStep, LengthType DEF LoopFirst, Plain

LEMMA MoveStep ==
  ASSUME Inv, NEW h \in Handlers, Move(h)
  PROVE  Inv'
<1>1. CASE Cache!MoveTrackToFront(frame[h].id) /\ Goto(h, "next") /\ UNCHANGED frame
  <2>1. CacheOK' /\ Len(queue') = Len(queue)
    BY <1>1, MoveOK DEF Inv, SharedOK
  <2>2. SharedOK'
    BY <2>1, SharedKept DEF Move, Inv
  <2> QED
    BY <1>1, <2>1, <2>2, PlainStep, LengthType DEF Plain
<1>2. CASE Return(h) /\ UNCHANGED cacheVars
  BY <1>2, SharedSame, ReturnStep, LengthType DEF Move, Inv
<1> QED
  BY <1>1, <1>2 DEF Move

LEMMA CountedOrSame ==
  ASSUME Inv, NEW n \in 0 .. MaxLoop, Keep,
         IF Active THEN Cache!SetLoopCount(n) ELSE UNCHANGED cacheVars
  PROVE  SharedOK' /\ Len(queue') = Len(queue)
<1>1. CASE Active
  BY <1>1, SetLoopCountOK, SharedKept DEF Inv, SharedOK
<1>2. CASE ~ Active
  BY <1>2, SharedSame DEF Inv
<1> QED
  BY <1>1, <1>2

LEMMA SetLoopStep ==
  ASSUME Inv, NEW h \in Handlers, SetLoop(h)
  PROVE  Inv'
<1>1. FrameOK("setLoop", frame[h])
  BY LengthType DEF SetLoop, At
<1>2. frame[h].n \in 0 .. MaxLoop
  BY <1>1 DEF FrameOK
<1>3. SharedOK' /\ Len(queue') = Len(queue)
  BY <1>2, CountedOrSame DEF SetLoop
<1> QED
  BY <1>3, ReturnStep, LengthType DEF SetLoop

LEMMA ReadAutoplayStep ==
  ASSUME Inv, NEW h \in Handlers, ReadAutoplay(h)
  PROVE  Inv'
<1>1. SharedOK' /\ Len(queue') = Len(queue)
  BY SharedSame DEF ReadAutoplay, Inv
<1>2. PICK label \in Plain : Goto(h, label)
  BY DEF ReadAutoplay, Plain
<1> QED
  BY <1>1, <1>2, PlainStep, LengthType DEF ReadAutoplay

LEMMA SetAutoplayStep ==
  ASSUME Inv, NEW h \in Handlers, SetAutoplay(h)
  PROVE  Inv'
<1>1. At(h, "turnOn") \in BOOLEAN
  BY DEF At
<1>2. CacheOK' /\ Len(queue') = Len(queue)
  BY <1>1, SetAutoplayOK DEF SetAutoplay, Inv, SharedOK
<1>3. SharedOK'
  BY <1>2, SharedKept DEF SetAutoplay, Inv
<1> QED
  BY <1>2, <1>3, ReturnStep, LengthType DEF SetAutoplay

LEMMA RemoveTracksStep ==
  ASSUME Inv, NEW h \in Handlers, RemoveTracks(h)
  PROVE  Inv'
<1> DEFINE picks == frame[h].picks
           t == CHOOSE m \in picks : \A p \in picks : p <= m
           rest == picks \ {t}
           f == [frame[h] EXCEPT !.picks = rest]
<1>1. pc[h] = "removeTracks" /\ frame[h] \in Frames
  BY LengthType DEF RemoveTracks, At, Inv, LocalOK
<1>2. SharedOK' /\ Len(queue') <= Len(queue)
  <2>1. CASE Cache!RemoveTrack(t + 1)
    <3>1. CacheOK' /\ Len(queue') = Len(queue) - 1
      BY <2>1, RemoveTrackOK DEF Inv, SharedOK
    <3> QED
      BY <3>1, SharedKept, LengthType DEF RemoveTracks, Inv
  <2>2. CASE UNCHANGED cacheVars
    BY <2>2, SharedSame, LengthType DEF RemoveTracks, Inv
  <2> QED
    BY <2>1, <2>2 DEF RemoveTracks
<1>3. CASE Return(h)
  BY <1>2, <1>3, ReturnStep, LengthType
<1>4. CASE frame' = [frame EXCEPT ![h].picks = rest] /\ UNCHANGED pc
  <2>1. f \in Frames
    <3>1. picks \subseteq Nat
      BY <1>1 DEF Frames
    <3>2. rest \subseteq Nat
      BY <3>1
    <3> HIDE DEF rest
    <3> QED
      BY <1>1, <3>2 DEF Frames
  <2>2. Moves(h, "removeTracks", f)
    BY <1>1, <1>4 DEF Moves, Inv, LocalOK
  <2>3. FrameOK("removeTracks", f) /\ Reserved("removeTracks", f) = 0
    BY <2>1, PlainOK DEF Plain
  <2> HIDE DEF f
  <2> QED
    BY <1>2, <2>2, <2>3, HandlerStep, LengthType
<1> QED
  BY <1>3, <1>4 DEF RemoveTracks

LEMMA PlayNextStep ==
  ASSUME Inv, NEW h \in Handlers, PlayNext(h)
  PROVE  Inv'
<1> DEFINE n == IF Active THEN loop[Head(queue)] ELSE 0
           f == [frame[h] EXCEPT !.n = n]
<1>1. SharedOK' /\ Len(queue') = Len(queue)
  BY SharedSame DEF PlayNext, Inv
<1>2. CASE n > 0 /\ Goto(h, "countLoop") /\ frame' = [frame EXCEPT ![h].n = n]
  <2>1. Active
    BY <1>2
  <2>2. Head(queue) \in Songs
    BY <2>1, HeadTailProperties DEF Active, Inv, SharedOK, CacheOK
  <2>3. n \in 0 .. MaxLoop
    BY <2>1, <2>2 DEF Inv, SharedOK, CacheOK
  <2>4. n \in 1 .. MaxLoop /\ n \in Nat
    BY <1>2, <2>3, Naturals
  <2>5. frame[h] \in Frames
    BY DEF Inv, LocalOK
  <2>6. Moves(h, "countLoop", f)
    BY <1>2 DEF Moves, Goto
  <2> HIDE DEF n
  <2>7. f \in Frames /\ f.n = n
    BY <2>4, <2>5 DEF Frames
  <2> HIDE DEF f
  <2>8. FrameOK("countLoop", f) /\ Reserved("countLoop", f) = 0
    BY <2>4, <2>7 DEF FrameOK, Reserved, Labels, HasSong, AddingMany, Adding, Recommending
  <2> QED
    BY <1>1, <2>6, <2>8, HandlerStep, LengthType
<1>3. CASE Goto(h, "remove") /\ UNCHANGED frame
  BY <1>1, <1>3, PlainStep, LengthType DEF Plain
<1> QED
  BY <1>2, <1>3 DEF PlayNext

LEMMA CountLoopStep ==
  ASSUME Inv, NEW h \in Handlers, CountLoop(h)
  PROVE  Inv'
<1>1. FrameOK("countLoop", frame[h])
  BY LengthType DEF CountLoop, At
<1>2. frame[h].n - 1 \in 0 .. MaxLoop
  BY <1>1, Naturals DEF FrameOK
<1>3. SharedOK' /\ Len(queue') = Len(queue)
  BY <1>2, CountedOrSame DEF CountLoop
<1> QED
  BY <1>3, PlainStep, LengthType DEF CountLoop, Plain

\* The current track is announced; without one a handler goes on elsewhere.
LEMMA TakePlayingStep ==
  ASSUME Inv, NEW h \in Handlers, NEW otherwise, TakePlaying(h, otherwise), Active
  PROVE  Inv'
<1> DEFINE f == [frame[h] EXCEPT !.song = Head(queue)]
<1>1. SharedOK' /\ Len(queue') = Len(queue)
  BY SharedSame DEF TakePlaying, Inv
<1>2. Head(queue) \in Songs
  BY HeadTailProperties DEF Active, Inv, SharedOK, CacheOK
<1>3. frame[h] \in Frames
  BY DEF Inv, LocalOK
<1>4. Moves(h, "announce", f)
  BY DEF TakePlaying, Moves, Goto
<1>5. f \in Frames /\ f.song \in Songs
  BY <1>2, <1>3 DEF Frames
<1> HIDE DEF f
<1>6. FrameOK("announce", f) /\ Reserved("announce", f) = 0
  BY <1>5 DEF FrameOK, Reserved, Labels, HasSong, AddingMany, Adding, Recommending
<1> QED
  BY <1>1, <1>4, <1>6, HandlerStep, LengthType

LEMMA ReplayStep ==
  ASSUME Inv, NEW h \in Handlers, Replay(h)
  PROVE  Inv'
<1>1. CASE Active
  BY <1>1, TakePlayingStep DEF Replay
<1>2. CASE ~ Active
  BY <1>2, SharedSame, PlainStep, LengthType DEF Replay, TakePlaying, Plain, Inv
<1> QED
  BY <1>1, <1>2

LEMMA RemoveCurrentStep ==
  ASSUME Inv, NEW h \in Handlers, RemoveCurrent(h)
  PROVE  Inv'
<1>1. SharedOK' /\ Len(queue') <= Len(queue)
  BY RemovedOrSame DEF RemoveCurrent
<1> QED
  BY <1>1, PlainStep, LengthType DEF RemoveCurrent, Plain
-----------------------------------------------------------------------------
(* handleAutoplay: one song is reserved from the moment the queue is found
   empty. *)

LEMMA RecommendingOK ==
  ASSUME NEW label \in Recommending, NEW f \in Frames,
         label \in {"remember", "addPick"} => f.song \in Songs
  PROVE  FrameOK(label, f) /\ Reserved(label, f) = 1
  BY DEF Recommending, FrameOK, Reserved, Labels, HasSong, AddingMany, Adding

\* A step that leaves the chat alone keeps the reservation or gives it up.
LEMMA RecommendingStep ==
  ASSUME Inv, NEW h \in Handlers, pc[h] \in Recommending, UNCHANGED cacheVars, Keep,
         NEW label \in Recommending \cup Plain, NEW f \in Frames, Moves(h, label, f),
         label \in {"remember", "addPick"} => f.song \in Songs
  PROVE  Inv'
<1>1. SharedOK' /\ Len(queue') = Len(queue)
  BY SharedSame DEF Inv
<1>2. Reserved(pc[h], frame[h]) = 1
  BY DEF Reserved, Recommending
<1>3. FrameOK(label, f) /\ Reserved(label, f) \in {0, 1}
  BY RecommendingOK, PlainOK
<1> QED
  BY <1>1, <1>2, <1>3, HandlerStep, LengthType

LEMMA FrameType ==
  ASSUME Inv, NEW h \in Handlers
  PROVE  frame[h] \in Frames
  BY DEF Inv, LocalOK

LEMMA NextSongStep ==
  ASSUME Inv, NEW h \in Handlers, NextSong(h)
  PROVE  Inv'
<1>1. CASE Active
  BY <1>1, TakePlayingStep DEF NextSong
<1>2. CASE ~ Active
  <2>1. SharedOK' /\ queue' = <<>>
    BY <1>2, SharedSame DEF NextSong, TakePlaying, Active, cacheVars, Inv
  <2>2. Len(queue') <= QueueLimit
    BY <2>1, Naturals
  <2>3. Moves(h, "lastID", frame[h])
    BY <1>2, GotoMoves DEF NextSong, TakePlaying
  <2>4. FrameOK("lastID", frame[h])
    BY FrameType, RecommendingOK DEF Recommending
  <2> QED
    BY <2>1, <2>2, <2>3, <2>4, ReservingStep
<1> QED
  BY <1>1, <1>2

LEMMA LastIDStep ==
  ASSUME Inv, NEW h \in Handlers, LastID(h)
  PROVE  Inv'
<1>1. pc[h] \in Recommending /\ UNCHANGED cacheVars /\ Keep
  BY DEF LastID, At, Recommending
<1>2. CASE Goto(h, "stop") /\ UNCHANGED frame
  BY <1>1, <1>2, GotoMoves, FrameType, RecommendingStep DEF Plain
<1>3. CASE /\ history # <<>> /\ Goto(h, "wanted")
           /\ frame' = [frame EXCEPT ![h].id = Last(history)]
  <2> DEFINE f == [frame[h] EXCEPT !.id = Last(history)]
  <2>1. history \in Seq(TrackIDs)
    BY DEF Inv, SharedOK, CacheOK
  <2>2. Last(history) \in TrackIDs
    BY <1>3, <2>1, EmptySeq, LenProperties DEF Last
  <2>3. f \in Frames
    BY <2>2, FrameType DEF Frames
  <2>4. Moves(h, "wanted", f)
    BY <1>3 DEF Moves, Goto
  <2> HIDE DEF f
  <2> QED
    BY <1>1, <2>3, <2>4, RecommendingStep DEF Recommending
<1> QED
  BY <1>2, <1>3 DEF LastID

LEMMA WantedStep ==
  ASSUME Inv, NEW h \in Handlers, Wanted(h)
  PROVE  Inv'
<1>1. pc[h] \in Recommending /\ UNCHANGED cacheVars /\ Keep /\ UNCHANGED frame
  BY DEF Wanted, At, Recommending
<1>2. PICK label \in {"recommend", "stop"} : Goto(h, label)
  BY DEF Wanted
<1>3. Moves(h, label, frame[h])
  BY <1>1, <1>2, GotoMoves
<1> QED
  BY <1>1, <1>3, FrameType, RecommendingStep DEF Recommending, Plain

LEMMA RecommendStep ==
  ASSUME Inv, NEW h \in Handlers, Recommend(h)
  PROVE  Inv'
<1>1. pc[h] \in Recommending /\ UNCHANGED cacheVars /\ Keep
  BY DEF Recommend, At, Recommending
<1>2. CASE Goto(h, "limit") /\ UNCHANGED frame
  BY <1>1, <1>2, GotoMoves, FrameType, RecommendingStep DEF Recommending
<1>3. CASE Goto(h, "mix") /\ frame' = [frame EXCEPT ![h].seen = ToSet(history)]
  <2> DEFINE f == [frame[h] EXCEPT !.seen = ToSet(history)]
  <2>1. history \in Seq(TrackIDs)
    BY DEF Inv, SharedOK, CacheOK
  <2>2. ToSet(history) \subseteq TrackIDs
    BY <2>1 DEF ToSet
  <2>3. f \in Frames
    BY <2>2, FrameType DEF Frames
  <2>4. Moves(h, "mix", f)
    BY <1>3 DEF Moves, Goto
  <2> HIDE DEF f
  <2> QED
    BY <1>1, <2>3, <2>4, RecommendingStep DEF Recommending
<1> QED
  BY <1>2, <1>3 DEF Recommend

LEMMA LimitReachedStep ==
  ASSUME Inv, NEW h \in Handlers, LimitReached(h)
  PROVE  Inv'
<1>1. CacheOK' /\ Len(queue') = Len(queue)
  BY ClearAutoplayHistoryOK DEF LimitReached, Inv, SharedOK
<1>2. SharedOK'
  BY <1>1, SharedKept DEF LimitReached, Inv
<1> QED
  BY <1>1, <1>2, PlainStep, LengthType DEF LimitReached, Plain

LEMMA MixStep ==
  ASSUME Inv, NEW h \in Handlers, Mix(h)
  PROVE  Inv'
<1>1. pc[h] \in Recommending /\ Reserved(pc[h], frame[h]) = 1
  BY DEF Mix, At, Recommending, Reserved
<1>2. CacheOK' /\ Len(queue') = Len(queue)
  BY SameCache DEF Mix, Inv, SharedOK
<1>3. CASE \E s \in Recommended :
             /\ Goto(h, "remember") /\ frame' = [frame EXCEPT ![h].song = s]
             /\ path' = path \ {s}
  <2>1. PICK s \in Recommended :
          /\ Goto(h, "remember") /\ frame' = [frame EXCEPT ![h].song = s]
          /\ path' = path \ {s}
    BY <1>3
  <2> DEFINE f == [frame[h] EXCEPT !.song = s]
  <2>2. s \in Songs
    BY PlayerAssumption
  <2>3. f \in Frames /\ f.song \in Songs
    BY <2>2, FrameType DEF Frames
  <2>4. Moves(h, "remember", f)
    BY <2>1 DEF Moves, Goto
  <2> HIDE DEF f
  <2>5. FrameOK("remember", f) /\ Reserved("remember", f) = 1
    BY <2>3, RecommendingOK DEF Recommending
  <2>6. SharedOK'
    BY <1>2, <2>1 DEF Mix, Inv, SharedOK
  <2> QED
    BY <1>1, <1>2, <2>4, <2>5, <2>6, HandlerStep, LengthType
<1>4. CASE Goto(h, "stop") /\ UNCHANGED <<frame, path>>
  <2>1. UNCHANGED cacheVars /\ Keep
    BY <1>4 DEF Mix, Keep
  <2> QED
    BY <1>1, <1>4, <2>1, GotoMoves, FrameType, RecommendingStep DEF Plain
<1> QED
  BY <1>3, <1>4 DEF Mix

LEMMA RememberPickStep ==
  ASSUME Inv, NEW h \in Handlers, RememberPick(h)
  PROVE  Inv'
<1>1. FrameOK("remember", frame[h]) /\ pc[h] = "remember"
  BY LengthType DEF RememberPick, At
<1>2. frame[h].song \in Songs /\ frame[h] \in Frames
  BY <1>1 DEF FrameOK, HasSong
<1>3. frame[h].id \in TrackIDs \cup {NoID} /\ TrackID[frame[h].song] \in TrackIDs \cup {NoID}
  BY <1>2, PlayerAssumption DEF Frames
<1>4. CacheOK' /\ Len(queue') = Len(queue)
  BY <1>3, AddAutoplayHistoryOK DEF RememberPick, Inv, SharedOK
<1>5. SharedOK'
  BY <1>4, SharedKept DEF RememberPick, Inv
<1>6. FrameOK("addPick", frame[h]) /\ Reserved("addPick", frame[h]) = 1
  BY <1>2, RecommendingOK DEF Recommending
<1>7. Reserved(pc[h], frame[h]) = 1
  BY <1>1 DEF Reserved, Recommending
<1> QED
  BY <1>4, <1>5, <1>6, <1>7, GotoStep, LengthType DEF RememberPick

LEMMA AddPickStep ==
  ASSUME Inv, NEW h \in Handlers, AddPick(h)
  PROVE  Inv'
<1>1. FrameOK("addPick", frame[h]) /\ pc[h] = "addPick"
  BY LengthType DEF AddPick, At
<1>2. frame[h].song \in Songs /\ Reserved(pc[h], frame[h]) = 1
  BY <1>1 DEF FrameOK, HasSong, Reserved, Recommending
<1>3. CacheOK' /\ Len(queue') = Len(queue) + 1
  BY <1>2, AddSongOK DEF AddPick, Inv, SharedOK
<1>4. SharedOK'
  BY <1>3, SharedKept DEF AddPick, Inv
<1>5. FrameOK("announce", frame[h]) /\ Reserved("announce", frame[h]) = 0
  BY <1>1, <1>2 DEF FrameOK, Reserved, Labels, HasSong, AddingMany, Adding, Recommending
<1> QED
  BY <1>2, <1>3, <1>4, <1>5, GotoStep, LengthType DEF AddPick
-----------------------------------------------------------------------------
(* playTrack, PlayMedia, Stop and the events. *)

\* Labels with a track in hand and nothing left to add.
LEMMA TrackOK ==
  ASSUME NEW label \in {"announce", "download", "media", "ownMedia"}, NEW f \in Frames,
         f.song \in Songs
  PROVE  FrameOK(label, f) /\ Reserved(label, f) = 0
  BY DEF FrameOK, Reserved, Labels, HasSong, AddingMany, Adding, Recommending

LEMMA TrackInHand ==
  ASSUME Inv, NEW h \in Handlers, pc[h] \in {"announce", "download", "media", "ownMedia"}
  PROVE  frame[h].song \in Songs
  BY LengthType DEF FrameOK, HasSong

LEMMA AnnounceStep ==
  ASSUME Inv, NEW h \in Handlers, Announce(h)
  PROVE  Inv'
<1>1. SharedOK' /\ Len(queue') = Len(queue)
  BY SharedSame DEF Announce, Inv
<1>2. CASE Return(h)
  BY <1>1, <1>2, ReturnStep, LengthType
<1>3. CASE \E label \in {"media", "download"} :
             Goto(h, label) /\ frame' = [frame EXCEPT ![h].n = 0]
  <2> DEFINE f == [frame[h] EXCEPT !.n = 0]
  <2>1. PICK label \in {"media", "download"} :
          Goto(h, label) /\ frame' = [frame EXCEPT ![h].n = 0]
    BY <1>3
  <2>2. f \in Frames /\ f.song \in Songs
    BY FrameType, TrackInHand DEF Announce, At, Frames
  <2>3. Moves(h, label, f)
    BY <2>1 DEF Moves, Goto
  <2> HIDE DEF f
  <2>4. FrameOK(label, f) /\ Reserved(label, f) = 0
    BY <2>2, TrackOK
  <2> QED
    BY <1>1, <2>3, <2>4, HandlerStep, LengthType
<1> QED
  BY <1>2, <1>3 DEF Announce

LEMMA DownloadStep ==
  ASSUME Inv, NEW h \in Handlers, Download(h)
  PROVE  Inv'
<1>1. frame[h].song \in Songs
  BY TrackInHand DEF Download, At
<1>2. CacheOK' /\ Len(queue') = Len(queue)
  BY SameCache DEF Download, Inv, SharedOK
<1>3. SharedOK'
  BY <1>1, <1>2 DEF Download, Inv, SharedOK
<1>4. CASE Goto(h, "media")
  <2>1. FrameOK("media", frame[h]) /\ Reserved("media", frame[h]) = 0
    BY <1>1, FrameType, TrackOK
  <2> QED
    BY <1>2, <1>3, <1>4, <2>1, GotoStep, LengthType DEF Download
<1>5. CASE Goto(h, "next")
  BY <1>2, <1>3, <1>5, PlainStep, LengthType DEF Download, Plain
<1> QED
  BY <1>4, <1>5 DEF Download

LEMMA MediaStartsStep ==
  ASSUME Inv, NEW h \in Handlers, MediaStarts(h)
  PROVE  Inv'
<1>1. frame[h].song \in Songs
  BY TrackInHand DEF MediaStarts
<1>2. CacheOK' /\ Len(queue') = Len(queue)
  BY SameCache DEF MediaStarts, Inv, SharedOK
<1>3. SharedOK'
  BY <1>1, <1>2 DEF MediaStarts, Inv, SharedOK
<1> QED
  BY <1>2, <1>3, ReturnStep, LengthType DEF MediaStarts

LEMMA MediaFailsStep ==
  ASSUME Inv, NEW h \in Handlers, MediaFails(h)
  PROVE  Inv'
<1>1. frame[h].song \in Songs /\ pc[h] \in {"media", "ownMedia"}
  BY TrackInHand DEF MediaFails
<1>2. CacheOK' /\ Len(queue') <= Len(queue)
  BY ClearChatOK DEF MediaFails, Inv, SharedOK
<1>3. SharedOK'
  BY <1>2 DEF MediaFails, Inv, SharedOK
<1>4. CASE frame' = [frame EXCEPT ![h].n = @ + 1] /\ UNCHANGED pc
  <2> DEFINE f == [frame[h] EXCEPT !.n = @ + 1]
  <2>1. f \in Frames /\ f.song \in Songs
    BY <1>1, FrameType DEF Frames
  <2>2. Moves(h, pc[h], f)
    BY <1>4 DEF Moves, Inv, LocalOK
  <2> HIDE DEF f
  <2>3. FrameOK(pc[h], f) /\ Reserved(pc[h], f) = 0
    BY <1>1, <2>1, TrackOK
  <2> QED
    BY <1>2, <1>3, <2>2, <2>3, HandlerStep, LengthType
<1>5. CASE Goto(h, "rollback") /\ UNCHANGED frame
  BY <1>2, <1>3, <1>5, PlainStep, LengthType DEF Plain
<1>6. CASE Return(h)
  BY <1>2, <1>3, <1>6, ReturnStep, LengthType
<1> QED
  BY <1>4, <1>5, <1>6 DEF MediaFails

LEMMA StopAutoplayStep ==
  ASSUME Inv, NEW h \in Handlers, StopAutoplay(h)
  PROVE  Inv'
<1>1. CacheOK' /\ Len(queue') = Len(queue)
  BY SetAutoplayOK DEF StopAutoplay, Inv, SharedOK
<1>2. SharedOK'
  BY <1>1, SharedKept DEF StopAutoplay, Inv
<1> QED
  BY <1>1, <1>2, PlainStep, LengthType DEF StopAutoplay, Plain

LEMMA StopClearStep ==
  ASSUME Inv, NEW h \in Handlers, StopClear(h)
  PROVE  Inv'
<1>1. CacheOK' /\ Len(queue') <= Len(queue)
  BY ClearChatOK DEF StopClear, Inv, SharedOK
<1>2. SharedOK'
  BY <1>1, SharedKept DEF StopClear, Inv
<1> QED
  BY <1>1, <1>2, PlainStep, LengthType DEF StopClear, Plain

LEMMA StopCallStep ==
  ASSUME Inv, NEW h \in Handlers, StopCall(h)
  PROVE  Inv'
<1>1. CacheOK' /\ Len(queue') = Len(queue)
  BY SameCache DEF StopCall, Inv, SharedOK
<1>2. SharedOK'
  BY <1>1 DEF StopCall, Inv, SharedOK
<1> QED
  BY <1>1, <1>2, ReturnStep, LengthType DEF StopCall

LEMMA StreamEndCallbackStep ==
  ASSUME Inv, NEW h \in Handlers, StreamEndCallback(h)
  PROVE  Inv'
<1>1. CacheOK' /\ Len(queue') = Len(queue)
  BY SameCache DEF StreamEndCallback, Inv, SharedOK
<1>2. SharedOK'
  BY <1>1 DEF StreamEndCallback, Inv, SharedOK
<1> QED
  BY <1>1, <1>2, PlainStep, LengthType DEF StreamEndCallback, Plain

\* Events move no handler.
LEMMA EventStep ==
  ASSUME Inv, SharedOK', Len(queue') <= Len(queue), UNCHANGED <<pc, frame>>
  PROVE  Inv'
<1>1. LocalOK'
  BY DEF Inv, LocalOK, FrameOK
<1>2. Cardinality(Slots(Reservations)) \in Nat /\ Limit \in Nat
  BY SlotsFinite, Naturals
<1>3. Len(queue') + Cardinality(Slots(Reservations)) <= Limit
  BY <1>2, LengthType DEF Inv, Room
<1>4. Room'
  BY <1>3 DEF Room, Reservations, Reserved, Slots, Limit
<1> QED
  BY <1>1, <1>4 DEF Inv

LEMMA EventsStep ==
  ASSUME Inv, StreamEnds \/ VideoChatMessage \/ GroupCallDiscarded
  PROVE  Inv'
<1>1. CASE StreamEnds \/ GroupCallDiscarded
  <2>1. CacheOK' /\ Len(queue') = Len(queue)
    BY <1>1, SameCache DEF StreamEnds, GroupCallDiscarded, Inv, SharedOK
  <2>2. SharedOK'
    BY <1>1, <2>1 DEF StreamEnds, GroupCallDiscarded, Inv, SharedOK
  <2> QED
    BY <1>1, <2>1, <2>2, EventStep, LengthType DEF StreamEnds, GroupCallDiscarded
<1>2. CASE VideoChatMessage
  <2>1. CacheOK' /\ Len(queue') <= Len(queue)
    BY <1>2, ClearChatOK DEF VideoChatMessage, Inv, SharedOK
  <2>2. SharedOK'
    BY <1>2, <2>1 DEF VideoChatMessage, Inv, SharedOK
  <2> QED
    BY <1>2, <2>1, <2>2, EventStep DEF VideoChatMessage
<1> QED
  BY <1>1, <1>2
-----------------------------------------------------------------------------
(* The invariant. *)

LEMMA InitInv == Init => Inv
<1> SUFFICES ASSUME Init PROVE Inv
  OBVIOUS
<1>1. queue = <<>> /\ history = <<>> /\ loop = [s \in Songs |-> 0] /\ autoplay = FALSE
  BY DEF Init, Cache!Init
<1>2. queue \in Seq(Songs) /\ history \in Seq(TrackIDs) /\ Len(queue) = 0
  BY <1>1
<1>3. loop \in [Songs -> 0 .. MaxLoop]
  BY <1>1, Naturals
<1>4. autoplay \in BOOLEAN
  BY <1>1, Zenon
<1>5. CacheOK
  BY <1>2, <1>3, <1>4, Zenon DEF CacheOK
<1>6. SharedOK
  BY <1>5, Naturals DEF SharedOK, Init
<1>7. LocalOK
  BY NoFrameOK DEF LocalOK, Init, Labels
<1>8. QueueLimit + Cardinality(Slots(Reservations)) <= Limit
  BY SlotsFinite
<1>9. Cardinality(Slots(Reservations)) \in Nat
  BY SlotsFinite
<1>10. Room
  BY <1>2, <1>8, <1>9, Naturals DEF Room
<1> QED
  BY <1>6, <1>7, <1>10 DEF Inv

LEMMA HandlerKeepsInv ==
  ASSUME Inv, NEW h \in Handlers, Step(h)
  PROVE  Inv'
<1>1. CASE \/ Lookup(h) \/ Enqueue(h) \/ OwnDownload(h) \/ Rollback(h)
           \/ AddAll(h) \/ AddEach(h) \/ LoopFirst(h)
  BY <1>1, LookupStep, EnqueueStep, OwnDownloadStep, RollbackStep, AddAllStep,
     AddEachStep, LoopFirstStep
<1>2. CASE \/ Move(h) \/ SetLoop(h) \/ ReadAutoplay(h) \/ SetAutoplay(h) \/ RemoveTracks(h)
  BY <1>2, MoveStep, SetLoopStep, ReadAutoplayStep, SetAutoplayStep, RemoveTracksStep
<1>3. CASE \/ PlayNext(h) \/ CountLoop(h) \/ Replay(h) \/ RemoveCurrent(h) \/ NextSong(h)
  BY <1>3, PlayNextStep, CountLoopStep, ReplayStep, RemoveCurrentStep, NextSongStep
<1>4. CASE \/ LastID(h) \/ Wanted(h) \/ Recommend(h) \/ LimitReached(h) \/ Mix(h)
           \/ RememberPick(h) \/ AddPick(h)
  BY <1>4, LastIDStep, WantedStep, RecommendStep, LimitReachedStep, MixStep,
     RememberPickStep, AddPickStep
<1>5. CASE \/ Announce(h) \/ Download(h) \/ MediaStarts(h) \/ MediaFails(h)
           \/ StopAutoplay(h) \/ StopClear(h) \/ StopCall(h)
  BY <1>5, AnnounceStep, DownloadStep, MediaStartsStep, MediaFailsStep,
     StopAutoplayStep, StopClearStep, StopCallStep
<1> QED
  BY <1>1, <1>2, <1>3, <1>4, <1>5 DEF Step

LEMMA StepInv == Inv /\ [Next]_vars => Inv'
<1> SUFFICES ASSUME Inv, [Next]_vars PROVE Inv'
  OBVIOUS
<1>1. ASSUME NEW h \in Handlers, Command(h) \/ StreamEndCallback(h) \/ Step(h)
      PROVE  Inv'
  BY <1>1, CommandStep, StreamEndCallbackStep, HandlerKeepsInv
<1>2. CASE StreamEnds \/ VideoChatMessage \/ GroupCallDiscarded
  BY <1>2, EventsStep
<1>3. CASE UNCHANGED vars
  <2>1. SharedOK' /\ Len(queue') = Len(queue)
    BY <1>3, SharedSame DEF vars, cacheVars, Keep, Inv
  <2> QED
    BY <1>3, <2>1, EventStep, LengthType DEF vars
<1> QED
  BY <1>1, <1>2, <1>3 DEF Next

LEMMA Invariant == Spec => []Inv
  BY InitInv, StepInv, PTL DEF Spec

\* Every variable keeps its type, for any number of handlers: in particular
\* a handler that plays a track has one, and the loop counts that handlers
\* write after reading them stay within the counts users may give.
THEOREM TypeCorrect == Spec => []TypeOK
<1>1. Inv => TypeOK
  <2> SUFFICES ASSUME Inv PROVE TypeOK
    OBVIOUS
  <2>1. Cache!TypeOK
    BY Zenon DEF Inv, SharedOK, CacheOK, Cache!TypeOK
  <2> QED
    BY <2>1, Zenon DEF Inv, SharedOK, LocalOK, TypeOK
<1> QED
  BY <1>1, Invariant, PTL

\* However handlers interleave, the queue overshoots the limit that
\* handlePlay tests before it searches (play.go:73) by at most the songs that
\* the handlers running at one time may add.
THEOREM QueueStaysBounded == Spec => []QueueBounded
<1>1. Inv => QueueBounded
  <2> SUFFICES ASSUME Inv PROVE QueueBounded
    OBVIOUS
  <2>1. Cardinality(Slots(Reservations)) \in Nat
    BY SlotsFinite
  <2>2. Len(queue) <= Limit
    BY <2>1, LengthType, Naturals DEF Inv, Room
  <2> QED
    BY <2>2 DEF QueueBounded, Limit
<1> QED
  BY <1>1, Invariant, PTL
-----------------------------------------------------------------------------
(* One handler at a time, and neither a message, nor a group call, nor the
   video chat itself fails: what is streamed is then what the queue says,
   whenever the handler has nothing left to do about it.  Solo says how far
   the handler has come at each label. *)

\* The labels before the first change of the queue, and after the last one.
Waiting ==
  {"idle", "lookup", "enqueue", "addAll", "move", "setLoop", "readAutoplay",
   "turnOn", "turnOff", "removeTracks"}

\* The labels at which the handler plays the song it found the queue empty for.
Owning == {"ownDownload", "ownMedia", "rollback"}

Playing == {"announce", "download", "media"}

\* The labels at which nothing is known of the queue.
Free == {"loopFirst", "next", "countLoop", "replay", "remove", "head", "stop", "clear"}

Current == IF Active THEN Head(queue) ELSE None

\* The end of a stream that no callback has dealt with yet has left the chat
\* silent, and PlayNext will follow.
Calm == ended = 0 => stream = Current

\* The indexes /remove still has to remove; index 0 is the current track's.
Picked(picks) == picks # {} /\ IsFiniteSet(picks) /\ picks \subseteq Nat \ {0}

Solo(h) ==
  /\ pc[h] \in Waiting => Calm
  /\ pc[h] \in Owning => queue = <<frame[h].song>> /\ (ended = 0 => stream = None)
  /\ pc[h] = "addEach" => frame[h].total <= Len(queue) + Len(frame[h].batch)
  /\ pc[h] \in Playing => Active /\ frame[h].song = Head(queue)
  /\ pc[h] \in Recommending \cup {"leave"} => ~ Active
  /\ pc[h] = "removeTracks" => Picked(frame[h].picks)

\* Nothing that would part the queue from the stream fails.
Reliable == Faults \cap {"send", "call", "videochat"} = {}

LEMMA Lands ==
  ASSUME Inv, NEW h \in Handlers
  PROVE  /\ \A label : Goto(h, label) => pc'[h] = label
         /\ Return(h) => pc'[h] = "idle"
         /\ UNCHANGED frame => frame'[h] = frame[h]
         /\ \A f : frame' = [frame EXCEPT ![h] = f] => frame'[h] = f
  BY DEF Inv, LocalOK, Goto, Return

LEMMA QueueType ==
  ASSUME Inv
  PROVE  queue \in Seq(Songs) /\ Len(queue) \in Nat
  BY LenProperties DEF Inv, SharedOK, CacheOK

LEMMA SoloFree ==
  ASSUME NEW h \in Handlers, pc'[h] \in Free
  PROVE  Solo(h)'
  BY DEF Solo, Free, Waiting, Owning, Playing, Recommending

LEMMA SoloCalm ==
  ASSUME NEW h \in Handlers, pc'[h] \in Waiting \ {"removeTracks"}, Calm'
  PROVE  Solo(h)'
  BY DEF Solo, Waiting, Owning, Playing, Recommending

LEMMA SoloTrack ==
  ASSUME NEW h \in Handlers, pc'[h] \in Playing, Active', frame'[h].song = Head(queue')
  PROVE  Solo(h)'
  BY DEF Solo, Waiting, Owning, Playing, Recommending

LEMMA SoloEmpty ==
  ASSUME NEW h \in Handlers, pc'[h] \in Recommending \cup {"leave"}, ~ Active'
  PROVE  Solo(h)'
  BY DEF Solo, Waiting, Owning, Playing, Recommending

LEMMA CalmSame ==
  ASSUME Calm, UNCHANGED <<queue, stream, ended>>
  PROVE  Calm'
  BY DEF Calm, Current, Active

LEMMA SoloReturn ==
  ASSUME Inv, NEW h \in Handlers, Return(h), Calm'
  PROVE  Solo(h)'
<1>1. pc'[h] = "idle"
  BY Lands
<1> QED
  BY <1>1, SoloCalm DEF Waiting

\* A step to a label at which nothing is known.
LEMMA SoloGoto ==
  ASSUME Inv, NEW h \in Handlers, NEW label \in Free, Goto(h, label)
  PROVE  Solo(h)'
<1>1. pc'[h] = label
  BY Lands
<1> QED
  BY <1>1, SoloFree
-----------------------------------------------------------------------------
(* Commands. *)

LEMMA SoloBegin ==
  ASSUME Inv, NEW h \in Handlers, Solo(h), NEW label, NEW f, Begin(h, label, f)
  PROVE  pc'[h] = label /\ frame'[h] = f /\ Calm'
<1>1. pc'[h] = label /\ frame'[h] = f
  BY Lands DEF Begin
<1>2. Calm
  BY DEF Solo, Begin, At, Waiting
<1> QED
  BY <1>1, <1>2, CalmSame DEF Begin, cacheVars

LEMMA SoloCommand ==
  ASSUME Inv, NEW h \in Handlers, Solo(h), Command(h)
  PROVE  Solo(h)'
<1>1. CASE \E s \in Songs, force \in BOOLEAN : Play(h, s, force)
  <2>1. PICK s \in Songs, force \in BOOLEAN : Play(h, s, force)
    BY <1>1
  <2>2. pc'[h] = "lookup" /\ Calm'
    BY <2>1, SoloBegin DEF Play
  <2> QED
    BY <2>2, SoloCalm DEF Waiting
<1>2. CASE \E force \in BOOLEAN, n \in 2 .. MaxBatch :
             \E songs \in [1 .. n -> Songs] : PlayList(h, songs, force)
  <2>1. PICK force \in BOOLEAN, n \in 2 .. MaxBatch :
          \E songs \in [1 .. n -> Songs] : PlayList(h, songs, force)
    BY <1>2
  <2>2. PICK songs \in [1 .. n -> Songs] : PlayList(h, songs, force)
    BY <2>1
  <2>3. songs \in Seq(Songs) /\ Len(songs) \in Nat
    BY Naturals
  <2>4. PICK f : f = BatchFrame(songs[1], songs, Len(songs))
    OBVIOUS
  <2>5. f.batch = songs /\ f.total = Len(songs)
    BY <2>4 DEF BatchFrame, NoFrame
  <2>6. Begin(h, IF force THEN "addEach" ELSE "addAll", f)
    BY <2>2, <2>4 DEF PlayList, BatchFrame
  <2>7. /\ pc'[h] = (IF force THEN "addEach" ELSE "addAll")
        /\ frame'[h] = f /\ Calm'
    BY <2>6, SoloBegin
  <2>8. CASE force
    <3>1. pc'[h] = "addEach"
      BY <2>7, <2>8
    <3>2. frame'[h].total <= Len(queue') + Len(frame'[h].batch)
      BY <2>3, <2>5, <2>6, <2>7, QueueType DEF Begin, cacheVars
    <3> QED
      BY <3>1, <3>2 DEF Solo, Waiting, Owning, Playing, Recommending
  <2>9. CASE ~ force
    BY <2>7, <2>9, SoloCalm DEF Waiting
  <2> QED
    BY <2>8, <2>9
<1>3. CASE SkipCommand(h)
  <2>1. pc'[h] = "next"
    BY <1>3, SoloBegin DEF SkipCommand
  <2> QED
    BY <2>1, SoloFree DEF Free
<1>4. CASE StopCommand(h)
  <2>1. pc'[h] = "stop"
    BY <1>4, SoloBegin DEF StopCommand
  <2> QED
    BY <2>1, SoloFree DEF Free
<1>5. CASE ToggleAutoplay(h)
  <2>1. pc'[h] = "readAutoplay" /\ Calm'
    BY <1>5, SoloBegin DEF ToggleAutoplay
  <2> QED
    BY <2>1, SoloCalm DEF Waiting
<1>6. CASE \E id \in TrackIDs : PlayNow(h, id)
  <2>1. pc'[h] = "move" /\ Calm'
    BY <1>6, SoloBegin DEF PlayNow
  <2> QED
    BY <2>1, SoloCalm DEF Waiting
<1>7. CASE \E n \in 0 .. MaxLoop : Loop(h, n)
  <2>1. pc'[h] = "setLoop" /\ Calm'
    BY <1>7, SoloBegin DEF Loop
  <2> QED
    BY <2>1, SoloCalm DEF Waiting
<1>8. CASE \E picks \in SUBSET (1 .. Len(queue)) : RemoveCommand(h, picks)
  <2>1. PICK picks \in SUBSET (1 .. Len(queue)) : RemoveCommand(h, picks)
    BY <1>8
  <2>2. PICK f : f = [NoFrame EXCEPT !.picks = picks]
    OBVIOUS
  <2>3. f.picks = picks
    BY <2>2 DEF NoFrame
  <2>4. pc'[h] = "removeTracks" /\ frame'[h] = f /\ Calm'
    BY <2>1, <2>2, SoloBegin DEF RemoveCommand
  <2>5. picks # {}
    BY <2>1 DEF RemoveCommand
  <2>6. picks \subseteq Nat \ {0} /\ IsFiniteSet(picks)
    <3>1. PICK n \in Nat : n = Len(queue)
      BY QueueType
    <3>2. picks \in SUBSET (1 .. n)
      BY <3>1
    <3>3. IsFiniteSet(1 .. n)
      BY FS_Interval
    <3>4. IsFiniteSet(picks)
      BY <3>2, <3>3, FS_Subset
    <3>5. picks \subseteq Nat \ {0}
      BY <3>2
    <3> QED
      BY <3>4, <3>5
  <2>7. Picked(frame'[h].picks)
    BY <2>3, <2>4, <2>5, <2>6 DEF Picked
  <2> QED
    BY <2>4, <2>7 DEF Solo, Waiting, Owning, Playing, Recommending
<1> QED
  BY <1>1, <1>2, <1>3, <1>4, <1>5, <1>6, <1>7, <1>8, Zenon DEF Command
-----------------------------------------------------------------------------
(* The steps of the handlers. *)

LEMMA HeadKept ==
  ASSUME Calm, queue \in Seq(Songs), queue' \in Seq(Songs), queue # <<>>, queue' # <<>>,
         queue'[1] = queue[1], UNCHANGED <<stream, ended>>
  PROVE  Calm'
<1>1. Head(queue) = queue[1] /\ Head(queue') = queue'[1]
  OBVIOUS
<1> QED
  BY <1>1 DEF Calm, Current, Active

LEMMA SoloLookup ==
  ASSUME Inv, NEW h \in Handlers, Solo(h), Lookup(h)
  PROVE  Solo(h)'
<1>1. pc'[h] \in {"idle", "enqueue"}
  BY Lands DEF Lookup
<1>2. Calm
  BY DEF Solo, Lookup, At, Waiting
<1>3. Calm'
  BY <1>2, CalmSame DEF Lookup, cacheVars, Keep
<1> QED
  BY <1>1, <1>3, SoloCalm DEF Waiting

LEMMA SoloEnqueue ==
  ASSUME Inv, NEW h \in Handlers, Solo(h), Enqueue(h)
  PROVE  Solo(h)'
<1>1. frame[h].song \in Songs
  BY LengthType DEF Enqueue, At, FrameOK, HasSong
<1>2. Calm /\ UNCHANGED <<stream, ended>>
  BY DEF Solo, Enqueue, At, Waiting, Keep
<1>3. \/ queue' = Append(queue, frame[h].song)
      \/ queue' = InsertNext(queue, frame[h].song)
  BY SameOperators DEF Enqueue, Cache!AddSong, Cache!AddSongToFront
<1>4. CASE queue = <<>>
  <2>1. queue' = <<frame[h].song>>
    BY <1>3, <1>4 DEF InsertNext
  <2>2. pc'[h] = "ownDownload" /\ frame'[h] = frame[h]
    BY <1>4, Lands DEF Enqueue
  <2>3. ended' = 0 => stream' = None
    BY <1>2, <1>4 DEF Calm, Current, Active
  <2> QED
    BY <2>1, <2>2, <2>3 DEF Solo, Waiting, Owning, Playing, Recommending
<1>5. CASE queue # <<>> /\ frame[h].force
  <2>1. Goto(h, "next")
    BY <1>5 DEF Enqueue
  <2> QED
    BY <2>1, SoloGoto DEF Free
<1>6. CASE queue # <<>> /\ ~ frame[h].force
  <2>1. Return(h) /\ queue' = Append(queue, frame[h].song)
    BY <1>6 DEF Enqueue, Cache!AddSong
  <2>2. /\ queue' \in Seq(Songs) /\ Len(queue') = Len(queue) + 1
        /\ \A i \in 1 .. Len(queue) : queue'[i] = queue[i]
    BY <1>1, <2>1, QueueType, AppendProperties
  <2>3. Len(queue) >= 1
    BY <1>6, QueueType, EmptySeq
  <2>4. queue' # <<>>
    BY <2>2, QueueType
  <2>5. queue'[1] = queue[1]
    BY <2>2, <2>3, QueueType
  <2>6. Calm'
    BY <1>2, <1>6, <2>2, <2>4, <2>5, QueueType, HeadKept
  <2> QED
    BY <2>1, <2>6, SoloReturn
<1> QED
  BY <1>4, <1>5, <1>6

LEMMA SoloOwnDownload ==
  ASSUME Inv, NEW h \in Handlers, Solo(h), OwnDownload(h)
  PROVE  Solo(h)'
<1>1. queue = <<frame[h].song>> /\ (ended = 0 => stream = None)
  BY DEF Solo, OwnDownload, At, Owning
<1>2. pc'[h] \in {"ownMedia", "rollback"} /\ frame'[h] = frame[h]
  BY Lands DEF OwnDownload
<1>3. UNCHANGED <<queue, stream, ended>>
  BY DEF OwnDownload, cacheVars
<1> QED
  BY <1>1, <1>2, <1>3 DEF Solo, Waiting, Owning, Playing, Recommending

LEMMA SoloRollback ==
  ASSUME Inv, NEW h \in Handlers, Solo(h), Rollback(h)
  PROVE  Solo(h)'
<1>1. queue = <<frame[h].song>> /\ (ended = 0 => stream = None)
  BY DEF Solo, Rollback, At, Owning
<1>2. queue' = Tail(queue)
  BY <1>1 DEF Rollback, Active, Cache!RemoveCurrentSong
<1>3. queue' = <<>>
  BY <1>1, <1>2
<1>4. Calm'
  BY <1>1, <1>3 DEF Calm, Current, Active, Rollback, Keep
<1> QED
  BY <1>4, SoloReturn DEF Rollback

LEMMA SoloAddAll ==
  ASSUME Inv, NEW h \in Handlers, Solo(h), AddAll(h)
  PROVE  Solo(h)'
<1>1. frame[h].batch \in Seq(Songs)
  BY FrameType DEF Frames
<1>2. Calm /\ UNCHANGED <<stream, ended>>
  BY DEF Solo, AddAll, At, Waiting, Keep
<1>3. queue' = queue \o frame[h].batch
  BY DEF AddAll, Cache!AddSongs
<1>4. CASE queue = <<>>
  <2>1. Goto(h, "loopFirst")
    BY <1>4 DEF AddAll
  <2> QED
    BY <2>1, SoloGoto DEF Free
<1>5. CASE queue # <<>>
  <2>1. Return(h)
    BY <1>5 DEF AddAll
  <2>2. /\ queue' \in Seq(Songs) /\ Len(queue') = Len(queue) + Len(frame[h].batch)
        /\ \A i \in 1 .. Len(queue) + Len(frame[h].batch) :
             queue'[i] = IF i <= Len(queue) THEN queue[i] ELSE frame[h].batch[i - Len(queue)]
    BY <1>1, <1>3, QueueType, ConcatProperties
  <2>3. Len(queue) >= 1 /\ Len(frame[h].batch) \in Nat
    BY <1>1, <1>5, QueueType, EmptySeq, LenProperties
  <2>4. queue' # <<>>
    BY <2>2, <2>3, QueueType
  <2>5. queue'[1] = queue[1]
    BY <2>2, <2>3, QueueType
  <2>6. Calm'
    BY <1>2, <1>5, <2>2, <2>4, <2>5, QueueType, HeadKept
  <2> QED
    BY <2>1, <2>6, SoloReturn
<1> QED
  BY <1>4, <1>5

\* The queue has grown by the songs that were added, so that the length it
\* had before, computed from it, is never negative.
LEMMA SoloAddEach ==
  ASSUME Inv, NEW h \in Handlers, Solo(h), AddEach(h)
  PROVE  Solo(h)'
<1> DEFINE batch == frame[h].batch
           rest == Front(batch)
           f == [frame[h] EXCEPT !.batch = rest]
<1>1. FrameOK("addEach", frame[h]) /\ pc[h] = "addEach"
  BY LengthType DEF AddEach, At
<1>2. /\ frame[h] \in Frames /\ batch \in Seq(Songs) /\ Len(batch) \in 1 .. MaxBatch
      /\ frame[h].total \in 0 .. MaxBatch
  BY <1>1 DEF FrameOK, Frames, AddingMany
<1>3. Last(batch) \in Songs /\ rest \in Seq(Songs) /\ Len(rest) = Len(batch) - 1
  BY <1>2, LenProperties, Naturals DEF Last, Front
<1>4. Len(queue') = Len(queue) + 1
  BY <1>3, AddSongToFrontOK DEF AddEach, Inv, SharedOK
<1>5. frame[h].total <= Len(queue) + Len(batch)
  BY <1>1 DEF Solo
<1>6. Len(batch) \in Nat /\ frame[h].total \in Nat /\ Len(queue) \in Nat
  BY <1>2, Naturals, QueueType
<1>7. rest = <<>> => Len(rest) = 0
  OBVIOUS
<1> HIDE DEF rest, batch
<1>8. ~ (rest = <<>> /\ Len(queue) + 1 - frame[h].total < 0)
  BY <1>3, <1>5, <1>6, <1>7
<1>9. PICK label \in {"addEach", "loopFirst", "next"} :
        Goto(h, label) /\ frame' = [frame EXCEPT ![h].batch = rest]
  BY <1>8 DEF AddEach, rest, batch
<1>10. CASE label = "addEach"
  <2>1. frame'[h].batch = rest /\ frame'[h].total = frame[h].total
    <3>1. frame' = [frame EXCEPT ![h] = f]
      BY <1>9
    <3>2. frame'[h] = f
      BY <3>1, Lands
    <3> QED
      BY <1>2, <3>2 DEF Frames
  <2>2. pc'[h] = "addEach"
    BY <1>9, <1>10, Lands
  <2>3. frame'[h].total <= Len(queue') + Len(frame'[h].batch)
    BY <1>3, <1>4, <1>5, <1>6, <2>1
  <2> QED
    BY <2>2, <2>3 DEF Solo, Waiting, Owning, Playing, Recommending
<1>11. CASE label # "addEach"
  BY <1>9, <1>11, SoloGoto DEF Free
<1> QED
  BY <1>10, <1>11

LEMMA SoloMove ==
  ASSUME Inv, NEW h \in Handlers, Solo(h), Move(h)
  PROVE  Solo(h)'
<1>1. Calm
  BY DEF Solo, Move, At, Waiting
<1>2. CASE Goto(h, "next")
  BY <1>2, SoloGoto DEF Free
<1>3. CASE Return(h) /\ UNCHANGED cacheVars
  <2>1. Calm'
    BY <1>1, <1>3, CalmSame DEF Move, cacheVars, Keep
  <2> QED
    BY <1>3, <2>1, SoloReturn
<1> QED
  BY <1>2, <1>3 DEF Move

\* Counts and settings leave the queue alone.
LEMMA SoloSetting ==
  ASSUME Inv, NEW h \in Handlers, Solo(h),
         SetLoop(h) \/ ReadAutoplay(h) \/ SetAutoplay(h)
  PROVE  Solo(h)'
<1>1. Calm
  BY DEF Solo, SetLoop, ReadAutoplay, SetAutoplay, At, Waiting
<1>2. UNCHANGED <<queue, stream, ended>>
  BY DEF SetLoop, ReadAutoplay, SetAutoplay, Cache!SetLoopCount, Cache!SetAutoplay,
         cacheVars, Keep
<1>3. pc'[h] \in {"idle", "turnOn", "turnOff"}
  BY Lands DEF SetLoop, ReadAutoplay, SetAutoplay
<1> QED
  BY <1>1, <1>2, <1>3, CalmSame, SoloCalm DEF Waiting

\* The largest of the indexes is a CHOOSE: there is one.  The proof goes down
\* the nonempty sets of numbers without a largest element: a least one of
\* them, taken one element away, has none left to be.
LEMMA LargestExists ==
  ASSUME NEW S, S # {}, IsFiniteSet(S), S \subseteq Nat
  PROVE  \E m \in S : \A p \in S : p <= m
<1> DEFINE Largest(T) == \E m \in T : \A p \in T : p <= m
           Without == {T \in SUBSET S : T # {} /\ ~ Largest(T)}
<1>1. SUFFICES ASSUME Without # {} PROVE FALSE
  BY DEF Without
<1>2. Without \subseteq FiniteSubsetsOf(S)
  BY FS_Subset DEF FiniteSubsetsOf, Without
<1>3. PICK T \in Without : \A U \in Without : <<U, T>> \notin StrictSubsetOrdering(S)
  <2>1. IsWellFoundedOn(StrictSubsetOrdering(S), FiniteSubsetsOf(S))
    BY FS_StrictSubsetOrderingWellFounded
  <2> HIDE DEF Without
  <2> QED
    BY <1>1, <1>2, <2>1, WFMin
<1>4. PICK x : x \in T
  BY DEF Without
<1>5. T \subseteq S /\ ~ Largest(T)
  BY DEF Without
<1>6. T \ {x} \notin Without
  BY <1>3, <1>4, <1>5 DEF StrictSubsetOrdering
<1>7. CASE T \ {x} = {}
  <2>1. \A p \in T : p = x
    BY <1>7
  <2>2. x \in Nat
    BY <1>4, <1>5
  <2> QED
    BY <1>4, <1>5, <2>1, <2>2
<1>8. CASE Largest(T \ {x})
  <2>1. PICK m \in T \ {x} : \A p \in T \ {x} : p <= m
    BY <1>8
  <2>2. x \in Nat /\ m \in Nat /\ \A p \in T : p \in Nat
    BY <1>4, <1>5, <2>1
  <2>3. CASE x <= m
    BY <1>4, <1>5, <2>1, <2>2, <2>3
  <2>4. CASE m < x
    <3>1. \A p \in T : p <= x
      BY <2>1, <2>2, <2>4
    <3> QED
      BY <1>4, <1>5, <3>1
  <2> QED
    BY <2>2, <2>3, <2>4
<1> QED
  BY <1>5, <1>6, <1>7, <1>8 DEF Without

\* The current track is never picked.
LEMMA SoloRemoveTracks ==
  ASSUME Inv, NEW h \in Handlers, Solo(h), RemoveTracks(h)
  PROVE  Solo(h)'
<1>1. PICK picks : picks = frame[h].picks
  OBVIOUS
<1>2. PICK t : t = CHOOSE m \in picks : \A p \in picks : p <= m
  OBVIOUS
<1>3. PICK rest : rest = picks \ {t}
  OBVIOUS
<1>4. /\ IF t + 1 <= Len(queue) THEN Cache!RemoveTrack(t + 1) ELSE UNCHANGED cacheVars
      /\ IF rest = {}
         THEN Return(h)
         ELSE frame' = [frame EXCEPT ![h].picks = rest] /\ UNCHANGED pc
  BY <1>1, <1>2, <1>3, Zenon DEF RemoveTracks
<1>5. pc[h] = "removeTracks" /\ frame[h] \in Frames /\ Calm /\ Picked(picks)
  BY <1>1, FrameType DEF RemoveTracks, At, Solo, Waiting
<1>6. UNCHANGED <<stream, ended>>
  BY DEF RemoveTracks, Keep
<1>7. t \in Nat /\ t >= 1
  <2>1. \E m \in picks : \A p \in picks : p <= m
    BY <1>5, LargestExists DEF Picked
  <2>2. t \in picks
    BY <1>2, <2>1
  <2> QED
    BY <1>5, <2>2 DEF Picked
<1>8. Calm'
  <2>1. CASE t + 1 <= Len(queue)
    <3>1. PICK i : i = t + 1
      OBVIOUS
    <3>2. i \in 1 .. Len(queue) /\ queue' = RemoveAt(queue, i)
      BY <1>4, <2>1, <3>1, SameOperators DEF Cache!RemoveTrack
    <3>3. i > 1 /\ i \in Nat /\ Len(queue) >= 2
      BY <1>7, <2>1, <3>1, QueueType
    <3>4. /\ queue' \in Seq(Songs) /\ Len(queue') = Len(queue) - 1
          /\ \A j \in 1 .. Len(queue) - 1 :
               queue'[j] = IF j < i THEN queue[j] ELSE queue[j + 1]
      BY <3>2, QueueType, RemoveAtElements
    <3>5. queue'[1] = queue[1]
      BY <3>3, <3>4, QueueType
    <3>6. queue # <<>> /\ queue' # <<>>
      BY <3>3, <3>4, QueueType
    <3> QED
      BY <1>5, <1>6, <3>4, <3>5, <3>6, QueueType, HeadKept
  <2>2. CASE ~ (t + 1 <= Len(queue))
    BY <1>4, <1>5, <1>6, <2>2, CalmSame DEF cacheVars
  <2> QED
    BY <2>1, <2>2
<1>9. CASE rest = {}
  BY <1>4, <1>8, <1>9, SoloReturn
<1>10. CASE rest # {}
  <2>1. frame'[h].picks = rest /\ pc'[h] = "removeTracks"
    <3>1. PICK f : f = [frame[h] EXCEPT !.picks = rest]
      OBVIOUS
    <3>2. frame' = [frame EXCEPT ![h] = f] /\ UNCHANGED pc
      BY <1>4, <1>10, <3>1
    <3>3. frame'[h] = f
      BY <3>2, Lands
    <3> QED
      BY <1>5, <3>1, <3>2, <3>3 DEF Frames
  <2>2. Picked(rest)
    BY <1>3, <1>5, <1>10, FS_Subset DEF Picked
  <2> QED
    BY <1>8, <2>1, <2>2 DEF Solo, Waiting, Owning, Playing, Recommending
<1> QED
  BY <1>9, <1>10
-----------------------------------------------------------------------------
(* PlayNext, playTrack and Stop. *)

LEMMA SoloNext ==
  ASSUME Inv, NEW h \in Handlers, PlayNext(h) \/ CountLoop(h) \/ RemoveCurrent(h)
  PROVE  Solo(h)'
<1>1. pc'[h] \in {"countLoop", "remove", "replay", "head"}
  BY Lands DEF PlayNext, CountLoop, RemoveCurrent
<1> QED
  BY <1>1, SoloFree DEF Free

\* The track that is taken is the current one.
LEMMA SoloTake ==
  ASSUME Inv, NEW h \in Handlers, NEW otherwise, TakePlaying(h, otherwise), Active
  PROVE  Solo(h)'
<1>1. UNCHANGED queue
  BY DEF TakePlaying, cacheVars
<1>2. pc'[h] = "announce"
  BY Lands DEF TakePlaying
<1>3. PICK f : f = [frame[h] EXCEPT !.song = Head(queue)]
  OBVIOUS
<1>4. frame' = [frame EXCEPT ![h] = f]
  BY <1>3 DEF TakePlaying
<1>5. frame'[h] = f
  BY <1>4, Lands
<1>6. f.song = Head(queue)
  BY <1>3, FrameType DEF Frames
<1> QED
  BY <1>1, <1>2, <1>5, <1>6, SoloTrack DEF Playing, Active

LEMMA SoloReplay ==
  ASSUME Inv, NEW h \in Handlers, Replay(h)
  PROVE  Solo(h)'
<1>1. CASE Active
  BY <1>1, SoloTake DEF Replay
<1>2. CASE ~ Active
  BY <1>2, SoloGoto DEF Replay, TakePlaying, Free
<1> QED
  BY <1>1, <1>2

LEMMA SoloNextSong ==
  ASSUME Inv, NEW h \in Handlers, NextSong(h)
  PROVE  Solo(h)'
<1>1. CASE Active
  BY <1>1, SoloTake DEF NextSong
<1>2. CASE ~ Active
  <2>1. pc'[h] = "lastID" /\ ~ Active'
    BY <1>2, Lands DEF NextSong, TakePlaying, cacheVars, Active
  <2> QED
    BY <2>1, SoloEmpty DEF Recommending
<1> QED
  BY <1>1, <1>2

\* The queue stays empty until the pick is added.
LEMMA SoloAutoplay ==
  ASSUME Inv, NEW h \in Handlers, Solo(h),
         LastID(h) \/ Wanted(h) \/ Recommend(h) \/ LimitReached(h) \/ Mix(h) \/ RememberPick(h)
  PROVE  Solo(h)'
<1>1. ~ Active
  BY DEF Solo, LastID, Wanted, Recommend, LimitReached, Mix, RememberPick, At, Recommending
<1>2. UNCHANGED queue
  BY DEF LastID, Wanted, Recommend, LimitReached, Mix, RememberPick, cacheVars,
         Cache!ClearAutoplayHistory, Cache!AddAutoplayHistory
<1>3. ~ Active'
  BY <1>1, <1>2 DEF Active
<1>4. pc'[h] \in {"stop", "wanted", "recommend", "limit", "mix", "remember", "addPick"}
  BY Lands DEF LastID, Wanted, Recommend, LimitReached, Mix, RememberPick
<1>5. CASE pc'[h] = "stop"
  BY <1>5, SoloFree DEF Free
<1>6. CASE pc'[h] # "stop"
  BY <1>3, <1>4, <1>6, SoloEmpty DEF Recommending
<1> QED
  BY <1>5, <1>6

LEMMA SoloAddPick ==
  ASSUME Inv, NEW h \in Handlers, Solo(h), AddPick(h)
  PROVE  Solo(h)'
<1>1. queue = <<>>
  BY DEF Solo, AddPick, At, Recommending, Active
<1>2. queue' = Append(queue, frame[h].song)
  BY DEF AddPick, Cache!AddSong
<1>3. queue' = <<frame[h].song>>
  BY <1>1, <1>2
<1>4. pc'[h] = "announce" /\ frame'[h] = frame[h]
  BY Lands DEF AddPick
<1>5. Active' /\ Head(queue') = frame[h].song
  BY <1>3 DEF Active
<1> QED
  BY <1>4, <1>5, SoloTrack DEF Playing

LEMMA SoloAnnounce ==
  ASSUME Inv, Reliable, NEW h \in Handlers, Solo(h), Announce(h)
  PROVE  Solo(h)'
<1>1. Active /\ frame[h].song = Head(queue) /\ UNCHANGED queue
  BY DEF Solo, Announce, At, Playing, cacheVars
<1>2. PICK label \in Playing :
        Goto(h, label) /\ frame' = [frame EXCEPT ![h].n = 0]
  BY DEF Announce, Reliable, Playing
<1>3. pc'[h] = label
  BY <1>2, Lands
<1>4. PICK f : f = [frame[h] EXCEPT !.n = 0]
  OBVIOUS
<1>5. frame' = [frame EXCEPT ![h] = f]
  BY <1>2, <1>4
<1>6. frame'[h] = f
  BY <1>5, Lands
<1>7. f.song = frame[h].song
  BY <1>4, FrameType DEF Frames
<1> QED
  BY <1>1, <1>3, <1>6, <1>7, SoloTrack DEF Active

LEMMA SoloDownload ==
  ASSUME Inv, NEW h \in Handlers, Solo(h), Download(h)
  PROVE  Solo(h)'
<1>1. Active /\ frame[h].song = Head(queue) /\ UNCHANGED queue
  BY DEF Solo, Download, At, Playing, cacheVars
<1>2. CASE Goto(h, "media")
  <2>1. pc'[h] = "media" /\ frame'[h] = frame[h]
    BY <1>2, Lands DEF Download
  <2> QED
    BY <1>1, <2>1, SoloTrack DEF Playing, Active
<1>3. CASE Goto(h, "next")
  BY <1>3, SoloGoto DEF Free
<1> QED
  BY <1>2, <1>3 DEF Download

LEMMA SoloMedia ==
  ASSUME Inv, NEW h \in Handlers, Solo(h), MediaStarts(h)
  PROVE  Solo(h)'
<1>1. Active /\ frame[h].song = Head(queue)
  BY DEF Solo, MediaStarts, Playing, Owning, Active
<1>2. stream' = frame[h].song /\ UNCHANGED queue
  BY DEF MediaStarts, cacheVars
<1>3. Calm'
  BY <1>1, <1>2 DEF Calm, Current, Active
<1> QED
  BY <1>3, SoloReturn DEF MediaStarts

LEMMA SoloStop ==
  ASSUME Inv, Reliable, NEW h \in Handlers, Solo(h),
         StopAutoplay(h) \/ StopClear(h) \/ StopCall(h)
  PROVE  Solo(h)'
<1>1. CASE StopAutoplay(h)
  BY <1>1, SoloGoto DEF StopAutoplay, Free
<1>2. CASE StopClear(h)
  <2>1. pc'[h] = "leave" /\ ~ Active'
    BY <1>2, Lands DEF StopClear, Cache!ClearChat, Active
  <2> QED
    BY <2>1, SoloEmpty
<1>3. CASE StopCall(h)
  <2>1. ~ Active /\ UNCHANGED queue
    BY <1>3 DEF Solo, StopCall, At, cacheVars
  <2>2. stream' = None
    BY <1>3 DEF StopCall, Reliable
  <2>3. Calm'
    BY <2>1, <2>2 DEF Calm, Current, Active
  <2> QED
    BY <1>3, <2>3, SoloReturn DEF StopCall
<1> QED
  BY <1>1, <1>2, <1>3

LEMMA SoloStep ==
  ASSUME Inv, Reliable, NEW h \in Handlers, Solo(h), Step(h)
  PROVE  Solo(h)'
<1>1. CASE \/ Lookup(h) \/ Enqueue(h) \/ OwnDownload(h) \/ Rollback(h)
           \/ AddAll(h) \/ AddEach(h)
  BY <1>1, SoloLookup, SoloEnqueue, SoloOwnDownload, SoloRollback, SoloAddAll, SoloAddEach
<1>2. CASE LoopFirst(h)
  BY <1>2, SoloGoto DEF LoopFirst, Free
<1>3. CASE \/ Move(h) \/ SetLoop(h) \/ ReadAutoplay(h) \/ SetAutoplay(h) \/ RemoveTracks(h)
  BY <1>3, SoloMove, SoloSetting, SoloRemoveTracks
<1>4. CASE \/ PlayNext(h) \/ CountLoop(h) \/ Replay(h) \/ RemoveCurrent(h) \/ NextSong(h)
  BY <1>4, SoloNext, SoloReplay, SoloNextSong
<1>5. CASE \/ LastID(h) \/ Wanted(h) \/ Recommend(h) \/ LimitReached(h) \/ Mix(h)
           \/ RememberPick(h) \/ AddPick(h)
  BY <1>5, SoloAutoplay, SoloAddPick
<1>6. CASE \/ Announce(h) \/ Download(h) \/ MediaStarts(h)
           \/ StopAutoplay(h) \/ StopClear(h) \/ StopCall(h)
  BY <1>6, SoloAnnounce, SoloDownload, SoloMedia, SoloStop
<1>7. ~ MediaFails(h)
  BY DEF MediaFails, Reliable
<1> QED
  BY <1>1, <1>2, <1>3, <1>4, <1>5, <1>6, <1>7, Zenon DEF Step

\* With one handler nobody else moves between its steps, but the stream ends.
LEMMA SoloInvariant ==
  ASSUME NEW h, Handlers = {h}, Reliable
  PROVE  Inv /\ Solo(h) /\ [Next]_vars => Solo(h)'
<1> SUFFICES ASSUME Inv, Solo(h), [Next]_vars PROVE Solo(h)'
  OBVIOUS
<1>1. h \in Handlers
  OBVIOUS
<1>2. CASE Command(h)
  BY <1>1, <1>2, SoloCommand
<1>3. CASE Step(h)
  BY <1>1, <1>3, SoloStep
<1>4. CASE StreamEndCallback(h)
  BY <1>1, <1>4, SoloGoto DEF StreamEndCallback, Free
<1>5. CASE StreamEnds
  <2>1. UNCHANGED <<queue, pc, frame>> /\ ended' = ended + 1 /\ ended \in Nat
    BY <1>5 DEF StreamEnds, cacheVars, Inv, SharedOK
  <2>2. ended' # 0
    BY <2>1
  <2> QED
    BY <2>1, <2>2 DEF Solo, Calm, Active
<1>6. CASE UNCHANGED vars
  BY <1>6 DEF vars, Solo, Calm, Current, Active
<1>7. ~ VideoChatMessage /\ ~ GroupCallDiscarded
  BY DEF VideoChatMessage, GroupCallDiscarded, Reliable
<1>8. (\E g \in Handlers : Command(g) \/ StreamEndCallback(g) \/ Step(g))
        => Command(h) \/ StreamEndCallback(h) \/ Step(h)
  OBVIOUS
<1> QED
  BY <1>2, <1>3, <1>4, <1>5, <1>6, <1>7, <1>8, Zenon DEF Next

LEMMA SoloHolds ==
  ASSUME NEW h, Handlers = {h}, Reliable
  PROVE  Spec => [](Inv /\ Solo(h))
<1>1. Init => Solo(h)
  <2> SUFFICES ASSUME Init PROVE Solo(h)
    OBVIOUS
  <2>1. pc[h] = "idle" /\ queue = <<>> /\ stream = None
    BY DEF Init, Cache!Init
  <2> QED
    BY <2>1 DEF Solo, Calm, Current, Active, Waiting, Owning, Playing, Recommending
<1>2. Inv /\ Solo(h) /\ [Next]_vars => Inv' /\ Solo(h)'
  BY StepInv, SoloInvariant
<1> QED
  BY <1>1, <1>2, InitInv, PTL DEF Spec

\* When the handlers run one at a time and neither a message nor a call
\* fails, GetPlayingTrack (player_cache.go:131) is the track that is streamed
\* whenever they have returned, whatever downloads and recommendations fail.
THEOREM HeadStaysPlaying ==
  ASSUME NEW h, Handlers = {h}, Reliable
  PROVE  Spec => []HeadIsPlaying
<1>1. Solo(h) => HeadIsPlaying
  BY DEF Solo, Calm, Current, HeadIsPlaying, Quiet, At, Waiting
<1> QED
  BY <1>1, SoloHolds, PTL

\* Under the same conditions nothing is streamed to a chat that /skip and
\* /stop take for one without a stream (skip.go:25, stop.go:26).
THEOREM InactiveStaysSilent ==
  ASSUME NEW h, Handlers = {h}, Reliable
  PROVE  Spec => []InactiveIsSilent
<1>1. Solo(h) => InactiveIsSilent
  BY DEF Solo, Calm, Current, InactiveIsSilent, Quiet, At, Waiting
<1> QED
  BY <1>1, SoloHolds, PTL
-----------------------------------------------------------------------------
(* Autoplay, one handler at a time.  Only AddPick adds a recommended track,
   to an empty queue, so that only the first track of a queue is one; until
   the queue is played on the history stays what it was when the pick was
   made, and handleAutoplay has compared its length with the limit. *)

\* A chat that is cleared between the look at the history and the pick has
\* its history built anew from the last track and the pick.
CalmChat == AutoPlayLimit # 1 \/ "videochat" \notin Faults

OnlyHead == \A i \in 2 .. Len(queue) : queue[i] \notin Recommended

HeadLimited ==
  (queue # <<>> /\ queue[1] \in Recommended) => Len(history) <= AutoPlayLimit

Asked(h) ==
  /\ pc[h] \in Adding => frame[h].song \notin Recommended
  /\ pc[h] \in AddingMany =>
       \A i \in 1 .. Len(frame[h].batch) : frame[h].batch[i] \notin Recommended

Picking(h) ==
  /\ pc[h] \in Recommending => queue = <<>>
  /\ pc[h] \in {"wanted", "recommend", "mix", "remember"} =>
       Contains(history, frame[h].id) \/ (history = <<>> /\ AutoPlayLimit # 1)
  /\ pc[h] \in {"mix", "remember"} => Len(history) < AutoPlayLimit
  /\ pc[h] = "addPick" => Len(history) <= AutoPlayLimit

Limited(h) == OnlyHead /\ HeadLimited /\ Asked(h) /\ Picking(h)

LEMMA HistoryType ==
  ASSUME Inv
  PROVE  history \in Seq(TrackIDs) /\ Len(history) \in Nat
  BY LenProperties DEF Inv, SharedOK, CacheOK

\* The queue is left alone or cleared; the history too.
LEMMA QueueOrNothing ==
  ASSUME Inv, OnlyHead, HeadLimited, queue' = queue \/ queue' = <<>>,
         history' = history \/ history' = <<>>
  PROVE  OnlyHead' /\ HeadLimited'
<1>1. OnlyHead'
  BY QueueType DEF OnlyHead
<1>2. Len(history') <= Len(history)
  BY HistoryType
<1>3. AutoPlayLimit \in Nat /\ Len(history) \in Nat /\ Len(history') \in Nat
  BY HistoryType, Naturals
<1>4. HeadLimited'
  BY <1>2, <1>3 DEF HeadLimited
<1> QED
  BY <1>1, <1>4

\* A track that users have asked for is appended.
LEMMA AppendLimited ==
  ASSUME Inv, OnlyHead, HeadLimited, NEW s \in Songs, s \notin Recommended,
         Cache!AddSong(s)
  PROVE  OnlyHead' /\ HeadLimited'
<1>1. queue' = Append(queue, s) /\ history' = <<>>
  BY DEF Cache!AddSong
<1>2. /\ Len(queue') = Len(queue) + 1
      /\ \A i \in 1 .. Len(queue) : queue'[i] = queue[i]
      /\ queue'[Len(queue) + 1] = s
  BY <1>1, QueueType, AppendProperties
<1>3. OnlyHead'
  BY <1>2, QueueType DEF OnlyHead
<1>4. Len(history') = 0
  BY <1>1
<1> QED
  BY <1>3, <1>4, Naturals DEF HeadLimited

LEMMA InsertedBehind ==
  ASSUME NEW q \in Seq(Songs), NEW s \in Songs, q # <<>>
  PROVE  \A j \in 1 .. Len(q) + 1 :
           InsertNext(q, s)[j] = IF j < 2 THEN q[j] ELSE IF j = 2 THEN s ELSE q[j - 1]
  BY InsertNextElements

LEMMA InsertLimited ==
  ASSUME Inv, OnlyHead, HeadLimited, NEW s \in Songs, s \notin Recommended,
         Cache!AddSongToFront(s)
  PROVE  OnlyHead' /\ HeadLimited'
<1>1. queue' = InsertNext(queue, s) /\ history' = history
  BY SameOperators DEF Cache!AddSongToFront
<1>2. /\ Len(queue') = Len(queue) + 1
      /\ queue = <<>> => queue'[1] = s
      /\ queue # <<>> => \A j \in 1 .. Len(queue) + 1 :
           queue'[j] = IF j < 2 THEN queue[j] ELSE IF j = 2 THEN s ELSE queue[j - 1]
  <2>1. Len(queue') = Len(queue) + 1
    BY <1>1, QueueType, InsertNextElements
  <2>2. CASE queue = <<>>
    <3>1. queue' = <<s>>
      BY <1>1, <2>2 DEF InsertNext
    <3> QED
      BY <2>1, <2>2, <3>1
  <2>3. CASE queue # <<>>
    <3>1. \A j \in 1 .. Len(queue) + 1 :
            InsertNext(queue, s)[j]
              = IF j < 2 THEN queue[j] ELSE IF j = 2 THEN s ELSE queue[j - 1]
      BY <2>3, QueueType, InsertedBehind
    <3> QED
      BY <1>1, <2>1, <2>3, <3>1
  <2> QED
    BY <2>2, <2>3
<1>3. CASE queue = <<>>
  <2>1. Len(queue') = 1
    BY <1>2, <1>3
  <2>2. OnlyHead'
    BY <2>1 DEF OnlyHead
  <2> QED
    BY <1>2, <1>3, <2>2 DEF HeadLimited
<1>4. CASE queue # <<>>
  <2>1. \A j \in 2 .. Len(queue) + 1 : j = 2 \/ j - 1 \in 2 .. Len(queue)
    BY QueueType
  <2>2. ASSUME NEW j \in 2 .. Len(queue')
        PROVE  queue'[j] \notin Recommended
    <3>1. j \in 2 .. Len(queue) + 1 /\ j \in 1 .. Len(queue) + 1
      BY <1>2, QueueType
    <3>2. queue'[j] = IF j = 2 THEN s ELSE queue[j - 1]
      BY <1>2, <1>4, <3>1
    <3> QED
      BY <2>1, <3>1, <3>2 DEF OnlyHead
  <2>3. Len(queue) >= 1 /\ 1 \in 1 .. Len(queue) + 1
    BY <1>4, QueueType, EmptySeq
  <2>4. queue'[1] = queue[1]
    BY <1>2, <1>4, <2>3
  <2> QED
    BY <1>1, <1>4, <2>2, <2>4 DEF OnlyHead, HeadLimited
<1> QED
  BY <1>3, <1>4

LEMMA ConcatLimited ==
  ASSUME Inv, OnlyHead, HeadLimited, NEW t \in Seq(Songs), Cache!AddSongs(t),
         \A i \in 1 .. Len(t) : t[i] \notin Recommended
  PROVE  OnlyHead' /\ HeadLimited'
<1>1. queue' = queue \o t /\ history' = history
  BY DEF Cache!AddSongs
<1>2. /\ Len(queue') = Len(queue) + Len(t)
      /\ \A i \in 1 .. Len(queue) + Len(t) :
           queue'[i] = IF i <= Len(queue) THEN queue[i] ELSE t[i - Len(queue)]
  BY <1>1, QueueType, ConcatProperties
<1>3. Len(t) \in Nat /\ Len(queue) \in Nat
  BY QueueType, LenProperties
<1>4. ASSUME NEW j \in 1 .. Len(queue'), j > Len(queue)
      PROVE  queue'[j] \notin Recommended
  <2>1. j \in 1 .. Len(queue) + Len(t) /\ ~ (j <= Len(queue))
    BY <1>2, <1>3, <1>4
  <2>2. queue'[j] = t[j - Len(queue)]
    BY <1>2, <2>1
  <2>3. j - Len(queue) \in 1 .. Len(t)
    BY <1>3, <2>1
  <2> QED
    BY <2>2, <2>3
<1>5. \A j \in 1 .. Len(queue) : queue'[j] = queue[j]
  BY <1>2, <1>3
<1>6. ASSUME NEW j \in 2 .. Len(queue')
      PROVE  queue'[j] \notin Recommended
  <2>1. CASE j <= Len(queue)
    BY <1>3, <1>5, <2>1 DEF OnlyHead
  <2>2. CASE j > Len(queue)
    BY <1>2, <1>3, <1>4, <2>2
  <2> QED
    BY <1>3, <2>1, <2>2
<1>7. HeadLimited'
  <2>1. CASE queue = <<>>
    <3>1. Len(queue) = 0
      BY <2>1
    <3>2. queue' # <<>> => Len(queue') >= 1
      BY <1>2, <1>3, <1>1, QueueType, EmptySeq, ConcatProperties
    <3> QED
      BY <1>2, <1>3, <1>4, <3>1, <3>2 DEF HeadLimited
  <2>2. CASE queue # <<>>
    <3>1. 1 \in 1 .. Len(queue)
      BY <2>2, QueueType, EmptySeq
    <3> QED
      BY <1>1, <1>5, <2>2, <3>1 DEF HeadLimited
  <2> QED
    BY <2>1, <2>2
<1> QED
  BY <1>6, <1>7 DEF OnlyHead

\* The track that follows the current one is none that autoplay has picked.
LEMMA RemoveLimited ==
  ASSUME Inv, OnlyHead, HeadLimited, Cache!RemoveCurrentSong
  PROVE  OnlyHead' /\ HeadLimited'
<1>1. queue # <<>> /\ queue' = Tail(queue)
  BY DEF Cache!RemoveCurrentSong
<1>2. /\ queue' \in Seq(Songs) /\ Len(queue') = Len(queue) - 1
      /\ \A i \in 1 .. Len(queue') : queue'[i] = queue[i + 1]
  BY <1>1, QueueType, HeadTailProperties
<1>3. \A i \in 1 .. Len(queue') : queue'[i] \notin Recommended
  BY <1>2, QueueType DEF OnlyHead
<1>4. Len(queue') \in Nat /\ (queue' # <<>> => Len(queue') >= 1)
  BY <1>2, EmptySeq, LenProperties
<1> QED
  BY <1>3, <1>4 DEF OnlyHead, HeadLimited

LEMMA RemoveTrackLimited ==
  ASSUME Inv, OnlyHead, HeadLimited, NEW i, Cache!RemoveTrack(i)
  PROVE  OnlyHead' /\ HeadLimited'
<1>1. i \in 1 .. Len(queue) /\ queue' = RemoveAt(queue, i) /\ history' = history
  BY SameOperators DEF Cache!RemoveTrack
<1>2. /\ queue' \in Seq(Songs) /\ Len(queue') = Len(queue) - 1
      /\ \A j \in 1 .. Len(queue) - 1 :
           queue'[j] = IF j < i THEN queue[j] ELSE queue[j + 1]
  BY <1>1, QueueType, RemoveAtElements
<1>3. \A j \in 2 .. Len(queue) : queue[j] \notin Recommended
  BY DEF OnlyHead
<1>4. ASSUME NEW j \in 1 .. Len(queue) - 1
      PROVE  /\ j >= 2 => queue'[j] \notin Recommended
             /\ queue'[j] = queue[j] \/ queue'[j] \notin Recommended
  <2>1. j + 1 \in 2 .. Len(queue) /\ (j >= 2 => j \in 2 .. Len(queue))
    BY QueueType
  <2> QED
    BY <1>2, <1>3, <2>1
<1>5. Len(queue') \in Nat /\ (queue' # <<>> => Len(queue') >= 1)
  BY <1>2, EmptySeq, LenProperties
<1>6. OnlyHead'
  BY <1>2, <1>4, <1>5, QueueType DEF OnlyHead
<1>7. HeadLimited'
  <2>1. CASE queue' = <<>>
    BY <2>1 DEF HeadLimited
  <2>2. CASE queue' # <<>>
    <3>1. 1 \in 1 .. Len(queue) - 1
      BY <1>2, <1>5, <2>2, QueueType
    <3>2. queue'[1] = queue[1] \/ queue'[1] \notin Recommended
      BY <1>4, <3>1
    <3>3. queue # <<>>
      BY <3>1
    <3> QED
      BY <1>1, <3>2, <3>3 DEF HeadLimited
  <2> QED
    BY <2>1, <2>2
<1> QED
  BY <1>6, <1>7

LEMMA MoveLimited ==
  ASSUME Inv, OnlyHead, HeadLimited, NEW id, Cache!MoveTrackToFront(id)
  PROVE  OnlyHead' /\ HeadLimited'
<1>1. PICK i \in 2 .. Len(queue) : queue' = MoveNext(queue, i) /\ history' = history
  BY SameOperators DEF Cache!MoveTrackToFront
<1>2. /\ Len(queue') = Len(queue)
      /\ \A j \in 1 .. Len(queue) :
           queue'[j] = IF j = 2 THEN queue[i]
                       ELSE IF j \in 3 .. i THEN queue[j - 1] ELSE queue[j]
  BY <1>1, QueueType, MoveNextElements
<1>3. \A j \in 2 .. Len(queue) : queue[j] \notin Recommended
  BY DEF OnlyHead
<1>4. ASSUME NEW j \in 2 .. Len(queue)
      PROVE  queue'[j] \notin Recommended
  <2>1. j \in 1 .. Len(queue) /\ (j \in 3 .. i => j - 1 \in 2 .. Len(queue))
    BY QueueType
  <2> QED
    BY <1>2, <1>3, <2>1
<1>5. queue # <<>> /\ 1 \in 1 .. Len(queue)
  BY QueueType
<1>6. queue'[1] = queue[1]
  BY <1>2, <1>5
<1> QED
  BY <1>1, <1>2, <1>4, <1>5, <1>6 DEF OnlyHead, HeadLimited
-----------------------------------------------------------------------------
(* The steps of the handler. *)

\* Labels at which no track is still to be added.
LEMMA NothingInHand ==
  ASSUME NEW h \in Handlers, pc'[h] \notin Adding \cup AddingMany \cup Recommending
  PROVE  Asked(h)' /\ Picking(h)'
  BY DEF Asked, Picking, Recommending

LEMMA OnlyAsked ==
  ASSUME NEW h \in Handlers, pc'[h] \notin Recommending, Asked(h)'
  PROVE  Picking(h)'
  BY DEF Picking, Recommending

LEMMA NotAsked ==
  ASSUME NEW h \in Handlers, pc'[h] \in Recommending
  PROVE  Asked(h)'
  BY DEF Asked, Adding, AddingMany, Recommending

\* A command leaves the chat's entry alone.
LEMMA LimitedBegin ==
  ASSUME Inv, NEW h \in Handlers, Limited(h), NEW label, NEW f, Begin(h, label, f)
  PROVE  /\ pc'[h] = label /\ frame'[h] = f
         /\ OnlyHead' /\ HeadLimited'
<1>1. pc'[h] = label /\ frame'[h] = f
  BY Lands DEF Begin
<1>2. OnlyHead' /\ HeadLimited'
  BY QueueOrNothing DEF Begin, cacheVars, Limited
<1> QED
  BY <1>1, <1>2

LEMMA LimitedCommand ==
  ASSUME Inv, NEW h \in Handlers, Limited(h), Command(h)
  PROVE  Limited(h)'
<1>1. CASE \E s \in Songs, force \in BOOLEAN : Play(h, s, force)
  <2>1. PICK s \in Songs, force \in BOOLEAN : Play(h, s, force)
    BY <1>1
  <2>2. PICK f : f = [NoFrame EXCEPT !.song = s, !.force = force]
    OBVIOUS
  <2>3. f.song = s
    BY <2>2 DEF NoFrame
  <2>4. pc'[h] = "lookup" /\ frame'[h] = f /\ OnlyHead' /\ HeadLimited'
    BY <2>1, <2>2, LimitedBegin DEF Play
  <2>5. Asked(h)'
    BY <2>1, <2>3, <2>4 DEF Asked, Play, AddingMany
  <2> QED
    BY <2>4, <2>5, OnlyAsked DEF Limited, Recommending
<1>2. CASE \E force \in BOOLEAN, n \in 2 .. MaxBatch :
             \E songs \in [1 .. n -> Songs] : PlayList(h, songs, force)
  <2>1. PICK force \in BOOLEAN, n \in 2 .. MaxBatch :
          \E songs \in [1 .. n -> Songs] : PlayList(h, songs, force)
    BY <1>2
  <2>2. PICK songs \in [1 .. n -> Songs] : PlayList(h, songs, force)
    BY <2>1
  <2>3. PICK f : f = BatchFrame(songs[1], songs, Len(songs))
    OBVIOUS
  <2>4. f.batch = songs
    BY <2>3 DEF BatchFrame, NoFrame
  <2>5. Begin(h, IF force THEN "addEach" ELSE "addAll", f)
    BY <2>2, <2>3 DEF PlayList, BatchFrame
  <2>6. /\ pc'[h] = (IF force THEN "addEach" ELSE "addAll")
        /\ frame'[h] = f /\ OnlyHead' /\ HeadLimited'
    BY <2>5, LimitedBegin
  <2>7. \A i \in 1 .. Len(songs) : songs[i] \notin Recommended
    BY <2>2 DEF PlayList
  <2>8. pc'[h] \in AddingMany /\ pc'[h] \notin Adding \cup Recommending
    BY <2>6 DEF AddingMany, Adding, Recommending
  <2>9. Asked(h)'
    BY <2>4, <2>6, <2>7, <2>8 DEF Asked
  <2> QED
    BY <2>6, <2>8, <2>9, OnlyAsked DEF Limited
<1>3. CASE SkipCommand(h) \/ StopCommand(h) \/ ToggleAutoplay(h)
  <2>1. /\ pc'[h] \in {"next", "stop", "readAutoplay"}
        /\ OnlyHead' /\ HeadLimited'
    BY <1>3, LimitedBegin DEF SkipCommand, StopCommand, ToggleAutoplay
  <2> QED
    BY <2>1, NothingInHand DEF Limited, Adding, AddingMany, Recommending
<1>4. CASE \E id \in TrackIDs : PlayNow(h, id)
  <2>1. pc'[h] = "move" /\ OnlyHead' /\ HeadLimited'
    BY <1>4, LimitedBegin DEF PlayNow
  <2> QED
    BY <2>1, NothingInHand DEF Limited, Adding, AddingMany, Recommending
<1>5. CASE \E n \in 0 .. MaxLoop : Loop(h, n)
  <2>1. pc'[h] = "setLoop" /\ OnlyHead' /\ HeadLimited'
    BY <1>5, LimitedBegin DEF Loop
  <2> QED
    BY <2>1, NothingInHand DEF Limited, Adding, AddingMany, Recommending
<1>6. CASE \E picks \in SUBSET (1 .. Len(queue)) : RemoveCommand(h, picks)
  <2>1. pc'[h] = "removeTracks" /\ OnlyHead' /\ HeadLimited'
    BY <1>6, LimitedBegin DEF RemoveCommand
  <2> QED
    BY <2>1, NothingInHand DEF Limited, Adding, AddingMany, Recommending
<1> QED
  BY <1>1, <1>2, <1>3, <1>4, <1>5, <1>6, Zenon DEF Command

\* Steps after which no track is still to be added, and which only leave the
\* chat's entry alone or clear it.
LEMMA LimitedPlain ==
  ASSUME Inv, NEW h \in Handlers, Limited(h),
         \/ OwnDownload(h) \/ LoopFirst(h) \/ SetLoop(h) \/ ReadAutoplay(h)
         \/ SetAutoplay(h) \/ PlayNext(h) \/ CountLoop(h) \/ Replay(h)
         \/ Announce(h) \/ Download(h) \/ MediaStarts(h)
         \/ StopAutoplay(h) \/ StopClear(h) \/ StopCall(h) \/ StreamEndCallback(h)
  PROVE  Limited(h)'
<1>1. queue' = queue \/ queue' = <<>>
  BY DEF OwnDownload, LoopFirst, SetLoop, ReadAutoplay, SetAutoplay, PlayNext, CountLoop,
         Replay, TakePlaying, Announce, Download, MediaStarts, StopAutoplay, StopClear,
         StopCall, StreamEndCallback, cacheVars, Cache!SetLoopCount, Cache!SetAutoplay,
         Cache!ClearChat
<1>2. history' = history \/ history' = <<>>
  BY DEF OwnDownload, LoopFirst, SetLoop, ReadAutoplay, SetAutoplay, PlayNext, CountLoop,
         Replay, TakePlaying, Announce, Download, MediaStarts, StopAutoplay, StopClear,
         StopCall, StreamEndCallback, cacheVars, Cache!SetLoopCount, Cache!SetAutoplay,
         Cache!ClearChat
<1>3. pc'[h] \in {"ownMedia", "rollback", "next", "idle", "turnOn", "turnOff",
                  "countLoop", "remove", "replay", "announce", "media", "download",
                  "clear", "leave"}
  BY Lands DEF OwnDownload, LoopFirst, SetLoop, ReadAutoplay, SetAutoplay, PlayNext,
         CountLoop, Replay, TakePlaying, Announce, Download, MediaStarts, StopAutoplay,
         StopClear, StopCall, StreamEndCallback
<1>4. OnlyHead' /\ HeadLimited'
  BY <1>1, <1>2, QueueOrNothing DEF Limited
<1>5. pc'[h] \notin Adding \cup AddingMany \cup Recommending
  BY <1>3 DEF Adding, AddingMany, Recommending
<1> QED
  BY <1>4, <1>5, NothingInHand DEF Limited

LEMMA LimitedMediaFails ==
  ASSUME Inv, NEW h \in Handlers, Limited(h), MediaFails(h)
  PROVE  Limited(h)'
<1>1. queue' = <<>> /\ history' = <<>>
  BY DEF MediaFails, Cache!ClearChat
<1>2. pc'[h] \in {"media", "ownMedia", "rollback", "idle"}
  BY Lands DEF MediaFails
<1> QED
  BY <1>1, <1>2, QueueOrNothing, NothingInHand
     DEF Limited, Adding, AddingMany, Recommending

LEMMA LimitedLookup ==
  ASSUME Inv, NEW h \in Handlers, Limited(h), Lookup(h)
  PROVE  Limited(h)'
<1>1. OnlyHead' /\ HeadLimited'
  BY QueueOrNothing DEF Lookup, cacheVars, Limited
<1>2. CASE Return(h)
  <2>1. pc'[h] = "idle"
    BY <1>2, Lands
  <2> QED
    BY <1>1, <2>1, NothingInHand DEF Limited, Adding, AddingMany, Recommending
<1>3. CASE Goto(h, "enqueue") /\ UNCHANGED frame
  <2>1. pc'[h] = "enqueue" /\ frame'[h] = frame[h]
    BY <1>3, Lands
  <2>2. frame[h].song \notin Recommended
    BY DEF Limited, Asked, Lookup, At, Adding
  <2>3. Asked(h)'
    BY <2>1, <2>2 DEF Asked, AddingMany
  <2> QED
    BY <1>1, <2>1, <2>3, OnlyAsked DEF Limited, Recommending
<1> QED
  BY <1>2, <1>3 DEF Lookup

LEMMA LimitedEnqueue ==
  ASSUME Inv, NEW h \in Handlers, Limited(h), Enqueue(h)
  PROVE  Limited(h)'
<1>1. frame[h].song \in Songs
  BY LengthType DEF Enqueue, At, FrameOK, HasSong
<1>2. frame[h].song \notin Recommended
  BY DEF Limited, Asked, Enqueue, At, Adding
<1>3. OnlyHead' /\ HeadLimited'
  BY <1>1, <1>2, AppendLimited, InsertLimited DEF Enqueue, Limited
<1>4. pc'[h] \in {"ownDownload", "next", "idle"}
  BY Lands DEF Enqueue
<1> QED
  BY <1>3, <1>4, NothingInHand DEF Limited, Adding, AddingMany, Recommending

LEMMA LimitedRemoval ==
  ASSUME Inv, NEW h \in Handlers, Limited(h), Rollback(h) \/ RemoveCurrent(h)
  PROVE  Limited(h)'
<1>1. OnlyHead' /\ HeadLimited'
  BY RemoveLimited, QueueOrNothing DEF Rollback, RemoveCurrent, cacheVars, Limited
<1>2. pc'[h] \in {"idle", "head"}
  BY Lands DEF Rollback, RemoveCurrent
<1> QED
  BY <1>1, <1>2, NothingInHand DEF Limited, Adding, AddingMany, Recommending

LEMMA LimitedAddAll ==
  ASSUME Inv, NEW h \in Handlers, Limited(h), AddAll(h)
  PROVE  Limited(h)'
<1>1. PICK t : t = frame[h].batch
  OBVIOUS
<1>2. t \in Seq(Songs)
  BY <1>1, FrameType DEF Frames
<1>3. \A i \in 1 .. Len(t) : t[i] \notin Recommended
  BY <1>1 DEF Limited, Asked, AddAll, At, AddingMany
<1>4. Cache!AddSongs(t)
  BY <1>1 DEF AddAll
<1>5. OnlyHead' /\ HeadLimited'
  BY <1>2, <1>3, <1>4, ConcatLimited DEF Limited
<1>6. pc'[h] \in {"loopFirst", "idle"}
  BY Lands DEF AddAll
<1> QED
  BY <1>5, <1>6, NothingInHand DEF Limited, Adding, AddingMany, Recommending

LEMMA LimitedAddEach ==
  ASSUME Inv, NEW h \in Handlers, Limited(h), AddEach(h)
  PROVE  Limited(h)'
<1>1. PICK batch : batch = frame[h].batch
  OBVIOUS
<1>2. PICK rest : rest = Front(batch)
  OBVIOUS
<1>3. FrameOK("addEach", frame[h]) /\ pc[h] = "addEach"
  BY LengthType DEF AddEach, At
<1>4. batch \in Seq(Songs) /\ Len(batch) \in 1 .. MaxBatch
  BY <1>1, <1>3 DEF FrameOK, Frames, AddingMany
<1>5. /\ Last(batch) = batch[Len(batch)] /\ Len(rest) = Len(batch) - 1
      /\ \A i \in 1 .. Len(rest) : rest[i] = batch[i]
      /\ Len(batch) \in 1 .. Len(batch) /\ Last(batch) \in Songs
  <2>1. PICK n \in Nat : n = Len(batch) /\ n >= 1
    BY <1>4, Naturals
  <2>2. rest = SubSeq(batch, 1, n - 1)
    BY <1>2, <2>1 DEF Front
  <2>3. Len(rest) = n - 1 /\ \A i \in 1 .. n - 1 : rest[i] = batch[i]
    BY <1>4, <2>1, <2>2, SubSeqProperties
  <2>4. n \in 1 .. n /\ batch[n] \in Songs
    BY <1>4, <2>1, ElementOfSeq
  <2> QED
    BY <2>1, <2>3, <2>4 DEF Last
<1>6. \A i \in 1 .. Len(batch) : batch[i] \notin Recommended
  BY <1>1, <1>3 DEF Limited, Asked, AddingMany
<1>7. OnlyHead' /\ HeadLimited'
  <2>1. Cache!AddSongToFront(Last(batch))
    BY <1>1 DEF AddEach
  <2> QED
    BY <1>5, <1>6, <2>1, InsertLimited DEF Limited
<1>8. CASE Return(h)
  <2>1. pc'[h] = "idle"
    BY <1>8, Lands
  <2> QED
    BY <1>7, <2>1, NothingInHand DEF Limited, Adding, AddingMany, Recommending
<1>9. CASE ~ Return(h)
  <2>1. PICK label \in {"addEach", "loopFirst", "next"} :
          Goto(h, label) /\ frame' = [frame EXCEPT ![h].batch = rest]
    BY <1>1, <1>2, <1>9 DEF AddEach
  <2>2. pc'[h] = label
    BY <2>1, Lands
  <2>3. frame'[h].batch = rest
    <3>1. PICK f : f = [frame[h] EXCEPT !.batch = rest]
      OBVIOUS
    <3>2. frame' = [frame EXCEPT ![h] = f]
      BY <2>1, <3>1
    <3>3. frame'[h] = f
      BY <3>2, Lands
    <3> QED
      BY <3>1, <3>3, FrameType DEF Frames
  <2>4. \A i \in 1 .. Len(rest) : rest[i] \notin Recommended
    BY <1>4, <1>5, <1>6, Naturals
  <2>5. Asked(h)' /\ pc'[h] \notin Recommending
    BY <2>2, <2>3, <2>4 DEF Asked, Adding, Recommending
  <2> QED
    BY <1>7, <2>5, OnlyAsked DEF Limited
<1> QED
  BY <1>8, <1>9

LEMMA LimitedMove ==
  ASSUME Inv, NEW h \in Handlers, Limited(h), Move(h)
  PROVE  Limited(h)'
<1>1. OnlyHead' /\ HeadLimited'
  BY MoveLimited, QueueOrNothing DEF Move, cacheVars, Limited
<1>2. pc'[h] \in {"next", "idle"}
  BY Lands DEF Move
<1> QED
  BY <1>1, <1>2, NothingInHand DEF Limited, Adding, AddingMany, Recommending

LEMMA LimitedRemoveTracks ==
  ASSUME Inv, NEW h \in Handlers, Limited(h), RemoveTracks(h)
  PROVE  Limited(h)'
<1>1. PICK t : t = CHOOSE m \in frame[h].picks : \A p \in frame[h].picks : p <= m
  OBVIOUS
<1>2. Cache!RemoveTrack(t + 1) \/ UNCHANGED cacheVars
  BY <1>1, Zenon DEF RemoveTracks
<1>3. OnlyHead' /\ HeadLimited'
  BY <1>2, RemoveTrackLimited, QueueOrNothing DEF cacheVars, Limited
<1>4. pc'[h] \in {"idle", "removeTracks"}
  BY Lands DEF RemoveTracks, At
<1> QED
  BY <1>3, <1>4, NothingInHand DEF Limited, Adding, AddingMany, Recommending
-----------------------------------------------------------------------------
(* handleAutoplay. *)

LEMMA RememberLength ==
  ASSUME NEW g \in Seq(TrackIDs), NEW id \in TrackIDs \cup {NoID}
  PROVE  /\ Len(Remember(g, id, NoID)) <= Len(g) + 1
         /\ Contains(g, id) => Remember(g, id, NoID) = g
<1>1. CASE id = NoID \/ Contains(g, id)
  BY <1>1, LenProperties DEF Remember
<1>2. CASE ~ (id = NoID \/ Contains(g, id))
  <2>1. Remember(g, id, NoID) = Append(g, id) /\ id \in TrackIDs
    BY <1>2 DEF Remember
  <2>2. Len(Append(g, id)) = Len(g) + 1 /\ Len(g) \in Nat
    BY <2>1, AppendProperties, LenProperties
  <2> QED
    BY <1>2, <2>1, <2>2
<1> QED
  BY <1>1, <1>2

\* Autoplay starts from an empty queue.
LEMMA LimitedTake ==
  ASSUME Inv, NEW h \in Handlers, Limited(h), NextSong(h)
  PROVE  Limited(h)'
<1>1. OnlyHead' /\ HeadLimited'
  BY QueueOrNothing DEF NextSong, TakePlaying, cacheVars, Limited
<1>2. CASE Active
  <2>1. pc'[h] = "announce"
    BY <1>2, Lands DEF NextSong, TakePlaying
  <2> QED
    BY <1>1, <2>1, NothingInHand DEF Limited, Adding, AddingMany, Recommending
<1>3. CASE ~ Active
  <2>1. pc'[h] = "lastID" /\ queue' = <<>>
    BY <1>3, Lands DEF NextSong, TakePlaying, cacheVars, Active
  <2>2. Picking(h)'
    BY <2>1 DEF Picking
  <2> QED
    BY <1>1, <2>1, <2>2, NotAsked DEF Limited, Recommending
<1> QED
  BY <1>2, <1>3

LEMMA LimitedLastID ==
  ASSUME Inv, NEW h \in Handlers, Limited(h), LastID(h)
  PROVE  Limited(h)'
<1>1. OnlyHead' /\ HeadLimited'
  BY QueueOrNothing DEF LastID, cacheVars, Limited
<1>2. queue = <<>> /\ UNCHANGED <<queue, history>>
  BY DEF LastID, At, Limited, Picking, Recommending, cacheVars
<1>3. CASE history = <<>>
  <2>1. pc'[h] = "stop"
    BY <1>3, Lands DEF LastID
  <2> QED
    BY <1>1, <2>1, NothingInHand DEF Limited, Adding, AddingMany, Recommending
<1>4. CASE history # <<>>
  <2>1. pc'[h] = "wanted"
    BY <1>4, Lands DEF LastID
  <2>2. PICK f : f = [frame[h] EXCEPT !.id = Last(history)]
    OBVIOUS
  <2>3. frame' = [frame EXCEPT ![h] = f]
    BY <1>4, <2>2 DEF LastID
  <2>4. frame'[h] = f
    BY <2>3, Lands
  <2>5. f.id = history[Len(history)]
    BY <2>2, FrameType DEF Frames, Last
  <2>6. Len(history) \in 1 .. Len(history)
    BY <1>4, HistoryType, EmptySeq
  <2>7. Contains(history, f.id)
    BY <2>5, <2>6 DEF Contains
  <2>8. Picking(h)'
    BY <1>2, <2>1, <2>4, <2>7 DEF Picking
  <2> QED
    BY <1>1, <2>1, <2>8, NotAsked DEF Limited, Recommending
<1> QED
  BY <1>3, <1>4

LEMMA LimitedWanted ==
  ASSUME Inv, NEW h \in Handlers, Limited(h), Wanted(h)
  PROVE  Limited(h)'
<1>1. OnlyHead' /\ HeadLimited'
  BY QueueOrNothing DEF Wanted, cacheVars, Limited
<1>2. /\ queue = <<>> /\ UNCHANGED <<queue, history>> /\ frame'[h] = frame[h]
      /\ Contains(history, frame[h].id) \/ (history = <<>> /\ AutoPlayLimit # 1)
  BY DEF Wanted, At, Limited, Picking, Recommending, cacheVars
<1>3. CASE autoplay
  <2>1. pc'[h] = "recommend"
    BY <1>3, Lands DEF Wanted
  <2>2. Picking(h)'
    BY <1>2, <2>1 DEF Picking
  <2> QED
    BY <1>1, <2>1, <2>2, NotAsked DEF Limited, Recommending
<1>4. CASE ~ autoplay
  <2>1. pc'[h] = "stop"
    BY <1>4, Lands DEF Wanted
  <2> QED
    BY <1>1, <2>1, NothingInHand DEF Limited, Adding, AddingMany, Recommending
<1> QED
  BY <1>3, <1>4

LEMMA LimitedRecommend ==
  ASSUME Inv, NEW h \in Handlers, Limited(h), Recommend(h)
  PROVE  Limited(h)'
<1>1. OnlyHead' /\ HeadLimited'
  BY QueueOrNothing DEF Recommend, cacheVars, Limited
<1>2. /\ queue = <<>> /\ UNCHANGED <<queue, history>>
      /\ Contains(history, frame[h].id) \/ (history = <<>> /\ AutoPlayLimit # 1)
  BY DEF Recommend, At, Limited, Picking, Recommending, cacheVars
<1>3. CASE Len(history) >= AutoPlayLimit
  <2>1. pc'[h] = "limit"
    BY <1>3, Lands DEF Recommend
  <2>2. Picking(h)'
    BY <1>2, <2>1 DEF Picking
  <2> QED
    BY <1>1, <2>1, <2>2, NotAsked DEF Limited, Recommending
<1>4. CASE ~ (Len(history) >= AutoPlayLimit)
  <2>1. pc'[h] = "mix"
    BY <1>4, Lands DEF Recommend
  <2>2. PICK f : f = [frame[h] EXCEPT !.seen = ToSet(history)]
    OBVIOUS
  <2>3. frame' = [frame EXCEPT ![h] = f]
    BY <1>4, <2>2 DEF Recommend
  <2>4. frame'[h] = f
    BY <2>3, Lands
  <2>5. f.id = frame[h].id
    BY <2>2, FrameType DEF Frames
  <2>6. Len(history) < AutoPlayLimit
    BY <1>4, HistoryType, Naturals
  <2>7. Picking(h)'
    BY <1>2, <2>1, <2>4, <2>5, <2>6 DEF Picking
  <2> QED
    BY <1>1, <2>1, <2>7, NotAsked DEF Limited, Recommending
<1> QED
  BY <1>3, <1>4

LEMMA LimitedReached ==
  ASSUME Inv, NEW h \in Handlers, Limited(h), LimitReached(h)
  PROVE  Limited(h)'
<1>1. OnlyHead' /\ HeadLimited'
  BY QueueOrNothing DEF LimitReached, Cache!ClearAutoplayHistory, Limited
<1>2. pc'[h] = "stop"
  BY Lands DEF LimitReached
<1> QED
  BY <1>1, <1>2, NothingInHand DEF Limited, Adding, AddingMany, Recommending

LEMMA LimitedMix ==
  ASSUME Inv, NEW h \in Handlers, Limited(h), Mix(h)
  PROVE  Limited(h)'
<1>1. OnlyHead' /\ HeadLimited'
  BY QueueOrNothing DEF Mix, cacheVars, Limited
<1>2. /\ queue = <<>> /\ UNCHANGED <<queue, history>>
      /\ Contains(history, frame[h].id) \/ (history = <<>> /\ AutoPlayLimit # 1)
      /\ Len(history) < AutoPlayLimit
  BY DEF Mix, At, Limited, Picking, Recommending, cacheVars
<1>3. CASE \E s \in Recommended :
             Goto(h, "remember") /\ frame' = [frame EXCEPT ![h].song = s]
  <2>1. PICK s \in Recommended :
          Goto(h, "remember") /\ frame' = [frame EXCEPT ![h].song = s]
    BY <1>3
  <2>2. PICK f : f = [frame[h] EXCEPT !.song = s]
    OBVIOUS
  <2>3. frame' = [frame EXCEPT ![h] = f]
    BY <2>1, <2>2
  <2>4. pc'[h] = "remember" /\ frame'[h] = f
    BY <2>1, <2>3, Lands
  <2>5. f.id = frame[h].id
    BY <2>2, FrameType DEF Frames
  <2>6. Picking(h)'
    BY <1>2, <2>4, <2>5 DEF Picking
  <2> QED
    BY <1>1, <2>4, <2>6, NotAsked DEF Limited, Recommending
<1>4. CASE Goto(h, "stop")
  <2>1. pc'[h] = "stop"
    BY <1>4, Lands
  <2> QED
    BY <1>1, <2>1, NothingInHand DEF Limited, Adding, AddingMany, Recommending
<1> QED
  BY <1>3, <1>4 DEF Mix

\* The last track's identifier is in the history already, or the history is
\* empty and has room for two.
LEMMA LimitedRemember ==
  ASSUME Inv, NEW h \in Handlers, Limited(h), RememberPick(h)
  PROVE  Limited(h)'
<1>1. PICK id : id = frame[h].id
  OBVIOUS
<1>2. PICK t : t = TrackID[frame[h].song]
  OBVIOUS
<1>3. FrameOK("remember", frame[h]) /\ pc[h] = "remember"
  BY LengthType DEF RememberPick, At
<1>4. id \in TrackIDs \cup {NoID} /\ t \in TrackIDs \cup {NoID}
  BY <1>1, <1>2, <1>3, PlayerAssumption DEF FrameOK, HasSong, Frames
<1>5. queue = <<>> /\ queue' = <<>>
  BY <1>3 DEF Limited, Picking, Recommending, RememberPick, Cache!AddAutoplayHistory
<1>6. /\ Contains(history, id) \/ (history = <<>> /\ AutoPlayLimit # 1)
      /\ Len(history) < AutoPlayLimit
  BY <1>1, <1>3 DEF Limited, Picking
<1>7. PICK g : g = Remember(history, id, NoID)
  OBVIOUS
<1>8. history' = Remember(g, t, NoID)
  BY <1>1, <1>2, <1>7, SameOperators DEF RememberPick, Cache!AddAutoplayHistory
<1>9. g \in Seq(TrackIDs)
  BY <1>4, <1>7, HistoryType, RememberType
<1>10. Len(g) + 1 <= AutoPlayLimit
  <2>1. CASE Contains(history, id)
    <3>1. g = history
      BY <1>4, <1>7, <2>1, HistoryType, RememberLength
    <3> QED
      BY <1>6, <3>1, HistoryType, Naturals
  <2>2. CASE history = <<>> /\ AutoPlayLimit # 1
    <3>1. Len(history) = 0
      BY <2>2
    <3>2. Len(g) <= Len(history) + 1
      BY <1>4, <1>7, HistoryType, RememberLength
    <3>3. Len(g) \in Nat
      BY <1>9, LenProperties
    <3> QED
      BY <1>6, <2>2, <3>1, <3>2, <3>3, Naturals
  <2> QED
    BY <1>6, <2>1, <2>2
<1>11. Len(history') <= AutoPlayLimit
  <2>1. Len(history') <= Len(g) + 1
    BY <1>4, <1>8, <1>9, RememberLength
  <2>2. history' \in Seq(TrackIDs)
    BY <1>4, <1>8, <1>9, RememberType
  <2>3. Len(history') \in Nat /\ Len(g) \in Nat
    BY <1>9, <2>2, LenProperties
  <2> QED
    BY <1>10, <2>1, <2>3, Naturals
<1>12. pc'[h] = "addPick"
  BY Lands DEF RememberPick
<1>13. Picking(h)'
  BY <1>5, <1>11, <1>12 DEF Picking
<1>14. OnlyHead' /\ HeadLimited'
  <2>1. Len(queue') = 0
    BY <1>5
  <2> QED
    BY <1>5, <2>1 DEF OnlyHead, HeadLimited
<1> QED
  BY <1>12, <1>13, <1>14, NotAsked DEF Limited, Recommending

LEMMA LimitedAddPick ==
  ASSUME Inv, NEW h \in Handlers, Limited(h), AddPick(h)
  PROVE  Limited(h)'
<1>1. queue = <<>> /\ Len(history) <= AutoPlayLimit
  BY DEF Limited, Picking, Recommending, AddPick, At
<1>2. /\ queue' = Append(queue, frame[h].song)
      /\ history' = history \/ history' = <<>>
  BY DEF AddPick, Cache!AddSong
<1>3. queue' = <<frame[h].song>>
  BY <1>1, <1>2
<1>4. Len(queue') = 1
  BY <1>3
<1>5. Len(<<>>) <= AutoPlayLimit
  BY Naturals
<1>6. Len(history') <= AutoPlayLimit
  BY <1>1, <1>2, <1>5
<1>7. OnlyHead' /\ HeadLimited'
  BY <1>4, <1>6 DEF OnlyHead, HeadLimited
<1>8. pc'[h] = "announce"
  BY Lands DEF AddPick
<1> QED
  BY <1>7, <1>8, NothingInHand DEF Limited, Adding, AddingMany, Recommending

LEMMA LimitedStep ==
  ASSUME Inv, NEW h \in Handlers, Limited(h), Step(h)
  PROVE  Limited(h)'
<1>1. CASE \/ Lookup(h) \/ Enqueue(h) \/ OwnDownload(h) \/ Rollback(h)
           \/ AddAll(h) \/ AddEach(h) \/ LoopFirst(h)
  BY <1>1, LimitedLookup, LimitedEnqueue, LimitedPlain, LimitedRemoval, LimitedAddAll,
     LimitedAddEach
<1>2. CASE \/ Move(h) \/ SetLoop(h) \/ ReadAutoplay(h) \/ SetAutoplay(h) \/ RemoveTracks(h)
  BY <1>2, LimitedMove, LimitedPlain, LimitedRemoveTracks
<1>3. CASE \/ PlayNext(h) \/ CountLoop(h) \/ Replay(h) \/ RemoveCurrent(h) \/ NextSong(h)
  BY <1>3, LimitedPlain, LimitedRemoval, LimitedTake
<1>4. CASE \/ LastID(h) \/ Wanted(h) \/ Recommend(h) \/ LimitReached(h) \/ Mix(h)
           \/ RememberPick(h) \/ AddPick(h)
  BY <1>4, LimitedLastID, LimitedWanted, LimitedRecommend, LimitedReached, LimitedMix,
     LimitedRemember, LimitedAddPick
<1>5. CASE \/ Announce(h) \/ Download(h) \/ MediaStarts(h) \/ MediaFails(h)
           \/ StopAutoplay(h) \/ StopClear(h) \/ StopCall(h)
  BY <1>5, LimitedPlain, LimitedMediaFails
<1> QED
  BY <1>1, <1>2, <1>3, <1>4, <1>5, Zenon DEF Step

\* What the chat's messages and the group call change between two steps.
LEMMA LimitedEvents ==
  ASSUME Inv, CalmChat, NEW h \in Handlers, Limited(h),
         StreamEnds \/ VideoChatMessage \/ GroupCallDiscarded \/ UNCHANGED vars
  PROVE  Limited(h)'
<1>1. CASE UNCHANGED <<queue, history>>
  <2>1. UNCHANGED <<pc, frame>>
    BY DEF StreamEnds, VideoChatMessage, GroupCallDiscarded, vars
  <2>2. OnlyHead' /\ HeadLimited'
    BY <1>1, QueueOrNothing DEF Limited
  <2>3. Asked(h)' /\ Picking(h)'
    BY <1>1, <2>1 DEF Limited, Asked, Picking
  <2> QED
    BY <2>2, <2>3 DEF Limited
<1>2. CASE VideoChatMessage
  <2>1. /\ queue' = <<>> /\ history' = <<>> /\ UNCHANGED <<pc, frame>>
        /\ "videochat" \in Faults
    BY <1>2 DEF VideoChatMessage, Cache!ClearChat
  <2>2. AutoPlayLimit # 1 /\ AutoPlayLimit \in Nat
    BY <2>1, Naturals DEF CalmChat
  <2>3. Len(history') = 0
    BY <2>1
  <2>4. OnlyHead' /\ HeadLimited'
    BY <2>1, QueueOrNothing DEF Limited
  <2>5. Asked(h)'
    BY <2>1 DEF Limited, Asked
  <2>6. Picking(h)'
    BY <2>1, <2>2, <2>3, HistoryType DEF Limited, Picking
  <2> QED
    BY <2>4, <2>5, <2>6 DEF Limited
<1>3. CASE StreamEnds \/ GroupCallDiscarded \/ UNCHANGED vars
  <2>1. UNCHANGED <<queue, history>>
    BY <1>3 DEF StreamEnds, GroupCallDiscarded, vars, cacheVars
  <2> QED
    BY <1>1, <2>1
<1> QED
  BY <1>2, <1>3

LEMMA LimitedHolds ==
  ASSUME NEW h, Handlers = {h}, CalmChat
  PROVE  Spec => [](Inv /\ Limited(h))
<1>1. h \in Handlers
  OBVIOUS
<1>2. Init => Limited(h)
  <2> SUFFICES ASSUME Init PROVE Limited(h)
    OBVIOUS
  <2>1. pc[h] = "idle" /\ queue = <<>> /\ Len(queue) = 0
    BY <1>1 DEF Init, Cache!Init
  <2> QED
    BY <2>1 DEF Limited, OnlyHead, HeadLimited, Asked, Picking, Adding, AddingMany,
                Recommending
<1>3. Inv /\ Limited(h) /\ [Next]_vars => Inv' /\ Limited(h)'
  <2> SUFFICES ASSUME Inv, Limited(h), [Next]_vars PROVE Limited(h)'
    BY StepInv
  <2>1. CASE Command(h)
    BY <1>1, <2>1, LimitedCommand
  <2>2. CASE StreamEndCallback(h)
    BY <1>1, <2>2, LimitedPlain
  <2>3. CASE Step(h)
    BY <1>1, <2>3, LimitedStep
  <2>4. CASE StreamEnds \/ VideoChatMessage \/ GroupCallDiscarded \/ UNCHANGED vars
    BY <1>1, <2>4, LimitedEvents
  <2>5. (\E g \in Handlers : Command(g) \/ StreamEndCallback(g) \/ Step(g))
          => Command(h) \/ StreamEndCallback(h) \/ Step(h)
    OBVIOUS
  <2> QED
    BY <2>1, <2>2, <2>3, <2>4, <2>5, Zenon DEF Next
<1> QED
  BY <1>2, <1>3, InitInv, PTL DEF Spec

\* When the handlers run one at a time, autoplay never plays a track while the
\* history it has built is longer than AutoPlayLimit (autoplay.go:18),
\* whatever fails; only if the chat may be cleared in the middle, the limit
\* must not be one.
THEOREM RecommendationsStayBounded ==
  ASSUME NEW h, Handlers = {h}, CalmChat
  PROVE  Spec => []RecommendationsBounded
<1>1. Inv /\ Limited(h) => RecommendationsBounded
  <2> SUFFICES ASSUME Inv, Limited(h), Active, Head(queue) \in Recommended
               PROVE  Len(history) <= AutoPlayLimit
    BY DEF RecommendationsBounded
  <2>1. Head(queue) = queue[1]
    BY QueueType DEF Active
  <2> QED
    BY <2>1 DEF Limited, HeadLimited, Active
<1> QED
  BY <1>1, LimitedHolds, PTL
=============================================================================
