----------------------------- MODULE CacheProofs -----------------------------
(***************************************************************************)
(* Proofs about the two stores of internal/cache: ChatQueue, for any set   *)
(* of songs and any batch, the in-place code of SliceQueue, which          *)
(* implements it for any capacities the runtime may give an array, and     *)
(* TTLCache, for any caches, keys, readers and any number of starts of the *)
(* janitor.                                                                *)
(***************************************************************************)
EXTENDS MCCache, SequenceTheorems, TLAPS

(* What the operators of QueueOps return: the length and the elements of the
   sequence, and that they keep a sequence free of repetitions. *)

\* Inserting at a position shifts the elements from that position on.
LEMMA InsertAtElements ==
  ASSUME NEW S, NEW q \in Seq(S), NEW e \in S, NEW i \in 1 .. Len(q) + 1
  PROVE  /\ InsertAt(q, i, e) \in Seq(S)
         /\ Len(InsertAt(q, i, e)) = Len(q) + 1
         /\ \A j \in 1 .. Len(q) + 1 :
              InsertAt(q, i, e)[j] = IF j < i THEN q[j] ELSE IF j = i THEN e ELSE q[j - 1]
<1> DEFINE l == SubSeq(q, 1, i - 1)
           m == <<e>>
           r == SubSeq(q, i, Len(q))
<1>1. /\ l \in Seq(S) /\ Len(l) = i - 1
      /\ \A j \in 1 .. i - 1 : l[j] = q[j]
  BY SubSeqProperties, ElementOfSeq, LenProperties
<1>2. /\ r \in Seq(S) /\ Len(r) = Len(q) + 1 - i
      /\ \A j \in 1 .. Len(q) + 1 - i : r[j] = q[i + j - 1]
  BY SubSeqProperties, ElementOfSeq, LenProperties
<1>3. m \in Seq(S) /\ Len(m) = 1 /\ m[1] = e
  OBVIOUS
<1> HIDE DEF l, m, r
<1>4. /\ l \o m \in Seq(S) /\ Len(l \o m) = i
      /\ \A j \in 1 .. i : (l \o m)[j] = IF j < i THEN q[j] ELSE e
  <2>1. /\ l \o m \in Seq(S) /\ Len(l \o m) = Len(l) + Len(m)
        /\ \A j \in 1 .. Len(l) + Len(m) :
             (l \o m)[j] = IF j <= Len(l) THEN l[j] ELSE m[j - Len(l)]
    BY <1>1, <1>3, ConcatProperties
  <2>2. Len(q) \in Nat /\ Len(l) + Len(m) = i
    BY <1>1, <1>3, LenProperties
  <2>3. ASSUME NEW j \in 1 .. i
        PROVE  (l \o m)[j] = IF j < i THEN q[j] ELSE e
    <3>1. CASE j < i
      <4>1. j \in 1 .. Len(l) + Len(m) /\ j \in 1 .. i - 1 /\ j <= Len(l)
        BY <1>1, <2>2, <3>1
      <4>2. (l \o m)[j] = l[j]
        BY <2>1, <4>1
      <4> QED
        BY <1>1, <3>1, <4>1, <4>2
    <3>2. CASE j = i
      <4>1. /\ i \in 1 .. Len(l) + Len(m) /\ ~ i <= Len(l)
            /\ i - Len(l) = 1
        BY <1>1, <1>3, <2>2
      <4>2. (l \o m)[i] = m[1]
        BY <2>1, <4>1
      <4> QED
        BY <1>3, <3>2, <4>2
    <3> QED
      BY <2>2, <3>1, <3>2
  <2> QED
    BY <2>1, <2>2, <2>3
<1>5. /\ (l \o m) \o r \in Seq(S) /\ Len((l \o m) \o r) = Len(q) + 1
      /\ \A j \in 1 .. Len(q) + 1 :
           ((l \o m) \o r)[j] = IF j <= i THEN (l \o m)[j] ELSE r[j - i]
  <2>1. PICK f \in Seq(S) : f = l \o m /\ Len(f) = i
    BY <1>4
  <2>2. /\ f \o r \in Seq(S) /\ Len(f \o r) = Len(f) + Len(r)
        /\ \A j \in 1 .. Len(f) + Len(r) :
             (f \o r)[j] = IF j <= Len(f) THEN f[j] ELSE r[j - Len(f)]
    BY <1>2, ConcatProperties
  <2>3. Len(f) + Len(r) = Len(q) + 1
    BY <1>2, <2>1, LenProperties
  <2> QED
    BY <2>1, <2>2, <2>3
<1>6. InsertAt(q, i, e) = (l \o m) \o r
  BY DEF InsertAt, l, m, r
<1> QED
  BY <1>2, <1>4, <1>5, <1>6, LenProperties

\* Removing a position shifts the elements behind it back.
LEMMA RemoveAtElements ==
  ASSUME NEW S, NEW q \in Seq(S), NEW i \in 1 .. Len(q)
  PROVE  /\ RemoveAt(q, i) \in Seq(S)
         /\ Len(RemoveAt(q, i)) = Len(q) - 1
         /\ \A j \in 1 .. Len(q) - 1 :
              RemoveAt(q, i)[j] = IF j < i THEN q[j] ELSE q[j + 1]
<1> DEFINE l == SubSeq(q, 1, i - 1)
           r == SubSeq(q, i + 1, Len(q))
<1>1. /\ l \in Seq(S) /\ Len(l) = i - 1
      /\ \A j \in 1 .. i - 1 : l[j] = q[j]
  BY SubSeqProperties, ElementOfSeq, LenProperties
<1>2. /\ r \in Seq(S) /\ Len(r) = Len(q) - i
      /\ \A j \in 1 .. Len(q) - i : r[j] = q[i + j]
  BY SubSeqProperties, ElementOfSeq, LenProperties
<1> HIDE DEF l, r
<1>3. /\ l \o r \in Seq(S) /\ Len(l \o r) = Len(q) - 1
      /\ \A j \in 1 .. Len(q) - 1 : (l \o r)[j] = IF j < i THEN l[j] ELSE r[j + 1 - i]
  <2>1. /\ l \o r \in Seq(S) /\ Len(l \o r) = Len(l) + Len(r)
        /\ \A j \in 1 .. Len(l) + Len(r) :
             (l \o r)[j] = IF j <= Len(l) THEN l[j] ELSE r[j - Len(l)]
    BY <1>1, <1>2, ConcatProperties
  <2>2. Len(q) \in Nat /\ Len(l) + Len(r) = Len(q) - 1
    BY <1>1, <1>2, LenProperties
  <2>3. ASSUME NEW j \in 1 .. Len(q) - 1
        PROVE  (l \o r)[j] = IF j < i THEN l[j] ELSE r[j + 1 - i]
    <3>1. (l \o r)[j] = IF j <= Len(l) THEN l[j] ELSE r[j - Len(l)]
      BY <2>1, <2>2
    <3>2. (j <= Len(l) <=> j < i) /\ j - Len(l) = j + 1 - i
      BY <1>1, <2>2
    <3> QED
      BY <3>1, <3>2
  <2> QED
    BY <2>1, <2>2, <2>3
<1>4. RemoveAt(q, i) = l \o r
  BY DEF RemoveAt, l, r
<1>5. Len(q) \in Nat
  BY LenProperties
<1>6. ASSUME NEW j \in 1 .. Len(q) - 1
      PROVE  (l \o r)[j] = IF j < i THEN q[j] ELSE q[j + 1]
  <2>1. CASE j < i
    BY <1>1, <1>3, <1>5, <2>1
  <2>2. CASE j >= i
    <3>1. j + 1 - i \in 1 .. Len(q) - i /\ i + (j + 1 - i) = j + 1
      BY <1>5, <2>2
    <3> QED
      BY <1>2, <1>3, <1>5, <2>2, <3>1
  <2>3. j < i \/ j >= i
    BY <1>5
  <2> QED
    BY <2>1, <2>2, <2>3
<1> QED
  BY <1>3, <1>4, <1>6

\* AddSongToFront: the current song stays first, the new one is second.
LEMMA InsertNextElements ==
  ASSUME NEW S, NEW q \in Seq(S), NEW song \in S
  PROVE  /\ InsertNext(q, song) \in Seq(S)
         /\ Len(InsertNext(q, song)) = Len(q) + 1
         /\ q = <<>> => InsertNext(q, song)[1] = song
         /\ q # <<>> => \A j \in 1 .. Len(q) + 1 :
              InsertNext(q, song)[j] = IF j < 2 THEN q[j] ELSE IF j = 2 THEN song ELSE q[j - 1]
<1>1. CASE q = <<>>
  BY <1>1 DEF InsertNext
<1>2. CASE q # <<>>
  <2>1. 2 \in 1 .. Len(q) + 1
    BY <1>2, EmptySeq
  <2>2. InsertNext(q, song) = InsertAt(q, 2, song)
    BY <1>2 DEF InsertNext
  <2>3. /\ InsertAt(q, 2, song) \in Seq(S)
        /\ Len(InsertAt(q, 2, song)) = Len(q) + 1
        /\ \A j \in 1 .. Len(q) + 1 :
             InsertAt(q, 2, song)[j] = IF j < 2 THEN q[j] ELSE IF j = 2 THEN song ELSE q[j - 1]
    BY <2>1, InsertAtElements
  <2> QED
    BY <1>2, <2>2, <2>3
<1> QED
  BY <1>1, <1>2

\* MoveTrackToFront: the entries from 2 to i - 1 shift one place back.
LEMMA MoveNextElements ==
  ASSUME NEW S, NEW q \in Seq(S), NEW i \in 2 .. Len(q)
  PROVE  /\ MoveNext(q, i) \in Seq(S)
         /\ Len(MoveNext(q, i)) = Len(q)
         /\ \A j \in 1 .. Len(q) :
              MoveNext(q, i)[j] = IF j = 2 THEN q[i]
                                  ELSE IF j \in 3 .. i THEN q[j - 1] ELSE q[j]
<1> DEFINE r == RemoveAt(q, i)
<1>1. Len(q) \in Nat /\ i \in 1 .. Len(q) /\ q[i] \in S
  BY LenProperties, ElementOfSeq
<1>2. /\ r \in Seq(S) /\ Len(r) = Len(q) - 1
      /\ \A j \in 1 .. Len(q) - 1 : r[j] = IF j < i THEN q[j] ELSE q[j + 1]
  BY <1>1, RemoveAtElements
<1> HIDE DEF r
<1>3. 2 \in 1 .. Len(r) + 1
  BY <1>1, <1>2
<1>4. /\ InsertAt(r, 2, q[i]) \in Seq(S)
      /\ Len(InsertAt(r, 2, q[i])) = Len(q)
      /\ \A j \in 1 .. Len(q) :
           InsertAt(r, 2, q[i])[j] = IF j < 2 THEN r[j] ELSE IF j = 2 THEN q[i] ELSE r[j - 1]
  <2>1. \A e \in S : /\ InsertAt(r, 2, e) \in Seq(S)
                     /\ Len(InsertAt(r, 2, e)) = Len(r) + 1
                     /\ \A j \in 1 .. Len(r) + 1 :
                          InsertAt(r, 2, e)[j]
                            = IF j < 2 THEN r[j] ELSE IF j = 2 THEN e ELSE r[j - 1]
    <3> SUFFICES ASSUME NEW e \in S
                 PROVE  /\ InsertAt(r, 2, e) \in Seq(S)
                        /\ Len(InsertAt(r, 2, e)) = Len(r) + 1
                        /\ \A j \in 1 .. Len(r) + 1 :
                             InsertAt(r, 2, e)[j]
                               = IF j < 2 THEN r[j] ELSE IF j = 2 THEN e ELSE r[j - 1]
      OBVIOUS
    <3>1. r \in Seq(S)
      BY <1>2
    <3> QED
      BY <1>3, <3>1, InsertAtElements
  <2>2. Len(r) + 1 = Len(q)
    BY <1>1, <1>2
  <2> QED
    BY <1>1, <2>1, <2>2
<1>5. MoveNext(q, i) = InsertAt(r, 2, q[i])
  BY DEF MoveNext, r
<1>6. ASSUME NEW j \in 1 .. Len(q)
      PROVE  InsertAt(r, 2, q[i])[j] = IF j = 2 THEN q[i]
                                       ELSE IF j \in 3 .. i THEN q[j - 1] ELSE q[j]
  <2>1. CASE j < 2
    BY <1>1, <1>2, <1>4, <2>1
  <2>2. CASE j = 2
    BY <1>1, <1>4, <2>2
  <2>3. CASE j > 2
    <3>1. j - 1 \in 1 .. Len(q) - 1 /\ (j - 1) + 1 = j
      BY <1>1, <2>3
    <3>2. InsertAt(r, 2, q[i])[j] = r[j - 1]
      BY <1>4, <2>3
    <3>3. r[j - 1] = IF j - 1 < i THEN q[j - 1] ELSE q[j]
      BY <1>2, <3>1
    <3> QED
      BY <1>1, <2>3, <3>2, <3>3
  <2> QED
    BY <2>1, <2>2, <2>3
<1> QED
  BY <1>4, <1>5, <1>6

\* Sequences without repetitions stay so.
LEMMA InsertNextInjective ==
  ASSUME NEW S, NEW q \in Seq(S), NEW song \in S, IsInjective(q),
         \A i \in 1 .. Len(q) : q[i] # song
  PROVE  IsInjective(InsertNext(q, song))
<1> DEFINE p == InsertNext(q, song)
<1>1. Len(q) \in Nat /\ DOMAIN q = 1 .. Len(q)
  BY LenProperties
<1>2. /\ p \in Seq(S) /\ Len(p) = Len(q) + 1
      /\ q # <<>> => \A j \in 1 .. Len(q) + 1 :
           p[j] = IF j < 2 THEN q[j] ELSE IF j = 2 THEN song ELSE q[j - 1]
  BY InsertNextElements
<1> HIDE DEF p
<1>3. DOMAIN p = 1 .. Len(q) + 1
  BY <1>2, LenProperties
<1>4. ASSUME NEW i \in 1 .. Len(q) + 1, NEW j \in 1 .. Len(q) + 1, p[i] = p[j]
      PROVE  i = j
  <2>1. CASE q = <<>>
    BY <2>1
  <2>2. CASE q # <<>>
    <3>1. Len(q) >= 1
      BY <2>2, EmptySeq
    <3> DEFINE old(k) == IF k < 2 THEN k ELSE k - 1
    <3>2. \A k \in 1 .. Len(q) + 1 : k # 2 => old(k) \in 1 .. Len(q) /\ p[k] = q[old(k)]
      BY <1>1, <1>2, <2>2, <3>1
    <3>3. p[2] = song
      BY <1>1, <1>2, <2>2, <3>1
    <3>4. CASE i = 2 \/ j = 2
      BY <1>4, <3>2, <3>3, <3>4
    <3>5. CASE i # 2 /\ j # 2
      <4>1. old(i) = old(j)
        <5>1. /\ old(i) \in 1 .. Len(q) /\ old(j) \in 1 .. Len(q)
              /\ q[old(i)] = q[old(j)]
          BY <1>4, <3>2, <3>5
        <5> HIDE DEF old
        <5> QED
          BY <1>1, <5>1 DEF IsInjective
      <4> QED
        BY <1>1, <3>5, <4>1
    <3> QED
      BY <3>4, <3>5
  <2> QED
    BY <2>1, <2>2
<1> QED
  BY <1>3, <1>4 DEF IsInjective, p

LEMMA RemoveAtInjective ==
  ASSUME NEW S, NEW q \in Seq(S), NEW i \in 1 .. Len(q), IsInjective(q)
  PROVE  IsInjective(RemoveAt(q, i))
<1> DEFINE p == RemoveAt(q, i)
           old(k) == IF k < i THEN k ELSE k + 1
<1>1. Len(q) \in Nat /\ DOMAIN q = 1 .. Len(q)
  BY LenProperties
<1>2. /\ p \in Seq(S) /\ Len(p) = Len(q) - 1
      /\ \A j \in 1 .. Len(q) - 1 : p[j] = IF j < i THEN q[j] ELSE q[j + 1]
  BY RemoveAtElements
<1> HIDE DEF p
<1>3. DOMAIN p = 1 .. Len(q) - 1
  BY <1>2, LenProperties
<1>4. \A k \in 1 .. Len(q) - 1 : old(k) \in 1 .. Len(q) /\ p[k] = q[old(k)]
  BY <1>1, <1>2
<1>5. \A j, k \in 1 .. Len(q) - 1 : old(j) = old(k) => j = k
  BY <1>1
<1> HIDE DEF old
<1> QED
  BY <1>1, <1>3, <1>4, <1>5 DEF IsInjective, p

LEMMA MoveNextInjective ==
  ASSUME NEW S, NEW q \in Seq(S), NEW i \in 2 .. Len(q), IsInjective(q)
  PROVE  IsInjective(MoveNext(q, i))
<1> DEFINE p == MoveNext(q, i)
           old(k) == IF k = 2 THEN i ELSE IF k \in 3 .. i THEN k - 1 ELSE k
<1>1. Len(q) \in Nat /\ DOMAIN q = 1 .. Len(q)
  BY LenProperties
<1>2. /\ p \in Seq(S) /\ Len(p) = Len(q)
      /\ \A j \in 1 .. Len(q) :
           p[j] = IF j = 2 THEN q[i] ELSE IF j \in 3 .. i THEN q[j - 1] ELSE q[j]
  BY MoveNextElements
<1> HIDE DEF p
<1>3. DOMAIN p = 1 .. Len(q)
  BY <1>2, LenProperties
<1>4. \A k \in 1 .. Len(q) : old(k) \in 1 .. Len(q) /\ p[k] = q[old(k)]
  BY <1>1, <1>2
<1>5. \A j, k \in 1 .. Len(q) : old(j) = old(k) => j = k
  BY <1>1
<1> HIDE DEF old
<1> QED
  BY <1>1, <1>3, <1>4, <1>5 DEF IsInjective, p

LEMMA AppendInjectiveSeq ==
  ASSUME NEW S, NEW q \in Seq(S), NEW e \in S, IsInjective(q),
         \A i \in 1 .. Len(q) : q[i] # e
  PROVE  IsInjective(Append(q, e))
<1> DEFINE p == Append(q, e)
<1>1. Len(q) \in Nat /\ DOMAIN q = 1 .. Len(q)
  BY LenProperties
<1>2. /\ p \in Seq(S) /\ Len(p) = Len(q) + 1
      /\ \A i \in 1 .. Len(q) : p[i] = q[i]
      /\ p[Len(q) + 1] = e
  BY AppendProperties
<1> HIDE DEF p
<1>3. DOMAIN p = 1 .. Len(q) + 1
  BY <1>2, LenProperties
<1> QED
  BY <1>1, <1>2, <1>3 DEF IsInjective, p

LEMMA TailInjective ==
  ASSUME NEW S, NEW q \in Seq(S), q # <<>>, IsInjective(q)
  PROVE  IsInjective(Tail(q))
<1> DEFINE p == Tail(q)
<1>1. Len(q) \in Nat \ {0} /\ DOMAIN q = 1 .. Len(q)
  BY LenProperties, EmptySeq
<1>2. /\ p \in Seq(S) /\ Len(p) = Len(q) - 1
      /\ \A i \in 1 .. Len(p) : p[i] = q[i + 1]
  BY HeadTailProperties
<1> HIDE DEF p
<1>3. DOMAIN p = 1 .. Len(q) - 1
  BY <1>2, LenProperties
<1> QED
  BY <1>1, <1>2, <1>3 DEF IsInjective, p

LEMMA ConcatInjective ==
  ASSUME NEW S, NEW q \in Seq(S), NEW t \in Seq(S), IsInjective(q), IsInjective(t),
         \A i \in 1 .. Len(q), j \in 1 .. Len(t) : q[i] # t[j]
  PROVE  IsInjective(q \o t)
<1> DEFINE p == q \o t
<1>1. /\ Len(q) \in Nat /\ DOMAIN q = 1 .. Len(q)
      /\ Len(t) \in Nat /\ DOMAIN t = 1 .. Len(t)
  BY LenProperties
<1>2. /\ p \in Seq(S) /\ Len(p) = Len(q) + Len(t)
      /\ \A i \in 1 .. Len(q) + Len(t) : p[i] = IF i <= Len(q) THEN q[i] ELSE t[i - Len(q)]
  BY ConcatProperties
<1> HIDE DEF p
<1>3. DOMAIN p = 1 .. Len(q) + Len(t)
  BY <1>2, LenProperties
<1>4. ASSUME NEW i \in 1 .. Len(q) + Len(t), NEW j \in 1 .. Len(q) + Len(t), p[i] = p[j]
      PROVE  i = j
  <2>1. CASE i <= Len(q) /\ j <= Len(q)
    <3>1. i \in 1 .. Len(q) /\ j \in 1 .. Len(q) /\ q[i] = q[j]
      BY <1>1, <1>2, <1>4, <2>1
    <3> QED
      BY <1>1, <3>1 DEF IsInjective
  <2>2. CASE i > Len(q) /\ j > Len(q)
    <3>1. /\ i - Len(q) \in 1 .. Len(t) /\ j - Len(q) \in 1 .. Len(t)
          /\ t[i - Len(q)] = t[j - Len(q)]
      BY <1>1, <1>2, <1>4, <2>2
    <3>2. i - Len(q) = j - Len(q)
      BY <1>1, <3>1 DEF IsInjective
    <3> QED
      BY <1>1, <3>2
  <2>3. CASE i <= Len(q) /\ j > Len(q)
    <3>1. i \in 1 .. Len(q) /\ j - Len(q) \in 1 .. Len(t) /\ q[i] = t[j - Len(q)]
      BY <1>1, <1>2, <1>4, <2>3
    <3> QED
      BY <3>1
  <2>4. CASE i > Len(q) /\ j <= Len(q)
    <3>1. j \in 1 .. Len(q) /\ i - Len(q) \in 1 .. Len(t) /\ q[j] = t[i - Len(q)]
      BY <1>1, <1>2, <1>4, <2>4
    <3> QED
      BY <3>1
  <2> QED
    BY <1>1, <2>1, <2>2, <2>3, <2>4
<1> QED
  BY <1>3, <1>4 DEF IsInjective, p

\* The history stays a sequence of identifiers without repetitions.
LEMMA RememberProperties ==
  ASSUME NEW I, NEW noID, NEW h \in Seq(I), NEW id \in I \cup {noID}, IsInjective(h)
  PROVE  Remember(h, id, noID) \in Seq(I) /\ IsInjective(Remember(h, id, noID))
<1>1. CASE id = noID \/ Contains(h, id)
  BY <1>1 DEF Remember
<1>2. CASE ~ (id = noID \/ Contains(h, id))
  <2>1. id \in I /\ \A i \in 1 .. Len(h) : h[i] # id
    BY <1>2 DEF Contains
  <2>2. Remember(h, id, noID) = Append(h, id)
    BY <1>2 DEF Remember
  <2> QED
    BY <2>1, <2>2, AppendInjectiveSeq, AppendProperties
<1> QED
  BY <1>1, <1>2
-----------------------------------------------------------------------------
(* ChatQueue. *)

\* The type invariant alone is inductive but for the history, whose proof of
\* being free of repetitions needs its type and the other way round.
Inv == TypeOK /\ QueueDistinct /\ HistoryDistinct

\* A history as the methods leave it.
HistoryOK(h) == h \in Seq(TrackIDs) /\ IsInjective(h)

\* A queue as the methods leave it.
QueueOK(q) == q \in Seq(Songs) /\ IsInjective(q)

LEMMA EmptyOK == QueueOK(<<>>) /\ HistoryOK(<<>>)
  BY DEF QueueOK, HistoryOK, IsInjective

LEMMA InvParts ==
  Inv <=> /\ QueueOK(queue) /\ HistoryOK(history)
          /\ autoplay \in BOOLEAN
          /\ loop \in [Songs -> 0 .. MaxLoop]
  BY DEF Inv, TypeOK, QueueDistinct, HistoryDistinct, QueueOK, HistoryOK

LEMMA InvPartsPrime ==
  Inv' <=> /\ QueueOK(queue') /\ HistoryOK(history')
           /\ autoplay' \in BOOLEAN
           /\ loop' \in [Songs -> 0 .. MaxLoop]
  BY DEF Inv, TypeOK, QueueDistinct, HistoryDistinct, QueueOK, HistoryOK

LEMMA RememberOK ==
  ASSUME NEW h, HistoryOK(h), NEW id \in TrackIDs \cup {NoID}
  PROVE  HistoryOK(Remember(h, id, NoID))
  BY RememberProperties DEF HistoryOK

LEMMA InitInv == Init => Inv
<1> SUFFICES ASSUME Init PROVE Inv
  OBVIOUS
<1>1. MaxLoop \in Nat
  BY ChatQueueAssumption
<1>2. QueueOK(queue) /\ HistoryOK(history)
  BY EmptyOK DEF Init
<1>3. autoplay \in BOOLEAN
  BY Zenon DEF Init
<1>4. loop \in [Songs -> 0 .. MaxLoop]
  BY <1>1 DEF Init
<1> QED
  BY <1>2, <1>3, <1>4, InvParts

\* Every method keeps the invariant.
LEMMA StepInv == Inv /\ [Next]_vars => Inv'
<1> SUFFICES ASSUME Inv, [Next]_vars PROVE Inv'
  OBVIOUS
<1> USE InvParts, InvPartsPrime
<1>0. /\ queue \in Seq(Songs) /\ IsInjective(queue)
      /\ history \in Seq(TrackIDs) /\ IsInjective(history)
      /\ autoplay \in BOOLEAN /\ loop \in [Songs -> 0 .. MaxLoop]
      /\ TrackID \in [Songs -> TrackIDs \cup {NoID}]
      /\ MaxLoop \in Nat
  BY ChatQueueAssumption DEF QueueOK, HistoryOK
<1>1. ASSUME NEW s \in Songs, AddSong(s) PROVE Inv'
  <2>1. QueueOK(queue')
    BY <1>0, <1>1, AppendInjectiveSeq, AppendProperties DEF AddSong, Fresh, QueueOK
  <2>2. HistoryOK(history')
    BY <1>1, EmptyOK DEF AddSong
  <2> QED
    BY <1>0, <1>1, <2>1, <2>2 DEF AddSong
<1>2. ASSUME NEW s \in Songs, AddSongToFront(s) PROVE Inv'
  <2>1. QueueOK(queue')
    BY <1>0, <1>2, InsertNextElements, InsertNextInjective DEF AddSongToFront, Fresh, QueueOK
  <2> QED
    BY <1>0, <1>2, <2>1 DEF AddSongToFront
<1>3. ASSUME NEW n \in 1 .. MaxBatch, NEW ss \in [1 .. n -> Songs], AddSongs(ss) PROVE Inv'
  <2>1. n \in Nat
    BY ChatQueueAssumption
  <2>2. ss \in Seq(Songs)
    BY <2>1
  <2>3. \A i \in 1 .. Len(queue), j \in 1 .. Len(ss) : queue[i] # ss[j]
    BY <1>3 DEF AddSongs, Fresh
  <2>4. QueueOK(queue')
    BY <1>0, <1>3, <2>2, <2>3, ConcatInjective, ConcatProperties DEF AddSongs, QueueOK
  <2> QED
    BY <1>0, <1>3, <2>4 DEF AddSongs
<1>4. ASSUME NEW id \in TrackIDs, MoveTrackToFront(id) PROVE Inv'
  <2>1. PICK i \in 2 .. Len(queue) :
          queue' = MoveNext(queue, i) /\ UNCHANGED <<autoplay, history, loop>>
    BY <1>4 DEF MoveTrackToFront
  <2>2. QueueOK(queue')
    BY <1>0, <2>1, MoveNextElements, MoveNextInjective DEF QueueOK
  <2> QED
    BY <1>0, <2>1, <2>2
<1>5. CASE RemoveCurrentSong
  <2>1. queue # <<>> /\ Head(queue) \in Songs
    BY <1>0, <1>5, HeadTailProperties DEF RemoveCurrentSong
  <2>2. QueueOK(queue')
    BY <1>0, <1>5, <2>1, HeadTailProperties, TailInjective DEF RemoveCurrentSong, QueueOK
  <2>3. TrackID[Head(queue)] \in TrackIDs \cup {NoID}
    BY <1>0, <2>1
  <2>4. HistoryOK(history')
    BY <1>5, <2>3, RememberOK DEF RemoveCurrentSong
  <2> QED
    BY <1>0, <1>5, <2>2, <2>4 DEF RemoveCurrentSong
<1>6. ASSUME NEW i \in 1 .. Len(queue), RemoveTrack(i) PROVE Inv'
  <2>1. QueueOK(queue')
    BY <1>0, <1>6, RemoveAtElements, RemoveAtInjective DEF RemoveTrack, QueueOK
  <2> QED
    BY <1>0, <1>6, <2>1 DEF RemoveTrack
<1>7. ASSUME NEW state \in BOOLEAN, SetAutoplay(state) PROVE Inv'
  BY <1>0, <1>7, EmptyOK DEF SetAutoplay
<1>8. ASSUME NEW last \in TrackIDs, NEW next \in TrackIDs, AddAutoplayHistory(last, next)
      PROVE  Inv'
  <2>1. HistoryOK(history')
    BY <1>8, RememberOK DEF AddAutoplayHistory
  <2> QED
    BY <1>0, <1>8, <2>1 DEF AddAutoplayHistory
<1>9. CASE ClearAutoplayHistory
  BY <1>0, <1>9, EmptyOK DEF ClearAutoplayHistory
<1>10. CASE ClearChat
  BY <1>0, <1>10, EmptyOK DEF ClearChat
<1>11. ASSUME NEW n \in 0 .. MaxLoop, SetLoopCount(n) PROVE Inv'
  BY <1>0, <1>11 DEF SetLoopCount
<1>12. CASE UNCHANGED vars
  BY <1>12 DEF vars
<1> QED
  BY <1>1, <1>2, <1>3, <1>4, <1>5, <1>6, <1>7, <1>8, <1>9, <1>10, <1>11, <1>12 DEF Next

\* The state of the cacher is well typed, whatever methods are called in
\* whatever order (player_cache.go:25-44).
THEOREM TypeCorrect == Spec => []TypeOK
<1>1. Inv => TypeOK
  BY DEF Inv
<1> QED
  BY InitInv, StepInv, <1>1, PTL DEF Spec

\* No method puts a song object into the queue twice, and neither inserting
\* nor moving leaves a copy of one behind (player_cache.go:76-129, 182-202).
THEOREM QueueStaysDistinct == Spec => []QueueDistinct
<1>1. Inv => QueueDistinct
  BY DEF Inv
<1> QED
  BY InitInv, StepInv, <1>1, PTL DEF Spec

\* The autoplay history never holds an identifier twice, so its length counts
\* tracks when handleAutoplay compares it with the limit (player_cache.go:
\* 168-174, 252-268; autoplay.go:18).
THEOREM HistoryStaysDistinct == Spec => []HistoryDistinct
<1>1. Inv => HistoryDistinct
  BY DEF Inv
<1> QED
  BY InitInv, StepInv, <1>1, PTL DEF Spec

\* What HeadIsStable says of a step.
HeadStep ==
  \/ queue = <<>>
  \/ queue' = <<>>
  \/ Head(queue') = Head(queue)
  \/ queue' = Tail(queue)

LEMMA StepHead == Inv /\ [Next]_vars => HeadStep
<1> SUFFICES ASSUME Inv, [Next]_vars, queue # <<>> PROVE HeadStep
  BY DEF HeadStep
<1>0. /\ queue \in Seq(Songs) /\ Len(queue) \in Nat \ {0}
      /\ Head(queue) = queue[1]
  BY EmptySeq DEF Inv, TypeOK
<1> USE DEF HeadStep
\* A step to a queue that has the same first element keeps the head.
<1>a. ASSUME NEW p \in Seq(Songs), Len(p) > 0, p[1] = queue[1], queue' = p PROVE HeadStep
  BY <1>0, <1>a
<1>1. ASSUME NEW s \in Songs, AddSong(s) PROVE HeadStep
  BY <1>0, <1>1, HeadTailAppend DEF AddSong
<1>2. ASSUME NEW s \in Songs, AddSongToFront(s) PROVE HeadStep
  <2>1. /\ InsertNext(queue, s) \in Seq(Songs)
        /\ Len(InsertNext(queue, s)) = Len(queue) + 1
        /\ InsertNext(queue, s)[1] = queue[1]
    BY <1>0, InsertNextElements
  <2> QED
    BY <1>0, <1>2, <1>a, <2>1 DEF AddSongToFront
<1>3. ASSUME NEW n \in 1 .. MaxBatch, NEW ss \in [1 .. n -> Songs], AddSongs(ss)
      PROVE  HeadStep
  <2>1. ss \in Seq(Songs) /\ Len(ss) \in Nat
    BY ChatQueueAssumption
  <2>2. /\ queue \o ss \in Seq(Songs) /\ Len(queue \o ss) = Len(queue) + Len(ss)
        /\ (queue \o ss)[1] = queue[1]
    BY <1>0, <2>1, ConcatProperties
  <2> QED
    BY <1>0, <1>3, <1>a, <2>1, <2>2 DEF AddSongs
<1>4. ASSUME NEW id \in TrackIDs, MoveTrackToFront(id) PROVE HeadStep
  <2>1. PICK i \in 2 .. Len(queue) : queue' = MoveNext(queue, i)
    BY <1>4 DEF MoveTrackToFront
  <2>2. /\ MoveNext(queue, i) \in Seq(Songs) /\ Len(MoveNext(queue, i)) = Len(queue)
        /\ MoveNext(queue, i)[1] = queue[1]
    BY <1>0, MoveNextElements
  <2> QED
    BY <1>0, <1>a, <2>1, <2>2
<1>5. CASE RemoveCurrentSong
  BY <1>5 DEF RemoveCurrentSong
<1>6. ASSUME NEW i \in 1 .. Len(queue), RemoveTrack(i) PROVE HeadStep
  <2> DEFINE p == RemoveAt(queue, i)
  <2>1. /\ p \in Seq(Songs) /\ Len(p) = Len(queue) - 1
        /\ \A j \in 1 .. Len(queue) - 1 : p[j] = IF j < i THEN queue[j] ELSE queue[j + 1]
    BY <1>0, RemoveAtElements
  <2>2. queue' = p
    BY <1>6 DEF RemoveTrack
  <2> HIDE DEF p
  <2>3. CASE i = 1
    <3>1. /\ Tail(queue) \in Seq(Songs) /\ Len(Tail(queue)) = Len(queue) - 1
          /\ \A j \in 1 .. Len(queue) - 1 : Tail(queue)[j] = queue[j + 1]
      BY <1>0, HeadTailProperties
    <3>2. \A j \in 1 .. Len(p) : p[j] = Tail(queue)[j]
      BY <1>0, <2>1, <2>3, <3>1
    <3>3. p = Tail(queue)
      BY <2>1, <3>1, <3>2, SeqEqual
    <3> QED
      BY <2>2, <3>3
  <2>4. CASE i > 1
    <3>1. Len(p) > 0 /\ p[1] = queue[1]
      BY <1>0, <2>1, <2>4
    <3> QED
      BY <1>a, <2>1, <2>2, <3>1
  <2> QED
    BY <1>0, <2>3, <2>4
<1>7. ASSUME NEW state \in BOOLEAN, SetAutoplay(state) PROVE HeadStep
  BY <1>7 DEF SetAutoplay
<1>8. ASSUME NEW last \in TrackIDs, NEW next \in TrackIDs, AddAutoplayHistory(last, next)
      PROVE  HeadStep
  BY <1>8 DEF AddAutoplayHistory
<1>9. CASE ClearAutoplayHistory
  BY <1>9 DEF ClearAutoplayHistory
<1>10. CASE ClearChat
  BY <1>10 DEF ClearChat
<1>11. ASSUME NEW n \in 0 .. MaxLoop, SetLoopCount(n) PROVE HeadStep
  BY <1>11 DEF SetLoopCount
<1>12. CASE UNCHANGED vars
  BY <1>12 DEF vars
<1> QED
  BY <1>1, <1>2, <1>3, <1>4, <1>5, <1>6, <1>7, <1>8, <1>9, <1>10, <1>11, <1>12 DEF Next

\* The current track is replaced only by being taken off the queue: no method
\* that inserts or moves a track changes the one at index 0 (player_cache.go:
\* 90-92, 99, 124-126).
THEOREM HeadStaysStable == Spec => HeadIsStable
<1>1. Spec => []Inv
  BY InitInv, StepInv, PTL DEF Spec
<1>2. Inv /\ [Next]_vars => [HeadStep]_vars
  BY StepHead
<1>3. Spec => [][HeadStep]_vars
  BY <1>1, <1>2, PTL DEF Spec
<1> QED
  BY <1>3 DEF HeadIsStable, HeadStep
-----------------------------------------------------------------------------
(* The order of the queue. *)

\* Nothing overtakes what was before it, but for what is now second.
Ordered(q, p) ==
  \A i, j \in 1 .. Len(q) : \A k, l \in 1 .. Len(p) :
    (i < j /\ p[k] = q[i] /\ p[l] = q[j]) => (k < l \/ l = 2)

\* It is enough to say, with old, where each entry was, 0 for a new one.
LEMMA OrderedByPlaces ==
  ASSUME NEW S, NEW q \in Seq(S), NEW p \in Seq(S), IsInjective(q),
         NEW old \in [1 .. Len(p) -> 0 .. Len(q)],
         \A k \in 1 .. Len(p) : old[k] # 0 => p[k] = q[old[k]],
         \A k \in 1 .. Len(p) : old[k] = 0 => \A i \in 1 .. Len(q) : p[k] # q[i],
         \A k, l \in 1 .. Len(p) : (l <= k /\ l # 2 /\ old[k] # 0 /\ old[l] # 0)
                                     => old[l] <= old[k]
  PROVE  Ordered(q, p)
<1> SUFFICES ASSUME NEW i \in 1 .. Len(q), NEW j \in 1 .. Len(q),
                    NEW k \in 1 .. Len(p), NEW l \in 1 .. Len(p),
                    i < j, p[k] = q[i], p[l] = q[j], ~ (k < l), l # 2
             PROVE  FALSE
  BY DEF Ordered
<1>1. DOMAIN q = 1 .. Len(q) /\ Len(q) \in Nat /\ Len(p) \in Nat
  BY LenProperties
<1>2. old[k] # 0 /\ old[l] # 0
  OBVIOUS
<1>3. old[k] \in 1 .. Len(q) /\ old[l] \in 1 .. Len(q)
  BY <1>1, <1>2
<1>4. old[k] = i /\ old[l] = j
  BY <1>1, <1>2, <1>3 DEF IsInjective
<1> QED
  BY <1>1, <1>2, <1>4

LEMMA AppendOrdered ==
  ASSUME NEW S, NEW q \in Seq(S), NEW ss \in Seq(S), IsInjective(q),
         \A i \in 1 .. Len(q), j \in 1 .. Len(ss) : q[i] # ss[j]
  PROVE  Ordered(q, q \o ss)
<1> DEFINE p == q \o ss
           old == [k \in 1 .. Len(p) |-> IF k <= Len(q) THEN k ELSE 0]
<1>1. Len(q) \in Nat /\ Len(ss) \in Nat
  BY LenProperties
<1>2. /\ p \in Seq(S) /\ Len(p) = Len(q) + Len(ss)
      /\ \A i \in 1 .. Len(q) + Len(ss) : p[i] = IF i <= Len(q) THEN q[i] ELSE ss[i - Len(q)]
  BY ConcatProperties
<1> HIDE DEF p
<1>3. \A k \in 1 .. Len(p) : old[k] = 0 => \A i \in 1 .. Len(q) : p[k] # q[i]
  <2> SUFFICES ASSUME NEW k \in 1 .. Len(p), old[k] = 0, NEW i \in 1 .. Len(q)
               PROVE  p[k] # q[i]
    OBVIOUS
  <2>1. k > Len(q) /\ k - Len(q) \in 1 .. Len(ss) /\ p[k] = ss[k - Len(q)]
    BY <1>1, <1>2
  <2> QED
    BY <2>1
<1>4. \A k \in 1 .. Len(p) : old[k] \in 0 .. Len(q) /\ (old[k] # 0 => p[k] = q[old[k]])
  BY <1>1, <1>2
<1>5. \A k, l \in 1 .. Len(p) : (l <= k /\ l # 2 /\ old[k] # 0 /\ old[l] # 0) => old[l] <= old[k]
  BY <1>1, <1>2
<1>t. old \in [1 .. Len(p) -> 0 .. Len(q)]
  BY <1>1, <1>2
<1> HIDE DEF old
<1> QED
  BY <1>2, <1>3, <1>4, <1>5, <1>t, OrderedByPlaces DEF p

LEMMA InsertNextOrdered ==
  ASSUME NEW S, NEW q \in Seq(S), NEW song \in S, IsInjective(q),
         \A i \in 1 .. Len(q) : q[i] # song
  PROVE  Ordered(q, InsertNext(q, song))
<1> DEFINE p == InsertNext(q, song)
           old == [k \in 1 .. Len(p) |-> IF k < 2 THEN k ELSE IF k = 2 THEN 0 ELSE k - 1]
<1>1. Len(q) \in Nat
  BY LenProperties
<1>2. CASE q = <<>>
  <2>1. Len(q) = 0
    BY <1>2
  <2> QED
    BY <2>1 DEF Ordered
<1>3. CASE q # <<>>
  <2>1. /\ p \in Seq(S) /\ Len(p) = Len(q) + 1 /\ Len(q) > 0
        /\ \A j \in 1 .. Len(q) + 1 : p[j] = IF j < 2 THEN q[j] ELSE IF j = 2 THEN song ELSE q[j - 1]
    <3>1. Len(q) > 0
      BY <1>1, <1>3, EmptySeq
    <3> HIDE DEF old
    <3> QED
      BY <1>3, <3>1, InsertNextElements
  <2> HIDE DEF p
  <2>2. \A k \in 1 .. Len(p) : old[k] # 0 => p[k] = q[old[k]]
    <3> SUFFICES ASSUME NEW k \in 1 .. Len(p), old[k] # 0
                 PROVE  p[k] = q[old[k]]
      OBVIOUS
    <3>0. k # 2
      BY <1>1, <2>1
    <3>1. CASE k < 2
      <4>1. old[k] = k /\ p[k] = q[k]
        BY <1>1, <2>1, <3>1
      <4> QED
        BY <4>1
    <3>2. CASE k > 2
      <4>1. old[k] = k - 1 /\ p[k] = q[k - 1]
        BY <1>1, <2>1, <3>2
      <4> QED
        BY <4>1
    <3> QED
      BY <1>1, <2>1, <3>0, <3>1, <3>2
  <2>3. \A k \in 1 .. Len(p) : old[k] = 0 => p[k] = song
    <3>1. ASSUME NEW k \in 1 .. Len(p), old[k] = 0
          PROVE  k = 2
      BY <1>1, <2>1, <3>1
    <3> HIDE DEF old
    <3> QED
      BY <1>1, <2>1, <3>1
  <2>4. \A k, l \in 1 .. Len(p) : (l <= k /\ l # 2 /\ old[k] # 0 /\ old[l] # 0) => old[l] <= old[k]
    BY <1>1, <2>1
  <2>t. old \in [1 .. Len(p) -> 0 .. Len(q)]
    BY <1>1, <2>1
  <2> HIDE DEF old
  <2> QED
    BY <2>1, <2>2, <2>3, <2>4, <2>t, OrderedByPlaces DEF p
<1> QED
  BY <1>2, <1>3

LEMMA MoveNextOrdered ==
  ASSUME NEW S, NEW q \in Seq(S), NEW i \in 2 .. Len(q), IsInjective(q)
  PROVE  Ordered(q, MoveNext(q, i))
<1> DEFINE p == MoveNext(q, i)
           old == [k \in 1 .. Len(p) |-> IF k = 2 THEN i ELSE IF k \in 3 .. i THEN k - 1 ELSE k]
<1>1. Len(q) \in Nat
  BY LenProperties
<1>2. /\ p \in Seq(S) /\ Len(p) = Len(q)
      /\ \A j \in 1 .. Len(q) :
           p[j] = IF j = 2 THEN q[i] ELSE IF j \in 3 .. i THEN q[j - 1] ELSE q[j]
  BY MoveNextElements
<1> HIDE DEF p
<1>3. \A k \in 1 .. Len(p) : old[k] \in 1 .. Len(q) /\ p[k] = q[old[k]]
  BY <1>1, <1>2
<1>4. \A k, l \in 1 .. Len(p) : (l <= k /\ l # 2) => old[l] <= old[k]
  BY <1>1, <1>2
<1>5. \A k \in 1 .. Len(p) : old[k] \in 0 .. Len(q) /\ old[k] # 0
  BY <1>1, <1>2
<1>t. old \in [1 .. Len(p) -> 0 .. Len(q)]
  BY <1>1, <1>2
<1> HIDE DEF old
<1> QED
  BY <1>2, <1>3, <1>4, <1>5, <1>t, OrderedByPlaces DEF p

LEMMA RemoveAtOrdered ==
  ASSUME NEW S, NEW q \in Seq(S), NEW i \in 1 .. Len(q), IsInjective(q)
  PROVE  Ordered(q, RemoveAt(q, i))
<1> DEFINE p == RemoveAt(q, i)
           old == [k \in 1 .. Len(p) |-> IF k < i THEN k ELSE k + 1]
<1>1. Len(q) \in Nat
  BY LenProperties
<1>2. /\ p \in Seq(S) /\ Len(p) = Len(q) - 1
      /\ \A j \in 1 .. Len(q) - 1 : p[j] = IF j < i THEN q[j] ELSE q[j + 1]
  BY RemoveAtElements
<1> HIDE DEF p
<1>3. \A k \in 1 .. Len(p) : old[k] \in 0 .. Len(q) /\ old[k] # 0 /\ p[k] = q[old[k]]
  BY <1>1, <1>2
<1>4. \A k, l \in 1 .. Len(p) : (l <= k /\ l # 2) => old[l] <= old[k]
  BY <1>1, <1>2
<1>t. old \in [1 .. Len(p) -> 0 .. Len(q)]
  BY <1>1, <1>2
<1> HIDE DEF old
<1> QED
  BY <1>2, <1>3, <1>4, <1>t, OrderedByPlaces DEF p

LEMMA TailOrdered ==
  ASSUME NEW S, NEW q \in Seq(S), q # <<>>, IsInjective(q)
  PROVE  Ordered(q, Tail(q))
<1> DEFINE p == Tail(q)
           old == [k \in 1 .. Len(p) |-> k + 1]
<1>1. Len(q) \in Nat \ {0}
  BY LenProperties, EmptySeq
<1>2. /\ p \in Seq(S) /\ Len(p) = Len(q) - 1 /\ \A i \in 1 .. Len(p) : p[i] = q[i + 1]
  BY HeadTailProperties
<1> HIDE DEF p
<1>3. \A k \in 1 .. Len(p) : old[k] \in 0 .. Len(q) /\ old[k] # 0 /\ p[k] = q[old[k]]
  BY <1>1, <1>2
<1>4. \A k, l \in 1 .. Len(p) : (l <= k /\ l # 2) => old[l] <= old[k]
  BY <1>1, <1>2
<1>t. old \in [1 .. Len(p) -> 0 .. Len(q)]
  BY <1>1, <1>2
<1> HIDE DEF old
<1> QED
  BY <1>2, <1>3, <1>4, <1>t, OrderedByPlaces DEF p

LEMMA SameOrdered ==
  ASSUME NEW S, NEW q \in Seq(S), IsInjective(q)
  PROVE  Ordered(q, q) /\ Ordered(q, <<>>)
<1>1. Len(q) \in Nat /\ Len(<<>>) = 0 /\ DOMAIN q = 1 .. Len(q)
  BY LenProperties
<1> QED
  BY <1>1 DEF Ordered, IsInjective

LEMMA StepOrdered == Inv /\ [Next]_vars => Ordered(queue, queue')
<1> SUFFICES ASSUME Inv, [Next]_vars PROVE Ordered(queue, queue')
  OBVIOUS
<1>0. queue \in Seq(Songs) /\ IsInjective(queue)
  BY DEF Inv, TypeOK, QueueDistinct
<1>1. ASSUME NEW s \in Songs, AddSong(s) PROVE Ordered(queue, queue')
  <2>1. <<s>> \in Seq(Songs) /\ Len(<<s>>) = 1 /\ <<s>>[1] = s
    OBVIOUS
  <2>2. queue' = queue \o <<s>>
    BY <1>0, <1>1, AppendIsConcat DEF AddSong
  <2>3. \A i \in 1 .. Len(queue), j \in 1 .. Len(<<s>>) : queue[i] # <<s>>[j]
    BY <1>1, <2>1 DEF AddSong, Fresh
  <2> QED
    BY <1>0, <2>1, <2>2, <2>3, AppendOrdered
<1>2. ASSUME NEW s \in Songs, AddSongToFront(s) PROVE Ordered(queue, queue')
  BY <1>0, <1>2, InsertNextOrdered DEF AddSongToFront, Fresh
<1>3. ASSUME NEW n \in 1 .. MaxBatch, NEW ss \in [1 .. n -> Songs], AddSongs(ss)
      PROVE  Ordered(queue, queue')
  <2>1. ss \in Seq(Songs)
    BY ChatQueueAssumption
  <2>2. \A i \in 1 .. Len(queue), j \in 1 .. Len(ss) : queue[i] # ss[j]
    BY <1>3 DEF AddSongs, Fresh
  <2> QED
    BY <1>0, <1>3, <2>1, <2>2, AppendOrdered DEF AddSongs
<1>4. ASSUME NEW id \in TrackIDs, MoveTrackToFront(id) PROVE Ordered(queue, queue')
  <2>1. PICK i \in 2 .. Len(queue) : queue' = MoveNext(queue, i)
    BY <1>4 DEF MoveTrackToFront
  <2> QED
    BY <1>0, <2>1, MoveNextOrdered
<1>5. CASE RemoveCurrentSong
  BY <1>0, <1>5, TailOrdered DEF RemoveCurrentSong
<1>6. ASSUME NEW i \in 1 .. Len(queue), RemoveTrack(i) PROVE Ordered(queue, queue')
  BY <1>0, <1>6, RemoveAtOrdered DEF RemoveTrack
<1>7. CASE queue' = queue \/ queue' = <<>>
  BY <1>0, <1>7, SameOrdered
<1>8. CASE \/ \E state \in BOOLEAN : SetAutoplay(state)
           \/ \E last, next \in TrackIDs : AddAutoplayHistory(last, next)
           \/ ClearAutoplayHistory \/ ClearChat
           \/ \E n \in 0 .. MaxLoop : SetLoopCount(n)
           \/ UNCHANGED vars
  BY <1>7, <1>8
     DEF SetAutoplay, AddAutoplayHistory, ClearAutoplayHistory, ClearChat, SetLoopCount, vars
<1> QED
  BY <1>1, <1>2, <1>3, <1>4, <1>5, <1>6, <1>8 DEF Next

\* A step never swaps two queued tracks, except that the track which it puts
\* right after the current one may overtake others (player_cache.go:97, 184).
THEOREM OrderStays == Spec => OrderIsPreserved
<1>1. Spec => []Inv
  BY InitInv, StepInv, PTL DEF Spec
<1>2. Inv /\ [Next]_vars => [Ordered(queue, queue')]_vars
  BY StepOrdered
<1>3. Spec => [][Ordered(queue, queue')]_vars
  BY <1>1, <1>2, PTL DEF Spec
<1> QED
  BY <1>3 DEF OrderIsPreserved, Ordered

-----------------------------------------------------------------------------
(* SliceQueue implements ChatQueue. *)

\* What a slot of the array holds.
Slots == Songs \cup {Nil}

\* The window lies within the array, and what is in it are songs; the nil
\* pointers that removals leave behind are outside.
SliceOK ==
  /\ size \in Nat /\ base \in Nat
  /\ \E n \in Nat : array \in [0 .. n - 1 -> Slots] /\ base + size <= n
  /\ \A x \in base .. base + size - 1 : array[x] \in Songs

LEMMA WindowSeq ==
  ASSUME SliceOK
  PROVE  /\ Slice!Window \in Seq(Songs) /\ Len(Slice!Window) = size
         /\ \A i \in 1 .. size : Slice!Window[i] = array[base + i - 1]
<1>1. \A i \in 1 .. size : array[base + i - 1] \in Songs
  BY DEF SliceOK
<1>2. Slice!Window \in [1 .. size -> Songs]
  BY <1>1 DEF Slice!Window
<1>3. size \in Nat
  BY DEF SliceOK
<1> QED
  BY <1>2, <1>3 DEF Slice!Window

\* The window that a method leaves, read as a sequence.
LEMMA WindowNext ==
  ASSUME NEW q \in Seq(Songs), NEW n \in Nat, base' \in Nat, size' = Len(q),
         array' \in [0 .. n - 1 -> Slots], base' + Len(q) <= n,
         \A i \in 1 .. Len(q) : array'[base' + i - 1] = q[i]
  PROVE  SliceOK' /\ Slice!Window' = q
<1>1. Len(q) \in Nat /\ q \in [1 .. Len(q) -> Songs]
  BY LenProperties
<1>2. \A x \in base' .. base' + size' - 1 : array'[x] \in Songs
  <2> SUFFICES ASSUME NEW x \in base' .. base' + Len(q) - 1
               PROVE  array'[x] \in Songs
    OBVIOUS
  <2>1. Len(q) \in Nat
    BY <1>1
  <2>2. x - base' + 1 \in 1 .. Len(q) /\ base' + (x - base' + 1) - 1 = x
    BY <2>1
  <2>3. array'[base' + (x - base' + 1) - 1] = q[x - base' + 1]
    BY <2>2
  <2>4. q[x - base' + 1] \in Songs
    BY <1>1, <2>2
  <2> QED
    BY <2>2, <2>3, <2>4
<1>3. SliceOK'
  BY <1>1, <1>2 DEF SliceOK
<1>4. Slice!Window' = q
  BY <1>1 DEF Slice!Window
<1> QED
  BY <1>3, <1>4

\* append: the window is still there, the new entries behind it, and there is
\* room for both.
HasAppended(r, xs, k) ==
  /\ r[2] \in Nat
  /\ \E n \in Nat : r[1] \in [0 .. n - 1 -> Slots] /\ r[2] + size + k <= n
  /\ \A i \in 0 .. size - 1 : r[1][r[2] + i] = array[base + i]
  /\ \A i \in 1 .. k : r[1][r[2] + size + i - 1] = xs[i]

LEMMA AppendedSlots ==
  ASSUME SliceOK, NEW xs \in Seq(Slots), Len(xs) > 0, NEW r \in Slice!Appended(xs)
  PROVE  HasAppended(r, xs, Len(xs))
<1>1. PICK n \in Nat : array \in [0 .. n - 1 -> Slots] /\ base + size <= n
  BY DEF SliceOK
<1>2. size \in Nat /\ base \in Nat /\ Len(xs) \in Nat /\ xs \in [1 .. Len(xs) -> Slots]
  BY LenProperties DEF SliceOK
<1>3. CASE (base + size + Len(xs)) - 1 \in DOMAIN array
  <2> DEFINE A == [x \in DOMAIN array |-> IF x \in base + size .. base + size + Len(xs) - 1
                                          THEN xs[x - (base + size) + 1]
                                          ELSE array[x]]
  <2>1. r = <<A, base>>
    BY <1>3 DEF Slice!Appended
  <2>2. DOMAIN array = 0 .. n - 1 /\ base + size + Len(xs) <= n
    BY <1>1, <1>2, <1>3
  <2>3. A \in [0 .. n - 1 -> Slots]
    <3>1. \A x \in base + size .. base + size + Len(xs) - 1 : x - (base + size) + 1 \in 1 .. Len(xs)
      BY <1>2
    <3> QED
      BY <1>1, <1>2, <2>2, <3>1
  <2>4. \A i \in 0 .. size - 1 : A[base + i] = array[base + i]
    <3> SUFFICES ASSUME NEW i \in 0 .. size - 1
                 PROVE  A[base + i] = array[base + i]
      OBVIOUS
    <3>1. base + i \in 0 .. n - 1 /\ base + i \notin base + size .. base + size + Len(xs) - 1
      BY <1>1, <1>2
    <3> QED
      BY <2>2, <3>1
  <2>5. \A i \in 1 .. Len(xs) : A[base + size + i - 1] = xs[i]
    BY <1>1, <1>2, <2>2
  <2>6. r[1] = A /\ r[2] = base
    BY <2>1
  <2> HIDE DEF A
  <2> QED
    BY <1>2, <2>2, <2>3, <2>4, <2>5, <2>6 DEF HasAppended
<1>4. CASE (base + size + Len(xs)) - 1 \notin DOMAIN array
  <2> DEFINE B(m) == [x \in 0 .. m - 1 |-> IF x < size THEN array[base + x]
                                           ELSE IF x < size + Len(xs) THEN xs[x - size + 1]
                                           ELSE Nil]
  <2>1. PICK m \in Capacities : m >= size + Len(xs) /\ r = <<B(m), 0>>
    BY <1>4 DEF Slice!Appended
  <2>2. m \in Nat
    BY SliceAssumption
  <2>3. B(m) \in [0 .. m - 1 -> Slots]
    <3>1. \A x \in 0 .. m - 1 : x < size => array[base + x] \in Slots
      <4> SUFFICES ASSUME NEW x \in 0 .. m - 1, x < size
                   PROVE  array[base + x] \in Slots
        OBVIOUS
      <4>1. base + x \in 0 .. n - 1
        BY <1>1, <1>2, <2>2
      <4> QED
        BY <1>1, <4>1
    <3>2. \A x \in 0 .. m - 1 : ~ (x < size) /\ x < size + Len(xs) => xs[x - size + 1] \in Slots
      <4> SUFFICES ASSUME NEW x \in 0 .. m - 1, ~ (x < size), x < size + Len(xs)
                   PROVE  xs[x - size + 1] \in Slots
        OBVIOUS
      <4>1. x - size + 1 \in 1 .. Len(xs)
        BY <1>2, <2>2
      <4> QED
        BY <1>2, <4>1
    <3>3. Nil \in Slots
      BY DEF Slots
    <3> QED
      BY <3>1, <3>2, <3>3
  <2>4. \A i \in 0 .. size - 1 : B(m)[0 + i] = array[base + i]
    BY <1>2, <2>1, <2>2
  <2>5. \A i \in 1 .. Len(xs) : B(m)[0 + size + i - 1] = xs[i]
    BY <1>2, <2>1, <2>2
  <2>6. r[1] = B(m) /\ r[2] = 0
    BY <2>1
  <2> HIDE DEF B
  <2> QED
    BY <1>2, <2>1, <2>2, <2>3, <2>4, <2>5, <2>6 DEF HasAppended
<1> QED
  BY <1>3, <1>4

\* The operators of the two modules are those of QueueOps.
LEMMA SameOperators ==
  /\ \A q, s : Slice!Abstract!InsertNext(q, s) = InsertNext(q, s)
  /\ \A q, i : Slice!Abstract!MoveNext(q, i) = MoveNext(q, i)
  /\ \A q, i : Slice!Abstract!RemoveAt(q, i) = RemoveAt(q, i)
  /\ \A h, id, no : Slice!Abstract!Remember(h, id, no) = Slice!Remember(h, id, no)
  /\ \A h, id : Slice!Abstract!Contains(h, id) = Slice!Contains(h, id)
  /\ \A q : Slice!Abstract!IsInjective(q) = Slice!IsInjective(q)
<1>1. \A q, s : Slice!Abstract!InsertNext(q, s) = InsertNext(q, s)
  BY DEF Slice!Abstract!InsertNext, InsertNext, Slice!Abstract!InsertAt, InsertAt
<1>2. \A q, i : Slice!Abstract!MoveNext(q, i) = MoveNext(q, i)
  BY DEF Slice!Abstract!MoveNext, MoveNext, Slice!Abstract!InsertAt, InsertAt,
         Slice!Abstract!RemoveAt, RemoveAt
<1>3. \A q, i : Slice!Abstract!RemoveAt(q, i) = RemoveAt(q, i)
  BY DEF Slice!Abstract!RemoveAt, RemoveAt
<1>4. \A h, id, no : Slice!Abstract!Remember(h, id, no) = Slice!Remember(h, id, no)
  BY DEF Slice!Abstract!Remember, Slice!Remember, Slice!Abstract!Contains, Slice!Contains
<1>5. \A h, id : Slice!Abstract!Contains(h, id) = Slice!Contains(h, id)
  BY DEF Slice!Abstract!Contains, Slice!Contains
<1>6. \A q : Slice!Abstract!IsInjective(q) = Slice!IsInjective(q)
  BY DEF Slice!Abstract!IsInjective, Slice!IsInjective
<1> QED
  BY <1>1, <1>2, <1>3, <1>4, <1>5, <1>6

LEMMA SameFresh ==
  ASSUME SliceOK, NEW s, Slice!Fresh(s)
  PROVE  Slice!Abstract!Fresh(s) /\ \A i \in 1 .. Len(Slice!Window) : Slice!Window[i] # s
<1>1. \A i \in 1 .. size : i - 1 \in 0 .. size - 1 /\ base + (i - 1) = base + i - 1
  BY DEF SliceOK
<1>2. \A i \in 1 .. size : array[base + i - 1] # s
  BY <1>1 DEF Slice!Fresh
<1> QED
  BY <1>2, WindowSeq DEF Slice!Abstract!Fresh

LEMMA SliceAddSong ==
  ASSUME SliceOK, NEW s \in Songs, Slice!AddSong(s)
  PROVE  SliceOK' /\ Slice!Abstract!AddSong(s)
<1>0. PICK W, q, xs : W = Slice!Window /\ q = Append(W, s) /\ xs = <<s>>
  OBVIOUS
<1>1. W \in Seq(Songs) /\ Len(W) = size /\ \A i \in 1 .. size : W[i] = array[base + i - 1]
  BY <1>0, WindowSeq
<1>2. size \in Nat /\ base \in Nat
  BY DEF SliceOK
<1>3. PICK r \in Slice!Appended(xs) : array' = r[1] /\ base' = r[2]
  BY <1>0 DEF Slice!AddSong
<1>a. xs \in Seq(Slots) /\ Len(xs) = 1
  BY <1>0 DEF Slots
<1>4. xs[1] = s
  BY <1>0
<1>5. /\ r[2] \in Nat
      /\ \E n \in Nat : r[1] \in [0 .. n - 1 -> Slots] /\ r[2] + size + 1 <= n
      /\ \A i \in 0 .. size - 1 : r[1][r[2] + i] = array[base + i]
      /\ \A i \in 1 .. 1 : r[1][r[2] + size + i - 1] = xs[i]
  <2>1. Len(xs) > 0
    BY <1>a
  <2>2. HasAppended(r, xs, Len(xs))
    BY <1>a, <2>1, AppendedSlots, Zenon
  <2> QED
    BY <1>a, <2>2 DEF HasAppended
<1>6. PICK n \in Nat : r[1] \in [0 .. n - 1 -> Slots] /\ r[2] + size + 1 <= n
  BY <1>5
<1>7. /\ q \in Seq(Songs) /\ Len(q) = size + 1
      /\ \A i \in 1 .. size : q[i] = W[i]
      /\ q[size + 1] = s
  BY <1>0, <1>1, AppendProperties
<1>8. \A i \in 1 .. Len(q) : array'[base' + i - 1] = q[i]
  <2> SUFFICES ASSUME NEW i \in 1 .. size + 1
               PROVE  r[1][r[2] + i - 1] = q[i]
    BY <1>3, <1>7
  <2>1. CASE i <= size
    <3>1. i - 1 \in 0 .. size - 1 /\ r[2] + (i - 1) = r[2] + i - 1 /\ base + (i - 1) = base + i - 1
      BY <1>2, <1>5, <2>1
    <3>2. r[1][r[2] + i - 1] = array[base + i - 1]
      BY <1>5, <3>1
    <3> QED
      BY <1>1, <1>2, <1>7, <2>1, <3>2
  <2>2. CASE i = size + 1
    <3>1. r[1][r[2] + size + 1 - 1] = s /\ r[2] + size + 1 - 1 = r[2] + i - 1
      BY <1>2, <1>4, <1>5, <2>2
    <3> QED
      BY <1>7, <2>2, <3>1
  <2> QED
    BY <1>2, <2>1, <2>2
<1>9. size' = Len(q) /\ base' \in Nat /\ base' + Len(q) <= n
  BY <1>2, <1>3, <1>5, <1>6, <1>7 DEF Slice!AddSong
<1>10. SliceOK' /\ Slice!Window' = q
  BY <1>3, <1>6, <1>7, <1>8, <1>9, WindowNext
<1>11. Slice!Abstract!Fresh(s)
  BY SameFresh DEF Slice!AddSong
<1> QED
  BY <1>0, <1>10, <1>11 DEF Slice!AddSong, Slice!Abstract!AddSong

LEMMA SliceAddSongs ==
  ASSUME SliceOK, NEW m \in 1 .. MaxBatch, NEW ss \in [1 .. m -> Songs], Slice!AddSongs(ss)
  PROVE  SliceOK' /\ Slice!Abstract!AddSongs(ss)
<1> DEFINE W == Slice!Window
           q == W \o ss
<1>1. W \in Seq(Songs) /\ Len(W) = size /\ \A i \in 1 .. size : W[i] = array[base + i - 1]
  BY WindowSeq
<1>2. size \in Nat /\ base \in Nat /\ m \in Nat /\ m > 0
  BY ChatQueueAssumption DEF SliceOK
<1>3. PICK r \in Slice!Appended(ss) : array' = r[1] /\ base' = r[2]
  BY DEF Slice!AddSongs
<1>4. ss \in Seq(Slots) /\ ss \in Seq(Songs) /\ Len(ss) = m
  BY <1>2 DEF Slots
<1>5. /\ r[2] \in Nat
      /\ \E n \in Nat : r[1] \in [0 .. n - 1 -> Slots] /\ r[2] + size + m <= n
      /\ \A i \in 0 .. size - 1 : r[1][r[2] + i] = array[base + i]
      /\ \A i \in 1 .. m : r[1][r[2] + size + i - 1] = ss[i]
  <2>1. HasAppended(r, ss, m)
    BY <1>2, <1>4, AppendedSlots
  <2> QED
    BY <2>1 DEF HasAppended
<1>6. PICK n \in Nat : r[1] \in [0 .. n - 1 -> Slots] /\ r[2] + size + m <= n
  BY <1>5
<1> HIDE DEF W
<1>7. /\ q \in Seq(Songs) /\ Len(q) = size + m
      /\ \A i \in 1 .. size + m : q[i] = IF i <= size THEN W[i] ELSE ss[i - size]
  BY <1>1, <1>4, ConcatProperties
<1> HIDE DEF q
<1>8. \A i \in 1 .. Len(q) : array'[base' + i - 1] = q[i]
  <2> SUFFICES ASSUME NEW i \in 1 .. size + m
               PROVE  r[1][r[2] + i - 1] = q[i]
    BY <1>3, <1>7
  <2>1. CASE i <= size
    <3>1. i - 1 \in 0 .. size - 1 /\ r[2] + (i - 1) = r[2] + i - 1 /\ base + (i - 1) = base + i - 1
      BY <1>2, <1>5, <2>1
    <3>2. r[1][r[2] + i - 1] = array[base + i - 1]
      BY <1>5, <3>1
    <3>3. q[i] = W[i] /\ W[i] = array[base + i - 1]
      BY <1>1, <1>2, <1>7, <2>1
    <3> QED
      BY <3>2, <3>3
  <2>2. CASE i > size
    <3>1. i - size \in 1 .. m /\ r[2] + size + (i - size) - 1 = r[2] + i - 1
      BY <1>2, <1>5, <2>2
    <3>2. r[1][r[2] + i - 1] = ss[i - size]
      BY <1>5, <3>1
    <3> QED
      BY <1>2, <1>7, <2>2, <3>2
  <2> QED
    BY <1>2, <2>1, <2>2
<1>9. size' = Len(q) /\ base' \in Nat /\ base' + Len(q) <= n
  BY <1>2, <1>3, <1>4, <1>5, <1>6, <1>7 DEF Slice!AddSongs
<1>10. SliceOK' /\ Slice!Window' = q
  BY <1>3, <1>6, <1>7, <1>8, <1>9, WindowNext
<1>11. \A i \in 1 .. Len(ss) : Slice!Abstract!Fresh(ss[i])
  BY SameFresh DEF Slice!AddSongs
<1>12. loop' = [s \in Songs |-> IF Slice!Abstract!Contains(ss, s) THEN 0 ELSE loop[s]]
  BY SameOperators DEF Slice!AddSongs
<1>13. Slice!Abstract!IsInjective(ss)
  BY SameOperators DEF Slice!AddSongs
<1> QED
  BY <1>10, <1>11, <1>12, <1>13
     DEF Slice!AddSongs, Slice!Unchanged, Slice!Abstract!AddSongs, q, W

\* copy moves the entries of a range, overlapping or not, and no other.
IsCopy(C, A, n, dst, src, k) ==
  /\ C \in [0 .. n - 1 -> Slots]
  /\ \A x \in 0 .. n - 1 : x \notin dst .. dst + k - 1 => C[x] = A[x]
  /\ \A i \in 0 .. k - 1 : C[dst + i] = A[src + i]

LEMMA CopySlots ==
  ASSUME NEW n \in Nat, NEW A \in [0 .. n - 1 -> Slots],
         NEW dst \in Nat, NEW src \in Nat, NEW k \in Nat, dst + k <= n, src + k <= n
  PROVE  IsCopy(Slice!Copy(A, dst, src, k), A, n, dst, src, k)
<1>1. \A x \in dst .. dst + k - 1 : src + x - dst \in 0 .. n - 1
  OBVIOUS
<1>2. Slice!Copy(A, dst, src, k) \in [0 .. n - 1 -> Slots]
  BY <1>1 DEF Slice!Copy
<1>3. ASSUME NEW i \in 0 .. k - 1
      PROVE  Slice!Copy(A, dst, src, k)[dst + i] = A[src + i]
  <2>1. dst + i \in 0 .. n - 1 /\ dst + i \in dst .. dst + k - 1 /\ src + (dst + i) - dst = src + i
    OBVIOUS
  <2> QED
    BY <2>1 DEF Slice!Copy
<1>4. \A x \in 0 .. n - 1 : x \notin dst .. dst + k - 1 => Slice!Copy(A, dst, src, k)[x] = A[x]
  BY DEF Slice!Copy
<1> QED
  BY <1>2, <1>3, <1>4 DEF IsCopy

\* The entries from index 1 on move one slot up and a song takes that index.
Second(A, o, k, s) == [Slice!Copy(A, o + 2, o + 1, k) EXCEPT ![o + 1] = s]

IsSecond(B, A, n, o, k, s) ==
  /\ B \in [0 .. n - 1 -> Slots]
  /\ B[o + 1] = s
  /\ \A x \in o + 2 .. o + 1 + k : B[x] = A[x - 1]
  /\ \A x \in 0 .. n - 1 : x \notin o + 1 .. o + 1 + k => B[x] = A[x]

LEMMA SecondSlot ==
  ASSUME NEW n \in Nat, NEW A \in [0 .. n - 1 -> Slots], NEW o \in Nat, NEW k \in Nat,
         NEW s \in Songs, o + 1 + k < n
  PROVE  IsSecond(Second(A, o, k, s), A, n, o, k, s)
<1> DEFINE C == Slice!Copy(A, o + 2, o + 1, k)
           B == Second(A, o, k, s)
<1>1. C = [x \in 0 .. n - 1 |-> IF x \in o + 2 .. o + 2 + k - 1 THEN A[o + 1 + x - (o + 2)] ELSE A[x]]
  BY DEF Slice!Copy
<1> HIDE DEF C
<1>2. C \in [0 .. n - 1 -> Slots]
  <2>1. \A x \in o + 2 .. o + 2 + k - 1 : o + 1 + x - (o + 2) \in 0 .. n - 1
    OBVIOUS
  <2> QED
    BY <1>1, <2>1
<1>3. o + 1 \in 0 .. n - 1
  OBVIOUS
<1>4. B = [C EXCEPT ![o + 1] = s]
  BY DEF C, Second
<1> HIDE DEF B
<1>5. B \in [0 .. n - 1 -> Slots] /\ B[o + 1] = s
  BY <1>2, <1>3, <1>4 DEF Slots
<1>6. \A x \in 0 .. n - 1 : x # o + 1 => B[x] = C[x]
  BY <1>2, <1>4
<1>7. ASSUME NEW x \in o + 2 .. o + 1 + k
      PROVE  B[x] = A[x - 1]
  <2>1. x \in 0 .. n - 1 /\ x # o + 1 /\ x \in o + 2 .. o + 2 + k - 1 /\ o + 1 + x - (o + 2) = x - 1
    OBVIOUS
  <2>2. C[x] = A[o + 1 + x - (o + 2)]
    BY <1>1, <2>1
  <2> QED
    BY <1>6, <2>1, <2>2
<1>8. ASSUME NEW x \in 0 .. n - 1, x \notin o + 1 .. o + 1 + k
      PROVE  B[x] = A[x]
  <2>1. x # o + 1 /\ x \notin o + 2 .. o + 2 + k - 1
    BY <1>8
  <2>2. C[x] = A[x]
    BY <1>1, <2>1
  <2> QED
    BY <1>6, <2>1, <2>2
<1> QED
  BY <1>5, <1>7, <1>8 DEF IsSecond, B

\* The same, read through the window: W is the sequence before, in the slots
\* from o on, and q the one after.
SecondCase(B, A, n, o, k, s, W, q, w, m) ==
  /\ n \in Nat /\ o \in Nat /\ k \in Nat /\ w \in Nat /\ m \in Nat
  /\ o + 1 + k < n /\ k + 1 <= w /\ m \in {w, w + 1} /\ o + m <= n /\ k + 2 <= m
  /\ IsSecond(B, A, n, o, k, s)
  /\ \A i \in 1 .. w : A[o + i - 1] = W[i]
  /\ q[1] = W[1] /\ q[2] = s
  /\ \A i \in 3 .. k + 2 : q[i] = W[i - 1]
  /\ \A i \in k + 3 .. m : i <= w /\ q[i] = W[i]

EntriesAre(B, o, q, m) == \A i \in 1 .. m : B[o + i - 1] = q[i]

LEMMA SecondEntry ==
  ASSUME NEW B, NEW A, NEW n, NEW o, NEW k, NEW s, NEW W, NEW q, NEW w, NEW m,
         SecondCase(B, A, n, o, k, s, W, q, w, m)
  PROVE  EntriesAre(B, o, q, m)
<1> USE DEF SecondCase, EntriesAre
<1> SUFFICES ASSUME NEW i \in 1 .. m
             PROVE  B[o + i - 1] = q[i]
  OBVIOUS
<1>0. /\ B[o + 1] = s
      /\ \A x \in o + 2 .. o + 1 + k : B[x] = A[x - 1]
      /\ \A x \in 0 .. n - 1 : x \notin o + 1 .. o + 1 + k => B[x] = A[x]
  BY DEF IsSecond
<1>1. CASE i = 1
  <2>1. o + i - 1 = o /\ o \in 0 .. n - 1 /\ o \notin o + 1 .. o + 1 + k /\ 1 \in 1 .. w /\ o + 1 - 1 = o
    BY <1>1
  <2>2. B[o] = A[o] /\ A[o + 1 - 1] = W[1]
    BY <1>0, <2>1
  <2> QED
    BY <1>1, <2>1, <2>2
<1>2. CASE i = 2
  <2>1. o + i - 1 = o + 1
    BY <1>2
  <2> QED
    BY <1>0, <1>2, <2>1
<1>3. CASE i \in 3 .. k + 2
  <2>1. PICK j \in 1 .. w : j = i - 1
    BY <1>3
  <2>2. o + i - 1 \in o + 2 .. o + 1 + k /\ (o + i - 1) - 1 = o + j - 1
    BY <1>3, <2>1
  <2>3. B[o + i - 1] = A[(o + i - 1) - 1]
    BY <1>0, <2>2
  <2>4. A[o + j - 1] = W[j]
    BY <2>1
  <2>5. q[i] = W[i - 1]
    BY <1>3
  <2> QED
    BY <2>1, <2>2, <2>3, <2>4, <2>5
<1>4. CASE i \in k + 3 .. m
  <2>0. i \in Nat /\ i > k + 2 /\ i <= m
    BY <1>4
  <2>1. o + i - 1 \in 0 .. n - 1 /\ o + i - 1 \notin o + 1 .. o + 1 + k
    BY <2>0
  <2>2. B[o + i - 1] = A[o + i - 1]
    BY <1>0, <2>1
  <2>3. q[i] = W[i] /\ i \in 1 .. w
    BY <1>4
  <2>4. A[o + i - 1] = W[i]
    BY <2>3
  <2> QED
    BY <2>2, <2>3, <2>4
<1> QED
  BY <1>1, <1>2, <1>3, <1>4

LEMMA SliceAddSongToFront ==
  ASSUME SliceOK, NEW s \in Songs, Slice!AddSongToFront(s)
  PROVE  SliceOK' /\ Slice!Abstract!AddSongToFront(s)
<1>0. PICK W, q : W = Slice!Window /\ q = InsertNext(W, s)
  OBVIOUS
<1>1. W \in Seq(Songs) /\ Len(W) = size /\ \A i \in 1 .. size : W[i] = array[base + i - 1]
  BY <1>0, WindowSeq
<1>2. size \in Nat /\ base \in Nat
  BY DEF SliceOK
<1>3. size' = size + 1
  BY DEF Slice!AddSongToFront
<1>4. /\ q \in Seq(Songs) /\ Len(q) = size + 1
      /\ W = <<>> => q[1] = s
      /\ W # <<>> => \A j \in 1 .. size + 1 :
                       q[j] = IF j < 2 THEN W[j] ELSE IF j = 2 THEN s ELSE W[j - 1]
  <2>1. /\ q \in Seq(Songs) /\ Len(q) = Len(W) + 1
        /\ W = <<>> => q[1] = s
        /\ W # <<>> => \A j \in 1 .. Len(W) + 1 :
                         q[j] = IF j < 2 THEN W[j] ELSE IF j = 2 THEN s ELSE W[j - 1]
    <3>1. W \in Seq(Songs)
      BY <1>1
    <3>2. /\ InsertNext(W, s) \in Seq(Songs) /\ Len(InsertNext(W, s)) = Len(W) + 1
          /\ W = <<>> => InsertNext(W, s)[1] = s
          /\ W # <<>> => \A j \in 1 .. Len(W) + 1 :
               InsertNext(W, s)[j] = IF j < 2 THEN W[j] ELSE IF j = 2 THEN s ELSE W[j - 1]
      BY <3>1, InsertNextElements
    <3> QED
      BY <1>0, <3>2
  <2> QED
    BY <1>1, <2>1
<1>5. ASSUME size = 0
      PROVE  SliceOK' /\ Slice!Window' = q
  <2>0. PICK xs : xs = <<s>>
    OBVIOUS
  <2>1. PICK r \in Slice!Appended(xs) : array' = r[1] /\ base' = r[2]
    BY <1>5, <2>0 DEF Slice!AddSongToFront
  <2>a. xs[1] = s
    BY <2>0
  <2>2. xs \in Seq(Slots) /\ Len(xs) = 1
    BY <2>0 DEF Slots
  <2>3. /\ r[2] \in Nat
        /\ \E n \in Nat : r[1] \in [0 .. n - 1 -> Slots] /\ r[2] + size + 1 <= n
        /\ \A i \in 0 .. size - 1 : r[1][r[2] + i] = array[base + i]
        /\ \A i \in 1 .. 1 : r[1][r[2] + size + i - 1] = xs[i]
    <3>1. Len(xs) > 0
      BY <2>2
    <3>2. HasAppended(r, xs, Len(xs))
      BY <2>2, <3>1, AppendedSlots, Zenon
    <3> QED
      BY <2>2, <3>2 DEF HasAppended
  <2>4. PICK n \in Nat : r[1] \in [0 .. n - 1 -> Slots] /\ r[2] + size + 1 <= n
    BY <2>3
  <2>5. q[1] = s /\ Len(q) = 1
    <3>1. W = <<>>
      BY <1>1, <1>5, EmptySeq
    <3> QED
      BY <1>4, <1>5, <3>1
  <2>6. 1 \in 1 .. 1 /\ r[2] + size + 1 - 1 = r[2] + 1 - 1
    BY <1>5, <2>2, <2>3
  <2>7. r[1][r[2] + 1 - 1] = s
    BY <2>a, <2>3, <2>6
  <2>8. \A i \in 1 .. Len(q) : array'[base' + i - 1] = q[i]
    BY <2>1, <2>5, <2>7
  <2>9. base' \in Nat /\ base' + Len(q) <= n
    BY <1>5, <2>1, <2>2, <2>3, <2>4, <2>5
  <2>11. array' \in [0 .. n - 1 -> Slots] /\ size' = Len(q)
    BY <1>3, <1>4, <2>1, <2>4
  <2> QED
    BY <1>4, <2>8, <2>9, <2>11, WindowNext
<1>6. ASSUME size > 0
      PROVE  SliceOK' /\ Slice!Window' = q
  <2>0. PICK xs : xs = <<Nil>>
    OBVIOUS
  <2>1. PICK r \in Slice!Appended(xs) :
          /\ array' = [Slice!Copy(r[1], r[2] + 2, r[2] + 1, size - 1) EXCEPT ![r[2] + 1] = s]
          /\ base' = r[2]
    BY <1>2, <1>6, <2>0 DEF Slice!AddSongToFront
  <2>2. xs \in Seq(Slots) /\ Len(xs) = 1
    BY <2>0 DEF Slots
  <2>3. /\ r[2] \in Nat
        /\ \E n \in Nat : r[1] \in [0 .. n - 1 -> Slots] /\ r[2] + size + 1 <= n
        /\ \A i \in 0 .. size - 1 : r[1][r[2] + i] = array[base + i]
        /\ \A i \in 1 .. 1 : r[1][r[2] + size + i - 1] = xs[i]
    <3>1. Len(xs) > 0
      BY <2>2
    <3>2. HasAppended(r, xs, Len(xs))
      BY <2>2, <3>1, AppendedSlots, Zenon
    <3> QED
      BY <2>2, <3>2 DEF HasAppended
  <2>4. PICK n \in Nat : r[1] \in [0 .. n - 1 -> Slots] /\ r[2] + size + 1 <= n
    BY <2>3
  <2>5. PICK o \in Nat : o = r[2]
    BY <2>3
  <2>6. PICK k \in Nat : k = size - 1
    BY <1>2, <1>6
  <2>7. PICK A \in [0 .. n - 1 -> Slots] : A = r[1]
    BY <2>4
  <2>8. array' = Second(A, o, k, s) /\ base' = o
    BY <2>1, <2>5, <2>6, <2>7 DEF Second
  <2>9. IsSecond(array', A, n, o, k, s)
    <3>1. o + 1 + k < n
      BY <1>2, <2>4, <2>5, <2>6
    <3> QED
      BY <2>8, <3>1, SecondSlot
  <2>10. o + 1 + k < n /\ o + (size + 1) <= n /\ size = k + 1
    BY <1>2, <2>2, <2>4, <2>5, <2>6
  <2>11. \A i \in 1 .. size : A[o + i - 1] = W[i]
    <3> SUFFICES ASSUME NEW i \in 1 .. size
                 PROVE  A[o + i - 1] = W[i]
      OBVIOUS
    <3>1. i - 1 \in 0 .. size - 1 /\ o + (i - 1) = o + i - 1 /\ base + (i - 1) = base + i - 1
      BY <1>2
    <3>2. A[o + (i - 1)] = array[base + (i - 1)]
      BY <2>3, <2>5, <2>7, <3>1
    <3> QED
      BY <1>1, <3>1, <3>2
  <2>12. \A j \in 1 .. size + 1 : q[j] = IF j < 2 THEN W[j] ELSE IF j = 2 THEN s ELSE W[j - 1]
    <3>1. W # <<>>
      BY <1>1, <1>6
    <3> QED
      BY <1>4, <3>1
  <2>13. q[1] = W[1] /\ q[2] = s /\ \A i \in 3 .. k + 2 : q[i] = W[i - 1]
    BY <1>2, <1>6, <2>10, <2>12
  <2>14. \A i \in k + 3 .. size + 1 : i <= size /\ q[i] = W[i]
    BY <1>2, <2>10
  <2>15. \A i \in 1 .. size + 1 : array'[o + i - 1] = q[i]
    <3>0. PICK m : m = size + 1
      OBVIOUS
    <3>1. m \in Nat /\ m \in {size, size + 1} /\ o + m <= n /\ k + 2 <= m /\ k + 1 <= size
      BY <1>2, <2>10, <3>0
    <3>2. \A i \in k + 3 .. m : i <= size /\ q[i] = W[i]
      BY <2>14, <3>0
    <3>3. \A i \in 1 .. m : array'[o + i - 1] = q[i]
      <4>1. SecondCase(array', A, n, o, k, s, W, q, size, m)
        BY <1>2, <2>9, <2>10, <2>11, <2>13, <3>1, <3>2 DEF SecondCase
      <4> QED
        BY <4>1, SecondEntry DEF EntriesAre
    <3> QED
      BY <3>0, <3>3
  <2>16. array' \in [0 .. n - 1 -> Slots]
    BY <2>9 DEF IsSecond
  <2>17. /\ base' \in Nat /\ base' + Len(q) <= n /\ size' = Len(q)
         /\ \A i \in 1 .. Len(q) : array'[base' + i - 1] = q[i]
    BY <1>3, <1>4, <2>8, <2>10, <2>15
  <2> QED
    BY <1>4, <2>16, <2>17, WindowNext
<1>7. SliceOK' /\ Slice!Window' = q
  BY <1>2, <1>5, <1>6
<1>8. Slice!Abstract!Fresh(s)
  BY SameFresh DEF Slice!AddSongToFront
<1>9. q = Slice!Abstract!InsertNext(Slice!Window, s)
  BY <1>0, SameOperators
<1> QED
  BY <1>7, <1>8, <1>9
     DEF Slice!AddSongToFront, Slice!Abstract!AddSongToFront, Slice!Unchanged

LEMMA SliceMoveTrackToFront ==
  ASSUME SliceOK, NEW id \in TrackIDs, Slice!MoveTrackToFront(id)
  PROVE  SliceOK' /\ Slice!Abstract!MoveTrackToFront(id)
<1>0. PICK W : W = Slice!Window
  OBVIOUS
<1> DEFINE hit(i) == array[base + i] # Nil /\ TrackID[array[base + i]] = id
<1>1. PICK e \in 1 .. size - 1 :
        /\ hit(e) /\ \A i \in 1 .. e - 1 : ~ hit(i)
        /\ array' = [Slice!Copy(array, base + 2, base + 1, e - 1) EXCEPT ![base + 1] = array[base + e]]
        /\ UNCHANGED <<base, size, loop>> /\ Slice!Unchanged
  BY DEF Slice!MoveTrackToFront
<1>2. W \in Seq(Songs) /\ Len(W) = size /\ \A i \in 1 .. size : W[i] = array[base + i - 1]
  BY <1>0, WindowSeq
<1>3. size \in Nat /\ base \in Nat
  BY DEF SliceOK
<1>4. PICK n \in Nat : array \in [0 .. n - 1 -> Slots] /\ base + size <= n
  BY DEF SliceOK
<1>a. PICK q : q = MoveNext(W, e + 1)
  OBVIOUS
<1>5. e + 1 \in 2 .. Len(W) /\ e + 1 \in 1 .. size /\ base + (e + 1) - 1 = base + e /\ (e + 1) - 1 = e
  BY <1>2, <1>3
<1>6. /\ q \in Seq(Songs) /\ Len(q) = size
      /\ \A j \in 1 .. size : q[j] = IF j = 2 THEN W[e + 1]
                                     ELSE IF j \in 3 .. e + 1 THEN W[j - 1] ELSE W[j]
  <2>1. /\ q \in Seq(Songs) /\ Len(q) = Len(W)
        /\ \A j \in 1 .. Len(W) : q[j] = IF j = 2 THEN W[e + 1]
                                     ELSE IF j \in 3 .. e + 1 THEN W[j - 1] ELSE W[j]
    <3>1. PICK u \in Int : u = e + 1
      OBVIOUS
    <3>2. q = MoveNext(W, u)
      BY <1>a, <3>1, Zenon
    <3>3. /\ u \in 2 .. Len(W) /\ MoveNext(W, u) \in Seq(Songs) /\ Len(MoveNext(W, u)) = Len(W)
          /\ \A j \in 1 .. Len(W) : MoveNext(W, u)[j] = IF j = 2 THEN W[u]
                                       ELSE IF j \in 3 .. u THEN W[j - 1] ELSE W[j]
      <4>1. u \in 2 .. Len(W)
        BY <1>5, <3>1, Zenon
      <4>2. W \in Seq(Songs)
        BY <1>2
      <4> QED
        BY <4>1, <4>2, MoveNextElements
    <3>4. /\ q \in Seq(Songs) /\ Len(q) = Len(W)
          /\ \A j \in 1 .. Len(W) : q[j] = IF j = 2 THEN W[u]
                                          ELSE IF j \in 3 .. u THEN W[j - 1] ELSE W[j]
      BY <3>2, <3>3, Zenon
    <3> QED
      BY <3>1, <3>4, Zenon
  <2> QED
    BY <1>2, <2>1
<1>7. W[e + 1] = array[base + e] /\ W[e + 1] \in Songs
  BY <1>2, <1>5, ElementOfSeq
<1>8. PICK s \in Songs : s = W[e + 1]
  BY <1>7
<1>9. PICK k \in Nat : k = e - 1
  BY <1>3
<1>10. k + 1 = e /\ k + 2 <= size /\ base + 1 + k < n /\ k + 3 = e + 2
  BY <1>3, <1>4, <1>9
<1>11. array' = Second(array, base, k, s)
  BY <1>1, <1>7, <1>8, <1>9 DEF Second
<1>12. q[1] = W[1] /\ q[2] = s
  BY <1>3, <1>6, <1>8
<1>13. \A i \in 3 .. k + 2 : q[i] = W[i - 1]
  <2> SUFFICES ASSUME NEW i \in 3 .. k + 2
               PROVE  q[i] = W[i - 1]
    OBVIOUS
  <2>1. i \in 1 .. size /\ i # 2 /\ i \in 3 .. e + 1
    BY <1>3, <1>10
  <2> QED
    BY <1>6, <2>1
<1>14. \A i \in k + 3 .. size : i <= size /\ q[i] = W[i]
  <2> SUFFICES ASSUME NEW i \in k + 3 .. size
               PROVE  i <= size /\ q[i] = W[i]
    OBVIOUS
  <2>1. i \in 1 .. size /\ i # 2 /\ i \notin 3 .. e + 1
    BY <1>3, <1>10
  <2> QED
    BY <1>3, <1>6, <2>1
<1>15. \A i \in 1 .. size : array[base + i - 1] = W[i]
  BY <1>2
<1>16. size \in {size, size + 1} /\ k + 1 <= size
  BY <1>3, <1>10
<1>b. IsSecond(array', array, n, base, k, s)
  BY <1>3, <1>4, <1>10, <1>11, SecondSlot
<1>17. \A i \in 1 .. size : array'[base + i - 1] = q[i]
  <2>1. SecondCase(array', array, n, base, k, s, W, q, size, size)
    BY <1>3, <1>4, <1>b, <1>10, <1>12, <1>13, <1>14, <1>15, <1>16 DEF SecondCase
  <2> QED
    BY <2>1, SecondEntry DEF EntriesAre
<1>18. array' \in [0 .. n - 1 -> Slots]
  BY <1>b DEF IsSecond
<1>19. base' \in Nat /\ base' + Len(q) <= n /\ size' = Len(q)
       /\ \A i \in 1 .. Len(q) : array'[base' + i - 1] = q[i]
  BY <1>1, <1>3, <1>4, <1>6, <1>17
<1>20. SliceOK' /\ Slice!Window' = q
  BY <1>6, <1>18, <1>19, WindowNext
<1>21. Slice!Abstract!IsFirstUpcoming(W, TrackID, id, e + 1)
  <2>1. \A j \in 2 .. e : W[j] = array[base + (j - 1)] /\ j - 1 \in 1 .. e - 1 /\ W[j] \in Songs
    <3> SUFFICES ASSUME NEW j \in 2 .. e
                 PROVE  W[j] = array[base + (j - 1)] /\ j - 1 \in 1 .. e - 1 /\ W[j] \in Songs
      OBVIOUS
    <3>1. j \in 1 .. size /\ base + j - 1 = base + (j - 1) /\ j - 1 \in 1 .. e - 1
      BY <1>3
    <3> QED
      BY <1>2, <3>1, ElementOfSeq
  <2>2. \A j \in 2 .. e : TrackID[W[j]] # id
    BY <1>1, <2>1, SliceAssumption
  <2>3. TrackID[W[e + 1]] = id
    BY <1>1, <1>7
  <2>4. \A j \in 2 .. (e + 1) - 1 : TrackID[W[j]] # id
    BY <1>5, <2>2
  <2> QED
    BY <1>5, <2>3, <2>4 DEF Slice!Abstract!IsFirstUpcoming
<1>22. q = Slice!Abstract!MoveNext(W, e + 1)
  BY <1>a, SameOperators
<1>23. e + 1 \in 2 .. Len(Slice!Window) /\ W = Slice!Window
  BY <1>0, <1>5
<1> QED
  BY <1>1, <1>20, <1>21, <1>22, <1>23
     DEF Slice!Abstract!MoveTrackToFront, Slice!Unchanged

LEMMA SliceRemoveCurrentSong ==
  ASSUME SliceOK, Slice!RemoveCurrentSong
  PROVE  SliceOK' /\ Slice!Abstract!RemoveCurrentSong
<1> DEFINE W == Slice!Window
           q == Tail(W)
<1>1. W \in Seq(Songs) /\ Len(W) = size /\ \A i \in 1 .. size : W[i] = array[base + i - 1]
  BY WindowSeq
<1>2. size \in Nat /\ base \in Nat /\ size > 0
  BY DEF SliceOK, Slice!RemoveCurrentSong
<1>3. PICK n \in Nat : array \in [0 .. n - 1 -> Slots] /\ base + size <= n
  BY DEF SliceOK
<1>4. array' = [array EXCEPT ![base] = Nil] /\ base' = base + 1 /\ size' = size - 1
  BY DEF Slice!RemoveCurrentSong
<1> HIDE DEF W
<1>5. W # <<>> /\ W[1] = array[base] /\ Head(W) = W[1] /\ W[1] \in Songs
  <2>1. 1 \in 1 .. size /\ base + 1 - 1 = base
    BY <1>2
  <2> QED
    BY <1>1, <1>2, <2>1, ElementOfSeq
<1>6. q \in Seq(Songs) /\ Len(q) = size - 1 /\ \A i \in 1 .. size - 1 : q[i] = W[i + 1]
  BY <1>1, <1>5, HeadTailProperties
<1> HIDE DEF q
<1>7. array' \in [0 .. n - 1 -> Slots]
  BY <1>3, <1>4 DEF Slots
<1>8. ASSUME NEW i \in 1 .. size - 1
      PROVE  array'[base + 1 + i - 1] = q[i]
  <2>1. /\ base + 1 + i - 1 = base + (i + 1) - 1 /\ i + 1 \in 1 .. size
        /\ base + (i + 1) - 1 \in 0 .. n - 1 /\ base + (i + 1) - 1 # base
    BY <1>2, <1>3
  <2>2. array'[base + (i + 1) - 1] = array[base + (i + 1) - 1]
    BY <1>3, <1>4, <2>1
  <2> QED
    BY <1>1, <1>6, <2>1, <2>2
<1>9. base' \in Nat /\ base' + Len(q) <= n /\ size' = Len(q)
      /\ \A i \in 1 .. Len(q) : array'[base' + i - 1] = q[i]
  BY <1>2, <1>3, <1>4, <1>6, <1>8
<1>10. SliceOK' /\ Slice!Window' = q
  BY <1>6, <1>7, <1>9, WindowNext
<1>11. history' = IF Head(W) \in YouTube
                  THEN Slice!Abstract!Remember(history, TrackID[Head(W)], NoID)
                  ELSE history
  BY <1>5, SliceAssumption, SameOperators DEF Slice!RemoveCurrentSong
<1> QED
  BY <1>5, <1>10, <1>11 DEF Slice!RemoveCurrentSong, Slice!Abstract!RemoveCurrentSong, q, W

LEMMA SliceRemoveTrack ==
  ASSUME SliceOK, NEW e \in 0 .. size - 1, Slice!RemoveTrack(e)
  PROVE  SliceOK' /\ Slice!Abstract!RemoveTrack(e + 1) /\ e + 1 \in 1 .. Len(Slice!Window)
<1> DEFINE W == Slice!Window
           q == RemoveAt(W, e + 1)
           dst == base + e
           src == base + e + 1
           k == size - e - 1
           A == Slice!Copy(array, dst, src, k)
<1>1. W \in Seq(Songs) /\ Len(W) = size /\ \A i \in 1 .. size : W[i] = array[base + i - 1]
  BY WindowSeq
<1>2. size \in Nat /\ base \in Nat
  BY DEF SliceOK
<1>3. PICK n \in Nat : array \in [0 .. n - 1 -> Slots] /\ base + size <= n
  BY DEF SliceOK
<1>4. /\ A \in [0 .. n - 1 -> Slots]
      /\ \A x \in 0 .. n - 1 : x \notin base + e .. base + e + (size - e - 1) - 1 => A[x] = array[x]
      /\ \A i \in 0 .. (size - e - 1) - 1 : A[base + e + i] = array[base + e + 1 + i]
  <2> HIDE DEF A
  <2>1. base + e \in Nat /\ base + e + 1 \in Nat /\ size - e - 1 \in Nat
    BY <1>2
  <2>2. base + e + (size - e - 1) <= n /\ base + e + 1 + (size - e - 1) <= n
    BY <1>2, <1>3
  <2> QED
    <3> HIDE DEF dst, src, k
    <3>1. dst \in Nat /\ src \in Nat /\ k \in Nat /\ dst + k <= n /\ src + k <= n
      BY <2>1, <2>2 DEF dst, src, k
    <3>2. IsCopy(A, array, n, dst, src, k)
      BY <1>3, <3>1, CopySlots DEF A
    <3> QED
      BY <3>2 DEF IsCopy, dst, src, k
<1>5. array' = [A EXCEPT ![base + size - 1] = Nil] /\ base' = base /\ size' = size - 1
  BY DEF Slice!RemoveTrack
<1> HIDE DEF W, A
<1>6. e + 1 \in 1 .. Len(W)
  BY <1>1, <1>2
<1>7. /\ q \in Seq(Songs) /\ Len(q) = size - 1
      /\ \A j \in 1 .. size - 1 : q[j] = IF j < e + 1 THEN W[j] ELSE W[j + 1]
  BY <1>1, <1>6, RemoveAtElements
<1> HIDE DEF q
<1>8. array' \in [0 .. n - 1 -> Slots]
  BY <1>4, <1>5 DEF Slots
<1>9. ASSUME NEW i \in 1 .. size - 1
      PROVE  array'[base + i - 1] = q[i]
  <2>0. base + i - 1 \in 0 .. n - 1 /\ base + i - 1 # base + size - 1
    BY <1>2, <1>3
  <2>1. array'[base + i - 1] = A[base + i - 1]
    BY <1>4, <1>5, <2>0
  <2>2. CASE i < e + 1
    <3>1. base + i - 1 \notin base + e .. base + e + (size - e - 1) - 1 /\ i \in 1 .. size
      BY <1>2, <2>2
    <3>2. A[base + i - 1] = array[base + i - 1]
      BY <1>4, <2>0, <3>1
    <3>3. q[i] = W[i]
      BY <1>7, <2>2
    <3> QED
      BY <1>1, <2>1, <3>1, <3>2, <3>3
  <2>3. CASE ~ (i < e + 1)
    <3>1. /\ i - 1 - e \in 0 .. (size - e - 1) - 1 /\ base + e + (i - 1 - e) = base + i - 1
          /\ base + e + 1 + (i - 1 - e) = base + (i + 1) - 1 /\ i + 1 \in 1 .. size
      BY <1>2, <2>3
    <3>2. A[base + e + (i - 1 - e)] = array[base + e + 1 + (i - 1 - e)]
      BY <1>4, <3>1
    <3>3. q[i] = W[i + 1]
      BY <1>7, <2>3
    <3> QED
      BY <1>1, <2>1, <3>1, <3>2, <3>3
  <2> QED
    BY <2>2, <2>3
<1>10. base' \in Nat /\ base' + Len(q) <= n /\ size' = Len(q)
       /\ \A i \in 1 .. Len(q) : array'[base' + i - 1] = q[i]
  BY <1>2, <1>3, <1>5, <1>7, <1>9
<1>11. SliceOK' /\ Slice!Window' = q
  BY <1>7, <1>8, <1>10, WindowNext
<1> QED
  BY <1>6, <1>11, SameOperators
     DEF Slice!RemoveTrack, Slice!Abstract!RemoveTrack, Slice!Unchanged, q, W

\* The methods that do not move the window.
LEMMA SliceStays ==
  ASSUME SliceOK, UNCHANGED <<array, base, size>>
  PROVE  SliceOK' /\ Slice!Window' = Slice!Window
  BY DEF SliceOK, Slice!Window

LEMMA SliceOthers ==
  ASSUME SliceOK
  PROVE  /\ \A state \in BOOLEAN : Slice!SetAutoplay(state) => SliceOK' /\ Slice!Abstract!SetAutoplay(state)
         /\ \A last, next \in TrackIDs :
              Slice!AddAutoplayHistory(last, next) => SliceOK' /\ Slice!Abstract!AddAutoplayHistory(last, next)
         /\ Slice!ClearAutoplayHistory => SliceOK' /\ Slice!Abstract!ClearAutoplayHistory
         /\ UNCHANGED (Slice!vars) => SliceOK' /\ UNCHANGED (Slice!Abstract!vars)
<1>1. ASSUME NEW state \in BOOLEAN, Slice!SetAutoplay(state)
      PROVE  SliceOK' /\ Slice!Abstract!SetAutoplay(state)
  BY <1>1, SliceStays DEF Slice!SetAutoplay, Slice!Abstract!SetAutoplay
<1>2. ASSUME NEW last \in TrackIDs, NEW next \in TrackIDs, Slice!AddAutoplayHistory(last, next)
      PROVE  SliceOK' /\ Slice!Abstract!AddAutoplayHistory(last, next)
  BY <1>2, SliceStays, SameOperators DEF Slice!AddAutoplayHistory, Slice!Abstract!AddAutoplayHistory
<1>3. ASSUME Slice!ClearAutoplayHistory
      PROVE  SliceOK' /\ Slice!Abstract!ClearAutoplayHistory
  BY <1>3, SliceStays DEF Slice!ClearAutoplayHistory, Slice!Abstract!ClearAutoplayHistory
<1>4. ASSUME UNCHANGED (Slice!vars)
      PROVE  SliceOK' /\ UNCHANGED (Slice!Abstract!vars)
  BY <1>4, SliceStays DEF Slice!vars, Slice!Abstract!vars
<1> QED
  BY <1>1, <1>2, <1>3, <1>4

LEMMA SliceSetLoopCount ==
  ASSUME SliceOK, NEW m \in 0 .. MaxLoop, Slice!SetLoopCount(m)
  PROVE  SliceOK' /\ Slice!Abstract!SetLoopCount(m)
<1>1. SliceOK' /\ Slice!Window' = Slice!Window
  BY SliceStays DEF Slice!SetLoopCount
<1>2. size > 0 /\ size \in Nat /\ base \in Nat
  BY DEF SliceOK, Slice!SetLoopCount
<1>3. 1 \in 1 .. size /\ base + 1 - 1 = base
  BY <1>2
<1>4. Slice!Window # <<>> /\ Head(Slice!Window) = array[base]
  BY <1>2, <1>3, WindowSeq
<1> QED
  BY <1>1, <1>4 DEF Slice!SetLoopCount, Slice!Abstract!SetLoopCount, Slice!Unchanged

LEMMA SliceEmpty ==
  ASSUME array = [x \in {} |-> Nil], base = 0, size = 0
  PROVE  SliceOK /\ Slice!Window = <<>>
<1>1. array \in [0 .. 0 - 1 -> Slots]
  OBVIOUS
<1>2. SliceOK
  BY <1>1 DEF SliceOK
<1>3. Slice!Window = <<>>
  BY <1>2, WindowSeq, EmptySeq
<1> QED
  BY <1>2, <1>3

LEMMA SliceClearChat ==
  ASSUME Slice!ClearChat
  PROVE  SliceOK' /\ Slice!Abstract!ClearChat
<1>1. array' = [x \in {} |-> Nil] /\ base' = 0 /\ size' = 0
  BY DEF Slice!ClearChat
<1>2. PICK q \in Seq(Songs) : q = <<>> /\ Len(q) = 0
  <2>1. <<>> \in Seq(Songs) /\ Len(<<>>) = 0
    BY EmptySeq
  <2> QED
    BY <2>1, Zenon
<1>3. /\ array' \in [0 .. 0 - 1 -> Slots] /\ base' \in Nat /\ base' + Len(q) <= 0 /\ size' = Len(q)
      /\ \A i \in 1 .. Len(q) : array'[base' + i - 1] = q[i]
  BY <1>1, <1>2
<1>4. 0 \in Nat
  OBVIOUS
<1>5. SliceOK' /\ Slice!Window' = q
  BY <1>3, <1>4, WindowNext, Zenon
<1> QED
  BY <1>2, <1>5 DEF Slice!ClearChat, Slice!Abstract!ClearChat

LEMMA SliceInit == Slice!Init => SliceOK /\ Slice!Abstract!Init
  BY SliceEmpty DEF Slice!Init, Slice!Abstract!Init

LEMMA SliceStep ==
  SliceOK /\ [Slice!Next]_(Slice!vars) => SliceOK' /\ [Slice!Abstract!Next]_(Slice!Abstract!vars)
<1> SUFFICES ASSUME SliceOK, [Slice!Next]_(Slice!vars)
             PROVE  SliceOK' /\ [Slice!Abstract!Next]_(Slice!Abstract!vars)
  OBVIOUS
<1>1. ASSUME NEW s \in Songs, Slice!AddSong(s) \/ Slice!AddSongToFront(s)
      PROVE  SliceOK' /\ Slice!Abstract!Next
  BY <1>1, SliceAddSong, SliceAddSongToFront DEF Slice!Abstract!Next
<1>2. ASSUME NEW m \in 1 .. MaxBatch, NEW ss \in [1 .. m -> Songs], Slice!AddSongs(ss)
      PROVE  SliceOK' /\ Slice!Abstract!Next
  BY <1>2, SliceAddSongs DEF Slice!Abstract!Next
<1>3. ASSUME NEW id \in TrackIDs, Slice!MoveTrackToFront(id)
      PROVE  SliceOK' /\ Slice!Abstract!Next
  BY <1>3, SliceMoveTrackToFront DEF Slice!Abstract!Next
<1>4. ASSUME Slice!RemoveCurrentSong
      PROVE  SliceOK' /\ Slice!Abstract!Next
  BY <1>4, SliceRemoveCurrentSong DEF Slice!Abstract!Next
<1>5. ASSUME NEW e \in 0 .. size - 1, Slice!RemoveTrack(e)
      PROVE  SliceOK' /\ Slice!Abstract!Next
  BY <1>5, SliceRemoveTrack DEF Slice!Abstract!Next
<1>6. ASSUME NEW state \in BOOLEAN, Slice!SetAutoplay(state)
      PROVE  SliceOK' /\ Slice!Abstract!Next
  BY <1>6, SliceOthers DEF Slice!Abstract!Next
<1>7. ASSUME NEW last \in TrackIDs, NEW next \in TrackIDs, Slice!AddAutoplayHistory(last, next)
      PROVE  SliceOK' /\ Slice!Abstract!Next
  BY <1>7, SliceOthers DEF Slice!Abstract!Next
<1>8. ASSUME Slice!ClearAutoplayHistory \/ Slice!ClearChat
      PROVE  SliceOK' /\ Slice!Abstract!Next
  BY <1>8, SliceOthers, SliceClearChat DEF Slice!Abstract!Next
<1>9. ASSUME NEW m \in 0 .. MaxLoop, Slice!SetLoopCount(m)
      PROVE  SliceOK' /\ Slice!Abstract!Next
  BY <1>9, SliceSetLoopCount DEF Slice!Abstract!Next
<1>10. ASSUME UNCHANGED (Slice!vars)
       PROVE  SliceOK' /\ UNCHANGED (Slice!Abstract!vars)
  BY <1>10, SliceOthers
<1> QED
  BY <1>1, <1>2, <1>3, <1>4, <1>5, <1>6, <1>7, <1>8, <1>9, <1>10 DEF Slice!Next

\* The slices implement the queue: the in-place code of every method, whatever
\* capacities append gives an array, does what ChatQueue says the method does
\* (player_cache.go:76-129, 152-202).
THEOREM SlicesImplementQueue == Slice!Spec => ImplementsChatQueue
  BY SliceInit, SliceStep, PTL
     DEF Slice!Spec, Slice!Abstract!Spec, ImplementsChatQueue, Slice!ImplementsChatQueue
-----------------------------------------------------------------------------
(* The caches with a time to live and their janitor. *)

Places == {"new", "wait", "collect", "delete", "ended"}

\* OneJanitor is inductive with this: the stop channel of a goroutine that has
\* not been started is open, so that the next start is not stopped at once.
JanitorInv ==
  /\ T!OneJanitor
  /\ running \in BOOLEAN
  /\ running => stop \in Janitors
  /\ pc \in [Janitors -> Places]
  /\ \A j \in Janitors : pc[j] = "new" => j \notin closed

LEMMA JanitorInit == T!Init => JanitorInv
<1> SUFFICES ASSUME T!Init PROVE JanitorInv
  OBVIOUS
<1>1. pc = [j \in Janitors |-> "new"] /\ closed = {}
  BY DEF T!Init
<1>2. ~ running /\ registered = {} /\ running \in BOOLEAN
  BY Zenon DEF T!Init
<1>3. \A j \in Janitors : ~ T!Live(j)
  BY <1>1 DEF T!Live
<1>4. T!OneJanitor
  BY <1>2, <1>3 DEF T!OneJanitor
<1> QED
  BY <1>1, <1>2, <1>4 DEF JanitorInv, Places

\* A start: the goroutine is new, and the one before has ended or been told to.
LEMMA RegisterInv == ASSUME JanitorInv, NEW box \in Caches, T!Register(box) PROVE JanitorInv'
<1>1. closed' = closed /\ registered' = registered \cup {box}
  BY DEF T!Register
<1>2. CASE running /\ UNCHANGED <<running, stop, pc>>
  BY <1>1, <1>2 DEF JanitorInv, T!OneJanitor, T!Live
<1>3. CASE ~ running
  <2>1. PICK j \in Janitors : pc[j] = "new" /\ stop' = j /\ pc' = [pc EXCEPT ![j] = "wait"]
    BY <1>3 DEF T!Register
  <2>2. running' = TRUE
    BY <1>3, Zenon DEF T!Register
  <2>3. pc' \in [Janitors -> Places] /\ stop' \in Janitors
    BY <2>1 DEF JanitorInv, Places
  <2>4. \A i \in Janitors : pc'[i] = IF i = j THEN "wait" ELSE pc[i]
    BY <2>1 DEF JanitorInv
  <2>5. j \notin closed
    BY <2>1 DEF JanitorInv
  <2>6. \A i \in Janitors : ~ (T!Live(i) /\ i \notin closed)
    BY <1>3 DEF JanitorInv, T!OneJanitor
  <2>7. \A i \in Janitors : (T!Live(i)' /\ i \notin closed') <=> i = stop'
    BY <1>1, <2>1, <2>4, <2>5, <2>6 DEF T!Live
  <2>8. \A i \in Janitors : pc'[i] = "new" => i \notin closed'
    BY <1>1, <2>4 DEF JanitorInv
  <2>9. registered' # {}
    BY <1>1
  <2> QED
    BY <2>2, <2>3, <2>7, <2>8, <2>9 DEF JanitorInv, T!OneJanitor
<1> QED
  BY <1>2, <1>3 DEF T!Register

\* The last cache tells the goroutine to stop, which it has not been told yet.
LEMMA UnregisterInv == ASSUME JanitorInv, NEW box \in Caches, T!Unregister(box) PROVE JanitorInv'
<1>1. /\ stop' = stop /\ pc' = pc /\ registered' = registered \ {box}
      /\ box \in registered
  BY DEF T!Unregister, T!sweep
<1>2. running
  BY <1>1 DEF JanitorInv, T!OneJanitor
<1>3. CASE registered' = {}
  <2>1. closed' = closed \cup {stop} /\ ~ running' /\ running' \in BOOLEAN
    BY <1>2, <1>3, Zenon DEF T!Unregister
  <2>2. \A j \in Janitors : ~ (T!Live(j)' /\ j \notin closed')
    BY <1>1, <1>2, <2>1 DEF JanitorInv, T!OneJanitor, T!Live
  <2>3. pc[stop] # "new"
    BY <1>2 DEF JanitorInv, T!OneJanitor, T!Live
  <2>4. \A j \in Janitors : pc'[j] = "new" => j \notin closed'
    BY <1>1, <2>1, <2>3 DEF JanitorInv
  <2> QED
    BY <1>1, <1>3, <2>1, <2>2, <2>4 DEF JanitorInv, T!OneJanitor
<1>4. CASE registered' # {}
  <2>1. closed' = closed /\ running' = running
    BY <1>4 DEF T!Unregister
  <2> QED
    BY <1>1, <1>2, <1>4, <2>1 DEF JanitorInv, T!OneJanitor, T!Live
<1> QED
  BY <1>3, <1>4

\* A step of a goroutine neither starts nor ends it, but for Halt, which ends
\* one that was told to.
LEMMA WorkInv == ASSUME JanitorInv, NEW j \in Janitors, T!Work(j) \/ T!Halt(j) PROVE JanitorInv'
<1>1. UNCHANGED <<registered, running, stop, closed>>
  BY DEF T!Work, T!Wake, T!Collect, T!Sweep, T!Halt, T!janitor
<1>2. PICK p \in Places \ {"new"} : pc' = [pc EXCEPT ![j] = p]
                                 /\ (p = "ended" => j \in closed)
  BY DEF T!Work, T!Wake, T!Collect, T!Sweep, T!Halt, Places
<1>3. pc[j] \notin {"new", "ended"}
  BY DEF T!Work, T!Wake, T!Collect, T!Sweep, T!Halt
<1>4. pc' \in [Janitors -> Places]
  BY <1>2 DEF JanitorInv
<1>5. \A i \in Janitors : pc'[i] = IF i = j THEN p ELSE pc[i]
  BY <1>2 DEF JanitorInv
<1>6. \A i \in Janitors : (T!Live(i)' /\ i \notin closed) <=> (T!Live(i) /\ i \notin closed)
  BY <1>2, <1>3, <1>5 DEF T!Live
<1>7. \A i \in Janitors : pc'[i] = "new" => i \notin closed
  BY <1>2, <1>5 DEF JanitorInv
<1> QED
  BY <1>1, <1>4, <1>6, <1>7 DEF JanitorInv, T!OneJanitor

LEMMA JanitorStep == JanitorInv /\ [T!Next]_(T!vars) => JanitorInv'
<1> SUFFICES ASSUME JanitorInv, [T!Next]_(T!vars) PROVE JanitorInv'
  OBVIOUS
<1>1. ASSUME UNCHANGED <<registered, running, stop, closed, pc>> PROVE JanitorInv'
  BY <1>1 DEF JanitorInv, T!OneJanitor, T!Live
<1>2. CASE UNCHANGED (T!vars)
  BY <1>1, <1>2 DEF T!vars
<1>3. CASE T!Tick
  BY <1>1, <1>3 DEF T!Tick, T!janitor, T!sweep
<1>4. ASSUME NEW r \in Readers, T!GetDelete(r) \/ \E s \in T!Slots : T!Get(r, s) PROVE JanitorInv'
  BY <1>1, <1>4 DEF T!GetDelete, T!Get, T!janitor, T!sweep
<1>5. ASSUME NEW s \in T!Slots, T!Set(s) \/ T!Delete(s) PROVE JanitorInv'
  BY <1>1, <1>5 DEF T!Set, T!Delete, T!janitor, T!sweep
<1>6. ASSUME NEW box \in Caches, T!Clear(box) PROVE JanitorInv'
  BY <1>1, <1>6 DEF T!Clear, T!janitor, T!sweep
<1> QED
  BY <1>2, <1>3, <1>4, <1>5, <1>6, RegisterInv, UnregisterInv, WorkInv DEF T!Next

\* As long as caches are registered exactly one goroutine sweeps, and none is
\* left when there are none, however registrations, ends and sweeps interleave
\* (cache.go:191-220).
THEOREM JanitorIsOne == T!Spec => []OneJanitor
<1>1. JanitorInv => OneJanitor
  BY DEF JanitorInv, OneJanitor
<1> QED
  BY <1>1, JanitorInit, JanitorStep, PTL DEF T!Spec
-----------------------------------------------------------------------------
(* What the T!sweep looks at is not newer than the clock. *)

ClockInv ==
  /\ now \in Nat \ {0}
  /\ data \in [T!Slots -> Nat]
  /\ at \in [Janitors -> Nat]
  /\ \A j \in Janitors : at[j] <= now

LEMMA ClockInit == T!Init => ClockInv
  BY DEF T!Init, ClockInv, T!Absent

LEMMA ClockStep ==
  ASSUME ClockInv, [T!Next]_(T!vars)
  PROVE  ClockInv'
<1>0. TTL \in Nat
  BY TTLAssumption DEF T!TTLCacheAssumption
<1>1. ASSUME UNCHANGED <<now, at>>, data' \in [T!Slots -> Nat] PROVE ClockInv'
  BY <1>1 DEF ClockInv
<1>2. CASE UNCHANGED (T!vars)
  BY <1>1, <1>2 DEF T!vars, ClockInv
<1>3. CASE T!Tick
  BY <1>3 DEF T!Tick, ClockInv, T!sweep
<1>4. ASSUME NEW r \in Readers, T!GetDelete(r) \/ \E s \in T!Slots : T!Get(r, s) PROVE ClockInv'
  BY <1>1, <1>4 DEF T!GetDelete, T!Get, ClockInv, T!sweep, T!Absent
<1>5. ASSUME NEW s \in T!Slots, T!Set(s) \/ T!Delete(s) PROVE ClockInv'
  <2>1. UNCHANGED <<now, at>>
    BY <1>5 DEF T!Set, T!Delete, T!sweep
  <2>2. data' = [data EXCEPT ![s] = now + TTL] \/ data' = [data EXCEPT ![s] = T!Absent]
    BY <1>5 DEF T!Set, T!Delete
  <2>3. now + TTL \in Nat /\ T!Absent \in Nat
    BY <1>0 DEF ClockInv, T!Absent
  <2> QED
    BY <1>1, <2>1, <2>2, <2>3 DEF ClockInv
<1>6. ASSUME NEW box \in Caches, T!Clear(box) \/ T!Register(box) \/ T!Unregister(box) PROVE ClockInv'
  BY <1>1, <1>6 DEF T!Clear, T!Register, T!Unregister, ClockInv, T!sweep, T!Absent
<1>7. ASSUME NEW j \in Janitors, T!Work(j) \/ T!Halt(j) PROVE ClockInv'
  <2>1. CASE T!Wake(j) \/ T!Halt(j)
    BY <1>1, <2>1 DEF T!Wake, T!Halt, ClockInv
  <2>2. CASE T!Collect(j)
    <3>1. now' = now /\ data' = data /\ (at' = at \/ at' = [at EXCEPT ![j] = now])
      BY <2>2 DEF T!Collect
    <3> QED
      BY <3>1 DEF ClockInv
  <2>3. CASE T!Sweep(j)
    <3>1. now' = now /\ at' = [at EXCEPT ![j] = 1]
      BY <2>3 DEF T!Sweep
    <3>2. data' = [s \in T!Slots |-> IF s \in found[j] /\ T!Expired(s, at[j]) THEN T!Absent ELSE data[s]]
      BY <2>3 DEF T!Sweep
    <3>3. data' \in [T!Slots -> Nat]
      BY <3>2 DEF ClockInv, T!Absent
    <3> QED
      BY <3>1, <3>3 DEF ClockInv
  <2> QED
    BY <1>7, <2>1, <2>2, <2>3 DEF T!Work
<1> QED
  BY <1>2, <1>3, <1>4, <1>5, <1>6, <1>7 DEF T!Next

\* An entry that goes without being deleted or cleared has expired.
Kept(s) == (data[s] # T!Absent /\ data'[s] = T!Absent /\ ~ T!Expired(s, now))
             => (T!Delete(s) \/ T!Clear(s.cache))

LEMMA KeptStep ==
  ASSUME ClockInv, [T!Next]_(T!vars), NEW s \in T!Slots
  PROVE  Kept(s)
<1>0. TTL \in Nat
  BY TTLAssumption DEF T!TTLCacheAssumption
<1>1. ASSUME UNCHANGED data PROVE Kept(s)
  BY <1>1 DEF Kept
<1>2. CASE UNCHANGED (T!vars)
  BY <1>1, <1>2 DEF T!vars
<1>3. CASE T!Tick
  BY <1>1, <1>3 DEF T!Tick
<1>4. ASSUME NEW r \in Readers, T!GetDelete(r) PROVE Kept(s)
  <2>1. data' = [data EXCEPT ![get[r]] = IF T!Expired(get[r], now) THEN T!Absent ELSE @]
    BY <1>4 DEF T!GetDelete
  <2>2. CASE s = get[r] /\ ~ T!Expired(s, now)
    BY <2>1, <2>2 DEF Kept, ClockInv
  <2>3. CASE s # get[r]
    BY <2>1, <2>3 DEF Kept, ClockInv
  <2> QED
    BY <2>2, <2>3 DEF Kept
<1>5. ASSUME NEW r \in Readers, NEW e \in T!Slots, T!Get(r, e) PROVE Kept(s)
  BY <1>1, <1>5 DEF T!Get
<1>6. ASSUME NEW e \in T!Slots, T!Set(e) PROVE Kept(s)
  <2>1. data' = [data EXCEPT ![e] = now + TTL]
    BY <1>6 DEF T!Set
  <2>2. now + TTL # 0
    BY <1>0 DEF ClockInv
  <2> QED
    BY <2>1, <2>2 DEF Kept, ClockInv, T!Absent
<1>7. ASSUME NEW e \in T!Slots, T!Delete(e) PROVE Kept(s)
  <2>1. data' = [data EXCEPT ![e] = T!Absent]
    BY <1>7 DEF T!Delete
  <2>2. CASE s = e
    BY <1>7, <2>2 DEF Kept
  <2>3. CASE s # e
    BY <2>1, <2>3 DEF Kept, ClockInv
  <2> QED
    BY <2>2, <2>3
<1>8. ASSUME NEW box \in Caches, T!Clear(box) PROVE Kept(s)
  <2>1. data' = [e \in T!Slots |-> IF e.cache = box THEN T!Absent ELSE data[e]]
    BY <1>8 DEF T!Clear
  <2>2. CASE s.cache = box
    BY <1>8, <2>2 DEF Kept
  <2>3. CASE s.cache # box
    BY <2>1, <2>3 DEF Kept
  <2> QED
    BY <2>2, <2>3
<1>9. ASSUME NEW box \in Caches, T!Register(box) \/ T!Unregister(box) PROVE Kept(s)
  BY <1>1, <1>9 DEF T!Register, T!Unregister
<1>10. ASSUME NEW j \in Janitors, T!Work(j) \/ T!Halt(j) PROVE Kept(s)
  <2>1. CASE T!Wake(j) \/ T!Collect(j) \/ T!Halt(j)
    BY <1>1, <2>1 DEF T!Wake, T!Collect, T!Halt
  <2>2. CASE T!Sweep(j)
    <3>1. data'[s] = IF s \in found[j] /\ T!Expired(s, at[j]) THEN T!Absent ELSE data[s]
      BY <2>2 DEF T!Sweep
    <3>2. T!Expired(s, at[j]) => T!Expired(s, now)
      BY DEF T!Expired, ClockInv
    <3> QED
      BY <3>1, <3>2 DEF Kept
  <2> QED
    BY <1>10, <2>1, <2>2 DEF T!Work
<1> QED
  BY <1>2, <1>3, <1>4, <1>5, <1>6, <1>7, <1>8, <1>9, <1>10 DEF T!Next

\* No deletion that two locks tear apart, of Get or of the sweep, takes an
\* entry that was stored anew in between (cache.go:55, 125).
THEOREM FreshStaysKept == T!Spec => FreshIsKept
<1>1. ClockInv /\ [T!Next]_(T!vars) => ClockInv'
  BY ClockStep
<1>2. ClockInv /\ [T!Next]_(T!vars) => [\A s \in T!Slots : Kept(s)]_(T!vars)
  BY KeptStep
<1>3. [\A s \in T!Slots : Kept(s)]_(T!vars)
        => [\A s \in T!Slots : (data[s] # T!Absent /\ data'[s] = T!Absent /\ ~ T!Expired(s, now))
                               => (T!Delete(s) \/ T!Clear(s.cache))]_(T!vars)
  BY DEF Kept
<1> QED
  BY <1>1, <1>2, <1>3, ClockInit, PTL DEF T!Spec, T!FreshIsKept, FreshIsKept
=============================================================================
