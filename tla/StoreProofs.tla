---------------------------- MODULE StoreProofs -----------------------------
(***************************************************************************)
(* Proofs about Store, for any documents, any number of commands that run  *)
(* at the same time, and any failures.                                     *)
(***************************************************************************)
EXTENDS Store, TLAPS

Things == {Unreachable} \cup UNION {Items[k] : k \in Docs}
Names == {Collection[k] : k \in Docs}
Writers == {"toggle", "set", "admit", "meet", "mark"}

Frames == [kind : Writers \cup {"none", "show", "list", "backup", "restore"},
           key : Docs, item : Things, on : BOOLEAN, seen : Values, dump : Contents,
           names : SUBSET Names, todo : SUBSET Names, left : SUBSET Docs,
           failed : BOOLEAN, touched : SUBSET Docs]

\* What is written fits the document it is written to.
Fits(l, f) ==
  /\ f.kind = "toggle" => f.key \in Chats
  /\ f.kind = "set" => f.key \in Chats \cup Loggers
  /\ f.kind = "admit" => f.key \in Lists
  /\ f.kind \in {"meet", "mark"} => f.key \in Chats \cup Users
  /\ f.kind \in Writers \ {"meet"} => f.item \in Items[f.key]
  /\ f.kind = "meet" => ~ f.on
  /\ l \in {"write", "evict", "keep"} => f.kind \in Writers
  /\ l = "keep" => Refreshes(f)

\* What a command goes by is what the document holds, unless it has been touched.
Current(l, f, store) ==
  /\ l = "fill" => f.seen # None
  /\ f.key \in f.touched
     \/ /\ l = "fill" => f.seen = store[f.key]
        /\ l = "decide" /\ f.kind # "list" => On(f.seen) = On(store[f.key])
        /\ l = "write" /\ f.kind = "toggle" => (f.on <=> f.item \notin On(store[f.key]))
        /\ l = "keep" => store[f.key] = IF f.on THEN {f.item} ELSE {}

\* What a backup has read so far.
Dumped(f, store) ==
  \A k \in Docs :
    Collection[k] \in f.names /\ k \notin f.left => f.dump[k] = store[k] \/ k \in f.touched

\* What a restore has put back so far.
Restored(f, store) ==
  \A k \in Docs : Collection[k] \in f.names \ f.todo =>
    \/ k \in f.touched
    \/ store[k] = IF k \in f.left THEN None ELSE f.dump[k]

FrameOK(l, f, store) ==
  /\ f \in Frames
  /\ Fits(l, f)
  /\ Current(l, f, store)
  /\ l = "dump" /\ ~ f.failed => Dumped(f, store)
  /\ l \in {"drop", "insert many"} /\ ~ f.failed => Restored(f, store)
  /\ l = "drop" => f.left = {}

FramesOK == \A t \in Threads : FrameOK(pc[t], frame[t], stored)

Shared ==
  /\ stored \in Contents /\ cache \in [Docs -> Values]
  /\ zip \in {None} \cup [dump : Contents, names : SUBSET Names]
  /\ pc \in [Threads -> Labels]
  /\ frame \in [Threads -> Frames]
  /\ commands \in 0 .. MaxCommands /\ trouble \in 0 .. MaxTrouble
  /\ suspect \subseteq Docs

Inv == Shared /\ FramesOK /\ StaleForAReason

LEMMA InvIsStrong == Inv => TypeOK /\ StaleForAReason /\ BackupIsWhole /\ RestoreIsExact
<1> SUFFICES ASSUME Inv
             PROVE  TypeOK /\ StaleForAReason /\ BackupIsWhole /\ RestoreIsExact
  OBVIOUS
<1>1. ASSUME NEW t \in Threads
      PROVE  /\ frame[t] \in Frames
             /\ FrameOK(pc[t], frame[t], stored)
  BY DEF Inv, FramesOK, FrameOK
<1>2. TypeOK
  <2>1. stored \in [Docs -> Values]
    BY DEF Inv, Shared, Contents
  <2>2. zip # None => zip.dump \in [Docs -> Values]
    BY DEF Inv, Shared, Contents
  <2>3. ASSUME NEW t \in Threads
        PROVE  /\ frame[t].key \in Docs /\ frame[t].seen \in Values
               /\ frame[t].left \cup frame[t].touched \subseteq Docs
               /\ At(t, "fill") => frame[t].seen # None
    BY <1>1 DEF Frames, FrameOK, Current, At
  <2> QED
    BY <2>1, <2>2, <2>3 DEF TypeOK, Inv, Shared
<1>3. BackupIsWhole
  BY <1>1 DEF BackupIsWhole, FrameOK, Dumped, At, Touched
<1>4. RestoreIsExact
  BY <1>1 DEF RestoreIsExact, FrameOK, Restored, At, Touched
<1> QED
  BY <1>2, <1>3, <1>4 DEF Inv
-----------------------------------------------------------------------------
(* Documents and frames. *)

LEMMA SetsAreValues ==
  /\ On(None) = {}
  /\ \A s \in SUBSET UNION {Items[k] : k \in Docs} : s \in Values /\ s # None /\ On(s) = s
  BY StoreAssumption DEF On, Values

LEMMA ItemsAreThings ==
  ASSUME NEW k \in Docs
  PROVE  Items[k] \subseteq UNION {Items[d] : d \in Docs} /\ Items[k] \subseteq Things
  BY DEF Things

\* A document may be given any set of what may be on in it.
LEMMA ContentsExcept ==
  ASSUME NEW s \in Contents, NEW k \in Docs, NEW v \in {None} \cup SUBSET Items[k]
  PROVE  [s EXCEPT ![k] = v] \in Contents
<1>1. v \in Values /\ On(v) \subseteq Items[k]
  BY SetsAreValues, ItemsAreThings DEF Values
<1>2. [s EXCEPT ![k] = v] \in [Docs -> Values]
  BY <1>1 DEF Contents
<1>3. \A d \in Docs : On([s EXCEPT ![k] = v][d]) \subseteq Items[d]
  BY <1>1 DEF Contents
<1> QED
  BY <1>2, <1>3 DEF Contents

LEMMA ContentsAreSets ==
  ASSUME NEW s \in Contents, NEW k \in Docs
  PROVE  s[k] \in Values /\ s[k] \in {None} \cup SUBSET Items[k] /\ On(s[k]) \subseteq Items[k]
<1>1. s[k] \in Values /\ On(s[k]) \subseteq Items[k]
  BY DEF Contents
<1>2. s[k] # None => On(s[k]) = s[k]
  BY DEF On
<1> QED
  BY <1>1, <1>2 DEF Values

LEMMA IdleIsFrame ==
  /\ Idle \in Frames
  /\ \A store : FrameOK("idle", Idle, store)
<1>1. (CHOOSE k \in Docs : TRUE) \in Docs
  BY StoreAssumption
<1>2. [k \in Docs |-> None] \in Contents
  BY SetsAreValues DEF Contents, Values
<1>3. Unreachable \in Things /\ None \in Values
  BY DEF Things, Values
<1>4. Idle \in Frames
  BY <1>1, <1>2, <1>3 DEF Idle, Frames
<1>5. ASSUME NEW store
      PROVE  Fits("idle", Idle) /\ Current("idle", Idle, store)
  BY DEF Fits, Current, Idle, Writers
<1> QED
  BY <1>4, <1>5 DEF FrameOK

\* What another command changes, a command has been touched by.
LEMMA TouchedIsOK ==
  ASSUME NEW store, NEW new, NEW l, NEW f, FrameOK(l, f, store)
  PROVE  FrameOK(l, [f EXCEPT !.touched = @ \cup {k \in Docs : new[k] # store[k]}], new)
<1> DEFINE g == [f EXCEPT !.touched = @ \cup {k \in Docs : new[k] # store[k]}]
<1>1. f \in Frames
  BY DEF FrameOK
<1>2. g \in Frames
  BY <1>1 DEF Frames
<1>3. /\ g.kind = f.kind /\ g.key = f.key /\ g.item = f.item /\ g.on = f.on
      /\ g.seen = f.seen /\ g.dump = f.dump /\ g.names = f.names /\ g.todo = f.todo
      /\ g.left = f.left /\ g.failed = f.failed
  BY <1>1 DEF Frames
<1>4. \A k \in Docs : k \notin g.touched => k \notin f.touched /\ new[k] = store[k]
  BY <1>1 DEF Frames
<1>5. f.key \in Docs
  BY <1>1 DEF Frames
<1> HIDE DEF g
<1>6. Fits(l, g)
  BY <1>3 DEF FrameOK, Fits, Refreshes
<1>7. Current(l, g, new)
  BY <1>3, <1>4, <1>5 DEF FrameOK, Current
<1>8. l = "dump" /\ ~ g.failed => Dumped(g, new)
  BY <1>3, <1>4 DEF FrameOK, Dumped
<1>9. l \in {"drop", "insert many"} /\ ~ g.failed => Restored(g, new)
  BY <1>3, <1>4 DEF FrameOK, Restored
<1>10. l = "drop" => g.left = {}
  BY <1>3 DEF FrameOK
<1>11. FrameOK(l, g, new)
  BY <1>2, <1>6, <1>7, <1>8, <1>9, <1>10 DEF FrameOK
<1> QED
  BY <1>11 DEF g

\* A step of t that leaves the documents alone concerns its own frame.
LEMMA AloneIsOK ==
  ASSUME Inv, NEW t \in Threads, NEW l \in Labels, NEW f,
         pc' = [pc EXCEPT ![t] = l], frame' = [frame EXCEPT ![t] = f],
         stored' = stored, FrameOK(l, f, stored)
  PROVE  /\ pc' \in [Threads -> Labels] /\ frame' \in [Threads -> Frames]
         /\ FramesOK'
<1>1. f \in Frames
  BY DEF FrameOK
<1>2. pc' \in [Threads -> Labels] /\ frame' \in [Threads -> Frames]
  BY <1>1 DEF Inv, Shared
<1>3. ASSUME NEW u \in Threads
      PROVE  FrameOK(pc'[u], frame'[u], stored')
  <2>1. CASE u = t
    BY <2>1 DEF Inv, Shared
  <2>2. CASE u # t
    <3>1. pc'[u] = pc[u] /\ frame'[u] = frame[u]
      BY <2>2 DEF Inv, Shared
    <3>2. FrameOK(pc[u], frame[u], stored)
      BY DEF Inv, FramesOK
    <3> QED
      BY <3>1, <3>2
  <2> QED
    BY <2>1, <2>2
<1> QED
  BY <1>2, <1>3 DEF FramesOK

\* A step of t that changes documents touches the others.
LEMMA ChangesIsOK ==
  ASSUME Inv, NEW t \in Threads, NEW l \in Labels, NEW f, NEW new,
         pc' = [pc EXCEPT ![t] = l], Changes(t, new, f), FrameOK(l, f, new)
  PROVE  /\ pc' \in [Threads -> Labels] /\ frame' \in [Threads -> Frames]
         /\ FramesOK'
<1> DEFINE Met(u) == [frame[u] EXCEPT !.touched = @ \cup {k \in Docs : new[k] # stored[k]}]
<1>1. stored' = new
  BY DEF Changes
<1>2. frame' = [u \in Threads |-> IF u = t THEN f ELSE IF At(u, "idle") THEN Idle ELSE Met(u)]
  BY DEF Changes
<1>3. ASSUME NEW u \in Threads
      PROVE  FrameOK(pc[u], Met(u), new)
  <2>1. FrameOK(pc[u], frame[u], stored)
    BY DEF Inv, FramesOK
  <2> QED
    BY <2>1, TouchedIsOK
<1> HIDE DEF Met
<1>4. ASSUME NEW u \in Threads
      PROVE  FrameOK(pc'[u], frame'[u], new)
  <2>1. CASE u = t
    <3>1. pc'[u] = l /\ frame'[u] = f
      BY <1>2, <2>1 DEF Inv, Shared
    <3> QED
      BY <3>1
  <2>2. CASE u # t /\ At(u, "idle")
    <3>1. pc'[u] = "idle" /\ frame'[u] = Idle
      BY <1>2, <2>2 DEF Inv, Shared, At
    <3> QED
      BY <3>1, IdleIsFrame
  <2>3. CASE u # t /\ ~ At(u, "idle")
    <3>1. pc'[u] = pc[u] /\ frame'[u] = Met(u)
      BY <1>2, <2>3 DEF Inv, Shared
    <3> QED
      BY <3>1, <1>3
  <2> QED
    BY <2>1, <2>2, <2>3
<1>5. pc' \in [Threads -> Labels]
  BY DEF Inv, Shared
<1>6. frame' \in [Threads -> Frames]
  <2>1. \A u \in Threads : frame'[u] \in Frames
    BY <1>4 DEF FrameOK
  <2>2. frame' = [u \in Threads |-> frame'[u]]
    BY <1>2
  <2> QED
    BY <2>1, <2>2
<1> QED
  BY <1>1, <1>4, <1>5, <1>6 DEF FramesOK
-----------------------------------------------------------------------------
(* What the entries rest on. *)

Quiet(t) == pc[t] \notin {"evict", "keep"}

\* Another writer is between the document and the entry as long as it was.
LEMMA PendingStays ==
  ASSUME Inv, NEW t \in Threads, NEW l, pc' = [pc EXCEPT ![t] = l],
         \A u \in Threads \ {t} : ~ At(u, "idle") => frame'[u].key = frame[u].key,
         NEW k, Pending(k), Quiet(t) \/ Key(t) # k
  PROVE  Pending(k)'
<1>1. PICK u \in Threads : pc[u] \in {"evict", "keep"} /\ frame[u].key = k
  BY DEF Pending, At, Key
<1>2. u # t
  BY <1>1 DEF Quiet, Key
<1>3. pc'[u] = pc[u] /\ frame'[u].key = frame[u].key
  BY <1>1, <1>2 DEF Inv, Shared, At
<1> QED
  BY <1>1, <1>3 DEF Pending, At, Key

LEMMA OthersKeep ==
  ASSUME Inv, NEW t \in Threads, NEW f,
         \/ frame' = [frame EXCEPT ![t] = f]
         \/ \E new : Changes(t, new, f)
  PROVE  \A u \in Threads \ {t} : ~ At(u, "idle") => frame'[u].key = frame[u].key
<1>1. CASE frame' = [frame EXCEPT ![t] = f]
  BY <1>1 DEF Inv, Shared
<1>2. CASE \E new : Changes(t, new, f)
  <2>1. PICK new : Changes(t, new, f)
    BY <1>2
  <2>2. ASSUME NEW u \in Threads \ {t}, ~ At(u, "idle")
        PROVE  frame'[u].key = frame[u].key
    <3>1. frame'[u] = [frame[u] EXCEPT !.touched = @ \cup {k \in Docs : new[k] # stored[k]}]
      BY <2>1, <2>2 DEF Changes
    <3>2. frame[u] \in Frames
      BY DEF Inv, Shared
    <3> QED
      BY <3>1, <3>2 DEF Frames
  <2> QED
    BY <2>2
<1> QED
  BY <1>1, <1>2

\* A step of a command that writes nothing leaves the entries as right as they were.
LEMMA QuietStep ==
  ASSUME Inv, NEW t \in Threads, NEW l, NEW f,
         pc' = [pc EXCEPT ![t] = l], frame' = [frame EXCEPT ![t] = f],
         stored' = stored, cache' = cache, suspect' = suspect, Quiet(t)
  PROVE  StaleForAReason'
<1>1. \A u \in Threads \ {t} : ~ At(u, "idle") => frame'[u].key = frame[u].key
  BY OthersKeep
<1>2. \A k : Pending(k) => Pending(k)'
  BY <1>1, PendingStays
<1> QED
  BY <1>2 DEF Inv, StaleForAReason
-----------------------------------------------------------------------------
LEMMA InitInv == Init => Inv
<1> SUFFICES ASSUME Init
             PROVE  Inv
  OBVIOUS
<1>1. stored \in Contents /\ zip \in {None} \cup [dump : Contents, names : SUBSET Names]
  BY StoreAssumption DEF Init, Names
<1>2. cache \in [Docs -> Values]
  BY DEF Init, Values
<1>3. pc \in [Threads -> Labels] /\ \A t \in Threads : pc[t] = "idle"
  BY DEF Init, Labels
<1>4. frame \in [Threads -> Frames] /\ \A t \in Threads : frame[t] = Idle
  BY IdleIsFrame DEF Init
<1>5. commands \in 0 .. MaxCommands /\ trouble \in 0 .. MaxTrouble /\ suspect \subseteq Docs
  BY StoreAssumption DEF Init
<1>6. FramesOK
  BY <1>3, <1>4, IdleIsFrame DEF FramesOK
<1>7. StaleForAReason
  BY DEF StaleForAReason, Init
<1> QED
  BY <1>1, <1>2, <1>3, <1>4, <1>5, <1>6, <1>7 DEF Inv, Shared
-----------------------------------------------------------------------------
(* Steps that change neither a document nor an entry. *)

LEMMA AsideInv ==
  ASSUME Inv, NEW t \in Threads, NEW f, NEW l \in Labels,
         pc' = [pc EXCEPT ![t] = l], frame' = [frame EXCEPT ![t] = f],
         stored' = stored, cache' = cache, suspect' = suspect,
         zip' \in {None} \cup [dump : Contents, names : SUBSET Names],
         commands' \in 0 .. MaxCommands, trouble' \in 0 .. MaxTrouble,
         Quiet(t), FrameOK(l, f, stored)
  PROVE  Inv'
<1>1. pc' \in [Threads -> Labels] /\ frame' \in [Threads -> Frames] /\ FramesOK'
  BY AloneIsOK
<1>2. StaleForAReason'
  BY QuietStep
<1> QED
  BY <1>1, <1>2 DEF Inv, Shared

LEMMA TroubleOK ==
  ASSUME Inv, trouble' = trouble \/ \E fault : Fails(fault)
  PROVE  trouble' \in 0 .. MaxTrouble
<1>1. trouble \in 0 .. MaxTrouble
  BY DEF Inv, Shared
<1>2. trouble' = trouble \/ (trouble > 0 /\ trouble' = trouble - 1)
  BY DEF Fails
<1> QED
  BY <1>1, <1>2, StoreAssumption

LEMMA FrameIsOK ==
  ASSUME Inv, NEW t \in Threads
  PROVE  FrameOK(pc[t], frame[t], stored) /\ frame[t] \in Frames /\ frame[t].key \in Docs
  BY DEF Inv, FramesOK, Shared, Frames

LEMMA ReturnInv ==
  ASSUME Inv, NEW t \in Threads, Return(t), Quiet(t),
         stored' = stored, cache' = cache, suspect' = suspect,
         zip' \in {None} \cup [dump : Contents, names : SUBSET Names],
         commands' \in 0 .. MaxCommands, trouble' \in 0 .. MaxTrouble
  PROVE  Inv'
<1>1. FrameOK("idle", Idle, stored) /\ "idle" \in Labels
  BY IdleIsFrame DEF Labels
<1> QED
  BY <1>1, AsideInv DEF Return, Goto
-----------------------------------------------------------------------------
(* The commands start. *)

LEMMA BeginInv ==
  ASSUME Inv, NEW t \in Threads, NEW f, NEW l \in Labels, Begin(t, f, l),
         FrameOK(l, f, stored)
  PROVE  Inv'
<1>1. /\ pc' = [pc EXCEPT ![t] = l] /\ frame' = [frame EXCEPT ![t] = f]
      /\ stored' = stored /\ cache' = cache /\ zip' = zip
      /\ trouble' = trouble /\ suspect' = suspect
  BY DEF Begin, Goto
<1>2. Quiet(t)
  BY DEF Begin, At, Quiet
<1>3. commands' \in 0 .. MaxCommands
  <2>1. commands \in 0 .. MaxCommands /\ commands > 0 /\ commands' = commands - 1
    BY DEF Begin, Inv, Shared
  <2> QED
    BY <2>1, StoreAssumption
<1> QED
  BY <1>1, <1>2, <1>3, AsideInv DEF Inv, Shared

LEMMA CommandInv ==
  ASSUME Inv, NEW t \in Threads, Command(t)
  PROVE  Inv'
<1> USE DEF Labels
<1>1. ASSUME Show(t) PROVE Inv'
  <2>1. PICK k \in Docs : Begin(t, [Idle EXCEPT !.kind = "show", !.key = k], "lookup")
    BY <1>1 DEF Show
  <2> DEFINE f == [Idle EXCEPT !.kind = "show", !.key = k]
  <2>2. f \in Frames /\ f.kind = "show"
    BY IdleIsFrame DEF Frames
  <2>3. FrameOK("lookup", f, stored)
    BY <2>2 DEF FrameOK, Fits, Current, Writers
  <2> QED
    BY <2>1, <2>3, BeginInv
<1>2. ASSUME Toggle(t) PROVE Inv'
  <2>a. PICK k \in Chats : \E i \in Items[k] :
          Begin(t, [Idle EXCEPT !.kind = "toggle", !.key = k, !.item = i], "lookup")
    BY <1>2 DEF Toggle
  <2>1. PICK i \in Items[k] :
          Begin(t, [Idle EXCEPT !.kind = "toggle", !.key = k, !.item = i], "lookup")
    BY <2>a
  <2> DEFINE f == [Idle EXCEPT !.kind = "toggle", !.key = k, !.item = i]
  <2>2. k \in Docs /\ i \in Things
    BY ItemsAreThings DEF Docs
  <2>3. f \in Frames /\ f.kind = "toggle" /\ f.key = k /\ f.item = i
    BY <2>2, IdleIsFrame DEF Frames, Writers
  <2>4. FrameOK("lookup", f, stored)
    BY <2>3 DEF FrameOK, Fits, Current, Writers
  <2> QED
    BY <2>1, <2>4, BeginInv
<1>3. ASSUME Set(t) PROVE Inv'
  <2>a. PICK k \in Chats \cup Loggers :
          \E i \in Items[k] \cap (IF k \in Chats THEN NeedsRight ELSE Items[k]),
             on \in (IF k \in Chats THEN {FALSE} ELSE BOOLEAN) :
            Begin(t, [Idle EXCEPT !.kind = "set", !.key = k, !.item = i, !.on = on], "write")
    BY <1>3 DEF Set
  <2>b. PICK i \in Items[k], on \in (IF k \in Chats THEN {FALSE} ELSE BOOLEAN) :
          Begin(t, [Idle EXCEPT !.kind = "set", !.key = k, !.item = i, !.on = on], "write")
    BY <2>a
  <2>1. on \in BOOLEAN /\ Begin(t, [Idle EXCEPT !.kind = "set", !.key = k, !.item = i, !.on = on], "write")
    BY <2>b
  <2> DEFINE f == [Idle EXCEPT !.kind = "set", !.key = k, !.item = i, !.on = on]
  <2>2. k \in Docs /\ i \in Things
    BY ItemsAreThings DEF Docs
  <2>3. f \in Frames /\ f.kind = "set" /\ f.key = k /\ f.item = i
    BY <2>2, IdleIsFrame DEF Frames, Writers
  <2>4. FrameOK("write", f, stored)
    BY <2>3 DEF FrameOK, Fits, Current, Writers
  <2> QED
    BY <2>1, <2>4, BeginInv
<1>4. ASSUME Admit(t) PROVE Inv'
  <2>a. PICK k \in Lists : \E i \in Items[k], on \in BOOLEAN :
          Begin(t, [Idle EXCEPT !.kind = "admit", !.key = k, !.item = i, !.on = on], "lookup")
    BY <1>4 DEF Admit
  <2>1. PICK i \in Items[k], on \in BOOLEAN :
          Begin(t, [Idle EXCEPT !.kind = "admit", !.key = k, !.item = i, !.on = on], "lookup")
    BY <2>a
  <2> DEFINE f == [Idle EXCEPT !.kind = "admit", !.key = k, !.item = i, !.on = on]
  <2>2. k \in Docs /\ i \in Things
    BY ItemsAreThings DEF Docs
  <2>3. f \in Frames /\ f.kind = "admit" /\ f.key = k /\ f.item = i
    BY <2>2, IdleIsFrame DEF Frames, Writers
  <2>4. FrameOK("lookup", f, stored)
    BY <2>3 DEF FrameOK, Fits, Current, Writers
  <2> QED
    BY <2>1, <2>4, BeginInv
<1>5. ASSUME Meet(t) PROVE Inv'
  <2>1. PICK k \in Chats \cup Users :
          Begin(t, [Idle EXCEPT !.kind = "meet", !.key = k, !.item = Unreachable], "lookup")
    BY <1>5 DEF Meet
  <2> DEFINE f == [Idle EXCEPT !.kind = "meet", !.key = k, !.item = Unreachable]
  <2>2. k \in Docs /\ Unreachable \in Things
    BY DEF Docs, Things
  <2>3. f \in Frames /\ f.kind = "meet" /\ f.key = k
    BY <2>2, IdleIsFrame DEF Frames, Writers
  <2>4. f.on = FALSE
    BY DEF Idle
  <2>5. FrameOK("lookup", f, stored)
    BY <2>3, <2>4 DEF FrameOK, Fits, Current, Writers
  <2> QED
    BY <2>1, <2>5, BeginInv
<1>6. ASSUME Mark(t) PROVE Inv'
  <2>a. PICK k \in Chats \cup Users : \E i \in Items[k] :
          Begin(t, [Idle EXCEPT !.kind = "mark", !.key = k, !.item = i, !.on = TRUE], "write")
    BY <1>6 DEF Mark
  <2>1. PICK i \in Items[k] :
          Begin(t, [Idle EXCEPT !.kind = "mark", !.key = k, !.item = i, !.on = TRUE], "write")
    BY <2>a
  <2> DEFINE f == [Idle EXCEPT !.kind = "mark", !.key = k, !.item = i, !.on = TRUE]
  <2>2. k \in Docs /\ i \in Things
    BY ItemsAreThings DEF Docs
  <2>3. f \in Frames /\ f.kind = "mark" /\ f.key = k /\ f.item = i
    BY <2>2, IdleIsFrame DEF Frames, Writers
  <2>4. FrameOK("write", f, stored)
    BY <2>3 DEF FrameOK, Fits, Current, Writers
  <2> QED
    BY <2>1, <2>4, BeginInv
<1>7. ASSUME List(t) PROVE Inv'
  <2>1. PICK k \in Chats \cup Users : Begin(t, [Idle EXCEPT !.kind = "list", !.key = k], "find")
    BY <1>7 DEF List
  <2> DEFINE f == [Idle EXCEPT !.kind = "list", !.key = k]
  <2>2. k \in Docs
    BY DEF Docs
  <2>3. f \in Frames /\ f.kind = "list"
    BY <2>2, IdleIsFrame DEF Frames
  <2>4. FrameOK("find", f, stored)
    BY <2>3 DEF FrameOK, Fits, Current, Writers
  <2> QED
    BY <2>1, <2>4, BeginInv
<1>8. ASSUME Backup(t) PROVE Inv'
  <2> DEFINE names == {Collection[k] : k \in {k \in Docs : stored[k] # None}}
             f == [Idle EXCEPT !.kind = "backup", !.names = names,
                               !.left = {k \in Docs : Collection[k] \in names}]
  <2>1. Begin(t, f, "dump")
    BY <1>8 DEF Backup
  <2>2. names \in SUBSET Names
    BY DEF Names
  <2> HIDE DEF names
  <2>3. f \in Frames /\ f.kind = "backup"
        /\ f.names = names /\ f.left = {k \in Docs : Collection[k] \in names}
    BY <2>2, IdleIsFrame DEF Frames
  <2>4. Dumped(f, stored)
    BY <2>3 DEF Dumped
  <2>5. FrameOK("dump", f, stored)
    BY <2>3, <2>4 DEF FrameOK, Fits, Current, Writers
  <2> QED
    BY <2>1, <2>5, BeginInv
<1>9. ASSUME Restore(t) PROVE Inv'
  <2> DEFINE f == [Idle EXCEPT !.kind = "restore", !.dump = zip.dump, !.names = zip.names,
                               !.todo = zip.names]
  <2>1. Begin(t, f, "drop") /\ zip # None
    BY <1>9 DEF Restore
  <2>2. zip \in [dump : Contents, names : SUBSET Names]
    BY <2>1 DEF Inv, Shared
  <2>3. f \in Frames /\ f.kind = "restore" /\ f.names = f.todo /\ f.left = Idle.left
    BY <2>2, IdleIsFrame DEF Frames
  <2>4. f.left = {}
    BY <2>3 DEF Idle
  <2>5. Restored(f, stored)
    BY <2>3 DEF Restored
  <2>6. FrameOK("drop", f, stored)
    BY <2>3, <2>4, <2>5 DEF FrameOK, Fits, Current, Writers
  <2> QED
    BY <2>1, <2>6, BeginInv
<1> QED
  BY <1>1, <1>2, <1>3, <1>4, <1>5, <1>6, <1>7, <1>8, <1>9 DEF Command
-----------------------------------------------------------------------------
(* A read. *)

LEMMA LookupInv ==
  ASSUME Inv, NEW t \in Threads, Lookup(t)
  PROVE  Inv'
<1> DEFINE k == Key(t)
<1>1. /\ pc[t] = "lookup" /\ Quiet(t) /\ k \in Docs /\ frame[t] \in Frames
      /\ FrameOK("lookup", frame[t], stored)
  BY FrameIsOK DEF Lookup, At, Quiet, Key
<1>2. /\ stored' = stored /\ cache' = cache /\ suspect' = suspect
      /\ zip' \in {None} \cup [dump : Contents, names : SUBSET Names]
      /\ commands' \in 0 .. MaxCommands /\ trouble' \in 0 .. MaxTrouble
  BY DEF Lookup, Inv, Shared
<1>3. CASE Return(t)
  BY <1>1, <1>2, <1>3, ReturnInv
<1>4. CASE Kind(t) = "meet" /\ Goto(t, "write") /\ UNCHANGED frame
  <2>1. frame' = [frame EXCEPT ![t] = frame[t]] /\ pc' = [pc EXCEPT ![t] = "write"]
    BY <1>4 DEF Inv, Shared, Goto
  <2>2. FrameOK("write", frame[t], stored)
    BY <1>1, <1>4 DEF FrameOK, Fits, Current, Writers, Kind
  <2> QED
    BY <1>1, <1>2, <2>1, <2>2, AsideInv DEF Labels
<1>5. CASE Goto(t, "find") /\ UNCHANGED frame
  <2>1. frame' = [frame EXCEPT ![t] = frame[t]] /\ pc' = [pc EXCEPT ![t] = "find"]
    BY <1>5 DEF Inv, Shared, Goto
  <2>2. FrameOK("find", frame[t], stored)
    BY <1>1 DEF FrameOK, Fits, Current, Writers
  <2> QED
    BY <1>1, <1>2, <2>1, <2>2, AsideInv DEF Labels
<1>6. CASE /\ cache[k] # None
           /\ frame' = [frame EXCEPT ![t].seen = cache[k], ![t].touched =
                IF k \in suspect \/ Pending(k) THEN {k} ELSE {}]
           /\ Goto(t, "decide")
  <2> DEFINE touched == IF k \in suspect \/ Pending(k) THEN {k} ELSE {}
             f == [frame[t] EXCEPT !.seen = cache[k], !.touched = touched]
  <2>1. frame' = [frame EXCEPT ![t] = f] /\ pc' = [pc EXCEPT ![t] = "decide"]
    BY <1>6 DEF Goto
  <2>2. touched \subseteq Docs /\ cache[k] \in Values
    BY <1>1 DEF Inv, Shared
  <2>3. k \in touched \/ cache[k] = stored[k]
    BY <1>1, <1>6 DEF Inv, StaleForAReason
  <2> HIDE DEF touched
  <2>4. /\ f \in Frames /\ f.seen = cache[k] /\ f.touched = touched
        /\ f.kind = frame[t].kind /\ f.key = k /\ f.item = frame[t].item /\ f.on = frame[t].on
    BY <1>1, <2>2 DEF Frames, Key
  <2>5. Fits("decide", f)
    BY <1>1, <2>4 DEF FrameOK, Fits, Key
  <2>6. Current("decide", f, stored)
    BY <2>3, <2>4 DEF Current
  <2>7. FrameOK("decide", f, stored)
    BY <2>4, <2>5, <2>6 DEF FrameOK
  <2> QED
    BY <1>1, <1>2, <2>1, <2>7, AsideInv DEF Labels
<1> QED
  BY <1>3, <1>4, <1>5, <1>6 DEF Lookup

LEMMA FindInv ==
  ASSUME Inv, NEW t \in Threads, Find(t)
  PROVE  Inv'
<1> DEFINE k == Key(t)
           met == stored[k] # None /\ (Kind(t) = "list" => Unreachable \notin stored[k])
           seen == IF met THEN stored[k] ELSE None
<1>1. /\ pc[t] = "find" /\ Quiet(t) /\ k \in Docs /\ frame[t] \in Frames
      /\ FrameOK("find", frame[t], stored)
  BY FrameIsOK DEF Find, At, Quiet, Key
<1>2. /\ stored' = stored /\ cache' = cache /\ suspect' = suspect
      /\ zip' \in {None} \cup [dump : Contents, names : SUBSET Names]
      /\ commands' \in 0 .. MaxCommands
  BY DEF Find, Inv, Shared
<1>3. trouble' \in 0 .. MaxTrouble
  BY TroubleOK DEF Find
<1>4. seen \in Values
  BY <1>1 DEF Inv, Shared, Contents, Values
<1>5. CASE /\ frame' = [frame EXCEPT ![t].seen = seen, ![t].touched = {}]
           /\ Goto(t, IF met THEN "fill" ELSE "decide")
  <2> DEFINE f == [frame[t] EXCEPT !.seen = seen, !.touched = {}]
             l == IF met THEN "fill" ELSE "decide"
  <2>1. frame' = [frame EXCEPT ![t] = f] /\ pc' = [pc EXCEPT ![t] = l]
    BY <1>5 DEF Goto
  <2>2. l = "fill" => seen = stored[k] /\ seen # None
    OBVIOUS
  <2>3. l = "decide" /\ frame[t].kind # "list" => seen = None /\ stored[k] = None
    BY DEF Kind
  <2>4. l \in {"fill", "decide"}
    OBVIOUS
  <2> HIDE DEF l, seen
  <2>5. /\ f \in Frames /\ f.seen = seen
        /\ f.kind = frame[t].kind /\ f.key = k /\ f.item = frame[t].item /\ f.on = frame[t].on
    BY <1>1, <1>4 DEF Frames, Key
  <2>6. Fits(l, f)
    BY <1>1, <2>4, <2>5 DEF FrameOK, Fits, Key
  <2>7. Current(l, f, stored)
    BY <2>2, <2>3, <2>4, <2>5 DEF Current
  <2>8. FrameOK(l, f, stored)
    BY <2>4, <2>5, <2>6, <2>7 DEF FrameOK
  <2>9. l \in Labels
    BY <2>4 DEF Labels
  <2> QED
    BY <1>1, <1>2, <1>3, <2>1, <2>8, <2>9, AsideInv
<1>6. CASE frame' = [frame EXCEPT ![t].touched = {k}] /\ Goto(t, "decide")
  <2> DEFINE f == [frame[t] EXCEPT !.touched = {k}]
  <2>1. frame' = [frame EXCEPT ![t] = f] /\ pc' = [pc EXCEPT ![t] = "decide"]
    BY <1>6 DEF Goto
  <2>2. /\ f \in Frames /\ f.touched = {k}
        /\ f.kind = frame[t].kind /\ f.key = k /\ f.item = frame[t].item /\ f.on = frame[t].on
    BY <1>1 DEF Frames, Key
  <2>3. Fits("decide", f) /\ Current("decide", f, stored)
    BY <1>1, <2>2 DEF FrameOK, Fits, Current, Key
  <2>4. FrameOK("decide", f, stored)
    BY <2>2, <2>3 DEF FrameOK
  <2> QED
    BY <1>1, <1>2, <1>3, <2>1, <2>4, AsideInv DEF Labels
<1> QED
  BY <1>5, <1>6 DEF Find

LEMMA FillInv ==
  ASSUME Inv, NEW t \in Threads, Fill(t)
  PROVE  Inv'
<1> DEFINE k == Key(t)
           f == frame[t]
<1>1. /\ pc[t] = "fill" /\ Quiet(t) /\ k \in Docs /\ f \in Frames
      /\ FrameOK("fill", f, stored)
  BY FrameIsOK DEF Fill, At, Quiet, Key
<1>2. /\ stored' = stored /\ zip' = zip /\ commands' = commands /\ trouble' = trouble
      /\ cache' = [cache EXCEPT ![k] = f.seen]
      /\ suspect' = IF k \in f.touched THEN suspect \cup {k} ELSE suspect \ {k}
  BY DEF Fill, Caches, Touched
<1>3. frame' = [frame EXCEPT ![t] = f] /\ pc' = [pc EXCEPT ![t] = "decide"]
  BY DEF Fill, Inv, Shared, Goto
<1>4. FrameOK("decide", f, stored)
  BY <1>1 DEF FrameOK, Fits, Current
<1>5. pc' \in [Threads -> Labels] /\ frame' \in [Threads -> Frames] /\ FramesOK'
  BY <1>2, <1>3, <1>4, AloneIsOK DEF Labels
<1>6. cache' \in [Docs -> Values] /\ suspect' \subseteq Docs
  BY <1>1, <1>2 DEF Frames, Inv, Shared
<1>7. StaleForAReason'
  <2>1. \A d : Pending(d) => Pending(d)'
    BY <1>1, <1>3, OthersKeep, PendingStays
  <2>2. k \in suspect' \/ cache'[k] = stored'[k]
    BY <1>1, <1>2 DEF FrameOK, Current, Inv, Shared, Key
  <2>3. \A d \in Docs \ {k} : cache'[d] = cache[d] /\ (d \in suspect => d \in suspect')
    BY <1>2 DEF Inv, Shared
  <2> QED
    BY <1>2, <2>1, <2>2, <2>3 DEF Inv, StaleForAReason
<1> QED
  BY <1>2, <1>5, <1>6, <1>7 DEF Inv, Shared

LEMMA DecideInv ==
  ASSUME Inv, NEW t \in Threads, Decide(t)
  PROVE  Inv'
<1> DEFINE f == frame[t]
<1>1. /\ pc[t] = "decide" /\ Quiet(t) /\ f.key \in Docs /\ f \in Frames
      /\ FrameOK("decide", f, stored)
  BY FrameIsOK DEF Decide, At, Quiet
<1>2. /\ stored' = stored /\ cache' = cache /\ suspect' = suspect
      /\ zip' \in {None} \cup [dump : Contents, names : SUBSET Names]
      /\ commands' \in 0 .. MaxCommands /\ trouble' \in 0 .. MaxTrouble
  BY DEF Decide, Inv, Shared
<1>3. CASE Return(t)
  BY <1>1, <1>2, <1>3, ReturnInv
<1>4. CASE /\ f.kind = "toggle"
           /\ frame' = [frame EXCEPT ![t].on = f.item \notin On(f.seen)]
           /\ Goto(t, "write")
  <2> DEFINE on == f.item \notin On(f.seen)
             g == [f EXCEPT !.on = on]
  <2>1. frame' = [frame EXCEPT ![t] = g] /\ pc' = [pc EXCEPT ![t] = "write"]
    BY <1>4 DEF Goto
  <2>2. on \in BOOLEAN
    OBVIOUS
  <2>3. f.key \in f.touched \/ (on <=> f.item \notin On(stored[f.key]))
    BY <1>1, <1>4 DEF FrameOK, Current
  <2> HIDE DEF on
  <2>4. /\ g \in Frames /\ (g.on <=> on) /\ g.touched = f.touched
        /\ g.kind = f.kind /\ g.key = f.key /\ g.item = f.item
    BY <1>1, <2>2 DEF Frames
  <2>5. Fits("write", g) /\ Current("write", g, stored)
    BY <1>1, <1>4, <2>3, <2>4 DEF FrameOK, Fits, Current, Writers
  <2>6. FrameOK("write", g, stored)
    BY <2>4, <2>5 DEF FrameOK
  <2> QED
    BY <1>1, <1>2, <2>1, <2>6, AsideInv DEF Labels
<1>5. CASE f.kind \in {"admit", "meet"} /\ Goto(t, "write") /\ UNCHANGED frame
  <2>1. frame' = [frame EXCEPT ![t] = f] /\ pc' = [pc EXCEPT ![t] = "write"]
    BY <1>5 DEF Inv, Shared, Goto
  <2>2. FrameOK("write", f, stored)
    BY <1>1, <1>5 DEF FrameOK, Fits, Current, Writers
  <2> QED
    BY <1>1, <1>2, <2>1, <2>2, AsideInv DEF Labels
<1>6. CASE Goto(t, "insert") /\ UNCHANGED frame
  <2>1. frame' = [frame EXCEPT ![t] = f] /\ pc' = [pc EXCEPT ![t] = "insert"]
    BY <1>6 DEF Inv, Shared, Goto
  <2>2. FrameOK("insert", f, stored)
    BY <1>1 DEF FrameOK, Fits, Current
  <2> QED
    BY <1>1, <1>2, <2>1, <2>2, AsideInv DEF Labels
<1> QED
  BY <1>3, <1>4, <1>5, <1>6 DEF Decide
-----------------------------------------------------------------------------
(* A write. *)

\* What is written is something that may be on in the document, and what a
\* writer is about to cache is what it has written.
LEMMA WrittenOK ==
  ASSUME NEW f \in Frames, NEW store \in Contents, FrameOK("write", f, store)
  PROVE  /\ Written(f, store[f.key]) \in {None} \cup SUBSET Items[f.key]
         /\ Refreshes(f) => Written(f, store[f.key]) = IF f.on THEN {f.item} ELSE {}
<1> DEFINE old == store[f.key]
<1>1. f.key \in Docs
  BY DEF Frames
<1>2. On(old) \subseteq Items[f.key]
  BY <1>1, ContentsAreSets
<1>3. f.on => f.item \in Items[f.key]
  BY DEF FrameOK, Fits, Writers
<1>4. Written(f, old) \in {None} \cup SUBSET Items[f.key]
  BY <1>2, <1>3 DEF Written
<1>5. ASSUME Refreshes(f)
      PROVE  Written(f, old) = IF f.on THEN {f.item} ELSE {}
  <2>1. CASE f.key \in Users /\ f.kind = "meet"
    <3>1. ~ f.on
      BY <2>1 DEF FrameOK, Fits
    <3> QED
      BY <2>1, <3>1 DEF Written, Upserts
  <2>2. CASE f.key \in Loggers
    <3>1. f.kind = "set" /\ f.item \in Items[f.key]
      BY <2>2, StoreAssumption DEF FrameOK, Fits, Writers
    <3>2. Items[f.key] = {f.item}
      BY <2>2, <3>1, StoreAssumption
    <3>3. Written(f, old) = IF f.on THEN On(old) \cup {f.item} ELSE On(old) \ {f.item}
      BY <3>1 DEF Written, Upserts
    <3> QED
      BY <1>2, <3>2, <3>3
  <2> QED
    BY <1>5, <2>1, <2>2 DEF Refreshes
<1> QED
  BY <1>4, <1>5

LEMMA WriteInv ==
  ASSUME Inv, NEW t \in Threads, Write(t)
  PROVE  Inv'
<1> DEFINE f == frame[t]
           written == Written(f, stored[f.key])
           new == [stored EXCEPT ![f.key] = written]
<1>1. /\ pc[t] = "write" /\ Quiet(t) /\ f.key \in Docs /\ f \in Frames
      /\ FrameOK("write", f, stored)
  BY FrameIsOK DEF Write, At, Quiet
<1>2. cache' = cache /\ zip' = zip /\ commands' = commands
  BY DEF Write
<1>3. trouble' \in 0 .. MaxTrouble
  BY TroubleOK DEF Write
<1>4. new \in Contents /\ new[f.key] = written /\ \A k \in Docs \ {f.key} : new[k] = stored[k]
  <2>1. stored \in Contents
    BY DEF Inv, Shared
  <2>2. written \in {None} \cup SUBSET Items[f.key]
    BY <1>1, <2>1, WrittenOK
  <2> QED
    BY <1>1, <2>1, <2>2, ContentsExcept DEF Contents
<1>5. CASE /\ Changes(t, new, [f EXCEPT !.touched = {}])
           /\ Goto(t, IF Refreshes(f) THEN "keep" ELSE "evict")
           /\ UNCHANGED suspect
  <2> DEFINE g == [f EXCEPT !.touched = {}]
             l == IF Refreshes(f) THEN "keep" ELSE "evict"
  <2>1. pc' = [pc EXCEPT ![t] = l] /\ l \in {"keep", "evict"} /\ (l = "keep" => Refreshes(f))
    BY <1>5 DEF Goto
  <2>2. stored \in Contents
    BY DEF Inv, Shared
  <2>3. l = "keep" => written = IF f.on THEN {f.item} ELSE {}
    BY <1>1, <2>2, WrittenOK
  <2> HIDE DEF l, new, written
  <2>4. /\ g \in Frames /\ g.kind = f.kind /\ g.key = f.key /\ g.item = f.item
        /\ (g.on <=> f.on)
    BY <1>1 DEF Frames
  <2>5. g.on = f.on
    BY <1>1 DEF Frames
  <2>6. Fits(l, g)
    BY <1>1, <2>1, <2>4, <2>5 DEF FrameOK, Fits, Refreshes
  <2>7. Current(l, g, new)
    BY <1>4, <2>1, <2>3, <2>4 DEF Current
  <2>8. FrameOK(l, g, new)
    BY <2>1, <2>4, <2>6, <2>7 DEF FrameOK
  <2>9. l \in Labels
    BY <2>1 DEF Labels
  <2>10. pc' \in [Threads -> Labels] /\ frame' \in [Threads -> Frames] /\ FramesOK'
    BY <1>5, <2>1, <2>8, <2>9, ChangesIsOK
  <2>11. ASSUME NEW d, d = f.key
         PROVE  Pending(d)'
    <3>1. frame'[t] = g
      BY <1>5 DEF Changes
    <3>2. pc'[t] = l
      BY <2>1 DEF Inv, Shared
    <3> QED
      BY <2>1, <2>4, <2>11, <3>1, <3>2 DEF Pending, At, Key
  <2>12. \A d : Pending(d) => Pending(d)'
    BY <1>1, <1>5, <2>1, OthersKeep, PendingStays
  <2>13. stored' = new /\ suspect' = suspect
    BY <1>5 DEF Changes
  <2>14. StaleForAReason'
    BY <1>2, <1>4, <2>11, <2>12, <2>13 DEF Inv, StaleForAReason
  <2> QED
    BY <1>2, <1>3, <1>4, <2>10, <2>13, <2>14 DEF Inv, Shared
<1>6. CASE Return(t) /\ UNCHANGED <<stored, suspect>>
  BY <1>1, <1>2, <1>3, <1>6, ReturnInv DEF Inv, Shared
<1>7. CASE Changes(t, new, Idle) /\ Goto(t, "idle") /\ suspect' = suspect \cup {f.key}
  <2> HIDE DEF new, written
  <2>1. pc' = [pc EXCEPT ![t] = "idle"] /\ stored' = new
    BY <1>7 DEF Goto, Changes
  <2>2. pc' \in [Threads -> Labels] /\ frame' \in [Threads -> Frames] /\ FramesOK'
    BY <1>7, <2>1, IdleIsFrame, ChangesIsOK DEF Labels
  <2>3. \A d : Pending(d) => Pending(d)'
    BY <1>1, <1>7, <2>1, OthersKeep, PendingStays
  <2>4. StaleForAReason'
    BY <1>2, <1>4, <1>7, <2>1, <2>3 DEF Inv, StaleForAReason
  <2> QED
    BY <1>1, <1>2, <1>3, <1>4, <1>7, <2>1, <2>2, <2>4 DEF Inv, Shared
<1> QED
  BY <1>5, <1>6, <1>7 DEF Write

\* A writer's last step: after it, the entry is as the document is, or suspect.
LEMMA EntryInv ==
  ASSUME Inv, NEW t \in Threads, NEW value \in Values, Return(t),
         cache' = [cache EXCEPT ![Key(t)] = value],
         suspect' \in {suspect \cup {Key(t)}, suspect \ {Key(t)}},
         Key(t) \notin suspect' => value \in {None, stored[Key(t)]},
         stored' = stored, zip' = zip, commands' = commands, trouble' = trouble
  PROVE  Inv'
<1>1. pc' = [pc EXCEPT ![t] = "idle"] /\ frame' = [frame EXCEPT ![t] = Idle]
  BY DEF Return, Goto
<1>2. pc' \in [Threads -> Labels] /\ frame' \in [Threads -> Frames] /\ FramesOK'
  BY <1>1, IdleIsFrame, AloneIsOK DEF Labels
<1>3. Key(t) \in Docs
  BY FrameIsOK DEF Key
<1>4. ASSUME NEW d \in Docs
      PROVE  cache'[d] \in {None, stored'[d]} \/ d \in suspect' \/ Pending(d)'
  <2>1. CASE d = Key(t)
    BY <2>1, <1>3 DEF Inv, Shared
  <2>2. CASE d # Key(t)
    <3>1. cache'[d] = cache[d] /\ (d \in suspect => d \in suspect')
      BY <2>2 DEF Inv, Shared
    <3>2. Pending(d) => Pending(d)'
      BY <1>1, <2>2, OthersKeep, PendingStays
    <3> QED
      BY <3>1, <3>2 DEF Inv, StaleForAReason
  <2> QED
    BY <2>1, <2>2
<1>5. StaleForAReason'
  BY <1>4 DEF StaleForAReason
<1>6. cache' \in [Docs -> Values] /\ suspect' \subseteq Docs
  BY <1>3 DEF Inv, Shared
<1> QED
  BY <1>2, <1>5, <1>6 DEF Inv, Shared

LEMMA EvictInv ==
  ASSUME Inv, NEW t \in Threads, Evict(t)
  PROVE  Inv'
<1>1. None \in Values
  BY DEF Values
<1> QED
  BY <1>1, EntryInv DEF Evict

LEMMA KeepInv ==
  ASSUME Inv, NEW t \in Threads, Keep(t)
  PROVE  Inv'
<1> DEFINE f == frame[t]
           value == IF f.on THEN {f.item} ELSE {}
<1>1. f.key \in Docs /\ f \in Frames /\ FrameOK("keep", f, stored)
  BY FrameIsOK DEF Keep, At
<1>2. value \in Values
  <2>1. f.on => f.item \in Items[f.key]
    BY <1>1 DEF FrameOK, Fits, Writers
  <2>2. Items[f.key] \subseteq UNION {Items[d] : d \in Docs}
    BY <1>1
  <2> QED
    BY <2>1, <2>2, SetsAreValues
<1>3. f.key \in f.touched \/ stored[f.key] = value
  BY <1>1 DEF FrameOK, Current
<1> HIDE DEF value
<1>4. /\ cache' = [cache EXCEPT ![Key(t)] = value] /\ Return(t)
      /\ suspect' = IF Key(t) \in f.touched THEN suspect \cup {Key(t)} ELSE suspect \ {Key(t)}
      /\ stored' = stored /\ zip' = zip /\ commands' = commands /\ trouble' = trouble
  BY DEF Keep, Caches, Touched, value
<1> QED
  BY <1>2, <1>3, <1>4, EntryInv DEF Key

LEMMA InsertInv ==
  ASSUME Inv, NEW t \in Threads, Insert(t)
  PROVE  Inv'
<1> DEFINE k == Key(t)
           new == [stored EXCEPT ![k] = On(stored[k])]
<1>1. pc[t] = "insert" /\ Quiet(t) /\ k \in Docs
  BY FrameIsOK DEF Insert, At, Quiet, Key
<1>2. cache' = cache /\ zip' = zip /\ commands' = commands /\ suspect' = suspect
  BY DEF Insert
<1>3. trouble' \in 0 .. MaxTrouble
  BY TroubleOK DEF Insert
<1>4. stored \in Contents
  BY DEF Inv, Shared
<1>5. /\ new \in Contents /\ \A d \in Docs \ {k} : new[d] = stored[d]
      /\ stored[k] # None => new[k] = stored[k]
  <2>1. On(stored[k]) \in {None} \cup SUBSET Items[k]
    BY <1>1, <1>4, ContentsAreSets
  <2>2. stored[k] # None => On(stored[k]) = stored[k]
    BY DEF On
  <2> QED
    BY <1>1, <1>4, <2>1, <2>2, ContentsExcept DEF Contents
<1>6. CASE Changes(t, new, Idle) /\ Goto(t, "idle")
  <2> HIDE DEF new
  <2>1. pc' = [pc EXCEPT ![t] = "idle"] /\ stored' = new
    BY <1>6 DEF Goto, Changes
  <2>2. pc' \in [Threads -> Labels] /\ frame' \in [Threads -> Frames] /\ FramesOK'
    BY <1>6, <2>1, IdleIsFrame, ChangesIsOK DEF Labels
  <2>3. \A d : Pending(d) => Pending(d)'
    BY <1>1, <1>6, <2>1, OthersKeep, PendingStays
  <2>4. StaleForAReason'
    <3>1. \A d \in Docs : cache[d] \in {None, stored[d]} => cache[d] \in {None, new[d]}
      BY <1>5
    <3> QED
      BY <1>2, <2>1, <2>3, <3>1 DEF Inv, StaleForAReason
  <2> QED
    BY <1>2, <1>3, <1>5, <2>1, <2>2, <2>4 DEF Inv, Shared
<1>7. CASE Return(t) /\ stored' = stored
  BY <1>1, <1>2, <1>3, <1>7, ReturnInv DEF Inv, Shared
<1> QED
  BY <1>6, <1>7 DEF Insert
-----------------------------------------------------------------------------
(* Backup and restore. *)

LEMMA DumpInv ==
  ASSUME Inv, NEW t \in Threads, Dump(t)
  PROVE  Inv'
<1> DEFINE f == frame[t]
<1>1. /\ pc[t] = "dump" /\ Quiet(t) /\ f \in Frames
      /\ FrameOK("dump", f, stored)
  BY FrameIsOK DEF Dump, At, Quiet
<1>2. /\ stored' = stored /\ cache' = cache /\ suspect' = suspect /\ pc' = pc
      /\ zip' \in {None} \cup [dump : Contents, names : SUBSET Names]
      /\ commands' \in 0 .. MaxCommands
  BY DEF Dump, Inv, Shared
<1>3. trouble' \in 0 .. MaxTrouble
  BY TroubleOK DEF Dump
<1>4. pc' = [pc EXCEPT ![t] = "dump"]
  BY <1>1, <1>2 DEF Inv, Shared
<1>5. PICK k \in f.left :
        \/ Read(t, k)
        \/ frame' = [frame EXCEPT ![t].left = @ \ In(Collection[k]), ![t].failed = TRUE]
  BY DEF Dump
<1>6. CASE Read(t, k)
  <2> DEFINE dump == [f.dump EXCEPT ![k] = stored[k]]
             g == [f EXCEPT !.dump = dump, !.left = @ \ {k}, !.touched = @ \ {k}]
  <2>1. frame' = [frame EXCEPT ![t] = g]
    BY <1>6 DEF Read
  <2>2. k \in Docs /\ f.dump \in Contents
    BY <1>1 DEF Frames
  <2>3. stored[k] \in {None} \cup SUBSET Items[k]
    BY <2>2, ContentsAreSets DEF Inv, Shared
  <2>4. dump \in Contents /\ dump[k] = stored[k] /\ \A d \in Docs \ {k} : dump[d] = f.dump[d]
    BY <2>2, <2>3, ContentsExcept DEF Contents
  <2> HIDE DEF dump
  <2>5. /\ g \in Frames /\ g.kind = f.kind /\ g.key = f.key /\ g.item = f.item /\ g.on = f.on
        /\ g.dump = dump /\ g.left = f.left \ {k} /\ g.touched = f.touched \ {k}
        /\ g.names = f.names /\ g.failed = f.failed
    BY <1>1, <2>4 DEF Frames
  <2>6. Fits("dump", g) /\ Current("dump", g, stored)
    BY <1>1, <2>5 DEF FrameOK, Fits, Current
  <2>7. ~ g.failed => Dumped(g, stored)
    BY <1>1, <2>4, <2>5 DEF FrameOK, Dumped
  <2>8. FrameOK("dump", g, stored)
    BY <2>5, <2>6, <2>7 DEF FrameOK
  <2> QED
    BY <1>1, <1>2, <1>3, <1>4, <2>1, <2>8, AsideInv DEF Labels
<1>7. CASE frame' = [frame EXCEPT ![t].left = @ \ In(Collection[k]), ![t].failed = TRUE]
  <2> DEFINE g == [f EXCEPT !.left = @ \ In(Collection[k]), !.failed = TRUE]
  <2>1. frame' = [frame EXCEPT ![t] = g]
    BY <1>7
  <2>2. /\ g \in Frames /\ g.kind = f.kind /\ g.key = f.key /\ g.item = f.item /\ g.on = f.on
        /\ g.failed
    BY <1>1 DEF Frames
  <2>3. FrameOK("dump", g, stored)
    BY <1>1, <2>2 DEF FrameOK, Fits, Current
  <2> QED
    BY <1>1, <1>2, <1>3, <1>4, <2>1, <2>3, AsideInv DEF Labels
<1> QED
  BY <1>5, <1>6, <1>7

LEMMA SendInv ==
  ASSUME Inv, NEW t \in Threads, Send(t)
  PROVE  Inv'
<1> DEFINE f == frame[t]
<1>1. Quiet(t) /\ f.dump \in Contents /\ f.names \in SUBSET Names
  BY FrameIsOK DEF Send, At, Quiet, Frames
<1>2. zip' = [dump |-> f.dump, names |-> f.names] \/ zip' = zip
  BY DEF Send
<1>3. zip' \in {None} \cup [dump : Contents, names : SUBSET Names]
  BY <1>1, <1>2 DEF Inv, Shared
<1>4. trouble' \in 0 .. MaxTrouble
  BY TroubleOK DEF Send
<1> QED
  BY <1>1, <1>3, <1>4, ReturnInv DEF Send, Inv, Shared

\* After its collection has been dropped, every document of it is either to be
\* inserted again or was not there.
LEMMA DropInv ==
  ASSUME Inv, NEW t \in Threads, Drop(t)
  PROVE  Inv'
<1> DEFINE f == frame[t]
<1>1. /\ pc[t] = "drop" /\ Quiet(t) /\ f \in Frames
      /\ FrameOK("drop", f, stored) /\ f.left = {}
  BY FrameIsOK DEF Drop, At, Quiet, FrameOK
<1>2. cache' = cache /\ zip' = zip /\ commands' = commands
  BY DEF Drop
<1>3. trouble' \in 0 .. MaxTrouble
  BY TroubleOK DEF Drop
<1>4. PICK c \in f.todo :
        \/ /\ Changes(t, [k \in Docs |-> IF k \in In(c) THEN None ELSE stored[k]],
                      [f EXCEPT !.todo = @ \ {c}, !.touched = @ \ In(c),
                                !.left = {k \in In(c) : f.dump[k] # None}])
           /\ suspect' = suspect \cup In(c)
           /\ Goto(t, "insert many")
        \/ /\ frame' = [frame EXCEPT ![t].todo = @ \ {c}, ![t].failed = TRUE]
           /\ UNCHANGED <<stored, pc, suspect>>
  BY DEF Drop
<1> DEFINE new == [k \in Docs |-> IF k \in In(c) THEN None ELSE stored[k]]
           left == {k \in In(c) : f.dump[k] # None}
           g == [f EXCEPT !.todo = @ \ {c}, !.touched = @ \ In(c), !.left = left]
           h == [f EXCEPT !.todo = @ \ {c}, !.failed = TRUE]
<1>5. In(c) = {k \in Docs : Collection[k] = c} /\ left \subseteq Docs
  BY DEF In
<1>6. ASSUME Changes(t, new, g), suspect' = suspect \cup In(c), Goto(t, "insert many")
      PROVE  Inv'
  <2>1. pc' = [pc EXCEPT ![t] = "insert many"] /\ stored' = new
    BY <1>6 DEF Goto, Changes
  <2>2. new \in Contents
    <3>1. new \in [Docs -> Values]
      BY DEF Inv, Shared, Contents, Values
    <3>2. \A k \in Docs : On(new[k]) \subseteq Items[k]
      BY SetsAreValues DEF Inv, Shared, Contents
    <3> QED
      BY <3>1, <3>2 DEF Contents
  <2>3. \A k \in Docs : new[k] = IF k \in In(c) THEN None ELSE stored[k]
    OBVIOUS
  <2>4. \A k \in Docs : k \in left <=> (k \in In(c) /\ f.dump[k] # None)
    OBVIOUS
  <2> HIDE DEF new, left
  <2>5. /\ g \in Frames /\ g.kind = f.kind /\ g.key = f.key /\ g.item = f.item /\ g.on = f.on
        /\ g.dump = f.dump /\ g.left = left /\ g.touched = f.touched \ In(c)
        /\ g.names = f.names /\ g.todo = f.todo \ {c} /\ g.failed = f.failed
    BY <1>1, <1>5 DEF Frames
  <2>6. Fits("insert many", g) /\ Current("insert many", g, new)
    BY <1>1, <2>5 DEF FrameOK, Fits, Current
  <2>7. ASSUME ~ g.failed
        PROVE  Restored(g, new)
    <3>1. Restored(f, stored)
      BY <1>1, <2>5, <2>7 DEF FrameOK
    <3>2. ASSUME NEW k \in Docs, Collection[k] \in g.names \ g.todo
          PROVE  k \in g.touched \/ new[k] = IF k \in g.left THEN None ELSE g.dump[k]
      <4>1. CASE k \in In(c)
        BY <2>3, <2>4, <2>5, <4>1
      <4>2. CASE k \notin In(c)
        <5>1. Collection[k] \in f.names \ f.todo
          BY <1>5, <2>5, <3>2, <4>2
        <5>2. k \in f.touched \/ stored[k] = f.dump[k]
          BY <1>1, <3>1, <5>1 DEF Restored
        <5> QED
          BY <2>3, <2>4, <2>5, <4>2, <5>2
      <4> QED
        BY <4>1, <4>2
    <3> QED
      BY <3>2 DEF Restored
  <2>8. FrameOK("insert many", g, new)
    BY <2>5, <2>6, <2>7 DEF FrameOK
  <2> HIDE DEF g
  <2>9. pc' \in [Threads -> Labels] /\ frame' \in [Threads -> Frames] /\ FramesOK'
    BY <1>6, <2>1, <2>8, ChangesIsOK DEF Labels
  <2>10. \A d : Pending(d) => Pending(d)'
    BY <1>1, <1>6, <2>1, OthersKeep, PendingStays
  <2>11. StaleForAReason'
    BY <1>2, <1>6, <2>1, <2>3, <2>10 DEF Inv, StaleForAReason
  <2> QED
    BY <1>2, <1>3, <1>5, <1>6, <2>1, <2>2, <2>9, <2>11 DEF Inv, Shared
<1>7. ASSUME frame' = [frame EXCEPT ![t].todo = @ \ {c}, ![t].failed = TRUE],
             UNCHANGED <<stored, pc, suspect>>
      PROVE  Inv'
  <2>1. frame' = [frame EXCEPT ![t] = h] /\ pc' = [pc EXCEPT ![t] = "drop"]
    BY <1>1, <1>7 DEF Inv, Shared
  <2>2. /\ h \in Frames /\ h.kind = f.kind /\ h.key = f.key /\ h.item = f.item /\ h.on = f.on
        /\ h.failed /\ h.left = f.left
    BY <1>1 DEF Frames
  <2>3. FrameOK("drop", h, stored)
    BY <1>1, <2>2 DEF FrameOK, Fits, Current
  <2> HIDE DEF h
  <2> QED
    BY <1>1, <1>2, <1>3, <1>7, <2>1, <2>3, AsideInv DEF Labels, Inv, Shared
<1> QED
  BY <1>4, <1>6, <1>7

LEMMA InsertManyInv ==
  ASSUME Inv, NEW t \in Threads, InsertMany(t)
  PROVE  Inv'
<1> DEFINE f == frame[t]
<1>1. /\ pc[t] = "insert many" /\ Quiet(t) /\ f \in Frames
      /\ FrameOK("insert many", f, stored)
  BY FrameIsOK DEF InsertMany, At, Quiet, FrameOK
<1>2. cache' = cache /\ zip' = zip /\ commands' = commands
  BY DEF InsertMany
<1>3. trouble' \in 0 .. MaxTrouble
  BY TroubleOK DEF InsertMany
<1>4. pc' = [pc EXCEPT ![t] = "insert many"]
  BY <1>1 DEF InsertMany, Inv, Shared
<1>5. ASSUME NEW k \in f.left, stored[k] = None,
             Changes(t, [stored EXCEPT ![k] = f.dump[k]],
                     [f EXCEPT !.left = @ \ {k}, !.touched = @ \ {k}]),
             suspect' = suspect \cup {k}
      PROVE  Inv'
  <2> DEFINE new == [stored EXCEPT ![k] = f.dump[k]]
             g == [f EXCEPT !.left = @ \ {k}, !.touched = @ \ {k}]
  <2>1. k \in Docs /\ f.dump \in Contents /\ stored \in Contents
    BY <1>1 DEF Frames, Inv, Shared
  <2>2. new \in Contents /\ new[k] = f.dump[k] /\ \A d \in Docs \ {k} : new[d] = stored[d]
    BY <2>1, ContentsAreSets, ContentsExcept DEF Contents
  <2>3. stored' = new /\ Changes(t, new, g)
    BY <1>5 DEF Changes
  <2> HIDE DEF new
  <2>4. /\ g \in Frames /\ g.kind = f.kind /\ g.key = f.key /\ g.item = f.item /\ g.on = f.on
        /\ g.dump = f.dump /\ g.left = f.left \ {k} /\ g.touched = f.touched \ {k}
        /\ g.names = f.names /\ g.todo = f.todo /\ g.failed = f.failed
    BY <1>1 DEF Frames
  <2>5. Fits("insert many", g) /\ Current("insert many", g, new)
    BY <1>1, <2>4 DEF FrameOK, Fits, Current
  <2>6. ~ g.failed => Restored(g, new)
    BY <1>1, <2>2, <2>4 DEF FrameOK, Restored
  <2>7. FrameOK("insert many", g, new)
    BY <2>4, <2>5, <2>6 DEF FrameOK
  <2> HIDE DEF g
  <2>8. pc' \in [Threads -> Labels] /\ frame' \in [Threads -> Frames] /\ FramesOK'
    BY <1>4, <2>3, <2>7, ChangesIsOK DEF Labels
  <2>9. \A d : Pending(d) => Pending(d)'
    BY <1>1, <1>4, <2>3, OthersKeep, PendingStays
  <2>10. StaleForAReason'
    BY <1>2, <1>5, <2>2, <2>3, <2>9 DEF Inv, StaleForAReason
  <2> QED
    BY <1>2, <1>3, <1>5, <2>1, <2>2, <2>3, <2>8, <2>10 DEF Inv, Shared
<1>6. ASSUME frame' = [frame EXCEPT ![t].left = {}, ![t].failed = TRUE],
             UNCHANGED <<stored, suspect>>
      PROVE  Inv'
  <2> DEFINE h == [f EXCEPT !.left = {}, !.failed = TRUE]
  <2>1. frame' = [frame EXCEPT ![t] = h]
    BY <1>6
  <2>2. /\ h \in Frames /\ h.kind = f.kind /\ h.key = f.key /\ h.item = f.item /\ h.on = f.on
        /\ h.failed
    BY <1>1 DEF Frames
  <2>3. FrameOK("insert many", h, stored)
    BY <1>1, <2>2 DEF FrameOK, Fits, Current
  <2> HIDE DEF h
  <2> QED
    BY <1>1, <1>2, <1>3, <1>4, <1>6, <2>1, <2>3, AsideInv DEF Labels, Inv, Shared
<1> QED
  BY <1>5, <1>6 DEF InsertMany

LEMMA NextCollectionInv ==
  ASSUME Inv, NEW t \in Threads, NextCollection(t)
  PROVE  Inv'
<1> DEFINE f == frame[t]
<1>1. /\ pc[t] = "insert many" /\ Quiet(t) /\ f \in Frames /\ f.left = {}
      /\ FrameOK("insert many", f, stored)
  BY FrameIsOK DEF NextCollection, At, Quiet, FrameOK
<1>2. frame' = [frame EXCEPT ![t] = f] /\ pc' = [pc EXCEPT ![t] = "drop"]
  BY DEF NextCollection, Goto, Inv, Shared
<1>3. FrameOK("drop", f, stored)
  BY <1>1 DEF FrameOK, Fits, Current
<1> QED
  BY <1>1, <1>2, <1>3, AsideInv DEF NextCollection, Labels, Inv, Shared

LEMMA ReportInv ==
  ASSUME Inv, NEW t \in Threads, Report(t)
  PROVE  Inv'
<1>1. Quiet(t)
  BY DEF Report, At, Quiet
<1> QED
  BY <1>1, ReturnInv DEF Report, Inv, Shared
-----------------------------------------------------------------------------
(* The process and the time. *)

LEMMA RestartInv ==
  ASSUME Inv, Restart
  PROVE  Inv'
<1>1. trouble' \in 0 .. MaxTrouble
  BY TroubleOK DEF Restart
<1>2. /\ pc' \in [Threads -> Labels] /\ frame' \in [Threads -> Frames]
      /\ \A t \in Threads : pc'[t] = "idle" /\ frame'[t] = Idle
  BY IdleIsFrame DEF Restart, Labels
<1>3. FramesOK'
  BY <1>2, IdleIsFrame DEF FramesOK
<1>4. cache' \in [Docs -> Values] /\ \A k \in Docs : cache'[k] = None
  BY DEF Restart, Values
<1>5. StaleForAReason'
  BY <1>4 DEF StaleForAReason
<1> QED
  BY <1>1, <1>2, <1>3, <1>4, <1>5 DEF Restart, Inv, Shared

LEMMA ExpireInv ==
  ASSUME Inv, NEW k \in Docs, Expire(k)
  PROVE  Inv'
<1>1. None \in Values
  BY DEF Values
<1>2. FramesOK'
  BY DEF Expire, Inv, FramesOK
<1>3. \A d : Pending(d) => Pending(d)'
  BY DEF Expire, Pending, At, Key
<1>4. StaleForAReason'
  BY <1>3 DEF Expire, Inv, Shared, StaleForAReason
<1> QED
  BY <1>1, <1>2, <1>4 DEF Expire, Inv, Shared

LEMMA StepInv == Inv /\ [Next]_vars => Inv'
<1> SUFFICES ASSUME Inv, [Next]_vars
             PROVE  Inv'
  OBVIOUS
<1>1. ASSUME NEW t \in Threads, Command(t) \/ Step(t)
      PROVE  Inv'
  BY <1>1, CommandInv, LookupInv, FindInv, FillInv, DecideInv, WriteInv, EvictInv, KeepInv,
     InsertInv, DumpInv, SendInv, DropInv, InsertManyInv, NextCollectionInv, ReportInv DEF Step
<1>2. ASSUME NEW k \in Docs, Expire(k)
      PROVE  Inv'
  BY <1>2, ExpireInv
<1>3. CASE UNCHANGED vars
  BY <1>3 DEF vars, Inv, Shared, FramesOK, StaleForAReason, Pending, At, Key
<1> QED
  BY <1>1, <1>2, <1>3, RestartInv DEF Next

\* Spec => []Inv, from which the rest follows.
LEMMA InvHolds == Spec => []Inv
  BY InitInv, StepInv, PTL DEF Spec
-----------------------------------------------------------------------------
(* The results. *)

\* The state of the documents, of the caches and of every command keeps its
\* type (internal/db/mongo.go:25-60).
THEOREM StoreTyped == Spec => []TypeOK
  BY InvHolds, InvIsStrong, PTL

\* However many commands read and write the same documents, fail or lose their
\* answers, an entry of a cache differs from its document only for one of the
\* reasons that are named (chats.go:67, 88, 142; users.go:53; backup.go:215).
THEOREM StaleOnlyForAReason == Spec => []StaleForAReason
  BY InvHolds, InvIsStrong, PTL

\* A backup that reports no failed collection has every document as it was
\* read, whatever is written meanwhile (backup.go:116-154).
THEOREM BackupsAreWhole == Spec => []BackupIsWhole
  BY InvHolds, InvIsStrong, PTL

\* A restore that reports no failed collection has put back exactly what the
\* backup holds, those documents excepted that were changed again meanwhile
\* (backup.go:160-262).
THEOREM RestoresAreExact == Spec => []RestoreIsExact
  BY InvHolds, InvIsStrong, PTL

\* One press on a button, one change: what TogglesFlip says of a step.
Flips ==
  \A t \in Threads :
    (At(t, "write") /\ pc'[t] = "evict" /\ Kind(t) = "toggle" /\ Key(t) \notin Touched(t))
      => (frame[t].item \in On(stored[Key(t)])) # (frame[t].item \in On(stored'[Key(t)]))

\* Only a command's own steps move it.
LEMMA OnlyItsOwn ==
  ASSUME Inv, Next, NEW t \in Threads, pc[t] = "write", pc'[t] = "evict"
  PROVE  Write(t)
<1>1. ASSUME NEW u \in Threads, u # t, Command(u) \/ Step(u)
      PROVE  pc'[t] = pc[t]
  <2>1. (\E l : pc' = [pc EXCEPT ![u] = l]) \/ pc' = pc
    <3>1. CASE Command(u)
      BY <3>1 DEF Command, Show, Toggle, Set, Admit, Meet, Mark, List, Backup, Restore,
                  Begin, Goto
    <3>2. CASE Step(u)
      BY <3>2 DEF Step, Lookup, Find, Fill, Decide, Write, Evict, Keep, Insert, Dump, Send,
                  Drop, InsertMany, NextCollection, Report, Return, Goto
    <3> QED
      BY <1>1, <3>1, <3>2
  <2> QED
    BY <1>1, <2>1 DEF Inv, Shared
<1>2. ~ Restart
  BY DEF Restart
<1>3. \A k \in Docs : ~ Expire(k)
  BY DEF Expire
<1>4. Command(t) \/ Step(t)
  BY <1>1, <1>2, <1>3 DEF Next
<1>5. ~ Command(t)
  BY DEF Command, Show, Toggle, Set, Admit, Meet, Mark, List, Backup, Restore, Begin, At
<1> QED
  BY <1>4, <1>5 DEF Step, Lookup, Find, Fill, Decide, Evict, Keep, Insert, Dump, Send,
                    Drop, InsertMany, NextCollection, Report, At

\* A press on a button of the settings changes the setting it was pressed for,
\* unless what was read is no longer so (settings.go:112, 124, 127).
THEOREM ButtonsFlip == Spec => TogglesFlip
<1>1. ASSUME Inv, [Next]_vars
      PROVE  [Flips]_vars
  <2> SUFFICES ASSUME Next, NEW t \in Threads,
                      pc[t] = "write", pc'[t] = "evict", frame[t].kind = "toggle",
                      frame[t].key \notin frame[t].touched
               PROVE  (frame[t].item \in On(stored[frame[t].key]))
                        # (frame[t].item \in On(stored'[frame[t].key]))
    BY <1>1 DEF Flips, At, Kind, Key, Touched
  <2> DEFINE f == frame[t]
             old == stored[f.key]
  <2>1. f.key \in Docs /\ FrameOK("write", f, stored) /\ f \in Frames
    BY <1>1, FrameIsOK
  <2>2. Write(t)
    BY <1>1, OnlyItsOwn
  <2>3. stored' = [stored EXCEPT ![f.key] = Written(f, old)]
    <3>1. pc'[t] # "idle"
      OBVIOUS
    <3> QED
      BY <1>1, <2>2, <3>1 DEF Write, Changes, Return, Goto, Inv, Shared
  <2>4. stored \in Contents
    BY <1>1 DEF Inv, Shared
  <2>5. stored'[f.key] = Written(f, old)
    BY <2>1, <2>3, <2>4 DEF Contents
  <2>6. f.on <=> f.item \notin On(old)
    BY <2>1 DEF FrameOK, Current
  <2>7. f.item \in Items[f.key] /\ On(old) \subseteq Items[f.key]
    BY <2>1, <2>4, ContentsAreSets DEF FrameOK, Fits, Writers
  <2>8. Written(f, old) = IF f.on THEN On(old) \cup {f.item} ELSE On(old) \ {f.item}
    BY DEF Written, Upserts
  <2>9. On(Written(f, old)) = Written(f, old)
    <3>1. Written(f, old) \in SUBSET UNION {Items[k] : k \in Docs}
      BY <2>1, <2>7, <2>8
    <3> QED
      BY <3>1, SetsAreValues
  <2> QED
    BY <2>5, <2>6, <2>8, <2>9
<1> QED
  BY <1>1, InvHolds, PTL DEF Spec, TogglesFlip, Flips
=============================================================================
