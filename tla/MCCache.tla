------------------------------ MODULE MCCache -------------------------------
(***************************************************************************)
(* The two stores of internal/cache for TLC; the first state chooses one,  *)
(* which shares nothing with the other.                                    *)
(*                                                                         *)
(* "queue": SliceQueue step by step, with the queue of ChatQueue read off  *)
(* its window, so that the properties of ChatQueue are checked of the      *)
(* in-place code.  Four songs: two with the same identifier, one that      *)
(* autoplay recommended and one without an identifier, uploaded to         *)
(* Telegram; the arrays have at most four slots.                           *)
(*                                                                         *)
(* "ttl": TTLCache with two caches of one key, one reader and two          *)
(* janitors.                                                               *)
(***************************************************************************)
EXTENDS ChatQueue

CONSTANTS
  a, b, c, d, Nil, Capacities,
  Caches, Keys, Readers, Janitors, TTL, MaxTime, MaxSets

VARIABLES
  array, base, size,
  now, data, made, registered, running, stop, closed, pc, todo, found, at, get, sets,
  part

Slice == INSTANCE SliceQueue
T == INSTANCE TTLCache

ASSUME TTLAssumption == T!TTLCacheAssumption

\* The nil pointer points to no song.
ASSUME SliceAssumption == Nil \notin Songs /\ Capacities \subseteq Nat

MCSongs == {a, b, c, d}
MCTrackID == (a :> "t1") @@ (b :> "t1") @@ (c :> "t2") @@ (d :> "")
MCCapacities == 1 .. 4

queueVars == <<queue, autoplay, history, loop, array, base, size>>
ttlVars == <<now, data, made, registered, running, stop, closed, pc, todo, found, at, get, sets>>

MCInit ==
  /\ Slice!Init /\ queue = Slice!Window
  /\ T!Init
  /\ part \in {"queue", "ttl"}

MCNext ==
  \/ part = "queue" /\ Slice!Next /\ queue' = (Slice!Window)' /\ UNCHANGED <<ttlVars, part>>
  \/ part = "ttl" /\ T!Next /\ UNCHANGED <<queueVars, part>>

MCSpec == MCInit /\ [][MCNext]_<<queueVars, ttlVars, part>> /\ T!Fairness

\* The in-place code of every method does what ChatQueue says it does.
ImplementsChatQueue == Slice!ImplementsChatQueue

\* One goroutine sweeps as long as caches are registered, and none without
\* (cache.go:191-220).
OneJanitor == T!OneJanitor

\* No deletion takes an entry that was stored anew (cache.go:55, 125).
FreshIsKept == T!FreshIsKept

\* Expired entries do not stay (cache.go:162-185).
ExpiredIsSwept == T!ExpiredIsSwept
=============================================================================
