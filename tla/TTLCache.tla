------------------------------ MODULE TTLCache ------------------------------
(***************************************************************************)
(* The caches with a time to live and the janitor that they share          *)
(* (internal/cache/cache.go).  Get and the sweep look at an entry under    *)
(* the read lock and delete it later, under the write lock: the entry may  *)
(* have been replaced in between.  The janitor's goroutine starts with the *)
(* first cache and is told to stop with the last one; the next cache       *)
(* starts another.  What an entry holds is left out: its expiration says   *)
(* when it was stored.                                                     *)
(***************************************************************************)
EXTENDS Integers, FiniteSets

CONSTANTS
  Caches,    \* the caches that are made, each once
  Keys,
  Readers,   \* goroutines that call Get
  Janitors,  \* the goroutines of runWith, each one started once
  TTL,
  MaxTime,   \* bound: the clock
  MaxSets    \* bound: the calls of Set

\* A time to live is a number of units of time.
TTLCacheAssumption == TTL \in Nat

Absent == 0

VARIABLES
  now,
  data,               \* the expiration of every entry
  made, registered,   \* the caches that exist, those in the janitor's list
  running,            \* janitor.running
  stop,               \* janitor.stop, by the goroutine that was given it
  closed,             \* the goroutines whose stop is closed
  pc, todo, found, at, \* of every janitor: where it is, the caches that it still
                      \* sweeps, the keys it found and when
  get,                \* of every reader: the entry that it found expired
  sets

janitor == <<registered, running, stop, closed>>
sweep == <<pc, todo, found, at>>
vars == <<now, data, made, registered, running, stop, closed, pc, todo, found, at, get, sets>>

Nobody == [cache |-> Absent, key |-> Absent]
Slots == [cache : Caches, key : Keys]

Init ==
  /\ now = 1
  /\ data = [s \in Slots |-> Absent]
  /\ made = {} /\ registered = {}
  /\ running = FALSE /\ stop = (CHOOSE j \in Janitors : TRUE) /\ closed = {}
  /\ pc = [j \in Janitors |-> "new"]
  /\ todo = [j \in Janitors |-> {}]
  /\ found = [j \in Janitors |-> {}]
  /\ at = [j \in Janitors |-> 1]
  /\ get = [r \in Readers |-> Nobody]
  /\ sets = MaxSets

Expired(s, time) == data[s] # Absent /\ time > data[s]
Live(j) == pc[j] \notin {"new", "ended"}

\* Time passes; the end of the bounded clock is the end of the behaviour.
Tick == now < MaxTime /\ now' = now + 1
        /\ UNCHANGED <<data, made, janitor, sweep, get, sets>>
-----------------------------------------------------------------------------
\* Get, under the read lock.  An entry that is not expired is returned.
Get(r, s) ==
  /\ s.cache \in made
  /\ get[r] = Nobody
  /\ Expired(s, now)
  /\ get' = [get EXCEPT ![r] = s]
  /\ UNCHANGED <<now, data, made, janitor, sweep, sets>>

\* slip: what was expired is deleted without a second look.
GetDeleteBlind(r) ==
  /\ get[r] # Nobody
  /\ data' = [data EXCEPT ![get[r]] = Absent]
  /\ get' = [get EXCEPT ![r] = Nobody]
  /\ UNCHANGED <<now, made, janitor, sweep, sets>>

\* Get, under the write lock: the entry is looked at again.
GetDelete(r) ==
  /\ get[r] # Nobody
  /\ data' = [data EXCEPT ![get[r]] = IF Expired(get[r], now) THEN Absent ELSE @]
  /\ get' = [get EXCEPT ![r] = Nobody]
  /\ UNCHANGED <<now, made, janitor, sweep, sets>>

\* SetWithTTL.
Set(s) ==
  /\ s.cache \in made /\ sets > 0
  /\ data' = [data EXCEPT ![s] = now + TTL]
  /\ sets' = sets - 1
  /\ UNCHANGED <<now, made, janitor, sweep, get>>

Delete(s) ==
  /\ data[s] # Absent
  /\ data' = [data EXCEPT ![s] = Absent]
  /\ UNCHANGED <<now, made, janitor, sweep, get, sets>>

Clear(c) ==
  /\ \E k \in Keys : data[[cache |-> c, key |-> k]] # Absent
  /\ data' = [s \in Slots |-> IF s.cache = c THEN Absent ELSE data[s]]
  /\ UNCHANGED <<now, made, janitor, sweep, get, sets>>
-----------------------------------------------------------------------------
\* NewCache and register: the first cache starts a goroutine with a stop
\* channel of its own.
Register(c) ==
  /\ c \notin made
  /\ made' = made \cup {c}
  /\ registered' = registered \cup {c}
  /\ \/ running /\ UNCHANGED <<running, stop, pc>>
     \/ /\ ~ running
        /\ \E j \in Janitors : /\ pc[j] = "new"
                               /\ stop' = j
                               /\ pc' = [pc EXCEPT ![j] = "wait"]
        /\ running' = TRUE
  /\ UNCHANGED <<now, data, closed, todo, found, at, get, sets>>

\* slip: the stop channel is closed and the janitor is still said to run.
UnregisterRunning(c) ==
  /\ c \in registered
  /\ registered' = registered \ {c}
  /\ closed' = IF registered' = {} THEN closed \cup {stop} ELSE closed
  /\ UNCHANGED <<now, data, made, running, stop, sweep, get, sets>>

\* Close and unregister: the last cache stops the goroutine.
Unregister(c) ==
  /\ c \in registered
  /\ registered' = registered \ {c}
  /\ IF registered' = {} /\ running
     THEN closed' = closed \cup {stop} /\ running' = FALSE
     ELSE UNCHANGED <<closed, running>>
  /\ UNCHANGED <<now, data, made, stop, sweep, get, sets>>

\* runWith: a tick of the ticker.  The caches are copied under the lock and
\* swept outside.
Wake(j) ==
  /\ pc[j] = "wait"
  /\ registered # {}
  /\ todo' = [todo EXCEPT ![j] = registered]
  /\ pc' = [pc EXCEPT ![j] = "collect"]
  /\ UNCHANGED <<now, data, made, janitor, found, at, get, sets>>

Halt(j) ==
  /\ pc[j] = "wait"
  /\ j \in closed
  /\ pc' = [pc EXCEPT ![j] = "ended"]
  /\ UNCHANGED <<now, data, made, janitor, todo, found, at, get, sets>>

\* slip: the sweep ends with the first cache that has nothing expired.
CollectReturns(j) ==
  /\ pc[j] = "collect"
  /\ LET next == CHOOSE n \in Caches : n \in todo[j] \/ todo[j] = {} IN
     /\ found' = [found EXCEPT ![j] = {s \in Slots : s.cache = next /\ Expired(s, now)}]
     /\ todo' = [todo EXCEPT ![j] = IF found'[j] = {} THEN {} ELSE @ \ {next}]
     /\ at' = [at EXCEPT ![j] = now]
     /\ pc' = [pc EXCEPT ![j] = IF found'[j] = {} THEN "wait" ELSE "delete"]
  /\ UNCHANGED <<now, data, made, janitor, get, sets>>

\* evictExpired, under the read lock.
Collect(j) ==
  /\ pc[j] = "collect"
  /\ \/ \E c \in todo[j] :
          /\ at' = [at EXCEPT ![j] = now]
          /\ found' = [found EXCEPT ![j] = {s \in Slots : s.cache = c /\ Expired(s, now)}]
          /\ todo' = [todo EXCEPT ![j] = @ \ {c}]
          /\ pc' = [pc EXCEPT ![j] = "delete"]
     \/ /\ todo[j] = {}
        /\ pc' = [pc EXCEPT ![j] = "wait"]
        /\ UNCHANGED <<todo, found, at>>
  /\ UNCHANGED <<now, data, made, janitor, get, sets>>

\* slip: the keys that were found are deleted, whatever they hold now.
SweepBlind(j) ==
  /\ pc[j] = "delete"
  /\ data' = [s \in Slots |-> IF s \in found[j] THEN Absent ELSE data[s]]
  /\ found' = [found EXCEPT ![j] = {}] /\ at' = [at EXCEPT ![j] = 1]
  /\ pc' = [pc EXCEPT ![j] = "collect"]
  /\ UNCHANGED <<now, made, janitor, todo, get, sets>>

\* evictExpired, under the write lock: every entry is looked at again, with
\* the time of the first look.
Sweep(j) ==
  /\ pc[j] = "delete"
  /\ data' = [s \in Slots |-> IF s \in found[j] /\ Expired(s, at[j]) THEN Absent ELSE data[s]]
  /\ found' = [found EXCEPT ![j] = {}] /\ at' = [at EXCEPT ![j] = 1]
  /\ pc' = [pc EXCEPT ![j] = "collect"]
  /\ UNCHANGED <<now, made, janitor, todo, get, sets>>

Work(j) == Wake(j) \/ Collect(j) \/ Sweep(j)

Next ==
  \/ Tick
  \/ \E r \in Readers : GetDelete(r) \/ \E s \in Slots : Get(r, s)
  \/ \E s \in Slots : Set(s) \/ Delete(s)
  \/ \E c \in Caches : Clear(c) \/ Register(c) \/ Unregister(c)
  \/ \E j \in Janitors : Work(j) \/ Halt(j)

Spec == Init /\ [][Next]_vars

\* The ticker ticks.
Fairness == \A j \in Janitors : WF_vars(Work(j))
FairSpec == Spec /\ Fairness
-----------------------------------------------------------------------------
TypeOK ==
  /\ now \in 1 .. MaxTime
  /\ data \in [Slots -> 0 .. MaxTime + TTL]
  /\ registered \subseteq made /\ made \subseteq Caches
  /\ running \in BOOLEAN /\ stop \in Janitors /\ closed \subseteq Janitors
  /\ pc \in [Janitors -> {"new", "wait", "collect", "delete", "ended"}]
  /\ todo \in [Janitors -> SUBSET Caches]
  /\ found \in [Janitors -> SUBSET Slots]
  /\ at \in [Janitors -> 1 .. MaxTime]
  /\ get \in [Readers -> Slots \cup {Nobody}]
  /\ sets \in 0 .. MaxSets

\* As long as caches are registered, exactly one goroutine has not been told
\* to stop, and the janitor holds its channel; without caches there is none.
\* So no close stops the goroutine of a later start, and no channel is closed
\* twice (cache.go:191-201, 207-220).
OneJanitor ==
  /\ running <=> registered # {}
  /\ \A j \in Janitors : (Live(j) /\ j \notin closed) <=> (running /\ j = stop)

\* Get and the sweep delete no entry that has been stored anew since they saw
\* it expired (cache.go:55, 125).
FreshIsKept ==
  [][\A s \in Slots :
       (data[s] # Absent /\ data'[s] = Absent /\ ~ Expired(s, now))
         => (Delete(s) \/ Clear(s.cache))]_vars

\* An entry of a registered cache does not stay for ever once it has expired,
\* even if nobody asks for it (cache.go:34, 162-185).
ExpiredIsSwept ==
  \A s \in Slots : (Expired(s, now) /\ s.cache \in registered)
                     ~> (~ Expired(s, now) \/ s.cache \notin registered)
=============================================================================
