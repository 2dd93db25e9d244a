------------------------------ MODULE Rotation ------------------------------
(***************************************************************************)
(* Which assistant account plays in a chat: PlayMedia and rotateAndPlay    *)
(* (internal/calls/playback.go), GetAccount (internal/calls/assistant.go), *)
(* the assignment document and the cache before it (internal/db/           *)
(* assistant.go), and Stop.  Every access to the database, to the cache    *)
(* and to Telegram is a step of its own, and calls for one chat            *)
(* interleave.  Accounts are the indexes of TelegramCalls.accounts.        *)
(***************************************************************************)
EXTENDS Integers, FiniteSets

CONSTANTS
  N,          \* the number of accounts that started
  Earlier,    \* the number of accounts of an earlier run of the program
  Calls,      \* the calls of PlayMedia, Stop and ClearAllAssistants at one time
  Operations, \* what they may be: "play", "stop", "clear"
  Faults,     \* what may happen: "member", "join", "connect", "leave" (the
              \* request fails), "db" (a request is refused), "lost" (a write is
              \* done and its answer does not come in time), "expire", "discard"
  MaxCalls    \* bound: the number of calls of a behaviour

ASSUME RotationAssumption ==
  /\ N \in Nat \ {0}
  /\ Earlier \in Nat
  /\ IsFiniteSet(Calls)
  /\ Operations \subseteq {"play", "stop", "clear"}
  /\ MaxCalls \in Nat

Accounts == 0 .. N - 1
NoAccount == -1

\* classifyError: what PlayMedia does next depends on the kind of the error.
Kinds == {"fatal", "once", "rotate", "unknown"}

VARIABLES
  doc,     \* the num of the chat's document, NoAccount without a document
  cached,  \* the chat's entry in assistantCache, NoAccount without an entry
  bound,   \* the accounts whose binding has a call for the chat
  joined,  \* the accounts that take part in the chat's group call
  calls,   \* calls still to come
  op, pc,  \* what each call is and where it is
  index,   \* each call's account
  found,   \* what its GetAssistant has read from the document
  tried,   \* rotateAndPlay's tried
  again,   \* the attempt is the second one with this account
  made,    \* the attempts of each call so far
  lapse    \* the worst so far (history)

\* "none": calls that play or stop, one at a time, and errors of the join.
\* "fault": anything else that fails or expires, and ClearAllAssistants.
\* "unseen": somebody has not seen a write, two calls having been in progress
\* at a time or the answer to a write having been lost.
Lapses == {"none", "fault", "unseen"}

dbVars == <<doc, cached>>
tgVars == <<bound, joined>>
local == <<index, found, tried, again, made>>
vars == <<doc, cached, bound, joined, calls, op, pc, index, found, tried, again, made,
          lapse>>

Numbers == {NoAccount} \cup Accounts \cup 0 .. Earlier - 1

\* The document outlives the process.
Init ==
  /\ doc \in {NoAccount} \cup 0 .. Earlier - 1
  /\ cached = NoAccount
  /\ bound = {}
  /\ joined = {}
  /\ calls = MaxCalls
  /\ op = [c \in Calls |-> "none"]
  /\ pc = [c \in Calls |-> "idle"]
  /\ index = [c \in Calls |-> NoAccount]
  /\ found = [c \in Calls |-> NoAccount]
  /\ tried = [c \in Calls |-> {}]
  /\ again = [c \in Calls |-> FALSE]
  /\ made = [c \in Calls |-> 0]
  /\ lapse = "none"

At(c, label) == pc[c] = label
Goto(c, label) == pc' = [pc EXCEPT ![c] = label]

Mishap == lapse' = IF lapse = "none" THEN "fault" ELSE lapse
Unseen == lapse' = "unseen"

\* A write of d to the document returns an error: the cache is left alone.
Unwritten(d) ==
  \/ "db" \in Faults /\ Mishap /\ UNCHANGED doc
  \/ "lost" \in Faults /\ Unseen /\ doc' = d

Return(c) ==
  /\ Goto(c, "idle")
  /\ op' = [op EXCEPT ![c] = "none"]
  /\ index' = [index EXCEPT ![c] = NoAccount]
  /\ found' = [found EXCEPT ![c] = NoAccount]
  /\ tried' = [tried EXCEPT ![c] = {}]
  /\ again' = [again EXCEPT ![c] = FALSE]
  /\ made' = [made EXCEPT ![c] = 0]

Begin(c, o) ==
  /\ At(c, "idle")
  /\ calls > 0
  /\ calls' = calls - 1
  /\ op' = [op EXCEPT ![c] = o]
  /\ Goto(c, IF o = "clear" THEN "clearDocs" ELSE "getCached")
  /\ IF \E d \in Calls : ~ At(d, "idle") THEN Unseen
     ELSE IF o = "clear" THEN Mishap ELSE UNCHANGED lapse
  /\ UNCHANGED <<dbVars, tgVars, local>>
-----------------------------------------------------------------------------
(* getAccountIndex. *)

\* GetAccount returns account a.
Account(c, a) ==
  /\ index' = [index EXCEPT ![c] = a]
  /\ IF op[c] = "stop"
     THEN Goto(c, "leave") /\ UNCHANGED tried
     ELSE Goto(c, "member") /\ tried' = [tried EXCEPT ![c] = {a}]
  /\ UNCHANGED <<found, again, made>>

\* GetAssistant answers a.  Called by getAccountIndex, the answer is taken if
\* it is an account's index; called by AssignAssistant, after getAccountIndex
\* has chosen an account, the answer is ignored.
Answered(c, a) ==
  IF index[c] # NoAccount THEN Account(c, index[c])
  ELSE IF a \in Accounts THEN Account(c, a)
  ELSE Goto(c, "assign") /\ UNCHANGED local

\* GetAssistant asks the cache first, then reads the document, then caches
\* what it has read.
GetCached(c) ==
  /\ At(c, "getCached")
  /\ IF cached # NoAccount
     THEN Answered(c, cached)
     ELSE Goto(c, "find") /\ UNCHANGED local
  /\ UNCHANGED <<dbVars, tgVars, calls, op, lapse>>

Find(c) ==
  /\ At(c, "find")
  /\ \/ /\ doc # NoAccount
        /\ found' = [found EXCEPT ![c] = doc]
        /\ Goto(c, "fill")
        /\ UNCHANGED <<index, tried, again, made, lapse>>
     \/ /\ Answered(c, NoAccount)
        /\ \/ doc = NoAccount /\ UNCHANGED lapse
           \/ "db" \in Faults /\ Mishap
  /\ UNCHANGED <<dbVars, tgVars, calls, op>>

Fill(c) ==
  /\ At(c, "fill")
  /\ cached' = found[c]
  /\ Answered(c, found[c])
  /\ UNCHANGED <<doc, tgVars, calls, op, lapse>>

\* A random account, stored by AssignAssistant if the chat has no document;
\* the upsert of a chat that has one fails with a duplicate key.
Assign(c) ==
  /\ At(c, "assign")
  /\ \E a \in Accounts :
       \/ /\ index' = [index EXCEPT ![c] = a]
          /\ IF doc = NoAccount
             THEN doc' = a /\ Goto(c, "assigned")
             ELSE Goto(c, "getCached") /\ UNCHANGED doc
          /\ UNCHANGED <<found, tried, again, made, lapse>>
       \/ Account(c, a) /\ Unwritten(a)
  /\ UNCHANGED <<cached, tgVars, calls, op>>

CacheAssigned(c) ==
  /\ At(c, "assigned")
  /\ cached' = index[c]
  /\ Account(c, index[c])
  /\ UNCHANGED <<doc, tgVars, calls, op, lapse>>
-----------------------------------------------------------------------------
(* playMediaWithAssistant and what PlayMedia does with its error. *)

\* One more attempt; the count stops when it is beyond the bound that
\* AttemptsBounded states.
Count(c) == made' = [made EXCEPT ![c] = IF @ > 2 * N THEN @ ELSE @ + 1]

\* slip: an error to retry is retried every time.
FailedAgain(c, kind) ==
  /\ Count(c)
  /\ Goto(c, IF kind = "once" THEN "member"
             ELSE IF kind = "rotate" THEN "evict" ELSE "failed")
  /\ UNCHANGED <<index, found, tried, again>>

\* PlayMedia and rotateAndPlay: an error to retry is retried once, an error
\* to rotate on evicts the account, any other ends the call.
Failed(c, kind) ==
  /\ Count(c)
  /\ \/ /\ kind = "once" /\ ~ again[c]
        /\ again' = [again EXCEPT ![c] = TRUE]
        /\ Goto(c, "member")
     \/ /\ kind = "rotate"
        /\ Goto(c, "evict")
        /\ UNCHANGED again
     \/ /\ kind \in {"fatal", "unknown"} \/ (kind = "once" /\ again[c])
        /\ Goto(c, "failed")
        /\ UNCHANGED again
  /\ UNCHANGED <<index, found, tried>>

\* slip: the account that plays is not stored.
SucceededUnstored(c) ==
  /\ Count(c)
  /\ Goto(c, "done")
  /\ UNCHANGED <<index, found, tried, again>>

Succeeded(c) ==
  /\ Count(c)
  /\ Goto(c, "store")
  /\ UNCHANGED <<index, found, tried, again>>

\* ensureAssistantMember.
Member(c) ==
  /\ At(c, "member")
  /\ \/ Goto(c, "start") /\ UNCHANGED <<local, lapse>>
     \/ "member" \in Faults /\ Mishap /\ \E kind \in Kinds : Failed(c, kind)
  /\ UNCHANGED <<dbVars, tgVars, calls, op>>

\* startCallStream when the binding has the call: the media is replaced and
\* nothing is joined.
Replace(c) ==
  /\ At(c, "start")
  /\ index[c] \in bound
  /\ Succeeded(c) \/ ("join" \in Faults /\ Failed(c, "unknown"))
  /\ UNCHANGED <<dbVars, tgVars, calls, op, lapse>>

\* startCallStream otherwise: connectCall stops the binding's call after an
\* error up to getInputGroupCall, and keeps it after an error of the join
\* and, the account taking part already, of the connection and the wait.
Connect(c) ==
  /\ At(c, "start")
  /\ index[c] \notin bound
  /\ \/ /\ bound' = bound \cup {index[c]}
        /\ joined' = joined \cup {index[c]}
        /\ Succeeded(c)
        /\ UNCHANGED lapse
     \/ /\ "join" \in Faults
        /\ \E kind \in Kinds : Failed(c, kind)
        /\ UNCHANGED bound \/ bound' = bound \cup {index[c]}
        /\ UNCHANGED <<joined, lapse>>
     \/ /\ "connect" \in Faults
        /\ Mishap
        /\ Failed(c, "unknown")
        /\ bound' = bound \cup {index[c]}
        /\ joined' = joined \cup {index[c]}
  /\ UNCHANGED <<dbVars, calls, op>>

GiveUp(c) ==
  /\ At(c, "failed")
  /\ Return(c)
  /\ UNCHANGED <<dbVars, tgVars, calls, lapse>>

\* SetAssistant after an attempt that succeeded.
Store(c) ==
  /\ At(c, "store")
  /\ \/ doc' = index[c] /\ Goto(c, "storeCached") /\ UNCHANGED lapse
     \/ Goto(c, "done") /\ Unwritten(index[c])
  /\ UNCHANGED <<cached, tgVars, calls, op, local>>

StoreCached(c) ==
  /\ At(c, "storeCached")
  /\ cached' = index[c]
  /\ Goto(c, "done")
  /\ UNCHANGED <<doc, tgVars, calls, op, local, lapse>>

Done(c) ==
  /\ At(c, "done")
  /\ Return(c)
  /\ UNCHANGED <<dbVars, tgVars, calls, lapse>>

\* slip: the document is deleted and the cache keeps it.
EvictDocument(c) ==
  /\ At(c, "evict")
  /\ doc' = NoAccount
  /\ Goto(c, "rotate")
  /\ UNCHANGED <<cached, tgVars, calls, op, local, lapse>>

\* evictAssistant.
Evict(c) ==
  /\ At(c, "evict")
  /\ \/ doc' = NoAccount /\ Goto(c, "evictCached") /\ UNCHANGED lapse
     \/ Goto(c, "rotate") /\ Unwritten(NoAccount)
  /\ UNCHANGED <<cached, tgVars, calls, op, local>>

EvictCached(c) ==
  /\ At(c, "evictCached")
  /\ cached' = NoAccount
  /\ Goto(c, "rotate")
  /\ UNCHANGED <<doc, tgVars, calls, op, local, lapse>>

\* slip: that every account has been tried is not seen.
RotateForever(c) ==
  /\ At(c, "rotate")
  /\ \E a \in Accounts \ tried[c] :
       /\ \A b \in Accounts \ tried[c] : a <= b
       /\ index' = [index EXCEPT ![c] = a]
       /\ tried' = [tried EXCEPT ![c] = @ \cup {a}]
       /\ again' = [again EXCEPT ![c] = FALSE]
       /\ Goto(c, "member")
       /\ UNCHANGED <<found, made>>
  /\ UNCHANGED <<dbVars, tgVars, calls, op, lapse>>

\* nextUntried: the first account that is not in tried.
Rotate(c) ==
  /\ At(c, "rotate")
  /\ \/ /\ Accounts \subseteq tried[c]
        /\ Goto(c, "failed")
        /\ UNCHANGED local
     \/ \E a \in Accounts \ tried[c] :
          /\ \A b \in Accounts \ tried[c] : a <= b
          /\ index' = [index EXCEPT ![c] = a]
          /\ tried' = [tried EXCEPT ![c] = @ \cup {a}]
          /\ again' = [again EXCEPT ![c] = FALSE]
          /\ Goto(c, "member")
          /\ UNCHANGED <<found, made>>
  /\ UNCHANGED <<dbVars, tgVars, calls, op, lapse>>
-----------------------------------------------------------------------------
\* Stop's stopAssistantCall on the account of GetAccount: a call the binding
\* does not have is no error.  The binding may refuse, and so may Telegram
\* when the binding has stopped.
Leave(c) ==
  /\ At(c, "leave")
  /\ \/ /\ bound' = bound \ {index[c]}
        /\ joined' = joined \ {index[c]}
        /\ UNCHANGED lapse
     \/ /\ "leave" \in Faults
        /\ Mishap
        /\ bound' \in {bound, bound \ {index[c]}}
        /\ UNCHANGED joined
  /\ Goto(c, "done")
  /\ UNCHANGED <<dbVars, calls, op, local>>

\* ClearAllAssistants.
ClearDocs(c) ==
  /\ At(c, "clearDocs")
  /\ \/ doc' = NoAccount /\ Goto(c, "clearCache") /\ UNCHANGED lapse
     \/ Goto(c, "done") /\ Unwritten(NoAccount)
  /\ UNCHANGED <<cached, tgVars, calls, op, local>>

ClearCache(c) ==
  /\ At(c, "clearCache")
  /\ cached' = NoAccount
  /\ Goto(c, "done")
  /\ UNCHANGED <<doc, tgVars, calls, op, local, lapse>>

\* The entry's time is up.
Expire ==
  /\ "expire" \in Faults
  /\ Mishap
  /\ cached' = NoAccount
  /\ UNCHANGED <<doc, tgVars, calls, op, pc, local>>

\* The group call is discarded: each assistant learns it by its own update.
Discarded(a) ==
  /\ "discard" \in Faults
  /\ Mishap
  /\ a \in bound \cup joined
  /\ bound' = bound \ {a}
  /\ joined' = joined \ {a}
  /\ UNCHANGED <<dbVars, calls, op, pc, local>>

Step(c) ==
  \/ GetCached(c) \/ Find(c) \/ Fill(c) \/ Assign(c) \/ CacheAssigned(c)
  \/ Member(c) \/ Replace(c) \/ Connect(c) \/ GiveUp(c)
  \/ Store(c) \/ StoreCached(c) \/ Done(c)
  \/ Evict(c) \/ EvictCached(c) \/ Rotate(c)
  \/ Leave(c) \/ ClearDocs(c) \/ ClearCache(c)

Next ==
  \/ \E c \in Calls : (\E o \in Operations : Begin(c, o)) \/ Step(c)
  \/ Expire
  \/ \E a \in Accounts : Discarded(a)

Spec == Init /\ [][Next]_vars

\* Every goroutine goes on, and every request to the database and to Telegram
\* is answered or times out.
FairSpec == Spec /\ \A c \in Calls : WF_vars(Step(c))
-----------------------------------------------------------------------------
TypeOK ==
  /\ doc \in Numbers
  /\ cached \in Numbers
  /\ bound \subseteq Accounts
  /\ joined \subseteq Accounts
  /\ calls \in 0 .. MaxCalls
  /\ op \in [Calls -> {"none", "play", "stop", "clear"}]
  /\ pc \in [Calls -> {"idle", "getCached", "find", "fill", "assign", "assigned",
                        "member", "start", "failed", "store", "storeCached", "done",
                        "evict", "evictCached", "rotate", "leave", "clearDocs",
                        "clearCache"}]
  /\ index \in [Calls -> {NoAccount} \cup Accounts]
  /\ found \in [Calls -> Numbers]
  /\ tried \in [Calls -> SUBSET Accounts]
  /\ again \in [Calls -> BOOLEAN]
  /\ made \in [Calls -> Nat]
  /\ lapse \in Lapses

\* PlayMedia makes at most two attempts with each account, whatever the
\* errors are and in whichever order they come (playback.go:117-140,
\* 151-188).
AttemptsBounded == \A c \in Calls : made[c] <= 2 * N

\* Every call of PlayMedia and of Stop returns.
CallsReturn == \A c \in Calls : ~ At(c, "idle") ~> At(c, "idle")

Quiet == \A c \in Calls : At(c, "idle")

\* When no call is in progress, what the cache holds is what the document
\* holds, but for calls that have overlapped and for writes whose answer has
\* been lost (db/assistant.go:41, 52, 65, 94).
CoherentUnlessUnseen == (lapse # "unseen" /\ Quiet) => cached \in {NoAccount, doc}

\* As long as nothing but a join has failed, at most one account takes part in
\* the chat's group call, and when no call is in progress it is the one the
\* chat is assigned to, which Stop asks for (playback.go:113, call.go:705).
OneWhenCalm ==
  lapse = "none" =>
    /\ \A a, b \in joined : a = b
    /\ Quiet => \A a \in joined : doc = a
-----------------------------------------------------------------------------
(* What the texts of the program say and the code does not keep. *)

\* "Stop halts media playback in a voice chat" (call.go:699): after Stop has
\* left the call with no other call in progress, no account takes part.
StopHalts ==
  [][\A c \in Calls :
       (Leave(c) /\ \A d \in Calls \ {c} : At(d, "idle")) => joined' = {}]_vars
=============================================================================
