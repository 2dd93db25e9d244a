--------------------------- MODULE RotationProofs ---------------------------
(***************************************************************************)
(* Proofs about Rotation, for any number of accounts and of calls.         *)
(***************************************************************************)
EXTENDS Rotation, FiniteSetTheorems, TLAPS

Labels ==
  {"idle", "getCached", "find", "fill", "assign", "assigned", "member", "start",
   "failed", "store", "storeCached", "done", "evict", "evictCached", "rotate",
   "leave", "clearDocs", "clearCache"}

\* The labels before the first attempt, those of an attempt, and those at
\* which the call has an account.
Early == {"idle", "getCached", "find", "fill", "assign", "assigned"}
Trying == {"member", "start"}
Chosen == {"assigned", "member", "start", "store", "storeCached", "leave"}

SharedOK ==
  /\ doc \in Numbers
  /\ cached \in Numbers
  /\ bound \subseteq Accounts
  /\ joined \subseteq Accounts
  /\ calls \in 0 .. MaxCalls

LocalOK ==
  /\ op \in [Calls -> {"none", "play", "stop", "clear"}]
  /\ pc \in [Calls -> Labels]
  /\ index \in [Calls -> {NoAccount} \cup Accounts]
  /\ found \in [Calls -> Numbers]
  /\ tried \in [Calls -> SUBSET Accounts]
  /\ again \in [Calls -> BOOLEAN]
  /\ made \in [Calls -> Nat]

\* What a call has made so far: nothing before the first attempt, and then
\* at most two attempts with every account it has tried, less those that the
\* account in hand has left.
CallOK(c) ==
  /\ pc[c] \in Chosen => index[c] \in Accounts
  /\ pc[c] \in Early => made[c] = 0 /\ ~ again[c]
  /\ pc[c] \in Trying =>
       made[c] + (IF again[c] THEN 1 ELSE 2) <= 2 * Cardinality(tried[c])
  /\ pc[c] \notin Trying => made[c] <= 2 * Cardinality(tried[c])

Inv == SharedOK /\ LocalOK /\ \A c \in Calls : CallOK(c)

LEMMA InvTypeOK == Inv /\ lapse \in Lapses => TypeOK
  BY DEF Inv, SharedOK, LocalOK, TypeOK, Labels

\* Sets of accounts are finite and have at most N elements.
LEMMA AccountSets ==
  ASSUME NEW T \in SUBSET Accounts
  PROVE  /\ IsFiniteSet(T) /\ Cardinality(T) \in Nat /\ Cardinality(T) <= N
         /\ \A a : Cardinality({a}) = 1
         /\ \A a \in Accounts \ T : Cardinality(T \cup {a}) = Cardinality(T) + 1
<1>1. N \in Nat \ {0}
  BY RotationAssumption
<1>2. IsFiniteSet(Accounts) /\ Cardinality(Accounts) = N
  BY <1>1, FS_Interval DEF Accounts
<1>3. IsFiniteSet(T) /\ Cardinality(T) <= N
  BY <1>2, FS_Subset
<1>4. Cardinality(T) \in Nat
  BY <1>3, FS_CardinalityType
<1>5. \A a : Cardinality({a}) = 1
  BY FS_Singleton
<1>6. \A a \in Accounts \ T : Cardinality(T \cup {a}) = Cardinality(T) + 1
  BY <1>3, FS_AddElement
<1> QED
  BY <1>3, <1>4, <1>5, <1>6

\* A step of call c changes the local state of c only.
LEMMA OnlyCall ==
  ASSUME Inv, NEW c \in Calls, CallOK(c)',
         \A d \in Calls \ {c} : /\ pc'[d] = pc[d] /\ index'[d] = index[d]
                                /\ tried'[d] = tried[d] /\ again'[d] = again[d]
                                /\ made'[d] = made[d]
  PROVE  (\A d \in Calls : CallOK(d))'
<1> SUFFICES ASSUME NEW d \in Calls, d # c PROVE CallOK(d)'
  OBVIOUS
<1> QED
  BY DEF Inv, CallOK

LEMMA InitInv == Init => Inv
<1> SUFFICES ASSUME Init PROVE Inv
  OBVIOUS
<1>1. MaxCalls \in Nat /\ N \in Nat \ {0} /\ Earlier \in Nat
  BY RotationAssumption
<1>2. SharedOK
  BY <1>1 DEF Init, SharedOK, Numbers
<1>3. LocalOK
  BY <1>1 DEF Init, LocalOK, Numbers, Labels
<1>4. ASSUME NEW c \in Calls PROVE CallOK(c)
  <2>1. Cardinality({}) = 0
    BY FS_EmptySet
  <2> QED
    BY <2>1 DEF Init, CallOK, Early, Trying, Chosen
<1> QED
  BY <1>2, <1>3, <1>4 DEF Inv

\* GetAccount returns an account to a call that has not tried one.
LEMMA AccountStep ==
  ASSUME Inv, NEW c \in Calls, NEW a \in Accounts, Account(c, a), pc[c] \in Early,
         op' = op
  PROVE  LocalOK' /\ (\A d \in Calls : CallOK(d))'
<1>1. LocalOK'
  BY DEF Inv, LocalOK, Account, Goto, Labels
<1>2. CallOK(c)'
  <2>1. /\ made'[c] = 0 /\ ~ again'[c] /\ index'[c] = a
        /\ pc'[c] \in {"leave", "member"}
        /\ tried[c] \in SUBSET Accounts
    BY DEF Inv, LocalOK, CallOK, Account, Goto
  <2>2. CASE pc'[c] = "member"
    <3>1. tried'[c] = {a}
      BY <2>2 DEF Inv, LocalOK, Account, Goto
    <3>2. Cardinality({a}) = 1
      BY FS_Singleton
    <3>3. made'[c] + (IF again'[c] THEN 1 ELSE 2) <= 2 * Cardinality(tried'[c])
      BY <2>1, <3>1, <3>2
    <3> QED
      BY <2>1, <2>2, <3>3 DEF CallOK, Early, Trying, Chosen
  <2>3. CASE pc'[c] = "leave"
    <3>1. tried'[c] \in SUBSET Accounts
      BY <1>1 DEF LocalOK
    <3> QED
      BY <2>1, <2>3, <3>1, AccountSets DEF CallOK, Early, Trying, Chosen
  <2> QED
    BY <2>1, <2>2, <2>3
<1> QED
  BY <1>1, <1>2, OnlyCall DEF Inv, LocalOK, Account, Goto

LEMMA AnsweredStep ==
  ASSUME Inv, NEW c \in Calls, NEW a, Answered(c, a), pc[c] \in Early, op' = op
  PROVE  LocalOK' /\ (\A d \in Calls : CallOK(d))'
<1>1. CASE index[c] # NoAccount
  BY <1>1, AccountStep DEF Answered, Inv, LocalOK
<1>2. CASE index[c] = NoAccount /\ a \in Accounts
  BY <1>2, AccountStep DEF Answered
<1>3. CASE index[c] = NoAccount /\ a \notin Accounts
  <2>1. Goto(c, "assign") /\ UNCHANGED local
    BY <1>3 DEF Answered
  <2>2. LocalOK'
    BY <2>1 DEF Inv, LocalOK, Goto, Labels, local
  <2>3. CallOK(c)'
    BY <2>1 DEF Inv, LocalOK, CallOK, Goto, local, Early, Trying, Chosen
  <2> QED
    BY <2>1, <2>2, <2>3, OnlyCall DEF Inv, LocalOK, Goto, local
<1> QED
  BY <1>1, <1>2, <1>3

\* What an attempt of call c changes.
Attempted(c) ==
  /\ made' = [made EXCEPT ![c] = made'[c]]
  /\ made'[c] \in Nat /\ made'[c] <= made[c] + 1
  /\ again' = [again EXCEPT ![c] = again'[c]] /\ again'[c] \in BOOLEAN
  /\ pc' = [pc EXCEPT ![c] = pc'[c]]
  /\ UNCHANGED <<index, found, tried>>
  /\ \/ pc'[c] = "member" /\ ~ again[c] /\ again'[c]
     \/ pc'[c] \in {"evict", "failed", "store", "done"}

LEMMA AttemptShape ==
  ASSUME Inv, NEW c \in Calls,
         Succeeded(c) \/ \E kind \in Kinds : Failed(c, kind),
         pc[c] \in Trying
  PROVE  Attempted(c)
<1>1. Count(c) /\ UNCHANGED <<index, found, tried>>
  BY DEF Succeeded, Failed
<1>2. made[c] \in Nat /\ 2 * N \in Nat
  BY RotationAssumption DEF Inv, LocalOK
<1>3. /\ made' = [made EXCEPT ![c] = made'[c]]
      /\ made'[c] \in Nat /\ made'[c] <= made[c] + 1
  BY <1>1, <1>2 DEF Count, Inv, LocalOK
<1>4. CASE Succeeded(c)
  BY <1>1, <1>3, <1>4 DEF Succeeded, Goto, Inv, LocalOK, Attempted
<1>5. ASSUME NEW kind \in Kinds, Failed(c, kind) PROVE Attempted(c)
  <2>1. CASE again' = [again EXCEPT ![c] = TRUE] /\ Goto(c, "member") /\ ~ again[c]
    BY <2>1, <1>1, <1>3 DEF Goto, Inv, LocalOK, Attempted
  <2>2. CASE UNCHANGED again /\ Goto(c, "evict")
    BY <2>2, <1>1, <1>3 DEF Goto, Inv, LocalOK, Attempted
  <2>3. CASE UNCHANGED again /\ Goto(c, "failed")
    BY <2>3, <1>1, <1>3 DEF Goto, Inv, LocalOK, Attempted
  <2> QED
    BY <1>5, <2>1, <2>2, <2>3 DEF Failed
<1> QED
  BY <1>4, <1>5

\* An attempt that is made keeps the count within the bound.
LEMMA AttemptStep ==
  ASSUME Inv, NEW c \in Calls, pc[c] \in Trying, op' = op,
         Succeeded(c) \/ \E kind \in Kinds : Failed(c, kind)
  PROVE  LocalOK' /\ (\A d \in Calls : CallOK(d))'
<1>1. Attempted(c)
  BY AttemptShape
<1>2. pc'[c] \in Labels
  BY <1>1 DEF Attempted, Labels
<1>3. LocalOK'
  BY <1>1, <1>2 DEF Attempted, Inv, LocalOK
<1>4. CallOK(c)'
  <2>1. /\ made[c] \in Nat /\ again[c] \in BOOLEAN
        /\ index[c] \in Accounts /\ index'[c] = index[c]
        /\ tried[c] \in SUBSET Accounts /\ tried'[c] = tried[c]
        /\ made[c] + (IF again[c] THEN 1 ELSE 2) <= 2 * Cardinality(tried[c])
    BY <1>1 DEF Attempted, Inv, LocalOK, CallOK, Trying, Chosen
  <2>2. Cardinality(tried[c]) \in Nat
    BY <2>1, AccountSets
  <2>3. made'[c] <= 2 * Cardinality(tried'[c])
    BY <1>1, <2>1, <2>2 DEF Attempted
  <2>4. CASE pc'[c] = "member" /\ ~ again[c] /\ again'[c]
    <3>1. made'[c] + 1 <= 2 * Cardinality(tried'[c])
      BY <1>1, <2>1, <2>2, <2>4 DEF Attempted
    <3> QED
      BY <2>1, <2>4, <3>1 DEF CallOK, Early, Trying, Chosen
  <2>5. CASE pc'[c] \in {"evict", "failed", "store", "done"}
    BY <2>1, <2>3, <2>5 DEF CallOK, Early, Trying, Chosen
  <2> QED
    BY <1>1, <2>4, <2>5 DEF Attempted
<1> QED
  BY <1>1, <1>3, <1>4, OnlyCall DEF Attempted, Inv, LocalOK

\* A step of call c that moves it and changes no count.
LEMMA MoveStep ==
  ASSUME Inv, NEW c \in Calls, NEW label \in Labels, Goto(c, label),
         UNCHANGED local, op' \in [Calls -> {"none", "play", "stop", "clear"}],
         label \in Chosen => index[c] \in Accounts,
         label \in Early => pc[c] \in Early,
         label \in Trying => pc[c] \in Trying
  PROVE  LocalOK' /\ (\A d \in Calls : CallOK(d))'
<1>1. LocalOK'
  BY DEF Inv, LocalOK, Goto, local
<1>2. CallOK(c)'
  <2>1. /\ pc'[c] = label /\ index'[c] = index[c] /\ made'[c] = made[c]
        /\ again'[c] = again[c] /\ tried'[c] = tried[c]
        /\ made[c] \in Nat /\ again[c] \in BOOLEAN /\ CallOK(c)
        /\ tried[c] \in SUBSET Accounts
    BY DEF Inv, LocalOK, Goto, local
  <2>2. Cardinality(tried[c]) \in Nat
    BY <2>1, AccountSets
  <2>3. made[c] <= 2 * Cardinality(tried[c])
    BY <2>1, <2>2 DEF CallOK
  <2> QED
    BY <2>1, <2>3 DEF CallOK
<1> QED
  BY <1>1, <1>2, OnlyCall DEF Inv, LocalOK, Goto, local

\* The call returns.
LEMMA ReturnStep ==
  ASSUME Inv, NEW c \in Calls, Return(c)
  PROVE  LocalOK' /\ (\A d \in Calls : CallOK(d))'
<1>1. LocalOK'
  BY DEF Inv, LocalOK, Return, Goto, Labels, Numbers
<1>2. CallOK(c)'
  <2>1. pc'[c] = "idle" /\ made'[c] = 0 /\ ~ again'[c] /\ tried'[c] = {}
    BY DEF Inv, LocalOK, Return, Goto
  <2>2. Cardinality({}) = 0
    BY FS_EmptySet
  <2> QED
    BY <2>1, <2>2 DEF CallOK, Early, Trying, Chosen
<1> QED
  BY <1>1, <1>2, OnlyCall DEF Inv, LocalOK, Return, Goto

\* nextUntried: one more account, and two more attempts.
LEMMA RotateStep ==
  ASSUME Inv, NEW c \in Calls, Rotate(c)
  PROVE  LocalOK' /\ (\A d \in Calls : CallOK(d))'
<1>1. op' = op /\ pc[c] = "rotate"
  BY DEF Rotate, At
<1>2. CASE Goto(c, "failed") /\ UNCHANGED local
  BY <1>1, <1>2, MoveStep DEF Inv, LocalOK, Labels, Chosen, Early, Trying
<1>3. CASE \E a \in Accounts \ tried[c] :
             /\ index' = [index EXCEPT ![c] = a]
             /\ tried' = [tried EXCEPT ![c] = tried[c] \cup {a}]
             /\ again' = [again EXCEPT ![c] = FALSE]
             /\ Goto(c, "member")
             /\ UNCHANGED <<found, made>>
  <2> PICK a \in Accounts \ tried[c] :
             /\ index' = [index EXCEPT ![c] = a]
             /\ tried' = [tried EXCEPT ![c] = tried[c] \cup {a}]
             /\ again' = [again EXCEPT ![c] = FALSE]
             /\ Goto(c, "member")
             /\ UNCHANGED <<found, made>>
    BY <1>3
  <2>1. tried[c] \in SUBSET Accounts /\ made[c] \in Nat /\ CallOK(c)
    BY DEF Inv, LocalOK
  <2>2. tried[c] \cup {a} \in SUBSET Accounts
    BY <2>1
  <2>3. LocalOK'
    BY <1>1, <2>2 DEF Inv, LocalOK, Goto, Labels
  <2>4. /\ pc'[c] = "member" /\ index'[c] = a /\ made'[c] = made[c]
        /\ again'[c] = FALSE /\ tried'[c] = tried[c] \cup {a}
    BY DEF Inv, LocalOK, Goto
  <2>5. /\ Cardinality(tried[c]) \in Nat
        /\ Cardinality(tried[c] \cup {a}) = Cardinality(tried[c]) + 1
    BY <2>1, AccountSets
  <2>6. made[c] <= 2 * Cardinality(tried[c])
    BY <1>1, <2>1 DEF CallOK, Trying
  <2>7. made'[c] + (IF again'[c] THEN 1 ELSE 2) <= 2 * Cardinality(tried'[c])
    <3>1. Cardinality(tried'[c]) = Cardinality(tried[c]) + 1
      BY <2>4, <2>5
    <3>2. made[c] + 2 <= 2 * (Cardinality(tried[c]) + 1)
      BY <2>1, <2>5, <2>6
    <3> QED
      BY <2>4, <3>1, <3>2
  <2>8. CallOK(c)'
    BY <2>4, <2>7 DEF CallOK, Early, Trying, Chosen
  <2> QED
    BY <2>3, <2>8, OnlyCall DEF Inv, LocalOK, Goto
<1> QED
  BY <1>2, <1>3 DEF Rotate

\* Begin, and the steps of getAccountIndex.
LEMMA AccountSteps ==
  ASSUME Inv, NEW c \in Calls,
         \/ \E o \in {"play", "stop", "clear"} : Begin(c, o)
         \/ GetCached(c) \/ Find(c) \/ Fill(c) \/ Assign(c) \/ CacheAssigned(c)
  PROVE  Inv'
<1>1. ASSUME NEW o \in {"play", "stop", "clear"}, Begin(c, o) PROVE Inv'
  <2>1. SharedOK'
    BY <1>1, RotationAssumption DEF Begin, Inv, SharedOK, Numbers, dbVars, tgVars
  <2>2. op' \in [Calls -> {"none", "play", "stop", "clear"}]
    BY <1>1 DEF Begin, Inv, LocalOK
  <2>3. pc[c] = "idle" /\ UNCHANGED local
    BY <1>1 DEF Begin, At
  <2>4. CASE Goto(c, "clearDocs")
    BY <2>1, <2>2, <2>3, <2>4, MoveStep DEF Inv, Labels, Chosen, Early, Trying
  <2>5. CASE Goto(c, "getCached")
    BY <2>1, <2>2, <2>3, <2>5, MoveStep DEF Inv, Labels, Chosen, Early, Trying
  <2> QED
    BY <1>1, <2>4, <2>5 DEF Begin
<1>2. CASE GetCached(c)
  <2>1. SharedOK' /\ op' = op /\ pc[c] = "getCached"
    BY <1>2 DEF GetCached, At, Inv, SharedOK, Numbers, dbVars, tgVars
  <2>2. CASE Answered(c, cached)
    BY <2>1, <2>2, AnsweredStep DEF Inv, Early
  <2>3. CASE Goto(c, "find") /\ UNCHANGED local
    BY <2>1, <2>3, MoveStep DEF Inv, LocalOK, Labels, Chosen, Early, Trying
  <2> QED
    BY <1>2, <2>2, <2>3 DEF GetCached
<1>3. CASE Find(c)
  <2>1. SharedOK' /\ op' = op /\ pc[c] = "find"
    BY <1>3 DEF Find, At, Inv, SharedOK, Numbers, dbVars, tgVars
  <2>2. CASE Answered(c, NoAccount)
    BY <2>1, <2>2, AnsweredStep DEF Inv, Early
  <2>3. CASE /\ found' = [found EXCEPT ![c] = doc]
             /\ Goto(c, "fill")
             /\ UNCHANGED <<index, tried, again, made>>
    <3>1. LocalOK'
      BY <2>1, <2>3 DEF Inv, LocalOK, SharedOK, Goto, Labels
    <3>2. CallOK(c)'
      BY <2>1, <2>3 DEF Inv, LocalOK, Goto, CallOK, Early, Trying, Chosen
    <3> QED
      BY <2>1, <2>3, <3>1, <3>2, OnlyCall DEF Inv, LocalOK, Goto
  <2> QED
    BY <1>3, <2>2, <2>3 DEF Find
<1>4. CASE Fill(c)
  <2>1. SharedOK' /\ op' = op /\ pc[c] = "fill"
    BY <1>4 DEF Fill, At, Inv, SharedOK, LocalOK, Numbers, tgVars
  <2> QED
    BY <1>4, <2>1, AnsweredStep DEF Fill, Inv, Early
<1>5. CASE Assign(c)
  <2> PICK a \in Accounts :
        \/ /\ index' = [index EXCEPT ![c] = a]
           /\ IF doc = NoAccount
              THEN doc' = a /\ Goto(c, "assigned")
              ELSE Goto(c, "getCached") /\ UNCHANGED doc
           /\ UNCHANGED <<found, tried, again, made>>
        \/ Account(c, a) /\ Unwritten(a)
    BY <1>5 DEF Assign
  <2>1. op' = op /\ pc[c] = "assign" /\ UNCHANGED <<cached, tgVars, calls>>
    BY <1>5 DEF Assign, At
  <2>2. doc' = doc \/ doc' = a
    BY DEF Unwritten
  <2>3. SharedOK'
    BY <2>1, <2>2 DEF Inv, SharedOK, Numbers, tgVars
  <2>4. CASE Account(c, a)
    BY <2>1, <2>3, <2>4, AccountStep DEF Inv, Early
  <2>5. ASSUME NEW label \in {"assigned", "getCached"}, Goto(c, label),
               index' = [index EXCEPT ![c] = a],
               UNCHANGED <<found, tried, again, made>>
        PROVE  Inv'
    <3>1. LocalOK'
      BY <2>1, <2>5 DEF Inv, LocalOK, Goto, Labels
    <3>2. CallOK(c)'
      BY <2>1, <2>5 DEF Inv, LocalOK, Goto, CallOK, Early, Trying, Chosen
    <3> QED
      BY <2>1, <2>3, <2>5, <3>1, <3>2, OnlyCall DEF Inv, LocalOK, Goto
  <2> QED
    BY <2>4, <2>5
<1>6. CASE CacheAssigned(c)
  <2>1. op' = op /\ pc[c] = "assigned" /\ index[c] \in Accounts
    BY <1>6 DEF CacheAssigned, At, Inv, CallOK, Chosen
  <2>2. SharedOK'
    BY <1>6, <2>1 DEF CacheAssigned, Inv, SharedOK, Numbers, tgVars
  <2> QED
    BY <1>6, <2>1, <2>2, AccountStep DEF CacheAssigned, Inv, Early
<1> QED
  BY <1>1, <1>2, <1>3, <1>4, <1>5, <1>6

\* The steps of an attempt, and nextUntried.
LEMMA AttemptSteps ==
  ASSUME Inv, NEW c \in Calls,
         Member(c) \/ Replace(c) \/ Connect(c) \/ Rotate(c)
  PROVE  Inv'
<1>1. CASE Member(c)
  <2>1. SharedOK' /\ op' = op /\ pc[c] = "member"
    BY <1>1 DEF Member, At, Inv, SharedOK, Numbers, dbVars, tgVars
  <2>2. CASE Goto(c, "start") /\ UNCHANGED local
    BY <2>1, <2>2, MoveStep DEF Inv, LocalOK, CallOK, Labels, Chosen, Early, Trying
  <2>3. CASE \E kind \in Kinds : Failed(c, kind)
    BY <2>1, <2>3, AttemptStep DEF Inv, Trying
  <2> QED
    BY <1>1, <2>2, <2>3 DEF Member
<1>2. CASE Replace(c)
  <2>1. SharedOK' /\ op' = op /\ pc[c] = "start"
    BY <1>2 DEF Replace, At, Inv, SharedOK, Numbers, dbVars, tgVars
  <2>2. Succeeded(c) \/ \E kind \in Kinds : Failed(c, kind)
    BY <1>2 DEF Replace, Kinds
  <2> QED
    BY <2>1, <2>2, AttemptStep DEF Inv, Trying
<1>3. CASE Connect(c)
  <2>1. op' = op /\ pc[c] = "start" /\ index[c] \in Accounts
    BY <1>3 DEF Connect, At, Inv, CallOK, Chosen
  <2>2. /\ bound' \in {bound, bound \cup {index[c]}}
        /\ joined' \in {joined, joined \cup {index[c]}}
        /\ UNCHANGED <<dbVars, calls>>
    BY <1>3 DEF Connect
  <2>3. SharedOK'
    BY <2>1, <2>2 DEF Inv, SharedOK, Numbers, dbVars
  <2>4. Succeeded(c) \/ \E kind \in Kinds : Failed(c, kind)
    BY <1>3 DEF Connect, Kinds
  <2> QED
    BY <2>1, <2>3, <2>4, AttemptStep DEF Inv, Trying
<1>4. CASE Rotate(c)
  <2>1. SharedOK'
    BY <1>4 DEF Rotate, Inv, SharedOK, Numbers, dbVars, tgVars
  <2> QED
    BY <1>4, <2>1, RotateStep DEF Inv
<1> QED
  BY <1>1, <1>2, <1>3, <1>4

\* The steps that only move the call, and those that end it.
LEMMA OtherSteps ==
  ASSUME Inv, NEW c \in Calls,
         \/ GiveUp(c) \/ Store(c) \/ StoreCached(c) \/ Done(c) \/ Evict(c)
         \/ EvictCached(c) \/ Leave(c) \/ ClearDocs(c) \/ ClearCache(c)
  PROVE  Inv'
<1>1. CASE GiveUp(c) \/ Done(c)
  <2>1. SharedOK' /\ Return(c)
    BY <1>1 DEF GiveUp, Done, Inv, SharedOK, Numbers, dbVars, tgVars
  <2> QED
    BY <2>1, ReturnStep DEF Inv
<1>2. ASSUME NEW label \in {"storeCached", "done", "evictCached", "rotate", "clearCache"},
             Goto(c, label), SharedOK', UNCHANGED <<op, local>>,
             pc[c] \notin Early, label = "storeCached" => index[c] \in Accounts
      PROVE  Inv'
  BY <1>2, MoveStep DEF Inv, LocalOK, Labels, Chosen, Early, Trying
<1>3. CASE Store(c)
  <2>1. /\ pc[c] = "store" /\ index[c] \in Accounts /\ UNCHANGED <<op, local>>
        /\ UNCHANGED <<cached, tgVars, calls>>
    BY <1>3 DEF Store, At, Inv, CallOK, Chosen
  <2>2. doc' \in {doc, index[c]} /\ (Goto(c, "storeCached") \/ Goto(c, "done"))
    BY <1>3 DEF Store, Unwritten
  <2>3. SharedOK'
    BY <2>1, <2>2 DEF Inv, SharedOK, Numbers, tgVars
  <2> QED
    BY <1>2, <2>1, <2>2, <2>3 DEF Early
<1>4. CASE StoreCached(c)
  <2>1. /\ pc[c] = "storeCached" /\ index[c] \in Accounts /\ UNCHANGED <<op, local>>
        /\ cached' = index[c] /\ UNCHANGED <<doc, tgVars, calls>> /\ Goto(c, "done")
    BY <1>4 DEF StoreCached, At, Inv, CallOK, Chosen
  <2>2. SharedOK'
    BY <2>1 DEF Inv, SharedOK, Numbers, tgVars
  <2> QED
    BY <1>2, <2>1, <2>2 DEF Early
<1>5. CASE Evict(c)
  <2>1. /\ pc[c] = "evict" /\ UNCHANGED <<op, local>>
        /\ UNCHANGED <<cached, tgVars, calls>>
    BY <1>5 DEF Evict, At
  <2>2. doc' \in {doc, NoAccount} /\ (Goto(c, "evictCached") \/ Goto(c, "rotate"))
    BY <1>5 DEF Evict, Unwritten
  <2>3. SharedOK'
    BY <2>1, <2>2 DEF Inv, SharedOK, Numbers, tgVars
  <2> QED
    BY <1>2, <2>1, <2>2, <2>3 DEF Early
<1>6. CASE EvictCached(c) \/ ClearCache(c)
  <2>1. /\ pc[c] \in {"evictCached", "clearCache"} /\ UNCHANGED <<op, local>>
        /\ cached' = NoAccount /\ UNCHANGED <<doc, tgVars, calls>>
        /\ Goto(c, "rotate") \/ Goto(c, "done")
    BY <1>6 DEF EvictCached, ClearCache, At
  <2>2. SharedOK'
    BY <2>1 DEF Inv, SharedOK, Numbers, tgVars
  <2> QED
    BY <1>2, <2>1, <2>2 DEF Early
<1>7. CASE Leave(c)
  <2>1. /\ pc[c] = "leave" /\ UNCHANGED <<op, local>> /\ Goto(c, "done")
        /\ bound' \subseteq bound /\ joined' \subseteq joined
        /\ UNCHANGED <<dbVars, calls>>
    BY <1>7 DEF Leave, At
  <2>2. SharedOK'
    BY <2>1 DEF Inv, SharedOK, Numbers, dbVars
  <2> QED
    BY <1>2, <2>1, <2>2 DEF Early
<1>8. CASE ClearDocs(c)
  <2>1. /\ pc[c] = "clearDocs" /\ UNCHANGED <<op, local>>
        /\ UNCHANGED <<cached, tgVars, calls>>
    BY <1>8 DEF ClearDocs, At
  <2>2. doc' \in {doc, NoAccount} /\ (Goto(c, "clearCache") \/ Goto(c, "done"))
    BY <1>8 DEF ClearDocs, Unwritten
  <2>3. SharedOK'
    BY <2>1, <2>2 DEF Inv, SharedOK, Numbers, tgVars
  <2> QED
    BY <1>2, <2>1, <2>2, <2>3 DEF Early
<1> QED
  BY <1>1, <1>3, <1>4, <1>5, <1>6, <1>7, <1>8

LEMMA StepInv == Inv /\ [Next]_vars => Inv'
<1> SUFFICES ASSUME Inv, [Next]_vars PROVE Inv'
  OBVIOUS
<1>1. ASSUME NEW c \in Calls, NEW o \in Operations, Begin(c, o) PROVE Inv'
  BY <1>1, RotationAssumption, AccountSteps
<1>2. ASSUME NEW c \in Calls, Step(c) PROVE Inv'
  BY <1>2, AccountSteps, AttemptSteps, OtherSteps DEF Step
<1>3. ASSUME UNCHANGED <<doc, calls, op, pc, local>>, cached' \in {cached, NoAccount},
             bound' \subseteq bound, joined' \subseteq joined
      PROVE  Inv'
  <2>1. SharedOK'
    BY <1>3 DEF Inv, SharedOK, Numbers
  <2>2. LocalOK' /\ (\A c \in Calls : CallOK(c))'
    BY <1>3 DEF Inv, LocalOK, CallOK, local
  <2> QED
    BY <2>1, <2>2 DEF Inv
<1>4. CASE Expire
  BY <1>3, <1>4 DEF Expire, tgVars
<1>5. ASSUME NEW a \in Accounts, Discarded(a) PROVE Inv'
  BY <1>3, <1>5 DEF Discarded, dbVars
<1>6. CASE UNCHANGED vars
  BY <1>3, <1>6 DEF vars, local
<1> QED
  BY <1>1, <1>2, <1>4, <1>5, <1>6 DEF Next

LEMMA InvariantHolds == Spec => []Inv
<1> QED
  BY InitInv, StepInv, PTL DEF Spec

\* What has once gone wrong is not forgotten.
Grows ==
  /\ lapse \in Lapses => lapse' \in Lapses
  /\ lapse' # "unseen" => lapse # "unseen"
  /\ lapse' = "none" => lapse = "none"

LEMMA LapseGrows == [Next]_vars => Grows
<1> SUFFICES ASSUME [Next]_vars PROVE Grows
  OBVIOUS
<1>1. (UNCHANGED lapse \/ Mishap \/ Unseen) => Grows
  BY DEF Grows, Lapses, Mishap, Unseen
<1>2. ASSUME NEW c \in Calls, NEW o \in Operations, Begin(c, o)
      PROVE  UNCHANGED lapse \/ Mishap \/ Unseen
  BY <1>2 DEF Begin
<1>3. ASSUME NEW c \in Calls,
             \/ GetCached(c) \/ Find(c) \/ Fill(c) \/ Assign(c) \/ CacheAssigned(c)
             \/ Member(c) \/ Replace(c) \/ Connect(c) \/ GiveUp(c)
      PROVE  UNCHANGED lapse \/ Mishap \/ Unseen
  BY <1>3 DEF GetCached, Find, Fill, Assign, Unwritten, CacheAssigned, Member, Replace,
     Connect, GiveUp
<1>4. ASSUME NEW c \in Calls,
             \/ Store(c) \/ StoreCached(c) \/ Done(c) \/ Evict(c) \/ EvictCached(c)
             \/ Rotate(c) \/ Leave(c) \/ ClearDocs(c) \/ ClearCache(c)
      PROVE  UNCHANGED lapse \/ Mishap \/ Unseen
  BY <1>4 DEF Store, StoreCached, Done, Evict, EvictCached, Rotate, Leave, ClearDocs,
     ClearCache, Unwritten
<1>5. CASE Expire \/ \E a \in Accounts : Discarded(a)
  BY <1>1, <1>5 DEF Expire, Discarded
<1>6. CASE UNCHANGED vars
  BY <1>1, <1>6 DEF vars
<1> QED
  BY <1>1, <1>2, <1>3, <1>4, <1>5, <1>6 DEF Next, Step

\* Every variable keeps its type, whatever fails, and what a call has chosen
\* to play with is an account that started (assistant.go:22-50).
THEOREM TypeCorrect == Spec => []TypeOK
<1>1. Init => lapse \in Lapses
  BY DEF Init, Lapses
<1>2. lapse \in Lapses /\ [Next]_vars => (lapse \in Lapses)'
  BY LapseGrows DEF Grows
<1> QED
  BY <1>1, <1>2, InvariantHolds, InvTypeOK, PTL DEF Spec

\* PlayMedia makes at most two attempts with each account (playback.go:
\* 117-140, 151-188), whatever number of accounts there are and whatever
\* calls it interleaves with.
THEOREM AttemptsStayBounded == Spec => []AttemptsBounded
<1>1. Inv => AttemptsBounded
  <2> SUFFICES ASSUME Inv, NEW c \in Calls PROVE made[c] <= 2 * N
    BY DEF AttemptsBounded
  <2>1. made[c] \in Nat /\ tried[c] \in SUBSET Accounts /\ CallOK(c) /\ N \in Nat
    BY RotationAssumption DEF Inv, LocalOK
  <2>2. Cardinality(tried[c]) \in Nat /\ Cardinality(tried[c]) <= N
    BY <2>1, AccountSets
  <2>3. made[c] <= 2 * Cardinality(tried[c])
    BY <2>1, <2>2 DEF CallOK
  <2> QED
    BY <2>1, <2>2, <2>3
<1> QED
  BY <1>1, InvariantHolds, PTL
-----------------------------------------------------------------------------
(* The cache and the document, as long as every write is seen. *)

\* The document is written and the cache is not yet.
Writing == {"storeCached", "evictCached", "clearCache"}

\* What call c has in hand is what the document holds.
Fresh(c) ==
  /\ pc[c] = "fill" => found[c] = doc
  /\ pc[c] \in {"assigned", "storeCached"} => index[c] = doc

SeenOK ==
  /\ \A c, d \in Calls : pc[c] = "idle" \/ pc[d] = "idle" \/ c = d
  /\ \A c \in Calls : Fresh(c)
  /\ (\A c \in Calls : pc[c] \notin Writing) => cached \in {NoAccount, doc}

\* The same for the one call in progress.
Seen(c) ==
  /\ Fresh(c)
  /\ pc[c] \notin Writing => cached \in {NoAccount, doc}

-----------------------------------------------------------------------------
(* The account in the call, as long as nothing but a join fails. *)

\* A call that has an account, and one that has given its account up.
Holding == {"member", "start", "store", "storeCached", "leave"}
Evicting == {"evict", "evictCached", "rotate"}

\* Whoever takes part is the account of the call in progress, and a call that
\* assigns or evicts an account finds nobody in the group call.
Kept(c) ==
  /\ pc[c] = "idle" => index[c] = NoAccount
  /\ pc[c] \notin {"clearDocs", "clearCache"}
  /\ pc[c] \in Holding => joined \subseteq {index[c]}
  /\ pc[c] \in Evicting \cup {"assign", "assigned"} => joined = {}
  /\ pc[c] \in Early /\ index[c] # NoAccount => joined = {}

CalmOK ==
  /\ joined \subseteq bound
  /\ \A a, b \in joined : a = b
  /\ \A c \in Calls : Kept(c)
  /\ (\A c \in Calls : pc[c] # "store") => \A a \in joined : doc = a

Calm(c) ==
  /\ joined \subseteq bound
  /\ \A a, b \in joined : a = b
  /\ Kept(c)
  /\ pc[c] # "store" => \A a \in joined : doc = a

\* The inductive invariant.
Guarded ==
  /\ Inv
  /\ lapse \in Lapses
  /\ lapse # "unseen" => SeenOK
  /\ lapse = "none" => CalmOK

\* What a step of the call in progress owes to the two.
Follows(c) ==
  /\ lapse' # "unseen" /\ Seen(c) => Seen(c)'
  /\ lapse' = "none" /\ Seen(c) /\ Calm(c) => Calm(c)'

Alone(c) == \A d \in Calls \ {c} : pc[d] = "idle" /\ pc'[d] = "idle" /\ index'[d] = index[d]

LEMMA InProgress ==
  ASSUME NEW c \in Calls, Alone(c), SeenOK
  PROVE  Seen(c) /\ (CalmOK => Calm(c))
<1>1. pc[c] \notin Writing => \A d \in Calls : pc[d] \notin Writing
  BY DEF Alone, Writing
<1>2. pc[c] # "store" => \A d \in Calls : pc[d] # "store"
  BY DEF Alone
<1> QED
  BY <1>1, <1>2 DEF SeenOK, Seen, CalmOK, Calm

\* The calls that are idle have nothing in hand.
LEMMA OneFollows ==
  ASSUME NEW c \in Calls, Alone(c), Follows(c), Grows,
         lapse # "unseen" => SeenOK, lapse = "none" => CalmOK
  PROVE  (lapse' # "unseen" => SeenOK') /\ (lapse' = "none" => CalmOK')
<1>1. lapse' # "unseen" => lapse # "unseen" /\ Seen(c) /\ Seen(c)'
  BY InProgress DEF Grows, Follows
<1>2. lapse' = "none" => lapse = "none" /\ CalmOK /\ Calm(c)'
  BY <1>1, InProgress DEF Grows, Follows
<1>3. ASSUME lapse' # "unseen" PROVE SeenOK'
  <2>1. \A d \in Calls : Fresh(d)'
    <3> TAKE d \in Calls
    <3> QED
      BY <1>1, <1>3 DEF Alone, Seen, Fresh
  <2>2. \A d, e \in Calls : pc'[d] = "idle" \/ pc'[e] = "idle" \/ d = e
    BY DEF Alone
  <2> QED
    BY <1>1, <1>3, <2>1, <2>2 DEF SeenOK, Seen
<1>4. ASSUME lapse' = "none" PROVE CalmOK'
  <2>1. ASSUME NEW d \in Calls, d # c PROVE Kept(d)'
    BY <1>2, <1>4, <2>1 DEF Alone, CalmOK, Kept, Holding, Evicting, Early
  <2>2. \A d \in Calls : Kept(d)'
    BY <1>2, <1>4, <2>1 DEF Calm
  <2> QED
    BY <1>2, <1>4, <2>2 DEF Calm, CalmOK
<1> QED
  BY <1>3, <1>4

\* GetAccount returns a: nobody else is in the group call.
LEMMA AccountFollows ==
  ASSUME Inv, NEW c \in Calls, NEW a \in Accounts, Account(c, a), UNCHANGED tgVars,
         lapse' # "unseen" /\ Seen(c) => cached' \in {NoAccount, doc'},
         lapse' = "none" /\ Seen(c) /\ Calm(c) =>
           joined \subseteq {a} /\ \A b \in joined : doc' = b
  PROVE  Follows(c)
<1>1. pc'[c] \in {"leave", "member"} /\ index'[c] = a
  BY DEF Inv, LocalOK, Account, Goto
<1>2. ASSUME lapse' # "unseen", Seen(c) PROVE Seen(c)'
  BY <1>1, <1>2 DEF Seen, Fresh
<1>3. ASSUME lapse' = "none", Seen(c), Calm(c) PROVE Calm(c)'
  BY <1>1, <1>3 DEF Calm, Kept, tgVars, Early, Evicting, Holding
<1> QED
  BY <1>2, <1>3 DEF Follows

\* GetAssistant answers, and nobody is in the group call but the answer: if it
\* is no account, nobody is.
LEMMA AnsweredFollows ==
  ASSUME Inv, NEW c \in Calls, NEW a, Answered(c, a), pc[c] \in Early \ {"idle"},
         UNCHANGED <<doc, tgVars>>,
         lapse' # "unseen" /\ Seen(c) => cached' \in {NoAccount, doc'},
         lapse' = "none" /\ Seen(c) /\ Calm(c) => \A b \in joined : b = a
  PROVE  Follows(c)
<1>1. joined \subseteq Accounts
  BY DEF Inv, SharedOK
<1>2. lapse' = "none" /\ Seen(c) /\ Calm(c) => \A b \in joined : doc' = b
  BY DEF Calm, Early
<1>3. CASE index[c] # NoAccount
  <2>1. index[c] \in Accounts /\ Account(c, index[c])
    BY <1>3 DEF Answered, Inv, LocalOK
  <2>2. lapse' = "none" /\ Seen(c) /\ Calm(c) => joined = {}
    BY <1>3 DEF Calm, Kept
  <2> QED
    BY <1>2, <2>1, <2>2, AccountFollows
<1>4. CASE index[c] = NoAccount /\ a \in Accounts
  <2>1. Account(c, a)
    BY <1>4 DEF Answered
  <2> QED
    BY <1>2, <1>4, <2>1, AccountFollows
<1>5. CASE index[c] = NoAccount /\ a \notin Accounts
  <2>1. pc'[c] = "assign" /\ index'[c] = index[c]
    BY <1>5 DEF Answered, Goto, local, Inv, LocalOK
  <2>2. ASSUME lapse' # "unseen", Seen(c) PROVE Seen(c)'
    BY <2>1, <2>2 DEF Seen, Fresh
  <2>3. ASSUME lapse' = "none", Seen(c), Calm(c) PROVE Calm(c)'
    <3>1. joined = {}
      BY <1>1, <1>5, <2>3
    <3> QED
      BY <2>1, <2>3, <3>1 DEF Calm, Kept, tgVars, Early, Evicting, Holding
  <2> QED
    BY <2>2, <2>3 DEF Follows
<1> QED
  BY <1>3, <1>4, <1>5

\* A call that goes on with the account it has, the group call and its
\* assignment being what they were.
LEMMA GoesOn ==
  ASSUME Inv, NEW c \in Calls, UNCHANGED <<doc, cached, tgVars, index, found>>,
         pc[c] \notin Writing \cup {"store", "clearDocs", "clearCache"},
         pc'[c] \in {"start", "member", "failed", "find", "done", "rotate"},
         pc'[c] \in Holding => pc[c] \in Holding,
         pc'[c] \in Evicting => pc[c] \in Evicting,
         pc'[c] \in Early => pc[c] \in Early
  PROVE  Follows(c)
<1>1. index'[c] = index[c]
  OBVIOUS
<1>2. ASSUME lapse' # "unseen", Seen(c) PROVE Seen(c)'
  BY <1>2 DEF Seen, Fresh
<1>3. ASSUME lapse' = "none", Seen(c), Calm(c) PROVE Calm(c)'
  BY <1>1, <1>3 DEF Calm, Kept, tgVars, Early, Evicting, Holding
<1> QED
  BY <1>2, <1>3 DEF Follows

\* Begin, and the steps of getAccountIndex.
LEMMA AccountKeeps ==
  ASSUME Inv, NEW c \in Calls,
         \/ \E o \in {"play", "stop", "clear"} : Begin(c, o)
         \/ GetCached(c) \/ Find(c) \/ Fill(c) \/ Assign(c) \/ CacheAssigned(c)
  PROVE  Follows(c)
<1> USE DEF Writing
<1>1. ASSUME NEW o \in {"play", "stop", "clear"}, Begin(c, o) PROVE Follows(c)
  <2>1. /\ pc[c] = "idle" /\ index'[c] = index[c] /\ found'[c] = found[c]
        /\ UNCHANGED <<doc, cached, bound, joined>>
        /\ pc'[c] = IF o = "clear" THEN "clearDocs" ELSE "getCached"
    BY <1>1 DEF Begin, At, Goto, dbVars, tgVars, local, Inv, LocalOK
  <2>2. lapse' = "none" => o # "clear"
    BY <1>1 DEF Begin, Mishap, Unseen
  <2>3. ASSUME lapse' # "unseen", Seen(c) PROVE Seen(c)'
    BY <2>1, <2>3 DEF Seen, Fresh
  <2>4. ASSUME lapse' = "none", Seen(c), Calm(c) PROVE Calm(c)'
    BY <2>1, <2>2, <2>4 DEF Calm, Kept, Early, Evicting, Holding
  <2> QED
    BY <2>3, <2>4 DEF Follows
<1>2. CASE GetCached(c)
  <2>1. /\ pc[c] = "getCached" /\ UNCHANGED <<doc, cached, tgVars>>
    BY <1>2 DEF GetCached, At, dbVars
  <2>2. CASE cached # NoAccount /\ Answered(c, cached)
    <3>1. lapse' = "none" /\ Seen(c) /\ Calm(c) => \A b \in joined : b = cached
      BY <2>1, <2>2 DEF Seen, Calm
    <3> QED
      BY <2>1, <2>2, <3>1, AnsweredFollows DEF Early, Seen
  <2>3. CASE Goto(c, "find") /\ UNCHANGED local
    BY <2>1, <2>3, GoesOn DEF Inv, LocalOK, Goto, local, Holding, Evicting, Early
  <2> QED
    BY <1>2, <2>2, <2>3 DEF GetCached
<1>3. CASE Find(c)
  <2>1. /\ pc[c] = "find" /\ UNCHANGED <<doc, cached, tgVars>>
    BY <1>3 DEF Find, At, dbVars
  <2>2. CASE /\ found' = [found EXCEPT ![c] = doc]
             /\ Goto(c, "fill")
             /\ UNCHANGED <<index, tried, again, made, lapse>>
    <3>1. pc'[c] = "fill" /\ found'[c] = doc /\ index'[c] = index[c]
      BY <2>2 DEF Goto, Inv, LocalOK
    <3>2. ASSUME lapse' # "unseen", Seen(c) PROVE Seen(c)'
      BY <2>1, <3>1, <3>2 DEF Seen, Fresh
    <3>3. ASSUME lapse' = "none", Seen(c), Calm(c) PROVE Calm(c)'
      BY <2>1, <3>1, <3>3 DEF Calm, Kept, tgVars, Early, Evicting, Holding
    <3> QED
      BY <3>2, <3>3 DEF Follows
  <2>3. CASE Answered(c, NoAccount) /\ (doc = NoAccount \/ Mishap)
    <3>1. lapse' = "none" => doc = NoAccount
      BY <2>3 DEF Mishap
    <3>2. lapse' = "none" /\ Seen(c) /\ Calm(c) => \A b \in joined : b = NoAccount
      BY <2>1, <3>1 DEF Calm
    <3> QED
      BY <2>1, <2>3, <3>2, AnsweredFollows DEF Early, Seen
  <2> QED
    BY <1>3, <2>2, <2>3 DEF Find
<1>4. CASE Fill(c)
  <2>1. /\ pc[c] = "fill" /\ UNCHANGED <<doc, tgVars>> /\ cached' = found[c]
        /\ Answered(c, found[c])
    BY <1>4 DEF Fill, At
  <2>2. lapse' # "unseen" /\ Seen(c) => cached' \in {NoAccount, doc'}
    BY <2>1 DEF Seen, Fresh
  <2>3. lapse' = "none" /\ Seen(c) /\ Calm(c) => \A b \in joined : b = found[c]
    BY <2>1 DEF Seen, Fresh, Calm
  <2> QED
    BY <2>1, <2>2, <2>3, AnsweredFollows DEF Early
<1>5. CASE Assign(c)
  <2> PICK a \in Accounts :
        \/ /\ index' = [index EXCEPT ![c] = a]
           /\ IF doc = NoAccount
              THEN doc' = a /\ Goto(c, "assigned")
              ELSE Goto(c, "getCached") /\ UNCHANGED doc
           /\ UNCHANGED <<found, tried, again, made, lapse>>
        \/ Account(c, a) /\ Unwritten(a)
    BY <1>5 DEF Assign
  <2>1. pc[c] = "assign" /\ UNCHANGED <<cached, bound, joined>> /\ UNCHANGED tgVars
    BY <1>5 DEF Assign, At, tgVars
  <2>2. CASE Account(c, a) /\ Unwritten(a)
    <3>1. lapse' # "none" /\ (lapse' # "unseen" => doc' = doc)
      BY <2>2 DEF Unwritten, Mishap, Unseen
    <3>2. lapse' # "unseen" /\ Seen(c) => cached' \in {NoAccount, doc'}
      BY <2>1, <3>1 DEF Seen
    <3> QED
      BY <2>1, <2>2, <3>1, <3>2, AccountFollows
  <2>3. CASE /\ index' = [index EXCEPT ![c] = a]
             /\ doc = NoAccount /\ doc' = a /\ Goto(c, "assigned")
    <3>1. pc'[c] = "assigned" /\ index'[c] = a
      BY <2>3 DEF Goto, Inv, LocalOK
    <3>2. ASSUME lapse' # "unseen", Seen(c) PROVE Seen(c)'
      BY <2>1, <2>3, <3>1, <3>2 DEF Seen, Fresh
    <3>3. ASSUME lapse' = "none", Seen(c), Calm(c) PROVE Calm(c)'
      BY <2>1, <2>3, <3>1, <3>3 DEF Calm, Kept, Early, Evicting, Holding
    <3> QED
      BY <3>2, <3>3 DEF Follows
  <2>4. CASE /\ index' = [index EXCEPT ![c] = a]
             /\ Goto(c, "getCached") /\ UNCHANGED doc
    <3>1. pc'[c] = "getCached" /\ index'[c] = a
      BY <2>4 DEF Goto, Inv, LocalOK
    <3>2. ASSUME lapse' # "unseen", Seen(c) PROVE Seen(c)'
      BY <2>1, <2>4, <3>1, <3>2 DEF Seen, Fresh
    <3>3. ASSUME lapse' = "none", Seen(c), Calm(c) PROVE Calm(c)'
      BY <2>1, <2>4, <3>1, <3>3 DEF Calm, Kept, Early, Evicting, Holding
    <3> QED
      BY <3>2, <3>3 DEF Follows
  <2> QED
    BY <2>2, <2>3, <2>4
<1>6. CASE CacheAssigned(c)
  <2>1. /\ pc[c] = "assigned" /\ UNCHANGED <<doc, tgVars>> /\ cached' = index[c]
        /\ Account(c, index[c]) /\ index[c] \in Accounts
    BY <1>6 DEF CacheAssigned, At, Inv, CallOK, Chosen
  <2>2. lapse' # "unseen" /\ Seen(c) => cached' \in {NoAccount, doc'}
    BY <2>1 DEF Seen, Fresh
  <2>3. lapse' = "none" /\ Seen(c) /\ Calm(c) => joined = {}
    BY <2>1 DEF Calm, Kept
  <2> QED
    BY <2>1, <2>2, <2>3, AccountFollows
<1> QED
  BY <1>1, <1>2, <1>3, <1>4, <1>5, <1>6

\* An attempt: who is evicted has left nobody in the group call.
LEMMA AttemptFollows ==
  ASSUME Inv, NEW c \in Calls, pc[c] \in Trying, UNCHANGED dbVars,
         Succeeded(c) \/ \E kind \in Kinds : Failed(c, kind),
         lapse' = "none" /\ Calm(c) =>
           /\ joined' \subseteq bound'
           /\ joined' \subseteq {index[c]}
           /\ pc'[c] = "evict" => joined' = {}
           /\ pc'[c] # "store" => \A a \in joined' : doc = a
  PROVE  Follows(c)
<1>1. /\ pc'[c] \in {"member", "evict", "failed", "store", "done"}
      /\ index'[c] = index[c]
  BY AttemptShape DEF Attempted
<1>2. UNCHANGED <<doc, cached>>
  BY DEF dbVars
<1>3. ASSUME lapse' # "unseen", Seen(c) PROVE Seen(c)'
  BY <1>1, <1>2, <1>3 DEF Seen, Fresh, Trying, Writing
<1>4. ASSUME lapse' = "none", Seen(c), Calm(c) PROVE Calm(c)'
  BY <1>1, <1>2, <1>4 DEF Calm, Kept, Early, Evicting, Holding
<1> QED
  BY <1>3, <1>4 DEF Follows

LEMMA AttemptKeeps ==
  ASSUME Inv, NEW c \in Calls,
         Member(c) \/ Replace(c) \/ Connect(c) \/ Rotate(c)
  PROVE  Follows(c)
<1>1. CASE Member(c)
  <2>1. pc[c] = "member" /\ UNCHANGED <<doc, cached, tgVars>> /\ UNCHANGED dbVars
    BY <1>1 DEF Member, At, dbVars
  <2>2. CASE Goto(c, "start") /\ UNCHANGED <<local, lapse>>
    BY <2>1, <2>2, GoesOn DEF Inv, LocalOK, Goto, local, Holding, Evicting, Early, Writing
  <2>3. CASE Mishap /\ \E kind \in Kinds : Failed(c, kind)
    <3>1. lapse' # "none"
      BY <2>3 DEF Mishap
    <3> QED
      BY <2>1, <2>3, <3>1, AttemptFollows DEF Trying
  <2> QED
    BY <1>1, <2>2, <2>3 DEF Member
<1>2. CASE Replace(c)
  <2>1. pc[c] = "start" /\ UNCHANGED <<dbVars, bound, joined>>
    BY <1>2 DEF Replace, At, tgVars
  <2>2. Succeeded(c) \/ Failed(c, "unknown")
    BY <1>2 DEF Replace
  <2>3. pc'[c] \in {"store", "failed"}
    BY <2>2 DEF Succeeded, Failed, Goto, Inv, LocalOK
  <2>4. Calm(c) => /\ joined' \subseteq bound'
                   /\ joined' \subseteq {index[c]}
                   /\ \A a \in joined' : doc = a
    BY <2>1 DEF Calm, Kept, Holding
  <2> QED
    BY <2>1, <2>2, <2>3, <2>4, AttemptFollows DEF Trying, Kinds
<1>3. CASE Connect(c)
  <2>1. pc[c] = "start" /\ UNCHANGED dbVars /\ index[c] \notin bound
    BY <1>3 DEF Connect, At
  <2>2. Calm(c) => joined = {}
    BY <2>1 DEF Calm, Kept, Holding
  <2>3. CASE /\ bound' = bound \cup {index[c]}
             /\ joined' = joined \cup {index[c]}
             /\ Succeeded(c)
    <3>1. pc'[c] = "store"
      BY <2>3 DEF Succeeded, Goto, Inv, LocalOK
    <3>2. Calm(c) => joined' \subseteq bound' /\ joined' \subseteq {index[c]}
      BY <2>2, <2>3
    <3> QED
      BY <2>1, <2>3, <3>1, <3>2, AttemptFollows DEF Trying
  <2>4. CASE (\E kind \in Kinds : Failed(c, kind)) /\ UNCHANGED <<joined, lapse>>
    <3>1. Calm(c) => joined' = {}
      BY <2>2, <2>4
    <3> QED
      BY <2>1, <2>4, <3>1, AttemptFollows DEF Trying
  <2>5. CASE Mishap /\ Failed(c, "unknown")
    <3>1. lapse' # "none" /\ \E kind \in Kinds : Failed(c, kind)
      BY <2>5 DEF Mishap, Kinds
    <3> QED
      BY <2>1, <3>1, AttemptFollows DEF Trying
  <2> QED
    BY <1>3, <2>3, <2>4, <2>5 DEF Connect
<1>4. CASE Rotate(c)
  <2>1. pc[c] = "rotate" /\ UNCHANGED <<doc, cached, tgVars>>
    BY <1>4 DEF Rotate, At, dbVars
  <2>2. CASE Goto(c, "failed") /\ UNCHANGED local
    BY <2>1, <2>2, GoesOn DEF Inv, LocalOK, Goto, local, Holding, Evicting, Early, Writing
  <2>3. CASE Goto(c, "member")
    <3>1. pc'[c] = "member"
      BY <2>3 DEF Goto, Inv, LocalOK
    <3>2. ASSUME lapse' # "unseen", Seen(c) PROVE Seen(c)'
      BY <2>1, <3>1, <3>2 DEF Seen, Fresh, Writing
    <3>3. ASSUME lapse' = "none", Seen(c), Calm(c) PROVE Calm(c)'
      BY <2>1, <3>1, <3>3 DEF Calm, Kept, tgVars, Early, Evicting, Holding
    <3> QED
      BY <3>2, <3>3 DEF Follows
  <2> QED
    BY <1>4, <2>2, <2>3 DEF Rotate
<1> QED
  BY <1>1, <1>2, <1>3, <1>4

\* The writes to the document and to the cache, the end of a call, and Stop.
LEMMA OtherKeeps ==
  ASSUME Inv, NEW c \in Calls,
         \/ GiveUp(c) \/ Store(c) \/ StoreCached(c) \/ Done(c) \/ Evict(c)
         \/ EvictCached(c) \/ Leave(c) \/ ClearDocs(c) \/ ClearCache(c)
  PROVE  Follows(c)
<1> USE DEF Writing
<1>1. CASE GiveUp(c) \/ Done(c)
  <2>1. /\ pc[c] \in {"failed", "done"} /\ pc'[c] = "idle" /\ index'[c] = NoAccount
        /\ UNCHANGED <<doc, cached, bound, joined>>
    BY <1>1 DEF GiveUp, Done, At, Return, Goto, Inv, LocalOK, dbVars, tgVars
  <2>2. ASSUME lapse' # "unseen", Seen(c) PROVE Seen(c)'
    BY <2>1, <2>2 DEF Seen, Fresh
  <2>3. ASSUME lapse' = "none", Seen(c), Calm(c) PROVE Calm(c)'
    BY <2>1, <2>3 DEF Calm, Kept, Early, Evicting, Holding
  <2> QED
    BY <2>2, <2>3 DEF Follows
<1>2. CASE Store(c)
  <2>1. /\ pc[c] = "store" /\ index'[c] = index[c]
        /\ UNCHANGED <<cached, bound, joined>>
    BY <1>2 DEF Store, At, local, tgVars
  <2>2. CASE doc' = index[c] /\ Goto(c, "storeCached")
    <3>1. pc'[c] = "storeCached"
      BY <2>2 DEF Goto, Inv, LocalOK
    <3>2. ASSUME lapse' # "unseen", Seen(c) PROVE Seen(c)'
      BY <2>1, <2>2, <3>1, <3>2 DEF Seen, Fresh
    <3>3. ASSUME lapse' = "none", Seen(c), Calm(c) PROVE Calm(c)'
      BY <2>1, <2>2, <3>1, <3>3 DEF Calm, Kept, Early, Evicting, Holding
    <3> QED
      BY <3>2, <3>3 DEF Follows
  <2>3. CASE Goto(c, "done") /\ Unwritten(index[c])
    <3>1. pc'[c] = "done" /\ lapse' # "none" /\ (lapse' # "unseen" => doc' = doc)
      BY <2>3 DEF Goto, Inv, LocalOK, Unwritten, Mishap, Unseen
    <3> QED
      BY <2>1, <3>1 DEF Follows, Seen, Fresh
  <2> QED
    BY <1>2, <2>2, <2>3 DEF Store
<1>3. CASE StoreCached(c)
  <2>1. /\ pc[c] = "storeCached" /\ pc'[c] = "done" /\ index'[c] = index[c]
        /\ cached' = index[c] /\ UNCHANGED <<doc, bound, joined>>
    BY <1>3 DEF StoreCached, At, Goto, local, tgVars, Inv, LocalOK
  <2>2. ASSUME lapse' # "unseen", Seen(c) PROVE Seen(c)'
    BY <2>1, <2>2 DEF Seen, Fresh
  <2>3. ASSUME lapse' = "none", Seen(c), Calm(c) PROVE Calm(c)'
    BY <2>1, <2>3 DEF Calm, Kept, Early, Evicting, Holding
  <2> QED
    BY <2>2, <2>3 DEF Follows
<1>4. CASE Evict(c)
  <2>1. /\ pc[c] = "evict" /\ index'[c] = index[c]
        /\ UNCHANGED <<cached, bound, joined>>
    BY <1>4 DEF Evict, At, local, tgVars
  <2>2. CASE doc' = NoAccount /\ Goto(c, "evictCached")
    <3>1. pc'[c] = "evictCached"
      BY <2>2 DEF Goto, Inv, LocalOK
    <3>2. ASSUME lapse' # "unseen", Seen(c) PROVE Seen(c)'
      BY <2>1, <2>2, <3>1, <3>2 DEF Seen, Fresh
    <3>3. ASSUME lapse' = "none", Seen(c), Calm(c) PROVE Calm(c)'
      BY <2>1, <2>2, <3>1, <3>3 DEF Calm, Kept, Early, Evicting, Holding
    <3> QED
      BY <3>2, <3>3 DEF Follows
  <2>3. CASE Goto(c, "rotate") /\ Unwritten(NoAccount)
    <3>1. pc'[c] = "rotate" /\ lapse' # "none" /\ (lapse' # "unseen" => doc' = doc)
      BY <2>3 DEF Goto, Inv, LocalOK, Unwritten, Mishap, Unseen
    <3> QED
      BY <2>1, <3>1 DEF Follows, Seen, Fresh
  <2> QED
    BY <1>4, <2>2, <2>3 DEF Evict
<1>5. CASE EvictCached(c)
  <2>1. /\ pc[c] = "evictCached" /\ pc'[c] = "rotate" /\ index'[c] = index[c]
        /\ cached' = NoAccount /\ UNCHANGED <<doc, bound, joined>>
    BY <1>5 DEF EvictCached, At, Goto, local, tgVars, Inv, LocalOK
  <2>2. ASSUME lapse' # "unseen", Seen(c) PROVE Seen(c)'
    BY <2>1, <2>2 DEF Seen, Fresh
  <2>3. ASSUME lapse' = "none", Seen(c), Calm(c) PROVE Calm(c)'
    BY <2>1, <2>3 DEF Calm, Kept, Early, Evicting, Holding
  <2> QED
    BY <2>2, <2>3 DEF Follows
<1>6. CASE Leave(c)
  <2>1. /\ pc[c] = "leave" /\ pc'[c] = "done" /\ index'[c] = index[c]
        /\ UNCHANGED <<doc, cached>>
    BY <1>6 DEF Leave, At, Goto, local, dbVars, Inv, LocalOK
  <2>2. lapse' = "none" =>
          bound' = bound \ {index[c]} /\ joined' = joined \ {index[c]}
    BY <1>6 DEF Leave, Mishap
  <2>3. ASSUME lapse' # "unseen", Seen(c) PROVE Seen(c)'
    BY <2>1, <2>3 DEF Seen, Fresh
  <2>4. ASSUME lapse' = "none", Seen(c), Calm(c) PROVE Calm(c)'
    <3>1. joined' = {}
      BY <2>1, <2>2, <2>4 DEF Calm, Kept, Holding
    <3> QED
      BY <2>1, <2>4, <3>1 DEF Calm, Kept, Early, Evicting, Holding
  <2> QED
    BY <2>3, <2>4 DEF Follows
<1>7. CASE ClearDocs(c) \/ ClearCache(c)
  <2>1. pc[c] \in {"clearDocs", "clearCache"} /\ index'[c] = index[c]
    BY <1>7 DEF ClearDocs, ClearCache, At, local
  <2>2. ~ Calm(c)
    BY <2>1 DEF Calm, Kept
  <2>3. CASE ClearDocs(c)
    <3>1. \/ pc'[c] = "clearCache"
          \/ pc'[c] = "done" /\ UNCHANGED cached /\ (lapse' # "unseen" => doc' = doc)
      BY <2>3 DEF ClearDocs, Goto, Unwritten, Mishap, Unseen, Inv, LocalOK
    <3>2. pc[c] = "clearDocs"
      BY <2>3 DEF ClearDocs, At
    <3>3. ASSUME lapse' # "unseen", Seen(c) PROVE Seen(c)'
      BY <2>1, <3>1, <3>2, <3>3 DEF Seen, Fresh
    <3> QED
      BY <2>2, <3>3 DEF Follows
  <2>4. CASE ClearCache(c)
    <3>1. pc'[c] = "done" /\ cached' = NoAccount
      BY <2>4 DEF ClearCache, Goto, Inv, LocalOK
    <3> QED
      BY <2>2, <3>1 DEF Follows, Seen, Fresh
  <2> QED
    BY <1>7, <2>3, <2>4
<1> QED
  BY <1>1, <1>2, <1>3, <1>4, <1>5, <1>6, <1>7

\* A step of a call leaves what the other calls have in hand.
OnlyOf(c) == \A d \in Calls \ {c} : pc'[d] = pc[d] /\ index'[d] = index[d]

LEMMA StepIsOnes ==
  ASSUME Inv, NEW c \in Calls, Step(c)
  PROVE  OnlyOf(c) /\ pc[c] # "idle"
<1>1. ASSUME NEW a, Account(c, a) PROVE OnlyOf(c)
  BY <1>1 DEF Account, Goto, Inv, LocalOK, OnlyOf
<1>2. ASSUME NEW a, Answered(c, a) PROVE OnlyOf(c)
  <2>1. CASE \E b : Account(c, b)
    BY <1>1, <2>1
  <2>2. CASE Goto(c, "assign") /\ UNCHANGED local
    BY <2>2 DEF Goto, Inv, LocalOK, OnlyOf, local
  <2> QED
    BY <1>2, <2>1, <2>2 DEF Answered
<1>3. ASSUME Succeeded(c) \/ \E kind \in Kinds : Failed(c, kind) PROVE OnlyOf(c)
  BY <1>3 DEF Succeeded, Failed, Goto, Inv, LocalOK, OnlyOf
<1>4. ASSUME NEW label, Goto(c, label), UNCHANGED index PROVE OnlyOf(c)
  BY <1>4 DEF Goto, Inv, LocalOK, OnlyOf
<1>5. CASE GetCached(c) \/ Find(c) \/ Fill(c)
  BY <1>2, <1>4, <1>5 DEF GetCached, Find, Fill, At, local
<1>6. CASE Assign(c) \/ CacheAssigned(c)
  <2>1. \/ \E a : Account(c, a)
        \/ \E a, label : index' = [index EXCEPT ![c] = a] /\ Goto(c, label)
    BY <1>6 DEF Assign, CacheAssigned
  <2>2. pc[c] # "idle"
    BY <1>6 DEF Assign, CacheAssigned, At
  <2> QED
    BY <1>1, <2>1, <2>2 DEF Goto, Inv, LocalOK, OnlyOf
<1>7. CASE Member(c) \/ Replace(c) \/ Connect(c)
  <2>1. \/ Succeeded(c) \/ \E kind \in Kinds : Failed(c, kind)
        \/ Goto(c, "start") /\ UNCHANGED index
    BY <1>7 DEF Member, Replace, Connect, Kinds, local
  <2>2. pc[c] # "idle"
    BY <1>7 DEF Member, Replace, Connect, At
  <2> QED
    BY <1>3, <1>4, <2>1, <2>2
<1>8. CASE GiveUp(c) \/ Done(c) \/ Rotate(c)
  <2>1. \E a, label : index' \in {index, [index EXCEPT ![c] = a]} /\ Goto(c, label)
    BY <1>8 DEF GiveUp, Done, Return, Rotate, local
  <2>2. pc[c] # "idle"
    BY <1>8 DEF GiveUp, Done, Rotate, At
  <2> QED
    BY <2>1, <2>2 DEF Goto, Inv, LocalOK, OnlyOf
<1>9. CASE \/ Store(c) \/ StoreCached(c) \/ Evict(c) \/ EvictCached(c) \/ Leave(c)
           \/ ClearDocs(c) \/ ClearCache(c)
  <2>1. (\E label : Goto(c, label)) /\ UNCHANGED index
    BY <1>9 DEF Store, StoreCached, Evict, EvictCached, Leave, ClearDocs, ClearCache, local
  <2>2. pc[c] # "idle"
    BY <1>9 DEF Store, StoreCached, Evict, EvictCached, Leave, ClearDocs, ClearCache, At
  <2> QED
    BY <1>4, <2>1, <2>2
<1> QED
  BY <1>5, <1>6, <1>7, <1>8, <1>9 DEF Step

LEMMA InitGuarded == Init => Guarded
<1> SUFFICES ASSUME Init PROVE Guarded
  OBVIOUS
<1>1. SeenOK
  BY DEF Init, SeenOK, Fresh
<1>2. CalmOK
  BY DEF Init, CalmOK, Kept, Holding, Evicting
<1> QED
  BY <1>1, <1>2, InitInv DEF Guarded, Init, Lapses

LEMMA StepGuarded == Guarded /\ [Next]_vars => Guarded'
<1> SUFFICES ASSUME Guarded, [Next]_vars PROVE Guarded'
  OBVIOUS
<1>1. Inv /\ Inv' /\ Grows /\ (lapse \in Lapses)'
  BY StepInv, LapseGrows DEF Guarded, Grows
<1> DEFINE Goal == (lapse' # "unseen" => SeenOK') /\ (lapse' = "none" => CalmOK')
<1>2. ASSUME NEW c \in Calls, NEW o \in Operations, Begin(c, o) PROVE Goal
  <2>1. CASE lapse' = "unseen"
    BY <2>1
  <2>2. CASE lapse' # "unseen"
    <3>1. \A d \in Calls : pc[d] = "idle"
      BY <1>2, <2>2 DEF Begin, At, Unseen
    <3>2. OnlyOf(c)
      BY <1>1, <1>2 DEF Begin, Goto, local, Inv, LocalOK, OnlyOf
    <3>3. Alone(c)
      BY <3>1, <3>2 DEF OnlyOf, Alone
    <3>4. Follows(c)
      BY <1>1, <1>2, AccountKeeps, RotationAssumption
    <3> QED
      BY <1>1, <3>3, <3>4, OneFollows DEF Guarded
  <2> QED
    BY <2>1, <2>2
<1>3. ASSUME NEW c \in Calls, Step(c) PROVE Goal
  <2>1. CASE lapse' = "unseen"
    BY <2>1
  <2>2. CASE lapse' # "unseen"
    <3>1. SeenOK
      BY <1>1, <2>2 DEF Guarded, Grows
    <3>2. OnlyOf(c) /\ pc[c] # "idle"
      BY <1>1, <1>3, StepIsOnes
    <3>3. Alone(c)
      BY <3>1, <3>2 DEF OnlyOf, Alone, SeenOK
    <3>4. Follows(c)
      BY <1>1, <1>3, AccountKeeps, AttemptKeeps, OtherKeeps DEF Step
    <3> QED
      BY <1>1, <3>3, <3>4, OneFollows DEF Guarded
  <2> QED
    BY <2>1, <2>2
<1>4. ASSUME UNCHANGED <<doc, pc, index, found>>, cached' \in {cached, NoAccount}
      PROVE  lapse' # "unseen" => SeenOK'
  BY <1>1, <1>4 DEF Guarded, Grows, SeenOK, Fresh
<1>5. ASSUME Expire PROVE Goal
  <2>1. lapse' # "none"
    BY <1>5 DEF Expire, Mishap
  <2>2. UNCHANGED <<doc, pc, index, found>> /\ cached' = NoAccount
    BY <1>5 DEF Expire, local
  <2>3. lapse' # "unseen" => SeenOK'
    BY <1>4, <2>2
  <2> QED
    BY <2>1, <2>3
<1>6. ASSUME NEW a \in Accounts, Discarded(a) PROVE Goal
  <2>1. lapse' # "none"
    BY <1>6 DEF Discarded, Mishap
  <2>2. UNCHANGED <<doc, pc, index, found>> /\ cached' = cached
    BY <1>6 DEF Discarded, local, dbVars
  <2>3. lapse' # "unseen" => SeenOK'
    BY <1>4, <2>2
  <2> QED
    BY <2>1, <2>3
<1>7. ASSUME UNCHANGED vars PROVE Goal
  <2>1. lapse' = "none" => CalmOK'
    BY <1>7 DEF vars, Guarded, CalmOK, Kept
  <2>2. UNCHANGED <<doc, pc, index, found>> /\ cached' = cached
    BY <1>7 DEF vars
  <2>3. lapse' # "unseen" => SeenOK'
    BY <1>4, <2>2
  <2> QED
    BY <2>1, <2>3
<1> HIDE DEF Goal
<1>8. Goal
  BY <1>2, <1>3, <1>5, <1>6, <1>7 DEF Next
<1> QED
  BY <1>1, <1>8 DEF Guarded, Goal

LEMMA GuardedHolds == Spec => []Guarded
<1> QED
  BY InitGuarded, StepGuarded, PTL DEF Spec

\* When no call is in progress the cache holds what the document holds, unless
\* calls have overlapped or the answer to a write has been lost, whatever else
\* fails, for any number of accounts (db/assistant.go:41, 52, 65, 94).
THEOREM CacheStaysCoherent == Spec => []CoherentUnlessUnseen
<1>1. Guarded => CoherentUnlessUnseen
  BY DEF Guarded, CoherentUnlessUnseen, SeenOK, Quiet, At, Writing
<1> QED
  BY <1>1, GuardedHolds, PTL

\* As long as calls come one at a time and nothing but joins fail, one account
\* at most takes part in the group call, and it is the one Stop will ask for
\* (playback.go:113, call.go:705).
THEOREM OneTakesPart == Spec => []OneWhenCalm
<1>1. Guarded => OneWhenCalm
  BY DEF Guarded, OneWhenCalm, CalmOK, Quiet, At
<1> QED
  BY <1>1, GuardedHolds, PTL
=============================================================================
