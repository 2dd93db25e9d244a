---------------------------- MODULE MembersProofs ----------------------------
(***************************************************************************)
(* Proofs about Membership, for any number of assistants and of calls that *)
(* run at the same time, and about AdminCache, for any number of users and *)
(* handlers and any history of promotions, commands and failures.          *)
(***************************************************************************)
EXTENDS MCMembers, FunctionTheorems, FiniteSetTheorems, TLAPS

\* Telegram's side and the caches.
SharedOK ==
  /\ actual \in [Assistants -> Statuses] /\ alive \subseteq Links
  /\ assigned \in Assistants
  /\ status \in [Assistants -> Statuses \cup {Unknown}]
  /\ invite \in Links \cup {PublicLink, NoLink}
  /\ updates \subseteq [who : Assistants, old : Statuses, new : Statuses]
  /\ trouble \in 0 .. MaxTrouble
  /\ refused \subseteq Links

Flags == public \in BOOLEAN /\ active \in BOOLEAN

LocalOK ==
  /\ pc \in [Threads -> Labels] /\ frame \in [Threads -> Frames]
  /\ was \in [Threads -> BOOLEAN]

Linked ==
  \A t \in Threads : pc[t] \in {"keep", "join", "joined", "keepCustom"} => frame[t].link # NoLink

\* A call that runs has seen its assistant in the chat if it is there now.
Seen == \A t \in Threads : (~ At(t, "idle") /\ Present(Who(t))) => was[t]

\* Where nothing is left but to report success, there is cause to.
Earned ==
  \A t \in Threads :
    \/ pc[t] \in {"joined", "keepCustom", "already", "recovered", "ok"}
    \/ At(t, "note") /\ frame[t].seen \in InChat
    => was[t]

Inv == SharedOK /\ Flags /\ LocalOK /\ Linked /\ Seen /\ Earned

LEMMA InvIsStrong == Inv => TypeOK /\ EnsureSound
  BY DEF Inv, SharedOK, Flags, LocalOK, Linked, Earned, TypeOK, EnsureSound, At
-----------------------------------------------------------------------------
(* A new link is a link, and nobody holds it. *)

LEMMA NewLinkIsFree ==
  ASSUME frame \in [Threads -> Frames]
  PROVE  NewLink \in Links /\ NewLink \notin Held
<1> DEFINE Hold == {frame[t].link : t \in Threads}
           f == [t \in Threads |-> frame[t].link]
<1>1. f \in Surjection(Threads, Hold)
  BY DEF Surjection
<1>2. IsFiniteSet(Hold) /\ Cardinality(Hold) <= Cardinality(Threads)
  <2> HIDE DEF f, Hold
  <2> QED
    BY <1>1, FS_Surjection, MembershipAssumption
<1> HIDE DEF f, Hold
<1>3. IsFiniteSet(Hold \cup {invite}) /\ Cardinality(Hold \cup {invite}) <= Cardinality(Threads) + 1
  <2>1. Cardinality(Hold) \in Nat /\ Cardinality(Threads) \in Nat
    BY <1>2, FS_CardinalityType, MembershipAssumption
  <2>2. Cardinality(Hold \cup {invite}) \in {Cardinality(Hold), Cardinality(Hold) + 1}
    BY <1>2, FS_AddElement
  <2>3. IsFiniteSet(Hold \cup {invite})
    BY <1>2, FS_AddElement
  <2> QED
    BY <1>2, <2>1, <2>2, <2>3
<1>4. \E link \in Links : link \notin Held
  <2> SUFFICES ASSUME Links \subseteq Held
               PROVE  FALSE
    OBVIOUS
  <2>1. Held = Hold \cup {invite}
    BY DEF Held, Hold
  <2>2. Links \in SUBSET (Hold \cup {invite})
    BY <2>1
  <2>3. Cardinality(Links) <= Cardinality(Hold \cup {invite})
    BY <1>3, <2>2, FS_Subset
  <2>4. /\ Cardinality(Links) \in Nat /\ Cardinality(Threads) \in Nat
        /\ Cardinality(Hold \cup {invite}) \in Nat
    BY <1>3, FS_CardinalityType, MembershipAssumption
  <2> QED
    BY <1>3, <2>3, <2>4, MembershipAssumption
<1> QED
  BY <1>4 DEF NewLink

LEMMA FrameOK ==
  ASSUME NEW a \in Assistants
  PROVE  Frame(a) \in Frames /\ Frame(a).who = a
  BY DEF Frame, Frames, Statuses
-----------------------------------------------------------------------------
LEMMA InitInv == Init => Inv
<1> SUFFICES ASSUME Init
             PROVE  Inv
  OBVIOUS
<1>1. assigned \in Assistants
  BY MembershipAssumption DEF Init
<1>2. SharedOK /\ Flags
  <2>1. actual \in [Assistants -> Statuses]
    BY DEF Init, Statuses
  <2>2. status \in [Assistants -> Statuses \cup {Unknown}]
    BY DEF Init
  <2>3. trouble \in 0 .. MaxTrouble
    BY MembershipAssumption DEF Init
  <2>4. alive \subseteq Links /\ refused \subseteq Links /\ updates = {}
    BY DEF Init
  <2>5. invite = NoLink /\ public = FALSE /\ active = FALSE
    BY DEF Init
  <2>6. updates \subseteq [who : Assistants, old : Statuses, new : Statuses]
    BY <2>4
  <2> QED
    BY <1>1, <2>1, <2>2, <2>3, <2>4, <2>5, <2>6 DEF SharedOK, Flags
<1>3. LocalOK
  <2>1. pc \in [Threads -> Labels]
    BY DEF Init, Labels
  <2>2. frame \in [Threads -> Frames]
    BY <1>1, FrameOK DEF Init
  <2>3. was \in [Threads -> BOOLEAN]
    BY Zenon DEF Init
  <2> QED
    BY <2>1, <2>2, <2>3 DEF LocalOK
<1>4. \A t \in Threads : pc[t] = "idle"
  BY DEF Init
<1>5. Linked /\ Seen /\ Earned
  BY <1>4 DEF Linked, Seen, Earned, At
<1> QED
  BY <1>2, <1>3, <1>5 DEF Inv

(* A call takes its next step without anybody's status changing. *)

LEMMA CallStep ==
  ASSUME Inv, NEW t \in Threads, NEW label \in Labels, NEW f \in Frames, NEW b \in BOOLEAN,
         pc' = [pc EXCEPT ![t] = label], frame' = [frame EXCEPT ![t] = f],
         was' = [was EXCEPT ![t] = b], UNCHANGED actual,
         label \in {"keep", "join", "joined", "keepCustom"} => f.link # NoLink,
         (label # "idle" /\ actual[f.who] \in InChat) => b,
         label \in {"joined", "keepCustom", "already", "recovered", "ok"} => b,
         (label = "note" /\ f.seen \in InChat) => b
  PROVE  LocalOK' /\ Linked' /\ Seen' /\ Earned'
<1> USE DEF Inv, LocalOK
<1>1. LocalOK'
  OBVIOUS
<1>2. \A u \in Threads : u # t => pc'[u] = pc[u] /\ frame'[u] = frame[u] /\ was'[u] = was[u]
  OBVIOUS
<1>3. pc'[t] = label /\ frame'[t] = f /\ was'[t] = b
  OBVIOUS
<1>4. Linked'
  BY <1>2, <1>3 DEF Linked
<1>5. Seen'
  BY <1>2, <1>3 DEF Seen, At, Present, Who
<1>6. Earned'
  BY <1>2, <1>3 DEF Earned, At
<1> QED
  BY <1>1, <1>4, <1>5, <1>6

(* Nobody's call moves, but an assistant's status changes. *)

LEMMA StatusStep ==
  ASSUME Inv, NEW a \in Assistants, NEW st \in Statuses, Becomes(a, st)
  PROVE  /\ actual' \in [Assistants -> Statuses]
         /\ updates' \subseteq [who : Assistants, old : Statuses, new : Statuses]
         /\ was' \in [Threads -> BOOLEAN]
         /\ \A t \in Threads : was[t] => was'[t]
         /\ \A t \in Threads : (Who(t) = a /\ st \in InChat) => was'[t]
         /\ \A b \in Assistants : b # a => actual'[b] = actual[b]
         /\ actual'[a] = st
<1> USE DEF Inv, SharedOK, LocalOK, Becomes
<1>1. actual' \in [Assistants -> Statuses] /\ actual'[a] = st
  OBVIOUS
<1>2. \A b \in Assistants : b # a => actual'[b] = actual[b]
  OBVIOUS
<1>3. actual[a] \in Statuses
  OBVIOUS
<1>4. updates' \subseteq [who : Assistants, old : Statuses, new : Statuses]
  BY <1>3
<1>5. was' \in [Threads -> BOOLEAN]
  BY Zenon
<1>6. \A t \in Threads : was'[t] = (was[t] \/ (Who(t) = a /\ st \in InChat))
  BY Zenon
<1> QED
  BY <1>1, <1>2, <1>4, <1>5, <1>6

LEMMA JoiningStep ==
  ASSUME Inv, NEW t \in Threads, NEW label \in Labels, NEW st \in Statuses,
         Becomes(Who(t), st), pc' = [pc EXCEPT ![t] = label], UNCHANGED frame,
         ~ At(t, "idle"),
         label \notin {"keep", "join", "keepCustom", "note"},
         label = "joined" => frame[t].link # NoLink,
         label \in {"joined", "already", "recovered", "ok"} => st \in InChat
  PROVE  LocalOK' /\ Linked' /\ Seen' /\ Earned'
<1> USE DEF Inv, LocalOK
<1>0. Who(t) \in Assistants
  BY DEF Who, Frames
<1>1. /\ was' \in [Threads -> BOOLEAN]
      /\ \A u \in Threads : was[u] => was'[u]
      /\ \A u \in Threads : (Who(u) = Who(t) /\ st \in InChat) => was'[u]
      /\ \A b \in Assistants : b # Who(t) => actual'[b] = actual[b]
      /\ actual'[Who(t)] = st
  BY <1>0, StatusStep
<1>2. pc'[t] = label /\ \A u \in Threads : u # t => pc'[u] = pc[u]
  OBVIOUS
<1>3. LocalOK'
  BY <1>1
<1>4. Linked'
  BY <1>2 DEF Linked
<1>5. Seen'
  <2> SUFFICES ASSUME NEW u \in Threads, pc'[u] # "idle", actual'[frame[u].who] \in InChat
               PROVE  was'[u]
    BY DEF Seen, At, Present, Who
  <2>1. CASE frame[u].who = Who(t)
    BY <1>1, <2>1 DEF Who
  <2>2. CASE frame[u].who # Who(t)
    <3>1. frame[u].who \in Assistants /\ u # t
      BY <2>2 DEF Frames, Who
    <3>2. actual[frame[u].who] \in InChat /\ pc[u] # "idle"
      BY <1>1, <1>2, <2>2, <3>1
    <3> QED
      BY <1>1, <3>2 DEF Seen, At, Present, Who
  <2> QED
    BY <2>1, <2>2
<1>6. Earned'
  <2> SUFFICES ASSUME NEW u \in Threads,
                      \/ pc'[u] \in {"joined", "keepCustom", "already", "recovered", "ok"}
                      \/ pc'[u] = "note" /\ frame[u].seen \in InChat
               PROVE  was'[u]
    BY DEF Earned, At
  <2>1. CASE u = t
    BY <1>1, <1>2, <2>1
  <2>2. CASE u # t
    BY <1>1, <1>2, <2>2 DEF Earned, At
  <2> QED
    BY <2>1, <2>2
<1> QED
  BY <1>3, <1>4, <1>5, <1>6
-----------------------------------------------------------------------------
(* The steps of a call. *)

\* What a step that leaves the statuses alone needs to be a CallStep: the next
\* label, the next frame, and what the call has seen.
LEMMA ContinueStep ==
  ASSUME Inv, NEW t \in Threads, NEW label \in Labels, Continue(t, label),
         UNCHANGED <<actual, was>>, ~ At(t, "idle"),
         label \notin {"keep", "join", "joined", "keepCustom", "note"},
         label \in {"already", "recovered", "ok"} => was[t]
  PROVE  LocalOK' /\ Linked' /\ Seen' /\ Earned'
<1> USE DEF Inv, LocalOK
<1>1. frame' = [frame EXCEPT ![t] = frame[t]] /\ frame[t] \in Frames
  BY DEF Continue
<1>2. was' = [was EXCEPT ![t] = was[t]] /\ was[t] \in BOOLEAN
  OBVIOUS
<1>3. actual[frame[t].who] \in InChat => was[t]
  BY DEF Seen, At, Present, Who
<1>4. pc' = [pc EXCEPT ![t] = label]
  BY DEF Continue, Goto
<1> QED
  BY <1>1, <1>2, <1>3, <1>4, CallStep

LEMMA StartStep ==
  ASSUME Inv, NEW t \in Threads, NEW f \in Frames, Starts(t, f, "check")
  PROVE  LocalOK' /\ Linked' /\ Seen' /\ Earned'
<1>1. /\ pc' = [pc EXCEPT ![t] = "check"] /\ frame' = [frame EXCEPT ![t] = f]
      /\ was' = [was EXCEPT ![t] = Present(f.who)] /\ actual' = actual
  BY DEF Starts, Goto
<1>2. "check" \in Labels /\ Present(f.who) \in BOOLEAN
  BY DEF Labels, Present
<1>3. actual[f.who] \in InChat => Present(f.who)
  BY DEF Present
<1> QED
  BY <1>1, <1>2, <1>3, CallStep

LEMMA BeginEnsureStep ==
  ASSUME Inv, NEW t \in Threads, NEW a \in Assistants, BeginEnsure(t, a)
  PROVE  Inv'
<1>1. LocalOK' /\ Linked' /\ Seen' /\ Earned'
  BY FrameOK, StartStep DEF BeginEnsure
<1>2. SharedOK'
  BY MembershipAssumption DEF Inv, SharedOK, BeginEnsure, Starts, caches, Calm, Trouble
<1>3. active' \in BOOLEAN
  BY Zenon DEF Inv, Flags, BeginEnsure
<1>4. Flags'
  BY <1>3 DEF Inv, Flags, BeginEnsure, Starts
<1> QED
  BY <1>1, <1>2, <1>4 DEF Inv

LEMMA BeginAllStep ==
  ASSUME Inv, NEW t \in Threads, BeginAll(t)
  PROVE  Inv'
<1>1. PICK a \in Assistants : Starts(t, [Frame(a) EXCEPT !.todo = Assistants \ {a}], "check")
  BY DEF BeginAll
<1>2. [Frame(a) EXCEPT !.todo = Assistants \ {a}] \in Frames
  BY FrameOK DEF Frames
<1>3. LocalOK' /\ Linked' /\ Seen' /\ Earned'
  BY <1>1, <1>2, StartStep
<1>4. SharedOK' /\ Flags'
  BY <1>1, MembershipAssumption DEF Inv, SharedOK, Flags, BeginAll, Starts, caches, Trouble
<1> QED
  BY <1>3, <1>4 DEF Inv

CustomFrame(link) == [Frame(assigned) EXCEPT !.link = link, !.custom = TRUE]

LEMMA BeginCustomStep ==
  ASSUME Inv, NEW t \in Threads, NEW link \in {invite, NewLink, PublicLink} \ {NoLink},
         BeginCustom(t, link)
  PROVE  Inv'
<1>1. NewLink \in Links
  BY NewLinkIsFree DEF Inv, LocalOK
<1>2. link \in Links \cup {PublicLink} /\ link # NoLink
  BY <1>1 DEF Inv, SharedOK
<1>3. CustomFrame(link) \in Frames /\ CustomFrame(link).link = link /\ CustomFrame(link).who = assigned
  <2>1. assigned \in Assistants /\ Frame(assigned) \in Frames /\ Frame(assigned).who = assigned
    BY FrameOK DEF Inv, SharedOK
  <2> QED
    BY <1>2, <2>1 DEF CustomFrame, Frames
<1>4. /\ pc' = [pc EXCEPT ![t] = "join"] /\ frame' = [frame EXCEPT ![t] = CustomFrame(link)]
      /\ was' = [was EXCEPT ![t] = Present(assigned)] /\ actual' = actual
  BY DEF BeginCustom, Goto, CustomFrame
<1>5. "join" \in Labels /\ Present(assigned) \in BOOLEAN /\ (actual[assigned] \in InChat => Present(assigned))
  BY DEF Labels, Present
<1>6. LocalOK' /\ Linked' /\ Seen' /\ Earned'
  BY <1>2, <1>3, <1>4, <1>5, CallStep
<1>7. SharedOK' /\ Flags'
  BY <1>1, <1>2, MembershipAssumption DEF Inv, SharedOK, Flags, BeginCustom, Issue, caches, Trouble
<1> QED
  BY <1>6, <1>7 DEF Inv

LEMMA ReturnStep ==
  ASSUME Inv, NEW t \in Threads, Return(t)
  PROVE  Inv'
<1>1. SharedOK' /\ Flags'
  BY MembershipAssumption DEF Inv, SharedOK, Flags, Return, Starts, caches, Calm
<1>2. CASE frame[t].todo = {}
  <2>1. /\ pc' = [pc EXCEPT ![t] = "idle"] /\ frame' = [frame EXCEPT ![t] = Frame(assigned)]
        /\ was' = [was EXCEPT ![t] = FALSE] /\ actual' = actual
    BY <1>2 DEF Return, Goto
  <2>2. Frame(assigned) \in Frames /\ "idle" \in Labels
    BY FrameOK DEF Inv, SharedOK, Labels
  <2>3. LocalOK' /\ Linked' /\ Seen' /\ Earned'
    BY <2>1, <2>2, CallStep
  <2> QED
    BY <1>1, <2>3 DEF Inv
<1>3. CASE frame[t].todo # {}
  <2>1. PICK a \in frame[t].todo :
          Starts(t, [Frame(a) EXCEPT !.todo = frame[t].todo \ {a}], "check")
    BY <1>3 DEF Return
  <2>2. a \in Assistants /\ frame[t].todo \ {a} \in SUBSET Assistants
    BY DEF Inv, LocalOK, Frames
  <2>3. [Frame(a) EXCEPT !.todo = frame[t].todo \ {a}] \in Frames
    BY <2>2, FrameOK DEF Frames
  <2>4. LocalOK' /\ Linked' /\ Seen' /\ Earned'
    BY <2>1, <2>3, StartStep
  <2> QED
    BY <1>1, <2>4 DEF Inv
<1> QED
  BY <1>2, <1>3

LEMMA DecideStep ==
  ASSUME Inv, NEW t \in Threads, NEW st \in Statuses, NEW b \in BOOLEAN, Decide(t, st),
         was' = [was EXCEPT ![t] = b], UNCHANGED actual, ~ At(t, "idle"),
         (was[t] \/ st \in InChat) => b
  PROVE  LocalOK' /\ Linked' /\ Seen' /\ Earned'
<1> USE DEF Inv, LocalOK
<1>1. frame[t] \in Frames /\ (actual[frame[t].who] \in InChat => b)
  BY DEF Seen, At, Present, Who
<1>2. CASE st \in {"member", "admin"}
  <2>1. pc' = [pc EXCEPT ![t] = "ok"] /\ frame' = [frame EXCEPT ![t] = frame[t]] /\ b
    BY <1>2 DEF Decide, Continue, Goto, InChat
  <2>2. "ok" \in Labels
    BY DEF Labels
  <2> QED
    BY <1>1, <2>1, <2>2, CallStep
<1>3. CASE st = "left"
  <2>1. pc' = [pc EXCEPT ![t] = "resolve"] /\ frame' = [frame EXCEPT ![t] = frame[t]]
    BY <1>3 DEF Decide, Continue, Goto
  <2>2. "resolve" \in Labels
    BY DEF Labels
  <2> QED
    BY <1>1, <2>1, <2>2, CallStep
<1>4. CASE st \notin {"member", "admin", "left"}
  <2> DEFINE f == [frame[t] EXCEPT !.seen = st, !.recovering = TRUE]
  <2>1. pc' = [pc EXCEPT ![t] = "recover"] /\ frame' = [frame EXCEPT ![t] = f]
    BY <1>4 DEF Decide, Goto
  <2>2. f \in Frames /\ f.who = frame[t].who /\ "recover" \in Labels
    BY DEF Frames, Labels
  <2> HIDE DEF f
  <2> QED
    BY <1>1, <2>1, <2>2, CallStep
<1> QED
  BY <1>2, <1>3, <1>4

LEMMA CheckStep ==
  ASSUME Inv, NEW t \in Threads, Check(t)
  PROVE  Inv'
<1>1. SharedOK' /\ Flags'
  BY DEF Inv, SharedOK, Flags, Check, caches, Calm
<1>2. ~ At(t, "idle")
  BY DEF Check, At
<1>3. CASE status[Who(t)] = Unknown
  <2>1. Continue(t, "ask") /\ UNCHANGED <<actual, was>> /\ "ask" \in Labels
    BY <1>3 DEF Check, Labels
  <2> QED
    BY <1>1, <1>2, <2>1, ContinueStep DEF Inv
<1>4. CASE status[Who(t)] # Unknown
  <2> DEFINE b == was[t] \/ status[Who(t)] \in InChat
  <2>1. was' = [was EXCEPT ![t] = b] /\ Decide(t, status[Who(t)]) /\ actual' = actual
    BY <1>4 DEF Check
  <2>2. status[Who(t)] \in Statuses
    BY <1>4 DEF Inv, SharedOK, LocalOK, Who, Frames
  <2>3. b \in BOOLEAN
    BY DEF Inv, LocalOK
  <2> HIDE DEF b
  <2>4. (was[t] \/ status[Who(t)] \in InChat) => b
    BY DEF b
  <2>5. LocalOK' /\ Linked' /\ Seen' /\ Earned'
    BY <1>2, <2>1, <2>2, <2>3, <2>4, DecideStep
  <2> QED
    BY <1>1, <2>5 DEF Inv
<1> QED
  BY <1>3, <1>4

LEMMA AskStep ==
  ASSUME Inv, NEW t \in Threads, Ask(t)
  PROVE  Inv'
<1>1. SharedOK' /\ Flags'
  BY MembershipAssumption DEF Inv, SharedOK, Flags, Ask, telegram, caches, Calm, Fails, Trouble
<1>2. ~ At(t, "idle") /\ UNCHANGED <<actual, was>>
  BY DEF Ask, At, telegram
<1>3. CASE Fail(t)
  <2>1. "failed" \in Labels
    BY DEF Labels
  <2> QED
    BY <1>1, <1>2, <1>3, <2>1, ContinueStep DEF Fail, Inv
<1>4. CASE /\ frame' = [frame EXCEPT ![t].seen = actual[Who(t)]]
           /\ Goto(t, "note")
  <2> DEFINE f == [frame[t] EXCEPT !.seen = actual[Who(t)]]
  <2>1. /\ pc' = [pc EXCEPT ![t] = "note"] /\ frame' = [frame EXCEPT ![t] = f]
        /\ was' = [was EXCEPT ![t] = was[t]] /\ was[t] \in BOOLEAN
    BY <1>2, <1>4 DEF Goto, Inv, LocalOK
  <2>2. f \in Frames /\ f.who = Who(t) /\ f.seen = actual[Who(t)] /\ "note" \in Labels
    BY DEF Frames, Labels, Who, Inv, LocalOK, SharedOK
  <2>3. actual[Who(t)] \in InChat => was[t]
    BY <1>2 DEF Inv, Seen, Present
  <2> HIDE DEF f
  <2>4. LocalOK' /\ Linked' /\ Seen' /\ Earned'
    BY <1>2, <2>1, <2>2, <2>3, CallStep
  <2> QED
    BY <1>1, <2>4 DEF Inv
<1> QED
  BY <1>3, <1>4 DEF Ask

LEMMA NoteStep ==
  ASSUME Inv, NEW t \in Threads, Note(t)
  PROVE  Inv'
<1>1. Who(t) \in Assistants /\ frame[t].seen \in Statuses
  BY DEF Inv, LocalOK, Who, Frames
<1>2. SharedOK' /\ Flags'
  BY <1>1 DEF Inv, SharedOK, Flags, Note, telegram, Calm
<1>3. /\ was' = [was EXCEPT ![t] = was[t]] /\ was[t] \in BOOLEAN
      /\ actual' = actual /\ Decide(t, frame[t].seen) /\ ~ At(t, "idle")
  BY DEF Note, telegram, Inv, LocalOK, At
<1>4. frame[t].seen \in InChat => was[t]
  BY DEF Inv, Earned, Note
<1>5. LocalOK' /\ Linked' /\ Seen' /\ Earned'
  BY <1>1, <1>3, <1>4, DecideStep
<1> QED
  BY <1>2, <1>5 DEF Inv

LEMMA RecoverStep ==
  ASSUME Inv, NEW t \in Threads, Recover(t)
  PROVE  Inv'
<1>1. Who(t) \in Assistants /\ ~ At(t, "idle") /\ {"resolve", "failed"} \subseteq Labels
  BY DEF Inv, LocalOK, Who, Frames, Recover, At, Labels
<1>2. Flags'
  BY DEF Inv, Flags, Recover
<1>3. CASE \E st \in Statuses : Becomes(Who(t), st) /\ Continue(t, "resolve") /\ Calm
  <2>1. PICK st \in Statuses : Becomes(Who(t), st) /\ Continue(t, "resolve") /\ Calm
    BY <1>3
  <2>2. LocalOK' /\ Linked' /\ Seen' /\ Earned'
    BY <1>1, <2>1, JoiningStep DEF Continue, Goto
  <2>3. /\ actual' \in [Assistants -> Statuses]
        /\ updates' \subseteq [who : Assistants, old : Statuses, new : Statuses]
    BY <1>1, <2>1, StatusStep
  <2>4. SharedOK'
    BY <2>1, <2>3 DEF Inv, SharedOK, Recover, caches, Calm
  <2> QED
    BY <1>2, <2>2, <2>4 DEF Inv
<1>4. CASE /\ Continue(t, "resolve") \/ Fail(t)
           /\ trouble' \in 0 .. MaxTrouble
           /\ UNCHANGED <<actual, updates, was>>
  <2>1. LocalOK' /\ Linked' /\ Seen' /\ Earned'
    BY <1>1, <1>4, ContinueStep DEF Fail
  <2>2. SharedOK'
    BY <1>4 DEF Inv, SharedOK, Recover, caches
  <2> QED
    BY <1>2, <2>1, <2>2 DEF Inv
<1>5. {"left", "member"} \subseteq Statuses
  BY DEF Statuses
<1>6. Calm => trouble' \in 0 .. MaxTrouble
  BY DEF Inv, SharedOK, Calm
<1>7. Fails("rights") => trouble' \in 0 .. MaxTrouble
  BY MembershipAssumption DEF Inv, SharedOK, Fails, Trouble
<1> QED
  BY <1>3, <1>4, <1>5, <1>6, <1>7 DEF Recover

LEMMA ResolveStep ==
  ASSUME Inv, NEW t \in Threads, Resolve(t)
  PROVE  Inv'
<1> DEFINE f == [frame[t] EXCEPT !.link = invite]
           label == IF invite = NoLink THEN "create" ELSE "join"
<1>1. SharedOK' /\ Flags'
  BY DEF Inv, SharedOK, Flags, Resolve, telegram, caches, Calm
<1>2. f \in Frames /\ f.who = Who(t) /\ f.link = invite
  BY DEF Frames, Who, Inv, LocalOK, SharedOK
<1>3. label \in Labels /\ label \in {"create", "join"} /\ (label = "join" => invite # NoLink)
  BY DEF Labels
<1>4. /\ pc' = [pc EXCEPT ![t] = label] /\ frame' = [frame EXCEPT ![t] = f]
      /\ was' = [was EXCEPT ![t] = was[t]] /\ was[t] \in BOOLEAN /\ actual' = actual
  BY DEF Resolve, Goto, telegram, Inv, LocalOK
<1>5. actual[Who(t)] \in InChat => was[t]
  BY DEF Inv, Seen, Present, Resolve, At
<1> HIDE DEF f, label
<1>6. LocalOK' /\ Linked' /\ Seen' /\ Earned'
  BY <1>2, <1>3, <1>4, <1>5, CallStep
<1> QED
  BY <1>1, <1>6 DEF Inv

LEMMA CreateStep ==
  ASSUME Inv, NEW t \in Threads, Create(t)
  PROVE  Inv'
<1>1. NewLink \in Links
  BY NewLinkIsFree DEF Inv, LocalOK
<1>2. SharedOK'
  BY <1>1, MembershipAssumption DEF Inv, SharedOK, Create, Issue, caches, Calm, Fails, Trouble
<1>3. Flags' /\ UNCHANGED <<actual, was>> /\ ~ At(t, "idle")
  BY DEF Inv, Flags, Create, At
<1>4. CASE \E label \in {"expired", "invalid", "failed"} : Continue(t, label)
  <2>1. PICK label \in {"expired", "invalid", "failed"} : Continue(t, label)
    BY <1>4
  <2>2. label \in Labels
    BY DEF Labels
  <2> QED
    BY <1>2, <1>3, <2>1, <2>2, ContinueStep DEF Inv
<1>5. CASE frame' = [frame EXCEPT ![t].link = NewLink] /\ Goto(t, "keep")
  <2> DEFINE f == [frame[t] EXCEPT !.link = NewLink]
  <2>1. f \in Frames /\ f.who = Who(t) /\ f.link # NoLink /\ "keep" \in Labels
    BY <1>1, MembershipAssumption DEF Frames, Who, Labels, Inv, LocalOK
  <2>2. /\ pc' = [pc EXCEPT ![t] = "keep"] /\ frame' = [frame EXCEPT ![t] = f]
        /\ was' = [was EXCEPT ![t] = was[t]] /\ was[t] \in BOOLEAN
    BY <1>3, <1>5 DEF Goto, Inv, LocalOK
  <2>3. actual[Who(t)] \in InChat => was[t]
    BY <1>3 DEF Inv, Seen, Present
  <2> HIDE DEF f
  <2>4. LocalOK' /\ Linked' /\ Seen' /\ Earned'
    BY <1>3, <2>1, <2>2, <2>3, CallStep
  <2> QED
    BY <1>2, <1>3, <2>4 DEF Inv
<1>6. frame[t].error \in {"expired", "invalid"}
  BY DEF Inv, LocalOK, Frames
<1> QED
  BY <1>4, <1>5, <1>6 DEF Create, Fail

LEMMA KeepStep ==
  ASSUME Inv, NEW t \in Threads, Keep(t)
  PROVE  Inv'
<1>1. frame[t].link \in Links \cup {PublicLink} /\ frame[t].link # NoLink /\ frame[t] \in Frames
  BY DEF Inv, Linked, LocalOK, Frames, Keep, At
<1>2. SharedOK' /\ Flags'
  BY <1>1 DEF Inv, SharedOK, Flags, Keep, telegram, Calm
<1>3. /\ pc' = [pc EXCEPT ![t] = "join"] /\ frame' = [frame EXCEPT ![t] = frame[t]]
      /\ was' = [was EXCEPT ![t] = was[t]] /\ was[t] \in BOOLEAN /\ actual' = actual
      /\ "join" \in Labels
  BY DEF Keep, Goto, telegram, Inv, LocalOK, Labels
<1>4. actual[frame[t].who] \in InChat => was[t]
  BY DEF Inv, Seen, Present, Keep, At, Who
<1>5. LocalOK' /\ Linked' /\ Seen' /\ Earned'
  BY <1>1, <1>3, <1>4, CallStep
<1> QED
  BY <1>2, <1>5 DEF Inv

LEMMA RefuseStep ==
  ASSUME Inv, NEW t \in Threads, NEW error \in {"expired", "invalid"}, Refuse(t, error),
         UNCHANGED <<actual, was>>, ~ At(t, "idle")
  PROVE  LocalOK' /\ Linked' /\ Seen' /\ Earned' /\ refused' \subseteq Links
<1> DEFINE f == [frame[t] EXCEPT !.error = error]
           label == IF frame[t].again \/ frame[t].custom THEN error ELSE "drop"
<1>1. f \in Frames /\ f.who = Who(t)
  BY DEF Frames, Who, Inv, LocalOK
<1>2. label \in Labels /\ label \in {"expired", "invalid", "drop"}
  BY DEF Labels
<1>3. /\ pc' = [pc EXCEPT ![t] = label] /\ frame' = [frame EXCEPT ![t] = f]
      /\ was' = [was EXCEPT ![t] = was[t]] /\ was[t] \in BOOLEAN /\ actual' = actual
  BY DEF Refuse, Goto, Inv, LocalOK
<1>4. actual[Who(t)] \in InChat => was[t]
  BY DEF Inv, Seen, Present
<1>5. refused' \subseteq Links
  BY DEF Refuse, Inv, SharedOK
<1> HIDE DEF f, label
<1>6. LocalOK' /\ Linked' /\ Seen' /\ Earned'
  BY <1>1, <1>2, <1>3, <1>4, CallStep
<1> QED
  BY <1>5, <1>6

LEMMA JoinStep ==
  ASSUME Inv, NEW t \in Threads, Join(t)
  PROVE  Inv'
<1>1. /\ Who(t) \in Assistants /\ ~ At(t, "idle") /\ frame[t].link # NoLink
      /\ {"joined", "approve", "already", "private", "failed"} \subseteq Labels
  BY DEF Inv, LocalOK, Linked, Who, Frames, Join, At, Labels
<1>2. Flags'
  BY DEF Inv, Flags, Join
<1>3. Calm => trouble' \in 0 .. MaxTrouble
  BY DEF Inv, SharedOK, Calm
<1>4. \A fault \in {"request", "join"} : Fails(fault) => trouble' \in 0 .. MaxTrouble
  BY MembershipAssumption DEF Inv, SharedOK, Fails, Trouble
<1>5. CASE /\ Becomes(Who(t), "member") /\ Continue(t, "joined") /\ Calm
           /\ refused' = refused \ {frame[t].link}
  <2>1. "member" \in Statuses /\ "member" \in InChat
    BY DEF Statuses, InChat
  <2>2. LocalOK' /\ Linked' /\ Seen' /\ Earned'
    BY <1>1, <1>5, <2>1, JoiningStep DEF Continue, Goto
  <2>3. /\ actual' \in [Assistants -> Statuses]
        /\ updates' \subseteq [who : Assistants, old : Statuses, new : Statuses]
    BY <1>1, <1>5, <2>1, StatusStep
  <2>4. SharedOK'
    BY <1>3, <1>5, <2>3 DEF Inv, SharedOK, Join, caches
  <2> QED
    BY <1>2, <2>2, <2>4 DEF Inv
<1>6. CASE /\ \E label \in {"approve", "private", "failed"} : Continue(t, label)
           /\ trouble' \in 0 .. MaxTrouble
           /\ UNCHANGED <<actual, updates, was, refused>>
  <2>1. LocalOK' /\ Linked' /\ Seen' /\ Earned'
    BY <1>1, <1>6, ContinueStep
  <2>2. SharedOK'
    BY <1>6 DEF Inv, SharedOK, Join, caches
  <2> QED
    BY <1>2, <2>1, <2>2 DEF Inv
<1>7. CASE /\ Present(Who(t)) /\ Continue(t, "already") /\ Calm
           /\ UNCHANGED <<actual, updates, was, refused>>
  <2>1. was[t]
    BY <1>1, <1>7 DEF Inv, Seen
  <2>2. LocalOK' /\ Linked' /\ Seen' /\ Earned'
    BY <1>1, <1>7, <2>1, ContinueStep
  <2>3. SharedOK'
    BY <1>3, <1>7 DEF Inv, SharedOK, Join, caches
  <2> QED
    BY <1>2, <2>2, <2>3 DEF Inv
<1>8. CASE /\ \E error \in {"expired", "invalid"} : Refuse(t, error)
           /\ Calm /\ UNCHANGED <<actual, updates, was>>
  <2>1. LocalOK' /\ Linked' /\ Seen' /\ Earned' /\ refused' \subseteq Links
    BY <1>1, <1>8, RefuseStep
  <2>2. SharedOK'
    BY <1>3, <1>8, <2>1 DEF Inv, SharedOK, Join, caches
  <2> QED
    BY <1>2, <2>1, <2>2 DEF Inv
<1> QED
  BY <1>3, <1>4, <1>5, <1>6, <1>7, <1>8 DEF Join, Fail

LEMMA DropStep ==
  ASSUME Inv, NEW t \in Threads, Drop(t)
  PROVE  Inv'
<1> DEFINE f == [frame[t] EXCEPT !.again = TRUE]
<1>1. f \in Frames /\ f.who = Who(t) /\ "resolve" \in Labels
  BY DEF Frames, Who, Inv, LocalOK, Labels
<1>2. /\ pc' = [pc EXCEPT ![t] = "resolve"] /\ frame' = [frame EXCEPT ![t] = f]
      /\ was' = [was EXCEPT ![t] = was[t]] /\ was[t] \in BOOLEAN /\ actual' = actual
  BY DEF Drop, Goto, telegram, Inv, LocalOK
<1>3. actual[Who(t)] \in InChat => was[t]
  BY DEF Inv, Seen, Present, Drop, At
<1> HIDE DEF f
<1>4. LocalOK' /\ Linked' /\ Seen' /\ Earned'
  BY <1>1, <1>2, <1>3, CallStep
<1>5. SharedOK' /\ Flags'
  BY DEF Inv, SharedOK, Flags, Drop, telegram, Calm
<1> QED
  BY <1>4, <1>5 DEF Inv

LEMMA SucceedStep ==
  ASSUME Inv, NEW t \in Threads, Succeed(t), was[t], UNCHANGED <<actual, was>>, ~ At(t, "idle")
  PROVE  LocalOK' /\ Linked' /\ Seen' /\ Earned'
<1>1. {"recovered", "ok"} \subseteq Labels
  BY DEF Labels
<1>2. CASE Continue(t, "recovered")
  BY <1>1, <1>2, ContinueStep
<1>3. CASE Continue(t, "ok")
  BY <1>1, <1>3, ContinueStep
<1> QED
  BY <1>2, <1>3 DEF Succeed

LEMMA JoinedStep ==
  ASSUME Inv, NEW t \in Threads, Joined(t)
  PROVE  Inv'
<1>1. Who(t) \in Assistants /\ frame[t] \in Frames /\ ~ At(t, "idle") /\ was[t] /\ frame[t].link # NoLink
  BY DEF Inv, LocalOK, Linked, Earned, Who, Frames, Joined, At
<1>2. SharedOK' /\ Flags'
  BY <1>1 DEF Inv, SharedOK, Flags, Joined, telegram, Calm, Statuses
<1>3. UNCHANGED <<actual, was>>
  BY DEF Joined, telegram
<1>4. CASE Continue(t, "keepCustom")
  <2>1. /\ pc' = [pc EXCEPT ![t] = "keepCustom"] /\ frame' = [frame EXCEPT ![t] = frame[t]]
        /\ was' = [was EXCEPT ![t] = was[t]] /\ was[t] \in BOOLEAN /\ "keepCustom" \in Labels
    BY <1>3, <1>4 DEF Continue, Goto, Inv, LocalOK, Labels
  <2>2. LocalOK' /\ Linked' /\ Seen' /\ Earned'
    BY <1>1, <1>3, <2>1, CallStep
  <2> QED
    BY <1>2, <2>2 DEF Inv
<1>5. CASE Succeed(t)
  BY <1>1, <1>2, <1>3, <1>5, SucceedStep DEF Inv
<1> QED
  BY <1>4, <1>5 DEF Joined

LEMMA KeepCustomStep ==
  ASSUME Inv, NEW t \in Threads, KeepCustom(t)
  PROVE  Inv'
<1>1. frame[t].link \in Links \cup {PublicLink, NoLink} /\ ~ At(t, "idle") /\ was[t]
  BY DEF Inv, LocalOK, Earned, Frames, KeepCustom, At
<1>2. SharedOK' /\ Flags'
  BY <1>1 DEF Inv, SharedOK, Flags, KeepCustom, telegram, Calm
<1>3. UNCHANGED <<actual, was>> /\ Continue(t, "ok") /\ "ok" \in Labels
  BY DEF KeepCustom, telegram, Labels
<1> QED
  BY <1>1, <1>2, <1>3, ContinueStep DEF Inv

LEMMA RecoveredStep ==
  ASSUME Inv, NEW t \in Threads, Recovered(t)
  PROVE  Inv'
<1>1. Who(t) \in Assistants /\ ~ At(t, "idle") /\ was[t]
  BY DEF Inv, LocalOK, Earned, Who, Frames, Recovered, At
<1>2. SharedOK' /\ Flags'
  BY <1>1 DEF Inv, SharedOK, Flags, Recovered, telegram, Calm, Statuses
<1>3. UNCHANGED <<actual, was>> /\ Continue(t, "ok") /\ "ok" \in Labels
  BY DEF Recovered, telegram, Labels
<1> QED
  BY <1>1, <1>2, <1>3, ContinueStep DEF Inv

LEMMA ApproveStep ==
  ASSUME Inv, NEW t \in Threads, Approve(t)
  PROVE  Inv'
<1>1. Who(t) \in Assistants /\ ~ At(t, "idle") /\ {"recovered", "ok", "failed"} \subseteq Labels
  BY DEF Inv, LocalOK, Who, Frames, Approve, At, Labels
<1>2. Flags'
  BY DEF Inv, Flags, Approve
<1>3. CASE Becomes(Who(t), "member") /\ Succeed(t) /\ Calm
  <2>1. PICK label \in {"recovered", "ok"} : Continue(t, label)
    BY <1>3 DEF Succeed
  <2>2. "member" \in Statuses /\ "member" \in InChat
    BY DEF Statuses, InChat
  <2>3. LocalOK' /\ Linked' /\ Seen' /\ Earned'
    BY <1>1, <1>3, <2>1, <2>2, JoiningStep DEF Continue, Goto
  <2>4. /\ actual' \in [Assistants -> Statuses]
        /\ updates' \subseteq [who : Assistants, old : Statuses, new : Statuses]
    BY <1>1, <1>3, <2>2, StatusStep
  <2>5. SharedOK'
    BY <1>3, <2>4 DEF Inv, SharedOK, Approve, caches, Calm
  <2> QED
    BY <1>2, <2>3, <2>5 DEF Inv
<1>4. CASE Fail(t) /\ trouble' \in 0 .. MaxTrouble /\ UNCHANGED <<actual, updates, was>>
  <2>1. LocalOK' /\ Linked' /\ Seen' /\ Earned'
    BY <1>1, <1>4, ContinueStep DEF Fail
  <2>2. SharedOK'
    BY <1>4 DEF Inv, SharedOK, Approve, caches
  <2> QED
    BY <1>2, <2>1, <2>2 DEF Inv
<1>5. Calm => trouble' \in 0 .. MaxTrouble
  BY DEF Inv, SharedOK, Calm
<1>6. Fails("approve") => trouble' \in 0 .. MaxTrouble
  BY MembershipAssumption DEF Inv, SharedOK, Fails, Trouble
<1> QED
  BY <1>3, <1>4, <1>5, <1>6 DEF Approve

LEMMA AlreadyStep ==
  ASSUME Inv, NEW t \in Threads, Already(t)
  PROVE  Inv'
<1>1. Who(t) \in Assistants /\ ~ At(t, "idle") /\ was[t] /\ UNCHANGED <<actual, was>>
  BY DEF Inv, LocalOK, Earned, Who, Frames, Already, At, telegram
<1>2. SharedOK' /\ Flags'
  BY <1>1 DEF Inv, SharedOK, Flags, Already, telegram, Calm, Statuses
<1> QED
  BY <1>1, <1>2, SucceedStep DEF Already, Inv

LEMMA ForgetLinkStep ==
  ASSUME Inv, NEW t \in Threads, ForgetLink(t)
  PROVE  Inv'
<1>1. /\ ~ At(t, "idle") /\ UNCHANGED <<actual, was>>
      /\ Continue(t, "absent") /\ "absent" \in Labels
  BY DEF ForgetLink, At, telegram, Labels
<1>2. SharedOK' /\ Flags'
  BY DEF Inv, SharedOK, Flags, ForgetLink, telegram, Calm
<1> QED
  BY <1>1, <1>2, ContinueStep DEF Inv

LEMMA NoteAbsentStep ==
  ASSUME Inv, NEW t \in Threads, NoteAbsent(t)
  PROVE  Inv'
<1>1. /\ Who(t) \in Assistants /\ ~ At(t, "idle") /\ UNCHANGED <<actual, was>>
      /\ Continue(t, "failed") /\ "failed" \in Labels
  BY DEF Inv, LocalOK, Who, Frames, NoteAbsent, At, telegram, Labels, Fail
<1>2. SharedOK' /\ Flags'
  BY <1>1 DEF Inv, SharedOK, Flags, NoteAbsent, telegram, Calm, Statuses
<1> QED
  BY <1>1, <1>2, ContinueStep DEF Inv

LEMMA InvalidStep ==
  ASSUME Inv, NEW t \in Threads, Invalid(t)
  PROVE  Inv'
<1>1. /\ ~ At(t, "idle") /\ UNCHANGED <<actual, was>>
      /\ Continue(t, "failed") /\ "failed" \in Labels
  BY DEF Invalid, At, telegram, Labels, Fail
<1>2. SharedOK' /\ Flags'
  BY DEF Inv, SharedOK, Flags, Invalid, telegram, caches, Calm
<1> QED
  BY <1>1, <1>2, ContinueStep DEF Inv

LEMMA CallSteps ==
  ASSUME Inv, NEW t \in Threads, Step(t)
  PROVE  Inv'
  BY ReturnStep, CheckStep, AskStep, NoteStep, RecoverStep, ResolveStep, CreateStep,
     KeepStep, JoinStep, DropStep, JoinedStep, KeepCustomStep, RecoveredStep,
     ApproveStep, AlreadyStep, ForgetLinkStep, NoteAbsentStep, InvalidStep DEF Step
-----------------------------------------------------------------------------
(* What is not a step of a call. *)

LEMMA CallsStay ==
  ASSUME Inv, UNCHANGED <<actual, was, pc, frame>>
  PROVE  LocalOK' /\ Linked' /\ Seen' /\ Earned'
  BY DEF Inv, LocalOK, Linked, Seen, Earned, At, Present, Who

LEMMA EventStep ==
  ASSUME Inv, NEW a \in Assistants, NEW st \in Statuses, Becomes(a, st), UNCHANGED <<pc, frame>>
  PROVE  LocalOK' /\ Linked' /\ Seen' /\ Earned'
<1>1. /\ was' \in [Threads -> BOOLEAN]
      /\ \A t \in Threads : was[t] => was'[t]
      /\ \A t \in Threads : (Who(t) = a /\ st \in InChat) => was'[t]
      /\ \A b \in Assistants : b # a => actual'[b] = actual[b]
      /\ actual'[a] = st
  BY StatusStep
<1>2. LocalOK' /\ Linked' /\ Earned'
  BY <1>1 DEF Inv, LocalOK, Linked, Earned, At
<1>3. Seen'
  <2> SUFFICES ASSUME NEW t \in Threads, pc[t] # "idle", actual'[frame[t].who] \in InChat
               PROVE  was'[t]
    BY DEF Seen, At, Present, Who
  <2>1. CASE frame[t].who = a
    BY <1>1, <2>1 DEF Who
  <2>2. CASE frame[t].who # a
    BY <1>1, <2>2 DEF Inv, LocalOK, Frames, Seen, At, Present, Who
  <2> QED
    BY <2>1, <2>2
<1> QED
  BY <1>2, <1>3

LEMMA HandleStep ==
  ASSUME Inv, NEW u \in updates, Ignore(u) \/ HandleParticipant(u)
  PROVE  Inv'
<1>1. UNCHANGED <<actual, was, pc, frame, public, trouble, alive, assigned, refused>>
  BY DEF Ignore, HandleParticipant, Calm
<1>2. LocalOK' /\ Linked' /\ Seen' /\ Earned'
  BY <1>1, CallsStay
<1>3. u.who \in Assistants /\ u.new \in Statuses
  BY DEF Inv, SharedOK
<1>4. Dispatched(u) \in Statuses \cup {Unknown}
  BY <1>3 DEF Dispatched, Statuses, Inv, SharedOK
<1>5. status' \in [Assistants -> Statuses \cup {Unknown}]
  BY <1>3, <1>4 DEF Ignore, HandleParticipant, Inv, SharedOK, caches
<1>6. invite' \in Links \cup {PublicLink, NoLink}
  BY DEF Ignore, HandleParticipant, Inv, SharedOK, caches
<1>7. updates' \subseteq [who : Assistants, old : Statuses, new : Statuses]
  BY DEF Ignore, HandleParticipant, Inv, SharedOK
<1>8. SharedOK'
  BY <1>1, <1>5, <1>6, <1>7 DEF Inv, SharedOK
<1>9. active' \in BOOLEAN
  BY Zenon DEF Ignore, HandleParticipant, Inv, Flags
<1>10. Flags'
  BY <1>1, <1>9 DEF Inv, Flags
<1> QED
  BY <1>2, <1>8, <1>10 DEF Inv

LEMMA StatusEvent ==
  ASSUME Inv, NEW a \in Assistants, Change(a) \/ LeaveDialogs(a)
  PROVE  Inv'
<1>1. PICK st \in Statuses : Becomes(a, st)
  BY DEF Change, LeaveDialogs, Statuses
<1>2. /\ UNCHANGED <<public, alive, assigned, caches, active, pc, frame, refused>>
      /\ Trouble
  BY DEF Change, LeaveDialogs
<1>3. LocalOK' /\ Linked' /\ Seen' /\ Earned'
  BY <1>1, <1>2, EventStep
<1>4. /\ actual' \in [Assistants -> Statuses]
      /\ updates' \subseteq [who : Assistants, old : Statuses, new : Statuses]
  BY <1>1, StatusStep
<1>5. SharedOK' /\ Flags'
  BY <1>2, <1>4, MembershipAssumption DEF Inv, SharedOK, Flags, Trouble, caches
<1> QED
  BY <1>3, <1>5 DEF Inv

LEMMA OtherEvent ==
  ASSUME Inv,
         \/ Revoke \/ QueueEnds \/ ExpireInvite
         \/ \E a \in Assistants : Reassign(a) \/ ExpireStatus(a)
  PROVE  Inv'
<1>1. UNCHANGED <<actual, was, pc, frame, updates>>
  BY DEF Revoke, QueueEnds, ExpireInvite, Reassign, ExpireStatus, telegram
<1>2. LocalOK' /\ Linked' /\ Seen' /\ Earned'
  BY <1>1, CallsStay
<1>3. alive' \subseteq Links /\ refused' \subseteq Links
  BY DEF Revoke, QueueEnds, ExpireInvite, Reassign, ExpireStatus, telegram, Inv, SharedOK
<1>4. trouble' \in 0 .. MaxTrouble
  BY MembershipAssumption
     DEF Revoke, QueueEnds, ExpireInvite, Reassign, ExpireStatus, Trouble, Calm, Inv, SharedOK
<1>5. assigned' \in Assistants /\ invite' \in Links \cup {PublicLink, NoLink}
  BY DEF Revoke, QueueEnds, ExpireInvite, Reassign, ExpireStatus, caches, Inv, SharedOK
<1>6. status' \in [Assistants -> Statuses \cup {Unknown}]
  BY DEF Revoke, QueueEnds, ExpireInvite, Reassign, ExpireStatus, caches, Inv, SharedOK
<1>7. public' \in BOOLEAN
  BY Zenon DEF Revoke, QueueEnds, ExpireInvite, Reassign, ExpireStatus, telegram, Inv, Flags
<1>8. active' \in BOOLEAN
  BY Zenon DEF Revoke, QueueEnds, ExpireInvite, Reassign, ExpireStatus, Inv, Flags
<1>9. SharedOK' /\ Flags'
  BY <1>1, <1>3, <1>4, <1>5, <1>6, <1>7, <1>8 DEF Inv, SharedOK, Flags
<1> QED
  BY <1>2, <1>9 DEF Inv

LEMMA StepInv == Inv /\ [Next]_vars => Inv'
<1> SUFFICES ASSUME Inv, [Next]_vars
             PROVE  Inv'
  OBVIOUS
<1>1. ASSUME NEW t \in Threads, NEW a \in Assistants, BeginEnsure(t, a)
      PROVE  Inv'
  BY <1>1, BeginEnsureStep
<1>2. ASSUME NEW t \in Threads, NEW link \in {invite, NewLink, PublicLink} \ {NoLink},
             BeginCustom(t, link)
      PROVE  Inv'
  BY <1>2, BeginCustomStep
<1>3. ASSUME NEW t \in Threads, BeginAll(t) \/ Step(t)
      PROVE  Inv'
  BY <1>3, BeginAllStep, CallSteps
<1>4. CASE Handle
  BY <1>4, HandleStep DEF Handle
<1>5. ASSUME NEW a \in Assistants, Change(a) \/ LeaveDialogs(a)
      PROVE  Inv'
  BY <1>5, StatusEvent
<1>6. CASE \/ Revoke \/ QueueEnds \/ ExpireInvite
           \/ \E a \in Assistants : Reassign(a) \/ ExpireStatus(a)
  BY <1>6, OtherEvent
<1>7. CASE UNCHANGED vars
  <2>1. LocalOK' /\ Linked' /\ Seen' /\ Earned'
    BY <1>7, CallsStay DEF vars
  <2> QED
    BY <1>7, <2>1 DEF vars, Inv, SharedOK, Flags
<1> QED
  BY <1>1, <1>2, <1>3, <1>4, <1>5, <1>6, <1>7 DEF Next
-----------------------------------------------------------------------------
\* Every variable keeps its type, and a call that tries to join, or keeps a link
\* that has worked, has a link in its hands (membership.go:326-363, 459-486).
THEOREM TypeCorrect == Spec => []TypeOK
<1>1. Spec => []Inv
  BY InitInv, StepInv, PTL DEF Spec
<1> QED
  BY <1>1, InvIsStrong, PTL

\* When ensureAssistantMember reports success, the assistant was in the chat at
\* some moment of the call or the cache said so, whatever the other calls, the
\* handler of member updates and the chat's administrators did meanwhile.
THEOREM EnsureIsSound == Spec => []EnsureSound
<1>1. Spec => []Inv
  BY InitInv, StepInv, PTL DEF Spec
<1> QED
  BY <1>1, InvIsStrong, PTL
-----------------------------------------------------------------------------
(* A link that was refused. *)

\* A call with a link of its own runs alone: the link that it keeps when it has
\* joined may otherwise be one that another call has just been refused with.
Apart == \A t, u \in Threads : (frame[t].custom /\ u # t) => At(u, "idle")

Forgets == {"drop", "expired"}

\* Somebody is about to take the refused link out of the cache, a new link is
\* nobody else's, and a link given with the command has not been refused since.
Forgetting == invite \in refused => \E t \in Threads : pc[t] \in Forgets
Fresh ==
  \A t \in Threads : At(t, "keep") =>
    /\ frame[t].link \in Links /\ frame[t].link \notin refused /\ frame[t].link # invite
    /\ \A u \in Threads : u # t => frame[u].link # frame[t].link
Kept ==
  \A t \in Threads :
    /\ At(t, "joined") => ~ frame[t].custom \/ frame[t].link \notin refused
    /\ At(t, "keepCustom") => frame[t].custom /\ frame[t].link \notin refused
Ref == Forgetting /\ Fresh /\ Kept

LEMMA RefMoves ==
  ASSUME Inv, Ref, NEW t \in Threads, NEW label \in Labels, NEW f \in Frames,
         pc' = [pc EXCEPT ![t] = label], frame' = [frame EXCEPT ![t] = f],
         refused' \subseteq refused,
         f.link \in {frame[t].link, invite, NoLink, PublicLink} \/ f.link \notin Held,
         invite' \in {invite, NoLink, PublicLink, frame[t].link},
         invite' \in refused' => invite' = invite /\ pc[t] \notin Forgets,
         label = "keep" => f.link \in Links /\ f.link \notin Held
                           /\ f.link \notin refused' /\ invite' = invite,
         label = "joined" => ~ f.custom \/ f.link \notin refused',
         label = "keepCustom" => f.custom /\ f.link \notin refused'
  PROVE  Ref'
<1> USE DEF Inv, LocalOK
<1>1. \A u \in Threads : u # t => pc'[u] = pc[u] /\ frame'[u] = frame[u]
  OBVIOUS
<1>2. pc'[t] = label /\ frame'[t] = f
  OBVIOUS
<1>3. Forgetting'
  BY <1>1 DEF Ref, Forgetting
<1>4. Kept'
  BY <1>1, <1>2 DEF Ref, Kept, At
<1>5. Fresh'
  <2> SUFFICES ASSUME NEW u \in Threads, pc'[u] = "keep"
               PROVE  /\ frame'[u].link \in Links /\ frame'[u].link \notin refused'
                      /\ frame'[u].link # invite'
                      /\ \A v \in Threads : v # u => frame'[v].link # frame'[u].link
    BY DEF Fresh, At
  <2>1. CASE u = t
    <3>1. f.link \in Links /\ f.link \notin Held /\ f.link \notin refused' /\ invite' = invite
      BY <1>2, <2>1
    <3>2. f.link # invite /\ \A v \in Threads : frame[v].link # f.link
      BY <3>1 DEF Held
    <3> QED
      BY <1>1, <1>2, <2>1, <3>1, <3>2
  <2>2. CASE u # t
    <3>1. /\ frame[u].link \in Links /\ frame[u].link \notin refused /\ frame[u].link # invite
          /\ \A v \in Threads : v # u => frame[v].link # frame[u].link
      BY <1>1, <2>2 DEF Ref, Fresh, At
    <3>2. frame[u].link \in Held /\ frame[t].link # frame[u].link
      BY <2>2, <3>1 DEF Held
    <3>3. frame[u].link # NoLink /\ frame[u].link # PublicLink
      BY <3>1, MembershipAssumption
    <3>4. frame[u].link # invite' /\ f.link # frame[u].link
      BY <3>1, <3>2, <3>3
    <3> QED
      BY <1>1, <1>2, <2>2, <3>1, <3>4
  <2> QED
    BY <2>1, <2>2
<1> QED
  BY <1>3, <1>4, <1>5 DEF Ref

LEMMA RefContinues ==
  ASSUME Inv, Ref, NEW t \in Threads, NEW label \in Labels, Continue(t, label),
         refused' = refused, label \notin {"keep", "joined", "keepCustom"},
         invite' = NoLink \/ (invite' = invite /\ pc[t] \notin Forgets)
  PROVE  Ref'
<1>1. pc' = [pc EXCEPT ![t] = label] /\ frame' = [frame EXCEPT ![t] = frame[t]]
  BY DEF Continue, Goto, Inv, LocalOK
<1>2. frame[t] \in Frames /\ NoLink \notin refused
  BY MembershipAssumption DEF Inv, LocalOK, SharedOK
<1>3. invite' \in {invite, NoLink} /\ (invite' \in refused' => invite' = invite /\ pc[t] \notin Forgets)
  BY <1>2
<1> QED
  BY <1>1, <1>2, <1>3, RefMoves

\* What others do leaves the links that were refused alone.
LEMMA RefStays ==
  ASSUME Inv, Ref, UNCHANGED <<pc, frame, refused>>, invite' \in {invite, NoLink, PublicLink}
  PROVE  Ref'
<1>1. PublicLink \notin Links /\ NoLink \notin Links /\ refused \subseteq Links
  BY MembershipAssumption DEF Inv, SharedOK
<1>2. Forgetting' /\ Kept'
  BY <1>1 DEF Ref, Forgetting, Kept, At
<1>3. Fresh'
  BY <1>1 DEF Ref, Fresh, At
<1> QED
  BY <1>2, <1>3 DEF Ref

LEMMA RefStarts ==
  ASSUME Inv, Ref, NEW t \in Threads, NEW f \in Frames, f.link = NoLink,
         NEW label \in {"idle", "check"}, pc' = [pc EXCEPT ![t] = label],
         frame' = [frame EXCEPT ![t] = f], UNCHANGED <<invite, refused>>, pc[t] \notin Forgets
  PROVE  Ref'
<1>1. label \in Labels /\ label \notin {"keep", "joined", "keepCustom"}
  BY DEF Labels
<1> QED
  BY <1>1, RefMoves

LEMMA RefBegins ==
  ASSUME Inv, Ref, NEW t \in Threads,
         \/ \E a \in Assistants : BeginEnsure(t, a)
         \/ BeginAll(t) \/ Return(t)
  PROVE  Ref'
<1>0. pc[t] \notin Forgets
  BY DEF BeginEnsure, BeginAll, Return, At, Forgets
<1>1. ASSUME NEW a \in Assistants, NEW f, f = Frame(a) \/ \E s \in SUBSET Assistants : f = [Frame(a) EXCEPT !.todo = s],
             NEW label \in {"idle", "check"}, pc' = [pc EXCEPT ![t] = label],
             frame' = [frame EXCEPT ![t] = f], UNCHANGED <<invite, refused>>
      PROVE  Ref'
  <2>1. Frame(a) \in Frames /\ Frame(a).link = NoLink
    BY FrameOK DEF Frame
  <2>2. f \in Frames /\ f.link = NoLink
    BY <1>1, <2>1 DEF Frames
  <2> QED
    BY <1>0, <1>1, <2>2, RefStarts
<1>2. ASSUME NEW a \in Assistants, BeginEnsure(t, a)
      PROVE  Ref'
  <2>1. /\ pc' = [pc EXCEPT ![t] = "check"] /\ frame' = [frame EXCEPT ![t] = Frame(a)]
        /\ UNCHANGED <<invite, refused>>
    BY <1>2 DEF BeginEnsure, Starts, Goto, caches
  <2> QED
    BY <1>1, <2>1
<1>3. ASSUME NEW a \in Assistants, NEW s \in SUBSET Assistants,
             Starts(t, [Frame(a) EXCEPT !.todo = s], "check")
      PROVE  Ref'
  <2>1. /\ pc' = [pc EXCEPT ![t] = "check"]
        /\ frame' = [frame EXCEPT ![t] = [Frame(a) EXCEPT !.todo = s]]
        /\ UNCHANGED <<invite, refused>>
    BY <1>3 DEF Starts, Goto, caches
  <2> QED
    BY <1>1, <2>1
<1>4. CASE BeginAll(t)
  <2>1. PICK a \in Assistants : Starts(t, [Frame(a) EXCEPT !.todo = Assistants \ {a}], "check")
    BY <1>4 DEF BeginAll
  <2> QED
    BY <1>3, <2>1
<1>5. CASE Return(t)
  <2>1. CASE frame[t].todo = {}
    <3>1. /\ pc' = [pc EXCEPT ![t] = "idle"] /\ frame' = [frame EXCEPT ![t] = Frame(assigned)]
          /\ UNCHANGED <<invite, refused>> /\ assigned \in Assistants
      BY <1>5, <2>1 DEF Return, Goto, caches, Inv, SharedOK
    <3> QED
      BY <1>1, <3>1
  <2>2. CASE frame[t].todo # {}
    <3>1. PICK a \in frame[t].todo :
            Starts(t, [Frame(a) EXCEPT !.todo = frame[t].todo \ {a}], "check")
      BY <1>5, <2>2 DEF Return
    <3>2. a \in Assistants /\ frame[t].todo \ {a} \in SUBSET Assistants
      BY DEF Inv, LocalOK, Frames
    <3> QED
      BY <1>3, <3>1, <3>2
  <2> QED
    BY <2>1, <2>2
<1> QED
  BY <1>2, <1>4, <1>5

LEMMA RefBeginsCustom ==
  ASSUME Inv, Ref, NEW t \in Threads, NEW link \in {invite, NewLink, PublicLink} \ {NoLink},
         BeginCustom(t, link)
  PROVE  Ref'
<1>1. NewLink \in Links /\ NewLink \notin Held
  BY NewLinkIsFree DEF Inv, LocalOK
<1>2. CustomFrame(link) \in Frames /\ CustomFrame(link).link = link
  <2>1. Frame(assigned) \in Frames
    BY FrameOK DEF Inv, SharedOK
  <2>2. link \in Links \cup {PublicLink}
    BY <1>1 DEF Inv, SharedOK
  <2> QED
    BY <2>1, <2>2 DEF CustomFrame, Frames
<1>3. /\ pc' = [pc EXCEPT ![t] = "join"] /\ frame' = [frame EXCEPT ![t] = CustomFrame(link)]
      /\ invite' = invite /\ pc[t] = "idle" /\ refused' \subseteq refused
  BY DEF BeginCustom, Goto, CustomFrame, caches, At, Issue
<1>4. "join" \in Labels /\ "join" \notin {"keep", "joined", "keepCustom"} /\ "idle" \notin Forgets
  BY DEF Labels, Forgets
<1>5. link \in {invite, PublicLink} \/ link \notin Held
  BY <1>1
<1> QED
  BY <1>2, <1>3, <1>4, <1>5, RefMoves

LEMMA RefDecides ==
  ASSUME Inv, Ref, NEW t \in Threads, NEW st \in Statuses, Decide(t, st),
         UNCHANGED <<invite, refused>>, pc[t] \notin Forgets
  PROVE  Ref'
<1>1. CASE st \in {"member", "admin"}
  BY <1>1, RefContinues DEF Decide, Labels
<1>2. CASE st = "left"
  BY <1>2, RefContinues DEF Decide, Labels
<1>3. CASE st \notin {"member", "admin", "left"}
  <2> DEFINE f == [frame[t] EXCEPT !.seen = st, !.recovering = TRUE]
  <2>1. f \in Frames /\ f.link = frame[t].link /\ "recover" \in Labels
    BY DEF Inv, LocalOK, Frames, Labels
  <2>2. pc' = [pc EXCEPT ![t] = "recover"] /\ frame' = [frame EXCEPT ![t] = f]
    BY <1>3 DEF Decide, Goto, Inv, LocalOK, Frames
  <2> HIDE DEF f
  <2> QED
    BY <2>1, <2>2, RefMoves
<1> QED
  BY <1>1, <1>2, <1>3

LEMMA RefSucceeds ==
  ASSUME Inv, Ref, NEW t \in Threads, Succeed(t), UNCHANGED <<invite, refused>>,
         pc[t] \notin Forgets
  PROVE  Ref'
  BY RefContinues DEF Succeed, Labels

LEMMA RefChecks ==
  ASSUME Inv, Ref, NEW t \in Threads, Check(t) \/ Ask(t) \/ Note(t) \/ Recover(t)
  PROVE  Ref'
<1>1. UNCHANGED <<invite, refused>> /\ pc[t] \notin Forgets
  BY DEF Check, Ask, Note, Recover, caches, At, Forgets
<1>2. frame[t] \in Frames /\ Who(t) \in Assistants
  BY DEF Inv, LocalOK, Who, Frames
<1>3. CASE Check(t)
  <2>1. CASE status[Who(t)] = Unknown
    BY <1>1, <1>3, <2>1, RefContinues DEF Check, Labels
  <2>2. CASE status[Who(t)] # Unknown
    <3>1. status[Who(t)] \in Statuses
      BY <1>2, <2>2 DEF Inv, SharedOK
    <3> QED
      BY <1>1, <1>3, <2>2, <3>1, RefDecides DEF Check
  <2> QED
    BY <2>1, <2>2
<1>4. CASE Ask(t)
  <2>1. CASE Goto(t, "note") /\ frame' = [frame EXCEPT ![t].seen = actual[Who(t)]]
    <3> DEFINE f == [frame[t] EXCEPT !.seen = actual[Who(t)]]
    <3>1. f \in Frames /\ f.link = frame[t].link /\ "note" \in Labels
      BY <1>2 DEF Inv, SharedOK, Frames, Labels
    <3>2. pc' = [pc EXCEPT ![t] = "note"] /\ frame' = [frame EXCEPT ![t] = f]
      BY <2>1 DEF Goto, Inv, LocalOK, Frames
    <3> HIDE DEF f
    <3> QED
      BY <1>1, <3>1, <3>2, RefMoves
  <2>2. CASE Fail(t)
    BY <1>1, <2>2, RefContinues DEF Fail, Labels
  <2> QED
    BY <1>4, <2>1, <2>2 DEF Ask
<1>5. CASE Note(t)
  <2>1. frame[t].seen \in Statuses
    BY <1>2 DEF Frames
  <2> QED
    BY <1>1, <1>5, <2>1, RefDecides DEF Note
<1>6. CASE Recover(t)
  <2>1. Continue(t, "resolve") \/ Continue(t, "failed")
    BY <1>6 DEF Recover, Fail
  <2> QED
    BY <1>1, <2>1, RefContinues DEF Labels
<1> QED
  BY <1>3, <1>4, <1>5, <1>6

LEMMA RefResolves ==
  ASSUME Inv, Ref, NEW t \in Threads, Resolve(t)
  PROVE  Ref'
<1> DEFINE f == [frame[t] EXCEPT !.link = invite]
           label == IF invite = NoLink THEN "create" ELSE "join"
<1>1. f \in Frames /\ f.link = invite
  BY DEF Inv, LocalOK, SharedOK, Frames
<1>2. label \in Labels /\ label \notin {"keep", "joined", "keepCustom"}
  BY DEF Labels
<1>3. /\ pc' = [pc EXCEPT ![t] = label] /\ frame' = [frame EXCEPT ![t] = f]
      /\ UNCHANGED <<invite, refused>> /\ pc[t] \notin Forgets
  BY DEF Resolve, Goto, caches, At, Forgets, Inv, LocalOK, Frames
<1> HIDE DEF f, label
<1> QED
  BY <1>1, <1>2, <1>3, RefMoves

LEMMA RefCreates ==
  ASSUME Inv, Ref, NEW t \in Threads, Create(t)
  PROVE  Ref'
<1>1. NewLink \in Links /\ NewLink \notin Held
  BY NewLinkIsFree DEF Inv, LocalOK
<1>2. invite' = invite /\ pc[t] \notin Forgets /\ frame[t] \in Frames
  BY DEF Create, caches, At, Forgets, Inv, LocalOK
<1>3. CASE Issue(NewLink) /\ frame' = [frame EXCEPT ![t].link = NewLink] /\ Goto(t, "keep")
  <2> DEFINE f == [frame[t] EXCEPT !.link = NewLink]
  <2>1. f \in Frames /\ f.link = NewLink
    BY <1>1, <1>2 DEF Frames
  <2>2. pc' = [pc EXCEPT ![t] = "keep"] /\ frame' = [frame EXCEPT ![t] = f] /\ "keep" \in Labels
    BY <1>3 DEF Goto, Labels, Inv, LocalOK, Frames
  <2>3. refused' \subseteq refused /\ NewLink \notin refused'
    BY <1>3 DEF Issue
  <2> HIDE DEF f
  <2> QED
    BY <1>1, <1>2, <2>1, <2>2, <2>3, RefMoves
<1>4. CASE /\ IF frame[t].again THEN Continue(t, frame[t].error) ELSE Fail(t)
           /\ refused' = refused
  <2>1. \E label \in {"expired", "invalid", "failed"} : Continue(t, label)
    BY <1>2, <1>4 DEF Fail, Frames
  <2> QED
    BY <1>2, <1>4, <2>1, RefContinues DEF Labels
<1> QED
  BY <1>3, <1>4 DEF Create

LEMMA RefKeeps ==
  ASSUME Inv, Ref, NEW t \in Threads, Keep(t) \/ KeepCustom(t), Apart
  PROVE  Ref'
<1>1. PICK label \in {"join", "ok"} :
        /\ pc' = [pc EXCEPT ![t] = label] /\ frame' = [frame EXCEPT ![t] = frame[t]]
        /\ invite' = frame[t].link /\ refused' = refused
  BY DEF Keep, KeepCustom, Goto, Continue, Inv, LocalOK
<1>2. frame[t] \in Frames /\ label \in Labels /\ label \notin {"keep", "joined", "keepCustom"}
  BY DEF Inv, LocalOK, Labels
<1>3. frame[t].link \notin refused
  BY DEF Keep, KeepCustom, Ref, Fresh, Kept, At
<1> QED
  BY <1>1, <1>2, <1>3, RefMoves

LEMMA RefJoins ==
  ASSUME Inv, Ref, NEW t \in Threads, Join(t), Apart
  PROVE  Ref'
<1>1. invite' = invite /\ pc[t] = "join" /\ pc[t] \notin Forgets /\ frame[t] \in Frames
  BY DEF Join, caches, At, Forgets, Inv, LocalOK
<1>2. CASE Continue(t, "joined") /\ refused' = refused \ {frame[t].link}
  <2>1. pc' = [pc EXCEPT ![t] = "joined"] /\ frame' = [frame EXCEPT ![t] = frame[t]] /\ "joined" \in Labels
    BY <1>2 DEF Continue, Goto, Inv, LocalOK, Labels
  <2>2. refused' \subseteq refused /\ frame[t].link \notin refused'
    BY <1>2
  <2> QED
    BY <1>1, <2>1, <2>2, RefMoves
<1>3. CASE /\ \E label \in {"approve", "already", "private", "failed"} : Continue(t, label)
           /\ refused' = refused
  BY <1>1, <1>3, RefContinues DEF Labels
<1>4. ASSUME NEW error \in {"expired", "invalid"}, Refuse(t, error)
      PROVE  Ref'
  <2> DEFINE f == [frame[t] EXCEPT !.error = error]
             label == IF frame[t].again \/ frame[t].custom THEN error ELSE "drop"
  <2>1. f \in Frames /\ f.link = frame[t].link
    BY <1>1 DEF Frames
  <2>2. label \in Labels /\ label \in {"expired", "invalid", "drop"}
        /\ (error = "expired" => label \in Forgets)
    BY <1>4 DEF Labels, Forgets
  <2>3. pc' = [pc EXCEPT ![t] = label] /\ frame' = [frame EXCEPT ![t] = f]
    BY <1>4 DEF Refuse, Goto, Inv, LocalOK, Frames
  <2> HIDE DEF f, label
  <2>4. CASE error = "invalid"
    <3>1. refused' = refused
      BY <1>4, <2>4 DEF Refuse
    <3> QED
      BY <1>1, <2>1, <2>2, <2>3, <3>1, RefMoves
  <2>5. CASE error = "expired"
    <3>1. refused' = refused \cup ({frame[t].link} \cap Links)
      BY <1>4, <2>5 DEF Refuse
    <3>2. \A u \in Threads : u # t => pc'[u] = pc[u] /\ frame'[u] = frame[u]
      BY <2>3 DEF Inv, LocalOK
    <3>3. pc'[t] = label /\ frame'[t] = f /\ label \in Forgets
      BY <2>2, <2>3, <2>5 DEF Inv, LocalOK
    <3>4. Forgetting'
      BY <3>3 DEF Forgetting
    <3>5. Fresh'
      BY <1>1, <2>1, <2>2, <3>1, <3>2, <3>3 DEF Ref, Fresh, At, Forgets
    <3>6. Kept'
      <4>1. ASSUME NEW u \in Threads, u # t, pc[u] \in {"joined", "keepCustom"}
            PROVE  ~ frame[u].custom
        BY <1>1, <4>1 DEF Apart, At
      <4> QED
        BY <1>1, <2>2, <3>1, <3>2, <3>3, <4>1 DEF Ref, Kept, At
    <3> QED
      BY <3>4, <3>5, <3>6 DEF Ref
  <2> QED
    BY <2>4, <2>5
<1> QED
  BY <1>2, <1>3, <1>4 DEF Join, Fail

LEMMA RefDrops ==
  ASSUME Inv, Ref, NEW t \in Threads, Drop(t) \/ ForgetLink(t)
  PROVE  Ref'
<1>1. frame[t] \in Frames /\ NoLink \notin refused
  BY MembershipAssumption DEF Inv, LocalOK, SharedOK
<1>2. CASE ForgetLink(t)
  BY <1>2, RefContinues DEF ForgetLink, Labels
<1>3. CASE Drop(t)
  <2> DEFINE f == [frame[t] EXCEPT !.again = TRUE]
  <2>1. f \in Frames /\ f.link = frame[t].link /\ "resolve" \in Labels
    BY <1>1 DEF Frames, Labels
  <2>2. /\ pc' = [pc EXCEPT ![t] = "resolve"] /\ frame' = [frame EXCEPT ![t] = f]
        /\ invite' = NoLink /\ refused' = refused
    BY <1>3 DEF Drop, Goto, Inv, LocalOK, Frames
  <2> HIDE DEF f
  <2> QED
    BY <1>1, <2>1, <2>2, RefMoves
<1> QED
  BY <1>2, <1>3

LEMMA RefEnds ==
  ASSUME Inv, Ref, NEW t \in Threads,
         Joined(t) \/ Recovered(t) \/ Approve(t) \/ Already(t) \/ NoteAbsent(t) \/ Invalid(t)
  PROVE  Ref'
<1>1. UNCHANGED <<invite, refused>> /\ pc[t] \notin Forgets
  BY DEF Joined, Recovered, Approve, Already, NoteAbsent, Invalid, caches, At, Forgets
<1>2. CASE \E label \in {"ok", "recovered", "failed"} : Continue(t, label)
  BY <1>1, <1>2, RefContinues DEF Labels
<1>3. CASE Continue(t, "keepCustom") /\ frame[t].custom /\ At(t, "joined")
  <2>1. /\ pc' = [pc EXCEPT ![t] = "keepCustom"] /\ frame' = [frame EXCEPT ![t] = frame[t]]
        /\ frame[t] \in Frames /\ "keepCustom" \in Labels
    BY <1>3 DEF Continue, Goto, Inv, LocalOK, Labels
  <2>2. frame[t].link \notin refused'
    BY <1>1, <1>3 DEF Ref, Kept
  <2> QED
    BY <1>1, <1>3, <2>1, <2>2, RefMoves
<1> QED
  BY <1>2, <1>3 DEF Joined, Recovered, Approve, Already, NoteAbsent, Invalid, Succeed, Fail

LEMMA RefStep == Inv /\ Ref /\ Apart /\ [Next]_vars => Ref'
<1> SUFFICES ASSUME Inv, Ref, Apart, [Next]_vars
             PROVE  Ref'
  OBVIOUS
<1>1. ASSUME NEW t \in Threads, (\E a \in Assistants : BeginEnsure(t, a)) \/ BeginAll(t)
      PROVE  Ref'
  BY <1>1, RefBegins
<1>2. ASSUME NEW t \in Threads, NEW link \in {invite, NewLink, PublicLink} \ {NoLink},
             BeginCustom(t, link)
      PROVE  Ref'
  BY <1>2, RefBeginsCustom
<1>3. ASSUME NEW t \in Threads, Step(t)
      PROVE  Ref'
  BY <1>3, RefBegins, RefChecks, RefResolves, RefCreates, RefKeeps, RefJoins, RefDrops,
     RefEnds DEF Step
<1>4. CASE \/ Handle \/ Revoke \/ QueueEnds \/ ExpireInvite \/ UNCHANGED vars
           \/ \E a \in Assistants : Change(a) \/ Reassign(a) \/ LeaveDialogs(a) \/ ExpireStatus(a)
  <2>1. UNCHANGED <<pc, frame, refused>> /\ invite' \in {invite, NoLink, PublicLink}
    BY <1>4 DEF Handle, Ignore, HandleParticipant, Revoke, QueueEnds, ExpireInvite, Change,
                Reassign, LeaveDialogs, ExpireStatus, caches, vars
  <2> QED
    BY <2>1, RefStays
<1> QED
  BY <1>1, <1>2, <1>3, <1>4 DEF Next

LEMMA RefInit == Init => Ref
<1> SUFFICES ASSUME Init
             PROVE  Ref
  OBVIOUS
<1>1. refused = {} /\ \A t \in Threads : pc[t] = "idle"
  BY DEF Init
<1> QED
  BY <1>1 DEF Ref, Forgetting, Fresh, Kept, At

\* Once Telegram has called a link expired and the calls that used it have
\* ended, the link is not in the cache, however many calls there are, as long
\* as one that was given a link runs alone: it may otherwise keep its link
\* after another call has forgotten it (membership.go:411-413, 506).
THEOREM RefusedStaysForgotten == Spec /\ []Apart => []RefusedIsForgotten
<1>1. Inv /\ [Next]_vars => Inv'
  BY StepInv
<1>2. Ref => RefusedIsForgotten
  BY DEF Ref, Forgetting, RefusedIsForgotten, Forgets, At
<1> QED
  BY <1>1, <1>2, InitInv, RefInit, RefStep, PTL DEF Spec

\* With one goroutine nobody else runs.
THEOREM RefusedByOne ==
  ASSUME NEW t, Threads = {t}
  PROVE  Spec => []RefusedIsForgotten
<1>1. Apart
  BY DEF Apart
<1> QED
  BY <1>1, RefusedStaysForgotten, PTL
-----------------------------------------------------------------------------
(* The cached list of administrators. *)

Ranks ==
  /\ admins \subseteq Users
  /\ cached \in {None} \cup SUBSET Users
  /\ news \subseteq [user : Users, admin : BOOLEAN]

Stages == {"idle", "lookup", "search", "fill", "check", "decide", "correct", "write",
           "stamp", "clear"}

Looks == [kind : A!Kinds, user : Users, admin : BOOLEAN, list : SUBSET Users,
          second : BOOLEAN, late : BOOLEAN]

\* What a handler holds, at each of its labels: only a handler that corrects the
\* list is counted as coming; what it read is still so unless it is late.
LookOK(label, f, list, now) ==
  /\ label = "idle" => f.kind = "none"
  /\ f.kind = "update" <=> label \in {"correct", "write"}
  /\ label = "fill" /\ ~ f.late => f.list = now
  /\ label = "write" /\ ~ f.late => list # None /\ f.list = A!Corrected(list, f.user, f.admin)
  /\ label \in {"check", "decide"} /\ ~ f.late => list # None /\ f.list = list

LooksOK ==
  /\ place \in [Handlers -> Stages] /\ look \in [Handlers -> Looks]
  /\ \A h \in Handlers : LookOK(place[h], look[h], cached, admins)

AdminInv == Ranks /\ LooksOK /\ A!WrongForAReason

LEMMA IdleLook == A!Idle \in Looks /\ A!Idle.kind = "none"
  BY AdminsAssumption DEF A!Idle, Looks, A!Kinds, A!AdminCacheAssumption

LEMMA AdminInit == A!Init => AdminInv
<1> SUFFICES ASSUME A!Init
             PROVE  AdminInv
  OBVIOUS
<1>1. Ranks
  BY AdminsAssumption DEF A!Init, Ranks, A!AdminCacheAssumption
<1>2. LooksOK
  <2>1. \A h \in Handlers : place[h] = "idle" /\ look[h] = A!Idle
    BY DEF A!Init
  <2>2. place \in [Handlers -> Stages] /\ look \in [Handlers -> Looks]
    BY IdleLook DEF A!Init, Stages
  <2> QED
    BY <2>1, <2>2, IdleLook DEF LooksOK, LookOK
<1>3. A!WrongForAReason
  BY DEF A!Init, A!WrongForAReason
<1> QED
  BY <1>1, <1>2, <1>3 DEF AdminInv

\* One handler moves, what it looked at stays as it was.
LEMMA AsideLook ==
  ASSUME AdminInv, NEW h \in Handlers, NEW label \in Stages, NEW f \in Looks,
         place' = [place EXCEPT ![h] = label], look' = [look EXCEPT ![h] = f],
         UNCHANGED <<cached, admins>>, LookOK(label, f, cached, admins)
  PROVE  LooksOK'
  BY DEF AdminInv, LooksOK

\* The list changes, or the ranks; every handler is late, but for the one that
\* does it and those that do nothing.
LEMMA LateLook ==
  ASSUME AdminInv, NEW g, NEW f \in [Handlers -> Looks],
         look' = A!Late(f, g), place' \in [Handlers -> Stages],
         \A h \in Handlers : h # g => place'[h] = place[h] /\ f[h] = look[h],
         g \in Handlers => LookOK(place'[g], f[g], cached', admins')
  PROVE  LooksOK'
<1> USE DEF AdminInv, LooksOK
<1>1. look' \in [Handlers -> Looks]
  BY DEF A!Late, Looks
<1>2. ASSUME NEW h \in Handlers
      PROVE  LookOK(place'[h], look'[h], cached', admins')
  <2>1. CASE h = g
    BY <2>1 DEF A!Late
  <2>2. CASE h # g /\ A!At(h, "idle")
    BY <2>2 DEF A!Late, LookOK, A!At
  <2>3. CASE h # g /\ ~ A!At(h, "idle")
    <3>1. look'[h] = [look[h] EXCEPT !.late = TRUE] /\ place'[h] = place[h]
      BY <2>3 DEF A!Late
    <3>2. /\ look'[h].kind = look[h].kind /\ look'[h].late = TRUE
      BY <3>1 DEF Looks
    <3> QED
      BY <3>1, <3>2 DEF LookOK
  <2> QED
    BY <2>1, <2>2, <2>3
<1> QED
  BY <1>1, <1>2

\* The same holds of who is coming.
LEMMA LateComing ==
  ASSUME NEW f \in [Handlers -> Looks], NEW g, NEW h \in Handlers
  PROVE  /\ A!Late(f, g)[h].kind = f[h].kind
         /\ A!Late(f, g)[h].user = f[h].user
  BY DEF A!Late, Looks
-----------------------------------------------------------------------------
(* What a step leaves of the list's correctness. *)

LEMMA StillSure ==
  ASSUME AdminInv, UNCHANGED <<cached, admins, unheard>>, suspect => suspect',
         \A u \in Users : A!Coming(u) => A!Coming(u)' \/ suspect' \/ cached = None
                                     \/ (u \in A!Listed(cached) <=> u \in admins)
  PROVE  A!WrongForAReason'
  BY DEF AdminInv, A!WrongForAReason, A!Listed

LEMMA CommandLook ==
  ASSUME AdminInv, NEW h \in Handlers, NEW label \in Stages, NEW f \in Looks,
         place' = [place EXCEPT ![h] = label], look' = [look EXCEPT ![h] = f],
         UNCHANGED <<cached, admins, news, unheard, suspect>>,
         LookOK(label, f, cached, admins), look[h].kind # "update"
  PROVE  AdminInv'
<1>1. LooksOK'
  BY AsideLook
<1>2. ASSUME NEW u \in Users, A!Coming(u)
      PROVE  A!Coming(u)'
  <2>1. CASE \E m \in news : m.user = u
    BY <1>2, <2>1 DEF A!Coming
  <2>2. CASE \E g \in Handlers : look[g].kind = "update" /\ look[g].user = u
    <3>1. PICK g \in Handlers : look[g].kind = "update" /\ look[g].user = u
      BY <2>2
    <3>2. look'[g] = look[g]
      BY <3>1 DEF AdminInv, LooksOK
    <3> QED
      BY <1>2, <3>1, <3>2 DEF A!Coming
  <2> QED
    BY <1>2, <2>1, <2>2 DEF A!Coming
<1>3. A!WrongForAReason'
  BY <1>2, StillSure
<1>4. Ranks'
  BY DEF AdminInv, Ranks
<1> QED
  BY <1>1, <1>3, <1>4 DEF AdminInv

LEMMA ReturnLook ==
  ASSUME AdminInv, NEW h \in Handlers, A!Return(h), look[h].kind # "update",
         UNCHANGED <<cached, admins, news, unheard, suspect>>
  PROVE  AdminInv'
<1>1. LookOK("idle", A!Idle, cached, admins)
  BY IdleLook DEF LookOK
<1> QED
  BY <1>1, IdleLook, CommandLook DEF A!Return, A!Goto, Stages

LEMMA NoUpdate ==
  ASSUME AdminInv, NEW h \in Handlers, place[h] \notin {"correct", "write"}
  PROVE  look[h].kind # "update"
  BY DEF AdminInv, LooksOK, LookOK

LEMMA CommandStep ==
  ASSUME AdminInv, NEW h \in Handlers, A!Command(h) \/ A!Reload(h)
  PROVE  AdminInv'
<1>1. PICK f \in Looks, label \in {"lookup", "stamp"} :
        A!Begin(h, f, label) /\ f.kind # "update"
  <2>1. CASE A!Command(h)
    <3>1. PICK u \in Users \ {Bot}, kind \in {"mode", "play", "require"} :
            A!Begin(h, [A!Idle EXCEPT !.kind = kind, !.user = u], "lookup")
      BY <2>1 DEF A!Command
    <3>2. [A!Idle EXCEPT !.kind = kind, !.user = u] \in Looks
      BY IdleLook DEF Looks, A!Kinds
    <3>3. [A!Idle EXCEPT !.kind = kind, !.user = u].kind = kind
      BY DEF A!Idle
    <3> QED
      BY <3>1, <3>2, <3>3
  <2>2. CASE A!Reload(h)
    <3>1. [A!Idle EXCEPT !.kind = "reload"] \in Looks
      BY IdleLook DEF Looks, A!Kinds
    <3>2. [A!Idle EXCEPT !.kind = "reload"].kind = "reload"
      BY DEF A!Idle
    <3> QED
      BY <2>2, <3>1, <3>2 DEF A!Reload
  <2> QED
    BY <2>1, <2>2
<1>2. /\ place' = [place EXCEPT ![h] = label] /\ look' = [look EXCEPT ![h] = f]
      /\ UNCHANGED <<cached, admins, news, unheard, suspect>> /\ place[h] = "idle"
  BY <1>1 DEF A!Begin, A!Goto, A!At, A!telegram, A!doubt
<1>3. LookOK(label, f, cached, admins)
  BY <1>1 DEF LookOK
<1> QED
  BY <1>1, <1>2, <1>3, NoUpdate, CommandLook DEF Stages

LEMMA LookupStep ==
  ASSUME AdminInv, NEW h \in Handlers, A!Lookup(h)
  PROVE  AdminInv'
<1>1. look[h] \in Looks /\ look[h].kind # "update" /\ place[h] = "lookup"
  BY NoUpdate DEF AdminInv, LooksOK, A!Lookup, A!At
<1>2. UNCHANGED <<cached, admins, news, unheard, suspect>>
  BY DEF A!Lookup, A!telegram, A!doubt
<1>3. CASE cached # None
  <2> DEFINE f == [look[h] EXCEPT !.list = cached, !.late = FALSE]
             label == A!Goes(look[h])
  <2>1. f \in Looks /\ f.kind = look[h].kind /\ f.list = cached
    BY <1>1, <1>3 DEF AdminInv, Ranks, Looks
  <2>2. label \in {"check", "decide"}
    BY DEF A!Goes
  <2>3. place' = [place EXCEPT ![h] = label] /\ look' = [look EXCEPT ![h] = f]
    BY <1>1, <1>3 DEF A!Lookup, A!Goto, AdminInv, LooksOK, Looks
  <2> HIDE DEF f, label
  <2>4. LookOK(label, f, cached, admins)
    BY <1>1, <1>3, <2>1, <2>2 DEF LookOK
  <2> QED
    BY <1>1, <1>2, <2>1, <2>2, <2>3, <2>4, CommandLook DEF Stages
<1>4. CASE cached = None
  <2>1. place' = [place EXCEPT ![h] = "search"] /\ look' = [look EXCEPT ![h] = look[h]]
    BY <1>4 DEF A!Lookup, A!Goto, AdminInv, LooksOK
  <2>2. LookOK("search", look[h], cached, admins)
    BY <1>1 DEF LookOK
  <2> QED
    BY <1>1, <1>2, <2>1, <2>2, CommandLook DEF Stages
<1> QED
  BY <1>3, <1>4

LEMMA SearchStep ==
  ASSUME AdminInv, NEW h \in Handlers, A!Search(h)
  PROVE  AdminInv'
<1>1. look[h] \in Looks /\ look[h].kind # "update"
  BY NoUpdate DEF AdminInv, LooksOK, A!Search, A!At
<1>2. UNCHANGED <<cached, admins, news, unheard, suspect>>
  BY DEF A!Search, A!telegram, A!doubt
<1>3. CASE A!Goto(h, "fill") /\ look' = [look EXCEPT ![h].list = admins, ![h].late = FALSE]
  <2> DEFINE f == [look[h] EXCEPT !.list = admins, !.late = FALSE]
  <2>1. f \in Looks /\ f.kind = look[h].kind /\ f.list = admins
    BY <1>1 DEF AdminInv, Ranks, Looks
  <2>2. place' = [place EXCEPT ![h] = "fill"] /\ look' = [look EXCEPT ![h] = f]
    BY <1>1, <1>3 DEF A!Goto, AdminInv, LooksOK, Looks
  <2> HIDE DEF f
  <2>3. LookOK("fill", f, cached, admins)
    BY <1>1, <2>1 DEF LookOK
  <2> QED
    BY <1>1, <1>2, <2>1, <2>2, <2>3, CommandLook DEF Stages
<1>4. CASE A!Return(h)
  BY <1>1, <1>2, <1>4, ReturnLook
<1> QED
  BY <1>3, <1>4 DEF A!Search

LEMMA AdminCheckStep ==
  ASSUME AdminInv, NEW h \in Handlers, A!Check(h)
  PROVE  AdminInv'
<1>1. look[h] \in Looks /\ look[h].kind # "update" /\ place[h] = "check"
  BY NoUpdate DEF AdminInv, LooksOK, A!Check, A!At
<1>2. UNCHANGED <<cached, admins, news, unheard, suspect>>
  BY DEF A!Check, A!telegram, A!doubt
<1>3. CASE A!Return(h)
  BY <1>1, <1>2, <1>3, ReturnLook
<1>4. CASE A!Goto(h, "decide") /\ UNCHANGED look
  <2>1. place' = [place EXCEPT ![h] = "decide"] /\ look' = [look EXCEPT ![h] = look[h]]
    BY <1>4 DEF A!Goto, AdminInv, LooksOK
  <2>2. LookOK("decide", look[h], cached, admins)
    BY <1>1 DEF AdminInv, LooksOK, LookOK
  <2> QED
    BY <1>1, <1>2, <2>1, <2>2, CommandLook DEF Stages
<1>5. CASE A!Goto(h, "lookup") /\ look' = [look EXCEPT ![h].second = TRUE]
  <2> DEFINE f == [look[h] EXCEPT !.second = TRUE]
  <2>1. f \in Looks /\ f.kind = look[h].kind
    BY <1>1 DEF Looks
  <2>2. place' = [place EXCEPT ![h] = "lookup"] /\ look' = [look EXCEPT ![h] = f]
    BY <1>1, <1>5 DEF A!Goto, AdminInv, LooksOK, Looks
  <2> HIDE DEF f
  <2>3. LookOK("lookup", f, cached, admins)
    BY <1>1, <2>1 DEF LookOK
  <2> QED
    BY <1>1, <1>2, <2>1, <2>2, <2>3, CommandLook DEF Stages
<1> QED
  BY <1>3, <1>4, <1>5 DEF A!Check

LEMMA StampStep ==
  ASSUME AdminInv, NEW h \in Handlers, A!Stamp(h)
  PROVE  AdminInv'
<1>1. look[h] \in Looks /\ look[h].kind # "update"
  BY NoUpdate DEF AdminInv, LooksOK, A!Stamp, A!At
<1>2. UNCHANGED <<cached, admins, news, unheard, suspect>>
  BY DEF A!Stamp, A!telegram, A!doubt
<1>3. CASE A!Return(h)
  BY <1>1, <1>2, <1>3, ReturnLook
<1>4. CASE A!Goto(h, "clear") /\ UNCHANGED look
  <2>1. place' = [place EXCEPT ![h] = "clear"] /\ look' = [look EXCEPT ![h] = look[h]]
    BY <1>4 DEF A!Goto, AdminInv, LooksOK
  <2>2. LookOK("clear", look[h], cached, admins)
    BY <1>1 DEF LookOK
  <2> QED
    BY <1>1, <1>2, <2>1, <2>2, CommandLook DEF Stages
<1> QED
  BY <1>3, <1>4 DEF A!Stamp

LEMMA AdminDecideStep ==
  ASSUME AdminInv, NEW h \in Handlers, A!Decide(h)
  PROVE  AdminInv'
<1>1. look[h].kind # "update"
  BY NoUpdate DEF A!Decide, A!At
<1> QED
  BY <1>1, ReturnLook DEF A!Decide, A!telegram, A!doubt
-----------------------------------------------------------------------------
(* The steps that change the list, or what it should be. *)

LEMMA FillStep ==
  ASSUME AdminInv, NEW h \in Handlers, A!Fill(h)
  PROVE  AdminInv'
<1> DEFINE f == look[h]
           k == IF f.kind = "reload" THEN A!Idle ELSE f
           label == IF f.kind = "reload" THEN "idle" ELSE A!Goes(f)
           F == [look EXCEPT ![h] = k]
<1>1. /\ f \in Looks /\ f.kind # "update" /\ place[h] = "fill"
      /\ (~ f.late => f.list = admins) /\ f.list \in SUBSET Users
  BY DEF AdminInv, LooksOK, LookOK, A!Fill, A!At, Looks
<1>2. k \in Looks /\ k.kind # "update" /\ label \in {"idle", "check", "decide"}
  BY <1>1, IdleLook DEF A!Goes
<1>3. /\ cached' = f.list /\ unheard' = {} /\ suspect' = f.late
      /\ look' = A!Late(F, h) /\ place' = [place EXCEPT ![h] = label]
      /\ UNCHANGED <<admins, news>>
  BY DEF A!Fill, A!Goto, A!telegram
<1>4. F \in [Handlers -> Looks] /\ F[h] = k /\ \A g \in Handlers : g # h => F[g] = look[g]
  BY <1>2 DEF AdminInv, LooksOK
<1>5. place' \in [Handlers -> Stages] /\ place'[h] = label /\ \A g \in Handlers : g # h => place'[g] = place[g]
  BY <1>2, <1>3 DEF AdminInv, LooksOK, Stages
<1>6. LookOK(label, k, cached', admins')
  <2>1. f.list # None
    BY <1>1, AdminsAssumption DEF A!AdminCacheAssumption
  <2>2. CASE f.kind = "reload"
    BY <2>2, IdleLook DEF LookOK
  <2>3. CASE f.kind # "reload"
    <3>1. k = f /\ label \in {"check", "decide"}
      BY <2>3 DEF A!Goes
    <3> HIDE DEF k, label, f
    <3> QED
      BY <1>1, <1>3, <2>1, <3>1 DEF LookOK
  <2> QED
    BY <2>2, <2>3
<1> HIDE DEF F, k, label
<1>7. LooksOK'
  BY <1>3, <1>4, <1>5, <1>6, LateLook
<1>8. Ranks'
  BY <1>1, <1>3 DEF AdminInv, Ranks
<1>9. A!WrongForAReason'
  BY <1>1, <1>3 DEF A!WrongForAReason, A!Listed
<1> QED
  BY <1>7, <1>8, <1>9 DEF AdminInv

\* Nobody has a list any more, and everybody who holds one is late.
LEMMA ForgetStep ==
  ASSUME AdminInv, NEW g, look' = A!Late(look, g), place' \in [Handlers -> Stages],
         \A h \in Handlers : h # g => place'[h] = place[h],
         g \in Handlers => LookOK(place'[g], look[g], cached', admins'),
         cached' = None, UNCHANGED <<admins, news>>
  PROVE  AdminInv'
<1>1. LooksOK'
  BY LateLook DEF AdminInv, LooksOK
<1> QED
  BY <1>1 DEF AdminInv, Ranks, A!WrongForAReason

LEMMA ClearStep ==
  ASSUME AdminInv, NEW h \in Handlers, A!ClearAdminCache(h)
  PROVE  AdminInv'
<1>1. /\ cached' = None /\ look' = A!Late(look, h) /\ UNCHANGED <<admins, news>>
      /\ place' = [place EXCEPT ![h] = "search"] /\ place[h] = "clear"
  BY DEF A!ClearAdminCache, A!Goto, A!At, A!telegram
<1>2. place' \in [Handlers -> Stages] /\ place'[h] = "search" /\ \A g \in Handlers : g # h => place'[g] = place[g]
  BY <1>1 DEF AdminInv, LooksOK, Stages
<1>3. LookOK("search", look[h], cached', admins')
  BY <1>1, NoUpdate DEF LookOK
<1> QED
  BY <1>1, <1>2, <1>3, ForgetStep

LEMMA ExpireStep ==
  ASSUME AdminInv, A!Expire
  PROVE  AdminInv'
<1>1. None \notin Handlers
  BY AdminsAssumption DEF A!AdminCacheAssumption
<1>2. place' = place /\ place \in [Handlers -> Stages]
  BY DEF AdminInv, LooksOK, A!Expire
<1> QED
  BY <1>1, <1>2, ForgetStep DEF A!Expire, A!telegram

LEMMA CoolStep ==
  ASSUME AdminInv, A!Cool \/ UNCHANGED (A!vars)
  PROVE  AdminInv'
<1>1. UNCHANGED <<admins, cached, news, place, look, unheard, suspect>>
  BY DEF A!Cool, A!vars, A!telegram, A!doubt
<1> QED
  BY <1>1 DEF AdminInv, Ranks, LooksOK, A!WrongForAReason, A!Coming

\* Everybody is late: who is coming does not change.
LEMMA StillComing ==
  ASSUME AdminInv, NEW u \in Users, A!Coming(u), NEW F \in [Handlers -> Looks], NEW g,
         look' = A!Late(F, g), news \subseteq news',
         \A h \in Handlers : look[h].kind = "update" =>
                               F[h].kind = "update" /\ F[h].user = look[h].user
  PROVE  A!Coming(u)'
<1>1. CASE \E m \in news : m.user = u
  BY <1>1 DEF A!Coming
<1>2. CASE \E h \in Handlers : look[h].kind = "update" /\ look[h].user = u
  <2>1. PICK h \in Handlers : look[h].kind = "update" /\ look[h].user = u
    BY <1>2
  <2>2. look'[h].kind = "update" /\ look'[h].user = u
    BY <2>1, LateComing
  <2> QED
    BY <2>1, <2>2 DEF A!Coming
<1> QED
  BY <1>1, <1>2 DEF A!Coming

LEMMA AppointStep ==
  ASSUME AdminInv, NEW u \in Users, A!Appoint(u) \/ A!Authorize(u)
  PROVE  AdminInv'
<1>1. None \notin Handlers /\ look \in [Handlers -> Looks] /\ place \in [Handlers -> Stages]
  BY AdminsAssumption DEF A!AdminCacheAssumption, AdminInv, LooksOK
<1>2. look' = A!Late(look, None) /\ UNCHANGED <<place, cached, suspect>> /\ news \subseteq news'
  BY DEF A!Appoint, A!Authorize, A!doubt
<1>3. LooksOK'
  BY <1>1, <1>2, LateLook
<1>4. \A v \in Users : A!Coming(v) => A!Coming(v)'
  BY <1>1, <1>2, StillComing
<1>5. CASE A!Authorize(u)
  <2>1. UNCHANGED <<admins, news, unheard>>
    BY <1>5 DEF A!Authorize, A!doubt
  <2> QED
    BY <1>2, <1>3, <1>4, <2>1 DEF AdminInv, Ranks, A!WrongForAReason
<1>6. CASE A!Appoint(u)
  <2>1. /\ admins' = IF u \in admins THEN admins \ {u} ELSE admins \cup {u}
        /\ news' = news \cup {[user |-> u, admin |-> u \notin admins]}
        /\ unheard' = unheard \cup ({u} \ {Bot})
    BY <1>6 DEF A!Appoint
  <2>2. Ranks'
    <3>1. (u \notin admins) \in BOOLEAN
      OBVIOUS
    <3>2. [user |-> u, admin |-> u \notin admins] \in [user : Users, admin : BOOLEAN]
      BY <3>1
    <3> QED
      BY <1>2, <2>1, <3>2 DEF AdminInv, Ranks
  <2>3. A!Coming(u)' \/ u \in unheard'
    <3> DEFINE rank == u \notin admins
               m == [user |-> u, admin |-> rank]
    <3>1. m \in news'
      BY <2>1, Zenon
    <3> HIDE DEF rank
    <3>2. m.user = u
      OBVIOUS
    <3> HIDE DEF m
    <3>3. \E n \in news' : n.user = u
      BY <3>1, <3>2
    <3> QED
      BY <2>1, <3>3 DEF A!Coming
  <2>4. \A v \in Users \ {u} : (v \in admins' <=> v \in admins) /\ (v \in unheard <=> v \in unheard')
    BY <2>1
  <2>5. A!WrongForAReason'
    BY <1>2, <1>4, <2>3, <2>4 DEF AdminInv, A!WrongForAReason, A!Listed
  <2> QED
    BY <1>3, <2>2, <2>5 DEF AdminInv
<1> QED
  BY <1>5, <1>6

\* What a handler is about to write, or not to write, about one user.
LEMMA CorrectStep ==
  ASSUME AdminInv, NEW h \in Handlers, A!Correct(h)
  PROVE  AdminInv'
<1> DEFINE f == look[h]
<1>1. f \in Looks /\ f.kind = "update" /\ place[h] = "correct" /\ look \in [Handlers -> Looks]
  BY DEF AdminInv, LooksOK, LookOK, A!Correct, A!At
<1>2. UNCHANGED <<admins, news, cached, unheard>>
  BY DEF A!Correct, A!telegram
<1>3. CASE /\ cached = None \/ (f.user \notin A!Listed(cached) /\ ~ f.admin)
           /\ suspect' = (suspect \/ A!Outdated(f))
           /\ A!Goto(h, "idle") /\ look' = A!Late([look EXCEPT ![h] = A!Idle], h)
  <2> DEFINE F == [look EXCEPT ![h] = A!Idle]
  <2>1. F \in [Handlers -> Looks] /\ F[h] = A!Idle /\ \A g \in Handlers : g # h => F[g] = look[g]
    BY <1>1, IdleLook
  <2>2. /\ place' \in [Handlers -> Stages] /\ place'[h] = "idle"
        /\ \A g \in Handlers : g # h => place'[g] = place[g]
    BY <1>3 DEF AdminInv, LooksOK, A!Goto, Stages
  <2>3. LookOK("idle", A!Idle, cached', admins')
    BY IdleLook DEF LookOK
  <2> HIDE DEF F
  <2>4. LooksOK'
    BY <1>3, <2>1, <2>2, <2>3, LateLook DEF F
  <2>5. ASSUME NEW u \in Users, A!Coming(u)
        PROVE  u = f.user \/ A!Coming(u)'
    <3>1. CASE \E m \in news : m.user = u
      BY <1>2, <2>5, <3>1 DEF A!Coming
    <3>2. CASE \E g \in Handlers : look[g].kind = "update" /\ look[g].user = u
      <4>1. PICK g \in Handlers : look[g].kind = "update" /\ look[g].user = u
        BY <3>2
      <4>2. CASE g # h
        <5>1. look'[g].kind = "update" /\ look'[g].user = u
          BY <1>3, <2>1, <4>1, <4>2, LateComing DEF F
        <5> QED
          BY <2>5, <5>1 DEF A!Coming
      <4> QED
        BY <4>1, <4>2
    <3> QED
      BY <2>5, <3>1, <3>2 DEF A!Coming
  <2>6. A!WrongForAReason'
    BY <1>1, <1>2, <1>3, <2>5 DEF AdminInv, A!WrongForAReason, A!Outdated, A!Listed, Looks
  <2> QED
    BY <1>2, <2>4, <2>6 DEF AdminInv, Ranks
<1>4. CASE /\ cached # None /\ (f.user \in A!Listed(cached) \/ f.admin)
           /\ look' = [look EXCEPT ![h].list = A!Corrected(cached, f.user, f.admin),
                                     ![h].late = FALSE]
           /\ A!Goto(h, "write")
           /\ UNCHANGED suspect
  <2> DEFINE k == [f EXCEPT !.list = A!Corrected(cached, f.user, f.admin), !.late = FALSE]
  <2>1. A!Corrected(cached, f.user, f.admin) \in SUBSET Users
    BY <1>1, <1>4 DEF A!Corrected, AdminInv, Ranks, Looks
  <2>2. /\ k \in Looks /\ k.kind = "update" /\ k.user = f.user /\ k.admin = f.admin
        /\ k.list = A!Corrected(cached, f.user, f.admin)
    BY <1>1, <2>1 DEF Looks
  <2>3. /\ place' = [place EXCEPT ![h] = "write"] /\ look' = [look EXCEPT ![h] = k]
    BY <1>1, <1>4 DEF A!Goto
  <2> HIDE DEF k
  <2>4. LookOK("write", k, cached, admins)
    BY <1>4, <2>2 DEF LookOK
  <2>5. LooksOK'
    BY <1>2, <2>2, <2>3, <2>4, AsideLook DEF Stages
  <2>6. ASSUME NEW u \in Users, A!Coming(u)
        PROVE  A!Coming(u)'
    <3>1. CASE \E m \in news : m.user = u
      BY <1>2, <2>6, <3>1 DEF A!Coming
    <3>2. CASE \E g \in Handlers : look[g].kind = "update" /\ look[g].user = u
      <4>1. PICK g \in Handlers : look[g].kind = "update" /\ look[g].user = u
        BY <3>2
      <4>2. look'[g].kind = "update" /\ look'[g].user = u
        BY <1>1, <2>2, <2>3, <4>1 DEF f
      <4> QED
        BY <2>6, <4>2 DEF A!Coming
    <3> QED
      BY <2>6, <3>1, <3>2 DEF A!Coming
  <2>7. A!WrongForAReason'
    BY <1>2, <1>4, <2>6 DEF AdminInv, A!WrongForAReason
  <2> QED
    BY <1>2, <2>5, <2>7 DEF AdminInv, Ranks
<1> QED
  BY <1>3, <1>4 DEF A!Correct

LEMMA WriteStep ==
  ASSUME AdminInv, NEW h \in Handlers, A!WriteList(h)
  PROVE  AdminInv'
<1> DEFINE f == look[h]
           F == [look EXCEPT ![h] = A!Idle]
<1>1. /\ f \in Looks /\ f.kind = "update" /\ place[h] = "write" /\ look \in [Handlers -> Looks]
      /\ ~ f.late => cached # None /\ f.list = A!Corrected(cached, f.user, f.admin)
      /\ f.list \in SUBSET Users
  BY DEF AdminInv, LooksOK, LookOK, A!WriteList, A!At, Looks
<1>2. /\ cached' = f.list /\ suspect' = (suspect \/ f.late \/ A!Outdated(f))
      /\ look' = A!Late(F, h) /\ place' = [place EXCEPT ![h] = "idle"]
      /\ UNCHANGED <<admins, news, unheard>>
  BY DEF A!WriteList, A!Goto, A!telegram
<1>3. F \in [Handlers -> Looks] /\ F[h] = A!Idle /\ \A g \in Handlers : g # h => F[g] = look[g]
  BY <1>1, IdleLook
<1>4. /\ place' \in [Handlers -> Stages] /\ place'[h] = "idle"
      /\ \A g \in Handlers : g # h => place'[g] = place[g]
  BY <1>2 DEF AdminInv, LooksOK, Stages
<1>5. LookOK("idle", A!Idle, cached', admins')
  BY IdleLook DEF LookOK
<1> HIDE DEF F
<1>6. LooksOK'
  BY <1>2, <1>3, <1>4, <1>5, LateLook
<1>7. ASSUME NEW u \in Users, A!Coming(u)
      PROVE  u = f.user \/ A!Coming(u)'
  <2>1. CASE \E m \in news : m.user = u
    BY <1>2, <1>7, <2>1 DEF A!Coming
  <2>2. CASE \E g \in Handlers : look[g].kind = "update" /\ look[g].user = u
    <3>1. PICK g \in Handlers : look[g].kind = "update" /\ look[g].user = u
      BY <2>2
    <3>2. CASE g # h
      <4>1. look'[g].kind = "update" /\ look'[g].user = u
        BY <1>2, <1>3, <3>1, <3>2, LateComing
      <4> QED
        BY <1>7, <4>1 DEF A!Coming
    <3> QED
      BY <3>1, <3>2
  <2> QED
    BY <1>7, <2>1, <2>2 DEF A!Coming
<1>8. A!WrongForAReason'
  <2> SUFFICES ASSUME ~ suspect, ~ f.late, f.admin = (f.user \in admins), NEW u \in Users
               PROVE  (u \in A!Listed(f.list) <=> u \in admins) \/ A!Coming(u)' \/ u \in unheard
    BY <1>2 DEF A!WrongForAReason, A!Outdated
  <2>1. /\ cached # None /\ f.list = A!Corrected(cached, f.user, f.admin)
        /\ f.list # None
    BY <1>1, AdminsAssumption DEF A!AdminCacheAssumption
  <2>2. CASE u = f.user
    BY <2>1, <2>2 DEF A!Corrected, A!Listed
  <2>3. CASE u # f.user
    <3>1. u \in A!Listed(f.list) <=> u \in A!Listed(cached)
      BY <2>1, <2>3 DEF A!Corrected, A!Listed
    <3>2. (u \in A!Listed(cached) <=> u \in admins) \/ A!Coming(u) \/ u \in unheard
      BY <2>1 DEF AdminInv, A!WrongForAReason
    <3> HIDE DEF f
    <3> QED
      BY <1>7, <2>3, <3>1, <3>2
  <2> QED
    BY <2>2, <2>3
<1> QED
  BY <1>1, <1>2, <1>6, <1>8 DEF AdminInv, Ranks

LEMMA HearStep ==
  ASSUME AdminInv, NEW h \in Handlers, A!Hear(h)
  PROVE  AdminInv'
<1>1. PICK m \in news :
        /\ news' = news \ {m}
        /\ \/ /\ m.user \in {Bot}
              /\ look' = [look EXCEPT ![h] =
                   [A!Idle EXCEPT !.kind = "update", !.user = m.user, !.admin = m.admin]]
              /\ A!Goto(h, "correct")
              /\ UNCHANGED <<failures, suspect>>
           \/ /\ m.user \in {Bot} /\ A!Fails
              /\ suspect' = TRUE
              /\ look' = A!Late(look, h)
              /\ UNCHANGED place
           \/ /\ m.user \notin {Bot}
              /\ UNCHANGED <<failures, suspect, look, place>>
  BY DEF A!Hear
<1>2. UNCHANGED <<admins, cached, unheard>> /\ place[h] = "idle" /\ look[h].kind # "update"
  BY NoUpdate DEF A!Hear, A!At
<1>3. Ranks'
  BY <1>1, <1>2 DEF AdminInv, Ranks
<1>4. m.user \in Users /\ m.admin \in BOOLEAN
  BY DEF AdminInv, Ranks
<1>5. look \in [Handlers -> Looks] /\ place \in [Handlers -> Stages]
  BY DEF AdminInv, LooksOK
<1>6. CASE /\ m.user \in {Bot}
           /\ look' = [look EXCEPT ![h] =
                [A!Idle EXCEPT !.kind = "update", !.user = m.user, !.admin = m.admin]]
           /\ A!Goto(h, "correct")
           /\ UNCHANGED <<failures, suspect>>
  <2> DEFINE k == [A!Idle EXCEPT !.kind = "update", !.user = m.user, !.admin = m.admin]
  <2>1. k \in Looks /\ k.kind = "update" /\ k.user = m.user
    BY <1>4, IdleLook DEF Looks, A!Kinds
  <2>2. place' = [place EXCEPT ![h] = "correct"] /\ look' = [look EXCEPT ![h] = k]
    BY <1>6 DEF A!Goto
  <2> HIDE DEF k
  <2>3. LookOK("correct", k, cached, admins)
    BY <2>1 DEF LookOK
  <2>4. LooksOK'
    BY <1>2, <2>1, <2>2, <2>3, AsideLook DEF Stages
  <2>5. ASSUME NEW u \in Users, A!Coming(u)
        PROVE  A!Coming(u)'
    <3>1. look'[h].kind = "update" /\ look'[h].user = m.user
      BY <1>5, <2>1, <2>2
    <3>2. ASSUME NEW n \in news, n.user = u
          PROVE  A!Coming(u)'
      <4>1. CASE n = m
        BY <2>5, <3>1, <3>2, <4>1 DEF A!Coming
      <4>2. CASE n # m
        BY <1>1, <2>5, <3>2, <4>2 DEF A!Coming
      <4> QED
        BY <4>1, <4>2
    <3>3. ASSUME NEW g \in Handlers, look[g].kind = "update", look[g].user = u
          PROVE  A!Coming(u)'
      <4>1. look'[g] = look[g]
        BY <1>2, <1>5, <2>2, <3>3
      <4> QED
        BY <2>5, <3>3, <4>1 DEF A!Coming
    <3> QED
      BY <2>5, <3>2, <3>3 DEF A!Coming
  <2>6. A!WrongForAReason'
    BY <1>2, <1>6, <2>5 DEF AdminInv, A!WrongForAReason
  <2> QED
    BY <1>3, <2>4, <2>6 DEF AdminInv
<1>7. CASE suspect' = TRUE /\ look' = A!Late(look, h) /\ UNCHANGED place
  <2>1. LookOK(place[h], look[h], cached', admins')
    BY <1>2 DEF AdminInv, LooksOK, LookOK
  <2>2. LooksOK'
    BY <1>5, <1>7, <2>1, LateLook
  <2> QED
    BY <1>3, <1>7, <2>2 DEF AdminInv, A!WrongForAReason
<1>8. CASE m.user \notin {Bot} /\ UNCHANGED <<failures, suspect, look, place>>
  <2>1. LooksOK'
    BY <1>2, <1>8 DEF AdminInv, LooksOK
  <2>2. \A u \in Users : A!Coming(u) => A!Coming(u)'
    BY <1>1, <1>8 DEF A!Coming
  <2>3. A!WrongForAReason'
    BY <1>2, <1>8, <2>2 DEF AdminInv, A!WrongForAReason
  <2> QED
    BY <1>3, <2>1, <2>3 DEF AdminInv
<1> QED
  BY <1>1, <1>6, <1>7, <1>8

LEMMA AdminStep == AdminInv /\ [A!Next]_(A!vars) => AdminInv'
<1> SUFFICES ASSUME AdminInv, [A!Next]_(A!vars)
             PROVE  AdminInv'
  OBVIOUS
<1>1. ASSUME NEW h \in Handlers, A!Command(h) \/ A!Reload(h) \/ A!Hear(h)
      PROVE  AdminInv'
  BY <1>1, CommandStep, HearStep
<1>2. ASSUME NEW h \in Handlers, A!Step(h)
      PROVE  AdminInv'
  BY <1>2, LookupStep, SearchStep, FillStep, AdminCheckStep, AdminDecideStep, CorrectStep, WriteStep,
     StampStep, ClearStep DEF A!Step
<1>3. ASSUME NEW u \in Users, A!Appoint(u) \/ A!Authorize(u)
      PROVE  AdminInv'
  BY <1>3, AppointStep
<1>4. CASE A!Expire \/ A!Cool \/ UNCHANGED (A!vars)
  BY <1>4, ExpireStep, CoolStep
<1> QED
  BY <1>1, <1>2, <1>3, <1>4 DEF A!Next

\* A handler that is about to decide knows the list, or has a reason not to.
LEMMA LetThrough ==
  ASSUME AdminInv, NEW h \in Handlers, A!At(h, "decide"), A!Allows(look[h])
  PROVE  \/ look[h].user \in admins \cup authorized \cup unheard
         \/ everyone \/ suspect \/ look[h].late \/ A!Coming(look[h].user)
<1> DEFINE u == look[h].user
<1>1. u \in Users /\ (~ look[h].late => cached # None /\ look[h].list = cached)
  BY DEF AdminInv, LooksOK, LookOK, A!At, Looks
<1>2. CASE everyone \/ u \in authorized
  BY <1>2
<1>3. CASE u \in A!Listed(cached)
  <2>1. cached # None
    BY <1>3 DEF A!Listed
  <2> QED
    BY <1>1, <1>3, <2>1 DEF AdminInv, A!WrongForAReason
<1>4. CASE u \in look[h].list
  BY <1>1, <1>4 DEF AdminInv, A!WrongForAReason, A!Listed
<1> QED
  BY <1>2, <1>3, <1>4 DEF A!Allows

-----------------------------------------------------------------------------
\* The cached list of administrators is wrong about the bot only while an
\* update about it is on its way or is handled, about others only if their rank
\* has changed since the list was fetched, and otherwise only if two writers
\* have overlapped, an update was lost or one has overtaken another (admins.go:121,
\* 195-241, participant.go:37).
THEOREM WrongOnlyForAReason == A!Spec => []WrongForAReason
<1>1. AdminInv => WrongForAReason
  BY DEF AdminInv, WrongForAReason
<1> QED
  BY <1>1, AdminInit, AdminStep, PTL DEF A!Spec

\* Whoever is let through is an administrator, is authorized, or the list was
\* wrong about them for one of those reasons or has changed since the handler
\* looked (filters.go:76, 138, auth.go:20).
THEOREM OnlyAdminsPass == A!Spec => FormerAdminsRefused
<1>1. A!Spec => []AdminInv
  BY AdminInit, AdminStep, PTL DEF A!Spec
<1>2. AdminInv /\ [A!Next]_(A!vars) =>
        [\A h \in Handlers :
           (A!At(h, "decide") /\ place'[h] = "idle" /\ A!Allows(look[h]))
             => LET u == look[h].user IN
                \/ u \in admins \cup authorized \cup unheard
                \/ everyone \/ suspect \/ look[h].late \/ A!Coming(u)]_(A!vars)
  BY LetThrough
<1> QED
  BY <1>1, <1>2, PTL DEF A!Spec, A!FormerAdminsRefused, FormerAdminsRefused
=============================================================================
