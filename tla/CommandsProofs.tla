--------------------------- MODULE CommandsProofs ---------------------------
(***************************************************************************)
(* Proofs about Broadcast and Playlist, for any chats, users, handlers,    *)
(* owners, playlists and tracks.  First the two flags of a broadcast, then *)
(* the flags of its targets, then the playlists (P! names Playlist's       *)
(* definitions), last the results.                                         *)
(***************************************************************************)
EXTENDS MCCommands, FiniteSetTheorems, TLAPS

Labels == {"idle", "chats", "users", "reset", "raise", "go", "sending", "mark", "report"}

\* Without an overlap one handler at most is busy, from its look at the flag
\* to its report: this is what FlagIsRight, OneBroadcast and StopIsObeyed rest
\* on.
Alone == \/ overlapped
         \/ \A g, h \in Handlers : Busy(g) /\ Busy(h) => g = h

\* What a handler h and the flag that cancels it know of each other.
ToldOne(h) ==
  /\ pc[h] \in {"raise", "go", "sending", "mark"} => (cancelled <=> run[h].after >= 0)
  /\ pc[h] \in {"raise", "sending"} => run[h].after <= 0
  /\ pc[h] = "report" /\ run[h].left # {} => run[h].after >= 0
  /\ run[h].after <= 1

Told == overlapped \/ \A h \in Handlers : ToldOne(h)

\* Nobody is told to stop before it has taken back what was said before.
Untold == \A h \in Handlers :
            pc[h] \in {"idle", "chats", "users", "reset"} => run[h].after = -1

\* A command that has found the flag up has found the broadcast of h, or was on
\* when the command of h came; so has one that told it to stop.
MeantOne(h) ==
  /\ run[h].after >= 0 => run[h].meant \/ run[h].crossed
  /\ Busy(h) => \A s \in stops : run[h].id \in s.found \/ run[h].crossed

Meant == overlapped \/ \A h \in Handlers : MeantOne(h)

\* The part of TypeOK the rest needs.
Runs == [mode : Modes \cup {NoMode}, id : 0 .. MaxCommands, left : SUBSET Targets,
         at : SUBSET Targets, back : BOOLEAN, after : -1 .. 2, meant : BOOLEAN, crossed : BOOLEAN]
Orders == [id : 1 .. MaxCommands, found : SUBSET (0 .. MaxCommands)]
Typed ==
  /\ overlapped \in BOOLEAN /\ inProgress \in BOOLEAN /\ cancelled \in BOOLEAN
  /\ pc \in [Handlers -> Labels]
  /\ run \in [Handlers -> Runs]
  /\ stops \subseteq Orders /\ commands \in 0 .. MaxCommands

Inv == Typed /\ Alone /\ FlagIsRight /\ Untold /\ Told /\ Meant

\* r is the same broadcast as q.
Same(r, q) == r.id = q.id /\ r.meant = q.meant /\ r.crossed = q.crossed

LEMMA NoRunOK == NoRun \in Runs /\ NoRun.after = -1
  BY BroadcastAssumption DEF NoRun, Runs, NoMode

LEMMA InitInv == Init => Inv
<1> SUFFICES ASSUME Init PROVE Inv
  OBVIOUS
<1>1. pc = [h \in Handlers |-> "idle"] /\ run = [h \in Handlers |-> NoRun]
  BY DEF Init
<1>2. /\ inProgress = FALSE /\ cancelled = FALSE /\ overlapped = FALSE
  BY DEF Init
<1>3. Typed
  <2>1. pc \in [Handlers -> Labels] /\ run \in [Handlers -> Runs]
    BY <1>1, NoRunOK DEF Labels
  <2>2. stops \subseteq Orders /\ commands \in 0 .. MaxCommands
    BY BroadcastAssumption DEF Init
  <2> QED
    BY <1>2, <2>1, <2>2 DEF Typed
<1>4. \A h \in Handlers : ~ Busy(h) /\ ~ Running(h)
  BY <1>1 DEF Busy, Running, At
<1>5. Alone /\ FlagIsRight
  BY <1>2, <1>4 DEF Alone, FlagIsRight
<1>6. Untold /\ Told /\ Meant
  BY <1>1, <1>4, NoRunOK DEF Untold, Told, ToldOne, Meant, MeantOne
<1> QED
  BY <1>3, <1>5, <1>6 DEF Inv

\* A step of h among its own labels that leaves the flags alone and keeps it
\* as busy and as running as it was.
LEMMA MoveInv ==
  ASSUME Inv, NEW h \in Handlers, NEW l \in Labels \ {"idle"}, NEW r \in Runs,
         UNCHANGED <<inProgress, cancelled, overlapped, stops, commands>>,
         pc' = [pc EXCEPT ![h] = l], run' = [run EXCEPT ![h] = r],
         Same(r, run[h]), r.after >= 0 => run[h].after >= 0,
         pc[h] # "idle",
         pc[h] \in {"go", "sending", "mark", "report"}
           <=> l \in {"go", "sending", "mark", "report"},
         l \in {"chats", "users", "reset"} => r.after = -1,
         ~ overlapped => ToldOne(h)'
  PROVE  Inv'
<1>1. Typed'
  BY DEF Inv, Typed
<1>2. \A g \in Handlers : /\ pc'[g] = IF g = h THEN l ELSE pc[g]
                          /\ run'[g] = IF g = h THEN r ELSE run[g]
  BY DEF Inv, Typed
<1>3. \A g \in Handlers : (Busy(g)' <=> Busy(g)) /\ (Running(g)' <=> Running(g))
  BY <1>2 DEF Busy, Running, At
<1>4. Alone'
  BY <1>3 DEF Inv, Alone
<1>5. FlagIsRight'
  BY <1>3 DEF Inv, FlagIsRight
<1>6. Untold'
  BY <1>2 DEF Inv, Untold, Labels
<1>7. Told'
  <2> SUFFICES ASSUME ~ overlapped, NEW g \in Handlers, g # h PROVE ToldOne(g)'
    BY DEF Told
  <2>1. ToldOne(g)
    BY DEF Inv, Told
  <2>2. pc'[g] = pc[g] /\ run'[g] = run[g]
    BY <1>2
  <2> QED
    BY <2>1, <2>2 DEF ToldOne
<1>8. Meant'
  <2> SUFFICES ASSUME ~ overlapped, NEW g \in Handlers PROVE MeantOne(g)'
    BY DEF Meant
  <2>1. MeantOne(g)
    BY DEF Inv, Meant
  <2>2. Same(run'[g], run[g]) /\ (run'[g].after >= 0 => run[g].after >= 0)
    BY <1>2 DEF Same
  <2> QED
    BY <1>3, <2>1, <2>2 DEF MeantOne, Same
<1> QED
  BY <1>1, <1>4, <1>5, <1>6, <1>7, <1>8 DEF Inv

\* h is done: an overlap is over when nobody else is busy.
LEMMA ReturnInv ==
  ASSUME Inv, NEW h \in Handlers, Busy(h), Return(h), Settles(h),
         UNCHANGED <<cancelled, stops, commands>>,
         inProgress' = FALSE \/ (UNCHANGED inProgress /\ ~ Running(h)),
         ~ Running(h) \/ inProgress' = FALSE
  PROVE  Inv'
<1>1. pc' = [pc EXCEPT ![h] = "idle"] /\ run' = [run EXCEPT ![h] = NoRun]
  BY DEF Return, Goto
<1>2. overlapped' = (overlapped /\ \E g \in Handlers \ {h} : Busy(g))
  BY DEF Settles
<1>3. Typed'
  BY <1>1, <1>2, NoRunOK DEF Inv, Typed, Labels
<1>4. \A g \in Handlers : /\ pc'[g] = IF g = h THEN "idle" ELSE pc[g]
                          /\ run'[g] = IF g = h THEN NoRun ELSE run[g]
  BY <1>1 DEF Inv, Typed
<1>5. \A g \in Handlers : /\ Busy(g)' <=> (g # h /\ Busy(g))
                          /\ Running(g)' <=> (g # h /\ Running(g))
                          /\ Running(g) => Busy(g)
  BY <1>4 DEF Busy, Running, At
\* Others are busy only in an overlap, and it goes on as long as they are.
<1>6. (\E g \in Handlers \ {h} : Busy(g)) => overlapped /\ overlapped'
  <2>1. (\E g \in Handlers \ {h} : Busy(g)) => overlapped
    BY DEF Inv, Alone
  <2> QED
    BY <2>1, <1>2
<1>7. ~ overlapped' => \A g \in Handlers : ~ Busy(g)' /\ pc'[g] = "idle"
  BY <1>4, <1>5, <1>6 DEF Busy, At
<1>8. Alone'
  BY <1>7 DEF Alone
<1>9. FlagIsRight'
  <2>1. (\E g \in Handlers : Running(g)') => overlapped'
    BY <1>5, <1>6
  <2>2. inProgress' => \E g \in Handlers : Running(g)'
    BY <1>5 DEF Inv, FlagIsRight
  <2> QED
    BY <2>1, <2>2 DEF FlagIsRight
<1>10. Untold'
  BY <1>4, NoRunOK DEF Inv, Untold
<1>11. Told'
  BY <1>7, <1>10 DEF Told, ToldOne, Untold
<1>12. Meant'
  BY <1>7, <1>10 DEF Meant, MeantOne, Untold
<1> QED
  BY <1>3, <1>8, <1>9, <1>10, <1>11, <1>12 DEF Inv

\* Whoever finds the flag down while another is busy makes an overlap.
LEMMA BroadcastInv ==
  ASSUME Inv, NEW h \in Handlers, NEW mode \in Modes, Broadcast(h, mode)
  PROVE  Inv'
<1> DEFINE r == [run[h] EXCEPT !.mode = mode, !.id = commands, !.crossed = stops # {}]
<1>1. /\ pc[h] = "idle" /\ pc' = [pc EXCEPT ![h] = "chats"]
      /\ run' = [run EXCEPT ![h] = r]
      /\ inProgress' = inProgress /\ cancelled' = cancelled /\ stops' = stops
      /\ ~ inProgress
  <2>1. run' = [run EXCEPT ![h].mode = mode, ![h].id = commands, ![h].crossed = stops # {}]
    BY DEF Broadcast
  <2>2. run' = [run EXCEPT ![h] = r]
    BY <2>1 DEF Inv, Typed, Runs
  <2> HIDE DEF r
  <2> QED
    BY <2>2 DEF Broadcast, At, Goto, flags
<1>2. overlapped' = (overlapped \/ \E g \in Handlers : Busy(g))
  BY DEF Broadcast
<1>3. \A g \in Handlers : /\ pc'[g] = IF g = h THEN "chats" ELSE pc[g]
                          /\ run'[g] = IF g = h THEN r ELSE run[g]
  BY <1>1 DEF Inv, Typed
<1>4. r \in Runs /\ r.after = run[h].after /\ (stops # {} => r.crossed)
  BY DEF Inv, Typed, Runs
<1> HIDE DEF r
<1>5. Typed'
  <2>1. pc' \in [Handlers -> Labels]
    BY <1>1 DEF Inv, Typed, Labels
  <2>2. run' \in [Handlers -> Runs]
    BY <1>1, <1>4 DEF Inv, Typed
  <2>3. overlapped' \in BOOLEAN
    BY <1>2
  <2>4. commands' \in 0 .. MaxCommands
    BY BroadcastAssumption DEF Broadcast, Inv, Typed
  <2> QED
    BY <1>1, <2>1, <2>2, <2>3, <2>4 DEF Inv, Typed
<1>6. \A g \in Handlers : Running(g)' <=> Running(g)
  BY <1>1, <1>3 DEF Running
<1>7. \A g \in Handlers : Busy(g)' <=> (g = h \/ Busy(g))
  BY <1>3 DEF Busy, At
<1>8. Alone'
  BY <1>2, <1>7 DEF Alone
<1>9. FlagIsRight'
  BY <1>1, <1>2, <1>6 DEF Inv, FlagIsRight
<1>10. Untold'
  BY <1>1, <1>3, <1>4 DEF Inv, Untold
<1>11. Told'
  <2> SUFFICES ASSUME ~ overlapped', NEW g \in Handlers PROVE ToldOne(g)'
    BY DEF Told
  <2>1. ToldOne(g)
    BY <1>2 DEF Inv, Told
  <2>2. CASE g = h
    BY <1>1, <1>3, <1>4, <2>1, <2>2 DEF ToldOne
  <2>3. CASE g # h
    BY <1>1, <1>3, <2>1, <2>3 DEF ToldOne
  <2> QED
    BY <2>2, <2>3
<1>12. Meant'
  <2> SUFFICES ASSUME ~ overlapped', NEW g \in Handlers PROVE MeantOne(g)'
    BY DEF Meant
  <2>1. MeantOne(g) /\ run[h].after = -1
    BY <1>1, <1>2 DEF Inv, Meant, Untold
  <2>2. CASE g = h
    BY <1>1, <1>3, <1>4, <2>1, <2>2 DEF MeantOne
  <2>3. CASE g # h
    BY <1>1, <1>3, <1>7, <2>1, <2>3 DEF MeantOne
  <2> QED
    BY <2>2, <2>3
<1> QED
  BY <1>5, <1>8, <1>9, <1>10, <1>11, <1>12 DEF Inv

LEMMA ActiveChatsInv == ASSUME Inv, NEW h \in Handlers, ActiveChats(h) PROVE Inv'
<1>1. PICK chats \in {Chats \ flagged, {}} :
        run' = [run EXCEPT ![h].left = IF run[h].mode = "user" THEN {} ELSE chats]
  BY DEF ActiveChats
<1> DEFINE r == [run[h] EXCEPT !.left = IF run[h].mode = "user" THEN {} ELSE chats]
<1>2. r \in Runs /\ r.after = run[h].after /\ Same(r, run[h]) /\ run' = [run EXCEPT ![h] = r]
  BY <1>1 DEF Inv, Typed, Runs, Targets, Same
<1>3. pc[h] = "chats" /\ pc' = [pc EXCEPT ![h] = "users"]
  BY DEF ActiveChats, At, Goto
<1>4. UNCHANGED <<inProgress, cancelled, overlapped, stops, commands>>
  BY DEF ActiveChats, flags, bounds
<1>5. r.after = -1
  BY <1>2, <1>3 DEF Inv, Untold
<1>6. pc'[h] = "users" /\ run'[h] = r
  BY <1>2, <1>3 DEF Inv, Typed
<1>7. ToldOne(h)'
  BY <1>5, <1>6 DEF ToldOne
<1> HIDE DEF r
<1> QED
  BY <1>2, <1>3, <1>4, <1>5, <1>7, MoveInv DEF Labels

LEMMA ActiveUsersInv == ASSUME Inv, NEW h \in Handlers, ActiveUsers(h) PROVE Inv'
<1>1. pc[h] = "users" /\ UNCHANGED <<inProgress, cancelled, stops, commands>>
  BY DEF ActiveUsers, At, flags, bounds
<1>2. CASE Return(h) /\ Settles(h)
  BY <1>1, <1>2, ReturnInv DEF Busy, Running, At
<1>3. CASE \E left \in SUBSET Targets :
             /\ run' = [run EXCEPT ![h].left = left] /\ Goto(h, "reset")
             /\ UNCHANGED overlapped
  <2>1. PICK left \in SUBSET Targets : run' = [run EXCEPT ![h].left = left]
    BY <1>3
  <2> DEFINE r == [run[h] EXCEPT !.left = left]
  <2>2. r \in Runs /\ r.after = run[h].after /\ Same(r, run[h]) /\ run' = [run EXCEPT ![h] = r]
    BY <2>1 DEF Inv, Typed, Runs, Same
  <2>3. pc' = [pc EXCEPT ![h] = "reset"]
    BY <1>3 DEF Goto
  <2>4. r.after = -1
    BY <1>1, <2>2 DEF Inv, Untold
  <2>5. pc'[h] = "reset" /\ run'[h] = r
    BY <2>2, <2>3 DEF Inv, Typed
  <2>6. ToldOne(h)'
    BY <2>4, <2>5 DEF ToldOne
  <2> HIDE DEF r
  <2> QED
    BY <1>1, <1>3, <2>2, <2>3, <2>4, <2>6, MoveInv DEF Labels
<1>4. \A users \in {Users \ flagged, {}} :
        run[h].left \cup (IF run[h].mode = "chat" THEN {} ELSE users) \in SUBSET Targets
  BY DEF Inv, Typed, Runs, Targets
<1> QED
  BY <1>2, <1>3, <1>4 DEF ActiveUsers

LEMMA ResetInv == ASSUME Inv, NEW h \in Handlers, Reset(h) PROVE Inv'
<1>1. /\ pc[h] = "reset" /\ pc' = [pc EXCEPT ![h] = "raise"] /\ ~ cancelled' /\ cancelled' \in BOOLEAN
      /\ run' = run /\ inProgress' = inProgress /\ overlapped' = overlapped
      /\ stops' = stops /\ commands' = commands
  BY DEF Reset, At, Goto, bounds
<1>2. \A g \in Handlers : pc'[g] = IF g = h THEN "raise" ELSE pc[g]
  BY <1>1 DEF Inv, Typed
<1>3. Typed'
  BY <1>1 DEF Inv, Typed, Labels
<1>4. \A g \in Handlers : (Busy(g)' <=> Busy(g)) /\ (Running(g)' <=> Running(g))
  BY <1>1, <1>2 DEF Busy, Running, At
<1>5. Alone' /\ FlagIsRight'
  BY <1>1, <1>4 DEF Inv, Alone, FlagIsRight
<1>6. Untold'
  BY <1>1, <1>2 DEF Inv, Untold
<1>7. Told'
  <2> SUFFICES ASSUME ~ overlapped, NEW g \in Handlers PROVE ToldOne(g)'
    BY <1>1 DEF Told
  <2>1. CASE g = h
    <3>1. run'[h].after = -1 /\ ~ (-1 >= 0) /\ -1 <= 0 /\ -1 <= 1
      BY <1>1 DEF Inv, Untold
    <3> QED
      BY <1>1, <1>2, <2>1, <3>1 DEF ToldOne
  <2>2. CASE g # h
    <3>1. pc'[g] = "idle"
      BY <1>1, <1>2, <2>2 DEF Inv, Alone, Busy, At
    <3>2. run'[g].after = -1
      BY <3>1, <1>6 DEF Untold
    <3> QED
      BY <3>1, <3>2 DEF ToldOne
  <2> QED
    BY <2>1, <2>2
<1>8. Meant'
  BY <1>1, <1>4 DEF Inv, Meant, MeantOne
<1> QED
  BY <1>3, <1>5, <1>6, <1>7, <1>8 DEF Inv

LEMMA RaiseInv == ASSUME Inv, NEW h \in Handlers, Raise(h) PROVE Inv'
<1>1. /\ pc[h] = "raise" /\ pc' = [pc EXCEPT ![h] = "go"] /\ inProgress' = TRUE
      /\ run' = run /\ cancelled' = cancelled /\ overlapped' = overlapped
      /\ stops' = stops /\ commands' = commands
  BY DEF Raise, At, Goto, bounds
<1>2. \A g \in Handlers : pc'[g] = IF g = h THEN "go" ELSE pc[g]
  BY <1>1 DEF Inv, Typed
<1>3. Typed'
  BY <1>1 DEF Inv, Typed, Labels
<1>4. \A g \in Handlers : Busy(g)' <=> Busy(g)
  BY <1>1, <1>2 DEF Busy, At
<1>5. Alone'
  BY <1>1, <1>4 DEF Inv, Alone
<1>6. FlagIsRight'
  <2>1. Running(h)'
    BY <1>2 DEF Running
  <2> QED
    BY <1>1, <2>1 DEF FlagIsRight
<1>7. Untold'
  BY <1>1, <1>2 DEF Inv, Untold
<1>8. Told'
  <2> SUFFICES ASSUME ~ overlapped, NEW g \in Handlers PROVE ToldOne(g)'
    BY <1>1 DEF Told
  <2>1. ToldOne(g) /\ run'[g] = run[g]
    BY <1>1 DEF Inv, Told
  <2>2. CASE g = h
    BY <1>1, <1>2, <2>1, <2>2 DEF ToldOne
  <2>3. CASE g # h
    BY <1>1, <1>2, <2>1, <2>3 DEF ToldOne
  <2> QED
    BY <2>2, <2>3
<1>9. Meant'
  BY <1>1, <1>4 DEF Inv, Meant, MeantOne
<1> QED
  BY <1>3, <1>5, <1>6, <1>7, <1>8, <1>9 DEF Inv

\* Without an overlap a stop command has found the one handler that is busy.
LEMMA StopLookInv == ASSUME Inv, StopLook PROVE Inv'
<1> DEFINE found == {run[h].id : h \in {g \in Handlers : Running(g)}}
           s == [id |-> commands, found |-> found]
<1>1. /\ inProgress /\ stops' = stops \cup {s} /\ commands > 0 /\ commands' = commands - 1
      /\ UNCHANGED <<inProgress, cancelled, pc, run, overlapped>>
  BY DEF StopLook, flags
<1>2. commands \in 1 .. MaxCommands /\ commands' \in 0 .. MaxCommands
  BY <1>1, BroadcastAssumption DEF Inv, Typed
<1>3. found \in SUBSET (0 .. MaxCommands)
  BY DEF Inv, Typed, Runs
<1>4. s.found = found /\ s \in Orders
  BY <1>2, <1>3 DEF Orders
<1>5. \A g \in Handlers : Running(g) => run[g].id \in s.found
  BY <1>4
<1> HIDE DEF s
<1>6. Typed'
  BY <1>1, <1>2, <1>4 DEF Inv, Typed
<1>7. Alone' /\ FlagIsRight' /\ Untold' /\ Told'
  BY <1>1 DEF Inv, Alone, FlagIsRight, Untold, Told, ToldOne, Busy, Running, At
<1>8. Meant'
  <2> SUFFICES ASSUME ~ overlapped, NEW h \in Handlers PROVE MeantOne(h)'
    BY <1>1 DEF Meant
  <2>1. MeantOne(h) /\ (Busy(h)' <=> Busy(h))
    BY <1>1 DEF Inv, Meant, Busy, At
  <2>2. PICK g \in Handlers : Running(g)
    BY <1>1 DEF Inv, FlagIsRight
  <2>3. Busy(h) => g = h
    BY <2>2 DEF Inv, Alone, Busy, Running, At
  <2>4. Busy(h) => run[h].id \in s.found
    BY <1>5, <2>2, <2>3
  <2> QED
    BY <1>1, <2>1, <2>4 DEF MeantOne
<1> QED
  BY <1>6, <1>7, <1>8 DEF Inv

\* The order reaches every handler that will still look at the flag.
LEMMA StopStoreInv == ASSUME Inv, NEW s \in stops, StopStore(s) PROVE Inv'
<1>1. /\ inProgress' = inProgress /\ cancelled' = TRUE /\ stops' = stops \ {s}
      /\ pc' = pc /\ overlapped' = overlapped /\ commands' = commands
  BY DEF StopStore, bounds
<1> DEFINE ordered(q) == [q EXCEPT !.after = IF @ < 0 THEN 0 ELSE @, !.meant = @ \/ q.id \in s.found]
<1>2. \A h \in Handlers : run'[h] = IF Listening(h) THEN ordered(run[h]) ELSE run[h]
  BY DEF StopStore
<1>3. \A h \in Handlers : run[h] \in Runs
  BY DEF Inv, Typed
<1>4. ASSUME NEW q \in Runs
      PROVE  /\ ordered(q) \in Runs /\ ordered(q).left = q.left
             /\ ordered(q).id = q.id /\ ordered(q).crossed = q.crossed
             /\ ordered(q).meant <=> q.meant \/ q.id \in s.found
             /\ ordered(q).after = IF q.after < 0 THEN 0 ELSE q.after
  <2> DEFINE n == IF q.after < 0 THEN 0 ELSE q.after
             m == q.meant \/ q.id \in s.found
  <2>1. n \in -1 .. 2 /\ m \in BOOLEAN
    BY DEF Runs
  <2>2. ordered(q) = [q EXCEPT !.after = n, !.meant = m]
    BY DEF Runs
  <2> HIDE DEF n, m, ordered
  <2>3. /\ ordered(q) \in Runs /\ ordered(q).left = q.left
        /\ ordered(q).id = q.id /\ ordered(q).crossed = q.crossed
        /\ ordered(q).meant = m /\ ordered(q).after = n
    BY <2>1, <2>2 DEF Runs
  <2> QED
    BY <2>3 DEF n, m
<1> HIDE DEF ordered
<1>5. Typed'
  <2>1. run' \in [Handlers -> Runs]
    <3>1. run' = [h \in Handlers |-> run'[h]]
      BY DEF StopStore
    <3> QED
      BY <1>2, <1>3, <1>4, <3>1
  <2> QED
    BY <1>1, <2>1 DEF Inv, Typed
<1>6. Alone' /\ FlagIsRight'
  BY <1>1 DEF Inv, Alone, FlagIsRight, Busy, Running, At
<1>7. Untold'
  BY <1>1, <1>2 DEF Inv, Untold, Listening
<1>8. \A h \in Handlers : run[h].after \in -1 .. 2 /\ run[h].after \in Int
  BY <1>3 DEF Runs
<1>9. Told'
  <2> SUFFICES ASSUME ~ overlapped, NEW g \in Handlers PROVE ToldOne(g)'
    BY <1>1 DEF Told
  <2>1. ToldOne(g)
    BY DEF Inv, Told
  <2>2. CASE Listening(g)
    <3>1. run'[g].after >= 0 /\ run'[g].left = run[g].left
          /\ (run[g].after <= 0 => run'[g].after <= 0) /\ (run[g].after <= 1 => run'[g].after <= 1)
      BY <1>2, <1>3, <1>4, <1>8, <2>2
    <3> QED
      BY <1>1, <2>1, <3>1 DEF ToldOne
  <2>3. CASE ~ Listening(g)
    <3>1. run'[g] = run[g]
      BY <1>2, <2>3
    <3> QED
      BY <1>1, <2>1, <2>3, <3>1 DEF ToldOne, Listening
  <2> QED
    BY <2>2, <2>3
<1>10. Meant'
  <2> SUFFICES ASSUME ~ overlapped, NEW g \in Handlers PROVE MeantOne(g)'
    BY <1>1 DEF Meant
  <2>1. MeantOne(g) /\ (Busy(g)' <=> Busy(g))
    BY <1>1 DEF Inv, Meant, Busy, At
  <2>2. CASE Listening(g)
    <3>1. Busy(g) /\ (run[g].id \in s.found \/ run[g].crossed)
      BY <2>1, <2>2 DEF MeantOne, Listening, Busy, At
    <3>2. /\ run'[g].id = run[g].id /\ run'[g].crossed = run[g].crossed
          /\ run'[g].meant <=> run[g].meant \/ run[g].id \in s.found
      BY <1>2, <1>3, <1>4, <2>2
    <3> QED
      BY <1>1, <2>1, <3>1, <3>2 DEF MeantOne
  <2>3. CASE ~ Listening(g)
    <3>1. run'[g] = run[g]
      BY <1>2, <2>3
    <3> QED
      BY <1>1, <2>1, <3>1 DEF MeantOne
  <2> QED
    BY <2>2, <2>3
<1> QED
  BY <1>5, <1>6, <1>7, <1>9, <1>10 DEF Inv

LEMMA NextTargetInv == ASSUME Inv, NEW h \in Handlers, NextTarget(h) PROVE Inv'
<1>1. pc[h] = "go" /\ UNCHANGED <<inProgress, cancelled, overlapped, stops, commands>>
  BY DEF NextTarget, At, flags, bounds
<1>2. run[h] \in Runs /\ run[h].after \in -1 .. 2 /\ run[h].left \subseteq Targets
  BY DEF Inv, Typed, Runs
<1>3. CASE (run[h].left = {} \/ cancelled) /\ Goto(h, "report") /\ run' = run
  <2>1. run' = [run EXCEPT ![h] = run[h]] /\ pc' = [pc EXCEPT ![h] = "report"]
    BY <1>3 DEF Inv, Typed, Goto
  <2>2. pc'[h] = "report" /\ run'[h] = run[h]
    BY <2>1 DEF Inv, Typed
  <2>3. ASSUME ~ overlapped PROVE ToldOne(h)'
    <3>1. ToldOne(h)
      BY <2>3 DEF Inv, Told
    <3> QED
      BY <1>1, <1>3, <2>2, <3>1 DEF ToldOne
  <2> QED
    BY <1>1, <1>2, <2>1, <2>3, MoveInv DEF Labels, Same
<1>4. CASE \E t \in run[h].left : /\ ~ cancelled /\ Goto(h, "sending")
                                  /\ run' = [run EXCEPT ![h].at = {t}, ![h].left = @ \ {t}]
  <2>1. PICK t \in run[h].left : run' = [run EXCEPT ![h].at = {t}, ![h].left = @ \ {t}]
    BY <1>4
  <2> DEFINE r == [run[h] EXCEPT !.at = {t}, !.left = @ \ {t}]
  <2>2. r \in Runs /\ r.after = run[h].after /\ Same(r, run[h])
    BY <1>2 DEF Runs, Same
  <2>3. run' = [run EXCEPT ![h] = r]
    BY <2>1 DEF Inv, Typed, Runs
  <2>4. pc' = [pc EXCEPT ![h] = "sending"]
    BY <1>4 DEF Goto
  <2>5. pc'[h] = "sending" /\ run'[h] = r
    BY <2>3, <2>4 DEF Inv, Typed
  <2>6. ASSUME ~ overlapped PROVE ToldOne(h)'
    <3>1. ToldOne(h)
      BY <2>6 DEF Inv, Told
    <3>2. r.after < 0
      BY <1>1, <1>2, <1>4, <2>2, <3>1 DEF ToldOne
    <3> HIDE DEF r
    <3> QED
      BY <1>1, <1>2, <1>4, <2>2, <2>5, <3>1, <3>2 DEF ToldOne
  <2> HIDE DEF r
  <2> QED
    BY <1>1, <2>2, <2>3, <2>4, <2>6, MoveInv DEF Labels
<1> QED
  BY <1>3, <1>4 DEF NextTarget

LEMMA SendInv == ASSUME Inv, NEW h \in Handlers, Send(h) PROVE Inv'
<1>1. pc[h] = "sending" /\ UNCHANGED <<inProgress, cancelled, overlapped, stops, commands>>
  BY DEF Send, At, flags, bounds
<1>2. run[h] \in Runs /\ run[h].after \in -1 .. 2
  BY DEF Inv, Typed, Runs
<1>3. CASE run' = [run EXCEPT ![h] = Sent(@)] /\ Goto(h, "go")
  <2> DEFINE r == Sent(run[h])
  <2>1. /\ r \in Runs /\ Same(r, run[h])
        /\ r.after = IF run[h].after \in {0, 1} THEN run[h].after + 1 ELSE run[h].after
    <3> DEFINE n == IF run[h].after \in {0, 1} THEN run[h].after + 1 ELSE run[h].after
    <3>1. n \in -1 .. 2
      BY <1>2
    <3>2. r = [run[h] EXCEPT !.at = {}, !.back = FALSE, !.after = n]
      BY <1>2 DEF Sent, Runs
    <3> HIDE DEF n
    <3>3. [run[h] EXCEPT !.at = {}, !.back = FALSE, !.after = n] \in Runs
          /\ [run[h] EXCEPT !.at = {}, !.back = FALSE, !.after = n].after = n
          /\ Same([run[h] EXCEPT !.at = {}, !.back = FALSE, !.after = n], run[h])
      BY <1>2, <3>1 DEF Runs, Same
    <3> QED
      BY <3>2, <3>3 DEF n
  <2>2. run' = [run EXCEPT ![h] = r] /\ pc' = [pc EXCEPT ![h] = "go"]
    BY <1>3 DEF Goto
  <2>3. pc'[h] = "go" /\ run'[h] = r
    BY <2>2 DEF Inv, Typed
  <2> HIDE DEF r
  <2>4. ASSUME ~ overlapped PROVE ToldOne(h)'
    <3>1. ToldOne(h)
      BY <2>4 DEF Inv, Told
    <3>2. (cancelled <=> run[h].after >= 0) /\ run[h].after <= 0
      BY <1>1, <3>1 DEF ToldOne
    <3>3. (run[h].after >= 0 <=> r.after >= 0) /\ r.after <= 1
      BY <1>2, <2>1, <3>2
    <3> QED
      BY <1>1, <2>3, <3>2, <3>3 DEF ToldOne
  <2>5. r.after >= 0 => run[h].after >= 0
    BY <1>2, <2>1
  <2> QED
    BY <1>1, <2>1, <2>2, <2>4, <2>5, MoveInv DEF Labels
<1>4. CASE run' = run /\ Goto(h, "mark")
  <2>1. run' = [run EXCEPT ![h] = run[h]] /\ pc' = [pc EXCEPT ![h] = "mark"]
    BY <1>4 DEF Inv, Typed, Goto
  <2>2. pc'[h] = "mark" /\ run'[h] = run[h]
    BY <2>1 DEF Inv, Typed
  <2>3. ASSUME ~ overlapped PROVE ToldOne(h)'
    <3>1. ToldOne(h)
      BY <2>3 DEF Inv, Told
    <3> QED
      BY <1>1, <2>2, <3>1 DEF ToldOne
  <2> QED
    BY <1>1, <1>2, <2>1, <2>3, MoveInv DEF Labels, Same
<1>5. CASE run' = [run EXCEPT ![h].at = {}] /\ Goto(h, "go")
  <2> DEFINE r == [run[h] EXCEPT !.at = {}]
  <2>1. r \in Runs /\ r.after = run[h].after /\ Same(r, run[h])
    BY <1>2 DEF Runs, Same
  <2>2. run' = [run EXCEPT ![h] = r] /\ pc' = [pc EXCEPT ![h] = "go"]
    BY <1>5 DEF Goto
  <2>3. pc'[h] = "go" /\ run'[h] = r
    BY <2>2 DEF Inv, Typed
  <2> HIDE DEF r
  <2>4. ASSUME ~ overlapped PROVE ToldOne(h)'
    <3>1. ToldOne(h)
      BY <2>4 DEF Inv, Told
    <3> QED
      BY <1>1, <2>1, <2>3, <3>1 DEF ToldOne
  <2> QED
    BY <1>1, <2>1, <2>2, <2>4, MoveInv DEF Labels
<1> QED
  BY <1>3, <1>4, <1>5 DEF Send

LEMMA MarkInv == ASSUME Inv, NEW h \in Handlers, Mark(h) PROVE Inv'
<1>1. pc[h] = "mark" /\ UNCHANGED <<inProgress, cancelled, overlapped, stops, commands>>
  BY DEF Mark, At, flags, bounds
<1> DEFINE r == [run[h] EXCEPT !.at = {}, !.back = FALSE]
<1>2. r \in Runs /\ r.after = run[h].after /\ Same(r, run[h])
  BY DEF Inv, Typed, Runs, Same
<1>3. run' = [run EXCEPT ![h] = r] /\ pc' = [pc EXCEPT ![h] = "go"]
  BY DEF Mark, Goto, Inv, Typed, Runs
<1>4. pc'[h] = "go" /\ run'[h] = r
  BY <1>3 DEF Inv, Typed
<1> HIDE DEF r
<1>5. ASSUME ~ overlapped PROVE ToldOne(h)'
  <2>1. ToldOne(h)
    BY <1>5 DEF Inv, Told
  <2> QED
    BY <1>1, <1>2, <1>4, <2>1 DEF ToldOne
<1> QED
  BY <1>1, <1>2, <1>3, <1>5, MoveInv DEF Labels

LEMMA ReportInv == ASSUME Inv, NEW h \in Handlers, Report(h) PROVE Inv'
<1>1. Busy(h) /\ UNCHANGED <<cancelled, stops, commands>>
  BY DEF Report, Busy, At, bounds
<1>2. Return(h) /\ Settles(h) /\ inProgress' = FALSE
  BY Zenon DEF Report
<1> QED
  BY <1>1, <1>2, ReturnInv

\* Telegram changes nothing that the invariant reads, but for the note that a
\* target has been heard from.
LEMMA TelegramInv ==
  ASSUME Inv, NEW t \in Targets, Depart(t) \/ Rejoin(t) \/ StoreChat(t)
  PROVE  Inv'
<1>1. pc' = pc /\ UNCHANGED <<inProgress, cancelled, overlapped, stops, commands>>
  BY DEF Depart, Rejoin, StoreChat, flags, bounds
<1>2. run' = run \/ run' = [h \in Handlers |-> IF t \in run[h].at /\ At(h, "mark")
                                               THEN [run[h] EXCEPT !.back = TRUE] ELSE run[h]]
  BY DEF Depart, Rejoin, StoreChat
<1>3. \A h \in Handlers : run[h] \in Runs
  BY DEF Inv, Typed
<1>4. \A r \in Runs : /\ [r EXCEPT !.back = TRUE] \in Runs
                      /\ [r EXCEPT !.back = TRUE].after = r.after
                      /\ [r EXCEPT !.back = TRUE].left = r.left
                      /\ Same([r EXCEPT !.back = TRUE], r)
  BY DEF Runs, Same
<1>5. run' \in [Handlers -> Runs]
  BY <1>2, <1>3, <1>4 DEF Inv, Typed
<1>6. \A h \in Handlers : /\ run'[h].after = run[h].after /\ run'[h].left = run[h].left
                          /\ Same(run'[h], run[h])
  BY <1>2, <1>3, <1>4 DEF Same
<1>7. Typed' /\ Alone' /\ FlagIsRight'
  BY <1>1, <1>5 DEF Inv, Typed, Alone, FlagIsRight, Busy, Running, At
<1>8. Untold' /\ \A h \in Handlers : ToldOne(h)' <=> ToldOne(h)
  BY <1>1, <1>6 DEF Inv, Untold, ToldOne
<1>9. Told'
  BY <1>1, <1>8 DEF Inv, Told
<1>10. Meant'
  <2>1. \A h \in Handlers : MeantOne(h)' <=> MeantOne(h)
    BY <1>1, <1>6 DEF MeantOne, Same, Busy, At
  <2> QED
    BY <1>1, <2>1 DEF Inv, Meant
<1> QED
  BY <1>7, <1>8, <1>9, <1>10 DEF Inv

LEMMA RestartInv == ASSUME Inv, Restart PROVE Inv'
<1>1. pc' = [h \in Handlers |-> "idle"] /\ run' = [h \in Handlers |-> NoRun]
  BY DEF Restart
<1>2. /\ inProgress' = FALSE /\ cancelled' = FALSE /\ overlapped' = FALSE
      /\ stops' = {} /\ commands' = commands
  BY DEF Restart
<1>3. Typed'
  BY <1>1, <1>2, NoRunOK DEF Inv, Typed, Labels
<1>4. \A h \in Handlers : ~ Busy(h)' /\ ~ Running(h)'
  BY <1>1 DEF Busy, Running, At
<1>5. Alone' /\ FlagIsRight'
  BY <1>2, <1>4 DEF Alone, FlagIsRight
<1>6. Untold' /\ Told' /\ Meant'
  BY <1>1, <1>4, NoRunOK DEF Untold, Told, ToldOne, Meant, MeantOne
<1> QED
  BY <1>3, <1>5, <1>6 DEF Inv

LEMMA StepInv == Inv /\ [Next]_vars => Inv'
<1> SUFFICES ASSUME Inv, [Next]_vars PROVE Inv'
  OBVIOUS
<1>1. CASE UNCHANGED vars
  BY <1>1 DEF vars, Inv, Typed, Alone, FlagIsRight, Untold, Told, ToldOne, Meant, MeantOne, Busy, Running, At
<1>2. ASSUME NEW h \in Handlers, Step(h) PROVE Inv'
  BY <1>2, ActiveChatsInv, ActiveUsersInv, ResetInv, RaiseInv, NextTargetInv, SendInv, MarkInv,
     ReportInv DEF Step
<1> QED
  BY <1>1, <1>2, BroadcastInv, StopLookInv, StopStoreInv, TelegramInv, RestartInv DEF Next
-----------------------------------------------------------------------------
(* Who is flagged. *)

\* What a handler at l aims at: one target while it sends or marks, and one
\* that cannot be written to when it marks, unless it has been heard from since.
Aims(l, r, away) ==
  /\ l \in {"sending", "mark"} => \E t \in Targets : r.at = {t}
  /\ l \notin {"sending", "mark"} => r.at = {}
  /\ l = "mark" /\ ~ r.back => r.at \subseteq away

Aimed == \A h \in Handlers : Aims(pc[h], run[h], gone)

Reach ==
  /\ flagged \subseteq Targets /\ gone \subseteq Targets /\ coming \subseteq Targets
  /\ unheard \subseteq Targets
  /\ commands \in 0 .. MaxCommands /\ moves \in 0 .. MaxMoves
  /\ restarts \in 0 .. MaxRestarts

FlagInv == Reach /\ Aimed /\ FlaggedForAReason

LEMMA FlagTyped == Inv /\ FlagInv => TypeOK
<1> SUFFICES ASSUME Inv, FlagInv
             PROVE  TypeOK
  OBVIOUS
<1>1. \A h \in Handlers : run[h].at # {} <=> pc[h] \in {"sending", "mark"}
  BY DEF FlagInv, Aimed, Aims
<1>2. Typed /\ Reach
  BY DEF Inv, FlagInv
<1> QED
  BY <1>1, <1>2 DEF Typed, Labels, Runs, Orders, Reach, TypeOK

LEMMA FlagInit == Init => FlagInv
<1> SUFFICES ASSUME Init
             PROVE  FlagInv
  OBVIOUS
<1>1. Reach
  BY BroadcastAssumption DEF Init, Reach
<1>2. Aimed
  BY DEF Init, Aimed, Aims, NoRun
<1>3. FlaggedForAReason
  BY DEF Init, FlaggedForAReason
<1> QED
  BY <1>1, <1>2, <1>3 DEF FlagInv

\* A step of h that nobody is flagged by.
LEMMA AimMove ==
  ASSUME Inv, FlagInv, NEW h \in Handlers, NEW l, NEW r,
         pc' = [pc EXCEPT ![h] = l], run' = [run EXCEPT ![h] = r],
         Aims(l, r, gone), gone' = gone,
         flagged' = flagged, coming' = coming, unheard' = unheard,
         commands' \in 0 .. MaxCommands, UNCHANGED <<moves, restarts>>
  PROVE  FlagInv'
<1>1. \A g \in Handlers : /\ pc'[g] = IF g = h THEN l ELSE pc[g]
                          /\ run'[g] = IF g = h THEN r ELSE run[g]
  BY DEF Inv, Typed
<1>2. Aimed'
  BY <1>1 DEF FlagInv, Aimed
<1> QED
  BY <1>2 DEF FlagInv, Reach, FlaggedForAReason

LEMMA FlagStart ==
  ASSUME Inv, FlagInv, NEW h \in Handlers, NEW mode \in Modes, Broadcast(h, mode)
  PROVE  FlagInv'
<1> DEFINE r == [run[h] EXCEPT !.mode = mode, !.id = commands, !.crossed = stops # {}]
<1>1. pc[h] = "idle" /\ run[h] \in Runs /\ Aims(pc[h], run[h], gone)
  BY DEF Broadcast, At, Inv, Typed, FlagInv, Aimed
<1>2. r.at = run[h].at
  BY <1>1 DEF Runs
<1>3. Aims("chats", r, gone)
  BY <1>1, <1>2 DEF Aims
<1>4. commands' \in 0 .. MaxCommands
  <2>1. commands \in 0 .. MaxCommands /\ commands > 0 /\ commands' = commands - 1
    BY DEF Broadcast, FlagInv, Reach
  <2> QED
    BY <2>1, BroadcastAssumption
<1>5. run' = [run EXCEPT ![h] = r] /\ pc' = [pc EXCEPT ![h] = "chats"]
  <2>1. run' = [run EXCEPT ![h].mode = mode, ![h].id = commands, ![h].crossed = stops # {}]
    BY DEF Broadcast
  <2>2. run' = [run EXCEPT ![h] = r]
    BY <2>1 DEF Inv, Typed, Runs
  <2> HIDE DEF r
  <2> QED
    BY <2>2 DEF Broadcast, Goto
<1> HIDE DEF r
<1> QED
  BY <1>3, <1>4, <1>5, AimMove DEF Broadcast, telegram

\* The steps of a handler before it sends, and its report.
LEMMA FlagQuiet ==
  ASSUME Inv, FlagInv, NEW h \in Handlers,
         ActiveChats(h) \/ ActiveUsers(h) \/ Reset(h) \/ Raise(h) \/ Report(h)
  PROVE  FlagInv'
<1>1. /\ pc[h] \notin {"sending", "mark"} /\ run[h] \in Runs /\ run[h].at = {}
  BY DEF ActiveChats, ActiveUsers, Reset, Raise, Report, At, Inv, Typed, FlagInv, Aimed, Aims
<1>2. /\ gone' = gone /\ flagged' = flagged /\ coming' = coming /\ unheard' = unheard
      /\ commands' \in 0 .. MaxCommands /\ UNCHANGED <<moves, restarts>>
  BY DEF ActiveChats, ActiveUsers, Reset, Raise, Report, telegram, bounds, FlagInv, Reach
<1>3. ASSUME NEW l \in {"users", "reset", "raise", "go"}, Goto(h, l), run' = run
      PROVE  FlagInv'
  <2>1. run' = [run EXCEPT ![h] = run[h]] /\ pc' = [pc EXCEPT ![h] = l]
    BY <1>3 DEF Inv, Typed, Goto
  <2>2. Aims(l, run[h], gone)
    BY <1>1 DEF Aims
  <2> QED
    BY <1>2, <2>1, <2>2, AimMove
<1>4. ASSUME NEW l \in {"users", "reset"}, Goto(h, l), NEW left, run' = [run EXCEPT ![h].left = left]
      PROVE  FlagInv'
  <2> DEFINE r == [run[h] EXCEPT !.left = left]
  <2>1. run' = [run EXCEPT ![h] = r] /\ pc' = [pc EXCEPT ![h] = l]
    BY <1>4 DEF Goto
  <2>2. r.at = {}
    BY <1>1 DEF Runs
  <2> HIDE DEF r
  <2>3. Aims(l, r, gone)
    BY <2>2 DEF Aims
  <2> QED
    BY <1>2, <2>1, <2>3, AimMove
<1>5. ASSUME Return(h)
      PROVE  FlagInv'
  <2>1. Aims("idle", NoRun, gone)
    BY DEF Aims, NoRun
  <2> QED
    BY <1>2, <1>5, <2>1, AimMove DEF Return, Goto
<1>6. CASE ActiveChats(h)
  BY <1>4, <1>6 DEF ActiveChats
<1>7. CASE ActiveUsers(h)
  BY <1>4, <1>5, <1>7 DEF ActiveUsers
<1> QED
  BY <1>3, <1>5, <1>6, <1>7 DEF Reset, Raise, Report

LEMMA FlagSend ==
  ASSUME Inv, FlagInv, NEW h \in Handlers, NextTarget(h) \/ Send(h)
  PROVE  FlagInv'
<1>1. run[h] \in Runs /\ Aims(pc[h], run[h], gone) /\ pc[h] \in {"go", "sending"}
  BY DEF NextTarget, Send, At, Inv, Typed, FlagInv, Aimed
<1>2. /\ gone' = gone /\ flagged' = flagged /\ coming' = coming /\ unheard' = unheard
      /\ commands' \in 0 .. MaxCommands /\ UNCHANGED <<moves, restarts>>
  BY DEF NextTarget, Send, telegram, bounds, FlagInv, Reach
<1>3. ASSUME NEW l, NEW r, Goto(h, l), run' = [run EXCEPT ![h] = r], Aims(l, r, gone)
      PROVE  FlagInv'
  BY <1>2, <1>3, AimMove DEF Goto
<1>4. CASE NextTarget(h)
  <2>1. CASE Goto(h, "report") /\ run' = run
    <3>1. run' = [run EXCEPT ![h] = run[h]] /\ Aims("report", run[h], gone)
      BY <1>1, <1>4, <2>1 DEF NextTarget, At, Aims, Inv, Typed
    <3> QED
      BY <1>3, <2>1, <3>1
  <2>2. CASE \E t \in run[h].left : /\ Goto(h, "sending")
                                    /\ run' = [run EXCEPT ![h].at = {t}, ![h].left = @ \ {t}]
    <3>1. PICK t \in run[h].left : run' = [run EXCEPT ![h].at = {t}, ![h].left = @ \ {t}]
      BY <2>2
    <3> DEFINE r == [run[h] EXCEPT !.at = {t}, !.left = @ \ {t}]
    <3>2. r.at = {t} /\ t \in Targets
      BY <1>1 DEF Runs
    <3>3. run' = [run EXCEPT ![h] = r]
      BY <3>1 DEF Inv, Typed, Runs
    <3> HIDE DEF r
    <3>4. Aims("sending", r, gone)
      BY <3>2 DEF Aims
    <3> QED
      BY <1>3, <2>2, <3>3, <3>4
  <2> QED
    BY <1>4, <2>1, <2>2 DEF NextTarget
<1>5. CASE Send(h)
  <2>1. PICK t \in run[h].at :
          \/ run' = [run EXCEPT ![h] = Sent(@)] /\ Goto(h, "go")
          \/ t \in gone /\ run' = run /\ Goto(h, "mark")
          \/ run' = [run EXCEPT ![h].at = {}] /\ Goto(h, "go")
    BY <1>5 DEF Send
  <2>2. pc[h] = "sending" /\ t \in Targets /\ run[h].at = {t}
    BY <1>1, <1>5 DEF Send, At, Aims
  <2>3. CASE run' = [run EXCEPT ![h] = Sent(@)] /\ Goto(h, "go")
    <3>1. Sent(run[h]).at = {}
      BY <1>1 DEF Sent, Runs
    <3>2. Aims("go", Sent(run[h]), gone)
      BY <3>1 DEF Aims
    <3> QED
      BY <1>3, <2>3, <3>2
  <2>4. CASE t \in gone /\ run' = run /\ Goto(h, "mark")
    <3>1. run' = [run EXCEPT ![h] = run[h]]
      BY <2>4 DEF Inv, Typed
    <3>2. Aims("mark", run[h], gone)
      BY <2>2, <2>4 DEF Aims
    <3> QED
      BY <1>3, <2>4, <3>1, <3>2
  <2>5. CASE run' = [run EXCEPT ![h].at = {}] /\ Goto(h, "go")
    <3> DEFINE r == [run[h] EXCEPT !.at = {}]
    <3>1. r.at = {}
      BY <1>1 DEF Runs
    <3>2. run' = [run EXCEPT ![h] = r]
      BY <2>5
    <3> HIDE DEF r
    <3>3. Aims("go", r, gone)
      BY <3>1 DEF Aims
    <3> QED
      BY <1>3, <2>5, <3>2, <3>3
  <2> QED
    BY <2>1, <2>3, <2>4, <2>5
<1> QED
  BY <1>4, <1>5

\* Who is marked cannot be written to, or was heard from too early.
LEMMA FlagMark ==
  ASSUME Inv, FlagInv, NEW h \in Handlers, Mark(h)
  PROVE  FlagInv'
<1> DEFINE r == [run[h] EXCEPT !.at = {}, !.back = FALSE]
<1>1. run[h] \in Runs /\ Aims("mark", run[h], gone)
  BY DEF Mark, At, Inv, Typed, FlagInv, Aimed
<1>2. pc' = [pc EXCEPT ![h] = "go"] /\ run' = [run EXCEPT ![h] = r]
      /\ gone' = gone /\ coming' = coming /\ UNCHANGED <<commands, moves, restarts>>
  BY DEF Mark, Goto, bounds
<1>3. r.at = {}
  BY <1>1 DEF Runs
<1> HIDE DEF r
<1>4. \A g \in Handlers : /\ pc'[g] = IF g = h THEN "go" ELSE pc[g]
                          /\ run'[g] = IF g = h THEN r ELSE run[g]
  BY <1>2 DEF Inv, Typed
<1>5. Aims("go", r, gone)
  BY <1>3 DEF Aims
<1>6. Aimed'
  BY <1>2, <1>4, <1>5 DEF FlagInv, Aimed
<1>7. \/ flagged' = flagged /\ unheard' = unheard
      \/ /\ flagged' = flagged \cup run[h].at
         /\ unheard' = IF run[h].back THEN unheard \cup run[h].at ELSE unheard
  BY DEF Mark
<1>8. run[h].at \subseteq Targets
  BY <1>1 DEF Runs
<1>9. flagged' \subseteq gone \cup coming \cup unheard'
  <2>1. ~ run[h].back => run[h].at \subseteq gone
    BY <1>1 DEF Aims
  <2> QED
    BY <1>7, <2>1 DEF FlagInv, FlaggedForAReason
<1> QED
  BY <1>2, <1>6, <1>7, <1>8, <1>9 DEF FlagInv, Reach, FlaggedForAReason

\* Telegram: a target goes, comes back or is stored.
LEMMA FlagMoves ==
  ASSUME Inv, FlagInv, NEW t \in Targets, Depart(t) \/ Rejoin(t) \/ StoreChat(t)
  PROVE  FlagInv'
<1>1. CASE Depart(t)
  <2>1. moves' \in 0 .. MaxMoves
    <3>1. moves \in 0 .. MaxMoves /\ moves > 0 /\ moves' = moves - 1
      BY <1>1 DEF Depart, FlagInv, Reach
    <3> QED
      BY <3>1, BroadcastAssumption
  <2>2. Aimed'
    BY <1>1 DEF Depart, FlagInv, Aimed, Aims
  <2> QED
    BY <1>1, <2>1, <2>2 DEF Depart, FlagInv, Reach, FlaggedForAReason
<1>2. CASE Rejoin(t)
  <2>1. /\ pc' = pc /\ gone' = gone \ {t} /\ coming' = coming \cup {t}
        /\ flagged' = flagged /\ unheard' = unheard
        /\ UNCHANGED <<commands, moves, restarts>>
    BY <1>2 DEF Rejoin, bounds
  <2>2. ASSUME NEW h \in Handlers
        PROVE  Aims(pc'[h], run'[h], gone')
    <3>1. run[h] \in Runs /\ Aims(pc[h], run[h], gone)
      BY DEF Inv, Typed, FlagInv, Aimed
    <3>2. run'[h] = IF t \in run[h].at /\ At(h, "mark")
                    THEN [run[h] EXCEPT !.back = TRUE] ELSE run[h]
      BY <1>2 DEF Rejoin
    <3>3. CASE t \in run[h].at /\ At(h, "mark")
      <4>1. run'[h].at = run[h].at /\ run'[h].back
        BY <3>1, <3>2, <3>3 DEF Runs
      <4> QED
        BY <2>1, <3>1, <4>1 DEF Aims
    <3>4. CASE ~ (t \in run[h].at /\ At(h, "mark"))
      BY <2>1, <3>1, <3>2, <3>4 DEF Aims, At
    <3> QED
      BY <3>3, <3>4
  <2>3. Aimed'
    BY <2>2 DEF Aimed
  <2> QED
    BY <2>1, <2>3 DEF FlagInv, Reach, FlaggedForAReason
<1>3. CASE StoreChat(t)
  <2>1. Aimed'
    BY <1>3 DEF StoreChat, FlagInv, Aimed
  <2> QED
    BY <1>3, <2>1 DEF StoreChat, bounds, FlagInv, Reach, FlaggedForAReason
<1> QED
  BY <1>1, <1>2, <1>3

LEMMA FlagStopLook ==
  ASSUME Inv, FlagInv, StopLook
  PROVE  FlagInv'
<1>1. /\ commands > 0 /\ commands' = commands - 1
      /\ UNCHANGED <<flagged, gone, coming, unheard, pc, run, moves, restarts>>
  BY DEF StopLook, telegram
<1>2. commands' \in 0 .. MaxCommands
  <2>1. commands \in 0 .. MaxCommands
    BY DEF FlagInv, Reach
  <2> QED
    BY <1>1, <2>1, BroadcastAssumption
<1>3. Aimed'
  BY <1>1 DEF FlagInv, Aimed
<1> QED
  BY <1>1, <1>2, <1>3 DEF FlagInv, Reach, FlaggedForAReason

LEMMA FlagStopStore ==
  ASSUME Inv, FlagInv, NEW s \in stops, StopStore(s)
  PROVE  FlagInv'
<1>1. UNCHANGED <<flagged, gone, coming, unheard, pc, commands, moves, restarts>>
  BY DEF StopStore, telegram, bounds
<1>2. ASSUME NEW h \in Handlers
      PROVE  Aims(pc'[h], run'[h], gone')
  <2>1. run[h] \in Runs /\ Aims(pc[h], run[h], gone)
    BY DEF Inv, Typed, FlagInv, Aimed
  <2>2. run'[h].at = run[h].at /\ run'[h].back = run[h].back
    BY <2>1 DEF StopStore, Runs
  <2> QED
    BY <1>1, <2>1, <2>2 DEF Aims
<1>3. Aimed'
  BY <1>2 DEF Aimed
<1> QED
  BY <1>1, <1>3 DEF FlagInv, Reach, FlaggedForAReason

LEMMA FlagRestart ==
  ASSUME Inv, FlagInv, Restart
  PROVE  FlagInv'
<1>1. restarts' \in 0 .. MaxRestarts
  <2>1. restarts \in 0 .. MaxRestarts /\ restarts > 0 /\ restarts' = restarts - 1
    BY DEF Restart, FlagInv, Reach
  <2> QED
    BY <2>1, BroadcastAssumption
<1>2. Aimed'
  BY DEF Restart, Aimed, Aims, NoRun
<1> QED
  BY <1>1, <1>2 DEF Restart, FlagInv, Reach, FlaggedForAReason

LEMMA FlagStep == Inv /\ FlagInv /\ [Next]_vars => FlagInv'
<1> SUFFICES ASSUME Inv, FlagInv, [Next]_vars
             PROVE  FlagInv'
  OBVIOUS
<1>1. CASE UNCHANGED vars
  BY <1>1 DEF vars, flags, telegram, bounds, FlagInv, Reach, Aimed, FlaggedForAReason
<1>2. ASSUME NEW h \in Handlers, (\E mode \in Modes : Broadcast(h, mode)) \/ Step(h)
      PROVE  FlagInv'
  BY <1>2, FlagStart, FlagQuiet, FlagSend, FlagMark DEF Step
<1> QED
  BY <1>1, <1>2, FlagStopLook, FlagStopStore, FlagMoves, FlagRestart DEF Next

LEMMA BroadcastHolds == Spec => [](Inv /\ FlagInv)
  BY InitInv, StepInv, FlagInit, FlagStep, PTL DEF Spec
-----------------------------------------------------------------------------
(* Playlist. *)

Places == {"idle", "count", "insert", "get", "delete", "exists", "push", "pull"}
Jobs == [kind : {"none", "create", "delete", "add", "remove", "button"},
         user : {None} \cup Owners, list : {None} \cup Playlists,
         track : {None} \cup Tracks, changed : BOOLEAN]
Documents == [owner : Owners, songs : [Tracks -> Nat]]

\* What a handler at l with the job j knows of the collection: past the
\* question of who owns the playlist it goes on with one that is its user's as
\* long as it exists, and what songExists has found is so unless it is told
\* that the list has changed.
JobOK(l, j, lists, ids) ==
  /\ j \in Jobs
  /\ l # "idle" => j.user \in Owners
  /\ j.kind \in {"add", "button"} \/ l \in {"exists", "push", "pull"} => j.track \in Tracks
  /\ l = "get" => j.list \in ids
  /\ l \in {"delete", "exists", "push", "pull"} =>
       /\ j.list \in ids
       /\ lists[j.list] # None => lists[j.list].owner = j.user
  /\ (l = "push" /\ ~ j.changed /\ lists[j.list] # None) => lists[j.list].songs[j.track] = 0

JobsOK == \A h \in Clients : JobOK(place[h], job[h], playlists, used)

\* The handlers that have counted and are about to create one.
Waiting(u) == {h \in Clients : place[h] = "insert" /\ job[h].user = u}

Bounded ==
  /\ IsFiniteSet(used)
  /\ \A u \in Owners : Cardinality(P!Owned(u)) + Cardinality(Waiting(u))
                        < PlaylistLimit + Cardinality(Clients)

ListInv == P!TypeOK /\ JobsOK /\ P!OnceForAReason /\ Bounded

\* Playlist's Cardinality is the one the library's facts are about.
LEMMA SameCardinality == \A S : P!Cardinality(S) = Cardinality(S)
  BY DEF P!Cardinality, Cardinality

LEMMA ListTypes ==
  ASSUME ListInv
  PROVE  /\ playlists \in [Playlists -> {None} \cup Documents]
         /\ place \in [Clients -> Places] /\ job \in [Clients -> Jobs]
         /\ used \subseteq Playlists /\ \A p \in Playlists : P!Exists(p) => p \in used
         /\ doubled \subseteq Playlists \X Tracks /\ requests \in 0 .. MaxRequests
  BY DEF ListInv, P!TypeOK, Places, Jobs, Documents

LEMMA NoJobOK ==
  P!NoJob \in Jobs /\ \A lists, ids : JobOK("idle", P!NoJob, lists, ids)
  BY DEF P!NoJob, Jobs, JobOK

LEMMA FewEnough ==
  ASSUME ListInv, NEW u
  PROVE  /\ IsFiniteSet(P!Owned(u)) /\ Cardinality(P!Owned(u)) \in Nat
         /\ IsFiniteSet(Waiting(u)) /\ Cardinality(Waiting(u)) \in Nat
         /\ Cardinality(Clients) \in Nat
<1>1. P!Owned(u) \subseteq used /\ Waiting(u) \subseteq Clients /\ IsFiniteSet(used)
  BY DEF P!Owned, Waiting, ListInv, Bounded
<1>2. IsFiniteSet(P!Owned(u)) /\ IsFiniteSet(Waiting(u))
  BY <1>1, PlaylistAssumption, FS_Subset
<1> QED
  BY <1>2, PlaylistAssumption, FS_CardinalityType

\* Fewer playlists of a user and fewer waiting handlers keep the bound.
LEMMA FewerIsBounded ==
  ASSUME ListInv, NEW u \in Owners,
         P!Owned(u)' \subseteq P!Owned(u), Waiting(u)' \subseteq Waiting(u)
  PROVE  Cardinality(P!Owned(u)') + Cardinality(Waiting(u)') < PlaylistLimit + Cardinality(Clients)
<1>1. /\ IsFiniteSet(P!Owned(u)) /\ Cardinality(P!Owned(u)) \in Nat
      /\ IsFiniteSet(Waiting(u)) /\ Cardinality(Waiting(u)) \in Nat
      /\ Cardinality(Clients) \in Nat
  BY FewEnough
<1>2. /\ IsFiniteSet(P!Owned(u)') /\ Cardinality(P!Owned(u)') <= Cardinality(P!Owned(u))
      /\ IsFiniteSet(Waiting(u)') /\ Cardinality(Waiting(u)') <= Cardinality(Waiting(u))
  BY <1>1, FS_Subset
<1>3. Cardinality(P!Owned(u)') \in Nat /\ Cardinality(Waiting(u)') \in Nat
  BY <1>2, FS_CardinalityType
<1>4. Cardinality(P!Owned(u)) + Cardinality(Waiting(u)) < PlaylistLimit + Cardinality(Clients)
  BY DEF ListInv, Bounded
<1> QED
  BY <1>1, <1>2, <1>3, <1>4, PlaylistAssumption

LEMMA ListInit == P!Init => ListInv
<1> SUFFICES ASSUME P!Init
             PROVE  ListInv
  OBVIOUS
<1>1. P!TypeOK
  BY NoJobOK, PlaylistAssumption DEF P!Init, P!TypeOK, P!Exists, Jobs
<1>2. JobsOK
  BY NoJobOK DEF P!Init, JobsOK
<1>3. P!OnceForAReason
  BY DEF P!Init, P!OnceForAReason, P!Exists
<1>4. IsFiniteSet(used)
  BY FS_EmptySet DEF P!Init
<1>5. \A u \in Owners : P!Owned(u) = {} /\ Waiting(u) = {}
  BY DEF P!Init, P!Owned, Waiting
<1>6. Cardinality({}) = 0 /\ Cardinality(Clients) \in Nat
  BY FS_EmptySet, PlaylistAssumption, FS_CardinalityType
<1>7. Bounded
  BY <1>4, <1>5, <1>6, PlaylistAssumption DEF Bounded
<1> QED
  BY <1>1, <1>2, <1>3, <1>7 DEF ListInv

\* A step of h that leaves the collection alone.
LEMMA ListMove ==
  ASSUME ListInv, NEW h \in Clients, NEW l \in Places, NEW j,
         playlists' = playlists, used' = used, doubled' = doubled,
         requests' \in 0 .. MaxRequests,
         place' = [place EXCEPT ![h] = l], job' = [job EXCEPT ![h] = j],
         JobOK(l, j, playlists, used),
         l = "insert" => Cardinality(P!Owned(j.user)) < PlaylistLimit
  PROVE  ListInv'
<1>1. \A g \in Clients : /\ place'[g] = IF g = h THEN l ELSE place[g]
                         /\ job'[g] = IF g = h THEN j ELSE job[g]
  BY ListTypes
<1>2. j \in Jobs
  BY DEF JobOK
<1>3. P!TypeOK'
  <2>1. place' \in [Clients -> Places] /\ job' \in [Clients -> Jobs]
    BY <1>2, ListTypes
  <2> QED
    BY <2>1 DEF ListInv, P!TypeOK, Places, Jobs, P!Exists
<1>4. JobsOK'
  <2>1. ASSUME NEW g \in Clients
        PROVE  JobOK(place'[g], job'[g], playlists, used)
    BY <1>1 DEF ListInv, JobsOK
  <2> QED
    BY <2>1 DEF JobsOK
<1>5. P!OnceForAReason'
  BY DEF ListInv, P!OnceForAReason, P!Exists
<1>6. \A u : P!Owned(u)' = P!Owned(u)
  BY DEF P!Owned, P!Exists
<1>7. ASSUME NEW u \in Owners
      PROVE  Cardinality(P!Owned(u)') + Cardinality(Waiting(u)') < PlaylistLimit + Cardinality(Clients)
  <2>1. CASE l = "insert" /\ j.user = u
    <3>1. Waiting(u)' \subseteq Clients
      BY DEF Waiting
    <3>2. IsFiniteSet(Waiting(u)') /\ Cardinality(Waiting(u)') <= Cardinality(Clients)
      BY <3>1, PlaylistAssumption, FS_Subset
    <3>3. Cardinality(Waiting(u)') \in Nat
      BY <3>2, FS_CardinalityType
    <3>4. Cardinality(P!Owned(u)) \in Nat /\ Cardinality(Clients) \in Nat
      BY FewEnough
    <3>5. Cardinality(P!Owned(u)) < PlaylistLimit
      BY <2>1
    <3> QED
      BY <1>6, <3>2, <3>3, <3>4, <3>5, PlaylistAssumption
  <2>2. CASE ~ (l = "insert" /\ j.user = u)
    <3>1. Waiting(u)' \subseteq Waiting(u)
      BY <1>1, <2>2 DEF Waiting
    <3> QED
      BY <1>6, <3>1, FewerIsBounded
  <2> QED
    BY <2>1, <2>2
<1>8. Bounded'
  BY <1>7 DEF ListInv, Bounded
<1> QED
  BY <1>3, <1>4, <1>5, <1>8 DEF ListInv

\* A request of h that changes the songs of its playlist q, or deletes it, and
\* tells the handlers that have looked into it.
LEMMA ListChange ==
  ASSUME ListInv, NEW h \in Clients, NEW q \in used, NEW v \in {None} \cup Documents,
         job[h].list = q,
         playlists' = [playlists EXCEPT ![q] = v], used' = used, requests' = requests,
         v # None => P!Exists(q) /\ v.owner = playlists[q].owner,
         place' = [place EXCEPT ![h] = "idle"], P!Changed(h, P!NoJob),
         doubled' \subseteq Playlists \X Tracks,
         \A p \in Playlists \ {q}, t \in Tracks : <<p, t>> \in doubled => <<p, t>> \in doubled',
         v # None => \A t \in Tracks : v.songs[t] > 1 => <<q, t>> \in doubled'
  PROVE  ListInv'
<1> DEFINE Alerted(g) == [job[g] EXCEPT !.changed = TRUE]
<1>1. q \in Playlists
  BY ListTypes
<1>2. \A p \in Playlists : playlists'[p] = IF p = q THEN v ELSE playlists[p]
  BY ListTypes
<1>3. job' = [g \in Clients |->
                IF g = h THEN P!NoJob
                ELSE IF P!At(g, "push") /\ job[g].list = q THEN Alerted(g) ELSE job[g]]
  BY DEF P!Changed
<1>4. \A g \in Clients : /\ Alerted(g) \in Jobs /\ Alerted(g).changed
                         /\ Alerted(g).kind = job[g].kind /\ Alerted(g).user = job[g].user
                         /\ Alerted(g).list = job[g].list /\ Alerted(g).track = job[g].track
  BY ListTypes DEF Jobs
<1> HIDE DEF Alerted
<1>5. \A g \in Clients : place'[g] = IF g = h THEN "idle" ELSE place[g]
  BY ListTypes
<1>6. ASSUME NEW g \in Clients
      PROVE  JobOK(place'[g], job'[g], playlists', used)
  <2>1. CASE g = h
    BY <1>3, <1>5, <2>1, NoJobOK
  <2>2. CASE g # h
    <3>1. JobOK(place[g], job[g], playlists, used) /\ job[g] \in Jobs
      BY ListTypes DEF ListInv, JobsOK
    <3>2. \A p \in used : playlists'[p] # None =>
            playlists[p] # None /\ playlists'[p].owner = playlists[p].owner
      BY <1>2, ListTypes DEF P!Exists
    <3>3. CASE P!At(g, "push") /\ job[g].list = q
      <4>1. job'[g] = Alerted(g) /\ place'[g] = "push" /\ place[g] = "push"
        BY <1>3, <1>5, <2>2, <3>3 DEF P!At
      <4> QED
        BY <1>4, <3>1, <3>2, <4>1 DEF JobOK
    <3>4. CASE ~ (P!At(g, "push") /\ job[g].list = q)
      <4>1. job'[g] = job[g] /\ place'[g] = place[g]
        BY <1>3, <1>5, <2>2, <3>4
      <4>2. place[g] = "push" => playlists'[job[g].list] = playlists[job[g].list]
        BY <1>2, <3>1, <3>4, ListTypes DEF JobOK, P!At
      <4> QED
        BY <3>1, <3>2, <4>1, <4>2 DEF JobOK
    <3> QED
      BY <3>3, <3>4
  <2> QED
    BY <2>1, <2>2
<1>7. JobsOK'
  BY <1>6 DEF JobsOK
<1>8. P!TypeOK'
  <2>1. playlists' \in [Playlists -> {None} \cup Documents]
    BY ListTypes
  <2>2. place' \in [Clients -> Places]
    BY ListTypes DEF Places
  <2>3. job' \in [Clients -> Jobs]
    <3>1. \A g \in Clients : job'[g] \in Jobs
      BY <1>6 DEF JobOK
    <3>2. job' = [g \in Clients |-> job'[g]]
      BY <1>3
    <3> QED
      BY <3>1, <3>2
  <2>4. \A p \in Playlists : P!Exists(p)' => p \in used'
    BY <1>2, ListTypes DEF P!Exists
  <2> QED
    BY <2>1, <2>2, <2>3, <2>4, ListTypes DEF P!TypeOK, Places, Jobs, Documents
<1>9. P!OnceForAReason'
  BY <1>1, <1>2 DEF ListInv, P!OnceForAReason, P!Exists
<1>10. ASSUME NEW u \in Owners
       PROVE  P!Owned(u)' \subseteq P!Owned(u) /\ Waiting(u)' \subseteq Waiting(u)
  <2>1. P!Owned(u)' \subseteq P!Owned(u)
    BY <1>2, ListTypes DEF P!Owned, P!Exists
  <2>2. Waiting(u)' \subseteq Waiting(u)
    BY <1>3, <1>4, <1>5 DEF Waiting
  <2> QED
    BY <2>1, <2>2
<1>11. Bounded'
  BY <1>10, FewerIsBounded DEF ListInv, Bounded
<1> QED
  BY <1>7, <1>8, <1>9, <1>11 DEF ListInv

LEMMA ListBegin ==
  ASSUME ListInv, NEW h \in Clients, P!Create(h) \/ P!Command(h) \/ P!Button(h)
  PROVE  ListInv'
<1>1. ASSUME NEW j, NEW l \in {"count", "get"}, P!Begin(h, j, l), JobOK(l, j, playlists, used)
      PROVE  ListInv'
  <2>1. requests' \in 0 .. MaxRequests
    <3>1. requests \in 0 .. MaxRequests /\ requests > 0 /\ requests' = requests - 1
      BY <1>1, ListTypes DEF P!Begin
    <3> QED
      BY <3>1, PlaylistAssumption
  <2> QED
    BY <1>1, <2>1, ListMove DEF P!Begin, P!Goto, Places
<1>2. CASE P!Create(h)
  <2>1. PICK u \in Owners : P!Begin(h, [P!NoJob EXCEPT !.kind = "create", !.user = u], "count")
    BY <1>2 DEF P!Create
  <2>2. JobOK("count", [P!NoJob EXCEPT !.kind = "create", !.user = u], playlists, used)
    BY DEF P!NoJob, JobOK, Jobs
  <2> QED
    BY <1>1, <2>1, <2>2
<1>3. CASE P!Command(h)
  <2>1. PICK kind \in {"delete", "add", "remove"}, u \in Owners, p \in used, t \in Tracks :
          P!Begin(h, [P!NoJob EXCEPT !.kind = kind, !.user = u, !.list = p,
                                 !.track = IF kind = "add" THEN t ELSE None], "get")
    BY <1>3 DEF P!Command
  <2> DEFINE track == IF kind = "add" THEN t ELSE None
             j == [P!NoJob EXCEPT !.kind = kind, !.user = u, !.list = p, !.track = track]
  <2>2. track \in {None} \cup Tracks /\ (kind = "add" => track \in Tracks)
    OBVIOUS
  <2>3. P!Begin(h, j, "get")
    BY <2>1
  <2> HIDE DEF track
  <2>4. p \in Playlists
    BY ListTypes
  <2>5. j \in Jobs /\ j.kind = kind /\ j.user = u /\ j.list = p /\ j.track = track
    BY <2>2, <2>4 DEF P!NoJob, Jobs
  <2>6. JobOK("get", j, playlists, used)
    BY <2>2, <2>5 DEF JobOK
  <2> HIDE DEF j
  <2> QED
    BY <1>1, <2>3, <2>6
<1>4. CASE P!Button(h)
  <2>1. PICK u \in Owners, t \in Tracks :
          P!Begin(h, [P!NoJob EXCEPT !.kind = "button", !.user = u, !.track = t], "count")
    BY <1>4 DEF P!Button
  <2>2. JobOK("count", [P!NoJob EXCEPT !.kind = "button", !.user = u, !.track = t], playlists, used)
    BY DEF P!NoJob, JobOK, Jobs
  <2> QED
    BY <1>1, <2>1, <2>2
<1> QED
  BY <1>2, <1>3, <1>4

\* The steps that only read.
LEMMA ListRead ==
  ASSUME ListInv, NEW h \in Clients, P!Count(h) \/ P!Get(h) \/ P!SongExists(h)
  PROVE  ListInv'
<1> DEFINE j == job[h]
<1>1. /\ playlists' = playlists /\ used' = used /\ doubled' = doubled
      /\ requests' \in 0 .. MaxRequests
  BY ListTypes DEF P!Count, P!Get, P!SongExists
<1>2. j \in Jobs /\ JobOK(place[h], j, playlists, used) /\ job = [job EXCEPT ![h] = j]
  BY ListTypes DEF ListInv, JobsOK
<1>3. CASE P!Return(h)
  BY <1>1, <1>3, ListMove, NoJobOK DEF P!Return, P!Goto, Places
<1>4. ASSUME NEW l \in Places \ {"insert"}, P!Goto(h, l), job' = job, JobOK(l, j, playlists, used)
      PROVE  ListInv'
  <2>1. place' = [place EXCEPT ![h] = l] /\ job' = [job EXCEPT ![h] = j]
    BY <1>2, <1>4 DEF P!Goto
  <2> QED
    BY <1>1, <1>4, <2>1, ListMove
<1>5. CASE P!Count(h)
  <2>1. place[h] = "count"
    BY <1>5 DEF P!Count, P!At
  <2>2. CASE /\ \/ j.kind = "create" /\ P!Cardinality(P!Owned(j.user)) < PlaylistLimit
                \/ j.kind = "button" /\ P!Owned(j.user) = {}
             /\ P!Goto(h, "insert") /\ job' = job
    <3>1. Cardinality(P!Owned(j.user)) < PlaylistLimit
      BY <2>2, SameCardinality, FS_EmptySet, PlaylistAssumption
    <3>2. JobOK("insert", j, playlists, used)
      BY <1>2, <2>1 DEF JobOK
    <3>3. place' = [place EXCEPT ![h] = "insert"] /\ job' = [job EXCEPT ![h] = j]
      BY <1>2, <2>2 DEF P!Goto
    <3> QED
      BY <1>1, <3>1, <3>2, <3>3, ListMove DEF Places
  <2>3. CASE /\ j.kind = "button" /\ P!Goto(h, "exists")
             /\ \E p \in P!Owned(j.user) : job' = [job EXCEPT ![h].list = p]
    <3>1. PICK p \in P!Owned(j.user) : job' = [job EXCEPT ![h].list = p]
      BY <2>3
    <3>2. p \in used /\ p \in Playlists /\ playlists[p].owner = j.user
      BY ListTypes DEF P!Owned
    <3> DEFINE k == [j EXCEPT !.list = p]
    <3>3. /\ k \in Jobs /\ k.list = p /\ k.user = j.user /\ k.track = j.track
          /\ k.kind = j.kind
      BY <1>2, <3>2 DEF Jobs
    <3>4. JobOK("exists", k, playlists, used)
      BY <1>2, <2>1, <2>3, <3>2, <3>3 DEF JobOK
    <3>5. job' = [job EXCEPT ![h] = k] /\ place' = [place EXCEPT ![h] = "exists"]
      BY <2>3, <3>1 DEF P!Goto
    <3> HIDE DEF k
    <3> QED
      BY <1>1, <3>4, <3>5, ListMove DEF Places
  <2> QED
    BY <1>3, <1>5, <2>2, <2>3 DEF P!Count
<1>6. CASE P!Get(h)
  <2>1. place[h] = "get"
    BY <1>6 DEF P!Get, P!At
  <2>2. CASE /\ P!Exists(j.list) /\ playlists[j.list].owner = j.user
             /\ j.kind = "delete" /\ P!Goto(h, "delete") /\ job' = job
    <3>1. JobOK("delete", j, playlists, used)
      BY <1>2, <2>1, <2>2 DEF JobOK
    <3> QED
      BY <1>4, <2>2, <3>1 DEF Places
  <2>3. CASE /\ P!Exists(j.list) /\ playlists[j.list].owner = j.user
             /\ j.kind = "add" /\ P!Goto(h, "exists") /\ job' = job
    <3>1. JobOK("exists", j, playlists, used)
      BY <1>2, <2>1, <2>3 DEF JobOK
    <3> QED
      BY <1>4, <2>3, <3>1 DEF Places
  <2>4. CASE /\ P!Exists(j.list) /\ playlists[j.list].owner = j.user /\ j.kind = "remove"
             /\ \E t \in Tracks : P!Has(j.list, t) /\ job' = [job EXCEPT ![h].track = t]
             /\ P!Goto(h, "exists")
    <3>1. PICK t \in Tracks : job' = [job EXCEPT ![h].track = t]
      BY <2>4
    <3> DEFINE k == [j EXCEPT !.track = t]
    <3>2. /\ k \in Jobs /\ k.list = j.list /\ k.user = j.user /\ k.track = t
          /\ k.kind = j.kind
      BY <1>2 DEF Jobs
    <3>3. JobOK("exists", k, playlists, used)
      BY <1>2, <2>1, <2>4, <3>2 DEF JobOK
    <3>4. job' = [job EXCEPT ![h] = k] /\ place' = [place EXCEPT ![h] = "exists"]
      BY <2>4, <3>1 DEF P!Goto
    <3> HIDE DEF k
    <3> QED
      BY <1>1, <3>3, <3>4, ListMove DEF Places
  <2> QED
    BY <1>3, <1>6, <2>2, <2>3, <2>4 DEF P!Get
<1>7. CASE P!SongExists(h)
  <2>1. place[h] = "exists"
    BY <1>7 DEF P!SongExists, P!At
  <2>2. j.track \in Tracks /\ j.list \in Playlists
    BY <1>2, <2>1, ListTypes DEF JobOK
  <2>3. CASE P!Goto(h, "pull") /\ job' = job
    <3>1. JobOK("pull", j, playlists, used)
      BY <1>2, <2>1 DEF JobOK
    <3> QED
      BY <1>4, <2>3, <3>1 DEF Places
  <2>4. CASE ~ P!Has(j.list, j.track) /\ P!Goto(h, "push") /\ job' = job
    <3>1. playlists[j.list] # None => playlists[j.list].songs[j.track] = 0
      BY <2>2, <2>4, ListTypes DEF P!Has, P!Exists, Documents
    <3>2. JobOK("push", j, playlists, used)
      BY <1>2, <2>1, <3>1 DEF JobOK
    <3> QED
      BY <1>4, <2>4, <3>2 DEF Places
  <2>5. CASE P!Goto(h, "push") /\ job' = [job EXCEPT ![h].changed = TRUE]
    <3> DEFINE k == [j EXCEPT !.changed = TRUE]
    <3>1. /\ k \in Jobs /\ k.list = j.list /\ k.user = j.user /\ k.track = j.track
          /\ k.kind = j.kind /\ k.changed
      BY <1>2 DEF Jobs
    <3>2. JobOK("push", k, playlists, used)
      BY <1>2, <2>1, <3>1 DEF JobOK
    <3>3. job' = [job EXCEPT ![h] = k] /\ place' = [place EXCEPT ![h] = "push"]
      BY <2>5 DEF P!Goto
    <3> HIDE DEF k
    <3> QED
      BY <1>1, <3>2, <3>3, ListMove DEF Places
  <2> QED
    BY <1>3, <1>7, <2>3, <2>4, <2>5 DEF P!SongExists
<1> QED
  BY <1>5, <1>6, <1>7

\* A new playlist: its identifier was not in use, so no handler's playlist
\* comes to be; whoever creates it was counted as waiting.
LEMMA ListInsert ==
  ASSUME ListInv, NEW h \in Clients, P!Insert(h)
  PROVE  ListInv'
<1> DEFINE j == job[h]
           new == [owner |-> j.user, songs |-> P!NoSongs]
<1>1. /\ place[h] = "insert" /\ j \in Jobs /\ JobOK("insert", j, playlists, used)
      /\ doubled' = doubled /\ requests' = requests
  BY ListTypes DEF P!Insert, P!At, ListInv, JobsOK
<1>2. CASE P!Return(h) /\ UNCHANGED <<playlists, used>>
  BY <1>1, <1>2, ListMove, ListTypes, NoJobOK DEF P!Return, P!Goto, Places
<1>3. ASSUME NEW p \in Playlists \ used,
             playlists' = [playlists EXCEPT ![p] = new], used' = used \cup {p},
             NEW l \in {"idle", "exists"}, NEW k,
             place' = [place EXCEPT ![h] = l], job' = [job EXCEPT ![h] = k],
             JobOK(l, k, playlists', used')
      PROVE  ListInv'
  <2>1. new \in Documents /\ new.owner = j.user /\ \A t \in Tracks : new.songs[t] = 0
    BY <1>1 DEF JobOK, Documents, P!NoSongs
  <2> HIDE DEF new
  <2>2. \A q \in Playlists : playlists'[q] = IF q = p THEN new ELSE playlists[q]
    BY <1>3, ListTypes
  <2>3. \A g \in Clients : /\ place'[g] = IF g = h THEN l ELSE place[g]
                           /\ job'[g] = IF g = h THEN k ELSE job[g]
    BY <1>3, ListTypes
  <2>4. P!TypeOK'
    <3>1. playlists' \in [Playlists -> {None} \cup Documents]
      BY <1>3, <2>1, ListTypes
    <3>2. place' \in [Clients -> Places]
      BY <1>3, ListTypes DEF Places
    <3>3. job' \in [Clients -> Jobs]
      BY <1>3, ListTypes DEF JobOK
    <3>4. \A q \in Playlists : P!Exists(q)' => q \in used'
      BY <1>3, <2>2, ListTypes DEF P!Exists
    <3> QED
      BY <1>1, <1>3, <3>1, <3>2, <3>3, <3>4, ListTypes DEF P!TypeOK, Places, Jobs, Documents
  <2>5. JobsOK'
    <3>1. ASSUME NEW g \in Clients
          PROVE  JobOK(place'[g], job'[g], playlists', used')
      <4>1. CASE g = h
        BY <1>3, <2>3, <4>1
      <4>2. CASE g # h
        <5>1. /\ place'[g] = place[g] /\ job'[g] = job[g]
              /\ JobOK(place[g], job[g], playlists, used)
          BY <2>3, <4>2 DEF ListInv, JobsOK
        <5>2. \A q \in used : q \in used' /\ playlists'[q] = playlists[q]
          BY <1>3, <2>2, ListTypes
        <5> QED
          BY <5>1, <5>2 DEF JobOK
      <4> QED
        BY <4>1, <4>2
    <3> QED
      BY <3>1 DEF JobsOK
  <2>6. P!OnceForAReason'
    BY <1>1, <2>1, <2>2 DEF ListInv, P!OnceForAReason, P!Exists
  <2>7. IsFiniteSet(used')
    BY <1>3, FS_AddElement DEF ListInv, Bounded
  <2>8. ASSUME NEW u \in Owners
        PROVE  Cardinality(P!Owned(u)') + Cardinality(Waiting(u)') < PlaylistLimit + Cardinality(Clients)
    <3>1. P!Owned(u)' \subseteq P!Owned(u) \cup {p}
      BY <1>3, <2>2, ListTypes DEF P!Owned, P!Exists
    <3>2. CASE u = j.user
      <4>1. h \in Waiting(u) /\ Waiting(u)' = Waiting(u) \ {h}
        BY <1>1, <2>3, <3>2 DEF Waiting
      <4>2. /\ IsFiniteSet(P!Owned(u)) /\ Cardinality(P!Owned(u)) \in Nat
            /\ IsFiniteSet(Waiting(u)) /\ Cardinality(Waiting(u)) \in Nat
            /\ Cardinality(Clients) \in Nat
        BY FewEnough
      <4>3. Cardinality(Waiting(u)') = Cardinality(Waiting(u)) - 1
        BY <4>1, <4>2, FS_RemoveElement
      <4>4. IsFiniteSet(P!Owned(u) \cup {p}) /\ Cardinality(P!Owned(u) \cup {p}) <= Cardinality(P!Owned(u)) + 1
        <5>1. /\ IsFiniteSet(P!Owned(u) \cup {p})
              /\ Cardinality(P!Owned(u) \cup {p}) \in {Cardinality(P!Owned(u)), Cardinality(P!Owned(u)) + 1}
          BY <4>2, FS_AddElement
        <5> QED
          BY <4>2, <5>1
      <4>5. IsFiniteSet(P!Owned(u)') /\ Cardinality(P!Owned(u)') <= Cardinality(P!Owned(u) \cup {p})
        BY <3>1, <4>4, FS_Subset
      <4>6. Cardinality(P!Owned(u)') \in Nat /\ Cardinality(P!Owned(u) \cup {p}) \in Nat
        BY <4>4, <4>5, FS_CardinalityType
      <4>7. Cardinality(P!Owned(u)) + Cardinality(Waiting(u)) < PlaylistLimit + Cardinality(Clients)
        BY DEF ListInv, Bounded
      <4> QED
        BY <4>2, <4>3, <4>4, <4>5, <4>6, <4>7, PlaylistAssumption
    <3>3. CASE u # j.user
      <4>1. P!Owned(u)' \subseteq P!Owned(u)
        BY <1>3, <2>1, <2>2, <3>3, ListTypes DEF P!Owned, P!Exists
      <4>2. Waiting(u)' \subseteq Waiting(u)
        BY <2>3 DEF Waiting
      <4> QED
        BY <4>1, <4>2, FewerIsBounded
    <3> QED
      BY <3>2, <3>3
  <2> QED
    BY <2>4, <2>5, <2>6, <2>7, <2>8 DEF ListInv, Bounded
<1>4. ASSUME NEW p \in Playlists \ used,
             playlists' = [playlists EXCEPT ![p] = new], used' = used \cup {p},
             j.kind = "button", job' = [job EXCEPT ![h].list = p], P!Goto(h, "exists")
      PROVE  ListInv'
  <2> DEFINE k == [j EXCEPT !.list = p]
  <2>1. k \in Jobs /\ k.list = p /\ k.user = j.user /\ k.track = j.track /\ k.kind = j.kind
    BY <1>1 DEF Jobs
  <2>2. playlists'[p].owner = j.user
    BY <1>4, ListTypes
  <2>3. JobOK("exists", k, playlists', used')
    BY <1>1, <1>4, <2>1, <2>2 DEF JobOK
  <2>4. job' = [job EXCEPT ![h] = k] /\ place' = [place EXCEPT ![h] = "exists"]
    BY <1>4 DEF P!Goto
  <2> HIDE DEF k, new
  <2> QED
    BY <1>3, <1>4, <2>3, <2>4
<1>5. ASSUME NEW p \in Playlists \ used,
             playlists' = [playlists EXCEPT ![p] = new], used' = used \cup {p}, P!Return(h)
      PROVE  ListInv'
  <2>1. JobOK("idle", P!NoJob, playlists', used')
    BY NoJobOK
  <2> HIDE DEF new
  <2> QED
    BY <1>3, <1>5, <2>1 DEF P!Return, P!Goto
<1> QED
  BY <1>2, <1>4, <1>5 DEF P!Insert

\* The requests that change or delete a playlist.
LEMMA ListWrite ==
  ASSUME ListInv, NEW h \in Clients, P!Delete(h) \/ P!Push(h) \/ P!Pull(h)
  PROVE  ListInv'
<1> DEFINE j == job[h]
           q == j.list
<1>1. /\ place[h] \in {"delete", "push", "pull"} /\ JobOK(place[h], j, playlists, used)
      /\ used' = used /\ requests' = requests /\ place' = [place EXCEPT ![h] = "idle"]
  BY DEF ListInv, JobsOK, P!Delete, P!Push, P!Pull, P!At, P!Goto
<1>2. /\ q \in used /\ q \in Playlists
      /\ P!Exists(q) => playlists[q] \in Documents /\ playlists[q].owner = j.user
  BY <1>1, ListTypes DEF JobOK, P!Exists
<1>3. CASE UNCHANGED <<playlists, doubled>> /\ job' = [job EXCEPT ![h] = P!NoJob]
  BY <1>1, <1>3, ListMove, ListTypes, NoJobOK DEF Places
<1>4. ASSUME P!Changed(h, P!NoJob), P!Delete(h), doubled' = {d \in doubled : d[1] # q},
             playlists' = [playlists EXCEPT ![q] =
               IF P!Exists(q) /\ @.owner = j.user THEN None ELSE @]
      PROVE  ListInv'
  <2> DEFINE v == IF P!Exists(q) /\ playlists[q].owner = j.user THEN None ELSE playlists[q]
  <2>1. playlists' = [playlists EXCEPT ![q] = v]
    BY <1>4
  <2>2. v = None
    BY <1>2 DEF P!Exists
  <2>3. /\ doubled' \subseteq Playlists \X Tracks
        /\ \A p \in Playlists \ {q}, t \in Tracks : <<p, t>> \in doubled => <<p, t>> \in doubled'
    BY <1>4, ListTypes
  <2> HIDE DEF v
  <2> QED
    BY <1>1, <1>2, <1>4, <2>1, <2>2, <2>3, ListChange
<1>5. ASSUME NEW n \in Nat, P!Exists(q), P!Changed(h, P!NoJob), j.track \in Tracks,
             playlists' = [playlists EXCEPT ![q].songs[j.track] = n],
             doubled' \subseteq Playlists \X Tracks,
             \A p \in Playlists, t \in Tracks :
               <<p, t>> \in doubled /\ <<p, t>> # <<q, j.track>> => <<p, t>> \in doubled',
             n > 1 => <<q, j.track>> \in doubled'
      PROVE  ListInv'
  <2> DEFINE v == [playlists[q] EXCEPT !.songs[j.track] = n]
  <2>1. playlists' = [playlists EXCEPT ![q] = v]
    BY <1>5
  <2>2. playlists[q] \in Documents /\ playlists[q] # None
    BY <1>2, <1>5 DEF P!Exists
  <2>3. /\ v \in Documents /\ v.owner = playlists[q].owner
        /\ \A t \in Tracks : v.songs[t] = IF t = j.track THEN n ELSE playlists[q].songs[t]
    BY <1>5, <2>2 DEF Documents
  <2> HIDE DEF v
  <2>4. \A t \in Tracks : v.songs[t] > 1 => <<q, t>> \in doubled'
    <3> SUFFICES ASSUME NEW t \in Tracks, v.songs[t] > 1
                 PROVE  <<q, t>> \in doubled'
      OBVIOUS
    <3>1. CASE t = j.track
      BY <1>5, <2>3, <3>1
    <3>2. CASE t # j.track
      <4>1. <<q, t>> \in doubled
        BY <1>2, <1>5, <2>3, <3>2 DEF ListInv, P!OnceForAReason
      <4> QED
        BY <1>2, <1>5, <3>2, <4>1
    <3> QED
      BY <3>1, <3>2
  <2>5. \A p \in Playlists \ {q}, t \in Tracks : <<p, t>> \in doubled => <<p, t>> \in doubled'
    BY <1>5
  <2> QED
    BY <1>1, <1>2, <1>5, <2>1, <2>3, <2>4, <2>5, ListChange
<1>6. CASE P!Delete(h)
  BY <1>3, <1>4, <1>6 DEF P!Delete
<1>7. CASE P!Push(h)
  <2>1. CASE /\ P!Exists(q) /\ P!Changed(h, P!NoJob)
             /\ playlists' = [playlists EXCEPT ![q].songs[j.track] = @ + 1]
             /\ doubled' = IF j.changed THEN doubled \cup {<<q, j.track>>} ELSE doubled
    <3> DEFINE n == playlists[q].songs[j.track] + 1
    <3>1. place[h] = "push"
      BY <1>7 DEF P!Push, P!At
    <3>2. j.track \in Tracks /\ (~ j.changed => playlists[q].songs[j.track] = 0)
      BY <1>1, <2>1, <3>1 DEF JobOK, P!Exists
    <3>3. n \in Nat /\ playlists[q].songs[j.track] \in Nat
      BY <1>2, <2>1, <3>2 DEF Documents
    <3>4. n > 1 => j.changed
      BY <3>2, <3>3
    <3>5. playlists' = [playlists EXCEPT ![q].songs[j.track] = n]
      BY <2>1
    <3> HIDE DEF n
    <3>6. /\ doubled' \subseteq Playlists \X Tracks
          /\ \A p \in Playlists, t \in Tracks : <<p, t>> \in doubled => <<p, t>> \in doubled'
          /\ n > 1 => <<q, j.track>> \in doubled'
      BY <1>2, <2>1, <3>2, <3>4, ListTypes
    <3> QED
      BY <1>5, <2>1, <3>2, <3>3, <3>5, <3>6
  <2> QED
    BY <1>3, <1>7, <2>1 DEF P!Push
<1>8. CASE P!Pull(h)
  <2>1. CASE /\ P!Exists(q) /\ P!Changed(h, P!NoJob)
             /\ playlists' = [playlists EXCEPT ![q].songs[j.track] = 0]
             /\ doubled' = doubled \ {<<q, j.track>>}
    <3>1. place[h] = "pull"
      BY <1>8 DEF P!Pull, P!At
    <3>2. j.track \in Tracks
      BY <1>1, <3>1 DEF JobOK
    <3>3. /\ doubled' \subseteq Playlists \X Tracks
          /\ \A p \in Playlists, t \in Tracks :
               <<p, t>> \in doubled /\ <<p, t>> # <<q, j.track>> => <<p, t>> \in doubled'
      BY <2>1, ListTypes
    <3> DEFINE n == 0
    <3>4. n \in Nat /\ ~ (n > 1) /\ playlists' = [playlists EXCEPT ![q].songs[j.track] = n]
      BY <2>1
    <3> HIDE DEF n
    <3> QED
      BY <1>5, <2>1, <3>2, <3>3, <3>4
  <2> QED
    BY <1>3, <1>8, <2>1 DEF P!Pull
<1> QED
  BY <1>6, <1>7, <1>8

LEMMA ListStep == ListInv /\ [P!Next]_(P!vars) => ListInv'
<1> SUFFICES ASSUME ListInv, [P!Next]_(P!vars)
             PROVE  ListInv'
  OBVIOUS
<1>1. CASE UNCHANGED P!vars
  <2>1. ListInv
    OBVIOUS
  <2> QED
    BY <1>1, <2>1 DEF ListInv, P!TypeOK, JobsOK, P!OnceForAReason, Bounded, P!Owned, Waiting, P!Exists, P!vars
<1>2. ASSUME NEW h \in Clients, P!Create(h) \/ P!Command(h) \/ P!Button(h) \/ P!Step(h)
      PROVE  ListInv'
  BY <1>2, ListBegin, ListRead, ListInsert, ListWrite DEF P!Step
<1> QED
  BY <1>1, <1>2 DEF P!Next

LEMMA ListHolds == P!Spec => []ListInv
  BY ListInit, ListStep, PTL DEF P!Spec
-----------------------------------------------------------------------------
\* What a step changes in the collection.
LEMMA OwnersStep ==
  ASSUME ListInv, [P!Next]_(P!vars), NEW p \in Playlists, P!Exists(p), playlists'[p] # playlists[p]
  PROVE  \E h \in Clients : /\ place[h] \in {"delete", "push", "pull"}
                            /\ job[h].list = p /\ job[h].user = playlists[p].owner
<1>1. p \in used
  BY ListTypes
<1>2. PICK h \in Clients : P!Create(h) \/ P!Command(h) \/ P!Button(h) \/ P!Step(h)
  BY DEF P!Next, P!vars
<1>3. CASE UNCHANGED playlists
  BY <1>3
<1>4. ASSUME NEW v, playlists' = [playlists EXCEPT ![job[h].list] = v],
             place[h] \in {"delete", "push", "pull"}
      PROVE  /\ place[h] \in {"delete", "push", "pull"}
             /\ job[h].list = p /\ job[h].user = playlists[p].owner
  <2>1. job[h].list = p
    BY <1>4, ListTypes
  <2>2. JobOK(place[h], job[h], playlists, used)
    BY DEF ListInv, JobsOK
  <2> QED
    BY <1>4, <2>1, <2>2 DEF JobOK, P!Exists
<1>5. CASE P!Insert(h)
  BY <1>1, <1>5, ListTypes DEF P!Insert
<1>6. CASE P!Delete(h)
  <2> DEFINE v == IF P!Exists(job[h].list) /\ playlists[job[h].list].owner = job[h].user
                  THEN None ELSE playlists[job[h].list]
  <2>1. playlists' = [playlists EXCEPT ![job[h].list] = v] \/ UNCHANGED playlists
    BY <1>6 DEF P!Delete
  <2>2. place[h] = "delete"
    BY <1>6 DEF P!Delete, P!At
  <2> HIDE DEF v
  <2> QED
    BY <1>3, <1>4, <2>1, <2>2
<1>7. CASE P!Push(h)
  <2> DEFINE v == [playlists[job[h].list] EXCEPT !.songs[job[h].track] = @ + 1]
  <2>1. playlists' = [playlists EXCEPT ![job[h].list] = v] \/ UNCHANGED playlists
    BY <1>7 DEF P!Push
  <2>2. place[h] = "push"
    BY <1>7 DEF P!Push, P!At
  <2> HIDE DEF v
  <2> QED
    BY <1>3, <1>4, <2>1, <2>2
<1>8. CASE P!Pull(h)
  <2> DEFINE v == [playlists[job[h].list] EXCEPT !.songs[job[h].track] = 0]
  <2>1. playlists' = [playlists EXCEPT ![job[h].list] = v] \/ UNCHANGED playlists
    BY <1>8 DEF P!Pull
  <2>2. place[h] = "pull"
    BY <1>8 DEF P!Pull, P!At
  <2> HIDE DEF v
  <2> QED
    BY <1>3, <1>4, <2>1, <2>2
<1>9. CASE P!Create(h) \/ P!Command(h) \/ P!Button(h) \/ P!Count(h) \/ P!Get(h) \/ P!SongExists(h)
  BY <1>3, <1>9 DEF P!Create, P!Command, P!Button, P!Begin, P!Count, P!Get, P!SongExists
<1> QED
  BY <1>2, <1>5, <1>6, <1>7, <1>8, <1>9 DEF P!Step

LEMMA BoundIsEnough == ListInv => P!PlaylistsBounded
<1> SUFFICES ASSUME ListInv, NEW u \in Owners
             PROVE  Cardinality(P!Owned(u)) < PlaylistLimit + Cardinality(Clients)
  BY SameCardinality DEF P!PlaylistsBounded
<1>1. Cardinality(P!Owned(u)) \in Nat /\ Cardinality(Waiting(u)) \in Nat /\ Cardinality(Clients) \in Nat
  BY FewEnough
<1>2. Cardinality(P!Owned(u)) + Cardinality(Waiting(u)) < PlaylistLimit + Cardinality(Clients)
  BY DEF ListInv, Bounded
<1> QED
  BY <1>1, <1>2, PlaylistAssumption
-----------------------------------------------------------------------------
(* The results. *)

\* Broadcasts, playlists and the handlers of both keep their types
\* (broadcast.go:23-26, db/playlist.go:18-36).
THEOREM CommandsTyped == Spec /\ P!Spec => []TypesOK
<1>1. Inv /\ FlagInv /\ ListInv => TypesOK
  BY FlagTyped DEF TypesOK, ListInv
<1> QED
  BY <1>1, BroadcastHolds, ListHolds, PTL

\* The running flag is up for a broadcast that runs and for nothing else, but
\* for commands that have overlapped: no end of a broadcast, no failure and no
\* restart keeps the next one from starting (broadcast.go:128, 199, 204).
THEOREM FlagStaysRight == Spec => []FlagIsRight
<1>1. Inv => FlagIsRight
  BY DEF Inv
<1> QED
  BY <1>1, InitInv, StepInv, PTL DEF Spec

\* Two broadcasts run at a time only after their commands have overlapped
\* between the look at the flag and its raising (broadcast.go:128-199).
THEOREM BroadcastIsOne == Spec => []OneBroadcast
<1>1. Inv => OneBroadcast
  BY DEF Inv, Alone, OneBroadcast, Busy, Running, At
<1> QED
  BY <1>1, InitInv, StepInv, PTL DEF Spec

\* Whoever is told to stop sends one message more at most, and nobody leaves
\* out a target who was not told by a command that had found it running, or
\* that was still on when its own command came (broadcast.go:113-118, 198, 210).
THEOREM StopStaysObeyed == Spec => []StopIsObeyed
<1>1. Inv => StopIsObeyed
  BY DEF Inv, Told, ToldOne, Meant, MeantOne, StopIsObeyed, At
<1> QED
  BY <1>1, InitInv, StepInv, PTL DEF Spec

\* A target that can be written to is flagged only for one of the named
\* reasons, however sends, marks and returns of the targets interleave
\* (broadcast.go:243-255, db/chats.go:71).
THEOREM FlaggedOnlyForAReason == Spec => []FlaggedForAReason
<1>1. FlagInv => FlaggedForAReason
  BY DEF FlagInv
<1> QED
  BY <1>1, BroadcastHolds, PTL

\* A track is twice in a playlist only where two handlers have looked for it
\* before either added it, or a search has failed: $push itself does not ask
\* (db/playlist.go:83-131).
THEOREM TracksOnceForAReason == P!Spec => []OnceForAReason
<1>1. ListInv => OnceForAReason
  BY DEF ListInv, OnceForAReason
<1> QED
  BY <1>1, ListHolds, PTL

\* The limit is checked before the insert and not by it: however the handlers
\* of a user interleave, at most as many as run together get past it
\* (bot/playlist.go:37, 48).
THEOREM LimitHolds == P!Spec => []PlaylistsBounded
<1>1. ListInv => PlaylistsBounded
  BY BoundIsEnough DEF PlaylistsBounded
<1> QED
  BY <1>1, ListHolds, PTL

\* A playlist changes or goes only by a command or a button of its owner,
\* however many handlers interleave: the requests that change its songs ask
\* for no owner, and an identifier is never given twice
\* (bot/playlist.go:92, 147, 240, db/playlist.go:109, 131).
THEOREM OwnersAlone == P!Spec => OnlyOwnersChange
<1>1. ListInv /\ [P!Next]_(P!vars) =>
        [\A p \in Playlists :
           (P!Exists(p) /\ playlists'[p] # playlists[p])
             => \E h \in Clients : /\ place[h] \in {"delete", "push", "pull"}
                                   /\ job[h].list = p /\ job[h].user = playlists[p].owner]_(P!vars)
  BY OwnersStep
<1> QED
  BY <1>1, ListInit, ListStep, PTL DEF P!Spec, OnlyOwnersChange, P!OnlyOwnersChange
=============================================================================
