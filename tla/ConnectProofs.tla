--------------------------- MODULE ConnectProofs ----------------------------
(***************************************************************************)
(* Proofs about Connect, for any goroutines, any faults and any number of  *)
(* starts, stops and group calls: the outcome of a connection reaches the  *)
(* connectCall that waits for it, and a connected call is in the chat's    *)
(* present group call unless somebody has crossed.                         *)
(***************************************************************************)
EXTENDS Connect, TLAPS

(* The inductive invariant. *)

\* A goroutine that is about to join has a group call in hand.
Joining == \A t \in All : At(t, "join") => call[t] # Closed

\* ntgcalls has a connection mode from the connection on.
Moded == mode # "none" => binding \in {"connecting", "connected"}

\* A call that somebody works on is there.
Owned == own # {} => binding # "none"

Inv == TypeOK /\ Joining /\ Moded /\ Owned

\* The outcome of a connection is in the channel of the connectCall that
\* asked for it, or on the way to it.
Coming ==
  \A t \in All :
    (waiting = t /\ pc[t] \in {"mode", "pend", "wait"} /\ binding = "connected")
      => channel[t] \/ t \in events \/ Nobody \in events

\* The assistant takes part in the chat's group call, or the call of ntgcalls
\* is about to be stopped because the group call has been discarded.
Live == part = live /\ live # Closed
Doomed == stops > 0 \/ \E u \in updates : u.kind = "discarded"

\* As long as nobody has crossed, this is so from the moment the assistant
\* has joined.
Covered ==
  ~ crossed => /\ binding \in {"connecting", "connected"} => Live \/ Doomed
               /\ \A t \in own : At(t, "connect") => Live \/ Doomed

World ==
  \/ Handlers
  \/ OpenGroupCall \/ DiscardGroupCall \/ Connected \/ Disconnected

LEMMA Splits ==
  Next <=> (\E t \in All : Step(t)) \/ World
  BY DEF Next, World
-----------------------------------------------------------------------------
(* Type correctness. *)

LEMMA TypeInit ==
  Init => TypeOK
<1> SUFFICES ASSUME Init PROVE TypeOK
  OBVIOUS
<1>1. channel \in [All -> BOOLEAN] /\ pending \in BOOLEAN /\ crossed \in BOOLEAN
  BY Zenon DEF Init
<1>2. /\ live \in GroupCalls /\ opened \in GroupCalls /\ part \in GroupCalls
      /\ updates \subseteq [kind : {"call", "discarded", "self"}, id : GroupCalls]
      /\ known \in GroupCalls \cup {Absent}
      /\ waiting \in All \cup {Nobody} /\ stops \in Nat
  BY ConnectAssumption DEF Init, GroupCalls, Closed
<1>3. /\ binding \in {"none", "created", "connecting", "connected"}
      /\ mode \in {"none", "rtc", "stream"}
      /\ events \subseteq All \cup {Nobody}
  BY DEF Init
<1>4. /\ calls \in 0 .. MaxCalls
      /\ pc \in [All -> Labels] /\ call \in [All -> GroupCalls] /\ own \subseteq All
  BY ConnectAssumption, SMT DEF Init, GroupCalls, Closed, Labels
<1> QED
  BY <1>1, <1>2, <1>3, <1>4 DEF TypeOK

LEMMA TypeStep ==
  ASSUME TypeOK, NEW t \in All, Step(t)
  PROVE  TypeOK'
<1> USE ConnectAssumption DEF tgVars, accVars, ntgVars, past, At, Goto,
        Return, Gone, TypeOK, Labels, GroupCalls, All, Closed, Absent, Begin
<1>1. ASSUME StartCallStream(t) PROVE TypeOK'
  BY <1>1 DEF StartCallStream
<1>2. ASSUME Register(t) PROVE TypeOK'
  BY <1>2 DEF Register
<1>3. ASSUME CreateCall(t) PROVE TypeOK'
  BY <1>3 DEF CreateCall
<1>4. ASSUME SetStreamSources(t) PROVE TypeOK'
  BY <1>4 DEF SetStreamSources
<1>5. ASSUME Lookup(t) PROVE TypeOK'
  BY <1>5 DEF Lookup
<1>6. ASSUME Fetch(t) PROVE TypeOK'
  BY <1>6 DEF Fetch
<1>7. ASSUME Store(t) PROVE TypeOK'
  BY <1>7 DEF Store
<1>8. ASSUME LookupAgain(t) PROVE TypeOK'
  BY <1>8 DEF LookupAgain
<1>9. ASSUME Join(t) PROVE TypeOK'
  BY <1>9 DEF Join
<1>10. ASSUME Connect(t) PROVE TypeOK'
  BY <1>10 DEF Connect
<1>11. ASSUME GetConnectionMode(t) PROVE TypeOK'
  BY <1>11 DEF GetConnectionMode
<1>12. ASSUME SetPending(t) PROVE TypeOK'
  BY <1>12 DEF SetPending
<1>13. ASSUME Wait(t) PROVE TypeOK'
  BY <1>13 DEF Wait
<1>14. ASSUME Abort(t) PROVE TypeOK'
  BY <1>14 DEF Abort
<1>15. ASSUME Finish(t) PROVE TypeOK'
  BY <1>15 DEF Finish
<1>16. ASSUME ForgetPending(t) PROVE TypeOK'
  <2>1. pending' \in BOOLEAN
    BY <1>16, Zenon DEF ForgetPending
  <2>2. /\ calls' \in 0 .. MaxCalls
        /\ pc' \in [All -> Labels] /\ call' \in [All -> GroupCalls]
    BY <1>16 DEF ForgetPending
  <2>3. UNCHANGED <<tgVars, known, waiting, channel, stops, ntgVars, past>>
    BY <1>16 DEF ForgetPending
  <2> QED
    BY <2>1, <2>2, <2>3
<1>17. ASSUME StopBinding(t) PROVE TypeOK'
  BY <1>17 DEF StopBinding
<1>18. ASSUME Leave(t) PROVE TypeOK'
  <2>1. part' \in GroupCalls
    BY <1>18 DEF Leave
  <2>2. crossed' \in BOOLEAN
    BY <1>18 DEF Leave
  <2>3. pc' \in [All -> Labels] /\ call' \in [All -> GroupCalls]
    BY <1>18 DEF Leave
  <2>4. UNCHANGED <<live, opened, updates, accVars, ntgVars, calls, own>>
    BY <1>18 DEF Leave
  <2> QED
    BY <2>1, <2>2, <2>3, <2>4
<1> QED
  BY <1>1, <1>2, <1>3, <1>4, <1>5, <1>6, <1>7, <1>8, <1>9, <1>10, <1>11,
     <1>12, <1>13, <1>14, <1>15, <1>16, <1>17, <1>18 DEF Step

LEMMA TypeWorld ==
  ASSUME TypeOK, World
  PROVE  TypeOK'
<1> USE ConnectAssumption DEF tgVars, accVars, ntgVars, past, At, Goto,
        Return, Gone, TypeOK, Labels, GroupCalls, All, Closed, Absent, Update,
        Emit
<1>1. ASSUME NEW u \in updates, OnGroupCall(u) PROVE TypeOK'
  BY <1>1 DEF OnGroupCall
<1>2. ASSUME NEW u \in updates, OnDiscarded(u) PROVE TypeOK'
  BY <1>2 DEF OnDiscarded
<1>3. ASSUME NEW u \in updates, OnSelf(u) PROVE TypeOK'
  BY <1>3 DEF OnSelf
<1>4. ASSUME StopDiscarded PROVE TypeOK'
  BY <1>4 DEF StopDiscarded
<1>5. ASSUME Settle PROVE TypeOK'
  <2>1. pending' \in BOOLEAN
    BY <1>5, Zenon DEF Settle
  <2>2. pc' \in [All -> Labels] /\ call' \in [All -> GroupCalls]
    BY <1>5 DEF Settle
  <2>3. UNCHANGED <<tgVars, known, waiting, channel, stops, ntgVars, calls, past>>
    BY <1>5 DEF Settle
  <2> QED
    BY <2>1, <2>2, <2>3
<1>6. ASSUME FindWaiter PROVE TypeOK'
  BY <1>6 DEF FindWaiter
<1>7. ASSUME NEW t \in All, Send(t) PROVE TypeOK'
  BY <1>7 DEF Send
<1>8. ASSUME OpenGroupCall PROVE TypeOK'
  BY <1>8 DEF OpenGroupCall
<1>9. ASSUME DiscardGroupCall PROVE TypeOK'
  BY <1>9 DEF DiscardGroupCall
<1>10. ASSUME Connected PROVE TypeOK'
  BY <1>10 DEF Connected
<1>11. ASSUME Disconnected PROVE TypeOK'
  BY <1>11 DEF Disconnected
<1> QED
  BY <1>1, <1>2, <1>3, <1>4, <1>5, <1>6, <1>7, <1>8, <1>9, <1>10, <1>11 DEF World, Handlers

-----------------------------------------------------------------------------
(* The invariant. *)

LEMMA FormStep ==
  ASSUME Inv, NEW t \in All, Step(t)
  PROVE  (Joining /\ Moded /\ Owned)'
<1> USE ConnectAssumption DEF tgVars, accVars, ntgVars, past, At, Goto,
        Return, Gone, Inv, TypeOK, Joining, Moded, Owned, Closed, Absent,
        Begin
<1>1. ASSUME StartCallStream(t) PROVE (Joining /\ Moded /\ Owned)'
  BY <1>1 DEF StartCallStream
<1>2. ASSUME Register(t) PROVE (Joining /\ Moded /\ Owned)'
  BY <1>2 DEF Register
<1>3. ASSUME CreateCall(t) PROVE (Joining /\ Moded /\ Owned)'
  BY <1>3 DEF CreateCall
<1>4. ASSUME SetStreamSources(t) PROVE (Joining /\ Moded /\ Owned)'
  BY <1>4 DEF SetStreamSources
<1>5. ASSUME Lookup(t) PROVE (Joining /\ Moded /\ Owned)'
  BY <1>5 DEF Lookup
<1>6. ASSUME Fetch(t) PROVE (Joining /\ Moded /\ Owned)'
  BY <1>6 DEF Fetch
<1>7. ASSUME Store(t) PROVE (Joining /\ Moded /\ Owned)'
  BY <1>7 DEF Store
<1>8. ASSUME LookupAgain(t) PROVE (Joining /\ Moded /\ Owned)'
  BY <1>8 DEF LookupAgain
<1>9. ASSUME Join(t) PROVE (Joining /\ Moded /\ Owned)'
  BY <1>9 DEF Join
<1>10. ASSUME Connect(t) PROVE (Joining /\ Moded /\ Owned)'
  BY <1>10 DEF Connect
<1>11. ASSUME GetConnectionMode(t) PROVE (Joining /\ Moded /\ Owned)'
  BY <1>11 DEF GetConnectionMode
<1>12. ASSUME SetPending(t) PROVE (Joining /\ Moded /\ Owned)'
  BY <1>12 DEF SetPending
<1>13. ASSUME Wait(t) PROVE (Joining /\ Moded /\ Owned)'
  BY <1>13 DEF Wait
<1>14. ASSUME Abort(t) PROVE (Joining /\ Moded /\ Owned)'
  BY <1>14 DEF Abort
<1>15. ASSUME Finish(t) PROVE (Joining /\ Moded /\ Owned)'
  BY <1>15 DEF Finish
<1>16. ASSUME ForgetPending(t) PROVE (Joining /\ Moded /\ Owned)'
  BY <1>16 DEF ForgetPending
<1>17. ASSUME StopBinding(t) PROVE (Joining /\ Moded /\ Owned)'
  BY <1>17 DEF StopBinding
<1>18. ASSUME Leave(t) PROVE (Joining /\ Moded /\ Owned)'
  BY <1>18 DEF Leave
<1> QED
  BY <1>1, <1>2, <1>3, <1>4, <1>5, <1>6, <1>7, <1>8, <1>9, <1>10, <1>11,
     <1>12, <1>13, <1>14, <1>15, <1>16, <1>17, <1>18 DEF Step

LEMMA FormWorld ==
  ASSUME Inv, World
  PROVE  (Joining /\ Moded /\ Owned)'
<1> USE ConnectAssumption DEF tgVars, accVars, ntgVars, past, At, Goto,
        Return, Gone, Inv, TypeOK, Joining, Moded, Owned, Closed, Absent,
        Update, Emit
<1>1. ASSUME NEW u \in updates, OnGroupCall(u) PROVE (Joining /\ Moded /\ Owned)'
  BY <1>1 DEF OnGroupCall
<1>2. ASSUME NEW u \in updates, OnDiscarded(u) PROVE (Joining /\ Moded /\ Owned)'
  BY <1>2 DEF OnDiscarded
<1>3. ASSUME NEW u \in updates, OnSelf(u) PROVE (Joining /\ Moded /\ Owned)'
  BY <1>3 DEF OnSelf
<1>4. ASSUME StopDiscarded PROVE (Joining /\ Moded /\ Owned)'
  BY <1>4 DEF StopDiscarded
<1>5. ASSUME Settle PROVE (Joining /\ Moded /\ Owned)'
  BY <1>5 DEF Settle
<1>6. ASSUME FindWaiter PROVE (Joining /\ Moded /\ Owned)'
  BY <1>6 DEF FindWaiter
<1>7. ASSUME NEW t \in All, Send(t) PROVE (Joining /\ Moded /\ Owned)'
  BY <1>7 DEF Send
<1>8. ASSUME OpenGroupCall PROVE (Joining /\ Moded /\ Owned)'
  BY <1>8 DEF OpenGroupCall
<1>9. ASSUME DiscardGroupCall PROVE (Joining /\ Moded /\ Owned)'
  BY <1>9 DEF DiscardGroupCall
<1>10. ASSUME Connected PROVE (Joining /\ Moded /\ Owned)'
  BY <1>10 DEF Connected
<1>11. ASSUME Disconnected PROVE (Joining /\ Moded /\ Owned)'
  BY <1>11 DEF Disconnected
<1> QED
  BY <1>1, <1>2, <1>3, <1>4, <1>5, <1>6, <1>7, <1>8, <1>9, <1>10, <1>11 DEF World, Handlers

LEMMA InvInit ==
  Init => Inv
<1> SUFFICES ASSUME Init PROVE Inv
  OBVIOUS
<1>1. TypeOK
  BY TypeInit
<1>2. Joining /\ Moded /\ Owned
  BY DEF Init, Joining, Moded, Owned, At
<1> QED
  BY <1>1, <1>2 DEF Inv

LEMMA InvNext ==
  Inv /\ [Next]_vars => Inv'
<1> SUFFICES ASSUME Inv, [Next]_vars PROVE Inv'
  OBVIOUS
<1>1. ASSUME NEW t \in All, Step(t) PROVE Inv'
  BY <1>1, TypeStep, FormStep DEF Inv
<1>2. ASSUME World PROVE Inv'
  BY <1>2, TypeWorld, FormWorld DEF Inv
<1>3. ASSUME UNCHANGED vars PROVE Inv'
  BY <1>3 DEF vars, Inv, TypeOK, Joining, Moded, Owned, At
<1> QED
  BY <1>1, <1>2, <1>3, Splits

LEMMA InvHolds ==
  Spec => []Inv
  BY InvInit, InvNext, PTL DEF Spec

\* Type correctness: every variable keeps its shape whatever fails, and no
\* goroutine leaves its labels.
THEOREM TypeCorrect ==
  Spec => []TypeOK
<1>1. Inv => TypeOK
  BY DEF Inv
<1> QED
  BY <1>1, InvHolds, PTL
-----------------------------------------------------------------------------
(* Outcomes. *)

LEMMA ComingStep ==
  ASSUME Inv, Coming, NEW t \in All, Step(t)
  PROVE  Coming'
<1> USE ConnectAssumption DEF tgVars, accVars, ntgVars, past, At, Goto,
        Return, Gone, Inv, TypeOK, Coming, All, Begin
<1>1. ASSUME StartCallStream(t) PROVE Coming'
  BY <1>1 DEF StartCallStream
<1>2. ASSUME Register(t) PROVE Coming'
  BY <1>2 DEF Register
<1>3. ASSUME CreateCall(t) PROVE Coming'
  BY <1>3 DEF CreateCall
<1>4. ASSUME SetStreamSources(t) PROVE Coming'
  BY <1>4 DEF SetStreamSources
<1>5. ASSUME Lookup(t) PROVE Coming'
  BY <1>5 DEF Lookup
<1>6. ASSUME Fetch(t) PROVE Coming'
  BY <1>6 DEF Fetch
<1>7. ASSUME Store(t) PROVE Coming'
  BY <1>7 DEF Store
<1>8. ASSUME LookupAgain(t) PROVE Coming'
  BY <1>8 DEF LookupAgain
<1>9. ASSUME Join(t) PROVE Coming'
  BY <1>9 DEF Join
<1>10. ASSUME Connect(t) PROVE Coming'
  BY <1>10 DEF Connect
<1>11. ASSUME GetConnectionMode(t) PROVE Coming'
  BY <1>11 DEF GetConnectionMode
<1>12. ASSUME SetPending(t) PROVE Coming'
  BY <1>12 DEF SetPending
<1>13. ASSUME Wait(t) PROVE Coming'
  BY <1>13 DEF Wait
<1>14. ASSUME Abort(t) PROVE Coming'
  BY <1>14 DEF Abort
<1>15. ASSUME Finish(t) PROVE Coming'
  BY <1>15 DEF Finish
<1>16. ASSUME ForgetPending(t) PROVE Coming'
  BY <1>16 DEF ForgetPending
<1>17. ASSUME StopBinding(t) PROVE Coming'
  BY <1>17 DEF StopBinding
<1>18. ASSUME Leave(t) PROVE Coming'
  BY <1>18 DEF Leave
<1> QED
  BY <1>1, <1>2, <1>3, <1>4, <1>5, <1>6, <1>7, <1>8, <1>9, <1>10, <1>11,
     <1>12, <1>13, <1>14, <1>15, <1>16, <1>17, <1>18 DEF Step

LEMMA ComingWorld ==
  ASSUME Inv, Coming, World
  PROVE  Coming'
<1> USE ConnectAssumption DEF tgVars, accVars, ntgVars, past, At, Goto,
        Return, Gone, Inv, TypeOK, Coming, All, Update, Emit
<1>1. ASSUME NEW u \in updates, OnGroupCall(u) PROVE Coming'
  BY <1>1 DEF OnGroupCall
<1>2. ASSUME NEW u \in updates, OnDiscarded(u) PROVE Coming'
  BY <1>2 DEF OnDiscarded
<1>3. ASSUME NEW u \in updates, OnSelf(u) PROVE Coming'
  BY <1>3 DEF OnSelf
<1>4. ASSUME StopDiscarded PROVE Coming'
  BY <1>4 DEF StopDiscarded
<1>5. ASSUME Settle PROVE Coming'
  BY <1>5 DEF Settle
<1>6. ASSUME FindWaiter PROVE Coming'
  BY <1>6 DEF FindWaiter
<1>7. ASSUME NEW t \in All, Send(t) PROVE Coming'
  BY <1>7 DEF Send
<1>8. ASSUME OpenGroupCall PROVE Coming'
  BY <1>8 DEF OpenGroupCall
<1>9. ASSUME DiscardGroupCall PROVE Coming'
  BY <1>9 DEF DiscardGroupCall
<1>10. ASSUME Connected PROVE Coming'
  BY <1>10 DEF Connected
<1>11. ASSUME Disconnected PROVE Coming'
  BY <1>11 DEF Disconnected
<1> QED
  BY <1>1, <1>2, <1>3, <1>4, <1>5, <1>6, <1>7, <1>8, <1>9, <1>10, <1>11 DEF World, Handlers

\* Whoever waits for a connection that ntgcalls has made is told: of the
\* events of the connection one finds its channel registered, and the channel
\* takes it (call.go:66-69, 643).
THEOREM RegisteredIsTold ==
  Spec => []RegisteredHears
<1>1. Init => Coming
  BY DEF Init, Coming
<1>2. Inv /\ Coming /\ [Next]_vars => Coming'
  <2> SUFFICES ASSUME Inv, Coming, [Next]_vars PROVE Coming'
    OBVIOUS
  <2>1. ASSUME NEW t \in All, Step(t) PROVE Coming'
    BY <2>1, ComingStep
  <2>2. ASSUME World PROVE Coming'
    BY <2>2, ComingWorld
  <2>3. ASSUME UNCHANGED vars PROVE Coming'
    BY <2>3 DEF vars, Coming
  <2> QED
    BY <2>1, <2>2, <2>3, Splits
<1>3. Coming => RegisteredHears
  BY DEF Coming, RegisteredHears, At
<1> QED
  BY <1>1, <1>2, <1>3, InvHolds, PTL DEF Spec
-----------------------------------------------------------------------------
(* The group call of a connected call. *)

LEMMA CoveredStep ==
  ASSUME Inv, Covered, NEW t \in All, Step(t)
  PROVE  Covered'
<1> USE ConnectAssumption DEF tgVars, accVars, ntgVars, past, At, Goto,
        Return, Gone, Inv, TypeOK, All, Closed, Absent, Joining, Moded, Owned,
        Covered, Live, Doomed, Begin
<1>1. ASSUME StartCallStream(t) PROVE Covered'
  BY <1>1 DEF StartCallStream
<1>2. ASSUME Register(t) PROVE Covered'
  BY <1>2 DEF Register
<1>3. ASSUME CreateCall(t) PROVE Covered'
  BY <1>3 DEF CreateCall
<1>4. ASSUME SetStreamSources(t) PROVE Covered'
  BY <1>4 DEF SetStreamSources
<1>5. ASSUME Lookup(t) PROVE Covered'
  BY <1>5 DEF Lookup
<1>6. ASSUME Fetch(t) PROVE Covered'
  BY <1>6 DEF Fetch
<1>7. ASSUME Store(t) PROVE Covered'
  BY <1>7 DEF Store
<1>8. ASSUME LookupAgain(t) PROVE Covered'
  BY <1>8 DEF LookupAgain
<1>9. ASSUME Join(t) PROVE Covered'
  BY <1>9 DEF Join
<1>10. ASSUME Connect(t) PROVE Covered'
  BY <1>10 DEF Connect
<1>11. ASSUME GetConnectionMode(t) PROVE Covered'
  BY <1>11 DEF GetConnectionMode
<1>12. ASSUME SetPending(t) PROVE Covered'
  BY <1>12 DEF SetPending
<1>13. ASSUME Wait(t) PROVE Covered'
  BY <1>13 DEF Wait
<1>14. ASSUME Abort(t) PROVE Covered'
  BY <1>14 DEF Abort
<1>15. ASSUME Finish(t) PROVE Covered'
  BY <1>15 DEF Finish
<1>16. ASSUME ForgetPending(t) PROVE Covered'
  BY <1>16 DEF ForgetPending
<1>17. ASSUME StopBinding(t) PROVE Covered'
  BY <1>17 DEF StopBinding
<1>18. ASSUME Leave(t) PROVE Covered'
  BY <1>18 DEF Leave
<1> QED
  BY <1>1, <1>2, <1>3, <1>4, <1>5, <1>6, <1>7, <1>8, <1>9, <1>10, <1>11,
     <1>12, <1>13, <1>14, <1>15, <1>16, <1>17, <1>18 DEF Step

LEMMA CoveredWorld ==
  ASSUME Inv, Covered, World
  PROVE  Covered'
<1> USE ConnectAssumption DEF tgVars, accVars, ntgVars, past, At, Goto,
        Return, Gone, Inv, TypeOK, All, Closed, Absent, Joining, Moded, Owned,
        Covered, Live, Doomed, Update, Emit
<1>1. ASSUME NEW u \in updates, OnGroupCall(u) PROVE Covered'
  BY <1>1 DEF OnGroupCall
<1>2. ASSUME NEW u \in updates, OnDiscarded(u) PROVE Covered'
  BY <1>2 DEF OnDiscarded
<1>3. ASSUME NEW u \in updates, OnSelf(u) PROVE Covered'
  BY <1>3 DEF OnSelf
<1>4. ASSUME StopDiscarded PROVE Covered'
  BY <1>4 DEF StopDiscarded
<1>5. ASSUME Settle PROVE Covered'
  BY <1>5 DEF Settle
<1>6. ASSUME FindWaiter PROVE Covered'
  BY <1>6 DEF FindWaiter
<1>7. ASSUME NEW t \in All, Send(t) PROVE Covered'
  BY <1>7 DEF Send
<1>8. ASSUME OpenGroupCall PROVE Covered'
  BY <1>8 DEF OpenGroupCall
<1>9. ASSUME DiscardGroupCall PROVE Covered'
  <2>1. PICK u \in updates' : u = [kind |-> "discarded", id |-> live]
    BY <1>9 DEF DiscardGroupCall
  <2>2. Doomed'
    BY <2>1 DEF Doomed
  <2> QED
    BY <2>2 DEF Covered
<1>10. ASSUME Connected PROVE Covered'
  BY <1>10 DEF Connected
<1>11. ASSUME Disconnected PROVE Covered'
  BY <1>11 DEF Disconnected
<1> QED
  BY <1>1, <1>2, <1>3, <1>4, <1>5, <1>6, <1>7, <1>8, <1>9, <1>10, <1>11 DEF World, Handlers

\* A connected call is in the chat's present group call once every goroutine
\* is done, unless somebody has crossed: whoever joins has joined the group
\* call that is there, and a discarded group call takes the binding's call
\* with it, late as the update may come (call.go:612-617).
THEOREM ConnectedIsThere ==
  Spec => []ConnectedTakesPart
<1>1. Init => Covered
  BY DEF Init, Covered
<1>2. Inv /\ Covered /\ [Next]_vars => Covered'
  <2> SUFFICES ASSUME Inv, Covered, [Next]_vars PROVE Covered'
    OBVIOUS
  <2>1. ASSUME NEW t \in All, Step(t) PROVE Covered'
    BY <2>1, CoveredStep
  <2>2. ASSUME World PROVE Covered'
    BY <2>2, CoveredWorld
  <2>3. ASSUME UNCHANGED vars PROVE Covered'
    BY <2>3 DEF vars, Covered, Live, Doomed, At
  <2> QED
    BY <2>1, <2>2, <2>3, Splits
<1>3. Covered => ConnectedTakesPart
  BY DEF Covered, ConnectedTakesPart, Quiet, Live, Doomed
<1> QED
  BY <1>1, <1>2, <1>3, InvHolds, PTL DEF Spec
=============================================================================
