------------------------------ MODULE Connect ------------------------------
(***************************************************************************)
(* How an assistant joins the group call of one chat (internal/calls/      *)
(* call.go): startCallStream and connectCall, the channel a connectCall    *)
(* waits on, the group call the assistant knows, the pending connection of *)
(* a call in stream mode, stopAssistantCall, and the handlers of           *)
(* Telegram's updates and of ntgcalls' events.  A step is what happens     *)
(* between two requests, two calls of ntgcalls or two locks.               *)
(***************************************************************************)
EXTENDS Integers, FiniteSets

CONSTANTS
  Threads,        \* goroutines that start and stop the stream
  Reconnector,    \* the goroutine of a participants update
  Nobody,
  Faults,         \* requests that may fail: "create", "sources", "fetch",
                  \* "join", "connect", "stop", "leave"
  MaxCalls,       \* bound: the number of starts and stops of a behaviour
  MaxGroupCalls   \* bound: the number of group calls of the chat

ASSUME ConnectAssumption ==
  /\ IsFiniteSet(Threads)
  /\ Reconnector \notin Threads
  /\ Nobody \notin Threads \cup {Reconnector}
  /\ MaxCalls \in Nat /\ MaxGroupCalls \in Nat

All == Threads \cup {Reconnector}
Absent == -1   \* inputGroupCalls has no entry
Closed == 0    \* its entry is nil; as a call of the chat, there is none

VARIABLES
  live,      \* the chat's group call
  opened,    \* how many there have been, which is the identifier of the last
  part,      \* the group call the assistant takes part in
  updates,   \* updates on their way to the assistant; each has a goroutine of
             \* its own, and two alike count as one
  known,     \* inputGroupCalls
  waiting,   \* whose channel is in waitConnect
  channel,   \* whether the channel of each connectCall holds an outcome
  pending,   \* pendingConnections has an entry
  stops,     \* handlers of a discarded call that have still to stop the binding
  binding,   \* the chat's call in ntgcalls
  mode,      \* its connection mode, "none" before it is connected
  events,    \* running goroutines of onConnectionChange, by the channel each
             \* has found, Nobody before it has looked; two alike count as one
  calls,     \* starts and stops still to come
  pc,
  call,      \* the group call each goroutine has in hand
  own,       \* whose connectCall works on the call that ntgcalls has (history)
  crossed    \* somebody has connected, or left the group call of, a call of
             \* ntgcalls that another one has made since (history)

tgVars == <<live, opened, part, updates>>
accVars == <<known, waiting, channel, pending, stops>>
ntgVars == <<binding, mode, events>>
past == <<own, crossed>>
vars == <<live, opened, part, updates, known, waiting, channel, pending, stops,
          binding, mode, events, calls, pc, call, own, crossed>>

Init ==
  /\ live = Closed /\ opened = 0 /\ part = Closed /\ updates = {}
  /\ known = Absent /\ waiting = Nobody /\ pending = FALSE /\ stops = 0
  /\ channel = [t \in All |-> FALSE]
  /\ binding = "none" /\ mode = "none" /\ events = {}
  /\ calls = MaxCalls
  /\ pc = [t \in All |-> "idle"]
  /\ call = [t \in All |-> Closed]
  /\ own = {} /\ crossed = FALSE

At(t, label) == pc[t] = label
Goto(t, label) == pc' = [pc EXCEPT ![t] = label]
Return(t) == Goto(t, "idle") /\ call' = [call EXCEPT ![t] = Closed]
Fails(fault) == fault \in Faults
Gone == binding' = "none" /\ mode' = "none" /\ own' = {}

\* A goroutine starts or stops the stream.
Begin(t) ==
  /\ t \in Threads
  /\ At(t, "idle")
  /\ calls > 0
  /\ calls' = calls - 1

\* startCallStream: a call that ntgcalls has is only given other media, and
\* whether that succeeds or fails nothing else happens.
StartCallStream(t) ==
  /\ Begin(t)
  /\ binding = "none"
  /\ Goto(t, "register")
  /\ UNCHANGED <<tgVars, accVars, ntgVars, call, past>>
-----------------------------------------------------------------------------
(* connectCall. *)

Register(t) ==
  /\ At(t, "register")
  /\ waiting' = t
  /\ Goto(t, IF t = Reconnector THEN "sources" ELSE "create")
  /\ UNCHANGED <<tgVars, known, channel, pending, stops, ntgVars, calls, call, past>>

\* ntgcalls makes one call for a chat and refuses a second one.
CreateCall(t) ==
  /\ At(t, "create")
  /\ \/ /\ binding = "none"
        /\ binding' = "created"
        /\ own' = own \cup {t}
        /\ Goto(t, "sources")
     \/ /\ binding # "none" \/ Fails("create")
        /\ Goto(t, "abort")
        /\ UNCHANGED <<binding, own>>
  /\ UNCHANGED <<tgVars, accVars, mode, events, calls, call, crossed>>

SetStreamSources(t) ==
  /\ At(t, "sources")
  /\ \/ binding # "none" /\ Goto(t, "lookup")
     \/ (binding = "none" \/ Fails("sources")) /\ Goto(t, "abort")
  /\ UNCHANGED <<tgVars, accVars, ntgVars, calls, call, past>>

\* getInputGroupCall: the entry, if there is one; otherwise the chat is asked
\* for, its call is stored, and the entry is read again.
Lookup(t) ==
  /\ At(t, "lookup")
  /\ Goto(t, CASE known = Absent -> "fetch"
               [] known = Closed -> "abort"
               [] OTHER -> "join")
  /\ call' = [call EXCEPT ![t] = IF known = Absent THEN Closed ELSE known]
  /\ UNCHANGED <<tgVars, accVars, ntgVars, calls, past>>

Fetch(t) ==
  /\ At(t, "fetch")
  /\ \/ call' = [call EXCEPT ![t] = live] /\ Goto(t, "store")
     \/ Fails("fetch") /\ Goto(t, "abort") /\ UNCHANGED call
  /\ UNCHANGED <<tgVars, accVars, ntgVars, calls, past>>

Store(t) ==
  /\ At(t, "store")
  /\ known' = call[t]
  /\ Goto(t, "again")
  /\ UNCHANGED <<tgVars, waiting, channel, pending, stops, ntgVars, calls, call, past>>

LookupAgain(t) ==
  /\ At(t, "again")
  /\ IF known \in {Absent, Closed}
     THEN Goto(t, "abort") /\ UNCHANGED call
     ELSE Goto(t, "join") /\ call' = [call EXCEPT ![t] = known]
  /\ UNCHANGED <<tgVars, accVars, ntgVars, calls, past>>

\* PhoneJoinGroupCall.  The assistant is told that it takes part.  An error
\* leaves the binding's call.
Join(t) ==
  /\ At(t, "join")
  /\ \/ /\ call[t] = live
        /\ part' = live
        /\ updates' = updates \cup {[kind |-> "self", id |-> live]}
        /\ Goto(t, "connect")
     \/ /\ call[t] # live \/ Fails("join")
        /\ Goto(t, "finish")
        /\ UNCHANGED <<part, updates>>
  /\ UNCHANGED <<live, opened, accVars, ntgVars, calls, call, past>>

Connect(t) ==
  /\ At(t, "connect")
  /\ \/ /\ binding # "none"
        /\ binding' = "connecting"
        /\ mode' \in {"rtc", "stream"}
        /\ crossed' = (crossed \/ t \notin own)
        /\ Goto(t, "mode")
     \/ /\ binding = "none" \/ Fails("connect")
        /\ Goto(t, "finish")
        /\ UNCHANGED <<binding, mode, crossed>>
  /\ UNCHANGED <<tgVars, accVars, events, calls, call, own>>

GetConnectionMode(t) ==
  /\ At(t, "mode")
  /\ Goto(t, CASE mode = "none" -> "finish"
               [] mode = "stream" -> "pend"
               [] OTHER -> "wait")
  /\ UNCHANGED <<tgVars, accVars, ntgVars, calls, call, past>>

SetPending(t) ==
  /\ At(t, "pend")
  /\ pending' = TRUE
  /\ Goto(t, "wait")
  /\ UNCHANGED <<tgVars, known, waiting, channel, stops, ntgVars, calls, call, past>>

\* The outcome has come, or the time is up.
Wait(t) ==
  /\ At(t, "wait")
  /\ Goto(t, "finish")
  /\ UNCHANGED <<tgVars, accVars, ntgVars, calls, call, past>>

\* The errors after which connectCall stops the binding's call.
Abort(t) ==
  /\ At(t, "abort")
  /\ Gone
  /\ Goto(t, "finish")
  /\ UNCHANGED <<tgVars, accVars, events, calls, call, crossed>>

\* The deferred delete takes away whichever channel is there; what is sent to
\* t's channel from now on is lost.  A reconnection has then its pending
\* connection to delete.
Finish(t) ==
  /\ At(t, "finish")
  /\ waiting' = Nobody
  /\ channel' = [channel EXCEPT ![t] = FALSE]
  /\ events' = events \ {t}
  /\ own' = own \ {t}
  /\ IF t = Reconnector THEN Goto(t, "settle") /\ UNCHANGED call ELSE Return(t)
  /\ UNCHANGED <<tgVars, known, pending, stops, binding, mode, calls, crossed>>
-----------------------------------------------------------------------------
(* stopAssistantCall. *)

ForgetPending(t) ==
  /\ Begin(t)
  /\ pending' = FALSE
  /\ call' = [call EXCEPT ![t] = IF known = Absent THEN Closed ELSE known]
  /\ Goto(t, "halt")
  /\ UNCHANGED <<tgVars, known, waiting, channel, stops, ntgVars, past>>

StopBinding(t) ==
  /\ At(t, "halt")
  /\ \/ /\ Gone
        /\ IF call[t] = Closed THEN Return(t) ELSE Goto(t, "leave") /\ UNCHANGED call
     \/ /\ Fails("stop")
        /\ Return(t)
        /\ UNCHANGED <<binding, mode, own>>
  /\ UNCHANGED <<tgVars, accVars, events, calls, crossed>>

Leave(t) ==
  /\ At(t, "leave")
  /\ \/ /\ part' = IF part = call[t] THEN Closed ELSE part
        /\ crossed' = (crossed \/ binding # "none")
     \/ Fails("leave") /\ UNCHANGED <<part, crossed>>
  /\ Return(t)
  /\ UNCHANGED <<live, opened, updates, accVars, ntgVars, calls, own>>
-----------------------------------------------------------------------------
(* The chat's group calls and the updates about them. *)

OpenGroupCall ==
  /\ live = Closed
  /\ opened < MaxGroupCalls
  /\ opened' = opened + 1
  /\ live' = opened'
  /\ updates' = updates \cup {[kind |-> "call", id |-> live']}
  /\ UNCHANGED <<part, accVars, ntgVars, calls, pc, call, past>>

DiscardGroupCall ==
  /\ live # Closed
  /\ live' = Closed
  /\ part' = Closed
  /\ updates' = updates \cup {[kind |-> "discarded", id |-> live]}
  /\ UNCHANGED <<opened, accVars, ntgVars, calls, pc, call, past>>

Update(u, kind) == u.kind = kind /\ updates' = updates \ {u}

\* onGroupCall: the update names the chat, and the identifier of the call is
\* not compared with the one that is known.
OnGroupCall(u) ==
  /\ Update(u, "call")
  /\ known' = u.id
  /\ UNCHANGED <<live, opened, part, waiting, channel, pending, stops, ntgVars, calls, pc, call, past>>

\* slip: the binding goes on.
OnDiscardedForgets(u) ==
  /\ Update(u, "discarded")
  /\ known' = Absent
  /\ UNCHANGED <<live, opened, part, waiting, channel, pending, stops, ntgVars, calls, pc, call, past>>

OnDiscarded(u) ==
  /\ Update(u, "discarded")
  /\ known' = Absent
  /\ stops' = stops + 1
  /\ UNCHANGED <<live, opened, part, waiting, channel, pending, ntgVars, calls, pc, call, past>>

StopDiscarded ==
  /\ stops > 0
  /\ stops' = stops - 1
  /\ Gone
  /\ UNCHANGED <<tgVars, known, waiting, channel, pending, events, calls, pc, call, crossed>>

\* onGroupCallParticipants, as far as it is about a pending connection: the
\* group call is the one known, the call is in stream mode and the assistant
\* may unmute itself.
OnSelf(u) ==
  /\ Update(u, "self")
  /\ At(Reconnector, "idle")
  /\ \/ /\ known = u.id
        /\ mode = "stream"
        /\ pending
        /\ Goto(Reconnector, "register")
        /\ own' = own \cup {Reconnector}
     \/ UNCHANGED <<pc, own>>
  /\ UNCHANGED <<live, opened, part, accVars, ntgVars, calls, call, crossed>>

Settle ==
  /\ At(Reconnector, "settle")
  /\ pending' = FALSE
  /\ Return(Reconnector)
  /\ UNCHANGED <<tgVars, known, waiting, channel, stops, ntgVars, calls, past>>
-----------------------------------------------------------------------------
(* ntgcalls' connections; every event is handled by a goroutine of its own. *)

Emit == events' = events \cup {Nobody}

Connected ==
  /\ binding = "connecting"
  /\ binding' = "connected"
  /\ Emit
  /\ UNCHANGED <<tgVars, accVars, mode, calls, pc, call, past>>

\* A connection fails, is closed or times out; the call may stay.
Disconnected ==
  /\ binding \in {"connecting", "connected"}
  /\ \/ Gone
     \/ binding' = "created" /\ mode' = "none" /\ UNCHANGED own
  /\ Emit
  /\ UNCHANGED <<tgVars, accVars, calls, pc, call, crossed>>

\* onConnectionChange reads whose channel is registered ...
FindWaiter ==
  /\ Nobody \in events
  /\ events' = (events \ {Nobody}) \cup ({waiting} \ {Nobody})
  /\ UNCHANGED <<tgVars, accVars, binding, mode, calls, pc, call, past>>

\* slip: the channel has no buffer.
SendUnbuffered(t) ==
  /\ t \in events
  /\ channel' = [channel EXCEPT ![t] = @ \/ At(t, "wait")]
  /\ events' = events \ {t}
  /\ UNCHANGED <<tgVars, known, waiting, pending, stops, binding, mode, calls, pc, call, past>>

\* ... and sends to it, if there is room: the first outcome is the one.
Send(t) ==
  /\ t \in events
  /\ channel' = [channel EXCEPT ![t] = TRUE]
  /\ events' = events \ {t}
  /\ UNCHANGED <<tgVars, known, waiting, pending, stops, binding, mode, calls, pc, call, past>>
-----------------------------------------------------------------------------
Step(t) ==
  \/ StartCallStream(t)
  \/ Register(t) \/ CreateCall(t) \/ SetStreamSources(t)
  \/ Lookup(t) \/ Fetch(t) \/ Store(t) \/ LookupAgain(t)
  \/ Join(t) \/ Connect(t) \/ GetConnectionMode(t) \/ SetPending(t)
  \/ Wait(t) \/ Abort(t) \/ Finish(t)
  \/ ForgetPending(t) \/ StopBinding(t) \/ Leave(t)

Handlers ==
  \/ \E u \in updates : OnGroupCall(u) \/ OnDiscarded(u) \/ OnSelf(u)
  \/ StopDiscarded \/ Settle
  \/ FindWaiter \/ \E t \in All : Send(t)

Next ==
  \/ \E t \in All : Step(t)
  \/ Handlers
  \/ OpenGroupCall \/ DiscardGroupCall \/ Connected \/ Disconnected

Spec == Init /\ [][Next]_vars
-----------------------------------------------------------------------------
Labels ==
  {"idle", "register", "create", "sources", "lookup", "fetch", "store",
   "again", "join", "connect", "mode", "pend", "wait", "abort", "finish", "settle",
   "halt", "leave"}

GroupCalls == Closed .. MaxGroupCalls

TypeOK ==
  /\ live \in GroupCalls /\ opened \in GroupCalls /\ part \in GroupCalls
  /\ updates \subseteq [kind : {"call", "discarded", "self"}, id : GroupCalls]
  /\ known \in GroupCalls \cup {Absent}
  /\ waiting \in All \cup {Nobody}
  /\ channel \in [All -> BOOLEAN]
  /\ pending \in BOOLEAN /\ stops \in Nat
  /\ binding \in {"none", "created", "connecting", "connected"}
  /\ mode \in {"none", "rtc", "stream"}
  /\ events \subseteq All \cup {Nobody}
  /\ calls \in 0 .. MaxCalls
  /\ pc \in [All -> Labels]
  /\ call \in [All -> GroupCalls]
  /\ own \subseteq All /\ crossed \in BOOLEAN

\* The outcome of a connection reaches the connectCall that is registered,
\* however early or late the goroutine of the event runs: a channel is
\* registered before the connection is asked for and has room for one outcome
\* (call.go:66-69, 643).
RegisteredHears ==
  \A t \in All :
    (waiting = t /\ At(t, "wait") /\ binding = "connected" /\ events = {})
      => channel[t]

Quiet ==
  /\ \A t \in All : At(t, "idle")
  /\ updates = {} /\ stops = 0 /\ events = {}

\* When no goroutine is at work, a call that ntgcalls has connected is in the
\* chat's present group call: a discarded call, and an update that comes late,
\* leave no stream behind (call.go:612-617).  But for a goroutine that has
\* joined, lost its call of ntgcalls to a stop, and then connects the next one,
\* or that leaves the group call after another has begun (call.go:54, 62, 131).
ConnectedTakesPart ==
  (Quiet /\ binding = "connected" /\ ~ crossed) => (part = live /\ live # Closed)
=============================================================================
