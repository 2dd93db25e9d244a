----------------------------- MODULE Broadcast ------------------------------
(***************************************************************************)
(* /broadcast and /stop_broadcast (internal/bot/broadcast.go): a handler   *)
(* looks at the flag that one is running, collects the chats and users     *)
(* that are not flagged as unreachable, sets both flags and leaves the     *)
(* sending to a goroutine; meanwhile chats remove the bot and take it in   *)
(* again.  Every access to a flag, to the database and to Telegram is a    *)
(* step of its own.  Store has the cache before the database's flags.      *)
(***************************************************************************)
EXTENDS Integers, FiniteSets

CONSTANTS
  Chats, Users,  \* the documents of the two collections
  Handlers,
  MaxCommands,   \* bound: the broadcasts and the stops that are asked for
  MaxMoves,      \* bound: how often a target becomes unreachable
  MaxRestarts    \* bound: restarts of the process

Targets == Chats \cup Users

ASSUME BroadcastAssumption ==
  /\ IsFiniteSet(Chats) /\ IsFiniteSet(Users) /\ Chats \cap Users = {}
  /\ IsFiniteSet(Handlers)
  /\ MaxCommands \in Nat /\ MaxMoves \in Nat /\ MaxRestarts \in Nat

VARIABLES
  inProgress,  \* broadcastInProgress
  cancelled,   \* broadcastCancelFlag
  flagged,     \* the documents with invalid, blocked or deleted
  gone,        \* the targets the bot cannot write to
  coming,      \* messages from targets, for storeChatToDB
  pc, run,     \* where each handler and then its goroutine is
  stops,       \* the stop commands that have found the flag up and have not
               \* raised the other: each with the broadcasts it found
  commands, moves, restarts,
  unheard,     \* the flagged targets that can be written to again and have
               \* come back too early, or while the process was down, or
               \* could not be stored
  overlapped   \* since no broadcast was on, two handlers have both found the
               \* flag down before one of them raised it

flags == <<inProgress, cancelled>>
telegram == <<gone, coming, unheard>>
bounds == <<commands, moves, restarts>>
vars == <<inProgress, cancelled, flagged, gone, coming, pc, run, stops,
          commands, moves, restarts, unheard, overlapped>>

Modes == {"chat", "user", "both"}
NoMode == "none"

\* A broadcast: its number, the targets still to come, the one it is at and
\* whether that has been heard from since the send failed, the messages sent
\* since it was told to stop (-1: it was not), and whether a stop command meant
\* it, or was on when its own command came.  What it reports is left out.
NoRun == [mode |-> NoMode, id |-> 0, left |-> {}, at |-> {}, back |-> FALSE, after |-> -1,
          meant |-> FALSE, crossed |-> FALSE]

Init ==
  /\ inProgress = FALSE /\ cancelled = FALSE
  /\ flagged \in SUBSET Targets /\ gone = {} /\ coming = {} /\ unheard = flagged
  /\ pc = [h \in Handlers |-> "idle"]
  /\ run = [h \in Handlers |-> NoRun] /\ stops = {}
  /\ commands = MaxCommands /\ moves = MaxMoves /\ restarts = MaxRestarts
  /\ overlapped = FALSE

At(h, label) == pc[h] = label
Goto(h, label) == pc' = [pc EXCEPT ![h] = label]
Busy(h) == ~ At(h, "idle")
\* The flag is up for it.
Running(h) == pc[h] \in {"go", "sending", "mark", "report"}
Return(h) == Goto(h, "idle") /\ run' = [run EXCEPT ![h] = NoRun]

\* An overlap is over when nobody but h was busy.
Settles(h) == overlapped' = (overlapped /\ \E g \in Handlers \ {h} : Busy(g))
-----------------------------------------------------------------------------
(* The handler. *)

Broadcast(h, mode) ==
  /\ At(h, "idle") /\ commands > 0 /\ commands' = commands - 1
  /\ ~ inProgress
  /\ Goto(h, "chats")
  /\ run' = [run EXCEPT ![h].mode = mode, ![h].id = commands, ![h].crossed = stops # {}]
  /\ overlapped' = (overlapped \/ \E g \in Handlers : Busy(g))
  /\ UNCHANGED <<flags, flagged, telegram, stops, moves, restarts>>

\* GetActiveChats, which is asked in every mode.  An error gives no chats.
ActiveChats(h) ==
  /\ At(h, "chats")
  /\ \E chats \in {Chats \ flagged, {}} :
       run' = [run EXCEPT ![h].left = IF run[h].mode = "user" THEN {} ELSE chats]
  /\ Goto(h, "users")
  /\ UNCHANGED <<flags, flagged, telegram, stops, bounds, overlapped>>

\* GetActiveUsers; without targets there is no broadcast.
ActiveUsers(h) ==
  /\ At(h, "users")
  /\ \E users \in {Users \ flagged, {}} :
       LET left == run[h].left \cup IF run[h].mode = "chat" THEN {} ELSE users IN
       IF left = {}
       THEN Return(h) /\ Settles(h)
       ELSE /\ run' = [run EXCEPT ![h].left = left]
            /\ Goto(h, "reset")
            /\ UNCHANGED overlapped
  /\ UNCHANGED <<flags, flagged, telegram, stops, bounds>>

\* slip: nobody takes back what was said to the broadcast before.
ResetNever(h) ==
  /\ At(h, "reset")
  /\ Goto(h, "raise")
  /\ UNCHANGED <<flags, flagged, telegram, run, stops, bounds, overlapped>>

Reset(h) ==
  /\ At(h, "reset")
  /\ cancelled' = FALSE
  /\ Goto(h, "raise")
  /\ UNCHANGED <<inProgress, flagged, telegram, run, stops, bounds, overlapped>>

\* The flag is raised, the start is announced and the goroutine is started.
Raise(h) ==
  /\ At(h, "raise")
  /\ inProgress' = TRUE
  /\ Goto(h, "go")
  /\ UNCHANGED <<cancelled, flagged, telegram, run, stops, bounds, overlapped>>

\* cancelBroadcastHandler looks at the one flag.
StopLook ==
  LET found == {run[h].id : h \in {g \in Handlers : Running(g)}} IN
  /\ commands > 0 /\ commands' = commands - 1
  /\ inProgress
  /\ stops' = stops \cup {[id |-> commands, found |-> found]}
  /\ UNCHANGED <<flags, flagged, telegram, pc, run, moves, restarts, overlapped>>

\* The broadcast is past Reset, so that it will read what is said to it now.
Listening(h) == pc[h] \in {"raise", "go", "sending", "mark"}

\* It raises the other, whatever is running by then.
StopStore(s) ==
  /\ s \in stops /\ stops' = stops \ {s}
  /\ cancelled' = TRUE
  /\ run' = [h \in Handlers |->
               IF Listening(h)
               THEN [run[h] EXCEPT !.after = IF @ < 0 THEN 0 ELSE @,
                                   !.meant = @ \/ run[h].id \in s.found]
               ELSE run[h]]
  /\ UNCHANGED <<inProgress, flagged, telegram, pc, bounds, overlapped>>
-----------------------------------------------------------------------------
(* The goroutine. *)

\* slip: the loop goes one target too far.
NextTargetBeyond(h) ==
  /\ At(h, "go")
  /\ \/ cancelled /\ Goto(h, "report") /\ UNCHANGED run
     \/ /\ run' = [run EXCEPT ![h].at = run[h].left, ![h].left = {}]
        /\ Goto(h, "sending")
  /\ UNCHANGED <<flags, flagged, telegram, stops, bounds, overlapped>>

\* The cancel flag is read before each target; the chats come first.
NextTarget(h) ==
  LET left == run[h].left
      first == IF left \cap Chats = {} THEN left ELSE left \cap Chats IN
  /\ At(h, "go")
  /\ \/ (left = {} \/ cancelled) /\ Goto(h, "report") /\ UNCHANGED run
     \/ /\ ~ cancelled
        /\ \E t \in first : run' = [run EXCEPT ![h].at = {t}, ![h].left = @ \ {t}]
        /\ Goto(h, "sending")
  /\ UNCHANGED <<flags, flagged, telegram, stops, bounds, overlapped>>

\* A message has been sent.
Sent(r) == [r EXCEPT !.at = {}, !.back = FALSE, !.after = IF @ \in {0, 1} THEN @ + 1 ELSE @]

\* slip: every error says that the target is gone.
SendOrMark(h) ==
  \E t \in run[h].at :
    /\ At(h, "sending")
    /\ \/ t \notin gone /\ run' = [run EXCEPT ![h] = Sent(@)] /\ Goto(h, "go")
       \/ UNCHANGED run /\ Goto(h, "mark")
    /\ UNCHANGED <<flags, flagged, telegram, stops, bounds, overlapped>>

\* A message to a target that cannot be written to fails for that reason.
\* After a flood wait, and after another error, which is kept for the report,
\* the loop goes on with the next target.
Send(h) ==
  \E t \in run[h].at :
    /\ At(h, "sending")
    /\ \/ /\ t \notin gone
          /\ run' = [run EXCEPT ![h] = Sent(@)]
          /\ Goto(h, "go")
       \/ /\ t \in gone
          /\ UNCHANGED run
          /\ Goto(h, "mark")
       \/ /\ run' = [run EXCEPT ![h].at = {}]
          /\ Goto(h, "go")
    /\ UNCHANGED <<flags, flagged, telegram, stops, bounds, overlapped>>

\* MarkChatsInvalid, MarkUsersBlocked, MarkUsersDeleted.  The target is
\* skipped, too, when the database refuses.
Mark(h) ==
  /\ At(h, "mark")
  /\ \/ UNCHANGED <<flagged, unheard>>
     \/ /\ flagged' = flagged \cup run[h].at
        /\ unheard' = IF run[h].back THEN unheard \cup run[h].at ELSE unheard
  /\ run' = [run EXCEPT ![h].at = {}, ![h].back = FALSE]
  /\ Goto(h, "go")
  /\ UNCHANGED <<flags, gone, coming, stops, bounds, overlapped>>

\* slip: a broadcast that was stopped leaves the flag up.
ReportKeeps(h) ==
  /\ At(h, "report")
  /\ inProgress' = (run[h].left # {})
  /\ Return(h) /\ Settles(h)
  /\ UNCHANGED <<cancelled, flagged, telegram, stops, bounds>>

\* The report, and the deferred Store(false).
Report(h) ==
  /\ At(h, "report")
  /\ inProgress' = FALSE
  /\ Return(h) /\ Settles(h)
  /\ UNCHANGED <<cancelled, flagged, telegram, stops, bounds>>
-----------------------------------------------------------------------------
(* Telegram. *)

Depart(t) ==
  /\ t \notin gone
  /\ moves > 0 /\ moves' = moves - 1
  /\ gone' = gone \cup {t} /\ unheard' = unheard \ {t}
  /\ UNCHANGED <<flags, flagged, coming, pc, run, stops, commands, restarts, overlapped>>

\* The bot is taken in again, and every message of the chat tells it so.
Rejoin(t) ==
  /\ t \in gone \/ t \in flagged
  /\ gone' = gone \ {t}
  /\ coming' = coming \cup {t}
  /\ run' = [h \in Handlers |-> IF t \in run[h].at /\ At(h, "mark")
                                THEN [run[h] EXCEPT !.back = TRUE] ELSE run[h]]
  /\ UNCHANGED <<flags, flagged, unheard, pc, stops, bounds, overlapped>>

\* storeChatToDB: AddChat and AddUser clear the flags, unless the database
\* refuses or a stale entry says that there is none (Store).
StoreChat(t) ==
  /\ t \in coming
  /\ coming' = coming \ {t}
  /\ \/ flagged' = flagged \ {t} /\ unheard' = unheard \ {t}
     \/ UNCHANGED flagged /\ unheard' = unheard \cup ((flagged \cap {t}) \ gone)
  /\ UNCHANGED <<flags, gone, pc, run, stops, bounds, overlapped>>

\* The process starts again; nothing resumes a broadcast.
Restart ==
  /\ restarts > 0 /\ restarts' = restarts - 1
  /\ inProgress' = FALSE /\ cancelled' = FALSE
  /\ coming' = {} /\ unheard' = flagged \ gone
  /\ pc' = [h \in Handlers |-> "idle"] /\ run' = [h \in Handlers |-> NoRun]
  /\ stops' = {} /\ overlapped' = FALSE
  /\ UNCHANGED <<flagged, gone, commands, moves>>

Step(h) ==
  \/ ActiveChats(h) \/ ActiveUsers(h) \/ Reset(h) \/ Raise(h)
  \/ NextTarget(h) \/ Send(h) \/ Mark(h) \/ Report(h)

Next ==
  \/ \E h \in Handlers : (\E mode \in Modes : Broadcast(h, mode)) \/ Step(h)
  \/ StopLook \/ \E s \in stops : StopStore(s)
  \/ \E t \in Targets : Depart(t) \/ Rejoin(t) \/ StoreChat(t)
  \/ Restart

Spec == Init /\ [][Next]_vars
-----------------------------------------------------------------------------
TypeOK ==
  /\ inProgress \in BOOLEAN /\ cancelled \in BOOLEAN
  /\ flagged \subseteq Targets /\ gone \subseteq Targets /\ coming \subseteq Targets
  /\ unheard \subseteq Targets
  /\ pc \in [Handlers -> {"idle", "chats", "users", "reset", "raise", "go", "sending",
                          "mark", "report"}]
  /\ run \in [Handlers -> [mode : Modes \cup {NoMode}, id : 0 .. MaxCommands,
                           left : SUBSET Targets, at : SUBSET Targets, back : BOOLEAN,
                           after : -1 .. 2, meant : BOOLEAN, crossed : BOOLEAN]]
  /\ stops \subseteq [id : 1 .. MaxCommands, found : SUBSET (0 .. MaxCommands)]
  /\ \A h \in Handlers : run[h].at # {} <=> pc[h] \in {"sending", "mark"}
  /\ commands \in 0 .. MaxCommands /\ moves \in 0 .. MaxMoves
  /\ restarts \in 0 .. MaxRestarts
  /\ overlapped \in BOOLEAN

\* The flag that a broadcast is running is never up without one, so that no
\* end of a broadcast keeps the next one from starting; it is down while one
\* is running only after two commands have overlapped (broadcast.go:128, 199,
\* 204).
FlagIsRight ==
  /\ inProgress => \E h \in Handlers : Running(h)
  /\ (\E h \in Handlers : Running(h)) => inProgress \/ overlapped

\* Two broadcasts run at a time only when their commands have overlapped.
OneBroadcast ==
  overlapped \/ \A g, h \in Handlers : (Running(g) /\ Running(h)) => g = h

\* A broadcast that is told to stop sends at most the message that it was
\* sending, and one that leaves targets out was told so by a command that had
\* found it running, or that was on already when its own command came: then the
\* order was for the one before it, and came too late.  What was said to an
\* earlier broadcast does not count otherwise, and only a broadcast whose
\* command overlapped with another's takes an order back (broadcast.go:113-118,
\* 198, 210).
StopIsObeyed ==
  overlapped \/ \A h \in Handlers :
    /\ run[h].after <= 1
    /\ At(h, "report") /\ run[h].left # {} => run[h].after >= 0 /\ (run[h].meant \/ run[h].crossed)

\* A target that can be written to is flagged only until the message from it
\* that is on its way is stored, or because it came back between the send that
\* failed and the mark, or its message was lost or not stored (broadcast.go:243-255,
\* db/chats.go:71).
FlaggedForAReason == flagged \subseteq gone \cup coming \cup unheard
=============================================================================
