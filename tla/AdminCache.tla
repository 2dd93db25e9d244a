----------------------------- MODULE AdminCache -----------------------------
(***************************************************************************)
(* Who may command the bot in one chat: the cached list of the chat's      *)
(* administrators (internal/cache/admins.go), the checks that read it      *)
(* (internal/bot/filters.go, auth.go, settings.go), the handler of member  *)
(* updates that corrects it and /reload that fetches it anew (internal/    *)
(* bot/participant.go, admins.go).  A step is one request to Telegram or   *)
(* one access to the cache; handlers interleave.                           *)
(***************************************************************************)
EXTENDS Integers, FiniteSets

CONSTANTS
  Users, Bot,
  Watched,      \* the bot and the assistant: updates about others are not
                \* looked at (participant.go:37)
  None,         \* no list is cached
  Handlers,
  MaxChanges,   \* bound: promotions, demotions and changes of the auth list
  MaxCommands,  \* bound: the commands, /reload included
  MaxFailures   \* bound: the requests that fail

\* What the constants are assumed to be.
AdminCacheAssumption ==
  /\ Bot \in Watched /\ Watched \subseteq Users
  /\ \A s \in SUBSET Users : s # None
  /\ IsFiniteSet(Handlers) /\ None \notin Handlers
  /\ MaxChanges \in Nat /\ MaxCommands \in Nat /\ MaxFailures \in Nat

VARIABLES
  admins,      \* the administrators, as Telegram has them
  authorized,  \* the users of the chat's auth list
  everyone,    \* admin mode: everyone
  cached,      \* AdminCache's entry
  cooling,     \* reloadRateLimit's entry
  updates,     \* member updates on their way, in any order; two alike are one
  pc, frame,
  changes, commands, failures,
  unheard,     \* the others whose rank has changed since the list was fetched
  suspect      \* the list was written by somebody who had read it before it
               \* changed, or an update has been lost or overtaken

bounds == <<changes, commands, failures>>
telegram == <<admins, authorized, everyone, updates>>
doubt == <<unheard, suspect>>
vars == <<admins, authorized, everyone, cached, cooling, updates, pc, frame,
          changes, commands, failures, unheard, suspect>>

\* What a handler holds: what it does, for whom, the list that it has read or
\* has to write, whether that is its second look at the list, and whether the
\* list, cached or Telegram's, has changed since it read.
Kinds == {"none", "mode", "play", "require", "reload", "update"}
Idle == [kind |-> "none", user |-> Bot, admin |-> FALSE, list |-> {},
         second |-> FALSE, late |-> FALSE]

Init ==
  /\ admins = {Bot} /\ authorized = {} /\ everyone \in BOOLEAN
  /\ cached = None /\ cooling = FALSE /\ updates = {}
  /\ pc = [h \in Handlers |-> "idle"]
  /\ frame = [h \in Handlers |-> Idle]
  /\ changes = MaxChanges /\ commands = MaxCommands /\ failures = MaxFailures
  /\ unheard = {} /\ suspect = FALSE

At(h, label) == pc[h] = label
Goto(h, label) == pc' = [pc EXCEPT ![h] = label]
Return(h) == Goto(h, "idle") /\ frame' = [frame EXCEPT ![h] = Idle]
Fails == failures > 0 /\ failures' = failures - 1
Listed(list) == IF list = None THEN {} ELSE list

\* f, with every other handler made late.
Late(f, h) ==
  [g \in Handlers |-> IF g = h \/ At(g, "idle") THEN f[g] ELSE [f[g] EXCEPT !.late = TRUE]]

Begin(h, f, label) ==
  /\ At(h, "idle") /\ commands > 0 /\ commands' = commands - 1
  /\ frame' = [frame EXCEPT ![h] = f]
  /\ Goto(h, label)
  /\ UNCHANGED <<telegram, cached, cooling, changes, failures, doubt>>
-----------------------------------------------------------------------------
(* Telegram and the chat's other commands. *)

\* Somebody is promoted or demoted, and the bot is told.
Appoint(u) ==
  /\ changes > 0 /\ changes' = changes - 1
  /\ admins' = IF u \in admins THEN admins \ {u} ELSE admins \cup {u}
  /\ updates' = updates \cup {[user |-> u, admin |-> u \notin admins]}
  /\ unheard' = unheard \cup ({u} \ Watched)
  /\ frame' = Late(frame, None)
  /\ UNCHANGED <<authorized, everyone, cached, cooling, pc, commands, failures,
                 suspect>>

\* /auth and /unauth, which Store has in steps.
Authorize(u) ==
  /\ changes > 0 /\ changes' = changes - 1
  /\ authorized' = IF u \in authorized THEN authorized \ {u} ELSE authorized \cup {u}
  /\ frame' = Late(frame, None)
  /\ UNCHANGED <<admins, everyone, cached, cooling, updates, pc, commands, failures,
                 doubt>>

Expire ==
  /\ cached # None
  /\ cached' = None /\ unheard' = {} /\ suspect' = FALSE
  /\ frame' = Late(frame, None)
  /\ UNCHANGED <<telegram, cooling, pc, bounds>>

Cool ==
  /\ cooling
  /\ cooling' = FALSE
  /\ UNCHANGED <<telegram, cached, pc, frame, bounds, doubt>>
-----------------------------------------------------------------------------
(* GetAdmins. *)

\* Where a handler goes on with the list.
Goes(f) == IF f.second THEN "decide" ELSE "check"

\* The cached list, or else Telegram is asked.
Lookup(h) ==
  /\ At(h, "lookup")
  /\ \/ /\ cached # None
        /\ frame' = [frame EXCEPT ![h].list = cached, ![h].late = FALSE]
        /\ Goto(h, Goes(frame[h]))
     \/ cached = None /\ Goto(h, "search") /\ UNCHANGED frame
  /\ UNCHANGED <<telegram, cached, cooling, bounds, doubt>>

\* SearchChatMembers.  Who called GetAdmins gives up when it fails.
Search(h) ==
  /\ At(h, "search")
  /\ \/ /\ frame' = [frame EXCEPT ![h].list = admins, ![h].late = FALSE]
        /\ Goto(h, "fill")
        /\ UNCHANGED failures
     \/ Fails /\ Return(h)
  /\ UNCHANGED <<telegram, cached, cooling, changes, commands, doubt>>

Fill(h) ==
  LET f == frame[h] IN
  /\ At(h, "fill")
  /\ cached' = f.list
  /\ unheard' = {} /\ suspect' = f.late
  /\ frame' = Late([frame EXCEPT ![h] = IF f.kind = "reload" THEN Idle ELSE f], h)
  /\ Goto(h, IF f.kind = "reload" THEN "idle" ELSE Goes(f))
  /\ UNCHANGED <<telegram, cooling, bounds>>
-----------------------------------------------------------------------------
(* The checks. *)

\* adminMode and adminModeCB ("mode"), playMode of a chat in which only
\* administrators play ("play"), requireAdmin and the buttons of /settings
\* ("require").
Command(h) ==
  \E u \in Users \ {Bot}, kind \in {"mode", "play", "require"} :
    Begin(h, [Idle EXCEPT !.kind = kind, !.user = u], "lookup")

\* checkBotAdmin; playMode then asks GetAdmins once more.  requireAdmin looks
\* for the user in the list right away.
Check(h) ==
  LET f == frame[h] IN
  /\ At(h, "check")
  /\ \/ f.kind = "require" /\ Goto(h, "decide") /\ UNCHANGED frame
     \/ f.kind # "require" /\ Bot \notin f.list /\ Return(h)
     \/ f.kind = "mode" /\ Bot \in f.list /\ Goto(h, "decide") /\ UNCHANGED frame
     \/ /\ f.kind = "play" /\ Bot \in f.list
        /\ Goto(h, "lookup") /\ frame' = [frame EXCEPT ![h].second = TRUE]
  /\ UNCHANGED <<telegram, cached, cooling, bounds, doubt>>

\* slip: a list that could be read is taken for the user's right.
AllowsListed(f) ==
  \/ f.kind = "mode" /\ everyone
  \/ f.kind \in {"play", "require"} /\ f.list # {}
  \/ f.kind \in {"mode", "play"} /\ f.user \in authorized \cup Listed(cached)

\* The mode is asked after the bot's rights.  IsAdmin and IsAuthUser take a
\* list that is not cached for an empty one.
Allows(f) ==
  \/ f.kind = "mode" /\ everyone
  \/ f.kind \in {"play", "require"} /\ f.user \in f.list
  \/ f.kind \in {"mode", "play"} /\ f.user \in authorized \cup Listed(cached)

\* The command is done, or refused.
Decide(h) ==
  /\ At(h, "decide")
  /\ Return(h)
  /\ UNCHANGED <<telegram, cached, cooling, bounds, doubt>>
-----------------------------------------------------------------------------
(* Member updates. *)

\* handleParticipant looks at an update about the bot or the assistant only,
\* and asks for the supergroup first, without which it does nothing.
Hear(h) ==
  /\ At(h, "idle")
  /\ \E m \in updates :
       /\ updates' = updates \ {m}
       /\ \/ /\ m.user \in Watched
             /\ frame' = [frame EXCEPT ![h] =
                  [Idle EXCEPT !.kind = "update", !.user = m.user, !.admin = m.admin]]
             /\ Goto(h, "correct")
             /\ UNCHANGED <<failures, suspect>>
          \/ /\ m.user \in Watched /\ Fails
             /\ suspect' = TRUE
             /\ frame' = Late(frame, h)
             /\ UNCHANGED pc
          \/ /\ m.user \notin Watched
             /\ UNCHANGED <<failures, suspect, frame, pc>>
  /\ UNCHANGED <<admins, authorized, everyone, cached, cooling, changes, commands,
                 unheard>>

\* slip: who is no administrator any more stays in the list.
CorrectedStays(list, u, admin) == list \cup {u}

\* slip: the update is kept in place of the administrator.
CorrectedWhole(list, u, admin) == (list \ {u}) \cup {[user |-> u, admin |-> admin]}

\* The list after UpdateAdminCache.
Corrected(list, u, admin) == IF admin THEN list \cup {u} ELSE list \ {u}

\* An update that says what is no longer so.
Outdated(f) == f.admin # (f.user \in admins)

\* UpdateAdminCache reads the list; nothing is written without a list, nor
\* when who is not in it has not become an administrator.
Correct(h) ==
  LET f == frame[h] IN
  /\ At(h, "correct")
  /\ \/ /\ cached = None \/ (f.user \notin Listed(cached) /\ ~ f.admin)
        /\ suspect' = (suspect \/ Outdated(f))
        /\ Goto(h, "idle") /\ frame' = Late([frame EXCEPT ![h] = Idle], h)
     \/ /\ cached # None /\ (f.user \in Listed(cached) \/ f.admin)
        /\ frame' = [frame EXCEPT ![h].list = Corrected(cached, f.user, f.admin),
                                  ![h].late = FALSE]
        /\ Goto(h, "write")
        /\ UNCHANGED suspect
  /\ UNCHANGED <<telegram, cached, cooling, bounds, unheard>>

WriteList(h) ==
  LET f == frame[h] IN
  /\ At(h, "write")
  /\ cached' = f.list
  /\ suspect' = (suspect \/ f.late \/ Outdated(f))
  /\ Goto(h, "idle") /\ frame' = Late([frame EXCEPT ![h] = Idle], h)
  /\ UNCHANGED <<telegram, cooling, bounds, unheard>>
-----------------------------------------------------------------------------
(* /reload. *)

\* The entry of the rate limit is read.
Reload(h) ==
  /\ ~ cooling
  /\ Begin(h, [Idle EXCEPT !.kind = "reload"], "stamp")

\* The entry of the rate limit is written, whatever comes after.
Stamp(h) ==
  /\ At(h, "stamp")
  /\ cooling' = TRUE
  /\ \/ Goto(h, "clear") /\ UNCHANGED <<frame, failures>>
     \/ Fails /\ Return(h)
  /\ UNCHANGED <<telegram, cached, changes, commands, doubt>>

ClearAdminCache(h) ==
  /\ At(h, "clear")
  /\ cached' = None /\ unheard' = {} /\ suspect' = FALSE
  /\ frame' = Late(frame, h)
  /\ Goto(h, "search")
  /\ UNCHANGED <<telegram, cooling, bounds>>

Step(h) ==
  \/ Lookup(h) \/ Search(h) \/ Fill(h) \/ Check(h) \/ Decide(h)
  \/ Correct(h) \/ WriteList(h) \/ Stamp(h) \/ ClearAdminCache(h)

Next ==
  \/ \E h \in Handlers : Command(h) \/ Reload(h) \/ Hear(h) \/ Step(h)
  \/ \E u \in Users : Appoint(u) \/ Authorize(u)
  \/ Expire \/ Cool

Spec == Init /\ [][Next]_vars
-----------------------------------------------------------------------------
TypeOK ==
  /\ admins \subseteq Users /\ authorized \subseteq Users /\ everyone \in BOOLEAN
  /\ cached \in {None} \cup SUBSET Users
  /\ cooling \in BOOLEAN
  /\ updates \subseteq [user : Users, admin : BOOLEAN]
  /\ pc \in [Handlers -> {"idle", "lookup", "search", "fill", "check", "decide", "correct",
                          "write", "stamp", "clear"}]
  /\ frame \in [Handlers -> [kind : Kinds, user : Users, admin : BOOLEAN,
                             list : SUBSET Users, second : BOOLEAN, late : BOOLEAN]]
  /\ changes \in 0 .. MaxChanges /\ commands \in 0 .. MaxCommands
  /\ failures \in 0 .. MaxFailures
  /\ unheard \subseteq Users \ Watched /\ suspect \in BOOLEAN

\* The bot is about to correct the list for u.
Coming(u) == u \in Watched /\ (\/ \E m \in updates : m.user = u
                              \/ \E h \in Handlers : /\ frame[h].kind = "update"
                                                      /\ frame[h].user = u)

\* The cached list is wrong about the bot and the assistant only while the
\* update about them is on its way or is handled, and about others if their
\* rank has changed since it was fetched; or else for a reason: two writers
\* have overlapped, an update has been lost, or one has overtaken another
\* (admins.go:121, 195-241, participant.go:37).
WrongForAReason ==
  \/ cached = None \/ suspect
  \/ \A u \in Users : (u \in Listed(cached) <=> u \in admins) \/ Coming(u) \/ u \in unheard

\* Whoever is let through is an administrator or authorized, everybody is let
\* through, or the list was wrong about them for one of the reasons above or
\* has changed since the handler looked (filters.go:76, 138, auth.go:20).
FormerAdminsRefused ==
  [][\A h \in Handlers :
       (At(h, "decide") /\ pc'[h] = "idle" /\ Allows(frame[h]))
         => LET u == frame[h].user IN
            \/ u \in admins \cup authorized \cup unheard
            \/ everyone \/ suspect \/ frame[h].late \/ Coming(u)]_vars
=============================================================================
