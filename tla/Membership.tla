----------------------------- MODULE Membership -----------------------------
(***************************************************************************)
(* How assistants get into one chat (internal/calls/membership.go,         *)
(* join_all.go) and how the bot follows what happens to them there         *)
(* (internal/bot/participant.go): the cached member status of every        *)
(* assistant, the cached invite link of the chat, the calls that ask, join *)
(* and recover, and the handler of member updates.  A step of a call is    *)
(* what happens between two requests or two accesses to a cache.           *)
(***************************************************************************)
EXTENDS Integers, FiniteSets

CONSTANTS
  Assistants,
  Threads,       \* goroutines that bring assistants into the chat
  Links,         \* private invite links; a name is used again for a new link
                 \* when nothing holds it
  PublicLink, NoLink,
  Unknown,       \* no cached status
  Faults,        \* "ask", "create", "join", "request", "approve", "rights"
  ChatKey,       \* the chat's identifier for the bot
  DialogKey,     \* the one in an assistant's list of dialogs
  MaxTrouble     \* bound: what people, failures and other commands do

ASSUME MembershipAssumption ==
  /\ Assistants # {}
  /\ IsFiniteSet(Threads) /\ IsFiniteSet(Links)
  /\ Cardinality(Links) > Cardinality(Threads) + 1
  /\ {PublicLink, NoLink} \cap Links = {} /\ PublicLink # NoLink
  /\ ChatKey # DialogKey
  /\ MaxTrouble \in Nat

Statuses == {"left", "member", "admin", "restricted", "banned"}
InChat == {"member", "admin", "restricted"}

VARIABLES
  actual,    \* the status of each assistant in the chat
  public,    \* the chat has a public name
  alive,     \* the private links that let somebody in
  assigned,  \* the chat's assistant
  status,    \* statusCache
  invite,    \* inviteCache
  active,    \* the chat has a queue
  updates,   \* member updates on their way, in any order; two alike are one
  trouble,   \* how much is still to come
  pc, frame,
  was,       \* the call's assistant was in the chat during the call, or the
             \* cache said so
  refused    \* private links that Telegram has called expired, and that nobody
             \* has joined with since

telegram == <<actual, public, alive, updates, was>>
caches == <<status, invite>>
vars == <<actual, public, alive, assigned, status, invite, active, updates, trouble,
          pc, frame, was, refused>>

Frames == [who : Assistants, seen : Statuses, link : Links \cup {PublicLink, NoLink},
           custom : BOOLEAN, again : BOOLEAN, error : {"expired", "invalid"},
           recovering : BOOLEAN, todo : SUBSET Assistants]

Frame(a) == [who |-> a, seen |-> "left", link |-> NoLink, custom |-> FALSE,
             again |-> FALSE, error |-> "expired", recovering |-> FALSE, todo |-> {}]

Init ==
  /\ actual = [a \in Assistants |-> "left"]
  /\ public = FALSE /\ alive = {}
  /\ assigned = CHOOSE a \in Assistants : TRUE
  /\ status = [a \in Assistants |-> Unknown] /\ invite = NoLink
  /\ active = FALSE /\ updates = {} /\ trouble = MaxTrouble
  /\ pc = [t \in Threads |-> "idle"]
  /\ frame = [t \in Threads |-> Frame(assigned)]
  /\ was = [t \in Threads |-> FALSE]
  /\ refused = {}

At(t, label) == pc[t] = label
Goto(t, label) == pc' = [pc EXCEPT ![t] = label]
Who(t) == frame[t].who
Present(a) == actual[a] \in InChat
Works(link) == link \in alive \/ (link = PublicLink /\ public)
Trouble == trouble > 0 /\ trouble' = trouble - 1
Fails(fault) == fault \in Faults /\ Trouble
Calm == UNCHANGED trouble

\* The links somebody could still use; of the others nothing is kept.
Held == {frame[t].link : t \in Threads} \cup {invite}
NewLink == CHOOSE link \in Links : link \notin Held
Issue(link) ==
  /\ alive' = (alive \cap Held) \cup {link}
  /\ refused' = (refused \cap Held) \ {link}

\* Telegram makes st the status of a and tells the bot.
Becomes(a, st) ==
  /\ actual' = [actual EXCEPT ![a] = st]
  /\ updates' = updates \cup {[who |-> a, old |-> actual[a], new |-> st]}
  /\ was' = [t \in Threads |-> was[t] \/ (Who(t) = a /\ st \in InChat)]

Continue(t, label) == Goto(t, label) /\ UNCHANGED frame
Fail(t) == Continue(t, "failed")
\* recoverBannedAssistant has then a status to write.
Succeed(t) == IF frame[t].recovering THEN Continue(t, "recovered") ELSE Continue(t, "ok")
-----------------------------------------------------------------------------
(* The calls. *)

Starts(t, f, label) ==
  /\ frame' = [frame EXCEPT ![t] = f]
  /\ was' = [was EXCEPT ![t] = Present(f.who)]
  /\ Goto(t, label)
  /\ UNCHANGED <<actual, public, alive, updates, assigned, caches, refused>>

\* PlayMedia with the account it has in hand, or /join; there may be a queue.
BeginEnsure(t, a) ==
  /\ At(t, "idle")
  /\ IF a = assigned THEN Calm ELSE Trouble
  /\ active' \in {active, TRUE}
  /\ Starts(t, Frame(a), "check")

\* /join with a link of the chat: one the bot has, or one it has not seen,
\* which works or does not.
BeginCustom(t, link) ==
  /\ At(t, "idle") /\ Trouble
  /\ frame' = [frame EXCEPT ![t] = [Frame(assigned) EXCEPT !.link = link, !.custom = TRUE]]
  /\ was' = [was EXCEPT ![t] = Present(assigned)]
  /\ Goto(t, "join")
  /\ \/ Issue(link) /\ link = NewLink
     \/ UNCHANGED <<alive, refused>>
  /\ UNCHANGED <<actual, public, updates, assigned, caches, active>>

\* JoinAllAssistants: one after the other, whatever became of the one before.
BeginAll(t) ==
  /\ At(t, "idle") /\ Trouble
  /\ \E a \in Assistants : Starts(t, [Frame(a) EXCEPT !.todo = Assistants \ {a}], "check")
  /\ UNCHANGED active

Return(t) ==
  /\ pc[t] \in {"ok", "failed"}
  /\ IF frame[t].todo = {}
     THEN /\ frame' = [frame EXCEPT ![t] = Frame(assigned)]
          /\ was' = [was EXCEPT ![t] = FALSE]
          /\ Goto(t, "idle")
          /\ UNCHANGED <<actual, public, alive, updates, assigned, caches, refused>>
     ELSE \E a \in frame[t].todo :
            Starts(t, [Frame(a) EXCEPT !.todo = frame[t].todo \ {a}], "check")
  /\ Calm /\ UNCHANGED active

\* ensureAssistantMember, once the status is known.
Decide(t, st) ==
  CASE st \in {"member", "admin"} -> Continue(t, "ok")
    [] st = "left" -> Continue(t, "resolve")
    [] OTHER -> /\ frame' = [frame EXCEPT ![t].seen = st, ![t].recovering = TRUE]
                /\ Goto(t, "recover")

\* checkAssistantStatus: the cache, or else the chat.
Check(t) ==
  /\ At(t, "check")
  /\ IF status[Who(t)] = Unknown
     THEN Continue(t, "ask") /\ UNCHANGED was
     ELSE /\ Decide(t, status[Who(t)])
          /\ was' = [was EXCEPT ![t] = @ \/ status[Who(t)] \in InChat]
  /\ Calm
  /\ UNCHANGED <<actual, public, alive, updates, assigned, caches, active, refused>>

\* slip: the error for somebody who is not there is one like the others.
AskStrictly(t) ==
  /\ At(t, "ask")
  /\ \/ /\ actual[Who(t)] # "left" /\ Calm
        /\ frame' = [frame EXCEPT ![t].seen = actual[Who(t)]]
        /\ Goto(t, "note")
     \/ /\ actual[Who(t)] = "left" /\ Calm
        /\ Fail(t)
  /\ UNCHANGED <<telegram, assigned, caches, active, refused>>

\* That somebody is not there is an answer, whichever form it has.
Ask(t) ==
  /\ At(t, "ask")
  /\ \/ /\ Calm
        /\ frame' = [frame EXCEPT ![t].seen = actual[Who(t)]]
        /\ Goto(t, "note")
     \/ Fails("ask") /\ Fail(t)
  /\ UNCHANGED <<telegram, assigned, caches, active, refused>>

Note(t) ==
  /\ At(t, "note")
  /\ status' = [status EXCEPT ![Who(t)] = frame[t].seen]
  /\ Decide(t, frame[t].seen)
  /\ Calm
  /\ UNCHANGED <<telegram, assigned, invite, active, refused>>

\* SetChatMemberStatus, if the bot may.  Whether Telegram lifts a ban or says
\* that bots cannot add members, the assistant then tries to join.
Recover(t) ==
  /\ At(t, "recover")
  /\ \/ /\ actual[Who(t)] = "restricted" /\ Becomes(Who(t), "member")
        /\ Continue(t, "resolve") /\ Calm
     \/ /\ actual[Who(t)] = "banned" /\ \E st \in {"left", "member"} : Becomes(Who(t), st)
        /\ Continue(t, "resolve") /\ Calm
     \/ /\ actual[Who(t)] = "member" \/ (actual[Who(t)] \in {"left", "banned"} /\ frame[t].seen = "banned")
        /\ Continue(t, "resolve") /\ Calm /\ UNCHANGED <<actual, updates, was>>
     \/ /\ actual[Who(t)] = "admin" \/ (actual[Who(t)] = "left" /\ frame[t].seen = "restricted")
        /\ Fail(t) /\ Calm /\ UNCHANGED <<actual, updates, was>>
     \/ Fails("rights") /\ Fail(t) /\ UNCHANGED <<actual, updates, was>>
  /\ UNCHANGED <<public, alive, assigned, caches, active, refused>>

\* resolveInviteLink.
Resolve(t) ==
  /\ At(t, "resolve")
  /\ frame' = [frame EXCEPT ![t].link = invite]
  /\ Goto(t, IF invite = NoLink THEN "create" ELSE "join")
  /\ Calm
  /\ UNCHANGED <<telegram, assigned, caches, active, refused>>

Create(t) ==
  /\ At(t, "create")
  /\ \/ /\ Issue(NewLink)
        /\ frame' = [frame EXCEPT ![t].link = NewLink]
        /\ Goto(t, "keep") /\ Calm
     \/ /\ Fails("create")
        /\ IF frame[t].again
           THEN Continue(t, frame[t].error)
           ELSE Fail(t)
        /\ UNCHANGED <<alive, refused>>
  /\ UNCHANGED <<actual, public, updates, was, assigned, caches, active>>

Keep(t) ==
  /\ At(t, "keep")
  /\ invite' = frame[t].link
  /\ Goto(t, "join")
  /\ Calm
  /\ UNCHANGED <<telegram, assigned, status, active, frame, refused>>

\* The first refusal of a link that was not given with the command is followed
\* by another attempt.
Refuse(t, error) ==
  /\ frame' = [frame EXCEPT ![t].error = error]
  /\ Goto(t, IF frame[t].again \/ frame[t].custom THEN error ELSE "drop")
  /\ refused' = IF error = "expired" THEN refused \cup ({frame[t].link} \cap Links) ELSE refused

\* JoinChannel.  A banned assistant is told that the link has expired, that the
\* chat is private, or that it is banned.
Join(t) ==
  LET a == Who(t)  link == frame[t].link IN
  /\ At(t, "join")
  /\ \/ /\ Works(link) /\ actual[a] = "left" /\ Becomes(a, "member")
        /\ refused' = refused \ {link}
        /\ Continue(t, "joined") /\ Calm
     \/ /\ Works(link) /\ actual[a] = "left" /\ Fails("request")
        /\ Continue(t, "approve") /\ UNCHANGED <<actual, updates, was, refused>>
     \/ /\ Works(link) /\ Present(a)
        /\ Continue(t, "already") /\ Calm /\ UNCHANGED <<actual, updates, was, refused>>
     \/ /\ link \in Links \ alive
        /\ \E error \in {"expired", "invalid"} : Refuse(t, error)
        /\ Calm /\ UNCHANGED <<actual, updates, was>>
     \/ /\ actual[a] = "banned"
        /\ Refuse(t, "expired")
        /\ Calm /\ UNCHANGED <<actual, updates, was>>
     \/ /\ actual[a] = "banned"
        /\ Continue(t, "private") /\ Calm /\ UNCHANGED <<actual, updates, was, refused>>
     \/ /\ actual[a] = "banned" \/ (link = PublicLink /\ ~public)
        /\ Fail(t) /\ Calm /\ UNCHANGED <<actual, updates, was, refused>>
     \/ Fails("join") /\ Fail(t) /\ UNCHANGED <<actual, updates, was, refused>>
  /\ UNCHANGED <<public, alive, assigned, caches, active>>

Drop(t) ==
  /\ At(t, "drop")
  /\ invite' = NoLink
  /\ frame' = [frame EXCEPT ![t].again = TRUE]
  /\ Goto(t, "resolve")
  /\ Calm
  /\ UNCHANGED <<telegram, assigned, status, active, refused>>

\* A link that was given with the command and has worked is kept.
Joined(t) ==
  /\ At(t, "joined")
  /\ status' = [status EXCEPT ![Who(t)] = "member"]
  /\ IF frame[t].custom
     THEN Continue(t, "keepCustom")
     ELSE Succeed(t)
  /\ Calm
  /\ UNCHANGED <<telegram, assigned, invite, active, refused>>

KeepCustom(t) ==
  /\ At(t, "keepCustom")
  /\ invite' = frame[t].link
  /\ Continue(t, "ok")
  /\ Calm
  /\ UNCHANGED <<telegram, assigned, status, active, refused>>

Recovered(t) ==
  /\ At(t, "recovered")
  /\ status' = [status EXCEPT ![Who(t)] = "member"]
  /\ Continue(t, "ok")
  /\ Calm
  /\ UNCHANGED <<telegram, assigned, invite, active, refused>>
-----------------------------------------------------------------------------
(* handleJoinError. *)

\* slip: the error of the approval is not looked at.
ApproveBlindly(t) ==
  /\ At(t, "approve")
  /\ Fails("approve") /\ Succeed(t)
  /\ UNCHANGED <<telegram, assigned, caches, active, refused>>

\* The member update will say that it worked; nothing is cached here.
Approve(t) ==
  /\ At(t, "approve")
  /\ \/ /\ actual[Who(t)] = "left" /\ Becomes(Who(t), "member")
        /\ Succeed(t) /\ Calm
     \/ /\ actual[Who(t)] # "left"
        /\ Fail(t) /\ Calm /\ UNCHANGED <<actual, updates, was>>
     \/ Fails("approve") /\ Fail(t) /\ UNCHANGED <<actual, updates, was>>
  /\ UNCHANGED <<public, alive, assigned, caches, active, refused>>

Already(t) ==
  /\ At(t, "already")
  /\ status' = [status EXCEPT ![Who(t)] = "member"]
  /\ Succeed(t)
  /\ Calm
  /\ UNCHANGED <<telegram, assigned, invite, active, refused>>

\* slip: the link stays for the next attempt.
KeepExpired(t) ==
  /\ pc[t] \in {"expired", "private"}
  /\ Continue(t, "absent")
  /\ Calm
  /\ UNCHANGED <<telegram, assigned, caches, active, refused>>

ForgetLink(t) ==
  /\ pc[t] \in {"expired", "private"}
  /\ invite' = NoLink
  /\ Continue(t, "absent")
  /\ Calm
  /\ UNCHANGED <<telegram, assigned, status, active, refused>>

NoteAbsent(t) ==
  /\ At(t, "absent")
  /\ status' = [status EXCEPT ![Who(t)] = "left"]
  /\ Fail(t)
  /\ Calm
  /\ UNCHANGED <<telegram, assigned, invite, active, refused>>

Invalid(t) ==
  /\ At(t, "invalid")
  /\ Fail(t)
  /\ Calm
  /\ UNCHANGED <<telegram, assigned, caches, active, refused>>
-----------------------------------------------------------------------------
(* handleParticipant. *)

\* dispatchStatusChange: what becomes of the cached status; a change it has no
\* case for leaves it as it is.
Dispatched(u) ==
  CASE u.old = "left" /\ u.new \in InChat -> "member"
    [] u.old \in InChat /\ u.new = "left" -> "left"
    [] u.new = "banned" -> "banned"
    [] u.old = "banned" /\ u.new = "left" -> "left"
    [] "restricted" \in {u.old, u.new} -> u.new
    [] u.old # "admin" /\ u.new = "admin" -> "admin"
    [] u.old = "admin" /\ u.new # "admin" -> "member"
    [] OTHER -> status[u.who]

\* Updates about accounts that are not the chat's are not looked at.
Ignore(u) ==
  /\ u.who # assigned
  /\ updates' = updates \ {u}
  /\ Calm
  /\ UNCHANGED <<actual, public, alive, was, assigned, caches, active, pc, frame, refused>>

\* The chat's public name, when it has one, becomes the link.  The queue of a
\* chat whose assistant has gone is cleared.
HandleParticipant(u) ==
  /\ u.who = assigned
  /\ updates' = updates \ {u}
  /\ invite' = IF public THEN PublicLink ELSE invite
  /\ status' = [status EXCEPT ![u.who] = Dispatched(u)]
  /\ active' = (active /\ ~(u.new = "banned" \/ (u.old \in InChat /\ u.new = "left")))
  /\ Calm
  /\ UNCHANGED <<actual, public, alive, was, assigned, pc, frame, refused>>
-----------------------------------------------------------------------------
(* What else happens to the chat and to the caches. *)

\* An administrator, or the assistant's owner, changes its status.
Change(a) ==
  /\ Trouble
  /\ \E st \in Statuses \ {actual[a]} : Becomes(a, st)
  /\ UNCHANGED <<public, alive, assigned, caches, active, pc, frame, refused>>

Revoke ==
  /\ Trouble
  /\ alive' = {}
  /\ public' \in BOOLEAN
  /\ UNCHANGED <<actual, updates, was, assigned, caches, active, pc, frame, refused>>

Reassign(a) ==
  /\ Trouble
  /\ assigned' = a
  /\ UNCHANGED <<telegram, caches, active, pc, frame, refused>>

IsActive(key) == key = ChatKey /\ active

\* leaveAssistantDialogs asks ChatCache with the identifier of the dialog.
LeaveDialogs(a) ==
  /\ Trouble
  /\ Present(a)
  /\ ~IsActive(DialogKey)
  /\ Becomes(a, "left")
  /\ UNCHANGED <<public, alive, assigned, caches, active, pc, frame, refused>>

\* The queue is played to its end or cleared.
QueueEnds ==
  /\ active
  /\ active' = FALSE
  /\ Calm
  /\ UNCHANGED <<telegram, assigned, caches, pc, frame, refused>>

\* An entry comes to its end, or /reload deletes it (ClearChatCache).
ExpireInvite ==
  /\ invite # NoLink
  /\ invite' = NoLink
  /\ Calm
  /\ UNCHANGED <<telegram, assigned, status, active, pc, frame, refused>>

ExpireStatus(a) ==
  /\ status[a] # Unknown
  /\ status' = [status EXCEPT ![a] = Unknown]
  /\ Calm
  /\ UNCHANGED <<telegram, assigned, invite, active, pc, frame, refused>>
-----------------------------------------------------------------------------
Step(t) ==
  \/ Return(t) \/ Check(t) \/ Ask(t) \/ Note(t) \/ Recover(t)
  \/ Resolve(t) \/ Create(t) \/ Keep(t) \/ Join(t) \/ Drop(t)
  \/ Joined(t) \/ KeepCustom(t) \/ Recovered(t)
  \/ Approve(t) \/ Already(t) \/ ForgetLink(t) \/ NoteAbsent(t) \/ Invalid(t)

Handle == \E u \in updates : Ignore(u) \/ HandleParticipant(u)

Next ==
  \/ \E t \in Threads :
       \/ \E a \in Assistants : BeginEnsure(t, a)
       \/ \E link \in {invite, NewLink, PublicLink} \ {NoLink} : BeginCustom(t, link)
       \/ BeginAll(t)
       \/ Step(t)
  \/ Handle
  \/ \E a \in Assistants : Change(a) \/ Reassign(a) \/ LeaveDialogs(a) \/ ExpireStatus(a)
  \/ Revoke \/ QueueEnds \/ ExpireInvite

Spec == Init /\ [][Next]_vars

\* Calls and handlers go on, cached entries come to their end, and somebody
\* asks for the chat's assistant again and again.
Fairness ==
  /\ \A t \in Threads : WF_vars(Step(t))
  /\ WF_vars(Handle)
  /\ WF_vars(ExpireInvite)
  /\ \A a \in Assistants : WF_vars(ExpireStatus(a))

AskSpec == Spec /\ Fairness /\ \A t \in Threads : WF_vars(BeginEnsure(t, assigned))
-----------------------------------------------------------------------------
Labels ==
  {"idle", "ok", "failed", "check", "ask", "note", "recover", "resolve", "create", "keep",
   "join", "drop", "joined", "keepCustom", "recovered", "approve", "already",
   "expired", "private", "absent", "invalid"}

TypeOK ==
  /\ actual \in [Assistants -> Statuses] /\ public \in BOOLEAN /\ alive \subseteq Links
  /\ assigned \in Assistants
  /\ status \in [Assistants -> Statuses \cup {Unknown}]
  /\ invite \in Links \cup {PublicLink, NoLink}
  /\ active \in BOOLEAN
  /\ updates \subseteq [who : Assistants, old : Statuses, new : Statuses]
  /\ trouble \in 0 .. MaxTrouble
  /\ pc \in [Threads -> Labels] /\ frame \in [Threads -> Frames]
  /\ was \in [Threads -> BOOLEAN]
  /\ refused \subseteq Links
  /\ \A t \in Threads : pc[t] \in {"keep", "join", "keepCustom"} => frame[t].link # NoLink

\* When ensureAssistantMember reports success, the assistant was in the chat at
\* some moment of the call or the cache said so: no path of joining, being
\* refused, recovering and being approved ends well without it.
EnsureSound == \A t \in Threads : At(t, "ok") => was[t]

\* Once Telegram has called a link expired and the calls that used it have
\* ended, the link is not in the cache: the next call does not try it again
\* (membership.go:411-413, 506).
RefusedIsForgotten ==
  (\A t \in Threads : At(t, "idle")) => invite \notin refused

\* When people and failures leave the chat alone and somebody goes on asking
\* for music, its assistant ends up in the chat or is banned from it, however
\* wrong what the caches held was.
EventuallyJoined == <>[](Present(assigned) \/ actual[assigned] = "banned")

\* "AutoLeave: leaving inactive chats" (membership.go:223): the assistant does
\* not leave a chat that has a queue.
ActiveIsKept == [][(\E a \in Assistants : LeaveDialogs(a)) => ~active]_vars
=============================================================================
