----------------------------- MODULE MCMembers ------------------------------
(***************************************************************************)
(* Membership, of two assistants and one goroutine, and AdminCache, of the *)
(* bot, one user and two handlers: the two caches the handler of member    *)
(* updates corrects.  Neither reads what the other writes; the first state *)
(* chooses which of the two goes on.                                       *)
(***************************************************************************)
EXTENDS Membership

CONSTANTS Users, Bot, None, Handlers, MaxChanges, MaxCommands, MaxFailures

VARIABLES
  admins, authorized, everyone, cached, cooling, news, place, look,
  changes, commands, failures, unheard, suspect, half

A == INSTANCE AdminCache WITH
       Watched <- {Bot}, updates <- news, pc <- place, frame <- look

ASSUME AdminsAssumption == A!AdminCacheAssumption

adminVars ==
  <<admins, authorized, everyone, cached, cooling, news, place, look,
    changes, commands, failures, unheard, suspect>>

MCInit ==
  /\ Init /\ A!Init
  /\ everyone = FALSE  \* commands are for administrators
  /\ half \in {"membership", "admins"}

MCNext ==
  \/ half = "membership" /\ Next /\ UNCHANGED <<adminVars, half>>
  \/ half = "admins" /\ A!Next /\ UNCHANGED <<vars, half>>

MCSpec ==
  /\ MCInit
  /\ [][MCNext]_<<vars, adminVars, half>>
  /\ Fairness
  /\ \A t \in Threads : WF_vars(half = "membership" /\ BeginEnsure(t, assigned))

\* EventuallyJoined, of the half in which somebody asks for the assistant
\* (membership.go:292-318).
JoinedInTheEnd == <>[](half = "membership" => Present(assigned) \/ actual[assigned] = "banned")

\* The cached list of administrators is wrong for a reason only (admins.go:121,
\* 195-241, participant.go:37).
WrongForAReason == A!WrongForAReason

\* Nobody else is let through by a list that is wrong (filters.go:76, 138,
\* auth.go:20).
FormerAdminsRefused == A!FormerAdminsRefused
=============================================================================
