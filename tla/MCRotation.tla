----------------------------- MODULE MCRotation -----------------------------
(***************************************************************************)
(* Rotation for TLC, in two settings that share no step; the first state   *)
(* chooses one.  "faults": three accounts, one call at a time, everything  *)
(* fails that may.  "two": two accounts and two calls at a time.           *)
(***************************************************************************)
EXTENDS Rotation

CONSTANTS c1, c2

VARIABLE setting

T == INSTANCE Rotation WITH N <- 2, Earlier <- 0, MaxCalls <- 2,
       Operations <- {"play", "stop"}, Faults <- {"join"}

MCInit ==
  \/ setting = "faults" /\ Init
  \/ setting = "two" /\ T!Init

\* The second call does not begin.
OneAtATime == UNCHANGED setting /\ At(c2, "idle") /\ pc'[c2] = "idle"

MCNext ==
  \/ setting = "faults" /\ Next /\ OneAtATime
  \/ setting = "two" /\ T!Next /\ UNCHANGED setting

MCSpec ==
  /\ MCInit
  /\ [][MCNext]_<<vars, setting>>
  /\ \A c \in Calls : WF_<<vars, setting>>(setting = "two" /\ T!Step(c) /\ UNCHANGED setting)

\* CallsReturn, of two calls at a time.
TwoCallsReturn == \A c \in Calls : (setting = "two" /\ ~ At(c, "idle")) ~> At(c, "idle")
=============================================================================
