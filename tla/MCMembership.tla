---------------------------- MODULE MCMembership ----------------------------
(* Values for the runs of Membership. *)
EXTENDS Membership
=============================================================================
