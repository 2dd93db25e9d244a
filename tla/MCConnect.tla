----------------------------- MODULE MCConnect -----------------------------
(***************************************************************************)
(* Connect with one goroutine that starts and stops, and the reconnection: *)
(* three starts and stops in one group call, or one and a second group     *)
(* call.                                                                   *)
(***************************************************************************)
EXTENDS Connect

MCNext == Next /\ (opened' = 2 => calls' >= 2)

MCSpec == Init /\ [][MCNext]_vars
=============================================================================
