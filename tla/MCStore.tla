------------------------------ MODULE MCStore -------------------------------
(* Store with one document of each kind, and one user in a chat's list. *)
EXTENDS Store

CONSTANTS chat, user, list, logger, delete, on

MCCollection == [k \in Docs |-> IF k = logger THEN list ELSE k]
MCItems == [k \in Docs |-> CASE k = chat -> {Unreachable, delete}
                            [] k = user -> {Unreachable}
                            [] OTHER -> {on}]

\* The backup is from before the user came, and a setting was on.
MCBackups ==
  {[dump |-> [k \in Docs |-> IF k = user THEN None ELSE IF k = chat THEN {delete} ELSE {}],
    names |-> {MCCollection[k] : k \in Docs \ {user}}]}
=============================================================================
