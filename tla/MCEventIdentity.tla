--------------------------- MODULE MCEventIdentity ---------------------------
(***************************************************************************)
(* An event that comes with two contents, two that do not, one more than   *)
(* memory has guards for, and the failure that a startup makes up.         *)
(***************************************************************************)
EXTENDS EventIdentity

MCEvent == {[id |-> 1, print |-> 0], [id |-> 1, print |-> 1], [id |-> 2, print |-> 1],
            [id |-> 3, print |-> 2]}
MCClosing == {[id |-> 4, print |-> 1]}

=============================================================================
