---------------------------- MODULE MCRealtimeSync ----------------------------
(***************************************************************************)
(* Two clients, one of them slow.  An event changes the LED together with  *)
(* its commands, or nothing that is shown.                                 *)
(***************************************************************************)
EXTENDS RealtimeSync

MCChanges == {{"led", "commands"}, {}}

=============================================================================
