-------------------------- MODULE MCDeviceEvidence --------------------------
(***************************************************************************)
(* A pattern of two readings, a window of one step of the clock.           *)
(***************************************************************************)
EXTENDS DeviceEvidence

TwoReadings == <<"cool", "warm">>

=============================================================================
