------------------------- MODULE MCCommandDelivery -------------------------
(***************************************************************************)
(* Model checking of CommandDelivery.  With a timeout of two ticks the LED *)
(* answers at once, one tick later or one tick after the deadline, like    *)
(* the 0, 2 and 6 seconds of its scenarios against the timeout of 5; a     *)
(* retry is due before the deadline.  One finished command stays on the    *)
(* list, where the code keeps 20: a second one pushes it off.              *)
(***************************************************************************)
EXTENDS CommandDelivery

OnOff == {"on", "off"}

PromptReport == [kind |-> "report", delay |-> 0]
LaterReport == [kind |-> "report", delay |-> 1]
LateReport == [kind |-> "report", delay |-> 3]
Rejection == [kind |-> "rejection", delay |-> 0]
Silence == [kind |-> "none", delay |-> 0]

\* confirm_immediately, confirm_delayed, report_after_timeout, reject_command
\* and omit_confirmation.
EveryPlan == {PromptReport, LaterReport, LateReport, Rejection, Silence}

\* The plans that end a command before its deadline.
TimelyPlans == {PromptReport, LaterReport, Rejection}
=============================================================================
