-------------------------- MODULE MCDailyAutopilot --------------------------
(* DailyAutopilot for TLC: one worker, as its handler is made for. *)
EXTENDS DailyAutopilot
CONSTANT w1
=============================================================================
