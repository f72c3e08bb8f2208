----------------------- MODULE QualityScoresContract -----------------------
(***************************************************************************)
(* What reading a quality log promises (spec 4.6, 4.8 and 7): the log the  *)
(* external program wrote is read in one step, and the outcome is the      *)
(* quality result its records determine, or Fatal.  The runners' line-by- *)
(* line and frame-by-frame parsers are shown to implement this.            *)
(***************************************************************************)
CONSTANTS
    Logs,          \* the logs the external program may write
    Expected(_),   \* Expected(log): the quality result, or Fatal
    Pending        \* the outcome before the log is read

VARIABLES log, outcome

Init == log \in Logs /\ outcome = Pending

Read ==
    /\ outcome = Pending
    /\ outcome' = Expected(log)
    /\ UNCHANGED log

Spec == Init /\ [][Read]_<<log, outcome>>

=============================================================================
