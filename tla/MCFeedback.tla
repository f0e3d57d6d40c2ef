----------------------------- MODULE MCFeedback -----------------------------
(***************************************************************************)
(* FeedbackScreen with a value of the flags for each way they decode.      *)
(***************************************************************************)
EXTENDS FeedbackScreen

MCFlags == {{}, {"reachable"}, {"reachable", "isWWAN"},
            {"reachable", "connectionRequired", "connectionOnDemand", "interventionRequired"}}
=============================================================================
