----------------------------- MODULE MCLoggedRun ------------------------------
(***************************************************************************)
(* LoggedRun and RunReports on the workflows of MCScheduler.               *)
(***************************************************************************)
EXTENDS MCScheduler, RunReports

\* Only the second branch of the diamond asks for a cancellation
SecondBranch == {"c"}
===============================================================================
