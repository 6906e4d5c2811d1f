------------------------------- MODULE MCJobs -------------------------------
(* The instance of Jobs that TLC checks *)
EXTENDS Jobs
=============================================================================
