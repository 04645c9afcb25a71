------------------------------- MODULE RunStatus -------------------------------
(***************************************************************************)
(* The statuses of a run, and what one step of the server may make of each   *)
(* of them when the run is executed by AWS Batch.  JobStore has the handlers  *)
(* that take these steps; the pages are modelled against the steps alone.    *)
(***************************************************************************)

\* JobStatus of core/models.py
JobStatus == {"Pending", "Running", "Completed", "Failed", "Cancelled",
              "Cancelling", "Dispatch unknown"}

\* A Batch job that is retried takes its run back from Running to Pending, a late id
\* takes it from Dispatch unknown to Pending, and a stop that is refused, or an
\* observation made before it, takes it from Cancelling back to Running.
Becomes == [s \in JobStatus |->
  CASE s = "Pending"          -> JobStatus \ {"Pending"}
    [] s = "Dispatch unknown" -> {"Pending", "Failed", "Cancelling"}
    [] s = "Running"          -> {"Pending", "Completed", "Failed", "Cancelling"}
    [] s = "Cancelling"       -> {"Pending", "Running", "Completed", "Cancelled"}
    [] OTHER                  -> {}]
=============================================================================
