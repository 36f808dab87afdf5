----------------------------- MODULE ReportSource -----------------------------
(***************************************************************************)
(* What run_report_loop may rely on when its lines come from the VIAVI     *)
(* connector, without threads, connections and pipe: it is given lines one *)
(* at a time, the input ends only after a line, leaving the loop destroys  *)
(* the source, which may take for ever, and the process may be aborted at  *)
(* any of these moments, but never once the source is gone.                *)
(***************************************************************************)

VARIABLES at,        \* where the report loop is: reading, using, leaving,
                     \* gone or aborted
          delivered  \* whether it was given a line

rvars == <<at, delivered>>

Init == at = "reading" /\ delivered = FALSE

Deliver == at = "reading" /\ at' = "using" /\ delivered' = TRUE

\* The line is dealt with, or raises an exception that leaves the loop.
Use == at = "using" /\ at' \in {"reading", "leaving"} /\ UNCHANGED delivered

End == at = "reading" /\ delivered /\ at' = "leaving" /\ UNCHANGED delivered

Destroy == at = "leaving" /\ at' = "gone" /\ UNCHANGED delivered

\* What was delivered does not matter any more.
Abort == at \notin {"gone", "aborted"} /\ at' = "aborted" /\ delivered' \in BOOLEAN

Next == Deliver \/ Use \/ End \/ Destroy \/ Abort

Spec == Init /\ [][Next]_rvars
=============================================================================
