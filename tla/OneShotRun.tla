----------------------------- MODULE OneShotRun -----------------------------
(***************************************************************************)
(* What a run promises its caller.  There is one machine, which runs once; *)
(* the work is begun at most once and only while the machine is up; it     *)
(* reaches one verdict or is lost.  The caller is told one outcome, and    *)
(* told success or failed jobs only when that is the verdict.  An error    *)
(* may be reported at any time, also while the work goes on.               *)
(***************************************************************************)
VARIABLES
    machine,    \* "off", "up" or "halted"
    work,       \* "idle", "running", "ok", "failed" or "lost"
    told        \* what the caller was told: "none", "ok", "jobsFailed", "error"

rvars == <<machine, work, told>>

Init == machine = "off" /\ work = "idle" /\ told = "none"

Boot ==
    /\ machine = "off"
    /\ machine' = "up"
    /\ UNCHANGED <<work, told>>

Halt ==
    /\ machine # "halted"
    /\ machine' = "halted"
    /\ work' = IF work = "running" THEN "lost" ELSE work
    /\ UNCHANGED told

Begin ==
    /\ machine = "up" /\ work = "idle"
    /\ work' = "running"
    /\ UNCHANGED <<machine, told>>

End ==
    /\ machine = "up" /\ work = "running"
    /\ work' \in {"ok", "failed", "lost"}
    /\ UNCHANGED <<machine, told>>

Tell ==
    /\ told = "none"
    /\ \/ work = "ok" /\ told' = "ok"
       \/ work = "failed" /\ told' = "jobsFailed"
       \/ told' = "error"
    /\ UNCHANGED <<machine, work>>

Next == Boot \/ Halt \/ Begin \/ End \/ Tell

Spec == Init /\ [][Next]_rvars
=============================================================================
