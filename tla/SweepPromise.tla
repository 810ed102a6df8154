----------------------------- MODULE SweepPromise -----------------------------
(***************************************************************************)
(* What a reader of a sweep's report may rely on: every file is settled    *)
(* once, in order, as passed, failed or not run; what was settled stays;   *)
(* the sweep succeeds exactly when every file passed.  A sweep that was    *)
(* stopped from outside just never ends.                                   *)
(***************************************************************************)
EXTENDS Integers

CONSTANTS Files, None

VARIABLES outcome, verdict

File == 1..Files
Pending == {f \in File : outcome[f] = "pending"}

Init == outcome = [f \in File |-> "pending"] /\ verdict = None

Settle ==
    \E f \in Pending, result \in {"passed", "failed"} :
        /\ \A g \in Pending : f <= g
        /\ outcome' = [outcome EXCEPT ![f] = result]
        /\ UNCHANGED verdict

GiveUp ==
    /\ outcome' = [f \in File |-> IF f \in Pending THEN "unrun" ELSE outcome[f]]
    /\ UNCHANGED verdict

End ==
    /\ Pending = {} /\ verdict = None
    /\ verdict' = IF \A f \in File : outcome[f] = "passed" THEN 0 ELSE 1
    /\ UNCHANGED outcome

Spec == Init /\ [][Settle \/ GiveUp \/ End]_<<outcome, verdict>>
=============================================================================
