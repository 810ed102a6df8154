------------------------------- MODULE BenchSweep -------------------------------
(***************************************************************************)
(* The benchmark sweep of scripts/ci/run_benchmarks.py: a parent that      *)
(* never imports torch runs each bench file in a process of its own.  The  *)
(* card is in exclusive mode, so one process at a time may use it; the     *)
(* next ones import meanwhile and wait for a line on stdin.  A process may *)
(* crash, exit or hang at any point, and the parent may be interrupted or  *)
(* killed.  Log text, messages and the summary of the collect-only passes  *)
(* are left out; exit code 5 counts as 0.                                  *)
(***************************************************************************)
EXTENDS Integers

CONSTANTS
    Files,              \* bench files found, numbered in their order
    prewarm,
    stall_timeout, total_budget, teardown_timeout,      \* in ticks of the clock
    MaxTests            \* bound: tests of a file

ASSUME SweepAssumption ==
    /\ Files \in Nat \ {0} /\ prewarm \in Nat
    /\ stall_timeout \in Nat \ {0} /\ total_budget \in Nat \ {0} /\ teardown_timeout \in Nat
    /\ MaxTests \in Nat

VARIABLES
    child,      \* the process of each file
    pc, index, spawned, current, rc,        \* main and its locals
    released,   \* files whose process was written a line
    timer,      \* ticks left of the deadline main waits on: stall or teardown
    budget,     \* ticks left of the total budget
    slept,      \* the select has waited its second
    fresh,      \* the heartbeat is newer than the last one main saw
    quiet,      \* history: ticks since the running file started a test
    suites, failed,     \* the report: entries of each file, and the failed ones
    profile, parts,     \* whose profile_run.log lies in the directory, and those absorbed
    verdict     \* what main returned

place == <<index, spawned, current, rc, released>>
times == <<timer, budget, slept>>
beats == <<fresh, quiet>>
report == <<suites, failed, parts, verdict>>
vars == <<child, pc, place, times, beats, profile, report>>

File == 1..Files
None == -2          \* no status, no exit code, no verdict
Signal == -1        \* a negative return code
Unlimited == -1     \* a budget that is never spent

Unborn == [stage |-> "unborn", tests |-> 0, status |-> None, exit |-> None, fragment |-> FALSE]

Init ==
    /\ child = [f \in File |-> Unborn]
    /\ pc = "prewarm" /\ index = 0 /\ spawned = 0 /\ current = 0 /\ rc = None
    /\ released = {}
    /\ timer = 0 /\ budget \in {total_budget, Unlimited} /\ slept = FALSE
    /\ fresh = FALSE /\ quiet = 0
    /\ suites = [f \in File |-> {}] /\ failed = {}
    /\ profile = 0 /\ parts = {}
    /\ verdict = None

Alive(f) == child[f].stage \notin {"unborn", "dead"}
OnCard(f) == child[f].stage \in {"running", "ended", "reported"}
Pending == (index + 1)..spawned

\* The parent's process is gone: it is through with its finally block, or it was stopped
\* where nothing else kills the processes.
Gone == pc \in {"left", "died"}

-----------------------------------------------------------------------------
(* A child process (_CHILD).                                               *)

Beat == fresh' = TRUE /\ quiet' = 0

Collect(f) ==
    /\ child[f].stage = "importing"
    /\ child' = [child EXCEPT ![f].stage = "waiting"]
    /\ UNCHANGED <<beats, profile>>

\* readline returns on a line, and on the end of a parent that is gone.
Grant(f) ==
    /\ child[f].stage = "waiting" /\ (f \in released \/ Gone)
    /\ child' = [child EXCEPT ![f].stage = "running"]
    /\ Beat /\ UNCHANGED profile

StartTest(f) ==
    /\ child[f].stage = "running" /\ child[f].tests < MaxTests
    /\ child' = [child EXCEPT ![f].tests = @ + 1]
    /\ Beat /\ UNCHANGED profile

\* pytest writes the fragment, the plugin its records; a usage error writes neither.
EndSession(f) ==
    /\ child[f].stage = "running"
    /\ \E code \in {0, 1}, fragment \in BOOLEAN :
         /\ code = 0 => fragment
         /\ child' = [child EXCEPT ![f].stage = "ended", ![f].exit = code,
                                   ![f].fragment = fragment]
    /\ profile' = IF child[f].tests > 0 THEN f ELSE profile
    /\ UNCHANGED beats

Report(f) ==
    /\ child[f].stage = "ended"
    /\ child' = [child EXCEPT ![f].stage = "reported", ![f].status = child[f].exit]
    /\ UNCHANGED <<beats, profile>>

\* A signal, an exception or an _exit of its own ends it, at any point and with any code:
\* what runs after the report may still change the one it leaves with.
Die(f) ==
    /\ Alive(f)
    /\ \E code \in {Signal, 0, 1} :
         child' = [child EXCEPT ![f].stage = "dead", ![f].exit = code]
    /\ UNCHANGED <<beats, profile>>

Child(f) ==
    /\ \/ Collect(f) \/ Grant(f) \/ StartTest(f) \/ EndSession(f) \/ Report(f) \/ Die(f)
    /\ UNCHANGED <<pc, place, times, report>>

-----------------------------------------------------------------------------
(* main.                                                                   *)

budget_spent == budget = 0

Killed(dead) ==
    [f \in File |-> IF f \in dead /\ Alive(f)
                    THEN [child[f] EXCEPT !.stage = "dead", !.exit = Signal] ELSE child[f]]
kill(f) == child' = Killed({f})

mark_failed(f) == failed' = failed \cup {f}
_synthetic_suite(f) == suites' = [suites EXCEPT ![f] = @ \cup {"error"}] /\ mark_failed(f)
_absorb_profile_log ==
    /\ parts' = IF profile # 0 THEN parts \cup {profile} ELSE parts
    /\ profile' = 0

\* top_up: one process more, until more than prewarm of them are ahead.
spawn_at ==
    /\ pc \in {"prewarm", "topup"}
    /\ spawned - index <= prewarm /\ spawned < Files
    /\ spawned' = spawned + 1
    /\ child' = [child EXCEPT ![spawned + 1].stage = "importing"]
    /\ UNCHANGED <<pc, index, current, rc, released, times, beats, profile, report>>

ToppedUp == spawned - index > prewarm \/ spawned = Files

EndPrewarm ==
    /\ pc = "prewarm" /\ ToppedUp
    /\ pc' = "next"
    /\ UNCHANGED <<child, place, times, beats, profile, report>>

\* The head of the loop.
NextFile ==
    /\ pc = "next" /\ index < Files /\ ~budget_spent
    /\ index' = index + 1 /\ current' = index + 1
    /\ pc' = "topup"
    /\ UNCHANGED <<child, spawned, rc, released, times, beats, profile, report>>

\* Bug: the file that was stopped is in no list.
unrunNext(f) == suites' = [g \in File |-> IF g > f THEN suites[g] \cup {"unrun"} ELSE suites[g]]

\* The files from f on were not run.
unrun(f) == suites' = [g \in File |-> IF g >= f THEN suites[g] \cup {"unrun"} ELSE suites[g]]

StopSweep ==
    /\ pc = "next" /\ (index = Files \/ budget_spent)
    /\ unrun(index + 1)
    /\ pc' = "finally"
    /\ UNCHANGED <<child, place, times, beats, failed, profile, parts, verdict>>

release ==
    /\ pc = "topup" /\ ToppedUp
    /\ released' = released \cup {current}
    /\ timer' = stall_timeout /\ slept' = FALSE /\ fresh' = FALSE /\ quiet' = 0
    /\ pc' = "wait"
    /\ UNCHANGED <<child, index, spawned, current, rc, budget, profile, report>>

Readable == child[current].status # None \/ child[current].stage = "dead"

\* What main is told: the status, or without one the reason the process died for.
Told(f) == IF child[f].status # None THEN child[f].status ELSE child[f].exit

wait_result ==
    /\ pc = "wait" /\ Readable
    /\ rc' = Told(current)
    /\ timer' = teardown_timeout
    /\ pc' = "reap"
    /\ UNCHANGED <<child, index, spawned, current, released, budget, slept, beats, profile, report>>

WaitTimesOut ==
    /\ pc = "wait" /\ ~Readable
    /\ slept \/ timer = 0 \/ budget_spent
    /\ pc' = "look"
    /\ UNCHANGED <<child, place, times, beats, profile, report>>

\* Bug: the deadline counts from the start of the file.
LookFromStart ==
    /\ pc = "look"
    /\ fresh' = FALSE
    /\ pc' = "check"
    /\ UNCHANGED <<child, place, times, quiet, profile, report>>

\* A newer heartbeat moves the deadline.
Look ==
    /\ pc = "look"
    /\ fresh' = FALSE
    /\ timer' = IF fresh THEN stall_timeout ELSE timer
    /\ pc' = "check"
    /\ UNCHANGED <<child, place, budget, slept, quiet, profile, report>>

Check ==
    /\ pc = "check"
    /\ pc' = IF timer = 0 THEN "dump" ELSE IF budget_spent THEN "stop" ELSE "wait"
    /\ slept' = FALSE
    /\ UNCHANGED <<child, place, timer, budget, beats, profile, report>>

OutOfBudget ==
    /\ pc = "stop"
    /\ kill(current) /\ unrun(current)
    /\ pc' = "finally"
    /\ UNCHANGED <<place, times, beats, failed, profile, parts, verdict>>

\* The stack of the silent process is dumped, however far it gets meanwhile; it is killed.
Stalled ==
    /\ pc = "dump"
    /\ kill(current)
    /\ _synthetic_suite(current) /\ _absorb_profile_log
    /\ pc' = "next"
    /\ UNCHANGED <<place, times, beats, verdict>>

Crashed ==
    /\ pc = "reap" /\ rc = Signal
    /\ _synthetic_suite(current) /\ _absorb_profile_log
    /\ pc' = "next"
    /\ UNCHANGED <<child, place, times, beats, verdict>>

\* Bug: a process that does not leave is waited for.
ReapedWhenGone == child[current].stage = "dead"

\* _reap_teardown has an answer: the process is gone or out of time.
TornDown == child[current].stage = "dead" \/ timer = 0

\* Bug: the exit after the report is not looked at.
StuckOnly == child[current].stage # "dead"

\* It was stuck, or died of a signal.
Anomaly == child[current].stage # "dead" \/ child[current].exit = Signal

\* Bug: the process goes on while the next file starts.
ReapedUnawaited ==
    /\ pc = "reap" /\ rc # Signal
    /\ suites' = [suites EXCEPT ![current] = {IF child[current].fragment THEN "results" ELSE "error"}]
    /\ failed' = IF rc # 0 \/ ~child[current].fragment THEN failed \cup {current} ELSE failed
    /\ current' = 0
    /\ _absorb_profile_log
    /\ pc' = "next"
    /\ UNCHANGED <<child, index, spawned, rc, released, times, beats, verdict>>

\* The process of a file that reported is out of the way before its results count.
Reaped ==
    /\ pc = "reap" /\ rc # Signal /\ TornDown
    /\ kill(current)
    /\ LET outcome == IF child[current].fragment THEN "results" ELSE "error"
       IN /\ suites' = [suites EXCEPT ![current] =
                           @ \cup {outcome} \cup IF Anomaly THEN {"teardown"} ELSE {}]
          /\ failed' = IF Anomaly \/ rc # 0 \/ outcome = "error"
                       THEN failed \cup {current} ELSE failed
    /\ current' = 0
    /\ _absorb_profile_log
    /\ pc' = "next"
    /\ UNCHANGED <<index, spawned, rc, released, times, beats, verdict>>

Unrun == {f \in File : "unrun" \in suites[f]}

\* Bug: the process in hand is forgotten.
PendingOnly == {f \in Pending : Alive(f)}

\* What finally has yet to kill.
Leftover == {f \in File : Alive(f) /\ (f = current \/ f \in Pending)}

\* finally: one process after the other is killed, the one in hand first.
KillLeftover ==
    /\ pc \in {"finally", "unwind"}
    /\ \E f \in Leftover : (\A g \in Leftover : f <= g) /\ kill(f)
    /\ UNCHANGED <<pc, place, times, beats, profile, report>>

\* Then the report is written.
Finally ==
    /\ pc = "finally" /\ Leftover = {}
    /\ verdict' = IF failed = {} /\ Unrun = {} THEN 0 ELSE 1
    /\ pc' = "left"
    /\ UNCHANGED <<child, place, times, beats, suites, failed, profile, parts>>

\* There is none after an exception.
Unwound ==
    /\ pc = "unwind" /\ Leftover = {}
    /\ pc' = "left"
    /\ UNCHANGED <<child, place, times, beats, profile, report>>

\* An exception: a fork that fails, an unreadable fragment, Ctrl-C.  It goes through finally
\* once: one before the try block, or out of finally itself, takes the parent down.
Raise ==
    /\ ~Gone
    /\ pc' = IF pc \in {"prewarm", "finally", "unwind"} THEN "died" ELSE "unwind"
    /\ UNCHANGED <<child, place, times, beats, profile, report>>

\* SIGKILL, or SIGTERM of a job that was cancelled.
ParentKilled ==
    /\ ~Gone
    /\ pc' = "died"
    /\ UNCHANGED <<child, place, times, beats, profile, report>>

Main ==
    \/ spawn_at \/ EndPrewarm \/ NextFile \/ StopSweep \/ release \/ wait_result \/ WaitTimesOut
    \/ Look \/ Check \/ OutOfBudget \/ Stalled \/ Crashed \/ Reaped
    \/ KillLeftover \/ Finally \/ Unwound

Less(n) == IF n > 0 THEN n - 1 ELSE n

Tick ==
    /\ ~Gone
    /\ timer' = Less(timer) /\ budget' = Less(budget)
    /\ slept' = (slept \/ pc = "wait")
    /\ quiet' = IF quiet < stall_timeout THEN quiet + 1 ELSE quiet
    /\ UNCHANGED <<child, pc, place, fresh, profile, report>>

Next == Main \/ Raise \/ ParentKilled \/ Tick \/ \E f \in File : Child(f)

Spec == Init /\ [][Next]_vars

\* The parent runs and time passes; nothing is asked of the children.
FairSpec == Spec /\ WF_vars(Main) /\ WF_vars(Tick)

-----------------------------------------------------------------------------
\* While the parent's process lives, the card is held by nobody but the file it has in hand
\* and has granted it to, until that process is gone, not until it reported (the comment at
\* line 425).  The parent gone, the others read the end of its pipe as a grant.
OneRuns == pc # "died" => \A f \in File : OnCard(f) => f = current /\ f \in released

\* However main leaves its loop, by an exception or a Ctrl-C at any point of it included, it
\* is gone from finally only when no process is alive (line 454); an exception inside finally
\* cuts that short, and leaves those not yet killed.
NobodyLeft == pc = "left" => \A f \in File : ~Alive(f)

\* A file is given up as stalled after a full timeout without a new test, however long it
\* runs; the exception is a test it started since main last looked (line 371).
StallIsSilence == pc = "dump" => fresh \/ quiet >= stall_timeout

Clean(f) ==
    /\ Told(f) = 0 /\ child[f].exit # Signal /\ child[f].fragment
    /\ suites[f] = {"results"} /\ (child[f].tests > 0 => f \in parts)

\* main returns 0 exactly when every file told it 0, was ended by no signal, its own or the
\* kill of one stuck in its teardown, and has its own results, and its profile, in the
\* report: no race of a report, a death, a timeout and the budget makes a file pass or vanish
\* (lines 407 to 448).  The code it leaves with after its report does not count (line 156).
VerdictHonest == verdict # None => (verdict = 0 <=> \A f \in File : Clean(f))

\* The outcome a reader of the report sees.
Outcome ==
    [f \in File |-> IF suites[f] = {} THEN "pending"
                    ELSE IF "unrun" \in suites[f] THEN "unrun"
                    ELSE IF f \in failed THEN "failed" ELSE "passed"]
Promise == INSTANCE SweepPromise WITH outcome <- Outcome

\* Every file is settled once and in order, whatever happens to its process (line 358).
SettledInOrder == Promise!Spec

\* Even if every process hangs, the sweep ends: each wait of main for what a process does has
\* a deadline.  Those for its exit after the end of its pipe or a SIGKILL have none (lines
\* 138, 144): that the system then reaps it is taken for granted.
Ends == <>Gone
=============================================================================
