---------------------------- MODULE BenchSweep_proofs ----------------------------
(***************************************************************************)
(* The sweep for any number of files, any prewarm and any limits: types,   *)
(* the exclusive card, nobody left behind, the meaning of a stall, and the *)
(* refinement of SweepPromise.                                             *)
(***************************************************************************)
EXTENDS BenchSweep, TLAPS

Stages == {"unborn", "importing", "waiting", "running", "ended", "reported", "dead"}
Process == [stage : Stages, tests : Nat, status : {None, 0, 1},
            exit : {None, Signal, 0, 1}, fragment : BOOLEAN]
Busy == {"topup", "wait", "look", "check", "stop", "dump", "reap"}

TypeOK ==
    /\ child \in [File -> Process]
    /\ \A f \in File : child[f].stage \in {"ended", "reported"} => child[f].exit \in {0, 1}
    /\ pc \in Busy \cup {"prewarm", "next", "finally", "unwind", "left", "died"}
    /\ index \in 0..Files /\ spawned \in 0..Files /\ current \in 0..Files
    /\ rc \in {None, Signal, 0, 1}
    /\ released \subseteq File
    /\ timer \in Nat /\ budget \in Int /\ slept \in BOOLEAN
    /\ fresh \in BOOLEAN /\ quiet \in Nat

\* The file in hand is the last one taken, and the next one is always there to take.
PlaceInv ==
    /\ index <= spawned
    /\ released \subseteq 1..index
    /\ pc \in Busy => current = index /\ index > 0
    /\ pc = "prewarm" => current = 0 /\ index = 0
    /\ pc \in (Busy \ {"topup"}) \cup {"next"} => ToppedUp

\* Who may be alive, and who may be on the card.
AliveInv ==
    /\ pc # "died" => \A f \in File : Alive(f) => f = current \/ f \in Pending
    /\ \A f \in File : OnCard(f) => f \in released \/ Gone
    /\ pc = "next" /\ current # 0 => ~Alive(current)
    /\ pc = "reap" /\ rc = Signal => ~Alive(current)
    /\ NobodyLeft

SweepInv == TypeOK /\ PlaceInv /\ AliveInv

\* Killing: who is killed is dead, the others are as before.
LEMMA KilledFact ==
    ASSUME child \in [File -> Process], NEW S
    PROVE  /\ Killed(S) \in [File -> Process]
           /\ \A f \in File : Killed(S)[f] = child[f] \/ Killed(S)[f].stage = "dead"
           /\ \A f \in File : f \in S => Killed(S)[f].stage \in {"unborn", "dead"}
<1>1. \A f \in File : f \in S /\ Alive(f) =>
        /\ [child[f] EXCEPT !.stage = "dead", !.exit = Signal] \in Process
        /\ [child[f] EXCEPT !.stage = "dead", !.exit = Signal].stage = "dead"
  BY DEF Process, Stages
<1> QED BY <1>1 DEF Killed, Alive, Process, Stages

LEMMA InitInv == Init => SweepInv
<1> SUFFICES ASSUME Init PROVE SweepInv OBVIOUS
<1>1. Unborn \in Process BY DEF Unborn, Process, Stages, None
<1>2. \A f \in File : child[f] = Unborn BY DEF Init
<1>3. TypeOK
  <2>1. \A f \in File : child[f].stage = "unborn" BY <1>2 DEF Unborn
  <2>2. child \in [File -> Process] BY <1>1 DEF Init
  <2>3. budget \in Int BY SweepAssumption DEF Init, Unlimited
  <2>4. slept \in BOOLEAN /\ fresh \in BOOLEAN BY DEF Init
  <2>5. /\ pc \in Busy \cup {"prewarm", "next", "finally", "unwind", "left", "died"}
        /\ index \in 0..Files /\ spawned \in 0..Files /\ current \in 0..Files
        /\ rc \in {None, Signal, 0, 1} /\ released \subseteq File
        /\ timer \in Nat /\ quiet \in Nat
    BY SweepAssumption DEF Init
  <2> QED BY <2>1, <2>2, <2>3, <2>4, <2>5 DEF TypeOK
<1>4. PlaceInv BY DEF Init, PlaceInv, Busy
<1>5. AliveInv BY <1>2 DEF Init, AliveInv, Alive, OnCard, NobodyLeft, Unborn, Signal, None
<1> QED BY <1>3, <1>4, <1>5 DEF SweepInv

\* What a step of a process may do to it.
ChildMove(f, r) ==
    /\ r \in Process /\ r.stage # "unborn"
    /\ r.stage \in {"running", "ended", "reported"} => OnCard(f) \/ f \in released \/ Gone
    /\ r.stage \in {"ended", "reported"} => r.exit \in {0, 1}

LEMMA ChildMoves ==
    ASSUME TypeOK, NEW f \in File, Child(f)
    PROVE  /\ Alive(f)
           /\ \E r : child' = [child EXCEPT ![f] = r] /\ ChildMove(f, r)
           /\ fresh' \in BOOLEAN /\ quiet' \in Nat
<1>0. /\ child[f] \in Process
      /\ child[f].stage \in {"ended", "reported"} => child[f].exit \in {0, 1}
      /\ fresh \in BOOLEAN /\ quiet \in Nat
  BY DEF TypeOK
<1>1. CASE Collect(f)
  <2> DEFINE r == [child[f] EXCEPT !.stage = "waiting"]
  <2>1. child' = [child EXCEPT ![f] = r] BY <1>1 DEF Collect
  <2>2. ChildMove(f, r) BY <1>0 DEF ChildMove, Process, Stages
  <2> QED BY <1>0, <1>1, <2>1, <2>2 DEF Collect, Alive, beats
<1>2. CASE Grant(f)
  <2> DEFINE r == [child[f] EXCEPT !.stage = "running"]
  <2>1. child' = [child EXCEPT ![f] = r] BY <1>2 DEF Grant
  <2>2. ChildMove(f, r) BY <1>0, <1>2 DEF ChildMove, Process, Stages, Grant
  <2> QED BY <1>0, <1>2, <2>1, <2>2 DEF Grant, Alive, Beat
<1>3. CASE StartTest(f)
  <2> DEFINE r == [child[f] EXCEPT !.tests = @ + 1]
  <2>1. child' = [child EXCEPT ![f] = r] BY <1>3 DEF StartTest
  <2>2. ChildMove(f, r) BY <1>0, <1>3 DEF ChildMove, Process, Stages, StartTest, OnCard
  <2> QED BY <1>0, <1>3, <2>1, <2>2 DEF StartTest, Alive, Beat
<1>4. CASE EndSession(f)
  <2>0. PICK code \in {0, 1}, fragment \in BOOLEAN :
           child' = [child EXCEPT ![f].stage = "ended", ![f].exit = code, ![f].fragment = fragment]
    BY <1>4 DEF EndSession
  <2> DEFINE r == [child[f] EXCEPT !.stage = "ended", !.exit = code, !.fragment = fragment]
  <2>1. child' = [child EXCEPT ![f] = r] BY <2>0
  <2>2. r \in Process /\ r.stage = "ended" /\ r.exit = code BY <1>0 DEF Process, Stages
  <2>3. ChildMove(f, r) BY <1>4, <2>2 DEF ChildMove, EndSession, OnCard
  <2> QED BY <1>0, <1>4, <2>1, <2>3 DEF EndSession, Alive, beats
<1>5. CASE Report(f)
  <2> DEFINE r == [child[f] EXCEPT !.stage = "reported", !.status = child[f].exit]
  <2>0. child[f].exit \in {0, 1} BY <1>0, <1>5 DEF Report
  <2>1. child' = [child EXCEPT ![f] = r] BY <1>5 DEF Report
  <2>2. r \in Process /\ r.stage = "reported" /\ r.exit = child[f].exit
    BY <1>0, <2>0 DEF Process, Stages
  <2>3. ChildMove(f, r) BY <1>5, <2>0, <2>2 DEF ChildMove, Report, OnCard
  <2> QED BY <1>0, <1>5, <2>1, <2>3 DEF Report, Alive, beats
<1>6. CASE Die(f)
  <2>0. PICK code \in {Signal, 0, 1} :
           child' = [child EXCEPT ![f].stage = "dead", ![f].exit = code]
    BY <1>6 DEF Die
  <2> DEFINE r == [child[f] EXCEPT !.stage = "dead", !.exit = code]
  <2>1. child' = [child EXCEPT ![f] = r] BY <2>0
  <2>2. r \in Process /\ r.stage = "dead" BY <1>0 DEF Process, Stages
  <2>3. ChildMove(f, r) BY <2>2 DEF ChildMove
  <2> QED BY <1>0, <1>6, <2>1, <2>3 DEF Die, beats
<1> QED BY <1>1, <1>2, <1>3, <1>4, <1>5, <1>6 DEF Child

LEMMA ChildStep == ASSUME SweepInv, NEW f \in File, Child(f) PROVE SweepInv'
<1> USE DEF SweepInv
<1>1. UNCHANGED <<pc, index, spawned, current, rc, released, timer, budget, slept>>
  BY DEF Child, place, times
<1>2. PICK r : child' = [child EXCEPT ![f] = r] /\ ChildMove(f, r) BY ChildMoves
<1>2a. Alive(f) /\ fresh' \in BOOLEAN /\ quiet' \in Nat BY ChildMoves
<1>2b. /\ child' \in [File -> Process] /\ child'[f] = r
       /\ \A g \in File : g # f => child'[g] = child[g]
  BY <1>2 DEF ChildMove, TypeOK
<1>3. TypeOK' BY <1>1, <1>2, <1>2a, <1>2b DEF TypeOK, ChildMove
<1>4. PlaceInv' BY <1>1 DEF PlaceInv, ToppedUp
<1>5. AliveInv'
  <2>1. \A g \in File : Alive(g)' => Alive(g) BY <1>2a, <1>2b DEF Alive
  <2>2. (\A g \in File : OnCard(g) => g \in released \/ Gone)'
    BY <1>1, <1>2, <1>2b DEF AliveInv, OnCard, Gone, ChildMove
  <2>3. pc' = pc /\ current' = current /\ rc' = rc /\ Pending' = Pending BY <1>1 DEF Pending
  <2>4. current \in 0..Files BY DEF TypeOK
  <2>5. pc = "reap" => current > 0 BY <2>4 DEF PlaceInv, Busy
  <2> QED BY <2>1, <2>2, <2>3, <2>4, <2>5, SweepAssumption DEF AliveInv, NobodyLeft, File
<1> QED BY <1>3, <1>4, <1>5

\* A step that only kills processes and moves main on, or only moves main on.
LEMMA KillStep ==
    ASSUME SweepInv, NEW S,
           child' = Killed(S) \/ UNCHANGED child,
           UNCHANGED <<index, spawned, rc, released>>,
           current' = current \/ (current' = 0 /\ child' = Killed(S) /\ current \in S)
    PROVE  /\ child' \in [File -> Process]
           /\ \A f \in File : child'[f].stage \in {"ended", "reported"} => child'[f].exit \in {0, 1}
           /\ \A f \in File : Alive(f)' => Alive(f)
           /\ \A f \in File : OnCard(f)' => OnCard(f)
           /\ child' = Killed(S) => \A f \in File : f \in S => ~Alive(f)'
           /\ pc # "died" => \A f \in File : Alive(f)' => f = current' \/ f \in Pending'
<1>1. child \in [File -> Process] BY DEF SweepInv, TypeOK
<1>2. CASE child' = Killed(S)
  <2>1. \A f \in File : child'[f] = child[f] \/ child'[f].stage = "dead" BY <1>1, <1>2, KilledFact
  <2>2. \A f \in File : f \in S => child'[f].stage \in {"unborn", "dead"} BY <1>1, <1>2, KilledFact
  <2>3. child' \in [File -> Process] BY <1>1, <1>2, KilledFact
  <2>4. \A f \in File : Alive(f)' => Alive(f) BY <2>1 DEF Alive
  <2>5. \A f \in File : f \in S => ~Alive(f)' BY <2>2 DEF Alive
  <2> QED BY <2>1, <2>3, <2>4, <2>5 DEF OnCard, SweepInv, TypeOK, AliveInv, Pending
<1>3. CASE child' # Killed(S) /\ UNCHANGED child
  BY <1>1, <1>3 DEF Alive, OnCard, SweepInv, TypeOK, AliveInv, Pending
<1> QED BY <1>2, <1>3

LEMMA MainMoves ==
    ASSUME SweepInv, NEW S,
           child' = Killed(S) \/ UNCHANGED child,
           UNCHANGED <<index, spawned, rc, released>>,
           current' = current \/ (current' = 0 /\ child' = Killed(S) /\ current \in S),
           pc # "died", ~Gone,
           pc' \in Busy \cup {"next", "finally", "unwind", "left"},
           pc' \in Busy => pc \in Busy /\ current' = current,
           pc' \in (Busy \ {"topup"}) \cup {"next"} => ToppedUp,
           pc' = "next" => current' = 0 \/ ~Alive(current)',
           pc' # "reap",
           pc' = "left" => Leftover = {} /\ UNCHANGED <<child, current>>,
           timer' \in Nat, budget' \in Int, slept' \in BOOLEAN, fresh' \in BOOLEAN, quiet' \in Nat
    PROVE  SweepInv'
<1>1. /\ child' \in [File -> Process]
      /\ \A f \in File : child'[f].stage \in {"ended", "reported"} => child'[f].exit \in {0, 1}
      /\ \A f \in File : Alive(f)' => Alive(f)
      /\ \A f \in File : OnCard(f)' => OnCard(f)
      /\ child' = Killed(S) => \A f \in File : f \in S => ~Alive(f)'
      /\ \A f \in File : Alive(f)' => f = current' \/ f \in Pending'
  BY KillStep
<1>2. TypeOK'
  <2>1. current' \in 0..Files BY SweepAssumption DEF SweepInv, TypeOK
  <2> QED BY <1>1, <2>1 DEF SweepInv, TypeOK
<1>3. PlaceInv' BY DEF SweepInv, PlaceInv, ToppedUp, Busy
<1>4. AliveInv'
  <2>1. (\A f \in File : OnCard(f) => f \in released \/ Gone)' BY <1>1 DEF SweepInv, AliveInv
  <2>2. NobodyLeft'
    <3>1. pc' = "left" => \A f \in File : ~Alive(f)'
      BY <1>1 DEF SweepInv, AliveInv, Leftover, Alive
    <3> QED BY <3>1 DEF NobodyLeft
  <2> QED BY <1>1, <2>1, <2>2 DEF AliveInv
<1> QED BY <1>2, <1>3, <1>4 DEF SweepInv

LEMMA MainStep == ASSUME SweepInv, Main PROVE SweepInv'
<1>0. /\ timer \in Nat /\ budget \in Int /\ slept \in BOOLEAN /\ fresh \in BOOLEAN /\ quiet \in Nat
      /\ stall_timeout \in Nat /\ teardown_timeout \in Nat
      /\ child \in [File -> Process]
      /\ pc \in Busy => current \in File /\ current = index
  BY SweepAssumption DEF SweepInv, TypeOK, PlaceInv, Busy, File
<1>1. CASE spawn_at
  <2> DEFINE r == [child[spawned + 1] EXCEPT !.stage = "importing"]
  <2>1. spawned + 1 \in File BY <1>1, SweepAssumption DEF spawn_at, SweepInv, TypeOK, File
  <2>2. /\ r \in Process /\ r.stage = "importing"
        /\ child' = [child EXCEPT ![spawned + 1] = r]
    BY <1>0, <1>1, <2>1 DEF spawn_at, Process, Stages
  <2>3. /\ child' \in [File -> Process]
        /\ child'[spawned + 1] = r
        /\ \A f \in File : f # spawned + 1 => child'[f] = child[f]
    BY <1>0, <2>1, <2>2
  <2>4. /\ spawned' = spawned + 1 /\ spawned' \in 0..Files
        /\ UNCHANGED <<pc, index, current, rc, released, timer, budget, slept, fresh, quiet>>
        /\ pc \in {"prewarm", "topup"}
    BY <1>1, <2>1 DEF spawn_at, times, beats, File, SweepInv, TypeOK
  <2>5. TypeOK' BY <2>2, <2>3, <2>4 DEF SweepInv, TypeOK
  <2>6. PlaceInv' BY <2>4, SweepAssumption DEF SweepInv, TypeOK, PlaceInv, Busy, ToppedUp, File
  <2>7. AliveInv'
    <3>1. \A f \in File : Alive(f)' => f = current' \/ f \in Pending'
      <4> TAKE f \in File
      <4>1. index <= spawned /\ index \in Int /\ spawned \in Int
        BY DEF SweepInv, TypeOK, PlaceInv
      <4>2. CASE f = spawned + 1 BY <2>4, <4>1, <4>2 DEF Pending
      <4>3. CASE f # spawned + 1
        <5>1. Alive(f)' => f = current \/ f \in index + 1..spawned
          BY <2>3, <2>4, <4>3 DEF SweepInv, AliveInv, Alive, Pending
        <5> QED BY <2>4, <4>1, <5>1 DEF Pending, File
      <4> QED BY <4>2, <4>3
    <3>2. \A f \in File : OnCard(f)' => OnCard(f) BY <2>2, <2>3 DEF OnCard
    <3> QED BY <2>4, <3>1, <3>2 DEF SweepInv, AliveInv, Gone, NobodyLeft
  <2> QED BY <2>5, <2>6, <2>7 DEF SweepInv
<1>2. CASE EndPrewarm
  BY <1>0, <1>2, MainMoves, KilledFact DEF EndPrewarm, place, times, beats, Gone, Busy, SweepInv, PlaceInv
<1>3. CASE NextFile
  <2>1. /\ pc = "next" /\ pc' = "topup" /\ index' = index + 1 /\ current' = index + 1
        /\ index < Files /\ ToppedUp
        /\ UNCHANGED <<child, spawned, rc, released, timer, budget, slept, fresh, quiet>>
    BY <1>3 DEF NextFile, times, beats, SweepInv, PlaceInv
  <2>2. index + 1 <= spawned BY <2>1, SweepAssumption DEF ToppedUp, SweepInv, TypeOK
  <2>3. TypeOK' BY <2>1, SweepAssumption DEF SweepInv, TypeOK, Busy
  <2>4. PlaceInv' BY <2>1, <2>2, SweepAssumption DEF SweepInv, TypeOK, PlaceInv, Busy
  <2>5. AliveInv'
    <3>1. \A f \in File : Alive(f) => f \in Pending
      BY <2>1, SweepAssumption DEF SweepInv, AliveInv, File
    <3>2. \A f \in File : f \in Pending => f = current' \/ f \in Pending'
      BY <2>1, SweepAssumption DEF Pending, SweepInv, TypeOK, File
    <3> QED BY <2>1, <3>1, <3>2 DEF SweepInv, AliveInv, Alive, OnCard, Gone, NobodyLeft
  <2> QED BY <2>3, <2>4, <2>5 DEF SweepInv
<1>4. CASE StopSweep
  BY <1>0, <1>4, MainMoves DEF StopSweep, place, times, beats, Gone, Busy
<1>5. CASE release
  <2>1. /\ pc = "topup" /\ pc' = "wait" /\ released' = released \cup {current} /\ ToppedUp
        /\ timer' = stall_timeout /\ slept' = FALSE /\ fresh' = FALSE /\ quiet' = 0
        /\ UNCHANGED <<child, index, spawned, current, rc, budget>>
    BY <1>5 DEF release
  <2>2. TypeOK'
    <3>1. slept' \in BOOLEAN /\ fresh' \in BOOLEAN BY <2>1
    <3>2. released' \subseteq File BY <1>0, <2>1 DEF SweepInv, TypeOK, Busy
    <3> QED BY <1>0, <2>1, <3>1, <3>2 DEF SweepInv, TypeOK, Busy
  <2>3. PlaceInv' BY <2>1 DEF SweepInv, TypeOK, PlaceInv, Busy, ToppedUp
  <2>4. AliveInv' BY <2>1 DEF SweepInv, AliveInv, Alive, OnCard, Gone, Pending, NobodyLeft
  <2> QED BY <2>2, <2>3, <2>4 DEF SweepInv
<1>6. CASE wait_result
  <2>1. /\ pc = "wait" /\ pc' = "reap" /\ Readable /\ timer' = teardown_timeout
        /\ rc' = Told(current)
        /\ UNCHANGED <<child, index, spawned, current, released, budget, slept, fresh, quiet>>
    BY <1>6 DEF wait_result, beats
  <2>2. child[current] \in Process BY <1>0, <2>1 DEF Busy
  <2>3. rc' \in {None, Signal, 0, 1} /\ (rc' = Signal => ~Alive(current))
    BY <2>1, <2>2 DEF Told, Process, Readable, Alive, None, Signal
  <2>4. TypeOK' BY <1>0, <2>1, <2>3 DEF SweepInv, TypeOK, Busy
  <2>5. PlaceInv' BY <2>1 DEF SweepInv, TypeOK, PlaceInv, Busy, ToppedUp
  <2>6. AliveInv' BY <2>1, <2>3 DEF SweepInv, AliveInv, Alive, OnCard, Gone, Pending, NobodyLeft
  <2> QED BY <2>4, <2>5, <2>6 DEF SweepInv
<1>7. CASE WaitTimesOut
  BY <1>0, <1>7, MainMoves DEF WaitTimesOut, place, times, beats, Gone, Busy, SweepInv, PlaceInv
<1>8. CASE Look
  BY <1>0, <1>8, MainMoves DEF Look, place, times, beats, Gone, Busy, SweepInv, PlaceInv
<1>9. CASE Check
  BY <1>0, <1>9, MainMoves DEF Check, place, times, beats, Gone, Busy, SweepInv, PlaceInv
<1>10. CASE OutOfBudget
  BY <1>0, <1>10, MainMoves DEF OutOfBudget, kill, place, times, beats, Gone, Busy
<1>11. CASE Stalled
  <2>1. child' = Killed({current}) /\ current' = current /\ current \in File
    BY <1>0, <1>11 DEF Stalled, kill, place, Busy
  <2>2. ~Alive(current)' BY <1>0, <2>1, KilledFact DEF Alive
  <2> QED BY <1>0, <1>11, <2>1, <2>2, MainMoves
          DEF Stalled, place, times, beats, Gone, Busy, SweepInv, PlaceInv
<1>12. CASE Crashed
  <2>1. ~Alive(current)' BY <1>12 DEF Crashed, place, SweepInv, AliveInv, Alive
  <2> QED BY <1>0, <1>12, <2>1, MainMoves
          DEF Crashed, place, times, beats, Gone, Busy, SweepInv, PlaceInv
<1>13. CASE Reaped
  <2>1. child' = Killed({current}) /\ current' = 0 BY <1>13 DEF Reaped, kill
  <2> QED BY <1>0, <1>13, <2>1, MainMoves DEF Reaped, times, beats, Gone, Busy, SweepInv, PlaceInv
<1>14. CASE Finally \/ Unwound
  <2>1. UNCHANGED <<child, index, spawned, current, rc, released, timer, budget, slept, fresh, quiet>>
    BY <1>14 DEF Finally, Unwound, place, times, beats
  <2>2. pc \in {"finally", "unwind"} /\ pc' = "left" /\ Leftover = {}
    BY <1>14 DEF Finally, Unwound
  <2> QED BY <1>0, <2>1, <2>2, MainMoves DEF Gone, Busy
<1>15. CASE KillLeftover
  <2>1. PICK f \in Leftover : child' = Killed({f}) BY <1>15 DEF KillLeftover, kill
  <2>2. /\ UNCHANGED <<index, spawned, current, rc, released, timer, budget, slept, fresh, quiet>>
        /\ pc \in {"finally", "unwind"} /\ pc' = pc
    BY <1>15 DEF KillLeftover, place, times, beats
  <2> QED BY <1>0, <2>1, <2>2, MainMoves DEF Gone, Busy
<1> QED BY <1>1, <1>2, <1>3, <1>4, <1>5, <1>6, <1>7, <1>8, <1>9, <1>10, <1>11, <1>12, <1>13, <1>14,
           <1>15
        DEF Main

LEMMA OtherStep ==
    ASSUME SweepInv, Raise \/ ParentKilled \/ Tick \/ UNCHANGED vars
    PROVE  SweepInv'
<1>0. /\ timer \in Nat /\ budget \in Int /\ slept \in BOOLEAN /\ fresh \in BOOLEAN /\ quiet \in Nat
      /\ stall_timeout \in Nat
  BY SweepAssumption DEF SweepInv, TypeOK
<1>1. CASE Raise /\ pc' = "unwind"
  BY <1>0, <1>1, MainMoves DEF Raise, place, times, beats, Gone, Busy
<1>2. CASE ParentKilled \/ (Raise /\ pc' = "died")
  <2>1. /\ pc' = "died"
        /\ UNCHANGED <<child, index, spawned, current, rc, released, timer, budget, slept, fresh, quiet>>
    BY <1>2 DEF ParentKilled, Raise, place, times, beats
  <2>2. TypeOK' BY <2>1 DEF SweepInv, TypeOK
  <2>3. PlaceInv' /\ AliveInv' BY <2>1 DEF SweepInv, PlaceInv, AliveInv, Busy, NobodyLeft, Gone
  <2> QED BY <2>2, <2>3 DEF SweepInv
<1>3. CASE Tick
  <2>1. /\ timer' = Less(timer) /\ budget' = Less(budget) /\ slept' = (slept \/ pc = "wait")
        /\ quiet' = IF quiet < stall_timeout THEN quiet + 1 ELSE quiet
        /\ UNCHANGED <<child, pc, index, spawned, current, rc, released, fresh>>
    BY <1>3 DEF Tick, place
  <2>2. timer' \in Nat /\ budget' \in Int /\ quiet' \in Nat BY <1>0, <2>1 DEF Less
  <2>3. slept' \in BOOLEAN BY <2>1
  <2>4. TypeOK' BY <2>1, <2>2, <2>3 DEF SweepInv, TypeOK
  <2>5. PlaceInv' BY <2>1 DEF SweepInv, PlaceInv, ToppedUp
  <2>6. AliveInv' BY <2>1 DEF SweepInv, AliveInv, Alive, OnCard, Gone, Pending, NobodyLeft
  <2> QED BY <2>4, <2>5, <2>6 DEF SweepInv
<1>4. CASE UNCHANGED vars
  <2>1. UNCHANGED <<child, pc, index, spawned, current, rc, released, timer, budget, slept, fresh, quiet>>
    BY <1>4 DEF vars, place, times, beats
  <2>2. TypeOK' /\ PlaceInv' BY <2>1 DEF SweepInv, TypeOK, PlaceInv, ToppedUp
  <2>3. AliveInv' BY <2>1 DEF SweepInv, AliveInv, Alive, OnCard, Gone, Pending, NobodyLeft
  <2> QED BY <2>2, <2>3 DEF SweepInv
<1> QED BY <1>1, <1>2, <1>3, <1>4 DEF Raise

\* The inductive invariant: whoever is alive is in hand or pending, whoever is on the card
\* was granted it, and what was granted is behind or in hand.
THEOREM SweepInvariant == Spec => []SweepInv
<1>1. SweepInv /\ [Next]_vars => SweepInv' BY ChildStep, MainStep, OtherStep DEF Next
<1> QED BY InitInv, <1>1, PTL DEF Spec

\* Types.
THEOREM TypeCorrect == Spec => []TypeOK
BY SweepInvariant, PTL DEF SweepInv

\* The card is never shared, for any number of files and of prewarmed processes.
THEOREM ExclusiveCard == Spec => []OneRuns
<1>1. SweepInv => OneRuns
  <2> SUFFICES ASSUME SweepInv, pc # "died", NEW f \in File, OnCard(f)
               PROVE  f = current /\ f \in released
    BY DEF OneRuns
  <2>1. Alive(f) BY DEF OnCard, Alive
  <2>2. f \in released BY <2>1 DEF SweepInv, AliveInv, NobodyLeft, Gone
  <2>3. f \notin Pending BY <2>2 DEF SweepInv, PlaceInv, TypeOK, Pending
  <2> QED BY <2>1, <2>2, <2>3 DEF SweepInv, AliveInv
<1> QED BY <1>1, SweepInvariant, PTL

\* However main leaves its loop, it is through with finally only when no process is alive.
THEOREM NoOrphans == Spec => []NobodyLeft
<1>1. SweepInv => NobodyLeft BY DEF SweepInv, AliveInv
<1> QED BY <1>1, SweepInvariant, PTL

-----------------------------------------------------------------------------
(* The meaning of a stall.                                                 *)

\* While main waits, the ticks left and the ticks of silence add up to the limit, unless a
\* heartbeat it has not seen is there.
SilenceInv ==
    /\ pc \in {"wait", "look", "check"} => fresh \/ timer + quiet >= stall_timeout
    /\ StallIsSilence

\* A process beats, or leaves the clock of the silence alone.
LEMMA ChildBeats ==
    ASSUME NEW f \in File, Child(f)
    PROVE  pc' = pc /\ timer' = timer /\ (fresh' = TRUE \/ (fresh' = fresh /\ quiet' = quiet))
BY DEF Child, Collect, Grant, StartTest, EndSession, Report, Die, Beat, beats, times

LEMMA SilenceStep == ASSUME SweepInv, SilenceInv, [Next]_vars PROVE SilenceInv'
<1> USE DEF SilenceInv, StallIsSilence
<1>0. timer \in Nat /\ quiet \in Nat /\ stall_timeout \in Nat /\ fresh \in BOOLEAN
  BY SweepAssumption DEF SweepInv, TypeOK
<1>1. CASE release BY <1>0, <1>1 DEF release
<1>2. CASE WaitTimesOut BY <1>0, <1>2 DEF WaitTimesOut, times, beats
<1>3. CASE Look BY <1>0, <1>3 DEF Look
<1>4. CASE Check BY <1>0, <1>4 DEF Check, beats
<1>5. CASE Tick BY <1>0, <1>5 DEF Tick, Less
<1>6. CASE \E f \in File : Child(f) BY <1>6, ChildBeats
<1>7. CASE UNCHANGED vars BY <1>7 DEF vars, times, beats
<1>8. CASE spawn_at BY <1>8 DEF spawn_at
<1>9. CASE EndPrewarm \/ NextFile \/ StopSweep \/ wait_result \/ OutOfBudget \/ Stalled
           \/ Crashed \/ Reaped \/ KillLeftover \/ Finally \/ Unwound \/ Raise \/ ParentKilled
  BY <1>9 DEF EndPrewarm, NextFile, StopSweep, wait_result, OutOfBudget, Stalled, Crashed,
              Reaped, KillLeftover, Finally, Unwound, Raise, ParentKilled
<1> QED BY <1>1, <1>2, <1>3, <1>4, <1>5, <1>6, <1>7, <1>8, <1>9 DEF Next, Main

\* Whatever the processes do and however the clock runs between two looks, a file is given
\* up as stalled only after a full timeout of silence, or with a heartbeat unseen.
THEOREM StallMeansSilence == Spec => []StallIsSilence
<1>1. Init => SilenceInv BY DEF Init, SilenceInv, StallIsSilence
<1>2. SilenceInv => StallIsSilence BY DEF SilenceInv
<1> QED BY <1>1, <1>2, SilenceStep, SweepInvariant, PTL DEF Spec

-----------------------------------------------------------------------------
(* The meaning of the verdict.                                             *)

\* What a process has left behind at every stage: it reports once, after the fragment; main
\* holds what it was told.
ProcessInv ==
    /\ \A f \in File :
         /\ child[f].stage = "unborn" <=> f > spawned
         /\ child[f].stage \in {"unborn", "importing", "waiting", "running"} => ~child[f].fragment
         /\ child[f].stage \in {"unborn", "importing", "waiting", "running", "ended"} =>
              child[f].status = None
    /\ pc = "topup" => index \notin released
    /\ pc = "reap" => Readable /\ rc = Told(current)

\* The profile in the directory is the one of the file in hand.
ProfileInv ==
    /\ profile \in 0..Files
    /\ pc # "died" =>
         /\ profile # 0 => profile = current
         /\ pc \in {"prewarm", "next", "topup"} => profile = 0
         /\ \A f \in File :
              child[f].fragment /\ child[f].tests > 0 => f \in parts \/ profile = f

\* A file whose results, or whose failure, are in the report.
Settled(f) == suites[f] # {} /\ "unrun" \notin suites[f]

\* It told main 0, no signal ended its process, and its suites are its own.
Sound(f) ==
    /\ Told(f) = 0 /\ child[f].exit # Signal /\ child[f].fragment
    /\ suites[f] = {"results"}

\* The last file main is through with.
Behind == IF pc \in Busy THEN index - 1 ELSE index

ReportInv ==
    /\ suites \in [File -> SUBSET {"results", "error", "teardown", "unrun"}]
    /\ failed \subseteq File
    /\ \A f \in File : Settled(f) => child[f].stage = "dead" /\ (f \in failed <=> ~Sound(f))
    /\ \A f \in File : Settled(f) => profile # f
    /\ \A f \in File : ~Settled(f) => f \notin failed
    /\ pc \in Busy \cup {"prewarm", "next"} =>
         \A f \in File : IF f <= Behind THEN Settled(f) ELSE suites[f] = {}
    /\ pc = "finally" \/ verdict # None => \A f \in File : suites[f] # {}
    /\ verdict # None =>
         pc = "left" /\ verdict \in {0, 1} /\ (verdict = 0 <=> failed = {} /\ Unrun = {})

VerdictInv == ProcessInv /\ ProfileInv /\ ReportInv

\* Killing leaves the dead and the unborn as they are, and of a living process only the
\* stage and the exit code change.
LEMMA KilledKeeps ==
    ASSUME child \in [File -> Process], NEW S, NEW f \in File
    PROVE  /\ ~Alive(f) => Killed(S)[f] = child[f]
           /\ Killed(S)[f] = child[f] \/ (Killed(S)[f].stage = "dead" /\ Killed(S)[f].exit = Signal)
           /\ Killed(S)[f].tests = child[f].tests
           /\ Killed(S)[f].status = child[f].status
           /\ Killed(S)[f].fragment = child[f].fragment
           /\ f \in S /\ child[f].stage # "unborn" => Killed(S)[f].stage = "dead"
<1>1. child[f] \in Process OBVIOUS
<1>2. CASE f \in S /\ Alive(f)
  <2>1. Killed(S)[f] = [child[f] EXCEPT !.stage = "dead", !.exit = Signal] BY <1>2 DEF Killed
  <2> QED BY <1>1, <1>2, <2>1 DEF Process
<1>3. CASE ~(f \in S /\ Alive(f))
  <2>1. Killed(S)[f] = child[f] BY <1>3 DEF Killed
  <2> QED BY <1>3, <2>1 DEF Alive
<1> QED BY <1>2, <1>3

LEMMA VerdictInit == Init => VerdictInv
<1> SUFFICES ASSUME Init PROVE VerdictInv OBVIOUS
<1>1. \A f \in File : child[f] = Unborn BY DEF Init
<1>2. ProcessInv BY <1>1, SweepAssumption DEF ProcessInv, Init, Unborn, File
<1>3. ProfileInv BY <1>1, SweepAssumption DEF ProfileInv, Init, Unborn, File
<1>4. \A f \in File : suites[f] = {} BY DEF Init
<1>5. suites \in [File -> SUBSET {"results", "error", "teardown", "unrun"}] BY DEF Init
<1>6. ReportInv BY <1>4, <1>5, SweepAssumption DEF ReportInv, Init, Settled, Behind, File, Busy
<1> QED BY <1>2, <1>3, <1>6 DEF VerdictInv

\* The step of one process: what it may do to itself, and that only the file in hand leaves
\* a profile.
LEMMA ChildLeaves ==
    ASSUME SweepInv, ProcessInv, NEW f \in File, Child(f)
    PROVE  /\ Alive(f)
           /\ child'[f] \in Process /\ child'[f].stage # "unborn"
           /\ \A g \in File : g # f => child'[g] = child[g]
           /\ child'[f].stage \in {"importing", "waiting", "running"} => ~child'[f].fragment
           /\ child'[f].stage \in {"importing", "waiting", "running", "ended"} =>
                child'[f].status = None
           /\ child[f].status # None => child'[f].status = child[f].status
           /\ \/ profile' = profile
                 /\ \/ child'[f].fragment = child[f].fragment
                       /\ (child'[f].tests = child[f].tests \/ ~child'[f].fragment)
                    \/ ~(child'[f].tests > 0)
              \/ profile' = f /\ OnCard(f)
<1> USE DEF ProcessInv
<1>1. child[f] \in Process BY DEF SweepInv, TypeOK
<1>2. CASE Collect(f) BY <1>1, <1>2 DEF Collect, Process, Stages, Alive
<1>3. CASE Grant(f) BY <1>1, <1>3 DEF Grant, Process, Stages, Alive
<1>4. CASE StartTest(f) BY <1>1, <1>4 DEF StartTest, Process, Stages, Alive
<1>5. CASE EndSession(f)
  <2>1. PICK code \in {0, 1}, fragment \in BOOLEAN :
           child' = [child EXCEPT ![f].stage = "ended", ![f].exit = code, ![f].fragment = fragment]
    BY <1>5 DEF EndSession
  <2>2. /\ child'[f] = [child[f] EXCEPT !.stage = "ended", !.exit = code, !.fragment = fragment]
        /\ \A g \in File : g # f => child'[g] = child[g]
    BY <2>1 DEF SweepInv, TypeOK
  <2>3. child[f].stage = "running" /\ child[f].status = None BY <1>5 DEF EndSession
  <2>4. /\ child'[f] \in Process /\ child'[f].stage = "ended" /\ child'[f].status = None
        /\ child'[f].tests = child[f].tests /\ child[f].tests \in Nat
    BY <1>1, <2>2, <2>3 DEF Process, Stages
  <2>5. \/ profile' = f
        \/ profile' = profile /\ ~(child[f].tests > 0)
    BY <1>5 DEF EndSession
  <2>6. Alive(f) /\ OnCard(f) BY <2>3 DEF Alive, OnCard
  <2> QED BY <2>2, <2>3, <2>4, <2>5, <2>6
<1>6. CASE Report(f)
  <2>1. child[f].exit \in {0, 1} /\ child[f].stage = "ended" BY <1>6 DEF Report, SweepInv, TypeOK
  <2>2. /\ child'[f] = [child[f] EXCEPT !.stage = "reported", !.status = child[f].exit]
        /\ \A g \in File : g # f => child'[g] = child[g]
        /\ profile' = profile
    BY <1>6 DEF Report, SweepInv, TypeOK
  <2>3. /\ child'[f] \in Process /\ child'[f].stage = "reported"
        /\ child'[f].status = child[f].exit /\ child'[f].exit = child[f].exit
        /\ child'[f].tests = child[f].tests /\ child'[f].fragment = child[f].fragment
    BY <1>1, <2>1, <2>2 DEF Process, Stages
  <2>4. Alive(f) /\ child[f].status = None BY <2>1 DEF Alive
  <2> QED BY <2>1, <2>2, <2>3, <2>4
<1>7. CASE Die(f)
  <2>1. PICK code \in {Signal, 0, 1} :
           child' = [child EXCEPT ![f].stage = "dead", ![f].exit = code]
    BY <1>7 DEF Die
  <2>2. /\ child'[f] = [child[f] EXCEPT !.stage = "dead", !.exit = code]
        /\ \A g \in File : g # f => child'[g] = child[g]
    BY <2>1 DEF SweepInv, TypeOK
  <2>3. /\ child'[f] \in Process /\ child'[f].stage = "dead" /\ child'[f].status = child[f].status
        /\ child'[f].tests = child[f].tests /\ child'[f].fragment = child[f].fragment
    <3>1. code \in {None, Signal, 0, 1} OBVIOUS
    <3> QED BY <1>1, <2>2, <3>1 DEF Process, Stages
  <2> QED BY <1>7, <2>2, <2>3 DEF Die
<1> QED BY <1>2, <1>3, <1>4, <1>5, <1>6, <1>7 DEF Child

LEMMA ChildVerdict ==
    ASSUME SweepInv, VerdictInv, NEW f \in File, Child(f) PROVE VerdictInv'
<1> USE DEF VerdictInv
<1>1. UNCHANGED <<pc, index, spawned, current, rc, released, suites, failed, parts, verdict>>
  BY DEF Child, place, report
<1>2. /\ Alive(f)
      /\ child'[f] \in Process /\ child'[f].stage # "unborn"
      /\ \A g \in File : g # f => child'[g] = child[g]
      /\ child'[f].stage \in {"importing", "waiting", "running"} => ~child'[f].fragment
      /\ child'[f].stage \in {"importing", "waiting", "running", "ended"} =>
           child'[f].status = None
      /\ child[f].status # None => child'[f].status = child[f].status
      /\ \/ profile' = profile
            /\ \/ child'[f].fragment = child[f].fragment
                  /\ (child'[f].tests = child[f].tests \/ ~child'[f].fragment)
               \/ ~(child'[f].tests > 0)
         \/ profile' = f /\ OnCard(f)
  BY ChildLeaves
<1>3. ProcessInv'
  <2>1. \A g \in File :
         /\ child'[g].stage = "unborn" <=> g > spawned
         /\ child'[g].stage \in {"unborn", "importing", "waiting", "running"} => ~child'[g].fragment
         /\ child'[g].stage \in {"unborn", "importing", "waiting", "running", "ended"} =>
              child'[g].status = None
    BY <1>2 DEF ProcessInv, Alive
  <2>2. pc = "reap" => Readable' /\ rc = Told(current)'
    <3> SUFFICES ASSUME pc = "reap" PROVE Readable' /\ rc = Told(current)'
      OBVIOUS
    <3>1. current \in File BY SweepAssumption DEF SweepInv, TypeOK, PlaceInv, Busy, File
    <3>2. CASE current = f BY <1>1, <1>2, <3>2 DEF ProcessInv, Readable, Told, Alive
    <3>3. CASE current # f BY <1>1, <1>2, <3>1, <3>3 DEF ProcessInv, Readable, Told
    <3> QED BY <3>2, <3>3
  <2> QED BY <1>1, <2>1, <2>2 DEF ProcessInv
<1>4. ProfileInv'
  <2>1. profile' \in 0..Files BY <1>2, SweepAssumption DEF ProfileInv, File
  <2>2. CASE pc = "died" BY <1>1, <2>1, <2>2 DEF ProfileInv
  <2>3. CASE pc # "died"
    <3>1. f = current \/ f \in Pending BY <1>2, <2>3 DEF SweepInv, AliveInv
    <3>2. OnCard(f) => f = current /\ f \in released /\ pc \notin {"prewarm", "next", "topup"}
      <4> SUFFICES ASSUME OnCard(f)
                   PROVE  f = current /\ f \in released /\ pc \notin {"prewarm", "next", "topup"}
        OBVIOUS
      <4>1. f \in released BY <1>2, <2>3 DEF SweepInv, AliveInv, NobodyLeft, Gone
      <4>2. f = current BY <3>1, <4>1 DEF Pending, SweepInv, TypeOK, PlaceInv
      <4> QED BY <1>2, <4>1, <4>2, SweepAssumption
              DEF SweepInv, AliveInv, PlaceInv, ProcessInv, Busy, File
    <3>3. (profile' # 0 => profile' = current) /\ (pc \in {"prewarm", "next", "topup"} => profile' = 0)
      BY <1>2, <2>3, <3>2 DEF ProfileInv
    <3>4. \A g \in File :
            child'[g].fragment /\ child'[g].tests > 0 => g \in parts \/ profile' = g
      <4> SUFFICES ASSUME NEW g \in File, child'[g].fragment, child'[g].tests > 0
                   PROVE  g \in parts \/ profile' = g
        OBVIOUS
      <4>1. CASE g = f BY <1>2, <2>3, <4>1 DEF ProfileInv
      <4>2. CASE g # f
        <5>1. g \in parts \/ profile = g BY <1>2, <2>3, <4>2 DEF ProfileInv
        <5>2. profile' = f /\ OnCard(f) => profile # g
          BY <2>3, <3>2, <4>2, SweepAssumption DEF ProfileInv, File
        <5> QED BY <1>2, <5>1, <5>2
      <4> QED BY <4>1, <4>2
    <3> QED BY <1>1, <2>1, <3>3, <3>4 DEF ProfileInv
  <2> QED BY <2>2, <2>3
<1>5. ReportInv'
  <2>1. ~Settled(f) BY <1>2 DEF ReportInv, Alive
  <2>2. \A g \in File : Settled(g)' <=> Settled(g) BY <1>1 DEF Settled
  <2>3. \A g \in File : Settled(g) => child'[g] = child[g] /\ Sound(g)' = Sound(g)
    BY <1>1, <1>2, <2>1 DEF Sound, Told
  <2>4. \A g \in File : Settled(g) => profile' # g BY <1>2, <2>1 DEF ReportInv
  <2>5. Behind' = Behind /\ Unrun' = Unrun BY <1>1 DEF Behind, Unrun
  <2>6. \A g \in File : Settled(g)' => child'[g].stage = "dead" /\ (g \in failed' <=> ~Sound(g)')
    BY <1>1, <2>2, <2>3 DEF ReportInv
  <2> QED BY <1>1, <2>2, <2>4, <2>5, <2>6 DEF ReportInv
<1> QED BY <1>3, <1>4, <1>5

\* Steps of main that kill, or only move on.
LEMMA KillProcess ==
    ASSUME SweepInv, ProcessInv, NEW S, child' = Killed(S) \/ UNCHANGED child,
           spawned' = spawned, pc' \notin {"topup", "reap"}
    PROVE  ProcessInv'
<1>1. child \in [File -> Process] BY DEF SweepInv, TypeOK
<1>2. \A f \in File : /\ child'[f] = child[f] \/ (child'[f].stage = "dead" /\ child'[f].exit = Signal)
                      /\ ~Alive(f) => child'[f] = child[f]
                      /\ child'[f].status = child[f].status
                      /\ child'[f].fragment = child[f].fragment
  BY <1>1, KilledKeeps
<1>3. \A f \in File : child[f].stage = "unborn" => child'[f] = child[f] BY <1>2 DEF Alive
<1> QED BY <1>2, <1>3 DEF ProcessInv

LEMMA KillProfile ==
    ASSUME SweepInv, ProfileInv, NEW S, child' = Killed(S) \/ UNCHANGED child, pc # "died",
           \/ UNCHANGED <<profile, parts, current>> /\ pc' \notin {"prewarm", "topup"}
              /\ (pc' = "next" => profile = 0)
           \/ _absorb_profile_log
    PROVE  ProfileInv'
<1>1. child \in [File -> Process] BY DEF SweepInv, TypeOK
<1>2. \A f \in File : /\ child'[f].tests = child[f].tests
                      /\ child'[f].fragment = child[f].fragment
  BY <1>1, KilledKeeps
<1>3. CASE UNCHANGED <<profile, parts, current>> /\ pc' \notin {"prewarm", "topup"}
           /\ (pc' = "next" => profile = 0)
  BY <1>2, <1>3 DEF ProfileInv
<1>4. CASE _absorb_profile_log
  BY <1>2, <1>4, SweepAssumption DEF ProfileInv, _absorb_profile_log, File
<1> QED BY <1>3, <1>4

LEMMA QuietVerdict ==
    ASSUME SweepInv, VerdictInv, NEW S, child' = Killed(S) \/ UNCHANGED child,
           UNCHANGED <<index, spawned, current, released, profile, report>>,
           \/ /\ pc' \in {"wait", "look", "check", "stop", "dump"}
              /\ pc \in {"wait", "look", "check"}
           \/ pc' = "next" /\ pc = "prewarm"
           \/ pc' \in {"left", "died", "unwind"} /\ ~Gone
           \/ pc' = pc /\ pc = "finally"
    PROVE  VerdictInv'
<1> USE DEF VerdictInv
<1>0. /\ pc # "died" /\ pc # "left" /\ pc' \notin {"topup", "reap", "prewarm"}
      /\ pc' = "finally" => pc = "finally"
      /\ pc' = "next" => pc = "prewarm"
      /\ UNCHANGED <<suites, failed, parts, verdict>>
  BY DEF Gone, report
<1>1. ProcessInv' BY <1>0, KillProcess
<1>2. ProfileInv' BY <1>0, KillProfile DEF ProfileInv
<1>3. ReportInv'
  <2>1. \A f \in File : Settled(f) => child'[f] = child[f]
    BY KilledKeeps DEF ReportInv, Alive, SweepInv, TypeOK
  <2>2. \A f \in File : /\ Settled(f)' <=> Settled(f)
                        /\ Settled(f) => Sound(f)' = Sound(f)
    BY <1>0, <2>1 DEF Settled, Sound, Told
  <2>3. verdict = None BY <1>0 DEF ReportInv
  <2>4. pc' \in Busy \cup {"prewarm", "next"} =>
          pc \in Busy \cup {"prewarm", "next"} /\ Behind' = Behind
    BY <1>0 DEF Behind, Busy
  <2> QED BY <1>0, <2>1, <2>2, <2>3, <2>4 DEF ReportInv
<1> QED BY <1>1, <1>2, <1>3

\* The file in hand is settled.
LEMMA SettleVerdict ==
    ASSUME SweepInv, VerdictInv, pc \in {"dump", "reap"}, pc' = "next", NEW c, c = current,
           child' = Killed({c}) \/ UNCHANGED child,
           UNCHANGED <<index, spawned, released, verdict>>, current' \in {0, c},
           _absorb_profile_log,
           NEW X, X \subseteq {"results", "error", "teardown"}, X # {},
           suites' = [suites EXCEPT ![c] = X],
           failed' \in {failed, failed \cup {c}},
           child'[c].stage = "dead",
           c \in failed' <=> ~Sound(c)'
    PROVE  VerdictInv'
<1> USE DEF VerdictInv
<1>0. c \in File /\ c = index BY SweepAssumption DEF SweepInv, TypeOK, PlaceInv, Busy, File
<1>1. ProcessInv' BY KillProcess
<1>2. ProfileInv' BY KillProfile
<1>3. ReportInv'
  <2>1. suites' \in [File -> SUBSET {"results", "error", "teardown", "unrun"}]
    BY <1>0 DEF ReportInv
  <2>2. suites'[c] = X /\ \A f \in File : f # c => suites'[f] = suites[f]
    BY <1>0 DEF ReportInv
  <2>3. Settled(c)' BY <2>2 DEF Settled
  <2>4. \A f \in File : f # c => (Settled(f)' <=> Settled(f)) BY <2>2 DEF Settled
  <2>5. \A f \in File : f # c => f \in failed' <=> f \in failed OBVIOUS
  <2>6. \A f \in File : Settled(f) => child'[f] = child[f]
    BY KilledKeeps DEF ReportInv, Alive, SweepInv, TypeOK
  <2>7. \A f \in File : f # c /\ Settled(f) => Sound(f)' = Sound(f)
    BY <2>2, <2>6 DEF Sound, Told
  <2>8. profile' = 0 BY DEF _absorb_profile_log
  <2>9. pc \in Busy /\ Behind = index - 1 /\ Behind' = index BY DEF Busy, Behind
  <2>10. \A f \in File : IF f <= Behind' THEN Settled(f)' ELSE suites'[f] = {}
    <3> TAKE f \in File
    <3>1. f < index \/ f = index \/ f > index BY DEF File, SweepInv, TypeOK
    <3>2. IF f <= Behind THEN Settled(f) ELSE suites[f] = {} BY <2>9 DEF ReportInv
    <3> QED BY <1>0, <2>2, <2>3, <2>4, <2>9, <3>1, <3>2 DEF File, SweepInv, TypeOK
  <2>11. verdict' = None BY DEF ReportInv
  <2>12. failed' \subseteq File BY <1>0 DEF ReportInv
  <2>13. \A f \in File :
           /\ Settled(f)' => child'[f].stage = "dead" /\ (f \in failed' <=> ~Sound(f)')
           /\ Settled(f)' => profile' # f
           /\ ~Settled(f)' => f \notin failed'
    BY <2>3, <2>4, <2>5, <2>6, <2>7, <2>8 DEF ReportInv, File
  <2> QED BY <2>1, <2>10, <2>11, <2>12, <2>13 DEF ReportInv
<1> QED BY <1>1, <1>2, <1>3

\* The files not run are named, all of them.
LEMMA UnrunVerdict ==
    ASSUME SweepInv, VerdictInv, pc \in {"next", "stop"}, pc' = "finally",
           child' = Killed({current}) \/ UNCHANGED child,
           UNCHANGED <<index, spawned, current, released, failed, profile, parts, verdict>>,
           unrun(Behind + 1)
    PROVE  VerdictInv'
<1> USE DEF VerdictInv
<1>1. ProcessInv' BY KillProcess
<1>2. ProfileInv' BY KillProfile
<1>3. ReportInv'
  <2>0. Behind \in Int BY DEF Behind, SweepInv, TypeOK
  <2>1. \A f \in File : suites'[f] = IF f >= Behind + 1 THEN suites[f] \cup {"unrun"} ELSE suites[f]
    BY DEF unrun
  <2>2. suites' \in [File -> SUBSET {"results", "error", "teardown", "unrun"}]
    BY DEF unrun, ReportInv
  <2>3. \A f \in File : IF f <= Behind THEN Settled(f) ELSE suites[f] = {}
    BY DEF ReportInv, Busy
  <2>4. \A f \in File : f <= Behind <=> ~(f >= Behind + 1) BY <2>0 DEF File
  <2>5. \A f \in File : Settled(f)' <=> Settled(f) BY <2>1, <2>3, <2>4 DEF Settled
  <2>6. \A f \in File : Settled(f) => suites'[f] = suites[f] BY <2>1, <2>3, <2>4 DEF Settled
  <2>7. \A f \in File : Settled(f) => child'[f] = child[f]
    BY KilledKeeps DEF ReportInv, Alive, SweepInv, TypeOK
  <2>8. \A f \in File : Settled(f) => Sound(f)' = Sound(f) BY <2>6, <2>7 DEF Sound, Told
  <2>9. \A f \in File : suites'[f] # {} BY <2>1, <2>3, <2>4 DEF Settled
  <2>10. verdict' = None BY DEF ReportInv
  <2> QED BY <2>2, <2>5, <2>7, <2>8, <2>9, <2>10 DEF ReportInv, Busy
<1> QED BY <1>1, <1>2, <1>3

LEMMA ReapedSound ==
    ASSUME SweepInv, VerdictInv, Reaped, NEW c, c = current
    PROVE  /\ child'[c].stage = "dead"
           /\ c \in failed' <=> ~Sound(c)'
<1> USE DEF VerdictInv
<1>0. c \in File /\ c = index /\ pc = "reap" /\ child \in [File -> Process]
  BY SweepAssumption DEF SweepInv, TypeOK, PlaceInv, Busy, File, Reaped
<1>1. child[c] \in Process /\ child[c].stage # "unborn"
  BY <1>0 DEF ProcessInv, SweepInv, PlaceInv, TypeOK
<1>2. child' = Killed({c}) BY DEF Reaped, kill
<1>3. /\ child'[c].stage = "dead"
      /\ ~Alive(c) => child'[c] = child[c]
      /\ child'[c].status = child[c].status
      /\ child'[c].fragment = child[c].fragment
  BY <1>0, <1>1, <1>2, KilledKeeps
<1>4. suites[c] = {} /\ c \notin failed
  <2>1. suites[c] = {} BY <1>0 DEF ReportInv, Busy, Behind, SweepInv, TypeOK
  <2> QED BY <1>0, <2>1 DEF ReportInv, Settled
<1> DEFINE outcome == IF child[c].fragment THEN "results" ELSE "error"
<1>5. /\ suites'[c] = {outcome} \cup IF Anomaly THEN {"teardown"} ELSE {}
      /\ c \in failed' <=> Anomaly \/ rc # 0 \/ outcome = "error"
  BY <1>0, <1>4 DEF Reaped, ReportInv
<1>6. suites'[c] = {"results"} <=> ~Anomaly /\ child[c].fragment BY <1>5
<1>7. CASE Anomaly BY <1>3, <1>5, <1>6, <1>7 DEF Sound, Told
<1>8. CASE ~Anomaly
  <2>1. child[c].stage = "dead" /\ child[c].exit # Signal BY <1>8 DEF Anomaly
  <2>2. child'[c] = child[c] BY <1>3, <2>1 DEF Alive
  <2>3. rc = Told(c) BY <1>0 DEF ProcessInv
  <2>4. Sound(c)' <=> Told(c) = 0 /\ child[c].fragment
    BY <1>6, <1>8, <2>1, <2>2 DEF Sound, Told
  <2>5. c \in failed' <=> rc # 0 \/ ~child[c].fragment
    <3>1. outcome = "error" <=> ~child[c].fragment OBVIOUS
    <3> QED BY <1>5, <1>8, <3>1
  <2> QED BY <1>3, <2>3, <2>4, <2>5
<1> QED BY <1>7, <1>8

LEMMA MainVerdict == ASSUME SweepInv, VerdictInv, Main PROVE VerdictInv'
<1>0. /\ pc \in Busy => current \in File /\ current = index
      /\ child \in [File -> Process]
      /\ index \in 0..Files /\ spawned \in 0..Files
  BY SweepAssumption DEF SweepInv, TypeOK, PlaceInv, Busy, File
<1>1. PICK c : c = current OBVIOUS
<1>2. CASE spawn_at
  <2>1. /\ spawned + 1 \in File /\ pc \in {"prewarm", "topup"} /\ spawned' = spawned + 1
        /\ UNCHANGED <<pc, index, current, rc, released, profile, suites, failed, parts, verdict>>
        /\ child' = [child EXCEPT ![spawned + 1].stage = "importing"]
    BY <1>0, <1>2, SweepAssumption DEF spawn_at, File, report
  <2>2. child[spawned + 1] \in Process /\ child[spawned + 1].stage = "unborn"
    BY <1>0, <2>1 DEF VerdictInv, ProcessInv
  <2>3. /\ child'[spawned + 1] = [child[spawned + 1] EXCEPT !.stage = "importing"]
        /\ \A f \in File : f # spawned + 1 => child'[f] = child[f]
    BY <1>0, <2>1
  <2>4. /\ child'[spawned + 1].stage = "importing"
        /\ child'[spawned + 1].status = None /\ child[spawned + 1].status = None
        /\ ~child'[spawned + 1].fragment
    BY <2>1, <2>2, <2>3 DEF Process, VerdictInv, ProcessInv
  <2>5. ProcessInv'
    <3>1. \A f \in File :
           /\ child'[f].stage = "unborn" <=> f > spawned'
           /\ child'[f].stage \in {"unborn", "importing", "waiting", "running"} => ~child'[f].fragment
           /\ child'[f].stage \in {"unborn", "importing", "waiting", "running", "ended"} =>
                child'[f].status = None
      <4> TAKE f \in File
      <4>1. CASE f = spawned + 1 BY <1>0, <2>1, <2>4, <4>1
      <4>2. CASE f # spawned + 1
        <5>1. f > spawned' <=> f > spawned BY <1>0, <2>1, <4>2 DEF File
        <5> QED BY <2>3, <4>2, <5>1 DEF VerdictInv, ProcessInv
      <4> QED BY <4>1, <4>2
    <3> QED BY <2>1, <3>1 DEF VerdictInv, ProcessInv
  <2>6. ProfileInv'
    <3>1. \A f \in File :
            child'[f].fragment /\ child'[f].tests > 0 => f \in parts \/ profile = f
      BY <2>1, <2>3, <2>4 DEF VerdictInv, ProfileInv
    <3> QED BY <2>1, <3>1 DEF VerdictInv, ProfileInv
  <2>7. ReportInv'
    <3>1. \A f \in File : Settled(f) => f # spawned + 1 BY <2>2 DEF VerdictInv, ReportInv
    <3>2. \A f \in File : Settled(f) => child'[f] = child[f] /\ Sound(f)' = Sound(f)
      BY <2>1, <2>3, <3>1 DEF Sound, Told
    <3>3. \A f \in File : Settled(f)' <=> Settled(f) BY <2>1 DEF Settled
    <3>4. Behind' = Behind /\ Unrun' = Unrun BY <2>1 DEF Behind, Unrun
    <3>5. \A f \in File : Settled(f)' => child'[f].stage = "dead" /\ (f \in failed' <=> ~Sound(f)')
      BY <2>1, <3>2, <3>3 DEF VerdictInv, ReportInv
    <3> QED BY <2>1, <3>3, <3>4, <3>5 DEF VerdictInv, ReportInv
  <2> QED BY <2>5, <2>6, <2>7 DEF VerdictInv
<1>3. CASE EndPrewarm
  <2>1. child' = Killed({}) BY <1>0, <1>3 DEF EndPrewarm, Killed
  <2> QED BY <1>3, <2>1, QuietVerdict DEF EndPrewarm, place
<1>4. CASE NextFile \/ release
  <2>1. /\ UNCHANGED <<child, spawned, rc, profile, suites, failed, parts, verdict>>
        /\ \/ /\ pc = "next" /\ pc' = "topup" /\ index' = index + 1 /\ current' = index + 1
              /\ UNCHANGED released
           \/ /\ pc = "topup" /\ pc' = "wait" /\ UNCHANGED <<index, current>>
    BY <1>4 DEF NextFile, release, report
  <2>2. ProcessInv'
    BY <1>0, <2>1 DEF SweepInv, PlaceInv, VerdictInv, ProcessInv
  <2>3. ProfileInv' BY <2>1 DEF VerdictInv, ProfileInv
  <2>4. ReportInv'
    <3>1. \A f \in File : (Settled(f)' <=> Settled(f)) /\ (Sound(f)' <=> Sound(f))
      BY <2>1 DEF Settled, Sound, Told
    <3>2. Behind' = Behind /\ Unrun' = Unrun BY <1>0, <2>1 DEF Behind, Unrun, Busy
    <3>3. /\ pc \in Busy \cup {"prewarm", "next"} /\ pc \notin {"left"}
          /\ pc' \notin {"finally", "left"}
      BY <2>1 DEF Busy
    <3> QED BY <2>1, <3>1, <3>2, <3>3 DEF VerdictInv, ReportInv
  <2> QED BY <2>2, <2>3, <2>4 DEF VerdictInv
<1>5. CASE StopSweep
  <2>1. Behind = index /\ Files \in Nat BY <1>5, SweepAssumption DEF StopSweep, Behind, Busy
  <2> QED BY <1>1, <1>5, <2>1, UnrunVerdict DEF StopSweep, place
<1>6. CASE wait_result
  <2>1. /\ pc = "wait" /\ pc' = "reap" /\ Readable
        /\ rc' = Told(current)
        /\ UNCHANGED <<child, index, spawned, current, released, profile, suites, failed, parts,
                       verdict>>
    BY <1>6 DEF wait_result, report
  <2>2. ProcessInv' BY <2>1 DEF VerdictInv, ProcessInv, Readable, Told
  <2>3. ProfileInv' BY <2>1 DEF VerdictInv, ProfileInv
  <2>4. ReportInv'
    <3>1. \A f \in File : (Settled(f)' <=> Settled(f)) /\ (Sound(f)' <=> Sound(f))
      BY <2>1 DEF Settled, Sound, Told
    <3>2. Behind' = Behind /\ Unrun' = Unrun BY <2>1 DEF Behind, Unrun, Busy
    <3> QED BY <2>1, <3>1, <3>2 DEF VerdictInv, ReportInv, Busy
  <2> QED BY <2>2, <2>3, <2>4 DEF VerdictInv
<1>7. CASE WaitTimesOut \/ Look \/ Check
  <2>1. child' = Killed({}) BY <1>0, <1>7 DEF WaitTimesOut, Look, Check, Killed
  <2>2. /\ pc \in {"wait", "look", "check"} /\ pc' \in {"wait", "look", "check", "stop", "dump"}
        /\ UNCHANGED <<index, spawned, current, released, profile, report>>
    BY <1>7 DEF WaitTimesOut, Look, Check, place
  <2> QED BY <2>1, <2>2, QuietVerdict
<1>8. CASE OutOfBudget
  <2>1. Behind + 1 = index BY <1>0, <1>8 DEF OutOfBudget, Behind, Busy
  <2> QED BY <1>0, <1>8, <2>1, UnrunVerdict DEF OutOfBudget, kill, place, Busy
<1>9. CASE Stalled \/ Crashed
  <2>1. c \in File /\ pc \in {"dump", "reap"} /\ pc' = "next"
    BY <1>0, <1>1, <1>9 DEF Stalled, Crashed, Busy
  <2>2. /\ child' = Killed({c}) \/ UNCHANGED child
        /\ suites' = [suites EXCEPT ![c] = @ \cup {"error"}] /\ failed' = failed \cup {c}
        /\ _absorb_profile_log
        /\ UNCHANGED <<index, spawned, current, released, verdict>>
    BY <1>1, <1>9 DEF Stalled, Crashed, kill, _synthetic_suite, mark_failed, place
  <2>3. suites[c] = {}
    BY <1>0, <1>1, <2>1 DEF VerdictInv, ReportInv, Busy, Behind
  <2>4. suites' = [suites EXCEPT ![c] = {"error"}] /\ suites'[c] = {"error"}
    BY <2>1, <2>2, <2>3 DEF VerdictInv, ReportInv
  <2>5. child'[c].stage = "dead"
    <3>1. child[c].stage # "unborn"
      BY <1>0, <1>1, <2>1 DEF VerdictInv, ProcessInv, SweepInv, PlaceInv, Busy
    <3>2. CASE child' = Killed({c}) BY <1>0, <2>1, <3>1, <3>2, KilledKeeps
    <3>3. CASE Crashed
      BY <1>0, <1>1, <2>1, <3>1, <3>3 DEF Crashed, SweepInv, AliveInv, Alive
    <3> QED BY <1>1, <1>9, <3>2, <3>3 DEF Stalled, kill
  <2>6. ~Sound(c)' BY <2>4 DEF Sound, Told
  <2> HIDE <1>1
  <2> QED BY <1>1, <2>1, <2>2, <2>4, <2>5, <2>6, SettleVerdict
<1>10. CASE Reaped
  <2>1. child'[c].stage = "dead" /\ (c \in failed' <=> ~Sound(c)') BY <1>1, <1>10, ReapedSound
  <2>2. c \in File /\ pc = "reap" /\ pc' = "next" BY <1>0, <1>1, <1>10 DEF Reaped, Busy
  <2> DEFINE outcome == IF child[c].fragment THEN "results" ELSE "error"
             X == {outcome} \cup IF Anomaly THEN {"teardown"} ELSE {}
  <2>3. suites[c] = {}
    BY <1>0, <1>1, <2>2 DEF VerdictInv, ReportInv, Busy, Behind
  <2>4. suites' = [suites EXCEPT ![c] = X]
    BY <1>1, <1>10, <2>2, <2>3 DEF Reaped, VerdictInv, ReportInv
  <2>5. /\ failed' \in {failed, failed \cup {c}} /\ child' = Killed({c})
        /\ _absorb_profile_log /\ current' = 0
        /\ UNCHANGED <<index, spawned, released, verdict>>
    BY <1>1, <1>10 DEF Reaped, kill
  <2>6. X \subseteq {"results", "error", "teardown"} /\ X # {} OBVIOUS
  <2> HIDE DEF X
  <2> QED BY <1>1, <2>1, <2>2, <2>4, <2>5, <2>6, SettleVerdict
<1>11. CASE Finally
  <2>1. /\ pc = "finally" /\ pc' = "left"
        /\ verdict' = IF failed = {} /\ Unrun = {} THEN 0 ELSE 1
        /\ UNCHANGED <<child, index, spawned, current, released, profile, suites, failed, parts>>
    BY <1>11 DEF Finally, place
  <2>2. ProcessInv' /\ ProfileInv' BY <2>1 DEF VerdictInv, ProcessInv, ProfileInv
  <2>3. ReportInv'
    <3>1. \A f \in File : (Settled(f)' <=> Settled(f)) /\ Sound(f)' = Sound(f)
      BY <2>1 DEF Settled, Sound, Told
    <3>2. Unrun' = Unrun BY <2>1 DEF Unrun
    <3>3. verdict' \in {0, 1} /\ (verdict' = 0 <=> failed' = {} /\ Unrun' = {})
      BY <2>1, <3>2
    <3>4. pc' \notin Busy \cup {"prewarm", "next"} BY <2>1 DEF Busy
    <3> QED BY <2>1, <3>1, <3>3, <3>4 DEF VerdictInv, ReportInv
  <2> QED BY <2>2, <2>3 DEF VerdictInv
<1>12. CASE KillLeftover
  <2>1. PICK f \in Leftover : child' = Killed({f}) BY <1>12 DEF KillLeftover, kill
  <2>2. /\ pc \in {"finally", "unwind"} /\ pc' = pc
        /\ UNCHANGED <<index, spawned, current, released, profile, report>>
    BY <1>12 DEF KillLeftover, place
  <2> QED BY <2>1, <2>2, QuietVerdict DEF Gone
<1>13. CASE Unwound
  BY <1>13, QuietVerdict DEF Unwound, place, Gone
<1> QED BY <1>2, <1>3, <1>4, <1>5, <1>6, <1>7, <1>8, <1>9, <1>10, <1>11, <1>12, <1>13 DEF Main

LEMMA OtherVerdict ==
    ASSUME SweepInv, VerdictInv, Raise \/ ParentKilled \/ Tick \/ UNCHANGED vars
    PROVE  VerdictInv'
<1>1. CASE Raise \/ ParentKilled
  BY <1>1, QuietVerdict DEF Raise, ParentKilled, place
<1>2. CASE Tick \/ UNCHANGED vars
  <2>1. UNCHANGED <<child, pc, index, spawned, current, rc, released, profile, suites, failed,
                    parts, verdict>>
    BY <1>2 DEF Tick, vars, place, report
  <2>2. ProcessInv' /\ ProfileInv' BY <2>1 DEF VerdictInv, ProcessInv, ProfileInv, Readable, Told
  <2>3. ReportInv'
    <3>1. \A f \in File : (Settled(f)' <=> Settled(f)) /\ (Sound(f)' <=> Sound(f))
      BY <2>1 DEF Settled, Sound, Told
    <3>2. Behind' = Behind /\ Unrun' = Unrun BY <2>1 DEF Behind, Unrun
    <3> QED BY <2>1, <3>1, <3>2 DEF VerdictInv, ReportInv
  <2> QED BY <2>2, <2>3 DEF VerdictInv
<1> QED BY <1>1, <1>2

\* The inductive invariant of the report: a settled file has a dead process, and is failed
\* unless that told main 0, was ended by no signal and left its results; the profile in the
\* directory is that of the file in hand; a process has no status before its fragment.
THEOREM ReportInvariant == Spec => []VerdictInv
<1>1. SweepInv /\ VerdictInv /\ [Next]_vars => VerdictInv'
  BY ChildVerdict, MainVerdict, OtherVerdict DEF Next
<1> QED BY VerdictInit, <1>1, SweepInvariant, PTL DEF Spec

LEMMA VerdictFact == ASSUME SweepInv, VerdictInv PROVE VerdictHonest
<1> SUFFICES ASSUME verdict # None PROVE verdict = 0 <=> \A f \in File : Clean(f)
  BY DEF VerdictHonest
<1> USE DEF VerdictInv
<1>1. /\ verdict = 0 <=> failed = {} /\ Unrun = {}
      /\ \A f \in File : suites[f] # {}
      /\ pc = "left"
  BY DEF ReportInv
<1>2. \A f \in File : Settled(f) <=> f \notin Unrun BY <1>1 DEF Settled, Unrun
<1>3. ASSUME NEW f \in File PROVE Clean(f) <=> Settled(f) /\ f \notin failed
  <2>1. CASE Settled(f)
    <3>1. f \notin failed <=> Sound(f) BY <2>1 DEF ReportInv
    <3>2. child[f].fragment /\ child[f].tests > 0 => f \in parts
      BY <1>1, <2>1 DEF ReportInv, ProfileInv
    <3> QED BY <2>1, <3>1, <3>2 DEF Clean, Sound
  <2>2. CASE ~Settled(f)
    <3>1. "unrun" \in suites[f] BY <1>1, <2>2 DEF Settled
    <3> QED BY <2>2, <3>1 DEF Clean
  <2> QED BY <2>1, <2>2
<1>4. (failed = {} /\ Unrun = {}) <=> \A f \in File : f \notin Unrun /\ f \notin failed
  BY DEF ReportInv, Unrun
<1> QED BY <1>1, <1>2, <1>3, <1>4

\* The exit status of the sweep is the truth about what its processes told it and about the
\* signals that ended them, for any number of files, any prewarm and any limits.
THEOREM HonestVerdict == Spec => []VerdictHonest
BY ReportInvariant, SweepInvariant, VerdictFact, PTL

-----------------------------------------------------------------------------
(* The sweep keeps the promise.                                            *)

LEMMA OutcomeSame ==
    ASSUME UNCHANGED <<suites, failed, verdict>> PROVE UNCHANGED <<Outcome, verdict>>
BY DEF Outcome

\* What main writes into the report of the file in hand is an outcome of its own, and no
\* file before it is pending.
LEMMA SettleOutcome ==
    ASSUME SweepInv, VerdictInv, Stalled \/ Crashed \/ Reaped
    PROVE  Promise!Settle
<1>0. /\ pc \in {"dump", "reap"} /\ pc \in Busy /\ Behind = current - 1
      /\ current \in File /\ index \in Int
      /\ suites \in [File -> SUBSET {"results", "error", "teardown", "unrun"}]
  BY SweepAssumption DEF SweepInv, TypeOK, PlaceInv, Busy, File, Behind, Stalled, Crashed, Reaped,
                         VerdictInv, ReportInv
<1>1. PICK c : c = current OBVIOUS
<1>2. \A f \in File : IF f <= c - 1 THEN Settled(f) ELSE suites[f] = {}
  BY <1>0, <1>1 DEF VerdictInv, ReportInv
<1>3. \A f \in File : Outcome[f] = "pending" <=> f > c - 1
  BY <1>0, <1>1, <1>2 DEF Outcome, Settled, File
<1>4. c \in File /\ Outcome[c] = "pending" /\ (\A f \in File : Outcome[f] = "pending" => c <= f)
  BY <1>0, <1>1, <1>3 DEF File
<1>5. \E X : /\ suites' = [suites EXCEPT ![c] = X] /\ X # {} /\ "unrun" \notin X
             /\ failed' \in {failed, failed \cup {c}} /\ verdict' = verdict
  <2>1. suites[c] = {} BY <1>0, <1>1, <1>2 DEF File
  <2>2. CASE Stalled \/ Crashed
    <3>1. suites' = [suites EXCEPT ![c] = {"error"}]
      BY <1>0, <1>1, <2>1, <2>2 DEF Stalled, Crashed, _synthetic_suite
    <3> QED BY <1>1, <2>2, <3>1 DEF Stalled, Crashed, _synthetic_suite, mark_failed
  <2>3. CASE Reaped
    <3> DEFINE outcome == IF child[c].fragment THEN "results" ELSE "error"
               X == {outcome} \cup IF Anomaly THEN {"teardown"} ELSE {}
    <3>1. suites' = [suites EXCEPT ![c] = X] BY <1>0, <1>1, <2>1, <2>3 DEF Reaped
    <3>2. X # {} /\ "unrun" \notin X OBVIOUS
    <3>3. failed' \in {failed, failed \cup {c}} /\ verdict' = verdict
      BY <1>1, <2>3 DEF Reaped
    <3> QED BY <3>1, <3>2, <3>3
  <2> QED BY <2>2, <2>3
<1>6. PICK X : /\ suites' = [suites EXCEPT ![c] = X] /\ X # {} /\ "unrun" \notin X
               /\ failed' \in {failed, failed \cup {c}} /\ verdict' = verdict
  BY <1>5
<1> DEFINE result == IF c \in failed' THEN "failed" ELSE "passed"
<1>7. Outcome' = [Outcome EXCEPT ![c] = result]
  <2>1. suites'[c] = X /\ \A f \in File : f # c => suites'[f] = suites[f]
    BY <1>0, <1>4, <1>6
  <2>2. \A f \in File : f # c => (f \in failed' <=> f \in failed) BY <1>6
  <2>3. ASSUME NEW f \in File PROVE Outcome'[f] = [Outcome EXCEPT ![c] = result][f]
    BY <1>6, <2>1, <2>2 DEF Outcome
  <2>4. DOMAIN Outcome' = File /\ DOMAIN Outcome = File BY DEF Outcome
  <2> QED BY <2>3, <2>4 DEF Outcome
<1>8. result \in {"passed", "failed"} OBVIOUS
<1> HIDE DEF result
<1> QED BY <1>4, <1>6, <1>7, <1>8 DEF Promise!Settle, Promise!Pending, Promise!File, File

LEMMA UnrunOutcome ==
    ASSUME SweepInv, VerdictInv, StopSweep \/ OutOfBudget
    PROVE  Promise!GiveUp
<1>1. /\ pc \in Busy \cup {"next"} /\ Behind \in Int
      /\ suites' = [g \in File |-> IF g >= Behind + 1 THEN suites[g] \cup {"unrun"} ELSE suites[g]]
      /\ UNCHANGED <<failed, verdict>>
  BY DEF StopSweep, OutOfBudget, unrun, Behind, Busy, SweepInv, TypeOK, PlaceInv
<1>2. \A f \in File : IF f <= Behind THEN Settled(f) ELSE suites[f] = {}
  BY <1>1 DEF VerdictInv, ReportInv
<1>3. \A f \in File : f <= Behind <=> ~(f >= Behind + 1) BY <1>1 DEF File
<1>4. ASSUME NEW f \in File
      PROVE  Outcome'[f] = IF Outcome[f] = "pending" THEN "unrun" ELSE Outcome[f]
  BY <1>1, <1>2, <1>3 DEF Outcome, Settled
<1>5. Outcome' = [f \in File |-> IF Outcome[f] = "pending" THEN "unrun" ELSE Outcome[f]]
  BY <1>4 DEF Outcome
<1> QED BY <1>1, <1>5 DEF Promise!GiveUp, Promise!Pending, Promise!File, File

LEMMA EndOutcome ==
    ASSUME SweepInv, VerdictInv, Finally
    PROVE  Promise!End
<1>1. /\ pc = "finally" /\ UNCHANGED <<suites, failed>>
      /\ verdict' = IF failed = {} /\ Unrun = {} THEN 0 ELSE 1
  BY DEF Finally
<1>2. \A f \in File : suites[f] # {} BY <1>1 DEF VerdictInv, ReportInv
<1>3. verdict = None BY <1>1 DEF VerdictInv, ReportInv
<1>4. \A f \in File : Outcome[f] = "passed" <=> f \notin failed /\ f \notin Unrun
  BY <1>2 DEF Outcome, Unrun
<1>5. failed \subseteq File /\ Unrun \subseteq File BY DEF VerdictInv, ReportInv, Unrun
<1>6. (failed = {} /\ Unrun = {}) <=> \A f \in File : Outcome[f] = "passed" BY <1>4, <1>5
<1>7. \A f \in File : Outcome[f] # "pending" BY <1>2 DEF Outcome
<1>8. UNCHANGED Outcome BY <1>1 DEF Outcome
<1> QED BY <1>1, <1>3, <1>6, <1>7, <1>8 DEF Promise!End, Promise!Pending, Promise!File, File

LEMMA PromiseStep ==
    ASSUME SweepInv, VerdictInv, [Next]_vars
    PROVE  \/ Promise!Settle \/ Promise!GiveUp \/ Promise!End
           \/ UNCHANGED <<Outcome, verdict>>
<1>1. CASE Stalled \/ Crashed \/ Reaped BY <1>1, SettleOutcome
<1>2. CASE StopSweep \/ OutOfBudget BY <1>2, UnrunOutcome
<1>3. CASE Finally BY <1>3, EndOutcome
<1>4. CASE spawn_at \/ EndPrewarm \/ NextFile \/ release \/ wait_result \/ WaitTimesOut \/ Look \/ Check
           \/ KillLeftover \/ Unwound
  BY <1>4, OutcomeSame
     DEF spawn_at, EndPrewarm, NextFile, release, wait_result, WaitTimesOut, Look, Check,
         KillLeftover, Unwound, report
<1>5. CASE Raise \/ ParentKilled \/ Tick \/ (\E f \in File : Child(f)) \/ UNCHANGED vars
  BY <1>5, OutcomeSame DEF Raise, ParentKilled, Tick, Child, vars, report
<1> QED BY <1>1, <1>2, <1>3, <1>4, <1>5 DEF Next, Main

LEMMA PromiseInit == Init => Promise!Init
<1> SUFFICES ASSUME Init PROVE Promise!Init OBVIOUS
<1>1. Outcome = [f \in File |-> "pending"] BY DEF Init, Outcome
<1> QED BY <1>1 DEF Init, Promise!Init, Promise!File, File

\* The sweep implements what a reader of the report may rely on: every file is settled once
\* and in order, and the verdict is drawn when none is pending.
THEOREM SweepKeepsPromise == Spec => SettledInOrder
BY PromiseInit, PromiseStep, SweepInvariant, ReportInvariant, PTL
   DEF Spec, SettledInOrder, Promise!Spec
=============================================================================
