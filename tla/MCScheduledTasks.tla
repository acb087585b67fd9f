-------------------------- MODULE MCScheduledTasks --------------------------
(* A schedule denser than the minimum interval and a one-shot.  Each       *)
(* scenario spends its bounds elsewhere: on the calls of a standalone task *)
(* or of a heartbeat, on failures, on changes of the project and session.  *)
EXTENDS ScheduledTasks

CONSTANTS c1, c2, k1, k2

MCClaims == {c1, c2}
MCCalls == {k1, k2}
Dense == {1, 2, 3, 4}
MCSchedules == {Dense, {2}}

Scenario(kind, schedules, made, failsLeft, changesLeft) ==
    /\ task.kind = kind /\ task.schedule \in schedules
    /\ \A x \in Claims \cup Calls : step[x] = "done" <=> x \in made
    /\ fails = MaxFails - failsLeft /\ changes = MaxChanges - changesLeft

MCInit ==
    /\ Init
    /\ \/ Scenario("standalone", {Dense}, {c2}, 0, 0)
       \/ Scenario("standalone", {Dense}, {k2}, 0, 1)
       \/ Scenario("standalone", {Dense}, {c2, k2}, 1, 2)
       \/ Scenario("heartbeat", MCSchedules, {c2, k2}, 0, 2)
       \/ Scenario("heartbeat", {{2}}, {k2}, 1, 1)

MCSpec == MCInit /\ [][Next]_vars /\ Fairness

=============================================================================
