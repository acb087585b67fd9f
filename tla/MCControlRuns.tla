---------------------------- MODULE MCControlRuns ----------------------------
(* One control: its inputs, a stop, two runs that can displace one another,
   a crash between turn/start and the journal, concurrent terminal requests. *)
EXTENDS ControlRuns, TLC

CONSTANTS c1, r1, r2, t1, t2, h1, h2

MCControls     == {c1}
MCIntents      == 1..4
MCRuns         == {r1, r2}
MCTurns        == {t1, t2}
MCHandlers     == {h1, h2}
MCControlOf    == [i \in MCIntents |-> c1]
MCOperation    == <<"turn_input", "turn_input", "replace_last_turn", "interrupt">>
MCGenerationOf == [q \in Requests |-> 1]

\* Runs, turns and handlers are fresh names the specification never compares.
Symmetry == Permutations(MCRuns) \cup Permutations(MCTurns) \cup Permutations(MCHandlers)
=============================================================================
