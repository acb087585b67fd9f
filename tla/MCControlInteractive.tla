------------------------- MODULE MCControlInteractive -------------------------
(* Two questions, of one run or of two runs of one control: a client message
   that skips them, answers and deadlines that race, ends of runs, and
   resumptions that compete for the execution slot of the control. *)
EXTENDS ControlRuns, TLC

CONSTANTS c1, r1, r2, t1, t2, h1

MCControls     == {c1}
MCIntents      == 1..2
MCRuns         == {r1, r2}
MCTurns        == {t1, t2}
MCRequests     == 1..2
MCHandlers     == {h1}
MCControlOf    == [i \in MCIntents |-> c1]
MCOperation    == [i \in MCIntents |-> "turn_input"]
MCGenerationOf == [q \in MCRequests |-> 1]

\* Runs and turns are fresh names the specification never compares.
Symmetry == Permutations(MCRuns) \cup Permutations(MCTurns)
=============================================================================
