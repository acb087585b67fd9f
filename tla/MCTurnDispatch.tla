---------------------------- MODULE MCTurnDispatch ----------------------------
(* Inputs of one control that meet its run in every stage, an input for another
   control that waits behind them for the only slot, and a restart. *)
EXTENDS TurnDispatch

Scenario(arriving, slots, restarts, faults, ops, controls) ==
    [arriving |-> arriving, slots |-> slots, crashes |-> restarts, faults |-> faults,
     work |-> [i \in 1 .. 3 |-> [control |-> controls[i], op |-> ops[i]]]]

\* The limit of steers, then the full channel; a slot is free all the time.
Commands == Scenario(1 .. 3, 2, 0, FALSE, <<"turn", "turn", "turn">>, <<"a", "a", "a">>)

\* An input waits for the only slot.
Waiting == Scenario(1 .. 2, 1, 0, TRUE, <<"turn", "turn", "turn">>, <<"a", "b", "b">>)

\* A stop that meets the turn, or that starts a run before the turn is reported.
Stopping(op) == Scenario(1 .. 2, 1, 0, TRUE, <<"turn", op, "turn">>, <<"a", "a", "a">>)

\* A restart between a steer and its record, with a slot for a run beside the
\* recovered one, and a restart that an idle input passes.
Restarting(slots, faults, op) ==
    Scenario(1 .. 2, slots, 1, faults, <<"turn", op, "turn">>, <<"a", "a", "a">>)

AllScenarios == {Commands, Waiting, Stopping("interrupt"), Stopping("replace"),
                 Restarting(2, TRUE, "turn"), Restarting(1, FALSE, "idle")}
OnlyReplacing == {Stopping("replace")}
=============================================================================
