------------------------------- MODULE EventLog -------------------------------
(***************************************************************************)
(* What the relay of run events promises to whoever reads them at Control: *)
(* a log that only grows, holds nothing the runtime did not report, keeps  *)
(* the order of the reports and numbers its entries 1, 2, 3, ...           *)
(***************************************************************************)
EXTENDS Integers

VARIABLES
    reported,       \* how many events the runtime has reported
    stored          \* the entries [seq, event] Control shows

Numbered(entries) ==
    \A x \in entries : \A s \in 1..x.seq : \E y \in entries : y.seq = s

InOrder(entries) ==
    \A x, y \in entries : x.seq < y.seq <=> x.event < y.event

Genuine(entries) == \A x \in entries : x.event \in 1..reported

Init == reported = 0 /\ stored = {}

Report ==
    /\ reported' = reported + 1
    /\ UNCHANGED stored

Store ==
    /\ stored \subseteq stored'
    /\ \A x \in stored' \ stored, y \in stored : y.seq < x.seq
    /\ Numbered(stored') /\ InOrder(stored') /\ Genuine(stored')
    /\ UNCHANGED reported

Next == Report \/ Store

Spec == Init /\ [][Next]_<<reported, stored>>
===============================================================================
