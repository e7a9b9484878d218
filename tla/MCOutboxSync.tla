---------------------------- MODULE MCOutboxSync ----------------------------
(***************************************************************************)
(* Values of the constants of OutboxSync for TLC.                          *)
(***************************************************************************)
EXTENDS OutboxSync, TLC

CONSTANTS d1, d2

TwoDrains == {d1, d2}
Symmetry == Permutations(Drains)

Start(entries, faults) ==
  [upgraded |-> entries, allowance |-> [f \in Faults |-> IF f \in faults THEN 1 ELSE 0]]

Twice(start, fault) == [start EXCEPT !.allowance[fault] = 2]

Races    == {Twice(Start(1, {"suspend", "crash", "crash_midway"}), "answer_lost")}
Refusals == {Start(1, {"unreachable", "auth", "enrollment", "suspend"})}
Outages  == {Twice(Start(1, {"auth"}), "unreachable")}
Losses   == {Twice(Start(MaxSequence, {"crash"}), "answer_lost")}

RacesAndRefusals == Races \cup Refusals
OutagesOrLosses  == Outages \cup Losses

=============================================================================
