------------------------- MODULE MCBalanceOperation -------------------------
(* BalanceOperation on small instances. *)
EXTENDS BalanceOperation, TLC

CONSTANTS p1, p2

\* An account pays for both participants, or for one of them only.
MovingContracts == {[p \in Participant |-> IF p = p1 THEN {1, 2} ELSE {2}],
                    [p \in Participant |-> IF p = p1 THEN {1} ELSE {2}]}

\* Both participants are paid for by the accounts of one pool.
SharedContracts == {[p \in Participant |-> {1, 2}]}

WorkerSymmetry == Permutations(Worker)
=============================================================================
