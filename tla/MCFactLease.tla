----------------------------- MODULE MCFactLease -----------------------------
(* FactLease on small instances. *)
EXTENDS FactLease, TLC

WorkerSymmetry == Permutations(Worker)
=============================================================================
