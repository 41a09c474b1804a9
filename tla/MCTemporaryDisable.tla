------------------------- MODULE MCTemporaryDisable -------------------------
(* TemporaryDisable on a small instance. *)
EXTENDS TemporaryDisable

\* A schedulable account without a whitelist, and one that its owner closed,
\* with a whitelist.
TwoSettings == {[schedulable |-> TRUE, whitelist |-> {}],
                [schedulable |-> FALSE, whitelist |-> Model]}
=============================================================================
