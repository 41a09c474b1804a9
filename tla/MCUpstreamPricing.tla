-------------------------- MODULE MCUpstreamPricing --------------------------
EXTENDS UpstreamPricing, TLC
\* One account over both groups.  An account in a single group is the case of a
\* smaller instance; what one pass does to a second account is the same write.
CONSTANT acct
MCMember == [x \in Account |-> {1, 2}]
Symmetry == Permutations(Url)
=============================================================================
