--------------------------- MODULE ExclusiveWriter ---------------------------
(***************************************************************************)
(* What the maintenance lease promises to the code that takes it, with no  *)
(* clock, no token and no row: a lock per account, a global lock that      *)
(* excludes every account lock, and facts that only a holder changes.      *)
(* FactLease implements this specification; BalanceOperation and           *)
(* TemporaryDisable are built on its operators.                            *)
(***************************************************************************)
EXTENDS Integers, FiniteSets

CONSTANTS
    Account,    \* upstream accounts, as external ids
    Worker,     \* requests, command loops and jobs that write facts
    Nobody,     \* "no holder": the lease row is free or expired
    Orphan      \* the lease is live but the process that took it has died

ASSUME ExclusiveWriterAssumption ==
    /\ Account \subseteq Nat \ {0}
    /\ IsFiniteSet(Account)
    /\ Nobody \notin Worker
    /\ Orphan \notin Worker
    /\ Nobody # Orphan

Global == 0                       \* the account id 0 of the global lease
Key    == Account \cup {Global}
Holder == Worker \cup {Nobody, Orphan}

\* The accounts whose facts a key protects, and the keys it excludes.
Covers(k)    == IF k = Global THEN Account ELSE {k}
Conflicts(k) == IF k = Global THEN Key ELSE {k, Global}

VARIABLES
    holder,     \* who holds the live lease of each key
    fact        \* fact revision of each account

abstractVars == <<holder, fact>>

AbstractTypeOK ==
    /\ holder \in [Key -> Holder]
    /\ fact \in [Account -> Nat]

AbstractInit ==
    /\ holder = [k \in Key |-> Nobody]
    /\ fact = [a \in Account |-> 0]

Free(k) == \A c \in Conflicts(k) : holder[c] = Nobody

HeldBy(w) == {k \in Key : holder[k] = w}

(***************************************************************************)
(* A free key is taken; a lease ends by release or by expiry; the death of *)
(* a process leaves its leases behind; the facts under held keys change.   *)
(***************************************************************************)
Take(w, k) ==
    /\ Free(k)
    /\ holder' = [holder EXCEPT ![k] = w]
    /\ UNCHANGED fact

Lapse(K) ==
    /\ holder' = [k \in Key |-> IF k \in K THEN Nobody ELSE holder[k]]
    /\ UNCHANGED fact

Abandon(w) ==
    /\ holder' = [k \in Key |-> IF holder[k] = w THEN Orphan ELSE holder[k]]
    /\ UNCHANGED fact

Write(w, S) ==
    /\ S \subseteq UNION {Covers(k) : k \in HeldBy(w)}
    /\ fact' = [a \in Account |-> IF a \in S THEN fact[a] + 1 ELSE fact[a]]
    /\ UNCHANGED holder

AbstractNext ==
    \/ \E w \in Worker, k \in Key : Take(w, k)
    \/ \E K \in SUBSET Key : Lapse(K)
    \/ \E w \in Worker : Abandon(w)
    \/ \E w \in Worker, S \in SUBSET Account : Write(w, S)

AbstractSpec == AbstractInit /\ [][AbstractNext]_abstractVars
=============================================================================
