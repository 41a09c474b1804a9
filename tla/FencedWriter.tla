----------------------------- MODULE FencedWriter -----------------------------
(***************************************************************************)
(* What the maintenance lease promises when a renewal may decide with a    *)
(* clock it read before it waited for the database.  Grants and writes are *)
(* those of ExclusiveWriter.  In addition the lease of a key that has run  *)
(* out may come back to the one it was last granted to, as long as nobody  *)
(* else was granted that key; then, and only then, it may coexist with a   *)
(* lease it conflicts with.                                                *)
(***************************************************************************)
EXTENDS ExclusiveWriter

VARIABLES
    granted,    \* who the last grant of each key is to; Nobody: given back
    late        \* keys whose present grant was extended after it had run out

fencedVars == <<holder, fact, granted, late>>

FencedInit ==
    /\ AbstractInit
    /\ granted = [k \in Key |-> Nobody]
    /\ late = {}

\* A free key is granted, perhaps for a time that is already over.
Grant(w, k) ==
    /\ Free(k)
    /\ holder' \in {holder, [holder EXCEPT ![k] = w]}
    /\ granted' = [granted EXCEPT ![k] = w]
    /\ late' = late \ {k}
    /\ UNCHANGED fact

Expire(K) ==
    /\ Lapse(K)
    /\ UNCHANGED <<granted, late>>

\* A grant is given back, also one that has run out.
GiveBack(w, k) ==
    /\ granted[k] = w
    /\ Lapse({k})
    /\ granted' = [granted EXCEPT ![k] = Nobody]
    /\ UNCHANGED late

Die(w) ==
    /\ Abandon(w)
    /\ granted' = [k \in Key |-> IF granted[k] = w THEN Orphan ELSE granted[k]]
    /\ UNCHANGED late

FencedWrite(w, S) ==
    /\ Write(w, S)
    /\ UNCHANGED <<granted, late>>

\* A grant that ran out comes back, whoever holds the conflicting keys.
Revive(w, k) ==
    /\ granted[k] = w
    /\ holder[k] = Nobody
    /\ holder' = [holder EXCEPT ![k] = w]
    /\ late' = late \cup {k}
    /\ UNCHANGED <<fact, granted>>

FencedNext ==
    \/ \E w \in Worker, k \in Key : Grant(w, k) \/ GiveBack(w, k) \/ Revive(w, k)
    \/ \E K \in SUBSET Key : Expire(K)
    \/ \E w \in Worker : Die(w)
    \/ \E w \in Worker, S \in SUBSET Account : FencedWrite(w, S)

FencedSpec == FencedInit /\ [][FencedNext]_fencedVars
=============================================================================
