--------------------------- MODULE FactLeaseProofs ---------------------------
(***************************************************************************)
(* Theorems about FactLease for every set of accounts and workers, every   *)
(* lease duration and every bound.                                         *)
(*                                                                         *)
(* All of them hold whatever the clock lags of acquire() and renew() are.  *)
(* A renewal that decides with a clock older than its UPDATE may bring an  *)
(* expired lease back; the ghost revived says which leases these are, and  *)
(* the theorems say that nothing else goes wrong, and nothing before.      *)
(***************************************************************************)
EXTENDS FactLease, TLAPS

-----------------------------------------------------------------------------
(* Type correctness *)

LEMMA InitType == Init => TypeOK
BY FactLeaseAssumption DEF Init, TypeOK, Row, Key, Global

LEMMA ClockType ==
    ASSUME now \in Nat, NEW lag \in Nat, NEW t \in ReadClock(lag)
    PROVE  t \in Nat /\ t <= now /\ (lag = 0 => t = now)
BY DEF ReadClock

LEMMA EndJobType ==
    ASSUME TypeOK, NEW w \in Worker, EndJob(w)
    PROVE  /\ pc' \in [Worker -> {"idle", "acquiring", "holding", "releasing"}]
           /\ want' \in [Worker -> SUBSET Key]
           /\ seen' \in [Worker -> [Account -> Nat]]
BY DEF TypeOK, EndJob

\* Every step of the lease protocol keeps the types.
LEMMA NextType == TypeOK /\ [Next]_vars => TypeOK'
<1> SUFFICES ASSUME TypeOK, [Next]_vars PROVE TypeOK'
    OBVIOUS
<1>1. ASSUME NEW w \in Worker, Start(w) PROVE TypeOK'
    BY <1>1, FactLeaseAssumption DEF Start, TypeOK, Wanted, Key, Global
<1>2. ASSUME NEW w \in Worker, Acquire(w) PROVE TypeOK'
  <2>1. PICK k \in Missing(w), t \in ReadClock(AcquireLag) :
            /\ row' = [row EXCEPT ![k] = Granted(@, w, t + Ttl)]
            /\ guard' = [guard EXCEPT ![w][k] = row[k].token + 1]
            /\ seen' = [seen EXCEPT ![w] = [a \in Account |->
                        IF a \in Covers(k) THEN row[a].revision ELSE seen[w][a]]]
            /\ pc' = [pc EXCEPT ![w] = IF Missing(w) = {k} THEN "holding" ELSE "acquiring"]
            /\ orphan' = orphan \ {k}
            /\ revived' = revived \ {k}
      BY <1>2 DEF Acquire
  <2>2. k \in Key /\ t \in Nat
      BY ClockType, FactLeaseAssumption DEF TypeOK, Missing
  <2>3. t + Ttl \in Nat
      BY <2>2, FactLeaseAssumption
  <2>4. row' \in [Key -> Row]
    <3>1. Granted(row[k], w, t + Ttl) \in Row
        BY <2>2, <2>3 DEF TypeOK, Row, Granted
    <3>2. QED
        BY <2>1, <2>2, <3>1 DEF TypeOK
  <2>5. guard' \in [Worker -> [Key -> Nat]]
      BY <2>1, <2>2 DEF TypeOK, Row
  <2>6. seen' \in [Worker -> [Account -> Nat]]
    <3>1. \A a \in Account : row[a].revision \in Nat /\ seen[w][a] \in Nat
        BY DEF TypeOK, Row, Key
    <3>2. QED
        BY <2>1, <3>1 DEF TypeOK
  <2>7. QED
      BY <1>2, <2>1, <2>4, <2>5, <2>6 DEF Acquire, TypeOK
<1>3. ASSUME NEW w \in Worker, AcquireBusy(w) PROVE TypeOK'
    BY <1>3, EndJobType DEF AcquireBusy, TypeOK
<1>4. ASSUME NEW w \in Worker, NEW k \in Key, Renew(w, k) PROVE TypeOK'
  <2>1. PICK t \in ReadClock(RenewLag) :
            /\ row' = [row EXCEPT ![k].expires = t + Ttl]
            /\ revived' = revived \cup {m \in {k} : ~Live(m, now) /\ t + Ttl > now}
      BY <1>4 DEF Renew
  <2>2. t + Ttl \in Nat
      BY <2>1, ClockType, FactLeaseAssumption DEF TypeOK
  <2>3. row' \in [Key -> Row]
      BY <2>1, <2>2, ZenonT(40) DEF TypeOK, Row
  <2>4. revived' \in SUBSET Key
      BY <2>1 DEF TypeOK
  <2>5. QED
      BY <1>4, <2>3, <2>4 DEF Renew, TypeOK
<1>5. ASSUME NEW w \in Worker, Commit(w) PROVE TypeOK'
  <2> DEFINE S == UNION {Covers(k) : k \in Guards(w)}
  <2>1. row' = [k \in Key |-> IF k \in S THEN Bumped(row[k]) ELSE row[k]]
      BY <1>5 DEF Commit
  <2>2. row' \in [Key -> Row]
    <3>1. ASSUME NEW r \in Row PROVE Bumped(r) \in Row
        BY DEF Row, Bumped
    <3>2. \A k \in Key : row[k] \in Row /\ Bumped(row[k]) \in Row
        BY <3>1 DEF TypeOK
    <3>3. QED
        BY <2>1, <3>2
  <2>3. \A a \in Account : row[a].revision + 1 \in Nat /\ seen[w][a] \in Nat
      BY DEF TypeOK, Row, Key
  <2>4. seen' \in [Worker -> [Account -> Nat]]
      BY <1>5, <2>3 DEF Commit, TypeOK
  <2>5. QED
      BY <1>5, <2>2, <2>4 DEF Commit, TypeOK
<1>6. ASSUME NEW w \in Worker, Release(w) PROVE TypeOK'
  <2>1. PICK k \in Guards(w) :
            /\ row' = IF Matches(w, k)
                      THEN [row EXCEPT ![k] = Released(@)]
                      ELSE row
            /\ guard' = [guard EXCEPT ![w][k] = 0]
            /\ IF Guards(w) = {k} THEN EndJob(w)
               ELSE pc' = [pc EXCEPT ![w] = "releasing"] /\ UNCHANGED <<want, seen>>
      BY <1>6 DEF Release
  <2>2. row' \in [Key -> Row] /\ guard' \in [Worker -> [Key -> Nat]]
    <3>1. k \in Key
        BY DEF Guards
    <3>2. Released(row[k]) \in Row
        BY <3>1, ZenonT(40) DEF TypeOK, Row, Released
    <3>3. row' \in [Key -> Row]
        BY <2>1, <3>1, <3>2 DEF TypeOK
    <3>4. QED
        BY <2>1, <3>3 DEF TypeOK
  <2>3. QED
      BY <1>6, <2>1, <2>2, EndJobType DEF Release, TypeOK
<1>7. ASSUME NEW w \in Worker, Crash(w) PROVE TypeOK'
    BY <1>7, EndJobType DEF Crash, TypeOK, Guards
<1>8. CASE Tick
    BY <1>8 DEF Tick, TypeOK
<1>9. CASE UNCHANGED vars
    BY <1>9 DEF vars, TypeOK
<1>10. QED
    BY <1>1, <1>2, <1>3, <1>4, <1>5, <1>6, <1>7, <1>8, <1>9 DEF Next

\* The rows, guards and counters stay well-typed in every reachable state.
THEOREM TypeCorrect == Spec => []TypeOK
BY InitType, NextType, PTL DEF Spec

-----------------------------------------------------------------------------
(* No lease leaks *)

LEMMA InitHolder == Init => LeaseHasHolder
BY FactLeaseAssumption DEF Init, LeaseHasHolder

\* Give-up, release and death never leave an owner without a guard behind it.
LEMMA NextHolder == TypeOK /\ LeaseHasHolder /\ [Next]_vars => LeaseHasHolder'
<1> SUFFICES ASSUME TypeOK, LeaseHasHolder, [Next]_vars,
                    NEW v \in Worker, NEW m \in Key, row'[m].owner = v
             PROVE  guard'[v][m] = row'[m].token \/ m \in orphan'
    BY DEF LeaseHasHolder
<1>a. row[m] \in Row /\ v # NoOwner
    BY FactLeaseAssumption DEF TypeOK
<1>b. row[m].owner = v => guard[v][m] = row[m].token \/ m \in orphan
    BY DEF LeaseHasHolder
<1>1. ASSUME UNCHANGED <<row, guard, orphan>>
      PROVE  guard'[v][m] = row'[m].token \/ m \in orphan'
    BY <1>1, <1>b
<1>2. ASSUME NEW w \in Worker, Start(w) \/ AcquireBusy(w)
      PROVE  UNCHANGED <<row, guard, orphan>>
    BY <1>2 DEF Start, AcquireBusy
<1>3. ASSUME NEW w \in Worker, Acquire(w)
      PROVE  guard'[v][m] = row'[m].token \/ m \in orphan'
  <2>1. PICK k \in Missing(w), t \in ReadClock(AcquireLag) :
            /\ row' = [row EXCEPT ![k] = Granted(@, w, t + Ttl)]
            /\ guard' = [guard EXCEPT ![w][k] = row[k].token + 1]
            /\ orphan' = orphan \ {k}
      BY <1>3 DEF Acquire
  <2>2. k \in Key
      BY DEF TypeOK, Missing
  <2>3. CASE m = k
    <3>1. row'[k].owner = w /\ row'[k].token = row[k].token + 1
        BY <2>1, <2>2 DEF TypeOK, Granted
    <3>2. guard'[w][k] = row[k].token + 1
        BY <2>1, <2>2 DEF TypeOK
    <3>3. QED
        BY <2>3, <3>1, <3>2
  <2>4. CASE m # k
      BY <2>1, <2>2, <2>4, <1>b DEF TypeOK
  <2>5. QED
      BY <2>3, <2>4
<1>4. ASSUME NEW w \in Worker, NEW k \in Key, Renew(w, k)
      PROVE  guard'[v][m] = row'[m].token \/ m \in orphan'
  <2>1. row'[m].owner = row[m].owner /\ row'[m].token = row[m].token
      BY <1>4 DEF Renew, TypeOK, Row
  <2>2. QED
      BY <2>1, <1>4, <1>b DEF Renew
<1>5. ASSUME NEW w \in Worker, Commit(w)
      PROVE  guard'[v][m] = row'[m].token \/ m \in orphan'
  <2>1. row'[m].owner = row[m].owner /\ row'[m].token = row[m].token
      BY <1>5, <1>a DEF Commit, Bumped, Row
  <2>2. QED
      BY <2>1, <1>5, <1>b DEF Commit
<1>6. ASSUME NEW w \in Worker, Release(w)
      PROVE  guard'[v][m] = row'[m].token \/ m \in orphan'
  <2>1. PICK k \in Guards(w) :
            /\ row' = IF Matches(w, k) THEN [row EXCEPT ![k] = Released(@)] ELSE row
            /\ guard' = [guard EXCEPT ![w][k] = 0]
            /\ orphan' = orphan
      BY <1>6 DEF Release
  <2>2. k \in Key
      BY DEF Guards
  <2>3. CASE m = k /\ Matches(w, k)
    <3>1. row'[m].owner = NoOwner
        BY <2>1, <2>2, <2>3, <1>a DEF TypeOK, Row, Released
    <3>2. QED
        BY <3>1, <1>a
  <2>4. CASE m = k /\ ~Matches(w, k)
    <3>1. row'[m] = row[m]
        BY <2>1, <2>4
    <3>2. CASE v = w
        BY <2>1, <2>4, <3>1, <3>2, <1>b DEF Matches
    <3>3. CASE v # w
        BY <2>1, <2>2, <3>1, <3>3, <1>b DEF TypeOK
    <3>4. QED
        BY <3>2, <3>3
  <2>5. CASE m # k
    <3>1. row'[m] = row[m] /\ guard'[v][m] = guard[v][m]
        BY <2>1, <2>2, <2>5 DEF TypeOK
    <3>2. QED
        BY <2>1, <3>1, <1>b
  <2>6. QED
      BY <2>3, <2>4, <2>5
<1>7. ASSUME NEW w \in Worker, Crash(w)
      PROVE  guard'[v][m] = row'[m].token \/ m \in orphan'
  <2>1. CASE v = w
    <3>1. CASE m \in Guards(w)
        BY <1>7, <2>1, <3>1, <1>b DEF Crash, Matches
    <3>2. CASE m \notin Guards(w)
        BY <1>7, <2>1, <3>2, <1>b DEF Crash, Guards, TypeOK
    <3>3. QED
        BY <3>1, <3>2
  <2>2. CASE v # w
      BY <1>7, <2>2, <1>b DEF Crash, TypeOK
  <2>3. QED
      BY <2>1, <2>2
<1>8. CASE Tick
    BY <1>8, <1>1 DEF Tick
<1>9. CASE UNCHANGED vars
    BY <1>9, <1>1 DEF vars
<1>10. QED
    BY <1>1, <1>2, <1>3, <1>4, <1>5, <1>6, <1>7, <1>8, <1>9 DEF Next

\* Whatever the interleaving, an owned row has a guard or a dead owner.
THEOREM NoLeaseLeaks == Spec => []LeaseHasHolder
<1>1. TypeOK /\ LeaseHasHolder /\ [Next]_vars => (TypeOK /\ LeaseHasHolder)'
    BY NextType, NextHolder
<1>2. QED
    BY InitType, InitHolder, <1>1, PTL DEF Spec

-----------------------------------------------------------------------------
(* One scope at a time *)

\* The live rows after a step, by the kind of step: a grant adds its key, a
\* renewal adds only a key that it revives, every other step removes some.
LEMMA LiveAfterStep ==
    ASSUME TypeOK, [Next]_vars, NEW m \in Key,
           Live(m, now)', ~Live(m, now), m \notin revived'
    PROVE  \E t \in Nat : /\ t <= now
                         /\ now' = now
                         /\ ~Busy(m, t)
                         /\ \A o \in Key \ {m} : row'[o] = row[o]
<1> DEFINE Goal == \E t \in Nat : /\ t <= now
                                 /\ now' = now
                                 /\ ~Busy(m, t)
                                 /\ \A o \in Key \ {m} : row'[o] = row[o]
<1>a. row[m] \in Row /\ now \in Nat
    BY DEF TypeOK
<1>b. row'[m].owner # NoOwner /\ row'[m].expires > now'
    BY DEF Live
<1>0. ASSUME row'[m].owner = row[m].owner, row'[m].expires = row[m].expires,
             now' = now \/ now' = now + 1
      PROVE  FALSE
    BY <1>0, <1>a, <1>b DEF Live, Row
<1>1. ASSUME NEW w \in Worker, Start(w) \/ AcquireBusy(w) \/ Crash(w)
      PROVE  Goal
    BY <1>0, <1>1 DEF Start, AcquireBusy, Crash
<1>2. ASSUME NEW w \in Worker, Acquire(w)
      PROVE  Goal
  <2>1. PICK k \in Missing(w), t \in ReadClock(AcquireLag) :
            /\ ~Busy(k, t)
            /\ row' = [row EXCEPT ![k] = Granted(@, w, t + Ttl)]
      BY <1>2 DEF Acquire
  <2>2. t \in Nat /\ t <= now /\ now' = now
      BY <1>2, ClockType, FactLeaseAssumption DEF TypeOK, Acquire
  <2>3. CASE m = k
      BY <2>1, <2>2, <2>3 DEF TypeOK
  <2>4. CASE m # k
      BY <1>0, <2>1, <2>2, <2>4 DEF TypeOK
  <2>5. QED
      BY <2>3, <2>4
<1>3. ASSUME NEW w \in Worker, NEW k \in Key, Renew(w, k)
      PROVE  Goal
  <2>1. PICK t \in ReadClock(RenewLag) :
            /\ row' = [row EXCEPT ![k].expires = t + Ttl]
            /\ revived' = revived \cup {o \in {k} : ~Live(o, now) /\ t + Ttl > now}
      BY <1>3 DEF Renew
  <2>2. now' = now
      BY <1>3 DEF Renew
  <2>3. m = k => row'[m].expires = t + Ttl
      BY <2>1 DEF TypeOK, Row
  <2>4. m # k
      BY <1>b, <2>1, <2>2, <2>3
  <2>5. row'[m] = row[m] /\ now' = now
      BY <1>3, <2>1, <2>4 DEF TypeOK, Renew
  <2>6. QED
      BY <1>0, <2>5
<1>4. ASSUME NEW w \in Worker, Commit(w)
      PROVE  Goal
  <2>1. row'[m].owner = row[m].owner /\ row'[m].expires = row[m].expires /\ now' = now
      BY <1>4, <1>a DEF Commit, Bumped, Row
  <2>2. QED
      BY <1>0, <2>1
<1>5. ASSUME NEW w \in Worker, Release(w)
      PROVE  Goal
  <2>1. PICK k \in Guards(w) :
            row' = IF Matches(w, k) THEN [row EXCEPT ![k] = Released(@)] ELSE row
      BY <1>5 DEF Release
  <2>2. k \in Key /\ now' = now
      BY <1>5 DEF Guards, Release
  <2>3. CASE m = k /\ Matches(w, k)
    <3>1. row'[m].owner = NoOwner
        BY <2>1, <2>2, <2>3, <1>a DEF TypeOK, Row, Released
    <3>2. QED
        BY <3>1, <1>b
  <2>4. CASE m # k \/ ~Matches(w, k)
    <3>1. row'[m] = row[m]
        BY <2>1, <2>2, <2>4 DEF TypeOK
    <3>2. QED
        BY <1>0, <2>2, <3>1
  <2>5. QED
      BY <2>3, <2>4
<1>6. CASE Tick
    BY <1>0, <1>6 DEF Tick
<1>7. CASE UNCHANGED vars
    BY <1>0, <1>7 DEF vars
<1>8. QED
    BY <1>1, <1>2, <1>3, <1>4, <1>5, <1>6, <1>7 DEF Next

\* A key ceases to be revived only by a new grant of it, to an acquire that
\* found nothing busy.
LEMMA RevivedDropped ==
    ASSUME TypeOK, [Next]_vars, NEW j \in revived, j \notin revived'
    PROVE  \E t \in Nat : t <= now /\ ~Busy(j, t)
<1>1. PICK w \in Worker : Acquire(w)
    BY DEF Next, vars, Start, AcquireBusy, Renew, Commit, Release, Crash, Tick
<1>2. PICK k \in Missing(w), t \in ReadClock(AcquireLag) :
          ~Busy(k, t) /\ revived' = revived \ {k}
    BY <1>1 DEF Acquire
<1>3. t \in Nat /\ t <= now
    BY ClockType, FactLeaseAssumption DEF TypeOK
<1>4. QED
    BY <1>2, <1>3

\* A lease that is live now was live for every earlier clock: it keeps its own
\* key and the keys of the other scope busy.
LEMMA LiveIsBusy ==
    ASSUME TypeOK, NEW a \in Account, NEW m \in {Global, a}, NEW j \in {Global, a},
           Live(m, now), NEW t \in Nat, t <= now
    PROVE  Busy(j, t)
<1>1. m \in Key /\ row[m] \in Row /\ now \in Nat /\ a # Global
    BY FactLeaseAssumption DEF TypeOK, Key, Global
<1>2. Live(m, t)
    BY <1>1 DEF Live, Row
<1>3. QED
    BY <1>1, <1>2 DEF Busy

\* While a lease under the keys of an account is live, none of them ceases to
\* be revived.
LEMMA RevivedStays ==
    ASSUME TypeOK, [Next]_vars, NEW a \in Account, NEW m \in {Global, a},
           Live(m, now), Unrevived(a)'
    PROVE  Unrevived(a)
<1>1. SUFFICES ASSUME NEW j \in {Global, a}, j \in revived PROVE FALSE
    BY DEF Unrevived
<1>2. PICK t \in Nat : t <= now /\ ~Busy(j, t)
    BY <1>1, RevivedDropped DEF Unrevived
<1>3. QED
    BY <1>1, <1>2, LiveIsBusy

LEMMA InitScope == Init => ScopeExclusion
BY FactLeaseAssumption DEF Init, ScopeExclusion, Live, Key, Global

LEMMA NextScope ==
    ASSUME TypeOK, ScopeExclusion, [Next]_vars
    PROVE  ScopeExclusion'
<1> SUFFICES ASSUME NEW a \in Account, Live(Global, now)', Live(a, now)', Unrevived(a)'
             PROVE  FALSE
    BY DEF ScopeExclusion
<1>0. Global \notin revived' /\ a \notin revived'
    BY DEF Unrevived
<1>1. Global \in Key /\ a \in Key /\ a # Global
    BY FactLeaseAssumption DEF Key, Global
<1>2. now \in Nat /\ row[Global] \in Row /\ row[a] \in Row
    BY <1>1 DEF TypeOK
<1>3. CASE ~Live(Global, now)
  <2>1. PICK t \in Nat : /\ t <= now /\ now' = now /\ ~Busy(Global, t)
                         /\ \A o \in Key \ {Global} : row'[o] = row[o]
      BY <1>0, <1>1, <1>3, LiveAfterStep
  <2>2. ~Live(a, t)
      BY <2>1 DEF Busy
  <2>3. row'[a] = row[a]
      BY <1>1, <2>1
  <2>4. QED
      BY <1>2, <2>1, <2>2, <2>3 DEF Live, Row
<1>4. CASE ~Live(a, now)
  <2>1. PICK t \in Nat : /\ t <= now /\ now' = now /\ ~Busy(a, t)
                         /\ \A o \in Key \ {a} : row'[o] = row[o]
      BY <1>0, <1>1, <1>4, LiveAfterStep
  <2>2. ~Live(Global, t)
      BY <1>1, <2>1 DEF Busy
  <2>3. row'[Global] = row[Global]
      BY <1>1, <2>1
  <2>4. QED
      BY <1>2, <2>1, <2>2, <2>3 DEF Live, Row
<1>5. CASE Live(Global, now) /\ Live(a, now)
    BY <1>5, RevivedStays DEF ScopeExclusion
<1>6. QED
    BY <1>3, <1>4, <1>5

\* A live global lease and a live account lease never coexist, however jobs
\* stall, die or expire and however old the clocks are that they decide with,
\* unless one of the two had expired and was then renewed.
THEOREM GlobalExcludesAccounts == Spec => []ScopeExclusion
<1>1. TypeOK /\ ScopeExclusion /\ [Next]_vars => (TypeOK /\ ScopeExclusion)'
    BY NextType, NextScope
<1>2. QED
    BY InitType, InitScope, <1>1, PTL DEF Spec

-----------------------------------------------------------------------------
(* Reads stay current *)

\* A guard that is owned after a step was owned before it, with the same
\* token, or was granted by the step, or was revived by it.
LEMMA OwnedBefore ==
    ASSUME TypeOK, [Next]_vars, NEW v \in Worker, NEW m \in Key,
           m \in Guards(v)', Owned(v, m, now)', m \notin revived'
    PROVE  \/ m \in Guards(v) /\ Owned(v, m, now)
           \/ \A a \in Covers(m) : seen'[v][a] = row'[a].revision
<1> DEFINE Same == row'[m].owner = row[m].owner /\ row'[m].token = row[m].token
                   /\ row'[m].expires = row[m].expires
           Kept == m \in Guards(v) /\ Owned(v, m, now)
<1>a. row[m] \in Row /\ now \in Nat /\ guard[v] \in [Key -> Nat]
    BY DEF TypeOK
<1>b. guard'[v][m] # 0 /\ row'[m].owner = v /\ row'[m].token = guard'[v][m]
      /\ row'[m].expires > now'
    BY DEF Guards, Owned, Matches
<1>0. ASSUME Same, guard'[v][m] = guard[v][m], now' = now \/ now' = now + 1
      PROVE  Kept
    BY <1>0, <1>a, <1>b DEF Guards, Owned, Matches, Row
<1>1. ASSUME NEW w \in Worker, Start(w) \/ AcquireBusy(w)
      PROVE  Kept
    BY <1>0, <1>1 DEF Start, AcquireBusy
<1>2. ASSUME NEW w \in Worker, Acquire(w)
      PROVE  Kept \/ \A a \in Covers(m) : seen'[v][a] = row'[a].revision
  <2>1. PICK k \in Missing(w), t \in ReadClock(AcquireLag) :
            /\ row' = [row EXCEPT ![k] = Granted(@, w, t + Ttl)]
            /\ guard' = [guard EXCEPT ![w][k] = row[k].token + 1]
            /\ seen' = [seen EXCEPT ![w] = [a \in Account |->
                        IF a \in Covers(k) THEN row[a].revision ELSE seen[w][a]]]
      BY <1>2 DEF Acquire
  <2>2. k \in Key /\ now' = now
      BY <1>2 DEF TypeOK, Missing, Acquire
  <2>3. CASE m = k
    <3>1. v = w
        BY <1>b, <2>1, <2>2, <2>3 DEF TypeOK, Granted
    <3>2. ASSUME NEW a \in Covers(m) PROVE seen'[v][a] = row'[a].revision
      <4>1. a \in Account /\ a \in Key
          BY <2>2, <2>3 DEF Covers, Key
      <4>2. seen'[v][a] = row[a].revision
          BY <2>1, <2>3, <3>1, <3>2, <4>1 DEF TypeOK
      <4>3. row'[a].revision = row[a].revision
          BY <2>1, <2>2, <4>1 DEF TypeOK, Granted
      <4>4. QED
          BY <4>2, <4>3
    <3>3. QED
        BY <3>2
  <2>4. CASE m # k
    <3>1. Same /\ guard'[v][m] = guard[v][m]
        BY <2>1, <2>2, <2>4 DEF TypeOK
    <3>2. QED
        BY <1>0, <2>2, <3>1
  <2>5. QED
      BY <2>3, <2>4
<1>3. ASSUME NEW w \in Worker, NEW k \in Key, Renew(w, k)
      PROVE  Kept
  <2>1. PICK t \in ReadClock(RenewLag) :
            /\ row' = [row EXCEPT ![k].expires = t + Ttl]
            /\ revived' = revived \cup {o \in {k} : ~Live(o, now) /\ t + Ttl > now}
      BY <1>3 DEF Renew
  <2>2. guard' = guard /\ now' = now
      BY <1>3 DEF Renew
  <2>3. CASE m = k
    <3>1. row'[m].owner = row[m].owner /\ row'[m].token = row[m].token
          /\ row'[m].expires = t + Ttl
        BY <2>1, <2>3 DEF TypeOK, Row
    <3>2. row[m].expires > now
        BY <1>b, <2>1, <2>2, <2>3, <3>1 DEF Live
    <3>3. QED
        BY <1>b, <2>2, <3>1, <3>2 DEF Guards, Owned, Matches
  <2>4. CASE m # k
      BY <1>0, <2>1, <2>2, <2>4 DEF TypeOK
  <2>5. QED
      BY <2>3, <2>4
<1>4. ASSUME NEW w \in Worker, Commit(w)
      PROVE  Kept
  <2>1. Same
      BY <1>4, <1>a DEF Commit, Bumped, Row
  <2>2. QED
      BY <1>0, <1>4, <2>1 DEF Commit
<1>5. ASSUME NEW w \in Worker, Release(w)
      PROVE  Kept
  <2>1. PICK k \in Guards(w) :
            /\ row' = IF Matches(w, k) THEN [row EXCEPT ![k] = Released(@)] ELSE row
            /\ guard' = [guard EXCEPT ![w][k] = 0]
      BY <1>5 DEF Release
  <2>2. k \in Key /\ now' = now
      BY <1>5 DEF Guards, Release
  <2>3. CASE m = k /\ Matches(w, k)
    <3>1. row'[m].owner = NoOwner
        BY <2>1, <2>2, <2>3, <1>a DEF TypeOK, Row, Released
    <3>2. QED
        BY <3>1, <1>b, FactLeaseAssumption
  <2>4. CASE m = k /\ ~Matches(w, k)
    <3>1. v # w
        BY <1>b, <2>1, <2>2, <2>4 DEF TypeOK
    <3>2. QED
        BY <1>0, <2>1, <2>2, <2>4, <3>1 DEF TypeOK
  <2>5. CASE m # k
      BY <1>0, <2>1, <2>2, <2>5 DEF TypeOK
  <2>6. QED
      BY <2>3, <2>4, <2>5
<1>6. ASSUME NEW w \in Worker, Crash(w)
      PROVE  Kept
  <2>1. v # w
      BY <1>6, <1>b DEF Crash, TypeOK
  <2>2. QED
      BY <1>0, <1>6, <2>1 DEF Crash, TypeOK
<1>7. CASE Tick
    BY <1>0, <1>7 DEF Tick
<1>8. CASE UNCHANGED vars
    BY <1>0, <1>8 DEF vars
<1>9. QED
    BY <1>1, <1>2, <1>3, <1>4, <1>5, <1>6, <1>7, <1>8 DEF Next

LEMMA InitReads == Init => ReadsStayCurrent
BY DEF Init, ReadsStayCurrent, Guards

\* Two guards that pass assert_owned cover a common account only if they are
\* the same worker's: same key, one owner; different scopes, both live, and
\* none of the two revived.
LEMMA OneOwnerPerAccount ==
    ASSUME TypeOK, ScopeExclusion,
           NEW v \in Worker, NEW m \in Key, Owned(v, m, now),
           NEW w \in Worker, NEW k \in Key, Owned(w, k, now),
           NEW a \in Covers(m), a \in Covers(k), Unrevived(a)
    PROVE  v = w
<1>1. CASE m = k
    BY <1>1 DEF Owned, Matches
<1>2. CASE m # k
  <2>1. Live(m, now) /\ Live(k, now)
      BY FactLeaseAssumption DEF Owned, Matches, Live
  <2>2. \/ m = Global /\ k = a /\ a \in Account
        \/ k = Global /\ m = a /\ a \in Account
      BY <1>2 DEF Covers, Key
  <2>3. QED
      BY <2>1, <2>2 DEF ScopeExclusion
<1>3. QED
    BY <1>1, <1>2

LEMMA NextReads ==
    ASSUME TypeOK, ScopeExclusion, ReadsStayCurrent, [Next]_vars
    PROVE  ReadsStayCurrent'
<1> SUFFICES ASSUME NEW v \in Worker, NEW m \in Key, m \in Guards(v)',
                    Owned(v, m, now)', NEW a \in Covers(m), Unrevived(a)'
             PROVE  seen'[v][a] = row'[a].revision
    BY DEF ReadsStayCurrent, Guards
<1>a. a \in Account /\ m \in {Global, a} /\ m \notin revived'
    BY DEF Covers, Key, Unrevived
<1>1. SUFFICES ASSUME m \in Guards(v), Owned(v, m, now)
               PROVE  seen'[v][a] = row'[a].revision
    BY <1>a, OwnedBefore
<1>b. Live(m, now)
    BY <1>1, FactLeaseAssumption DEF Owned, Matches, Live
<1>c. Unrevived(a)
    BY <1>a, <1>b, RevivedStays
<1>2. seen[v][a] = row[a].revision
    BY <1>1, <1>c DEF ReadsStayCurrent
<1>3. a \in Account /\ a \in Key /\ row[a] \in Row
    BY DEF Covers, Key, TypeOK
<1>4. ASSUME seen'[v][a] = seen[v][a], row'[a].revision = row[a].revision
      PROVE  seen'[v][a] = row'[a].revision
    BY <1>2, <1>4
<1>5. ASSUME NEW w \in Worker, Guards(w)' = {}
      PROVE  v # w
    BY <1>5
<1>6. ASSUME NEW w \in Worker, EndJob(w), Guards(w)' = {}
      PROVE  seen'[v][a] = seen[v][a]
    BY <1>5, <1>6 DEF EndJob, TypeOK
<1>7. ASSUME NEW w \in Worker, Start(w)
      PROVE  seen'[v][a] = row'[a].revision
    BY <1>4, <1>7 DEF Start
<1>8. ASSUME NEW w \in Worker, AcquireBusy(w)
      PROVE  seen'[v][a] = row'[a].revision
  <2>1. CASE Guards(w) = {}
      BY <1>4, <1>6, <1>8, <2>1 DEF AcquireBusy, Guards
  <2>2. CASE Guards(w) # {}
      BY <1>4, <1>8, <2>2 DEF AcquireBusy
  <2>3. QED
      BY <2>1, <2>2
<1>9. ASSUME NEW w \in Worker, Acquire(w)
      PROVE  seen'[v][a] = row'[a].revision
  <2>1. PICK k \in Missing(w), t \in ReadClock(AcquireLag) :
            /\ row' = [row EXCEPT ![k] = Granted(@, w, t + Ttl)]
            /\ seen' = [seen EXCEPT ![w] = [b \in Account |->
                        IF b \in Covers(k) THEN row[b].revision ELSE seen[w][b]]]
      BY <1>9 DEF Acquire
  <2>2. row'[a].revision = row[a].revision
      BY <1>3, <2>1 DEF TypeOK, Granted
  <2>3. seen'[v][a] = seen[v][a] \/ seen'[v][a] = row[a].revision
      BY <1>3, <2>1 DEF TypeOK
  <2>4. QED
      BY <1>2, <2>2, <2>3
<1>10. ASSUME NEW w \in Worker, NEW k \in Key, Renew(w, k)
       PROVE  seen'[v][a] = row'[a].revision
  <2>1. row'[a].revision = row[a].revision
      BY <1>3, <1>10 DEF Renew, TypeOK, Row
  <2>2. QED
      BY <1>4, <1>10, <2>1 DEF Renew
<1>11. ASSUME NEW w \in Worker, Commit(w)
       PROVE  seen'[v][a] = row'[a].revision
  <2> DEFINE S == UNION {Covers(k) : k \in Guards(w)}
  <2>1. row' = [k \in Key |-> IF k \in S THEN Bumped(row[k]) ELSE row[k]]
        /\ seen' = [seen EXCEPT ![w] = [b \in Account |->
                        IF b \in S THEN row[b].revision + 1 ELSE seen[w][b]]]
        /\ \A k \in Guards(w) : Owned(w, k, now)
      BY <1>11 DEF Commit
  <2>2. CASE a \in S
    <3>1. PICK k \in Guards(w) : a \in Covers(k)
        BY <2>2
    <3>2. k \in Key
        BY DEF Guards
    <3>3. v = w
        BY <1>1, <1>c, <2>1, <3>1, <3>2, OneOwnerPerAccount
    <3>4. row'[a].revision = row[a].revision + 1
        BY <1>3, <2>1, <2>2 DEF Bumped, Row
    <3>5. QED
        BY <1>3, <2>1, <2>2, <3>3, <3>4 DEF TypeOK
  <2>3. CASE a \notin S
    <3>1. row'[a] = row[a]
        BY <1>3, <2>1, <2>3
    <3>2. seen'[v][a] = seen[v][a]
        BY <1>3, <2>1, <2>3 DEF TypeOK
    <3>3. QED
        BY <1>4, <3>1, <3>2
  <2>4. QED
      BY <2>2, <2>3
<1>12. ASSUME NEW w \in Worker, Release(w)
       PROVE  seen'[v][a] = row'[a].revision
  <2>1. PICK k \in Guards(w) :
            /\ row' = IF Matches(w, k) THEN [row EXCEPT ![k] = Released(@)] ELSE row
            /\ guard' = [guard EXCEPT ![w][k] = 0]
            /\ IF Guards(w) = {k} THEN EndJob(w)
               ELSE pc' = [pc EXCEPT ![w] = "releasing"] /\ UNCHANGED <<want, seen>>
      BY <1>12 DEF Release
  <2>2. row'[a].revision = row[a].revision
      BY <1>3, <2>1 DEF TypeOK, Row, Released
  <2>3. CASE Guards(w) = {k}
    <3>1. Guards(w)' = {}
        BY <2>1, <2>3 DEF Guards, TypeOK
    <3>2. QED
        BY <1>4, <1>6, <2>1, <2>2, <2>3, <3>1
  <2>4. CASE Guards(w) # {k}
      BY <1>4, <2>1, <2>2, <2>4
  <2>5. QED
      BY <2>3, <2>4
<1>13. ASSUME NEW w \in Worker, Crash(w)
       PROVE  seen'[v][a] = row'[a].revision
  <2>1. Guards(w)' = {}
      BY <1>13 DEF Crash, Guards, TypeOK
  <2>2. QED
      BY <1>4, <1>6, <1>13, <2>1 DEF Crash
<1>14. CASE Tick
    BY <1>4, <1>14 DEF Tick
<1>15. CASE UNCHANGED vars
    BY <1>4, <1>15 DEF vars
<1>16. QED
    BY <1>7, <1>8, <1>9, <1>10, <1>11, <1>12, <1>13, <1>14, <1>15 DEF Next

\* A job whose guard passes assert_owned commits on top of exactly the
\* revisions it read under that guard, for every account none of whose leases
\* was revived.
THEOREM NoSupersededCommit == Spec => []ReadsStayCurrent
<1> DEFINE IInv == TypeOK /\ ScopeExclusion /\ ReadsStayCurrent
<1>1. Init => IInv
    BY InitType, InitScope, InitReads
<1>2. IInv /\ [Next]_vars => IInv'
    BY NextType, NextScope, NextReads
<1>3. QED
    BY <1>1, <1>2, PTL DEF Spec

-----------------------------------------------------------------------------
(* The refinement: the lease rows implement the fenced writer, step by     *)
(* step, and the exclusive writer for as long as no lease was revived.     *)
(*                                                                         *)
(* Two facts beyond the types are needed.  A row with an owner has been    *)
(* granted a token, so that a dead process's guards are told from no       *)
(* guards; and a row that a guard matches is not an orphan's, so that the  *)
(* one who commits is the holder.                                          *)

OwnersHaveTokens == \A k \in Key : row[k].owner # NoOwner => row[k].token # 0

GuardsAreAlive == \A w \in Worker : \A k \in Guards(w) : Matches(w, k) => k \notin orphan

RInv == TypeOK /\ LeaseHasHolder /\ OwnersHaveTokens /\ GuardsAreAlive

-----------------------------------------------------------------------------
(* The invariant *)

LEMMA InitRInv == Init => OwnersHaveTokens /\ GuardsAreAlive
BY DEF Init, OwnersHaveTokens, GuardsAreAlive, Guards

LEMMA NextTokens == TypeOK /\ OwnersHaveTokens /\ [Next]_vars => OwnersHaveTokens'
<1> SUFFICES ASSUME TypeOK, OwnersHaveTokens, [Next]_vars,
                    NEW m \in Key, row'[m].owner # NoOwner
             PROVE  row'[m].token # 0
    BY DEF OwnersHaveTokens
<1>a. row[m] \in Row /\ (row[m].owner # NoOwner => row[m].token # 0)
    BY DEF TypeOK, OwnersHaveTokens
<1>0. ASSUME row'[m].owner = row[m].owner, row'[m].token = row[m].token
      PROVE  row'[m].token # 0
    BY <1>0, <1>a
<1>1. ASSUME NEW w \in Worker, Start(w) \/ AcquireBusy(w) \/ Crash(w)
      PROVE  row' = row
    BY <1>1 DEF Start, AcquireBusy, Crash
<1>2. ASSUME NEW w \in Worker, Acquire(w)
      PROVE  row'[m].token # 0
  <2>1. PICK k \in Missing(w), t \in ReadClock(AcquireLag) :
            row' = [row EXCEPT ![k] = Granted(@, w, t + Ttl)]
      BY <1>2 DEF Acquire
  <2>2. CASE m = k
      BY <1>a, <2>1, <2>2 DEF TypeOK, Row, Granted
  <2>3. CASE m # k
      BY <1>0, <2>1, <2>3 DEF TypeOK
  <2>4. QED
      BY <2>2, <2>3
<1>3. ASSUME NEW w \in Worker, NEW k \in Key, Renew(w, k)
      PROVE  row'[m].token # 0
    BY <1>0, <1>3 DEF Renew, TypeOK, Row
<1>4. ASSUME NEW w \in Worker, Commit(w)
      PROVE  row'[m].token # 0
  <2>1. row'[m].owner = row[m].owner /\ row'[m].token = row[m].token
      BY <1>4, <1>a DEF Commit, Bumped, Row
  <2>2. QED
      BY <1>0, <2>1
<1>5. ASSUME NEW w \in Worker, Release(w)
      PROVE  row'[m].token # 0
  <2>1. PICK k \in Guards(w) :
            row' = IF Matches(w, k) THEN [row EXCEPT ![k] = Released(@)] ELSE row
      BY <1>5 DEF Release
  <2>2. row'[m].token = row[m].token /\ (row'[m].owner = row[m].owner \/ row'[m].owner = NoOwner)
      BY <1>a, <2>1 DEF TypeOK, Row, Released
  <2>3. QED
      BY <1>0, <2>2
<1>6. CASE Tick
    BY <1>0, <1>6 DEF Tick
<1>7. CASE UNCHANGED vars
    BY <1>0, <1>7 DEF vars
<1>8. QED
    BY <1>0, <1>1, <1>2, <1>3, <1>4, <1>5, <1>6, <1>7 DEF Next

LEMMA NextAlive == TypeOK /\ GuardsAreAlive /\ [Next]_vars => GuardsAreAlive'
<1> SUFFICES ASSUME TypeOK, GuardsAreAlive, [Next]_vars,
                    NEW v \in Worker, NEW m \in Key,
                    m \in Guards(v)', Matches(v, m)', m \in orphan'
             PROVE  FALSE
    BY DEF GuardsAreAlive, Guards
<1>a. row[m] \in Row /\ guard[v] \in [Key -> Nat]
    BY DEF TypeOK
<1>b. guard'[v][m] # 0 /\ row'[m].owner = v /\ row'[m].token = guard'[v][m]
    BY DEF Guards, Matches
<1>0. ASSUME row'[m].owner = row[m].owner, row'[m].token = row[m].token,
             guard'[v][m] = guard[v][m], m \in orphan
      PROVE  FALSE
    BY <1>0, <1>b DEF GuardsAreAlive, Guards, Matches
<1>1. ASSUME NEW w \in Worker, Start(w) \/ AcquireBusy(w)
      PROVE  FALSE
    BY <1>0, <1>1 DEF Start, AcquireBusy
<1>2. ASSUME NEW w \in Worker, Acquire(w)
      PROVE  FALSE
  <2>1. PICK k \in Missing(w), t \in ReadClock(AcquireLag) :
            /\ row' = [row EXCEPT ![k] = Granted(@, w, t + Ttl)]
            /\ guard' = [guard EXCEPT ![w][k] = row[k].token + 1]
            /\ orphan' = orphan \ {k}
      BY <1>2 DEF Acquire
  <2>2. k \in Key /\ m # k
      BY <2>1 DEF TypeOK, Missing
  <2>3. QED
      BY <1>0, <2>1, <2>2 DEF TypeOK
<1>3. ASSUME NEW w \in Worker, NEW k \in Key, Renew(w, k)
      PROVE  FALSE
  <2>1. row'[m].owner = row[m].owner /\ row'[m].token = row[m].token
      BY <1>3 DEF Renew, TypeOK, Row
  <2>2. QED
      BY <1>0, <1>3, <2>1 DEF Renew
<1>4. ASSUME NEW w \in Worker, Commit(w)
      PROVE  FALSE
  <2>1. row'[m].owner = row[m].owner /\ row'[m].token = row[m].token
      BY <1>4, <1>a DEF Commit, Bumped, Row
  <2>2. QED
      BY <1>0, <1>4, <2>1 DEF Commit
<1>5. ASSUME NEW w \in Worker, Release(w)
      PROVE  FALSE
  <2>1. PICK k \in Guards(w) :
            /\ row' = IF Matches(w, k) THEN [row EXCEPT ![k] = Released(@)] ELSE row
            /\ guard' = [guard EXCEPT ![w][k] = 0]
            /\ orphan' = orphan
      BY <1>5 DEF Release
  <2>2. k \in Key
      BY DEF Guards
  <2>3. CASE m = k /\ Matches(w, k)
    <3>1. row'[m].owner = NoOwner
        BY <2>1, <2>2, <2>3, <1>a DEF TypeOK, Row, Released
    <3>2. QED
        BY <1>b, <3>1, FactLeaseAssumption
  <2>4. CASE m # k \/ ~Matches(w, k)
    <3>1. row'[m] = row[m]
        BY <2>1, <2>2, <2>4 DEF TypeOK
    <3>2. guard'[v][m] = guard[v][m]
        BY <1>b, <2>1, <2>2 DEF TypeOK
    <3>3. QED
        BY <1>0, <2>1, <3>1, <3>2
  <2>5. QED
      BY <2>3, <2>4
<1>6. ASSUME NEW w \in Worker, Crash(w)
      PROVE  FALSE
  <2>1. v # w /\ guard'[v] = guard[v]
      BY <1>b, <1>6 DEF Crash, TypeOK
  <2>2. m \in Guards(w) /\ Matches(w, m) => v = w
      BY <1>6, <1>b DEF Crash, Matches
  <2>3. QED
      BY <1>0, <1>6, <2>1, <2>2 DEF Crash
<1>7. CASE Tick
    BY <1>0, <1>7 DEF Tick
<1>8. CASE UNCHANGED vars
    BY <1>0, <1>8 DEF vars
<1>9. QED
    BY <1>1, <1>2, <1>3, <1>4, <1>5, <1>6, <1>7, <1>8 DEF Next

LEMMA NextRInv == RInv /\ [Next]_vars => RInv'
BY NextType, NextHolder, NextTokens, NextAlive DEF RInv

-----------------------------------------------------------------------------
(* The steps *)

LEMMA InitRefines == Init => Abstract!FencedInit
BY FactLeaseAssumption
   DEF Init, Abstract!FencedInit, Abstract!AbstractInit, Abstract!Key, Abstract!Global,
       Key, Global, HolderOf, GrantedTo, Live

\* Nothing that the fenced writer sees has changed.
LEMMA Stutters ==
    ASSUME \A k \in Key : HolderOf(k)' = HolderOf(k) /\ GrantedTo(k)' = GrantedTo(k),
           \A a \in Account : row'[a].revision = row[a].revision,
           revived' = revived
    PROVE  UNCHANGED Abstract!fencedVars
BY DEF Abstract!fencedVars

\* Some leases run out, nothing else happens.
LEMMA Lapses ==
    ASSUME NEW K \in SUBSET Key,
           \A k \in Key : HolderOf(k)' = IF k \in K THEN NoOwner ELSE HolderOf(k),
           \A k \in Key : GrantedTo(k)' = GrantedTo(k),
           \A a \in Account : row'[a].revision = row[a].revision,
           revived' = revived
    PROVE  Abstract!FencedNext
<1>1. Abstract!Lapse(K)
    BY DEF Abstract!Lapse, Abstract!Key, Abstract!Global, Key, Global
<1>2. Abstract!Expire(K)
    BY <1>1 DEF Abstract!Expire
<1>3. QED
    BY <1>2 DEF Abstract!FencedNext, Abstract!Key, Abstract!Global, Key, Global

\* A granted row that has run out is nobody's, one that has not is its holder's.
LEMMA HolderIsGranted ==
    ASSUME NEW k \in Key
    PROVE  HolderOf(k) = IF Live(k, now) THEN GrantedTo(k) ELSE NoOwner
BY DEF HolderOf, GrantedTo, Live

LEMMA StepRefines ==
    ASSUME RInv, [Next]_vars
    PROVE  [Abstract!FencedNext]_(Abstract!fencedVars)
<1> DEFINE Goal == Abstract!FencedNext \/ UNCHANGED Abstract!fencedVars
<1>a. TypeOK /\ now \in Nat /\ \A k \in Key : row[k] \in Row
    BY DEF RInv, TypeOK
<1>b. \A a \in Account : a \in Key
    BY DEF Key
<1>1. ASSUME NEW w \in Worker, Start(w) \/ AcquireBusy(w)
      PROVE  Goal
  <2>1. UNCHANGED <<now, row, orphan, revived>>
      BY <1>1 DEF Start, AcquireBusy
  <2>2. QED
      BY <2>1, Stutters DEF HolderOf, GrantedTo, Live
<1>2. ASSUME NEW w \in Worker, Acquire(w)
      PROVE  Goal
  <2>1. PICK k \in Missing(w), t \in ReadClock(AcquireLag) :
            /\ ~Busy(k, t)
            /\ row' = [row EXCEPT ![k] = Granted(@, w, t + Ttl)]
            /\ orphan' = orphan \ {k}
            /\ revived' = revived \ {k}
            /\ now' = now
      BY <1>2 DEF Acquire
  <2>2. k \in Key /\ t \in Nat /\ t <= now
      BY <1>a, ClockType, FactLeaseAssumption DEF TypeOK, Missing
  <2>3. \A m \in Key : ~Live(m, t) => ~Live(m, now)
      BY <1>a, <2>2 DEF Live, Row
  <2>4. \A m \in Abstract!Conflicts(k) : HolderOf(m) = NoOwner
      BY <2>1, <2>2, <2>3, <1>b
         DEF Busy, HolderOf, Abstract!Conflicts, Abstract!Key, Abstract!Global, Key, Global
  <2>5. \A m \in Key \ {k} : HolderOf(m)' = HolderOf(m) /\ GrantedTo(m)' = GrantedTo(m)
      BY <2>1, <2>2, <1>a DEF HolderOf, GrantedTo, Live, TypeOK
  <2>6. \A a \in Account : row'[a].revision = row[a].revision
      BY <2>1, <2>2, <1>a, <1>b DEF Granted, TypeOK
  <2>7. row'[k].owner = w /\ k \notin orphan'
      BY <2>1, <2>2, <1>a DEF Granted, TypeOK
  <2>8. GrantedTo(k)' = w /\ HolderOf(k)' \in {NoOwner, w}
      BY <2>7 DEF GrantedTo, HolderOf
  <2>9. HolderOf(k) = NoOwner
      BY <2>2, <2>4 DEF Abstract!Conflicts, Abstract!Key, Abstract!Global, Key, Global
  <2>10. Abstract!Free(k)
      BY <2>2, <2>4 DEF Abstract!Free, Abstract!Conflicts, Abstract!Key, Abstract!Global, Key, Global
  <2> DEFINE held == [m \in Key |-> HolderOf(m)]
  <2>11. [m \in Key |-> HolderOf(m)'] \in {held, [held EXCEPT ![k] = w]}
    <3>1. CASE HolderOf(k)' = NoOwner
      <4>1. [m \in Key |-> HolderOf(m)'] = held
          BY <2>5, <2>9, <3>1
      <4>2. QED
          BY <4>1
    <3>2. CASE HolderOf(k)' = w
      <4>1. [m \in Key |-> HolderOf(m)'] = [held EXCEPT ![k] = w]
          BY <2>2, <2>5, <3>2
      <4>2. QED
          BY <4>1
    <3>3. QED
        BY <2>8, <3>1, <3>2
  <2>12. [m \in Key |-> GrantedTo(m)'] = [[m \in Key |-> GrantedTo(m)] EXCEPT ![k] = w]
      BY <2>2, <2>5, <2>8
  <2>13. Abstract!Grant(w, k)
      BY <2>1, <2>6, <2>10, <2>11, <2>12 DEF Abstract!Grant
  <2>14. QED
      BY <2>2, <2>13 DEF Abstract!FencedNext, Abstract!Key, Abstract!Global, Key, Global
<1>3. ASSUME NEW w \in Worker, NEW k \in Key, Renew(w, k)
      PROVE  Goal
  <2>1. PICK t \in ReadClock(RenewLag) :
            /\ Owned(w, k, t)
            /\ row' = [row EXCEPT ![k].expires = t + Ttl]
            /\ revived' = revived \cup {m \in {k} : ~Live(m, now) /\ t + Ttl > now}
      BY <1>3 DEF Renew
  <2>2. t \in Nat /\ t <= now /\ now' = now /\ orphan' = orphan /\ k \in Guards(w)
      BY <1>3, <1>a, <2>1, ClockType, FactLeaseAssumption DEF Renew
  <2>3. row[k].owner = w /\ k \notin orphan /\ w # NoOwner
      BY <2>1, <2>2, FactLeaseAssumption DEF RInv, GuardsAreAlive, Owned, Matches
  <2>4. row'[k].owner = w /\ row'[k].expires = t + Ttl
      BY <1>a, <2>1, <2>3 DEF TypeOK, Row
  <2>5. \A m \in Key \ {k} : row'[m] = row[m]
      BY <1>a, <2>1 DEF TypeOK
  <2>6. \A m \in Key \ {k} : HolderOf(m)' = HolderOf(m) /\ GrantedTo(m)' = GrantedTo(m)
      BY <2>2, <2>5 DEF HolderOf, GrantedTo, Live
  <2>7. \A a \in Account : row'[a].revision = row[a].revision
      BY <1>a, <1>b, <2>1 DEF TypeOK, Row
  <2>8. GrantedTo(k) = w /\ GrantedTo(k)' = w
      BY <2>2, <2>3, <2>4 DEF GrantedTo
  <2>9. Live(k, now)' <=> t + Ttl > now
      BY <2>2, <2>3, <2>4 DEF Live
  <2>10. CASE Live(k, now)
    <3>1. row[k].expires > now /\ revived' = revived
        BY <2>1, <2>10 DEF Live
    <3>2. CASE t + Ttl > now
      <4>1. HolderOf(k)' = HolderOf(k)
          BY <2>2, <2>3, <2>4, <2>9, <2>10, <3>2 DEF HolderOf
      <4>2. QED
          BY <2>6, <2>7, <2>8, <3>1, <4>1, Stutters
    <3>3. CASE ~(t + Ttl > now)
      <4>1. \A m \in Key : HolderOf(m)' = IF m \in {k} THEN NoOwner ELSE HolderOf(m)
          BY <2>6, <2>9, <3>3 DEF HolderOf
      <4>2. QED
          BY <2>6, <2>7, <2>8, <3>1, <4>1, Lapses
    <3>4. QED
        BY <3>2, <3>3
  <2>11. CASE ~Live(k, now) /\ t + Ttl > now
    <3>1. revived' = revived \cup {k}
        BY <2>1, <2>11
    <3>2. HolderOf(k) = NoOwner /\ HolderOf(k)' = w
        BY <2>2, <2>3, <2>4, <2>9, <2>11 DEF HolderOf
    <3>3. [m \in Key |-> HolderOf(m)'] = [[m \in Key |-> HolderOf(m)] EXCEPT ![k] = w]
        BY <2>6, <3>2
    <3>4. Abstract!Revive(w, k)
        BY <2>6, <2>7, <2>8, <3>1, <3>2, <3>3 DEF Abstract!Revive
    <3>5. QED
        BY <3>4 DEF Abstract!FencedNext, Abstract!Key, Abstract!Global, Key, Global
  <2>12. CASE ~Live(k, now) /\ ~(t + Ttl > now)
    <3>1. revived' = revived
        BY <2>1, <2>12
    <3>2. HolderOf(k) = NoOwner /\ HolderOf(k)' = NoOwner
        BY <2>9, <2>12 DEF HolderOf
    <3>3. QED
        BY <2>6, <2>7, <2>8, <3>1, <3>2, Stutters
  <2>13. QED
      BY <2>10, <2>11, <2>12
<1>4. ASSUME NEW w \in Worker, Commit(w)
      PROVE  Goal
  <2> DEFINE S == UNION {Covers(k) : k \in Guards(w)}
             A == S \cap Account
  <2>1. /\ \A k \in Guards(w) : Owned(w, k, now)
        /\ row' = [k \in Key |-> IF k \in S THEN Bumped(row[k]) ELSE row[k]]
        /\ now' = now /\ orphan' = orphan /\ revived' = revived
      BY <1>4 DEF Commit
  <2>2. \A k \in Guards(w) : HolderOf(k) = w
      BY <2>1, FactLeaseAssumption DEF RInv, GuardsAreAlive, Owned, HolderOf, Live, Matches
  <2>3. S \subseteq UNION {Abstract!Covers(k) : k \in Abstract!HeldBy(w)}
      BY <2>2 DEF Guards, Covers, Abstract!Covers, Abstract!HeldBy, Abstract!Key, Abstract!Global, Key, Global
  <2>4. \A m \in Key : row'[m].owner = row[m].owner /\ row'[m].expires = row[m].expires
      BY <1>a, <2>1 DEF Bumped, Row
  <2>5. \A m \in Key : HolderOf(m)' = HolderOf(m) /\ GrantedTo(m)' = GrantedTo(m)
      BY <2>1, <2>4 DEF HolderOf, GrantedTo, Live
  <2>6. \A a \in Account : row'[a].revision =
            IF a \in A THEN row[a].revision + 1 ELSE row[a].revision
      BY <1>a, <1>b, <2>1 DEF Bumped, Row
  <2>7. PICK T \in SUBSET Account : T = A
      OBVIOUS
  <2>8. Abstract!Write(w, T)
      BY <2>3, <2>5, <2>6, <2>7 DEF Abstract!Write
  <2>9. Abstract!FencedWrite(w, T)
      BY <2>1, <2>5, <2>8 DEF Abstract!FencedWrite
  <2>10. QED
      BY <2>9 DEF Abstract!FencedNext
<1>5. ASSUME NEW w \in Worker, Release(w)
      PROVE  Goal
  <2>1. PICK k \in Guards(w) :
            /\ row' = IF Matches(w, k) THEN [row EXCEPT ![k] = Released(@)] ELSE row
            /\ now' = now /\ orphan' = orphan /\ revived' = revived
      BY <1>5 DEF Release
  <2>2. k \in Key
      BY DEF Guards
  <2>3. CASE Matches(w, k)
    <3>1. row'[k].owner = NoOwner /\ \A m \in Key : row'[m].revision = row[m].revision
        BY <1>a, <2>1, <2>2, <2>3 DEF TypeOK, Row, Released
    <3>2. \A m \in Key \ {k} : row'[m] = row[m]
        BY <1>a, <2>1, <2>3 DEF TypeOK
    <3>3. \A m \in Key : HolderOf(m)' = IF m \in {k} THEN NoOwner ELSE HolderOf(m)
        BY <2>1, <3>1, <3>2 DEF HolderOf, Live
    <3>4. GrantedTo(k) = w /\ GrantedTo(k)' = NoOwner
        BY <2>1, <2>3, <3>1 DEF RInv, GuardsAreAlive, GrantedTo, Matches
    <3>5. [m \in Key |-> GrantedTo(m)'] = [[m \in Key |-> GrantedTo(m)] EXCEPT ![k] = NoOwner]
      <4>1. \A m \in Key \ {k} : GrantedTo(m)' = GrantedTo(m)
          BY <2>1, <3>2 DEF GrantedTo
      <4>2. QED
          BY <2>2, <3>4, <4>1
    <3>6. Abstract!Lapse({k})
        BY <1>b, <3>1, <3>3 DEF Abstract!Lapse, Abstract!Key, Abstract!Global, Key, Global
    <3>7. Abstract!GiveBack(w, k)
        BY <2>1, <2>2, <3>4, <3>5, <3>6 DEF Abstract!GiveBack
    <3>8. QED
        BY <2>2, <3>7 DEF Abstract!FencedNext, Abstract!Key, Abstract!Global, Key, Global
  <2>4. CASE ~Matches(w, k)
      BY <2>1, <2>4, Stutters DEF HolderOf, GrantedTo, Live
  <2>5. QED
      BY <2>3, <2>4
<1>6. ASSUME NEW w \in Worker, Crash(w)
      PROVE  Goal
  <2>1. /\ orphan' = orphan \cup {k \in Guards(w) : Matches(w, k)}
        /\ now' = now /\ row' = row /\ revived' = revived
      BY <1>6 DEF Crash
  <2>2. ASSUME NEW k \in Key
        PROVE  GrantedTo(k)' = IF GrantedTo(k) = w THEN Orphan ELSE GrantedTo(k)
    <3>1. CASE GrantedTo(k) = w
      <4>1. k \notin orphan /\ row[k].owner = w /\ w # NoOwner
          BY <3>1, FactLeaseAssumption DEF GrantedTo
      <4>2. guard[w][k] = row[k].token /\ row[k].token # 0
          BY <4>1 DEF RInv, LeaseHasHolder, OwnersHaveTokens
      <4>3. k \in Guards(w) /\ Matches(w, k)
          BY <4>1, <4>2 DEF Guards, Matches
      <4>4. QED
          BY <2>1, <3>1, <4>1, <4>3 DEF GrantedTo
    <3>2. CASE GrantedTo(k) # w
      <4>1. Matches(w, k) => row[k].owner = NoOwner \/ k \in orphan
          BY <3>2 DEF GrantedTo, Matches
      <4>2. QED
          BY <2>1, <3>2, <4>1 DEF GrantedTo
    <3>3. QED
        BY <3>1, <3>2
  <2>3. \A k \in Key : Live(k, now)' <=> Live(k, now)
      BY <2>1 DEF Live
  <2>4. \A k \in Key : HolderOf(k)' = IF Live(k, now)' THEN GrantedTo(k)' ELSE NoOwner
      BY DEF HolderOf, GrantedTo, Live
  <2>5. \A k \in Key : HolderOf(k)' = IF HolderOf(k) = w THEN Orphan ELSE HolderOf(k)
      BY <2>2, <2>3, <2>4, HolderIsGranted, FactLeaseAssumption
  <2>6. Abstract!Abandon(w)
      BY <2>1, <2>5 DEF Abstract!Abandon, Abstract!Key, Abstract!Global, Key, Global
  <2>7. Abstract!Die(w)
      BY <2>1, <2>2, <2>6 DEF Abstract!Die, Abstract!Key, Abstract!Global, Key, Global
  <2>8. QED
      BY <2>7 DEF Abstract!FencedNext
<1>7. CASE Tick
  <2> DEFINE K == {k \in Key : ~Live(k, now)'}
  <2>1. row' = row /\ orphan' = orphan /\ revived' = revived /\ now' = now + 1
      BY <1>7 DEF Tick
  <2>2. \A k \in Key : Live(k, now)' => Live(k, now)
      BY <1>a, <2>1 DEF Live, Row
  <2>3. \A k \in Key : HolderOf(k)' = IF k \in K THEN NoOwner ELSE HolderOf(k)
      BY <2>1, <2>2 DEF HolderOf
  <2>4. \A k \in Key : GrantedTo(k)' = GrantedTo(k)
      BY <2>1 DEF GrantedTo
  <2>5. QED
      BY <2>1, <2>3, <2>4, Lapses
<1>8. CASE UNCHANGED vars
    BY <1>8, Stutters DEF vars, HolderOf, GrantedTo, Live
<1>9. QED
    BY <1>1, <1>2, <1>3, <1>4, <1>5, <1>6, <1>7, <1>8 DEF Next

\* Everything the rows, tokens, expiries and guards of history_state.py do is
\* something the fenced writer may do, however old the clocks are that acquire
\* and renew decide with.
THEOREM LeaseImplementsWriter == Spec => ImplementsFencedWriter
<1>1. Init => RInv /\ Abstract!FencedInit
    BY InitType, InitHolder, InitRInv, InitRefines DEF RInv
<1>2. RInv /\ [Next]_vars => RInv' /\ [Abstract!FencedNext]_(Abstract!fencedVars)
    BY NextRInv, StepRefines
<1>3. QED
    BY <1>1, <1>2, PTL DEF Spec, ImplementsFencedWriter, Abstract!FencedSpec

\* A step of the fenced writer that leaves no key late is one of the exclusive
\* writer: a grant takes a free key, or is over at once.
LEMMA FencedIsExclusive ==
    ASSUME [Abstract!FencedNext]_(Abstract!fencedVars), revived' = {}
    PROVE  [Abstract!AbstractNext]_(Abstract!abstractVars)
<1> USE DEF Abstract!AbstractNext, Abstract!abstractVars
<1>1. ASSUME NEW w \in Worker, NEW k \in Abstract!Key, Abstract!Grant(w, k)
      PROVE  Abstract!Take(w, k) \/ UNCHANGED Abstract!abstractVars
    BY <1>1 DEF Abstract!Grant, Abstract!Take
<1>2. ASSUME NEW w \in Worker, NEW k \in Abstract!Key, Abstract!GiveBack(w, k)
      PROVE  Abstract!Lapse({k})
    BY <1>2 DEF Abstract!GiveBack
<1>3. ASSUME NEW w \in Worker, NEW k \in Abstract!Key, Abstract!Revive(w, k)
      PROVE  FALSE
    BY <1>3 DEF Abstract!Revive
<1>4. ASSUME NEW K \in SUBSET Abstract!Key, Abstract!Expire(K)
      PROVE  Abstract!Lapse(K)
    BY <1>4 DEF Abstract!Expire
<1>5. ASSUME NEW w \in Worker, Abstract!Die(w)
      PROVE  Abstract!Abandon(w)
    BY <1>5 DEF Abstract!Die
<1>6. ASSUME NEW w \in Worker, NEW S \in SUBSET Account, Abstract!FencedWrite(w, S)
      PROVE  Abstract!Write(w, S)
    BY <1>6 DEF Abstract!FencedWrite
<1>7. CASE UNCHANGED Abstract!fencedVars
    BY <1>7 DEF Abstract!fencedVars
<1>8. QED
    BY <1>1, <1>2, <1>3, <1>4, <1>5, <1>6, <1>7 DEF Abstract!FencedNext

\* A renewal that decides with the time at which its UPDATE executes revives
\* nothing: the stale clock is the only cause.
THEOREM FreshClockRevivesNothing ==
    ASSUME RenewLag = 0 PROVE Spec => [](revived = {})
<1>1. TypeOK /\ revived = {} /\ [Next]_vars => (revived = {})'
  <2> SUFFICES ASSUME TypeOK, revived = {}, [Next]_vars PROVE revived' = {}
      OBVIOUS
  <2>1. ASSUME NEW w \in Worker, NEW k \in Key, Renew(w, k) PROVE revived' = {}
    <3>1. PICK t \in ReadClock(RenewLag) :
              /\ Owned(w, k, t)
              /\ revived' = revived \cup {m \in {k} : ~Live(m, now) /\ t + Ttl > now}
        BY <2>1 DEF Renew
    <3>2. Live(k, now)
        BY <3>1, ClockType, FactLeaseAssumption DEF TypeOK, Owned, Matches, Live
    <3>3. QED
        BY <3>1, <3>2
  <2>2. QED
      BY <2>1 DEF Next, vars, Start, Acquire, AcquireBusy, Commit, Release, Crash, Tick
<1>2. Init => revived = {}
    BY DEF Init
<1>3. TypeOK /\ [Next]_vars => TypeOK'
    BY NextType
<1>4. QED
    BY <1>1, <1>2, <1>3, InitType, PTL DEF Spec

\* A behaviour in which no renewal brings an expired lease back is one of the
\* exclusive writer that the other components are built on.
THEOREM ExclusiveUntilRevived == Spec /\ [](revived = {}) => Abstract!AbstractSpec
<1>1. Abstract!FencedInit => Abstract!AbstractInit
    BY DEF Abstract!FencedInit
<1>2. [Abstract!FencedNext]_(Abstract!fencedVars) /\ (revived = {})'
        => [Abstract!AbstractNext]_(Abstract!abstractVars)
    BY FencedIsExclusive
<1>3. Spec => Abstract!FencedSpec
    BY LeaseImplementsWriter DEF ImplementsFencedWriter
<1>4. QED
    BY <1>1, <1>2, <1>3, PTL DEF Abstract!FencedSpec, Abstract!AbstractSpec
=============================================================================
