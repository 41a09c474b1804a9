------------------------------ MODULE FactLease ------------------------------
(***************************************************************************)
(* The fenced maintenance lease of backend/monitor/history_state.py.       *)
(*                                                                         *)
(* One database row per account, and one for the global key 0, holds a     *)
(* fact revision, a fencing token, the owner and the expiry of the lease.  *)
(* A job takes the leases it wants in ascending order and never waits: a   *)
(* busy row makes it give back what it has.  Under its leases it reads     *)
(* facts, may renew, and commits by bumping the revision of every account  *)
(* it covers.  Jobs die, stall past their expiry and come back.            *)
(*                                                                         *)
(* Every database transaction of the code is one step: the database is     *)
(* SQLite, whose writing transactions are serialised.  The wall clock is   *)
(* read by the process BEFORE the statement that uses it, and the          *)
(* statement may wait for SQLite's write lock: AcquireLag and RenewLag     *)
(* bound how old the time used by acquire and by renew may be.             *)
(***************************************************************************)
EXTENDS Integers, FiniteSets

CONSTANTS
    Account, Worker, NoOwner, Orphan,
    Ttl,            \* lease duration, in ticks
    AcquireLag,     \* age of the clock value acquire() decides with
    RenewLag,       \* age of the clock value renew() decides with
    MaxTime, MaxToken, MaxRevision      \* bounds on the counters

ASSUME FactLeaseAssumption ==
    /\ Account \subseteq Nat \ {0}
    /\ IsFiniteSet(Account)
    /\ NoOwner \notin Worker
    /\ Orphan \notin Worker
    /\ NoOwner # Orphan
    /\ Ttl \in Nat \ {0}
    /\ AcquireLag \in Nat
    /\ RenewLag \in Nat
    /\ MaxTime \in Nat
    /\ MaxToken \in Nat
    /\ MaxRevision \in Nat

Global    == 0
Key       == Account \cup {Global}
Covers(k) == IF k = Global THEN Account ELSE {k}

\* A job asks for the global lease, or for the leases of some accounts.
Wanted == {{Global}} \cup (SUBSET Account \ {{}})

VARIABLES
    now,        \* the wall clock
    row,        \* the HistoryMaintenanceState rows
    pc,         \* where each worker is in its job
    want,       \* the keys its job needs
    guard,      \* token of the LeaseGuard it holds for a key; 0 if none
    seen,       \* the revision of each account when its lease was granted
    orphan,     \* keys whose current lease was granted to a process that died
    revived     \* keys whose current lease was renewed after it had expired

vars == <<now, row, pc, want, guard, seen, orphan, revived>>

Row == [revision : Nat, token : Nat, owner : Worker \cup {NoOwner}, expires : Nat]

TypeOK ==
    /\ now \in Nat
    /\ row \in [Key -> Row]
    /\ pc \in [Worker -> {"idle", "acquiring", "holding", "releasing"}]
    /\ want \in [Worker -> SUBSET Key]
    /\ guard \in [Worker -> [Key -> Nat]]
    /\ seen \in [Worker -> [Account -> Nat]]
    /\ orphan \in SUBSET Key
    /\ revived \in SUBSET Key

Init ==
    /\ now = 0
    /\ row = [k \in Key |-> [revision |-> 0, token |-> 0, owner |-> NoOwner, expires |-> 0]]
    /\ pc = [w \in Worker |-> "idle"]
    /\ want = [w \in Worker |-> {}]
    /\ guard = [w \in Worker |-> [k \in Key |-> 0]]
    /\ seen = [w \in Worker |-> [a \in Account |-> 0]]
    /\ orphan = {}
    /\ revived = {}

-----------------------------------------------------------------------------
(* The tests of LeaseGuard on the rows *)

\* Clock values a statement that executes now may have been given.
ReadClock(lag) == {t \in 0 .. now : now - t <= lag}

Live(k, t) == row[k].owner # NoOwner /\ row[k].expires > t

\* Slip: acquire() looks at its own row only.
BusyOwnRowOnly(k, t) == Live(k, t)

\* acquire() refuses a live row, and live rows of the other scope.
Busy(k, t) ==
    \/ Live(k, t)
    \/ IF k = Global THEN \E a \in Account : Live(a, t) ELSE Live(Global, t)

\* renew() and release() select the row by owner and token.
Matches(w, k) == row[k].owner = w /\ row[k].token = guard[w][k]

\* Slip: assert_owned() and renew() trust the token and forget the expiry.
OwnedWhateverExpiry(w, k, t) == Matches(w, k)

\* The row passes assert_owned() at time t.
Owned(w, k, t) == Matches(w, k) /\ row[k].expires > t

\* What a grant, a release and a commit store in a row.
Granted(r, w, e) == [revision |-> r.revision, token |-> r.token + 1,
                     owner |-> w, expires |-> e]
Released(r) == [r EXCEPT !.owner = NoOwner, !.expires = 0]
Bumped(r)   == [r EXCEPT !.revision = @ + 1]

Guards(w)  == {k \in Key : guard[w][k] # 0}
Missing(w) == want[w] \ Guards(w)

-----------------------------------------------------------------------------
(* One job *)

EndJob(w) ==
    /\ pc' = [pc EXCEPT ![w] = "idle"]
    /\ want' = [want EXCEPT ![w] = {}]
    /\ seen' = [seen EXCEPT ![w] = [a \in Account |-> 0]]

Start(w) ==
    /\ pc[w] = "idle"
    /\ \E K \in Wanted : want' = [want EXCEPT ![w] = K]
    /\ pc' = [pc EXCEPT ![w] = "acquiring"]
    /\ UNCHANGED <<now, row, guard, seen, orphan, revived>>

\* LeaseGuard.acquire succeeds on the smallest key not yet held.
Acquire(w) ==
    /\ pc[w] = "acquiring"
    /\ \E k \in Missing(w), t \in ReadClock(AcquireLag) :
        /\ \A m \in Missing(w) : k <= m
        /\ ~Busy(k, t)
        /\ row[k].token < MaxToken
        /\ row' = [row EXCEPT ![k] = Granted(@, w, t + Ttl)]
        /\ guard' = [guard EXCEPT ![w][k] = row[k].token + 1]
        /\ seen' = [seen EXCEPT ![w] = [a \in Account |->
                        IF a \in Covers(k) THEN row[a].revision ELSE seen[w][a]]]
        /\ pc' = [pc EXCEPT ![w] = IF Missing(w) = {k} THEN "holding" ELSE "acquiring"]
        /\ orphan' = orphan \ {k}
        /\ revived' = revived \ {k}
    /\ UNCHANGED <<now, want>>

\* Slip: a busy key ends the job without the finally block.
AcquireBusyLeaking(w) ==
    /\ pc[w] = "acquiring"
    /\ \E k \in Missing(w), t \in ReadClock(AcquireLag) :
        /\ \A m \in Missing(w) : k <= m
        /\ Busy(k, t)
    /\ guard' = [guard EXCEPT ![w] = [k \in Key |-> 0]]
    /\ EndJob(w)
    /\ UNCHANGED <<now, row, orphan, revived>>

\* LeaseBusyError: the job takes nothing more and gives back what it has.
AcquireBusy(w) ==
    /\ pc[w] = "acquiring"
    /\ \E k \in Missing(w), t \in ReadClock(AcquireLag) :
        /\ \A m \in Missing(w) : k <= m
        /\ Busy(k, t)
    /\ IF Guards(w) = {} THEN EndJob(w)
       ELSE pc' = [pc EXCEPT ![w] = "releasing"] /\ UNCHANGED <<want, seen>>
    /\ UNCHANGED <<now, row, guard, orphan, revived>>

\* Slip: the expiry is computed backwards.
RenewBackwards(w, k) ==
    /\ pc[w] = "holding"
    /\ k \in Guards(w)
    /\ \E t \in ReadClock(RenewLag) :
        /\ Owned(w, k, t)
        /\ row' = [row EXCEPT ![k].expires = t - Ttl]
    /\ UNCHANGED <<now, pc, want, guard, seen, orphan, revived>>

\* One conditional UPDATE: extends a lease that is still this guard's and had
\* not expired when the clock was read.  By the time the UPDATE executes it may
\* have: then the lease comes back, and nobody looks at the other scope.
Renew(w, k) ==
    /\ pc[w] = "holding"
    /\ k \in Guards(w)
    /\ \E t \in ReadClock(RenewLag) :
        /\ Owned(w, k, t)
        /\ row' = [row EXCEPT ![k].expires = t + Ttl]
        /\ revived' = revived \cup {m \in {k} : ~Live(m, now) /\ t + Ttl > now}
    /\ UNCHANGED <<now, pc, want, guard, seen, orphan>>

\* Slip: the write transaction does not check its guards.
CommitUnfenced(w) ==
    /\ pc[w] = "holding"
    /\ LET S == UNION {Covers(k) : k \in Guards(w)} IN
        /\ \A a \in S : row[a].revision < MaxRevision
        /\ row' = [k \in Key |-> IF k \in S THEN Bumped(row[k]) ELSE row[k]]
        /\ seen' = [seen EXCEPT ![w] = [a \in Account |->
                        IF a \in S THEN row[a].revision + 1 ELSE seen[w][a]]]
    /\ UNCHANGED <<now, pc, want, guard, orphan, revived>>

\* The transaction of fenced_fact_write: every guard is checked against the
\* rows it locked, and the revision of every covered account moves on.
Commit(w) ==
    /\ pc[w] = "holding"
    /\ \A k \in Guards(w) : Owned(w, k, now)
    /\ LET S == UNION {Covers(k) : k \in Guards(w)} IN
        /\ \A a \in S : row[a].revision < MaxRevision
        /\ row' = [k \in Key |-> IF k \in S THEN Bumped(row[k]) ELSE row[k]]
        /\ seen' = [seen EXCEPT ![w] = [a \in Account |->
                        IF a \in S THEN row[a].revision + 1 ELSE seen[w][a]]]
    /\ UNCHANGED <<now, pc, want, guard, orphan, revived>>

\* The finally block, entered at the end of the job and on LeaseLostError:
\* guards are released in descending order, and a release touches only a row
\* that still carries this guard's owner and token.
Release(w) ==
    /\ pc[w] \in {"holding", "releasing"}
    /\ \E k \in Guards(w) :
        /\ \A m \in Guards(w) : m <= k
        /\ row' = IF Matches(w, k)
                  THEN [row EXCEPT ![k] = Released(@)]
                  ELSE row
        /\ guard' = [guard EXCEPT ![w][k] = 0]
        /\ IF Guards(w) = {k} THEN EndJob(w)
           ELSE pc' = [pc EXCEPT ![w] = "releasing"] /\ UNCHANGED <<want, seen>>
    /\ UNCHANGED <<now, orphan, revived>>

\* The process dies: the finally block does not run, the rows keep its leases.
Crash(w) ==
    /\ pc[w] # "idle"
    /\ orphan' = orphan \cup {k \in Guards(w) : Matches(w, k)}
    /\ guard' = [guard EXCEPT ![w] = [k \in Key |-> 0]]
    /\ EndJob(w)
    /\ UNCHANGED <<now, row, revived>>

Tick ==
    /\ now < MaxTime
    /\ now' = now + 1
    /\ UNCHANGED <<row, pc, want, guard, seen, orphan, revived>>

Next ==
    \/ \E w \in Worker :
        \/ Start(w) \/ Acquire(w) \/ AcquireBusy(w)
        \/ Commit(w) \/ Release(w) \/ Crash(w)
        \/ \E k \in Key : Renew(w, k)
    \/ Tick

Spec == Init /\ [][Next]_vars

-----------------------------------------------------------------------------
(* Properties *)

\* No lease under the keys of an account has come back after it had expired.
Unrevived(a) == {Global, a} \cap revived = {}

\* The global lease and an account lease are live together only when one of
\* them had expired and was brought back by a renewal that read its clock too
\* early; no order of acquires, stalls, deaths and releases makes them overlap.
ScopeExclusion ==
    \A a \in Account : Live(Global, now) /\ Live(a, now) => ~Unrevived(a)

\* While a guard passes assert_owned, the facts read under it are the current
\* ones: between the grant and the commit no other job, under the same key or
\* under the other scope, has committed.  What a job computes from its reads
\* is therefore never based on a superseded revision, except when its lease,
\* or one of the other scope, was brought back after its expiry.
ReadsStayCurrent ==
    \A w \in Worker : \A k \in Guards(w) : \A a \in Covers(k) :
        Owned(w, k, now) /\ Unrevived(a) => seen[w][a] = row[a].revision

\* No lease leaks: a row with an owner belongs to a guard some job still has
\* (and will release) or to a process that died.  A job that gave up half way
\* through its keys leaves nothing locked.
LeaseHasHolder ==
    \A w \in Worker, k \in Key :
        row[k].owner = w => guard[w][k] = row[k].token \/ k \in orphan

\* The lease implements the fenced writer: expiry, release and the death of a
\* process map to the abstract ones, every commit is a holder's write, and all
\* that a late renewal can do is to bring back a lease that nobody else was
\* granted since.
HolderOf(k) ==
    IF ~Live(k, now) THEN NoOwner
    ELSE IF k \in orphan THEN Orphan ELSE row[k].owner

GrantedTo(k) ==
    IF row[k].owner # NoOwner /\ k \in orphan THEN Orphan ELSE row[k].owner

Abstract == INSTANCE FencedWriter WITH
    Nobody  <- NoOwner,
    holder  <- [k \in Key |-> HolderOf(k)],
    fact    <- [a \in Account |-> row[a].revision],
    granted <- [k \in Key |-> GrantedTo(k)],
    late    <- revived

ImplementsFencedWriter == Abstract!FencedSpec
=============================================================================
