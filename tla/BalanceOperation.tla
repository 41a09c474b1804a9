-------------------------- MODULE BalanceOperation --------------------------
(***************************************************************************)
(* Applying a recommended balance: backend/monitor/balance_operations.py.  *)
(*                                                                         *)
(* A participant has one balance on the remote Sub2API server, paid for by *)
(* several accounts.  Setting it is journaled: a durable operation records *)
(* the amount and the fact revision of every source account before the     *)
(* request is sent, then that the remote side confirmed, then that the     *)
(* local evidence is committed.  The server loses responses, processes     *)
(* stall past their leases or die, the database refuses a transaction.     *)
(*                                                                         *)
(* Leases are those of ExclusiveWriter, which FactLease implements.  Each  *)
(* database transaction, and each remote call with the lease renewal the   *)
(* code makes right before it, is one step: no lease ends inside a call.   *)
(***************************************************************************)
EXTENDS ExclusiveWriter, Sequences

CONSTANTS
    Participant,
    Contracts,      \* possible contracts: which accounts pay for whom
    MaxAmount,      \* bound on balances
    MaxOps,         \* bound on the journal
    MaxWrites,      \* bound on the writes of other jobs
    MaxFaults       \* bound on crashes, stalls and database errors

ASSUME BalanceOperationAssumption ==
    /\ Contracts \subseteq [Participant -> SUBSET Account]
    /\ Contracts # {}
    /\ Participant # {}
    /\ MaxAmount \in Nat
    /\ MaxOps \in Nat
    /\ MaxWrites \in Nat
    /\ MaxFaults \in Nat

VARIABLES
    contract,   \* the accounts of each participant (pool allocations)
    ops,        \* the ParticipantBalanceOperation rows, oldest first
    remote,     \* balance of each participant on the Sub2API server
    late,       \* requests the client gave up on that may still take effect
    local,      \* latest_balance_usd of each participant
    advice,     \* the recommended balance of each participant
    pc, job,    \* where each worker is in apply_participant_recommendation
    writes, faults

Amount == 0 .. MaxAmount

data == <<contract, ops, remote, late, local, advice>>
vars == <<holder, fact, contract, ops, remote, late, local, advice, pc, job, writes, faults>>

NoOp  == 0
State == {"prepared", "reconciliation_required", "remote_confirmed", "committed"}
Step  == {"idle", "acquire", "prepare", "attempt", "read", "set",
          "uncertain", "confirm", "commit", "release"}

Operation ==
    [participant : Participant, requested : Amount, state : State,
     sources : SUBSET Account, base : [Account -> Nat]]

\* How the server is asked for a balance: zero is reached by subtracting what
\* was read just before.
Request == [participant : Participant, operation : {"set", "subtract"}, amount : Amount]

Job   == [participant : Participant, keys : SUBSET Account, op : Nat, created : BOOLEAN]
NoJob == [participant |-> CHOOSE p \in Participant : TRUE,
          keys |-> {}, op |-> NoOp, created |-> FALSE]

TypeOK ==
    /\ AbstractTypeOK
    /\ contract \in Contracts
    /\ ops \in Seq(Operation)
    /\ remote \in [Participant -> Amount]
    /\ late \in SUBSET Request
    /\ local \in [Participant -> Amount]
    /\ advice \in [Participant -> Amount]
    /\ pc \in [Worker -> Step]
    /\ job \in [Worker -> Job]
    /\ \A w \in Worker : job[w].op \in {NoOp} \cup DOMAIN ops
    /\ writes \in Nat
    /\ faults \in Nat

Init ==
    /\ AbstractInit
    /\ contract \in Contracts
    /\ ops = <<>>
    /\ remote = [p \in Participant |-> 0]
    /\ late = {}
    /\ local = [p \in Participant |-> 0]
    /\ advice \in [Participant -> Amount]
    /\ pc = [w \in Worker |-> "idle"]
    /\ job = [w \in Worker |-> NoJob]
    /\ writes = 0
    /\ faults = 0

-----------------------------------------------------------------------------
(* What the code asks of the journal and of the leases *)

Sources(o)   == ops[o].sources
Unfinished   == {o \in DOMAIN ops : ops[o].state # "committed"}
\* Slip: an operation whose first request was never recorded is not seen.
PendingOfUncertain(p) ==
    {o \in Unfinished : ops[o].participant = p /\ ops[o].state = "reconciliation_required"}
PendingOf(p) == {o \in Unfinished : ops[o].participant = p}

First(S) == CHOOSE o \in S : \A m \in S : o <= m

\* Slip: only operations known to be uncertain block the other writers.
BlockedWhenUncertain(a) ==
    \E o \in Unfinished : a \in Sources(o) /\ ops[o].state = "reconciliation_required"

\* Acquiring the lease of an account is refused to every other job while an
\* unfinished operation is based on that account.
Blocked(a) == \E o \in Unfinished : a \in Sources(o)

\* needs_manual_update of the aggregate recommendation.
NeedsUpdate(p) == local[p] # advice[p]

\* renew() and assert_owned() succeed for every guard of the job.
Owns(w) == \A a \in job[w].keys : holder[a] = w

\* _validate_operation_sources: every source is guarded and unchanged.
ValidFor(w, o) ==
    \A a \in Sources(o) : a \in job[w].keys /\ fact[a] = ops[o].base[a]

Sent(o) ==
    IF o.requested = 0
    THEN [participant |-> o.participant, operation |-> "subtract", amount |-> remote[o.participant]]
    ELSE [participant |-> o.participant, operation |-> "set", amount |-> o.requested]

Goto(w, step) == pc' = [pc EXCEPT ![w] = step]
SetState(o, s) == ops' = [ops EXCEPT ![o].state = s]

-----------------------------------------------------------------------------
(* apply_participant_recommendation *)

\* The accounts to guard are read before any lease is held.
Start(w, p) ==
    LET paid == contract[p]
        pend == PendingOf(p)
        keys == IF pend = {} THEN paid ELSE paid \cup Sources(First(pend))
    IN
    /\ pc[w] = "idle"
    /\ keys # {}
    /\ job' = [job EXCEPT ![w] = [participant |-> p, keys |-> keys,
                                  op |-> NoOp, created |-> FALSE]]
    /\ Goto(w, "acquire")
    /\ UNCHANGED <<holder, fact, data, writes, faults>>

\* _acquire_guards: in ascending order, giving everything back when one is busy.
Acquire(w) ==
    /\ pc[w] = "acquire"
    /\ \E a \in job[w].keys \ HeldBy(w) :
        /\ \A b \in job[w].keys \ HeldBy(w) : a <= b
        /\ IF Free(a) THEN Take(w, a) /\ UNCHANGED pc
           ELSE Goto(w, "release") /\ UNCHANGED <<holder, fact>>
    /\ UNCHANGED <<data, job, writes, faults>>

Acquired(w) ==
    /\ pc[w] = "acquire"
    /\ Owns(w)
    /\ Goto(w, "prepare")
    /\ UNCHANGED <<holder, fact, data, job, writes, faults>>

\* Slip: an operation under reconciliation is not taken up again.
PrepareAgainUnlessUncertain(w) ==
    LET pend == PendingOf(job[w].participant)
        o    == First(pend)
    IN
    /\ pc[w] = "prepare"
    /\ Owns(w)
    /\ pend # {}
    /\ ValidFor(w, o)
    /\ ops[o].state # "reconciliation_required"
    /\ job' = [job EXCEPT ![w].op = o]
    /\ Goto(w, IF ops[o].state = "remote_confirmed" THEN "commit" ELSE "attempt")
    /\ UNCHANGED <<holder, fact, data, writes, faults>>

\* An unfinished operation of the participant is taken up again.
PrepareAgain(w) ==
    LET pend == PendingOf(job[w].participant)
        o    == First(pend)
    IN
    /\ pc[w] = "prepare"
    /\ Owns(w)
    /\ pend # {}
    /\ ValidFor(w, o)
    /\ job' = [job EXCEPT ![w].op = o]
    /\ Goto(w, IF ops[o].state = "remote_confirmed" THEN "commit" ELSE "attempt")
    /\ UNCHANGED <<holder, fact, data, writes, faults>>

\* Slip: the request is prepared without a row in the journal.
PrepareUnjournaled(w) ==
    LET p == job[w].participant IN
    /\ pc[w] = "prepare"
    /\ Owns(w)
    /\ PendingOf(p) = {}
    /\ NeedsUpdate(p)
    /\ contract[p] = job[w].keys
    /\ job' = [job EXCEPT ![w].op = Len(ops) + 1, ![w].created = TRUE]
    /\ Goto(w, "attempt")
    /\ UNCHANGED <<holder, fact, data, writes, faults>>

\* A new operation is journaled, with the revisions it is based on.
PrepareNew(w) ==
    LET p == job[w].participant IN
    /\ pc[w] = "prepare"
    /\ Owns(w)
    /\ PendingOf(p) = {}
    /\ NeedsUpdate(p)
    /\ contract[p] = job[w].keys
    /\ Len(ops) < MaxOps
    /\ ops' = Append(ops, [participant |-> p, requested |-> advice[p], state |-> "prepared",
                           sources |-> job[w].keys,
                           base |-> [a \in Account |-> IF a \in job[w].keys THEN fact[a] ELSE 0]])
    /\ job' = [job EXCEPT ![w].op = Len(ops) + 1, ![w].created = TRUE]
    /\ Goto(w, "attempt")
    /\ UNCHANGED <<holder, fact, contract, remote, late, local, advice, writes, faults>>

\* BalanceOperationConflict: superseded sources, nothing to do, or accounts
\* that changed since Start.
PrepareConflict(w) ==
    LET p == job[w].participant IN
    /\ pc[w] = "prepare"
    /\ Owns(w)
    /\ IF PendingOf(p) # {} THEN ~ValidFor(w, First(PendingOf(p)))
       ELSE ~NeedsUpdate(p) \/ contract[p] # job[w].keys
    /\ Goto(w, "release")
    /\ UNCHANGED <<holder, fact, data, job, writes, faults>>

RecordAttempt(w) ==
    /\ pc[w] = "attempt"
    /\ Owns(w) /\ ValidFor(w, job[w].op)
    /\ Goto(w, IF job[w].created THEN "set" ELSE "read")
    /\ UNCHANGED <<holder, fact, data, job, writes, faults>>

\* A retry first reads the remote balance; the call may fail.
ReadRemote(w) ==
    LET o == ops[job[w].op] IN
    /\ pc[w] = "read"
    /\ Owns(w)
    /\ Goto(w, IF remote[o.participant] = o.requested THEN "confirm" ELSE "set")
    /\ UNCHANGED <<holder, fact, data, job, writes, faults>>

ReadFails(w) ==
    /\ pc[w] = "read"
    /\ Owns(w)
    /\ Goto(w, "uncertain")
    /\ UNCHANGED <<holder, fact, data, job, writes, faults>>

\* Slip: the leases are not renewed right before the request.
SetUnrenewed(w) ==
    LET o == ops[job[w].op] IN
    /\ pc[w] = "set"
    /\ remote' = [remote EXCEPT ![o.participant] = o.requested]
    /\ Goto(w, "confirm")
    /\ UNCHANGED <<holder, fact, contract, ops, late, local, advice, job, writes, faults>>

\* The balance is set and the answer arrives.
SetConfirmed(w) ==
    LET o == ops[job[w].op] IN
    /\ pc[w] = "set"
    /\ Owns(w)
    /\ remote' = [remote EXCEPT ![o.participant] = o.requested]
    /\ Goto(w, "confirm")
    /\ UNCHANGED <<holder, fact, contract, ops, late, local, advice, job, writes, faults>>

\* No usable answer: the request was refused, took effect, or still may.
SetUncertain(w) ==
    LET o == ops[job[w].op] IN
    /\ pc[w] = "set"
    /\ Owns(w)
    /\ \/ UNCHANGED <<remote, late>>
       \/ remote' = [remote EXCEPT ![o.participant] = o.requested] /\ UNCHANGED late
       \/ late' = late \cup {Sent(o)} /\ UNCHANGED remote
    /\ Goto(w, "uncertain")
    /\ UNCHANGED <<holder, fact, contract, ops, local, advice, job, writes, faults>>

MarkReconciliationRequired(w) ==
    /\ pc[w] = "uncertain"
    /\ Owns(w) /\ ValidFor(w, job[w].op)
    /\ SetState(job[w].op, "reconciliation_required")
    /\ Goto(w, "release")
    /\ UNCHANGED <<holder, fact, contract, remote, late, local, advice, job, writes, faults>>

MarkRemoteConfirmed(w) ==
    /\ pc[w] = "confirm"
    /\ Owns(w) /\ ValidFor(w, job[w].op)
    /\ SetState(job[w].op, "remote_confirmed")
    /\ Goto(w, "commit")
    /\ UNCHANGED <<holder, fact, contract, remote, late, local, advice, job, writes, faults>>

\* Slip: the operation is marked committed in a transaction of its own, and
\* the evidence is not written with it.
CommitStateOnly(w) ==
    LET o == job[w].op IN
    /\ pc[w] = "commit"
    /\ Owns(w) /\ ValidFor(w, o)
    /\ ops[o].state = "remote_confirmed"
    /\ SetState(o, "committed")
    /\ Goto(w, "release")
    /\ UNCHANGED <<holder, fact, contract, remote, late, local, advice, job, writes, faults>>

\* The local evidence: the participant's balance, and a new revision of
\* every source account.
Commit(w) ==
    LET o == job[w].op IN
    /\ pc[w] = "commit"
    /\ Owns(w) /\ ValidFor(w, o)
    /\ ops[o].state = "remote_confirmed"
    /\ SetState(o, "committed")
    /\ local' = [local EXCEPT ![ops[o].participant] = ops[o].requested]
    /\ Write(w, Sources(o))
    /\ Goto(w, "release")
    /\ UNCHANGED <<contract, remote, late, advice, job, writes, faults>>

\* LeaseLostError, or a conflict with the sources of the operation.
Refused(w) ==
    /\ \/ pc[w] \in {"prepare", "read", "set"} /\ ~Owns(w)
       \/ /\ pc[w] \in {"attempt", "uncertain", "confirm", "commit"}
          /\ ~(Owns(w) /\ ValidFor(w, job[w].op))
    /\ Goto(w, "release")
    /\ UNCHANGED <<holder, fact, data, job, writes, faults>>

\* The finally block: whatever is still this job's is given back.
Release(w) ==
    /\ pc[w] = "release"
    /\ Lapse(HeldBy(w))
    /\ Goto(w, "idle")
    /\ job' = [job EXCEPT ![w] = NoJob]
    /\ UNCHANGED <<data, writes, faults>>

-----------------------------------------------------------------------------
(* Faults *)

Fault == faults < MaxFaults /\ faults' = faults + 1

\* A DatabaseError rolls the transaction back and ends the job.
DatabaseFails(w) ==
    /\ pc[w] \in {"prepare", "attempt", "uncertain", "confirm", "commit"}
    /\ Fault
    /\ Goto(w, "release")
    /\ UNCHANGED <<holder, fact, data, job, writes>>

Crash(w) ==
    /\ pc[w] # "idle"
    /\ Fault
    /\ Abandon(w)
    /\ Goto(w, "idle")
    /\ job' = [job EXCEPT ![w] = NoJob]
    /\ UNCHANGED <<data, writes>>

\* A job stalls for longer than its lease.
Stall(a) ==
    /\ holder[a] \in Worker
    /\ Fault
    /\ Lapse({a})
    /\ UNCHANGED <<data, pc, job, writes>>

\* The lease of a dead process runs out.
OrphanExpires(a) ==
    /\ holder[a] = Orphan
    /\ Lapse({a})
    /\ UNCHANGED <<data, pc, job, writes, faults>>

-----------------------------------------------------------------------------
(* The rest of the system *)

\* Usage charges the participant's balance.
Spend(p) ==
    /\ \E b \in Amount : b < remote[p] /\ remote' = [remote EXCEPT ![p] = b]
    /\ UNCHANGED <<holder, fact, contract, ops, late, local, advice, pc, job, writes, faults>>

TakesEffectLate ==
    /\ \E r \in late :
        /\ remote' = [remote EXCEPT ![r.participant] =
                        IF r.operation = "set" THEN r.amount
                        ELSE IF r.amount <= @ THEN @ - r.amount ELSE @]
        /\ late' = late \ {r}
    /\ UNCHANGED <<holder, fact, contract, ops, local, advice, pc, job, writes, faults>>

\* Another fenced write of the accounts in S, made while no lease it conflicts
\* with is held and no unfinished operation blocks it.
OtherWrite(S) ==
    /\ writes < MaxWrites
    /\ writes' = writes + 1
    /\ \A a \in S : Free(a) /\ ~Blocked(a)
    /\ fact' = [a \in Account |-> IF a \in S THEN fact[a] + 1 ELSE fact[a]]
    /\ UNCHANGED <<holder, ops, remote, late, pc, job, faults>>

\* A sample of an account observes the balances of its participants and gives
\* them new advice.
Sample(a) ==
    LET who == {p \in Participant : a \in contract[p]} IN
    /\ OtherWrite({a})
    /\ local' = [p \in Participant |-> IF p \in who THEN remote[p] ELSE local[p]]
    /\ \E f \in [who -> Amount] :
        advice' = [p \in Participant |-> IF p \in who THEN f[p] ELSE advice[p]]
    /\ UNCHANGED contract

\* The administrator saves another allocation of the pools, under the leases
\* of all accounts.
Reallocate ==
    /\ OtherWrite(Account)
    /\ contract' \in Contracts \ {contract}
    /\ UNCHANGED <<local, advice>>

-----------------------------------------------------------------------------
Operate(w) ==
    \/ Acquire(w) \/ Acquired(w)
    \/ PrepareAgain(w) \/ PrepareNew(w) \/ PrepareConflict(w)
    \/ RecordAttempt(w) \/ ReadRemote(w) \/ ReadFails(w)
    \/ SetConfirmed(w) \/ SetUncertain(w)
    \/ MarkReconciliationRequired(w) \/ MarkRemoteConfirmed(w)
    \/ Commit(w) \/ Refused(w) \/ Release(w)

Next ==
    \/ \E w \in Worker :
        \/ \E p \in Participant : Start(w, p)
        \/ Operate(w) \/ DatabaseFails(w) \/ Crash(w)
    \/ \E a \in Account : Stall(a) \/ OrphanExpires(a) \/ Sample(a)
    \/ \E p \in Participant : Spend(p)
    \/ TakesEffectLate
    \/ Reallocate

Spec == Init /\ [][Next]_vars

\* A job runs to its end unless it dies, leases of the dead run out, someone
\* keeps applying each participant's advice, and the server keeps answering
\* some of the requests.
Fairness ==
    /\ \A w \in Worker : WF_vars(Operate(w)) /\ SF_vars(ReadRemote(w)) /\ SF_vars(SetConfirmed(w))
    /\ \A w \in Worker, p \in Participant : SF_vars(PendingOf(p) # {} /\ Start(w, p))
    /\ \A a \in Account : WF_vars(OrphanExpires(a))

FairSpec == Spec /\ Fairness

-----------------------------------------------------------------------------
(* Properties *)

\* What a reader of the documentation expects: an unfinished operation blocks
\* the other writers of its accounts, so that their revisions stay the ones it
\* is based on and a retry can complete it.
PendingSourcesFrozen ==
    \A o \in Unfinished : \A a \in Sources(o) : fact[a] = ops[o].base[a]

\* Operation m, of another participant the account pays for at the same time,
\* committed last on that account, when o was already based on it.
PassedBy(m, o, a) ==
    /\ ops[m].participant # ops[o].participant
    /\ a \in Sources(m)
    /\ \A p \in {ops[m].participant, ops[o].participant} : a \in contract[p]
    /\ ops[m].base[a] >= ops[o].base[a]
    /\ fact[a] = ops[m].base[a] + 1

\* What the pending-operation gate does give, for any contracts: the revisions
\* an unfinished operation is based on are moved by no sample, no reallocation
\* and no other writer, only by commits of operations of participants that
\* share the account; no account is taken from the operation's participant.
PendingSourcesKept ==
    \A o \in Unfinished : \A a \in Sources(o) :
        \/ fact[a] = ops[o].base[a]
        \/ \E m \in DOMAIN ops \ Unfinished : PassedBy(m, o, a)

\* A participant has at most one unfinished operation: two jobs never have two
\* different amounts under way for one balance.
OnePendingPerParticipant ==
    \A o, m \in Unfinished : ops[o].participant = ops[m].participant => o = m

\* Two operations never commit on the same revision of an account: each
\* committed amount was computed from evidence that includes the one before.
OneCommitPerRevision ==
    \A o, m \in DOMAIN ops \ Unfinished :
        \A a \in Sources(o) \cap Sources(m) :
            ops[o].base[a] = ops[m].base[a] => o = m

\* A request to set a balance is sent only for a journaled operation that is
\* not yet confirmed, by the job that holds all its accounts, and while the
\* facts it was computed from are current; a stalled job never sends for an
\* operation that somebody else has taken up and finished.
Sends(w) == SetConfirmed(w) \/ SetUncertain(w)

SendsAreCurrent ==
    [][\A w \in Worker : Sends(w) =>
        LET o == job[w].op IN
        /\ o \in Unfinished
        /\ ops[o].state # "remote_confirmed"
        /\ \A a \in Sources(o) : holder[a] = w /\ fact[a] = ops[o].base[a]]_vars

\* An operation that was journaled is eventually committed, whatever was lost
\* on the way, as long as its advice is applied again.
PendingResolves ==
    \A o \in 1 .. MaxOps : (o \in Unfinished) ~> (o \in DOMAIN ops \ Unfinished)
=============================================================================
