--------------------------- MODULE UpstreamPricing ---------------------------
(***************************************************************************)
(* Writing pricing rules into the groups of the upstream service, and      *)
(* taking them back: upstream_pricing/service.py over the journal          *)
(* UpstreamPricingState, with the settings' change of the connection and   *)
(* the samples that record under which prices they were taken.             *)
(*                                                                         *)
(* A group's managed fields are [base, by]: the prices an operator gave    *)
(* it, and the rules that were multiplied into them since.  An operation   *)
(* holds the lease of account 0, which excludes every sample and every     *)
(* change of the settings (module FactLease); it is the process `op`, and  *)
(* may stop at any step: a crash, or the loss of its lease, which the next *)
(* renewal or save notices.                                                *)
(***************************************************************************)
EXTENDS Integers, Sequences, FiniteSets

CONSTANTS Url, Group, Account,
          Rules,         \* the policies that change prices
          NoRules,       \* the policy without rules
          Recommended,   \* the policy of the announcement
          Member,        \* the groups of each account, to begin with
          NoUrl, NoValue,
          MaxOperations, \* bound: operations, of both kinds
          MaxChanges,    \* bound: changes others make
          MaxFaults      \* bound: requests that fail and operations that stop

ASSUME PricingAssumption ==
    /\ Group \subseteq Nat /\ IsFiniteSet(Group)
    /\ Recommended \in Rules /\ NoRules \notin Rules
    /\ NoUrl \notin Url
    /\ NoValue \notin [base : Nat, by : Seq(Rules)]
    /\ Member \in [Account -> SUBSET Group]
    /\ MaxOperations \in Nat /\ MaxChanges \in Nat /\ MaxFaults \in Nat

VARIABLES upstream,   \* upstream[u][g]: the managed fields of a group
          late,       \* late[u][g]: a write whose answer was lost and that may land
          member,     \* the groups of each account, upstream
          connection, \* sub2api_base_url
          journal,    \* UpstreamPricingState
          accounts,   \* MonitoredAccount: enabled, applied, epoch
          op,         \* the running operation
          kept,       \* a sample, remembered to compare later prices with
          overtaken,  \* a write landed after its group had been read again
          strayed,    \* the accounts that moved since their groups were read
          operations, changes, faults

bounds == <<operations, changes, faults>>
service == <<upstream, late, member, overtaken, strayed>>
vars == <<service, connection, journal, accounts, op, kept, bounds>>

Policy == Rules \cup {NoRules}
Value == [base : Nat, by : Seq(Rules)]

Absent == [status |-> "absent", baseline |-> NoValue, before |-> NoValue,
           after |-> NoValue, pending |-> FALSE, accounts |-> {}]

NoOp == [kind |-> "none"]
NoSample == [account |-> NoValue]
NoWrite == [value |-> NoValue, read |-> FALSE]

\* PricingPlanner.plan, when it does not refuse: from the baseline.
Plan(value, policy) ==
    IF policy = NoRules THEN value ELSE [value EXCEPT !.by = Append(@, policy)]

\* Slip: a write that may or may not have landed is not taken back.
SlipConfirmedOnly(t) ==
    t.baseline # NoValue /\ t.status # "reverted" /\ t.after # t.baseline

\* _needs_revert
NeedsRevert(t) ==
    /\ t.baseline # NoValue
    /\ t.status # "reverted"
    /\ \/ t.after # t.baseline
       \/ t.pending /\ t.before # t.baseline

\* Slip: the prices before an unanswered write are not recognised.
SlipForgetBefore(value, t) == value \in {t.baseline, t.after}

\* _matches_journal
MatchesJournal(value, t) ==
    \/ value \in {t.baseline, t.after}
    \/ t.pending /\ value = t.before

Init ==
    /\ upstream = [u \in Url |-> [g \in Group |-> [base |-> 0, by |-> <<>>]]]
    /\ late = [u \in Url |-> [g \in Group |-> NoWrite]]
    /\ member = Member
    /\ connection \in Url
    /\ journal = [url |-> NoUrl, policy |-> Recommended, selected |-> {},
                  revision |-> 0, status |-> "pending", announced |-> FALSE,
                  targets |-> [g \in Group |-> Absent]]
    /\ accounts = [a \in Account |-> [enabled |-> TRUE, applied |-> FALSE,
                                      epoch |-> [of |-> "pending", number |-> 0]]]
    /\ op = NoOp
    /\ kept = NoSample
    /\ overtaken = FALSE /\ strayed = {}
    /\ operations = 0 /\ changes = 0 /\ faults = 0

Fault == faults < MaxFaults /\ faults' = faults + 1
NoFault == faults' = faults

-----------------------------------------------------------------------------
(* The steps of an operation. *)

\* _save: the journal row of group g, and the rest of the operation.
SetTarget(g, t) == journal' = [journal EXCEPT !.targets[g] = t]
Goto(step) == op' = [op EXCEPT !.step = step]
GroupDone == op' = [op EXCEPT !.step = "group", !.todo = @ \ {op.group}]

Running(kind, step) == op.kind = kind /\ op.step = step
StepFrame == UNCHANGED <<member, connection, kept, operations, changes>>

\* A read of group g: a write still on its way from now on lands late.
ReadsGroup(g) == late' = [late EXCEPT ![op.url][g].read = @ \/ late[op.url][g].value # NoValue]

\* Slip: only the epoch is renewed.
SlipStillApplied(S) ==
    [a \in Account |->
        IF a \in S THEN [accounts[a] EXCEPT
                            !.epoch = [of |-> "none", number |-> journal.revision]]
        ELSE accounts[a]]

\* The accounts of S get no confirmed prices, and a new epoch.
Unapplied(S) ==
    [a \in Account |->
        IF a \in S THEN [accounts[a] EXCEPT !.applied = FALSE,
                                            !.epoch = [of |-> "none", number |-> journal.revision]]
        ELSE accounts[a]]

\* apply_policy: from the lease to the first save.
BeginApply(policy, selected, announcement) ==
    LET moved == journal.url \notin {NoUrl, connection}
        enabled == {a \in Account : accounts[a].enabled}
    IN /\ op = NoOp
       /\ operations < MaxOperations
       /\ announcement => ~journal.announced /\ policy = Recommended
       /\ selected # {}
       /\ moved => \A g \in Group : ~NeedsRevert(journal.targets[g])
       /\ operations' = operations + 1
       /\ journal' = [journal EXCEPT
             !.url = connection, !.policy = policy, !.selected = selected,
             !.revision = @ + 1, !.status = "failed",
             !.announced = @ \/ announcement,
             !.targets = IF moved THEN [g \in Group |-> Absent] ELSE @]
       /\ op' = [kind |-> "apply", step |-> "release", url |-> connection,
                 todo |-> selected, targets |-> selected, group |-> 0,
                 accounts |-> enabled,
                 previous |-> [a \in enabled |-> accounts[a]],
                 groups |-> [a \in enabled |-> {}],
                 errors |-> {}, changed |-> {}]
       /\ UNCHANGED <<service, connection, accounts, kept, changes, faults>>

\* revert_policy: from the lease to the first save.
BeginRevert ==
    LET targets == {g \in Group : NeedsRevert(journal.targets[g])}
    IN /\ op = NoOp
       /\ operations < MaxOperations
       /\ connection = journal.url
       /\ targets # {}
       /\ operations' = operations + 1
       /\ journal' = [journal EXCEPT !.revision = @ + 1, !.status = "failed"]
       /\ op' = [kind |-> "revert", step |-> "release", url |-> connection,
                 todo |-> targets, targets |-> targets, group |-> 0,
                 accounts |-> UNION {journal.targets[g].accounts : g \in targets}]
       /\ UNCHANGED <<service, connection, accounts, kept, changes, faults>>

\* The first _set_accounts: nothing is confirmed while the operation runs.
ReleaseAccounts ==
    /\ op # NoOp /\ op.step = "release"
    /\ accounts' = Unapplied(op.accounts)
    /\ Goto(IF op.kind = "apply" THEN "accounts" ELSE "group")
    /\ UNCHANGED <<service, journal, faults>> /\ StepFrame

\* The groups of the accounts; some of the requests may fail.
ReadAccounts(errors) ==
    /\ Running("apply", "accounts")
    /\ errors \subseteq op.accounts
    /\ IF errors = {} THEN NoFault ELSE Fault
    /\ op' = [op EXCEPT !.step = "group", !.errors = errors,
                        !.groups = [a \in op.accounts |->
                                      IF a \in errors THEN {} ELSE member[a]]]
    /\ strayed' = strayed \ (op.accounts \ errors)
    /\ UNCHANGED <<upstream, late, overtaken, journal, accounts>> /\ StepFrame

\* The catalog cannot be read: the operation goes straight to its end.
PlannerFails ==
    /\ Running("apply", "accounts")
    /\ Fault
    /\ op' = [op EXCEPT !.step = "settle", !.errors = op.accounts]
    /\ UNCHANGED <<service, journal, accounts>> /\ StepFrame

Chosen(g) == /\ op # NoOp /\ op.step = "group"
             /\ g \in op.todo
             /\ \A h \in op.todo : g <= h

\* The journal row of g with the accounts that were ever found in the group.
Owned(g) ==
    [journal.targets[g] EXCEPT
        !.accounts = @ \cup IF op.kind = "apply"
                              THEN {a \in op.accounts : g \in op.groups[a]} ELSE {}]

\* Whatever fails for a group closes its row for this operation.
FailGroup(g, t) ==
    /\ SetTarget(g, [t EXCEPT !.status = "failed"])
    /\ op' = [op EXCEPT !.step = "group", !.todo = @ \ {g}]

GroupUnreadable(g) ==
    /\ Chosen(g)
    /\ Fault
    /\ FailGroup(g, Owned(g))
    /\ UNCHANGED <<service, accounts>> /\ StepFrame

\* A reverted row is taken over afresh.
Forgotten(t) == [Absent EXCEPT !.status = t.status, !.accounts = t.accounts]
Reopened(t) == IF t.status = "reverted" THEN Forgotten(t) ELSE t

\* Slip: the prices just read are what the rules are multiplied into.
SlipBaselineIsCurrent(t, current) == current
Baseline(t, current) == IF t.baseline = NoValue THEN current ELSE t.baseline

\* Read the group, plan, and write the journal before anything else.
PlanGroup(g) ==
    LET current == upstream[op.url][g]
        t == Reopened(Owned(g))
        baseline == Baseline(t, current)
        desired == Plan(baseline, journal.policy)
        Refused == t.after # NoValue /\ ~MatchesJournal(current, t)
    IN /\ op.kind = "apply" /\ Chosen(g)
       /\ ReadsGroup(g)
       /\ \/ Refused /\ FailGroup(g, t) /\ NoFault
          \/ ~Refused /\ Fault /\ FailGroup(g, t)   \* the planner refuses
          \/ /\ ~Refused /\ NoFault
             /\ SetTarget(g, [t EXCEPT !.baseline = baseline, !.before = current,
                                       !.after = desired, !.status = "pending",
                                       !.pending = (current # desired)])
             /\ op' = [op EXCEPT !.group = g,
                                 !.step = IF current # desired THEN "mark" ELSE "verify"]
       /\ UNCHANGED <<upstream, overtaken, strayed, accounts>> /\ StepFrame

\* Every account ever found in the group loses its confirmation first.
MarkChanged ==
    LET owners == journal.targets[op.group].accounts
    IN /\ Running("apply", "mark")
       /\ accounts' = Unapplied(owners)
       /\ op' = [op EXCEPT !.step = "put", !.changed = @ \cup owners]
       /\ UNCHANGED <<service, journal, faults>> /\ StepFrame

\* Slip: a confirmed row keeps its write open.
SlipLeftOpen(t, status) == [t EXCEPT !.status = status]

\* A row whose prices were read as wanted.
Settled(t, status) == [t EXCEPT !.status = status, !.pending = FALSE]

\* revert_policy's turn of a group, up to the write.
PlanRevert(g) ==
    LET current == upstream[op.url][g]
        t == journal.targets[g]
    IN /\ op.kind = "revert" /\ Chosen(g)
       /\ ReadsGroup(g)
       /\ IF current = t.baseline
            THEN /\ SetTarget(g, Settled(t, "reverted"))
                 /\ op' = [op EXCEPT !.todo = @ \ {g}]
          ELSE IF ~MatchesJournal(current, t) THEN FailGroup(g, t)
          ELSE /\ SetTarget(g, [t EXCEPT !.before = current, !.pending = TRUE,
                                         !.status = "pending"])
               /\ op' = [op EXCEPT !.group = g, !.step = "put"]
       /\ UNCHANGED <<upstream, overtaken, strayed, accounts, faults>> /\ StepFrame

Wanted == LET t == journal.targets[op.group]
          IN IF op.kind = "apply" THEN t.after ELSE t.baseline

Land(u, g, value) == upstream' = [upstream EXCEPT ![u][g] = value]
Delay(u, g, value) == late' = [late EXCEPT ![u][g] = [value |-> value, read |-> FALSE]]

\* The write: it takes effect and is answered; or no answer comes, and it took
\* effect, may still do so, or never will.
Put ==
    LET g == op.group
        Unanswered == Fault /\ FailGroup(g, journal.targets[g])
    IN /\ op # NoOp /\ op.step = "put"
       /\ \/ Land(op.url, g, Wanted) /\ NoFault /\ Goto("verify") /\ UNCHANGED <<late, journal>>
          \/ Land(op.url, g, Wanted) /\ Unanswered /\ UNCHANGED late
          \/ Delay(op.url, g, Wanted) /\ Unanswered /\ UNCHANGED upstream
          \/ Unanswered /\ UNCHANGED <<upstream, late>>
       /\ UNCHANGED <<overtaken, strayed, accounts>> /\ StepFrame

\* Read back; only what is there as wanted is confirmed.
Verify ==
    LET g == op.group
        t == journal.targets[g]
        actual == upstream[op.url][g]
    IN /\ op # NoOp /\ op.step = "verify"
       /\ \/ Fault /\ SetTarget(g, [t EXCEPT !.status = "failed"]) /\ UNCHANGED late
          \/ /\ NoFault /\ ReadsGroup(g)
             /\ SetTarget(g,
                  IF actual # Wanted THEN [t EXCEPT !.status = "failed"]
                  ELSE Settled(t, IF op.kind = "apply" THEN "applied" ELSE "reverted"))
       /\ GroupDone
       /\ UNCHANGED <<upstream, overtaken, strayed, accounts>> /\ StepFrame

Confirmed(a) ==
    /\ journal.policy # NoRules
    /\ a \notin op.errors
    /\ op.groups[a] # {}
    /\ \A g \in op.groups[a] :
         g \in journal.selected /\ journal.targets[g].status = "applied"

\* Slip: an account keeps its epoch whether or not its prices changed.
SlipKeepsEpoch(a) == Confirmed(a) /\ op.previous[a].applied
KeepsEpoch(a) == Confirmed(a) /\ op.previous[a].applied /\ a \notin op.changed

\* The last _set_accounts of apply_policy.
SettleAccounts ==
    /\ op # NoOp /\ op.kind = "apply"
    /\ op.step = "settle" \/ (op.step = "group" /\ op.todo = {})
    /\ accounts' =
         [a \in Account |->
            IF a \notin op.accounts THEN accounts[a]
            ELSE [accounts[a] EXCEPT
                    !.applied = Confirmed(a),
                    !.epoch = IF KeepsEpoch(a) THEN op.previous[a].epoch
                              ELSE [of |-> IF Confirmed(a) THEN "applied" ELSE "none",
                                    number |-> journal.revision]]]
    /\ Goto("close")
    /\ UNCHANGED <<service, journal, faults>> /\ StepFrame

\* What the operation reports.
Outcome(done, good) ==
    IF op.todo = {} /\ done = op.targets THEN good
    ELSE IF done = {} \/ op.todo # {} THEN "failed" ELSE "partial"

Close ==
    LET Done(status) == {g \in op.targets : journal.targets[g].status = status}
    IN /\ op # NoOp
       /\ \/ op.kind = "apply" /\ op.step = "close"
          \/ op.kind = "revert" /\ op.step = "group" /\ op.todo = {}
       /\ journal' = [journal EXCEPT !.status =
             IF op.kind = "revert" THEN Outcome(Done("reverted"), "reverted")
             ELSE IF op.errors # {} /\ Done("applied") # {} /\ op.todo = {} THEN "partial"
             ELSE Outcome(Done("applied"), "applied")]
       /\ op' = NoOp
       /\ UNCHANGED <<service, accounts, faults>> /\ StepFrame

\* The process stops, or finds its lease lost; a write it was about to send may
\* be on its way.
Stop ==
    /\ op # NoOp
    /\ Fault
    /\ op' = NoOp
    /\ \/ UNCHANGED <<upstream, late>>
       \/ op.step = "put" /\ Land(op.url, op.group, Wanted) /\ UNCHANGED late
       \/ op.step = "put" /\ Delay(op.url, op.group, Wanted) /\ UNCHANGED upstream
    /\ UNCHANGED <<overtaken, strayed, journal, accounts>> /\ StepFrame

-----------------------------------------------------------------------------
(* What others do. *)

Change == changes < MaxChanges /\ changes' = changes + 1
ChangeFrame == UNCHANGED <<op, kept, operations, faults>>

\* An operator of the service gives a group new prices.
EditGroup(u, g) ==
    /\ Change
    /\ upstream' = [upstream EXCEPT ![u][g] = [base |-> changes + 1, by |-> <<>>]]
    /\ UNCHANGED <<late, member, overtaken, strayed, connection, journal, accounts>> /\ ChangeFrame

\* ... or puts an account into other groups.
MoveAccount(a, groups) ==
    /\ Change
    /\ groups # member[a]
    /\ member' = [member EXCEPT ![a] = groups]
    /\ strayed' = strayed \cup {a}
    /\ UNCHANGED <<upstream, late, overtaken, connection, journal, accounts>> /\ ChangeFrame

\* An administrator enables or disables a monitored account, under its lease.
ToggleAccount(a) ==
    /\ Change
    /\ op = NoOp
    /\ accounts' = [accounts EXCEPT ![a].enabled = ~@]
    /\ UNCHANGED <<service, connection, journal>> /\ ChangeFrame

\* SettingsView.patch with another address, under the leases of all accounts.
ChangeConnection(u) ==
    /\ Change
    /\ op = NoOp
    /\ u # connection
    /\ connection' = u
    /\ accounts' = [a \in Account |->
                      [accounts[a] EXCEPT !.applied = FALSE,
                                          !.epoch = [of |-> "connection", number |-> changes]]]
    /\ journal' = IF journal.url = NoUrl THEN journal
                  ELSE [journal EXCEPT !.status = "failed", !.selected = {}]
    /\ UNCHANGED service /\ ChangeFrame

\* A write whose answer was lost takes effect at last.
LateWrite(u, g) ==
    /\ late[u][g].value # NoValue
    /\ Land(u, g, late[u][g].value)
    /\ late' = [late EXCEPT ![u][g] = NoWrite]
    /\ overtaken' = (overtaken \/ late[u][g].read)
    /\ UNCHANGED <<member, strayed, connection, journal, accounts, op, kept, bounds>>

Prices(a) == [g \in member[a] |-> upstream[connection][g]]

\* create_raw_observation: the sample takes the account's epoch as it is.  One
\* taken while the prices count as confirmed is remembered.
Sample(a) ==
    /\ op = NoOp
    /\ accounts[a].applied /\ a \notin strayed
    /\ kept' = [account |-> a, epoch |-> accounts[a].epoch, prices |-> Prices(a)]
    /\ UNCHANGED <<service, connection, journal, accounts, op, bounds>>

Next ==
    \/ \E p \in Policy, s \in SUBSET Group, b \in BOOLEAN : BeginApply(p, s, b)
    \/ BeginRevert
    \/ ReleaseAccounts
    \/ \E e \in SUBSET Account : ReadAccounts(e)
    \/ PlannerFails
    \/ \E g \in Group : GroupUnreadable(g) \/ PlanGroup(g) \/ PlanRevert(g)
    \/ MarkChanged \/ Put \/ Verify
    \/ SettleAccounts \/ Close \/ Stop
    \/ \E u \in Url, g \in Group : EditGroup(u, g) \/ LateWrite(u, g)
    \/ \E a \in Account : ToggleAccount(a) \/ Sample(a)
    \/ \E a \in Account, s \in SUBSET Group : MoveAccount(a, s)
    \/ \E u \in Url : ChangeConnection(u)

Spec == Init /\ [][Next]_vars

-----------------------------------------------------------------------------
Target == [status : {"absent", "pending", "failed", "applied", "reverted"},
           baseline : Value \cup {NoValue}, before : Value \cup {NoValue},
           after : Value \cup {NoValue}, pending : BOOLEAN, accounts : SUBSET Account]

\* Types, and the shape of a journal row: baseline, before and after come and
\* go together, and a confirmed row has no write left open.
TypeOK ==
    /\ upstream \in [Url -> [Group -> Value]]
    /\ connection \in Url /\ journal.url \in Url \cup {NoUrl}
    /\ \A g \in Group :
         LET t == journal.targets[g]
         IN /\ t \in Target
            /\ (t.baseline = NoValue) <=> (t.after = NoValue)
            /\ (t.baseline = NoValue) <=> (t.before = NoValue)
            /\ t.status \in {"applied", "reverted"} => ~t.pending /\ t.after # NoValue
    /\ \A a \in Account : accounts[a].epoch.number \in Nat

\* Rules are never multiplied into prices that already contain rules, through
\* any sequence of applications, reverts, stops and lost answers
\* (docs/billing-corrections.md:10), unless a lost write landed after its group
\* had been read again.
NeverCompounded ==
    ~overtaken => \A u \in Url, g \in Group : Len(upstream[u][g].by) <= 1

\* Whatever of ours is in a group can be taken back: the journal of its service
\* has a row for it that still needs a revert (docs/billing-corrections.md:54).
WrittenCanBeReverted ==
    ~overtaken => \A u \in Url, g \in Group :
        upstream[u][g].by # <<>> => journal.url = u /\ NeedsRevert(journal.targets[g])

\* Stops and lost answers do not lock the operator out: while nobody else gave
\* the group new prices, its prices are among those the journal knows
\* (docs/billing-corrections.md:56).
NoFalseConflict ==
    ~overtaken => \A g \in Group :
        LET t == journal.targets[g]
        IN ( /\ journal.url # NoUrl
             /\ t.baseline # NoValue /\ t.status # "reverted"
             /\ upstream[journal.url][g].base = t.baseline.base )
           => MatchesJournal(upstream[journal.url][g], t)

\* An account that counts as applied has rules of ours in all its groups, at
\* every moment between operations: an operation that stops half-way, a group
\* left out and an account that was disabled meanwhile leave no confirmation
\* behind (docs/billing-corrections.md:70).  Prices given by others are seen
\* only by the next operation, and so are moves.
AppliedIsTrue ==
    (op = NoOp /\ ~overtaken) => \A a \in Account \ strayed : accounts[a].applied =>
        \A g \in member[a] :
            LET value == upstream[connection][g]
            IN value.base = journal.targets[g].baseline.base => value.by # <<>>

\* Samples that share a confirmed epoch were taken under the same prices, up to
\* what others change: an epoch that is kept never spans a write of ours.
EpochsSeparatePrices ==
    (op = NoOp /\ ~overtaken /\ kept # NoSample) =>
        LET a == kept.account
        IN (a \notin strayed /\ accounts[a].applied /\ accounts[a].epoch = kept.epoch) =>
              \A g \in member[a] \cap DOMAIN kept.prices :
                  Prices(a)[g].base = kept.prices[g].base => Prices(a)[g] = kept.prices[g]
=============================================================================
