# A verification model of Sub2Pool

Sub2Pool watches pooled upstream accounts (Sub2API and CPA), attributes their
cost to the participants who share them, recommends balances, and can act on the
upstream side: set a balance, take an account or a model out of service for a
while, re-price accounts, open a burst round. Several processes do this against
one SQLite database: web requests, the poll loop `runmonitor`, the stream
collector `runcpacollector`, research jobs. These modules model the protocols
that keep them from stepping on each other, check them with TLC on small
instances, and prove the central ones with TLAPS for all instances.

Paths below are relative to `backend/monitor/` unless they begin with `docs/`.

Contents: [inventory](#inventory), [modules](#modules), [runs](#runs),
[bounds](#bounds), [fairness](#fairness), [proofs](#proofs),
[disagreements with the code's documents](#disagreements),
[not modelled](#not-modelled), [plan](#plan).

## Inventory

One container runs a web server (several request threads), `runmonitor`,
`runcpacollector` and `runresearch`. They share no memory. What they share is
the business database (SQLite: writing transactions are serialised, a writer
waits up to 30 s for the lock) and the upstream servers. The collector has a
second SQLite file of its own, the usage spool, shared by its two threads.

| component | state | operations | interacts with |
|---|---|---|---|
| Maintenance lease: `history_state.py`, `models/history_maintenance.py` | one `HistoryMaintenanceState` row per account and one for the key 0 (everything): fact revision, fencing token, owner, expiry; a `LeaseGuard` in each job | acquire, renew, assert_owned, release, fenced_fact_write | every writer of facts |
| Balance application: `balance_operations.py`, `integrations/sub2api/users.py` | `ParticipantBalanceOperation` rows; the remote balance; `latest_balance_usd`; the recommendation | apply_participant_recommendation, auto_apply_recommendations | lease (all source accounts), Sub2API, sampling |
| Temporary disable: `temporary_disable.py` | `AccountTemporaryDisable` rows; scheduling and model whitelist upstream | create, update, restore, restore_due_disables | lease, Sub2API, poll loop |
| CPA usage collector: `runcpacollector.py`, `cpa/usage_spool.py`, `cpa/usage.py`, `cpa/monitoring.py`, `integrations/cpa/usage_stream.py` | the subscription; a reader thread; the spool (usage, boundaries, active session); usage events, collection intervals and observations in the business database | connect, begin and finish a session, barrier, flush, drain, persist a boundary, recover | lease, CPA, poll loop |
| Temporary burst: `temporary_burst.py` | sessions; a cycle per account and window with its members, their opening credits, edits and settlement | start_session, stop_session, reconcile_account, apply_carry_edits | global lease, sampling (settles), allocation of shares |
| Upstream pricing: `upstream_pricing/` | one `UpstreamPricingState` row: policy, revision, and a journal per group (baseline, before, after, write_pending); the pricing epoch of each account | apply_policy, revert_policy, run_automatic_migration | global lease, Sub2API |
| Historical rebuild: `historical_rebuild/` | `HistoricalRebuildRun` (ready, applying, applied, stale) with the digests it depends on | create_rebuild_plan, apply_rebuild_plan | lease, replay |
| Database transfer: `database_transfer.py`, `views/database.py` | the database file itself | export, import | global lease, its own token inside the imported file |
| Sampling and monitor loop: `engine.py`, `sampling/`, `runmonitor.py` | observations, usage samples, snapshots, per-account deadlines | run_monitor, _persist_capture, _rebuild_capture, schedule_next_run | lease, all of the above |
| Cycle boundaries: `accounting/boundaries.py` | none: a function of the stored observations and collection intervals | infer_segments | replay |
| Accounting and replay: `accounting/replay.py`, `accounting/commands.py`, `replayobservations` | what is derived into the observations: exclusion, segment, numbers; usage samples | rebuild_account (whole or suffix), exclude, restore, manual starts, start-up repair | sampling, collector, settings, rebuild |
| Reporting: `reporting/` | none | recommendations, costs, capacity | balance application |
| Corrections: `billing_correction/`, `fast_correction/` | correction rows beside the facts | settle, repair | inside the fenced writes of others |
| Research: `research/`, `runresearch.py` | `ResearchSettings` with a token and a fifteen minute lease of its own; batches with receipts | run_due | its own receiving server |
| API, access, notifications: `views/`, `serializers/`, `openapi/` | users, tokens | validation and dispatch | the services |
| Frontend, migrations | | | |

What is hard, and what would make each part correct:

- **Lease.** Jobs stall past their expiry and come back; processes die; two
  scopes (one account, all accounts) exclude each other through different rows;
  the clock is read before a statement that may wait. Correct: two live leases
  never conflict; what a job read under its lease is current when it commits;
  nothing stays locked.
- **Balance application.** A remote write that cannot be rolled back between two
  local transactions; answers get lost and requests take effect late; a retry may
  be made by another job. Correct: one operation per participant at a time, no
  request on superseded facts or by a job that was overtaken, nothing journaled
  is forgotten, nobody changes the facts an unfinished operation depends on.
- **Temporary disable.** The same without a revision: what to write back is
  remembered from before the first disable; writes fail after they took effect;
  the loop races administrators. Correct: rows without an error are true, what is
  restored is the original, due rows come back.
- **Collector.** Two threads, two databases and no transaction over both; usage
  must be stored before a percentage that includes it; boundaries of an account
  wait for busy leases and must not overtake each other; everything restarts.
  Correct: nothing leaves the spool before it is stored, a sample covers all the
  usage before it, the recorded end of a session survives, the spool drains.
- **Boundaries and replay.** What a percentage means depends on readings that
  come later, and on an administrator who excludes, restores and re-bases; a
  capture replays only a suffix, from an anchor computed out of what earlier
  replays derived; facts are committed before they are replayed. Correct: the
  derived rows are those of a full replay, whatever happened before; manual
  intervals stay whole; an exclusion goes when its cause goes; samples follow
  their rows; a collection gap ends a segment.
- **Pricing.** Remote group fields are read, planned, journaled, written and read
  back one group at a time; any of it may fail, answers get lost, writes land
  late, the process stops; operators edit the same groups. Correct: rules are
  never multiplied twice, all that was written can be taken back, what is the
  journal's own is never refused as foreign, and the confirmation and the epoch
  that samples carry are true.
- **Burst.** A round spans a window of every account; each account's window ends
  by itself, or is reset early, and is settled by whichever sample sees it first,
  or later when its evidence arrives; a stop, edits and changes of people fall in
  between. Correct: one round at a time, credits sum to zero and arrive, settled
  cycles never change.
- **Rebuild, import, research**: see the hazards in `PROJECT.json` and
  [Not modelled](#not-modelled).

## Modules

| module | models | lines |
|---|---|---|
| `ExclusiveWriter` | what the other components build on: a lock per account, a global lock, facts changed only by holders | abstract |
| `FencedWriter` | what the lease promises: the same, except that a lease that ran out may come back to its last grantee | abstract, on `ExclusiveWriter` |
| `FactLease` | the lease rows, tokens, expiries, guards and the clock | `history_state.py` |
| `BalanceOperation` | the journal of balances, on the operators of `ExclusiveWriter` | `balance_operations.py` |
| `TemporaryDisable` | the journal of disables, on the operators of `ExclusiveWriter` | `temporary_disable.py` |
| `UsageSpool` | the operations of the collector's durable queue, one per transaction | `cpa/usage_spool.py` |
| `CPACollector` | reader, main loop, business tables, CPA and the poll loop, on `UsageSpool` | `runcpacollector.py`, `cpa/usage.py`, `cpa/monitoring.py`, `usage_stream.py` |
| `CycleBoundaries` | the inference of segments, as operators over a list of observations | `accounting/boundaries.py` |
| `Replay` | one account's observations, samples and collection intervals under captures, commands, crashes and late events, on `CycleBoundaries` | `accounting/replay.py`, `accounting/commands.py`, `engine.py`, `cpa/monitoring.py`, `replayobservations.py` |
| `UpstreamPricing` | the pricing journal, the groups upstream and the accounts' confirmations and epochs | `upstream_pricing/service.py` |
| `TemporaryBurst` | sessions and cycles of the burst mode with the readings that settle them | `temporary_burst.py` |
| `FactLeaseProofs`, `BalanceOperationProofs`, `TemporaryDisableProofs`, `CPACollectorProofs`, `ReplayProofs`, `UpstreamPricingProofs`, `TemporaryBurstProofs`; `FoldTheorems` | theorems; lemmas on folds, sums and recursive functions | |
| `MC...` | instances for TLC | |

`ExclusiveWriter` is the interface between the layers. `FactLease` implements
`FencedWriter` (checked, and proved), which is `ExclusiveWriter` plus one step: a
lease that ran out while a renewal waited for the database comes back, as long as
nobody else was granted its key, and may then coexist with a conflicting one
(item 4 of the [disagreements](#disagreements)). A behaviour without that step is
one of `ExclusiveWriter` (proved, `ExclusiveUntilRevived`). `BalanceOperation` and
`TemporaryDisable` are written with its `Take`, `Lapse`, `Abandon` and `Write`, so
that they need no clock, and say nothing about behaviours with a revival. A stall
past an expiry is `Lapse` of a held key, the death of a process is `Abandon`.
The collector only ever makes one fenced transaction at a time, under leases it
takes just for that; there such a write is one step that needs the lease to be
free. `Replay` and `TemporaryBurst` are about operations that are one transaction
under a lease, so that each is one action; a pricing operation holds the global
lease for many remote calls and is taken apart, while samples, settings and
account changes wait for it.

Definitions whose comment begins with "Slip:" are not part of any specification.
They are plausible mistakes in the operation they stand next to; `PROJECT.json`
names the property that each of them violates when it takes that operation's
place. They show that the property depends on that line of the code.

### FactLease

A row is `[revision, token, owner, expires]`; `guard[w][k]` is the token of the
`LeaseGuard` that job `w` holds for key `k`, `seen[w]` the revisions at the
grant. `Acquire` is one transaction: busy test of the own row and of the other
scope, token plus one, new expiry. `Renew` is the single conditional UPDATE.
`Commit` is the transaction of `fenced_fact_write`: every guard is asserted
against the locked rows, and every covered account gets a new revision. `Release` is the
`finally` block, entered also after `LeaseBusyError` and `LeaseLostError`.
`Crash` leaves the rows to expire (`orphan` remembers them for the refinement).
`AcquireLag` and `RenewLag` say how old the clock value is that a statement
decides with: `timezone.now()` is called first, then the statement waits for the
database's write lock. The ghost `revived` has the keys whose present grant was
renewed after it had expired, which only a renewal with an old clock does; it ends
with the next grant of the key. `ScopeExclusion` and `ReadsStayCurrent` are about the
accounts none of whose keys is revived. `Commit` uses the current time: no other writer commits
between the last `assert_owned` of a transaction and its end, so the transaction
takes effect at the time that check read.

### BalanceOperation

`pc[w]` walks through `apply_participant_recommendation`: the accounts to guard
are read before any lease (`Start`), leases are taken in order (`Acquire`), then
prepare, record the attempt, read the remote balance when it is a retry, set it,
record that the answer was lost or that it was confirmed, commit, release. Each
transaction is a step. A remote call is one step with the lease renewal made
right before it, so no lease ends inside a call: the lease lasts longer than the
request timeout. The server may refuse, take effect and lose the answer, or take
effect later (`late`); a zero balance is asked for as a subtraction of what was
just read, so a late one may do nothing. The rest of the system samples
(`Sample`), reallocates pools (`Reallocate`) and spends.

### TemporaryDisable

Rows with scope, recorded context, active, error class, and two flags for the
deadline and the backoff (time raises them, an adjustment or a backoff's end
lowers them). `sooner` orders the rows by when they became due, and a pass of the
loop takes the first `RestoreBatch` of those that are due and not waiting
(`RESTORE_BATCH_SIZE`). The requests and the loop share the code of taking the lease,
reading upstream, writing and saving; `job[w].kind` says which request it is.
`WriteDisableFails` and `WriteRestoreFails` cover a refused call and a call that
took effect without an answer. Nobody else edits the upstream account, and a call
that fails has taken effect by then or never will.

### UsageSpool and CPACollector

Time is the number of usage events published so far; an event's time is its
number. The reader thread and the main loop interleave; the main loop is `pc`
through the session and `pass` through one drain of the spool (a batch of usage,
its deletion, then boundaries, each followed by its deletion). The barrier is the
PING that the main loop asks for and the reader sends. `Die` kills the process
in any step: memory (`unspooled`, barriers, samples) is lost, both databases and
the spool's session row stay. Databases refuse, connections break. The
observations of one query round are one step, percentages are represented by the
time they were observed at, and `cost` counts events. Interval rows close as stale
when the next session starts, and the constraint that an account has one open
interval is `Refused`. The poll loop takes an account's lease, queries, stalls,
and writes if it still owns it.

### CycleBoundaries and Replay

`InferSegments` is `infer_segments`: `Iterate` is one turn of its loop, and
`AfterLoop` the function that repeats it until no observation is left, over a
record of the index, the closed segments, the open one, the end of the manual
interval and the rows excluded so far. Times and percentages are integers;
`Jitter` is the tolerance of reset times, and the tolerance of a rollback (0.1)
decides between integers as their order does.

`Replay` keeps rows (the facts, the exclusion, and what replay derives). The
numbers that a segment's replay computes (ledger, particle filter, attribution)
are a function of its start, its rows and the rate before it, so the model keeps
exactly these: `start`, `mates`, `prior`. Two rows with equal inputs have equal
numbers, and a row with other inputs than a full replay gives it is wrong.
`Capture` commits the facts; `RebuildCapture` replays them in the second
transaction, from `Anchor` (`_replay_anchor`), or the whole account after a change
of its profile and for CPA; `RebuildFails` and `Crash` come between them, and
`Restart` runs `replayobservations` before anything else. The commands are one
transaction each. For a CPA account collection intervals and their samples arrive
when the collector delivers them, long after their times: rows are inserted
before derived ones. The upstream's readings are arbitrary except that a window is
not reported before it begins; `timely` is set to FALSE by a reading of a window
that had begun when another one was last reported, or whose reset agrees within the
tolerance with some readings of a window and not with others. The properties about
equality, manual intervals and causes are about timely histories
([below](#disagreements), 9 and 20, says what happens otherwise). `anchored` is set to FALSE by a command on a row that
was excluded by hand, or lies inside a manual interval, when its replay begins where
a replay of the whole account begins no segment: the row's stored start is then no
longer one. The first two of these properties are about anchored histories;
`IntervalsAreNeverDivided` is what the documents say, and is refuted.

### UpstreamPricing

A group's fields are `[base, by]`: the prices an operator gave it and the rules
multiplied in since, so that a second multiplication shows. `op` is the running
operation with its local variables; its steps are the statements between two
effects: the first save, `_set_accounts`, the accounts' groups, then per group
read and journal (`PlanGroup`, `PlanRevert`), take the confirmation of its
accounts back (`MarkChanged`), write (`Put`), read back (`Verify`), and at the end
`SettleAccounts` and `Close`. `Put` may be answered, take effect unanswered, stay
on its way (`late`, lands in any later step) or get lost; every read may fail;
`Stop` ends the process anywhere, also for a lost lease, which the next renewal
notices. Others edit groups, move accounts between groups, disable accounts and
change the connection. Two ghosts name what no client of a service without
conditional writes can exclude: `overtaken`, a lost write that landed after its
group had been read again, and `strayed`, accounts that moved since their groups
were read. `kept` remembers one sample, to compare the prices of a later moment
with.

### TemporaryBurst

`seen[a][r]` is the included evidence of the window of account `a` that resets at
`r`: what the people of the pool had used, and who is in the latest reading.
`Sample` adds a reading and reconciles, `StartSession` reconciles every account
first. `SettleCycle` is the body of `reconcile_account`: the settlement with its
rounding (`Apportion`), the refusals that leave the cycle pending, and the cycle
that carries credits into the new window. Times within the tolerance of resets
are equal, percentages count in the step of the rounding. `trimmed`, `withdrawn`
and `Crowded` mark what the [disagreements](#disagreements) describe.

## Runs

Passing runs explore the whole state space of their instance.

| run | distinct states | shows |
|---|---|---|
| `fact_lease` | 426,360 | with old clocks in acquire and in renew: scopes exclude each other and reads stay current until the commit, unless an expired lease was brought back; nothing leaks; every behaviour is one of `FencedWriter` |
| `balance` | 2.79 million | one unfinished operation per participant, requests only over current facts under live leases, no two commits on one revision; what an unfinished operation is based on is moved only by commits of participants who share the account |
| `balance_live` | 43,500 | a journaled operation is committed in the end |
| `disable` | 181,185 | a row without error is true upstream, after the last restore of a scope the account is as it was, also with two rows in the journal, and a due row is restored or moved, also when it is not the one that a pass takes; the two safety properties are proved for any number of administrators, models and rows of a pass |
| `collector` | 969,018 | with one fault anywhere: nothing leaves the spool before it is stored, samples cover the usage before them, an undisturbed reliable interval misses nothing, and the spool drains in the end, also what a dead process left in it |
| `collector_busy` | 2.76 million | with a competing poll and one fault anywhere: boundaries keep their order past busy leases, observed costs stay current |
| `replay` | 881,199 | a suffix replay equals a full one, manual intervals stay whole, exclusions have their cause, samples follow rows, a row outside the collection intervals never counts, an interrupted new window is reinstated |
| `pricing` | 3.62 million | prices are never compounded, can be taken back and are recognised; confirmations and epochs are true |
| `burst` | 593,614 | one round at a time, transfers balance and arrive, ledgers are final |
| `balance_shared`, `replay_gap`, `replay_restore` | violations | the [disagreements](#disagreements) that are findings |

`CHECK_DEADLOCK FALSE` is set where a bounded counter may run out and the system
stops with nothing left to do; the two passing collector runs check deadlock.

## Bounds

| constant | value | why it is enough |
|---|---|---|
| accounts | 2 (lease, balance), 1 (disable, collector) | two accounts and the global key give every conflict of scopes and a job that fails on its second lease; a disable and a CPA interval concern one account, and accounts meet only through the lease |
| workers | 2 jobs; disable: an administrator, the loop and one other job | a third job adds no new pair; the race of two administrators is covered by the proofs, and holds in TLC (`RestoreBatch = 2`, 3.1 million states, safety only) |
| `Ttl`, `MaxTime` | 2, 2 | a lease expires at 2, is taken again, and its first owner returns |
| `AcquireLag`, `RenewLag` | 1, 1 | both statements may have waited; at time 2 a renewal with the clock of time 1 revives a lease that expired at 2, beside a global lease granted at 2 |
| `MaxToken`, `MaxRevision` | 2, 1 | a grant after a grant; a commit that supersedes a read |
| participants, contracts | 2; an account that both share, or that pays for one of them | operations of both over one account, and a reallocation between two operations |
| `MaxAmount`, `MaxOps`, `MaxWrites` | 1, 2, 1 | zero is the special amount; an operation behind a finished one; one foreign write |
| `MaxRows` | 2 | a second disable of a disabled scope |
| `RestoreBatch` | 1 | an account has at most two active rows, one per scope: with 1 a due row can lie beyond the limit of a pass. With 2 a pass works through both; all properties hold as well, 266,063 states |
| `MaxEvents`, `MaxSessions` | 2, 2 (1, 2 in `collector_busy`) | usage before and after a barrier; a session after an unfinished one |
| `UsageBatch`, `BoundaryBatch` | 1, 2 | a spool longer than a batch; a boundary held back with another behind it |
| `Times`, `Windows` (replay) | 4 captures and resets of one old and two close new windows, used 0..2 (Sub2API); 3 captures, 2 windows, used 0..1 (CPA) | a reading, a jump, its interruption and its return; a fall, a lower and a higher reading; a capture before, in and after an interval; two new resets that differ by less than the jitter from each other |
| `MaxIntervals`, `MaxCommands`, `MaxSteps` | 2, 3, and 5 captures and commands together (4 for CPA) | a reconnect; any command at any place among four captures, crash and repair, any three among two: exclude, set a start over the row, restore. Three captures with five commands and no fault, or with four commands and a fault (Sub2API), hold as well, 2.3 million and 630,000 states |
| groups, servers, accounts (pricing) | 2, 2, 1 in both groups | a partial application; a connection that changes and comes back. Two accounts (one in one group) hold as well, 11.5 million states |
| `MaxOperations`, `MaxChanges` (pricing) | 3, 1 | apply, fail, apply or revert, apply; the rules of an earlier policy under a later one |
| accounts, people, users (burst) | 2, 2, 3 | a round whose accounts reset at different times; a lender and a borrower; a binding to change to |
| `Window`, `MaxTime`, `MaxSamples` | 2, 2, 4 | windows that end in time, early, or two resets within one window's length |
| `MaxSessions`, `MaxChanges`, `MaxEdits` (burst) | 2, 1, 1 | a round after one that waits, was stopped or carried; three rounds hold as well, 2.3 million states |
| `MaxFaults` | 1 (2 in `balance_live`) | a death, a stall or a refused operation in any step, also within the recovery of an earlier session. `SpoolDrains` is about deaths; past a busy lease as well it holds with one event and one session, 222,592 states |

Workers are interchangeable where symmetry is
used, and so are the two servers of pricing and burst; runs with temporal
properties under fairness use none.

## Fairness

Safety runs assume none. For liveness:

- `BalanceOperation`: a job that has begun runs to its end (`WF` of its steps);
  leases of the dead expire; reading and setting the remote balance succeed
  again and again (`SF`: a server that never answers excludes any result); and
  somebody starts the participant's operation again while it is unfinished. The
  last one is an assumption about administrators: `auto_apply_recommendations`
  skips a participant whose recommendation has come to agree with its balance.
- `TemporaryDisable`: steps of requests and of the loop are taken, backoffs end
  (they are timestamps), dead leases expire, other jobs release. `SF` of starting
  a restore with a free lease, of its acquire and of its write: the loop polls
  every five seconds for ever, and its competitors do not keep the lease for ever.
- `CPACollector`: both threads run on, the poll loop finishes what it began, and
  the main loop reaches the drain in its body again and again. Nothing makes CPA
  publish, a session end or a fault happen.

## Proofs

| theorem | states, for every instance |
|---|---|
| `FactLeaseProofs!TypeCorrect` | types |
| `FactLeaseProofs!NoLeaseLeaks` | a row with an owner belongs to a guard that will be released, or to a dead process |
| `FactLeaseProofs!GlobalExcludesAccounts` | the global lease and an account lease are live together only if one of them was renewed after it had expired |
| `FactLeaseProofs!NoSupersededCommit` | a guard that passes `assert_owned` covers current facts, with the same exception |
| `FactLeaseProofs!LeaseImplementsWriter` | the lease implements `FencedWriter`, for any ages of the clocks |
| `FactLeaseProofs!FreshClockRevivesNothing` | a renewal that decided with the time of its UPDATE (`RenewLag = 0`) would revive nothing |
| `FactLeaseProofs!ExclusiveUntilRevived` | without a revival the lease implements `ExclusiveWriter` |
| `BalanceOperationProofs!TypeCorrect` | types; a job past prepare works on a row of the journal |
| `BalanceOperationProofs!OnePending` | one unfinished operation per participant |
| `BalanceOperationProofs!CommitsAreOrdered` | no two commits on one revision of an account |
| `BalanceOperationProofs!OnlyCurrentSends` | requests only under live leases, over current facts, for an unconfirmed operation |
| `BalanceOperationProofs!PendingStaysValid` | what an unfinished operation is based on is moved only by commits of participants that share the account |
| `TemporaryDisableProofs!TypeCorrect` | types |
| `TemporaryDisableProofs!ConfirmedIsTrue` | an active row without an error is true upstream |
| `TemporaryDisableProofs!NothingIsLeftBehind` | a scope without an active row is in its original state |
| `CPACollectorProofs!TypeCorrect` | types |
| `CPACollectorProofs!PercentagesComplete` | an official percentage has all the usage before it |
| `CPACollectorProofs!CostsCurrent` | recorded costs are those of the usage that is stored |
| `CPACollectorProofs!EndsKept` | an interval ends with the record of its session, or as stale |
| `CPACollectorProofs!OrderlyEnd` | an interval that ended in order misses no event, while nothing failed |
| `CPACollectorProofs!NothingDropped` | a step that removes from the spool removes what is in the business database |
| `ReplayProofs!InferSegmentsAccounts` | `infer_segments` excludes an observation or puts it in one segment, the segments follow each other, nothing uncovered is in one |
| `ReplayProofs!InferenceKeepsIntervals` | `infer_segments` keeps a manual interval in one segment that starts with it, and excludes no manual start |
| `ReplayProofs!WholeReplaysDivideNothing` | a replay of the whole account divides no manual interval, whatever was replayed before |
| `ReplayProofs!Typing` | rows in order with their samples; only a captured row is underived, while no replay failed |
| `ReplayProofs!SamplesAttributed` | a usage sample belongs to the segment of its row |
| `ReplayProofs!OnlyCoveredCount` | a row that no collection interval covers does not count |
| `ReplayProofs!InferenceIsOnline` | with timely readings, what `infer_segments` decides about an observation follows from those before it |
| `ReplayProofs!CutReplay` | a replay from where a segment begins makes the rows those of a full replay (Sub2API) |
| `ReplayProofs!NoExclusionWithoutCause` | an automatic exclusion has a higher row before it in the same window (Sub2API) |
| `ReplayProofs!SuffixReplaySuffices` | the rows are those of a full replay, from wherever captures, commands and start-ups replayed (Sub2API) |
| `ReplayProofs!ManualIntervalsStayWhole` | Sub2API: no manual interval is divided, no manual start excluded |
| `UpstreamPricingProofs!TypeCorrect` | types and the shape of a journal row |
| `UpstreamPricingProofs!NothingCompounds` | no group has rules multiplied into rules, while no write was overtaken |
| `UpstreamPricingProofs!EverythingCanBeReverted` | all of ours in any group is in a row that a revert takes back, while no write was overtaken |
| `UpstreamPricingProofs!NoLockOut` | the journal recognises what it or the group's own prices put there, while no write was overtaken |
| `UpstreamPricingProofs!ConfirmedIsApplied` | an account that counts as applied has rules of ours in its groups, while no write was overtaken |
| `UpstreamPricingProofs!EpochsTellPricesApart` | samples under one confirmed epoch saw the same prices, while no write was overtaken |
| `TemporaryBurstProofs!TypeCorrect` | types; one cycle per session, account and window; only what carries has credits |
| `TemporaryBurstProofs!OneRoundAtATime` | one round in force or waiting, the last one; no cycle of a round in force is settled |
| `TemporaryBurstProofs!TransfersCancelOut` | opening credits and debts of a cycle that was not trimmed cancel out |
| `TemporaryBurstProofs!CreditsArrive` | what a settlement carries is in the newest cycle of its window, unless something interfered |
| `TemporaryBurstProofs!LedgersFinal` | a settled cycle never changes |

They hold for any finite set of accounts, any set of jobs, any lease duration,
any contracts, any models and whitelists, any readings of any windows, any services,
groups and policies, and any bounds, from the named assumptions on the constants.

**Lease.** Nothing is assumed of the clocks but that they are not ahead. The proofs
rest on one observation (`LiveAfterStep`): a row that is live after a step and not
revived was live before it, or was just granted by an acquire that found nothing busy
at a time not later than now. An expired row comes back only by a renewal, which
marks it, and the mark goes only with the next grant (`RevivedDropped`). That grant
found the other scope free at an earlier time, and a row that is live now was busy
then (`LiveIsBusy`), so no account loses a mark while a lease under its keys is live
(`RevivedStays`). So when two conflicting rows are live after a step and neither is
marked, both were before (`ScopeExclusion` is then inductive with the types), and
`ReadsStayCurrent` is inductive with `ScopeExclusion`: a commit that could change an
account covered by an owned guard needs another owned guard covering that account,
and there is only one (`OneOwnerPerAccount`). The refinement adds that rows with an
owner have been granted a token, and that a row a guard matches is not an orphan's;
each step then maps to a step of `FencedWriter` or to a stutter. A renewal that finds
its row expired maps to `Revive`: owner and token are unchanged, so the key was
granted to nobody since. While nothing is late, a step of `FencedWriter` is one of
`ExclusiveWriter` (`FencedIsExclusive`).

**Balance journal.** The inductive invariant has two ideas. A committed
operation has moved each of its accounts past the revision it was based on
(`CommittedIsPast`), and revisions only grow, so whatever is validated against
its base cannot be committed already. And a job that has taken up an operation
and still owns its leases sees it unchanged (`OwnersAreCurrent`): another job
that wrote the operation or its accounts would have to hold leases on the same,
non-empty set. Owning is monotone here, because a lease is taken only in the
acquire phase. From these: a commit is on revisions that all earlier commits have
passed; a send is for an unconfirmed operation. For `PendingStaysValid` the
invariant also says that an unfinished operation has exactly the accounts of its
participant's present contract (`PendingUnderContract`): a reallocation needs the
leases of all accounts, which an unfinished operation denies, as it denies every
other fenced write of its accounts (`BlockedWrites`). Only a commit of the journal is left.
It owns the accounts and has validated their revisions, so it leaves them one past
its own base, and the accounts are in both contracts (`PassedBy`); the record of that
commit stays true until the next one (`PassedStays`). That the revision itself does
not move, as the documents say, is what `balance_shared` refutes.

**Temporary disable.** The inductive invariant adds to the two properties that a
scope has at most one active row (`OneActivePerScope`), that an active row records
the original of its scope (`ContextsAreOriginal`), and what a request knows at
each of its steps (`At`): it holds the lease exactly from its acquire to its
release; what it read upstream is the state of its scope when it inserts its row;
the row it works on is active; a restore that is `done` found the recorded state.
Only the holder of the lease writes upstream or to a row (a request that stalls
past its lease inside a call, and saves its row unchecked, is a hazard of
`PROJECT.json` that the model leaves out), so a step of one request cannot disturb
`At` of another. A new row then records the original: the scope had
no active row, so the state just read is the one `RestoredMeansOriginal` speaks of.
A row is closed only when `done`, and the scope then has the state it records.

**Collector.** Four threads of argument meet in one invariant, because each uses
what the spool guarantees. *Percentages*: a record that carries a percentage waits in
the queue behind the usage before it (`SamplesWait`: each such event is stored, or
spooled with an id up to the record's `required`). It is written when the barrier of
its sample was answered, and then those events are stored or spooled up to the
barrier's id (`BarrierHolds`); while the PING is unanswered they are ahead of its one
answer in the stream (`OnePong`), since what CPA published since the connection is
stored, spooled or in the stream (`HandedOver`), and the queue appends with ascending
ids (`IdsAscend`). *Order*: the records of an account are queued and applied in the
order of its sessions, and a session ends once (`QueueOrdered`). The main loop applies
from a list it has read before; `PassAligned` says that this list is still a piece of
the queue and that all records before it are of accounts that wait. *Deletion*:
`LeavingIsApplied`, about the step between applying and deleting. *Orderly end*:
`OrderlySoFar` follows one session from its first event to the drain behind
UNSUBSCRIBE; `OneConnection` gives all records and intervals of a session one time of
connection, without which the interval could not be compared with the record. `Control`
says who may run when, `PollCurrent` that a cost computed under a lease that still
holds is the one to write.

**Pricing journal.** The argument follows one group (`Sound`). A baseline has no
rules of ours, a planned value at most one. What of ours is in a group belongs to a
row that needs a revert (`Ours`), and so does what is on its way to it unread. An
unread write to the journal's service carries the row's `after` or `baseline`: a
row gets another plan only after a read of its group, which marks the writes
still under way as read past, and these are what `overtaken` is about. So when
such a write lands, its value is one that the row knows. A row that needs no revert
has nothing of ours in its group, so what is taken as the next baseline is free of
rules (`BaselineIsClean`); this also covers a journal that turns to another
service, which is refused while any row needs a revert. `BasesBelow` says that
prices given later have a base of their own, and `OnTrack` that an operation works
on the service of its journal and, from the plan to the read back, on a row with a
plan. The last conjunct of `Sound` is `NoFalseConflict`.

**Confirmations and epochs.** `ConfirmedRows` is the invariant behind both
properties: a confirmed account, if it was not moved to other groups, is named by the
row of each of its groups, no write to them is unread, and they have rules of ours
for as long as their base prices are those of the row. Who writes to a group has
released all its owners first (`Discipline`; for the policy's operation `Planned`,
which finds the owners before it marks them changed). What will be confirmed is
followed through the groups that an operation is done with (`AllDone`): their
owners are recorded, and their rules were read back after the last write to them. Epochs
are numbered by the revision of the operation that gives them (`EpochsNumbered`), so
an account gets the epoch of an earlier sample only from an operation that had seen it
before and did not change its groups (`Candidate`); until then nothing writes to the
groups of that sample (`KeptPrices`).

**Burst.** One action settles all waiting cycles of an account, or of all accounts,
and then opens a cycle on each: loops over rows. The invariant is therefore stated of
rows (`Sound`), so that it can be followed through a loop, and a fold is shown to keep
what each of its steps keeps (`ReconcileKeeps`, `AllReconciledKeeps`,
`AllOpenedKeeps`, from the induction on subsets in `FoldTheorems`). `Sound` has
six parts. *Turns* (`InTurn`): a session goes through an account's windows one after
the other, so all of its cycles but the last are settled. The settlement's
`get_or_create` therefore never meets an existing cycle. *Rounds*: a session that has
not ended is the last, and all it has are burst cycles that wait; a round that waits
belongs to the last session, which was not terminated. *Balanced*: the opening values
sum to zero. It rests on `SettlementBalances`: rounding goes down, the last person
with a weight gets the rest, so credits and debts each come to exactly what was
borrowed (`ApportionedInFull`), and sums over people that differ only in zeros are
equal (`SameSum`), which is why a missing side must stop a transfer and why a dropped
credit marks the cycle as trimmed. *Arrived* is the property itself; the newest cycle of a
window changes only by the next settlement into it, which would be crowding, or by a
round that opens afresh. *Behind* excludes that one: a round does so only when the
newest cycle of the current window is settled, and one that is settled without
being cancelled lies behind a later known window, unless an exclusion took that window
back. *Shaped* ties the fields of a cycle together.

**Replay.** Four layers, one on the other. *The inference*: `WalkOK` holds before and
after each turn of the loop of `infer_segments`: what it has passed is accounted for
(`Accounted`), so each observation was excluded or is in one segment, and the segments
follow each other. One lemma per branch of the loop shows it (a segment opened, joined,
given up for the previous one, a run skipped); it also shows that a manual interval is only
active while a segment is open, so the error for its missing start is never raised,
and that the loop ends, as every turn passes an observation. `IntervalsWalked` is the
part of the loop's invariant about manual intervals: the interval in force is the one of
the open segment, which holds what has been passed of it, and an interval not in force lies
behind an observation after its end; no branch but that of a manual start opens inside
one (`PassedUnmarked`), and segments of manual starts are never given up (`Survive`).
Windows are
not reported before they begin (`Begun`, the assumption of the model), without which an
official segment would start behind its first row. *One replay* (`Replayed`): rows
before the anchor and rows excluded by hand stay as they are; the others are excluded
or get the start of a segment that contains them; samples are cut at the same
time, and a sample and a row of one time get the same segment, as the segments'
members decide both. *The steps*: an anchor is never behind the row the replay is for
(`Before`), so nothing underived is left in front of it (`Waiting`), and a change that
moves coverage replays the whole account. The invariant `Inv` says of rows that have been
derived what the properties say of settled ones (`SamplesAgree`, `RowsCovered`), since
between a capture and its replay one row waits, and after a failed replay several.
A replay of the whole account leaves manual intervals whole in any state
(`WholeReplaysDivideNothing`): a divided interval, as in the run `replay_restore`, comes
from the anchor alone, and goes with the next replay of everything.

*A replay of a suffix.* The property most of this code's care goes into, since every
capture and command replays only from an anchor, was the hardest to prove: the
inference reads its observations with look-ahead (candidates confirmed or given up,
runs skipped), and two runs over lists of which one is a suffix of the other had to be
compared. The argument has four steps. (1) While readings are timely, look-ahead
decides nothing: no candidate is given up, and a run is skipped exactly when its rows
are lower than the last kept one. So the loop agrees with a derivation that takes one
observation after the other, `Online`, of which the open segment, the end of the
manual interval and the last time of the segment before are all that it remembers
(`InferenceIsOnline`, by the invariant `Agrees` of the loop; `TraceOK` says what a
segment remembers of its readings). With it comes the cause of an exclusion
(`NoExclusionWithoutCause`), which needs no premise about starts or failures. (2) A derivation that
begins a segment forgets all before it except that last time, and
`rebuild_account` reads that from the rows (`EarlierIs`): a replay that begins where a
segment of the whole begins (`Cut`) gives the rows of the whole (`CutReplay`). (3) Every
anchor is such a place, after the command's own change to the rows: the start of a row
that counts is where its segment begins (`StartOpens`), also when the segment's first
row is the one that goes (`OpenerGoes`); an official start is one if the window is new;
a manual start is one if no interval reaches into it (`MarkedCut`); and an unused row
before a capture is one case more (`CaptureCut`). (4) `Follows`, inductive with `Inv`
and `CauseInv`: each row that does not wait is as the derivations of the whole account
say, a row that waits is the last one, and every manual interval ends at a row.
`FollowInv` claims it under the premises of the property: a Sub2API account, timely
readings, no failed replay, no replay from a start that has moved. Each of them is
needed: items 3, 8, 9 and 20 below are what happens without.

**Only model-checked.** All liveness, which is out of the prover's reach:
`PendingResolves`, `DueIsRestored` and `SpoolDrains`. Of `Replay`,
`CandidateReinstated`, which is about readings that are not timely, where the look-ahead
does decide; it holds on the instance, whose windows are apart, and not for all
constants (item 12). `ManualIntervalsAreWhole` for CPA accounts: there a
baseline may be given up for a later reading, so the inference is not online;
what is proved for them is the inference itself (`InferenceKeepsIntervals`) and every
replay of the whole account (`WholeReplaysDivideNothing`), which are all but those of
commands and the start-up. The refutations of the three runs below are TLC's.

## Disagreements

Where the code does what its documents, comments or tests exclude. Three are runs
that TLC refutes, findings in `PROJECT.json`:

1. `balance_shared` (`balance_operations.py:41`): two participants paid for by one
   account. The unfinished operation of one does not stop the operation of the
   other, whose commit moves the revision that the first needs: it can never
   complete, and blocks the account's writers. `docs/data-and-replay.md:83`. Nothing
   else moves that revision (`PendingSourcesKept`).
2. `replay_gap` (`accounting/boundaries.py:383`): the 0% baseline of a new collection
   interval is given up like a tentative window when the next reading has the
   reset and at least the percentage of the segment before the gap: the reading
   joins that segment, which now spans the gap. `docs/data-and-replay.md:106`.

3. `replay_restore` (`accounting/commands.py:151`, `accounting/replay.py:275`): a row
   is excluded by hand, a manual interval is set over it, the row is restored. The
   replay begins at the row, or at the start it had when it was excluded, which is in
   the middle of the interval; the row and what follows get a segment of their own.
   A second exclusion and a rebuild of the current interval use the same stored
   start. `docs/data-and-replay.md:94`.

The others were met with the models and bound what the properties say; no run
repeats them.

4. `history_state.py:158`: `renew` decides with a clock read before its UPDATE
   waited for the write lock. An account lease that expired in the wait, with the
   global lease granted meanwhile, comes back to life, and its owner's commit
   passes `assert_owned` on facts that the global job has superseded. The models
   include it (`RenewLag`, `Revive`) and bound it: a lease comes back only to its
   last grantee, while nobody else was granted the key, and the other properties
   exempt revived keys alone.
   `docs/data-and-replay.md:79`, `docs/architecture.md:44`.
5. `temporary_disable.py:428`: the loop chose a due row before it had the lease; an
   adjustment in between is accepted and then undone at once.
   `docs/temporary-disable.md:36`.
6. `temporary_disable.py:168`: a model disable that took effect without an answer
   cannot be confirmed by adjusting it, the documented remedy, when the account
   had no whitelist. `docs/temporary-disable.md:51`, `:59`.
7. `runcpacollector.py:655`: the end of a reliable interval is read from the clock
   after the last barrier; an event in between is lost if the connection breaks
   before it is read. `docs/statistics.md:43`. Without a fault the reader's drain
   behind UNSUBSCRIBE makes up for it (`OrderlyEndLosesNothing`).
8. `engine.py:60`: when a replay fails and the monitor goes on, its row stays
   underived. The next capture computes its anchor from it, and the suffix may
   begin in the middle of a cycle, whose first zero row is then a cycle of its own.
   `replayobservations` looks for underived rows only, and derives from there.
   `SuffixReplayIsFullReplay` is therefore about histories without a failed replay;
   a crash, whose repair runs before the next capture, is included.
   `docs/data-and-replay.md:120`, `:128`.
9. `accounting/replay.py:257`: a reading of a window that had already begun when
   another window was last reported (the upstream goes back and forth) makes the
   anchor too late; then suffix and full replay differ (`timely`, first part). See
   also 20.
10. `sampling/local_usage.py:430`, `replay.py:69`: a local sample between a
   segment's official start and its first observation belongs to no segment after
   a suffix replay that begins there.
11. `accounting/commands.py:290`: a manual start replays from its own time, so the
    earlier rows of the segment it splits keep numbers computed from the whole
    (`Causal` leaves the later rows out of the comparison).
12. `accounting/boundaries.py:342`: two new reset times within the tolerance of a third, but
    not of each other, defeat the reversal of `docs/data-and-replay.md:96`.
13. `upstream_pricing/service.py:151`: after a full revert, a read that fails marks
    the row failed and keeps its old journal; an operator's later prices are then
    refused for ever (`docs/billing-corrections.md:60`).
14. `service.py:120`: accounts that are disabled, or whose groups cannot be read, keep
    the epoch `none` of an earlier revision over a change of prices.
15. `service.py:168`: a write that lands after a revert was confirmed is later taken
    for the operator's prices and multiplied again (`overtaken`;
    `docs/billing-corrections.md:10`). An account that was moved to other groups keeps its
    confirmation until the next apply (`strayed`; `:70`).
16. `temporary_burst.py:539`: a start over a cycle that carries credits drops a member
    who left or was bound to another user, with one side of a transfer (`trimmed`),
    against the comment at `temporary_burst.py:478`.
17. `temporary_burst.py:384`: after two early resets within one window's length, a
    waiting cycle of the old round and the cycle of the new one settle into one
    window, where only the newest is in force (`Crowded`); the older credit was
    moved past a window, against the message at `temporary_burst.py:458`.
18. Excluding the readings that showed a reset after it was settled, then starting a
    round in the window before, leaves the credit in a cycle nobody looks up
    (`withdrawn`).
19. `engine.py:469`: a poll round loads the connection once; after a change between
    two of its accounts, the rest of it samples the old server under the new epoch.
20. `accounting/replay.py:257`, `accounting/boundaries.py:18`: "the same reset" is a
    tolerance, so it is not transitive. Reset times of one window that drift further than
    the tolerance over several readings make a row agree with the one before it and
    not with the reading its segment remembers: a replay that begins in between
    draws the line elsewhere than one of the whole account, and an exclusion may lose
    its cause (`timely`, second part). The proof of `SuffixReplayIsFullReplay` needed
    it; TLC shows it on readings 3 apart with resets 114, 118, 122 and a tolerance
    of 5. `docs/data-and-replay.md:120`.

## Not modelled

- *In modelled components.* Amounts, percentages and costs are members of small
  sets. Balance: the audit and observation rows of the commit are part of one
  assignment; the refusals of a disabled or rebound participant and of changed
  snapshots (`balance_operations.py:90`, `:242`), so that the model proceeds more often.
  Lease: a commit under the key 0 moves only the revision of row 0; the model also
  moves those of all accounts, so that superseded reads show. Disable: validation of
  minutes, listing, the refusal of CPA accounts, stalls inside an upstream call,
  several accounts, of which busy ones are skipped without a backoff and may fill
  the passes of the loop. Collector: the status row, accounts
  deleted during a session, payload parsing and fingerprints, a reader thread that
  outlives its five second join (a late append is one of the old session); a clean
  exit after the last drain is a death there. A session may begin with any set of
  accounts, the empty one included. Replay: the numbers of a segment (see above),
  request logs and their corrections, rows that are removed by a rebuild, two
  accounts at once (nothing but the lease relates them). Pricing: the arithmetic of `planning.py` is one
  symbolic multiplication; `inspection.py` only reads; `run_automatic_migration`
  needs a selection of groups that migration 0055 leaves empty; a stall of an
  operation past its lease. Burst: the exhaustion reminder, the accelerated
  sampling, the freshness and rate refusals of a start (the model starts more
  often), edits in batches, accounts disabled during a round; a reading never
  belongs to a window before the latest known one (`engine.py:335` accepts it; here only an
  exclusion takes a window back), and a settlement compares with the connection of
  now, not with the one that the round of polls loaded.
- *Historical rebuild and import.* A plan is applied only if digests over
  configuration, revision, policy and code are unchanged: what could be wrong is the
  list of what is digested, not an order of steps. An import swaps the database
  with every row that the other modules are about.
- *Research.* Its receiving server and the deduplication there are not in the
  repository.
- *Monitor loop.* The schedule (deadlines, triggers, accelerated sampling); its captures are
  actions of `Replay`, `TemporaryBurst` and `BalanceOperation`.
- *Reporting, corrections, the numbers of accounting.* Deterministic numerics over
  decimals and histories without protocol state, where TLC has nothing to
  interleave and bounded integers would not be the program's arithmetic.
- *API views, clients, frontend, migrations, study scripts under `docs/study`.* No
  protocol state of their own. They, and the numerics, are most of the
  repository's lines.

## Plan

Done, in this order: the lease and its abstract specification with proofs, the
balance journal with proofs, temporary disable with proofs, the collector with proofs,
cycle boundaries and replay with proofs, upstream pricing with proofs, temporary burst with
proofs.

What is left, by worth:

1. **Manual intervals of CPA accounts** under commands: an invariant of the stored
   starts instead of equality with a full replay (no start of a row that counts lies
   inside an interval in force).
2. **Monitor loop** as the composition of poll, automatic application and automatic
   restore, with starvation, and the stale connection of item 19, as the questions.
3. **Historical rebuild and import**, with the lease rows inside what is imported.
4. **Research**: token and consent against a slow sender.
