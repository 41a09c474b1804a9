-------------------------- MODULE TemporaryDisable --------------------------
(***************************************************************************)
(* Temporary disables of one upstream account:                             *)
(* backend/monitor/temporary_disable.py, called by administrators and by   *)
(* the poll loop of runmonitor.                                            *)
(*                                                                         *)
(* A row of the journal says what was disabled (the account's scheduling,  *)
(* or one model of its whitelist), what to write back, and what is not     *)
(* confirmed.  Remote writes are made under the account's lease, which is  *)
(* that of ExclusiveWriter; the rows are saved without checking it.        *)
(*                                                                         *)
(* Deadlines are flags that time raises and an adjustment lowers.  Nobody  *)
(* but this code changes the upstream account, and a remote write that     *)
(* fails has taken effect by then or never will.                           *)
(***************************************************************************)
EXTENDS ExclusiveWriter, Sequences, FiniteSets

CONSTANTS
    Upstream,       \* the account
    Model, NoModel, \* the models of its upstream catalogue; no model
    Admin,          \* administrators' requests
    Poller,         \* the poll loop
    Other,          \* a sampling or maintenance job that wants the lease
    Before,         \* upstream settings to start from
    RestoreBatch,   \* rows that one pass of the loop restores at most
    MaxRows,        \* bound on the journal
    MaxFaults       \* bound on crashes and failed saves

Settings == [schedulable : BOOLEAN, whitelist : SUBSET Model]

ASSUME TemporaryDisableAssumption ==
    /\ Before \subseteq Settings
    /\ Upstream \in Account
    /\ NoModel \notin Model
    /\ Worker = Admin \cup {Poller, Other}
    /\ Poller \notin Admin \cup {Other}
    /\ Other \notin Admin
    /\ RestoreBatch \in Nat \ {0}
    /\ MaxRows \in Nat
    /\ MaxFaults \in Nat

VARIABLES
    up,         \* the upstream account: schedulable, and model whitelist ({}: none)
    original,   \* what it was at the start
    rows,       \* the AccountTemporaryDisable rows
    sooner,     \* pairs of rows, the first of which became due earlier
    pc, job,    \* where each worker is
    faults

vars == <<holder, fact, up, original, rows, sooner, pc, job, faults>>

Neutral == [schedulable |-> TRUE, whitelist |-> {}]
Scope    == {"account", "model"}
NoRow    == 0

Row == [scope : Scope, model : Model \cup {NoModel}, context : Settings, active : BOOLEAN,
        error : {"none", "disable", "restore", "auto"},     \* last_error
        due : BOOLEAN, backoff : BOOLEAN]                   \* restore_at, retry_at

Job == [kind : {"none", "create", "adjust", "restore", "auto"},
        scope : Scope, model : Model \cup {NoModel}, context : Settings,
        row : Nat, queue : SUBSET (1 .. MaxRows)]
NoJob == [kind |-> "none", scope |-> "account", model |-> NoModel, context |-> Neutral,
          row |-> NoRow, queue |-> {}]

Step == {"idle", "acquire", "read", "insert", "check", "disable", "confirm", "extend",
         "pend", "restore", "done", "fail", "release"}

StateTypeOK ==
    /\ AbstractTypeOK
    /\ up \in Settings
    /\ original \in Settings
    /\ rows \in Seq(Row)
    /\ Len(rows) <= MaxRows
    /\ pc \in [Worker -> Step]
    /\ job \in [Worker -> Job]
    /\ \A w \in Worker : job[w].row \in {NoRow} \cup DOMAIN rows
    /\ faults \in Nat

TypeOK == StateTypeOK /\ sooner \in SUBSET ((1 .. MaxRows) \X (1 .. MaxRows))

Init ==
    /\ AbstractInit
    /\ up \in Before
    /\ original = up
    /\ rows = <<>>
    /\ sooner = {}
    /\ pc = [w \in Worker |-> "idle"]
    /\ job = [w \in Worker |-> NoJob]
    /\ faults = 0

-----------------------------------------------------------------------------
(* What a disable and a restore write upstream *)

Active == {i \in DOMAIN rows : rows[i].active}

\* _whitelist_state: without a whitelist the account serves its catalogue.
Serves(list) == IF list = {} THEN Model ELSE list

\* The models a disable starts from: those recorded with the row, or those
\* served now when there was no whitelist to record.
Base(r) == Serves(IF r.context.whitelist # {} THEN r.context.whitelist ELSE up.whitelist)

\* _write_disable refuses a model that is not served, and the last one.
Writable(r) == r.scope = "account" \/ (r.model \in Base(r) /\ Base(r) # {r.model})

Disabled(r) ==
    IF r.scope = "account" THEN [up EXCEPT !.schedulable = FALSE]
    ELSE [up EXCEPT !.whitelist = Base(r) \ {r.model}]

\* Slip: a restore opens the account whatever it was before.
RestoredOpen(r) ==
    IF r.scope = "account" THEN [up EXCEPT !.schedulable = TRUE]
    ELSE [up EXCEPT !.whitelist = r.context.whitelist]

Restored(r) ==
    IF r.scope = "account" THEN [up EXCEPT !.schedulable = r.context.schedulable]
    ELSE [up EXCEPT !.whitelist = r.context.whitelist]

\* What create_disable records to write back.
ContextOf(scope) ==
    IF scope = "account" THEN [Neutral EXCEPT !.schedulable = up.schedulable]
    ELSE [Neutral EXCEPT !.whitelist = up.whitelist]

Owns(w) == holder[Upstream] = w
Goto(w, step) == pc' = [pc EXCEPT ![w] = step]
Save(i, r) == rows' = [rows EXCEPT ![i] = r]

\* What follows a failure: the poll loop records it, a request just ends.
GiveUp(w) == Goto(w, IF job[w].kind = "auto" THEN "fail" ELSE "release")

-----------------------------------------------------------------------------
(* Beginnings: rows are read before the lease is held *)

Begin(w, j) ==
    /\ pc[w] = "idle"
    /\ job' = [job EXCEPT ![w] = j]
    /\ Goto(w, "acquire")
    /\ UNCHANGED <<holder, fact, up, original, rows, sooner, faults>>

CreateDisable(w, scope, m) ==
    /\ scope = "account" <=> m = NoModel
    /\ \A i \in Active : rows[i].scope # scope
    /\ Begin(w, [NoJob EXCEPT !.kind = "create", !.scope = scope, !.model = m])

UpdateDisable(w, i)  == Begin(w, [NoJob EXCEPT !.kind = "adjust", !.row = i])
RestoreDisable(w, i) == Begin(w, [NoJob EXCEPT !.kind = "restore", !.row = i])

\* order_by("restore_at")[:RESTORE_BATCH_SIZE]: the rows that became due first.
FirstOf(due) ==
    {i \in due : Cardinality({j \in due : <<j, i>> \in sooner}) < RestoreBatch}

\* Slip: restored rows are passed over by the loop, but count for the limit.
RestoreDueSliced(w) ==
    LET batch == FirstOf({i \in DOMAIN rows : rows[i].due /\ ~rows[i].backoff}) IN
    \E i \in batch : Begin(w, [NoJob EXCEPT !.kind = "auto", !.row = i, !.queue = batch \ {i}])

\* restore_due_disables selects the first rows whose time has come, ...
RestoreDue(w) ==
    LET batch == FirstOf({i \in Active : rows[i].due /\ ~rows[i].backoff}) IN
    \E i \in batch : Begin(w, [NoJob EXCEPT !.kind = "auto", !.row = i, !.queue = batch \ {i}])

\* ... and works through them.
NextOrEnd(w) ==
    IF job[w].queue = {}
    THEN /\ job' = [job EXCEPT ![w] = NoJob]
         /\ Goto(w, "idle")
    ELSE \E i \in job[w].queue :
            /\ job' = [job EXCEPT ![w].row = i, ![w].queue = @ \ {i}]
            /\ Goto(w, "acquire")

Acquire(w) ==
    /\ pc[w] = "acquire"
    /\ Take(w, Upstream)
    /\ Goto(w, IF job[w].kind = "create" THEN "read" ELSE "check")
    /\ UNCHANGED <<up, original, rows, sooner, job, faults>>

\* LeaseBusyError: a request fails, the loop goes on to its next row.
AcquireBusy(w) ==
    /\ pc[w] = "acquire"
    /\ ~Free(Upstream)
    /\ NextOrEnd(w)
    /\ UNCHANGED <<holder, fact, up, original, rows, sooner, faults>>

-----------------------------------------------------------------------------
(* create_disable *)

\* The upstream state is read; the call may fail, or the model not be served.
ReadUpstream(w) ==
    /\ pc[w] = "read"
    /\ \/ /\ job[w].scope = "model" => job[w].model \in Serves(up.whitelist)
          /\ job' = [job EXCEPT ![w].context = ContextOf(job[w].scope)]
          /\ Goto(w, "insert")
       \/ Goto(w, "release") /\ UNCHANGED job
    /\ UNCHANGED <<holder, fact, up, original, rows, sooner, faults>>

\* Slip: the upstream write is prepared without a row in the journal.
CreateRowUnnumbered(w) ==
    /\ pc[w] = "insert"
    /\ job' = [job EXCEPT ![w] = [NoJob EXCEPT !.kind = "create", !.row = Len(rows) + 1]]
    /\ Goto(w, "disable")
    /\ UNCHANGED <<holder, fact, up, original, rows, sooner, faults>>

\* The row is journaled as unconfirmed, unless the scope already has one (or
\* the bound on the journal is reached, which ends the request in the same way).
CreateRow(w) ==
    /\ pc[w] = "insert"
    /\ IF Len(rows) = MaxRows \/ \E i \in Active : rows[i].scope = job[w].scope
       THEN Goto(w, "release") /\ UNCHANGED <<rows, job>>
       ELSE /\ rows' = Append(rows, [scope |-> job[w].scope, model |-> job[w].model,
                                     context |-> job[w].context, active |-> TRUE,
                                     error |-> "disable", due |-> FALSE, backoff |-> FALSE])
            /\ job' = [job EXCEPT ![w] = [NoJob EXCEPT !.kind = "create", !.row = Len(rows) + 1]]
            /\ Goto(w, "disable")
    /\ UNCHANGED <<holder, fact, up, original, sooner, faults>>

\* refresh_from_db under the lease, and what each operation looks at.
Check(w) ==
    LET r == rows[job[w].row] IN
    /\ pc[w] = "check"
    /\ Goto(w, IF ~r.active THEN "release"
               ELSE IF job[w].kind # "adjust" THEN "pend"
               ELSE IF r.error = "disable" THEN "disable"
               ELSE "extend")
    /\ UNCHANGED <<holder, fact, up, original, rows, sooner, job, faults>>

\* _apply_write: renewed, then written; answered, ...
WriteDisable(w) ==
    LET r == rows[job[w].row] IN
    /\ pc[w] = "disable"
    /\ Owns(w)
    /\ Writable(r)
    /\ up' = Disabled(r)
    /\ Goto(w, "confirm")
    /\ UNCHANGED <<holder, fact, original, rows, sooner, job, faults>>

\* ... or not, or refused: the row stays unconfirmed.
WriteDisableFails(w) ==
    LET r == rows[job[w].row] IN
    /\ pc[w] = "disable"
    /\ \/ UNCHANGED up
       \/ Owns(w) /\ Writable(r) /\ up' = Disabled(r)
    /\ GiveUp(w)
    /\ UNCHANGED <<holder, fact, original, rows, sooner, job, faults>>

ConfirmDisable(w) ==
    LET i == job[w].row IN
    /\ pc[w] = "confirm"
    /\ Save(i, [rows[i] EXCEPT !.error = "none"])
    /\ Goto(w, IF job[w].kind = "adjust" THEN "extend" ELSE "release")
    /\ UNCHANGED <<holder, fact, up, original, sooner, job, faults>>

\* update_disable moves the deadline away and drops the retry time.
Extend(w) ==
    LET i == job[w].row IN
    /\ pc[w] = "extend"
    /\ Save(i, [rows[i] EXCEPT !.due = FALSE, !.backoff = FALSE])
    /\ sooner' = {p \in sooner : i \notin {p[1], p[2]}}
    /\ Goto(w, "release")
    /\ UNCHANGED <<holder, fact, up, original, job, faults>>

-----------------------------------------------------------------------------
(* _apply_restore *)

\* Slip: a restore is not marked as uncertain before it is written.
MarkRestoringSilently(w) ==
    /\ pc[w] = "pend"
    /\ Goto(w, "restore")
    /\ UNCHANGED <<holder, fact, up, original, rows, sooner, job, faults>>

MarkRestoring(w) ==
    LET i == job[w].row IN
    /\ pc[w] = "pend"
    /\ Save(i, [rows[i] EXCEPT !.error = "restore", !.backoff = FALSE])
    /\ Goto(w, "restore")
    /\ UNCHANGED <<holder, fact, up, original, sooner, job, faults>>

WriteRestore(w) ==
    /\ pc[w] = "restore"
    /\ Owns(w)
    /\ up' = Restored(rows[job[w].row])
    /\ Goto(w, "done")
    /\ UNCHANGED <<holder, fact, original, rows, sooner, job, faults>>

WriteRestoreFails(w) ==
    /\ pc[w] = "restore"
    /\ \/ UNCHANGED up
       \/ Owns(w) /\ up' = Restored(rows[job[w].row])
    /\ GiveUp(w)
    /\ UNCHANGED <<holder, fact, original, rows, sooner, job, faults>>

MarkRestored(w) ==
    LET i == job[w].row IN
    /\ pc[w] = "done"
    /\ Save(i, [rows[i] EXCEPT !.active = FALSE, !.error = "none"])
    /\ Goto(w, "release")
    /\ UNCHANGED <<holder, fact, up, original, sooner, job, faults>>

RecordRestoreFailure(w) ==
    LET i == job[w].row IN
    /\ pc[w] = "fail"
    /\ Save(i, [rows[i] EXCEPT !.error = "auto", !.backoff = TRUE])
    /\ Goto(w, "release")
    /\ UNCHANGED <<holder, fact, up, original, sooner, job, faults>>

Release(w) ==
    /\ pc[w] = "release"
    /\ Lapse(HeldBy(w))
    /\ NextOrEnd(w)
    /\ UNCHANGED <<up, original, rows, sooner, faults>>

-----------------------------------------------------------------------------
(* Faults, time, and the jobs of others *)

Fault == faults < MaxFaults /\ faults' = faults + 1

SaveFails(w) ==
    /\ pc[w] \in {"insert", "confirm", "extend", "pend", "done"}
    /\ Fault
    /\ GiveUp(w)
    /\ UNCHANGED <<holder, fact, up, original, rows, sooner, job>>

Crash(w) ==
    /\ pc[w] # "idle"
    /\ Fault
    /\ Abandon(w)
    /\ job' = [job EXCEPT ![w] = NoJob]
    /\ Goto(w, "idle")
    /\ UNCHANGED <<up, original, rows, sooner>>

OrphanExpires ==
    /\ holder[Upstream] = Orphan
    /\ Lapse({Upstream})
    /\ UNCHANGED <<up, original, rows, sooner, pc, job, faults>>

BecomesDue(i) ==
    /\ rows[i].active /\ ~rows[i].due
    /\ Save(i, [rows[i] EXCEPT !.due = TRUE])
    /\ sooner' = sooner \cup {<<j, i>> : j \in {m \in Active : rows[m].due}}
    /\ UNCHANGED <<holder, fact, up, original, pc, job, faults>>

BackoffEnds(i) ==
    /\ rows[i].active /\ rows[i].backoff
    /\ Save(i, [rows[i] EXCEPT !.backoff = FALSE])
    /\ UNCHANGED <<holder, fact, up, original, sooner, pc, job, faults>>

\* Collection and maintenance take the lease too.
OtherTakes ==
    /\ Take(Other, Upstream)
    /\ UNCHANGED <<up, original, rows, sooner, pc, job, faults>>

OtherReleases ==
    /\ holder[Upstream] = Other
    /\ Lapse({Upstream})
    /\ UNCHANGED <<up, original, rows, sooner, pc, job, faults>>

-----------------------------------------------------------------------------
Operate(w) ==
    \/ Acquire(w) \/ AcquireBusy(w) \/ ReadUpstream(w) \/ CreateRow(w) \/ Check(w)
    \/ WriteDisable(w) \/ WriteDisableFails(w) \/ ConfirmDisable(w) \/ Extend(w)
    \/ MarkRestoring(w) \/ WriteRestore(w) \/ WriteRestoreFails(w)
    \/ MarkRestored(w) \/ RecordRestoreFailure(w) \/ Release(w)

Next ==
    \/ \E w \in Admin :
        \/ \E scope \in Scope, m \in Model \cup {NoModel} : CreateDisable(w, scope, m)
        \/ \E i \in DOMAIN rows : UpdateDisable(w, i) \/ RestoreDisable(w, i)
    \/ RestoreDue(Poller)
    \/ \E w \in Admin \cup {Poller} : Operate(w) \/ SaveFails(w) \/ Crash(w)
    \/ OrphanExpires
    \/ \E i \in DOMAIN rows : BecomesDue(i) \/ BackoffEnds(i)
    \/ OtherTakes \/ OtherReleases

Spec == Init /\ [][Next]_vars

\* Requests and jobs end, leases of the dead expire, backoffs pass; the loop
\* polls for ever, and some of its polls find the lease free and are answered.
Fairness ==
    /\ \A w \in Admin \cup {Poller} : WF_vars(Operate(w))
    /\ SF_vars(Free(Upstream) /\ RestoreDue(Poller)) /\ SF_vars(Acquire(Poller))
    /\ SF_vars(WriteRestore(Poller))
    /\ WF_vars(OrphanExpires) /\ WF_vars(OtherReleases)
    /\ \A i \in 1 .. MaxRows : WF_vars(i \in DOMAIN rows /\ BackoffEnds(i))

FairSpec == Spec /\ Fairness

-----------------------------------------------------------------------------
(* Properties *)

IsDisabled(r) ==
    IF r.scope = "account" THEN ~up.schedulable
    ELSE up.whitelist # {} /\ r.model \notin up.whitelist

\* A row without an error is the truth: the account, or the model, is out of
\* service upstream.
ConfirmedMeansDisabled ==
    \A i \in Active : rows[i].error = "none" => IsDisabled(rows[i])

\* Once nothing is disabled in a scope, that scope is upstream what it was
\* before: no request, retry, failure or second disable leaves a trace, and the
\* state of a disabled account is never recorded as the one to go back to.
RestoredMeansOriginal ==
    /\ (\A i \in Active : rows[i].scope # "account") => up.schedulable = original.schedulable
    /\ (\A i \in Active : rows[i].scope # "model") => up.whitelist = original.whitelist

\* A row whose time has come is restored, or its time is moved.
DueIsRestored ==
    \A i \in 1 .. MaxRows :
        (i \in Active /\ rows[i].due) ~> ~(i \in Active /\ rows[i].due)
=============================================================================
