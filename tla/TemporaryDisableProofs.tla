----------------------- MODULE TemporaryDisableProofs -----------------------
(***************************************************************************)
(* Why a temporary disable leaves no trace, for every number of requests,  *)
(* rows, models and faults, and whatever the account looked like before.   *)
(*                                                                         *)
(* The lease of the account makes the steps of one request exclude those   *)
(* of every other: what a request read upstream is still so when it writes *)
(* its row, and the row it works on stays the only active one of its       *)
(* scope.  Hence the state recorded with a row is the original one, and    *)
(* what a restore writes is what was there before the first disable.       *)
(***************************************************************************)
EXTENDS TemporaryDisable, SequenceTheorems, TLAPS

Actor == Admin \cup {Poller}

\* A request that has not taken the lease, or has given it back.
Outside == {"idle", "acquire"}

\* The steps of a request on a row.
OnRow == {"disable", "confirm", "extend", "pend", "restore", "done", "fail"}

IsRestored(r) ==
    IF r.scope = "account" THEN up.schedulable = r.context.schedulable
    ELSE up.whitelist = r.context.whitelist

\* What a request knows at each of its steps.
At(w) ==
    /\ pc[w] \notin Outside <=> holder[Upstream] = w
    /\ pc[w] \in {"read", "insert"} => job[w].kind = "create"
    /\ pc[w] = "insert" => job[w].context = ContextOf(job[w].scope)
    /\ pc[w] \in OnRow => job[w].row \in Active
    /\ pc[w] = "check" => job[w].row \in DOMAIN rows
    /\ pc[w] = "confirm" => IsDisabled(rows[job[w].row])
    /\ pc[w] \in {"restore", "done"} => rows[job[w].row].error = "restore"
    /\ pc[w] = "done" => IsRestored(rows[job[w].row])
    /\ job[w].queue \subseteq DOMAIN rows
    /\ pc[w] = "acquire" /\ job[w].kind # "create" => job[w].row \in DOMAIN rows

OneActivePerScope ==
    \A i, j \in Active : rows[i].scope = rows[j].scope => i = j

ContextsAreOriginal ==
    \A i \in Active :
        IF rows[i].scope = "account"
        THEN rows[i].context.schedulable = original.schedulable
        ELSE rows[i].context.whitelist = original.whitelist

\* What relates the journal to the upstream account, whoever is at work.
Journal ==
    /\ OneActivePerScope
    /\ ContextsAreOriginal
    /\ ConfirmedMeansDisabled
    /\ RestoredMeansOriginal

IInv ==
    /\ StateTypeOK
    /\ Journal
    /\ \A w \in Actor : At(w)

-----------------------------------------------------------------------------
(* Typing of single changes *)

LEMMA ActorsWork ==
    /\ Actor \subseteq Worker
    /\ Other \in Worker /\ Other \notin Actor
    /\ Nobody \notin Actor /\ Orphan \notin Actor
    /\ Upstream \in Key
BY TemporaryDisableAssumption, ExclusiveWriterAssumption DEF Actor, Key

LEMMA NoJobTyped ==
    /\ NoJob \in Job
    /\ NoJob.row = NoRow /\ NoJob.queue = {} /\ NoJob.kind = "none"
<1>1. Neutral \in Settings
    BY DEF Neutral, Settings
<1>2. QED
    BY <1>1 DEF NoJob, Job, Scope, NoRow

LEMMA Typed ==
    ASSUME StateTypeOK, NEW w \in Worker
    PROVE  /\ job[w] \in Job /\ pc[w] \in Step
           /\ job[w].context \in Settings /\ job[w].scope \in Scope
           /\ job[w].queue \subseteq 1 .. MaxRows
           /\ DOMAIN rows = 1 .. Len(rows) /\ Len(rows) \in Nat
           /\ DOMAIN rows \subseteq 1 .. MaxRows
           /\ \A i \in DOMAIN rows : rows[i] \in Row
           /\ up \in Settings
<1>1. /\ job[w] \in Job /\ pc[w] \in Step /\ rows \in Seq(Row) /\ Len(rows) <= MaxRows
      /\ up \in Settings
    BY DEF StateTypeOK
<1>2. MaxRows \in Nat
    BY TemporaryDisableAssumption
<1>3. DOMAIN rows = 1 .. Len(rows) /\ Len(rows) \in Nat
    BY <1>1
<1>4. \A i \in DOMAIN rows : rows[i] \in Row
    BY <1>1
<1>5. DOMAIN rows \subseteq 1 .. MaxRows
    BY <1>1, <1>2, <1>3
<1> QED
    BY <1>1, <1>3, <1>4, <1>5 DEF Job

\* One row is written again.
LEMMA Saved ==
    ASSUME StateTypeOK, NEW i \in DOMAIN rows, NEW r \in Row, Save(i, r)
    PROVE  /\ rows' \in Seq(Row) /\ Len(rows') = Len(rows)
           /\ DOMAIN rows' = DOMAIN rows
           /\ rows'[i] = r
           /\ \A j \in DOMAIN rows : j # i => rows'[j] = rows[j]
<1>1. rows \in Seq(Row) /\ i \in 1 .. Len(rows)
    BY DEF StateTypeOK
<1>2. rows' = [rows EXCEPT ![i] = r]
    BY DEF Save
<1>3. /\ rows' \in Seq(Row)
      /\ Len(rows') = Len(rows)
      /\ \A j \in 1 .. Len(rows) : rows'[j] = IF j = i THEN r ELSE rows[j]
    BY <1>1, <1>2, ExceptSeq
<1> QED
    BY <1>1, <1>3

LEMMA TypeKept ==
    ASSUME StateTypeOK, NEW w \in Worker, NEW s \in Step, NEW j \in Job,
           pc' = [pc EXCEPT ![w] = s], job' = [job EXCEPT ![w] = j],
           j.row \in {NoRow} \cup DOMAIN rows',
           holder' \in [Key -> Holder], fact' = fact, up' \in Settings,
           original' = original, faults' \in Nat,
           rows' \in Seq(Row), Len(rows') <= MaxRows, DOMAIN rows \subseteq DOMAIN rows'
    PROVE  StateTypeOK'
<1>1. pc' \in [Worker -> Step] /\ job' \in [Worker -> Job]
    BY DEF StateTypeOK
<1>2. \A v \in Worker : job'[v].row \in {NoRow} \cup DOMAIN rows'
  <2> TAKE v \in Worker
  <2>1. CASE v = w
      BY <2>1 DEF StateTypeOK
  <2>2. CASE v # w
      BY <2>2 DEF StateTypeOK
  <2> QED
      BY <2>1, <2>2
<1> QED
    BY <1>1, <1>2 DEF StateTypeOK, AbstractTypeOK

LEMMA LeaseTyped ==
    ASSUME AbstractTypeOK, NEW w \in Worker
    PROVE  /\ Take(w, Upstream) =>
                holder' \in [Key -> Holder] /\ holder'[Upstream] = w /\ holder[Upstream] = Nobody
           /\ \A K \in SUBSET Key : Lapse(K) =>
                /\ holder' \in [Key -> Holder]
                /\ holder'[Upstream] = IF Upstream \in K THEN Nobody ELSE holder[Upstream]
           /\ Abandon(w) =>
                /\ holder' \in [Key -> Holder]
                /\ holder'[Upstream] = IF holder[Upstream] = w THEN Orphan ELSE holder[Upstream]
BY ActorsWork DEF AbstractTypeOK, Take, Lapse, Abandon, Holder, Free, Conflicts, Key, Global

-----------------------------------------------------------------------------
(* Those who are not at work *)

LEMMA OthersOutside ==
    ASSUME IInv, NEW w \in Actor, NEW v \in Actor, v # w, pc[w] \notin Outside
    PROVE  pc[v] \in Outside /\ holder[Upstream] = w
BY DEF IInv, At

LEMMA Bystander ==
    ASSUME IInv, NEW v \in Actor, pc[v] \in Outside,
           pc'[v] = pc[v], job'[v] = job[v],
           holder'[Upstream] # v, DOMAIN rows \subseteq DOMAIN rows'
    PROVE  At(v)'
BY DEF IInv, At, Outside, OnRow

\* A step that leaves the account and the journal alone.
LEMMA QuietStep ==
    ASSUME IInv, NEW w \in Actor, NEW s \in Step, NEW j \in Job,
           pc' = [pc EXCEPT ![w] = s], job' = [job EXCEPT ![w] = j],
           j.row \in {NoRow} \cup DOMAIN rows,
           holder' \in [Key -> Holder],
           \A v \in Actor \ {w} : holder'[Upstream] = v <=> holder[Upstream] = v,
           UNCHANGED <<fact, up, original, rows>>, faults' \in Nat,
           At(w)'
    PROVE  IInv'
<1>1. StateTypeOK'
    BY TypeKept, ActorsWork DEF IInv, StateTypeOK
<1>2. Journal'
    BY DEF IInv, Journal, OneActivePerScope, ContextsAreOriginal, ConfirmedMeansDisabled,
           RestoredMeansOriginal, IsDisabled, Active
<1>3. ASSUME NEW v \in Actor, v # w PROVE At(v)'
  <2>1. pc'[v] = pc[v] /\ job'[v] = job[v] /\ At(v)
      BY <1>3, ActorsWork DEF IInv, StateTypeOK
  <2> QED
      BY <1>3, <2>1 DEF At, Active, IsDisabled, IsRestored, ContextOf
<1> QED
    BY <1>1, <1>2, <1>3 DEF IInv

\* A step under the lease, which may write the account and a row.
LEMMA WorkStep ==
    ASSUME IInv, NEW w \in Actor, pc[w] \notin Outside, NEW s \in Step, NEW j \in Job,
           pc' = [pc EXCEPT ![w] = s], job' = [job EXCEPT ![w] = j],
           j.row \in {NoRow} \cup DOMAIN rows',
           UNCHANGED <<holder, fact, original, faults>>, up' \in Settings,
           rows' \in Seq(Row), Len(rows') <= MaxRows, DOMAIN rows \subseteq DOMAIN rows',
           Journal', At(w)'
    PROVE  IInv'
<1>1. StateTypeOK'
    BY TypeKept, ActorsWork DEF IInv, StateTypeOK, AbstractTypeOK
<1>2. ASSUME NEW v \in Actor, v # w PROVE At(v)'
  <2>1. pc'[v] = pc[v] /\ job'[v] = job[v]
      BY <1>2, ActorsWork DEF IInv, StateTypeOK
  <2>2. pc[v] \in Outside /\ holder[Upstream] = w
      BY <1>2, OthersOutside
  <2> QED
      BY <1>2, <2>1, <2>2, Bystander
<1> QED
    BY <1>1, <1>2 DEF IInv

\* A step that changes nothing a property reads of the rows, and no request's place.
LEMMA SameRows ==
    ASSUME IInv, UNCHANGED <<holder, fact, up, original, pc, job, faults>>,
           rows' \in Seq(Row), Len(rows') = Len(rows), DOMAIN rows' = DOMAIN rows,
           \A i \in DOMAIN rows :
                /\ rows'[i].active = rows[i].active
                /\ rows'[i].scope = rows[i].scope
                /\ rows'[i].model = rows[i].model
                /\ rows'[i].context = rows[i].context
                /\ rows'[i].error = rows[i].error
    PROVE  IInv'
<1>1. StateTypeOK'
    BY DEF IInv, StateTypeOK, AbstractTypeOK
<1>2. Active' = Active
    BY DEF Active
<1>3. \A i \in DOMAIN rows : IsDisabled(rows[i])' <=> IsDisabled(rows[i])
    BY DEF IsDisabled
<1>4. \A i \in DOMAIN rows : IsRestored(rows[i])' <=> IsRestored(rows[i])
    BY DEF IsRestored
<1>5. Journal'
  <2>1. OneActivePerScope' /\ ContextsAreOriginal'
      BY <1>2 DEF IInv, Journal, OneActivePerScope, ContextsAreOriginal, Active
  <2>2. ConfirmedMeansDisabled'
      BY <1>2, <1>3 DEF IInv, Journal, ConfirmedMeansDisabled, Active
  <2>3. RestoredMeansOriginal'
      BY <1>2 DEF IInv, Journal, RestoredMeansOriginal, Active
  <2> QED
      BY <2>1, <2>2, <2>3 DEF Journal
<1>6. ASSUME NEW w \in Actor PROVE At(w)'
    BY <1>2, <1>3, <1>4 DEF IInv, At, Active, ContextOf, OnRow
<1> QED
    BY <1>1, <1>5, <1>6 DEF IInv

-----------------------------------------------------------------------------
(* Beginnings, and the lease *)

LEMMA BeginKeeps ==
    ASSUME IInv, NEW w \in Actor, NEW j \in Job, Begin(w, j),
           j.row \in {NoRow} \cup DOMAIN rows, j.queue \subseteq DOMAIN rows,
           j.kind = "create" \/ j.row \in DOMAIN rows
    PROVE  IInv'
<1>1. pc'[w] = "acquire" /\ job'[w] = j /\ pc[w] = "idle" /\ At(w)
    BY ActorsWork DEF Begin, Goto, IInv, StateTypeOK
<1>2. At(w)'
    BY <1>1 DEF Begin, At, Outside, OnRow
<1> QED
    BY <1>2, QuietStep DEF Begin, Goto, Step, IInv, StateTypeOK, AbstractTypeOK

LEMMA BeginningsKeep ==
    ASSUME IInv, NEW w \in Actor
    PROVE  /\ \A scope \in Scope, m \in Model \cup {NoModel} : CreateDisable(w, scope, m) => IInv'
           /\ \A i \in DOMAIN rows : UpdateDisable(w, i) => IInv'
           /\ \A i \in DOMAIN rows : RestoreDisable(w, i) => IInv'
           /\ RestoreDue(w) => IInv'
<1>1. ASSUME NEW scope \in Scope, NEW m \in Model \cup {NoModel}, CreateDisable(w, scope, m)
      PROVE  IInv'
  <2> DEFINE j == [NoJob EXCEPT !.kind = "create", !.scope = scope, !.model = m]
  <2>1. j \in Job /\ j.row = NoRow /\ j.queue = {} /\ j.kind = "create"
      BY NoJobTyped DEF Job, NoJob
  <2>2. Begin(w, j)
      BY <1>1 DEF CreateDisable
  <2> HIDE DEF j
  <2> QED
      BY <2>1, <2>2, BeginKeeps
<1>2. ASSUME NEW i \in DOMAIN rows, NEW kind \in {"adjust", "restore"},
             Begin(w, [NoJob EXCEPT !.kind = kind, !.row = i])
      PROVE  IInv'
  <2> DEFINE j == [NoJob EXCEPT !.kind = kind, !.row = i]
  <2>1. i \in Nat
      BY Typed, ActorsWork DEF IInv
  <2>2. j \in Job /\ j.row = i /\ j.queue = {}
      BY <2>1, NoJobTyped DEF Job, NoJob
  <2> HIDE DEF j
  <2> QED
      BY <1>2, <2>2, BeginKeeps DEF j
<1>3. ASSUME RestoreDue(w) PROVE IInv'
  <2> DEFINE due == FirstOf({i \in Active : rows[i].due /\ ~rows[i].backoff})
  <2>1. PICK i \in due : Begin(w, [NoJob EXCEPT !.kind = "auto", !.row = i, !.queue = due \ {i}])
      BY <1>3 DEF RestoreDue
  <2>2. due \subseteq DOMAIN rows /\ DOMAIN rows \subseteq 1 .. MaxRows
      BY Typed, ActorsWork DEF IInv, Active, FirstOf
  <2> HIDE DEF due
  <2> DEFINE j == [NoJob EXCEPT !.kind = "auto", !.row = i, !.queue = due \ {i}]
  <2>3. i \in Nat /\ i \in DOMAIN rows
      BY <2>2
  <2>4. j \in Job /\ j.row = i /\ j.queue = due \ {i}
      BY <2>2, <2>3, NoJobTyped DEF Job, NoJob
  <2> HIDE DEF j
  <2> QED
      BY <2>1, <2>2, <2>3, <2>4, BeginKeeps DEF j
<1> QED
    BY <1>1, <1>2, <1>3 DEF UpdateDisable, RestoreDisable

LEMMA AcquireKeeps ==
    ASSUME IInv, NEW w \in Actor, Acquire(w)
    PROVE  IInv'
<1> DEFINE s == IF job[w].kind = "create" THEN "read" ELSE "check"
<1>1. s \in Step
    BY DEF Step
<1>2. /\ pc' = [pc EXCEPT ![w] = s] /\ job' = [job EXCEPT ![w] = job[w]]
      /\ pc'[w] = s /\ job'[w] = job[w] /\ pc[w] = "acquire" /\ At(w)
      /\ job[w] \in Job /\ job[w].row \in {NoRow} \cup DOMAIN rows
    BY ActorsWork DEF Acquire, Goto, IInv, StateTypeOK
<1>3. holder' \in [Key -> Holder] /\ holder'[Upstream] = w /\ holder[Upstream] = Nobody
    BY LeaseTyped, ActorsWork DEF Acquire, IInv, StateTypeOK
<1>4. At(w)'
    BY <1>2, <1>3 DEF Acquire, At, Outside, OnRow
<1> HIDE DEF s
<1> QED
    BY <1>1, <1>2, <1>3, <1>4, ActorsWork, QuietStep DEF Acquire, Take, IInv, StateTypeOK

\* The next row of the loop, or the end of the request.
LEMMA Proceeds ==
    ASSUME IInv, NEW w \in Actor, NextOrEnd(w)
    PROVE  \E s \in Outside, j \in Job :
                /\ pc' = [pc EXCEPT ![w] = s] /\ job' = [job EXCEPT ![w] = j]
                /\ j.row \in {NoRow} \cup DOMAIN rows
                /\ j.queue \subseteq DOMAIN rows
                /\ s = "acquire" => j.row \in DOMAIN rows
<1>1. job[w] \in Job /\ job \in [Worker -> Job] /\ DOMAIN rows \subseteq Nat /\ job[w].queue \subseteq DOMAIN rows
    BY Typed, ActorsWork DEF IInv, StateTypeOK, At
<1>2. CASE job[w].queue = {}
    BY <1>2, NoJobTyped DEF NextOrEnd, Goto, Outside
<1>3. CASE job[w].queue # {}
  <2>1. PICK i \in job[w].queue :
            /\ job' = [job EXCEPT ![w].row = i, ![w].queue = @ \ {i}]
            /\ Goto(w, "acquire")
      BY <1>3 DEF NextOrEnd
  <2> DEFINE j == [job[w] EXCEPT !.row = i, !.queue = @ \ {i}]
  <2>2. j \in Job /\ j.row = i /\ j.queue = job[w].queue \ {i}
      BY <1>1 DEF Job
  <2>3. job' = [job EXCEPT ![w] = j]
      BY <1>1, <2>1, ActorsWork
  <2>4. i \in DOMAIN rows /\ j.queue \subseteq DOMAIN rows
      BY <1>1, <2>2
  <2> HIDE DEF j
  <2> QED
      BY <2>1, <2>2, <2>3, <2>4 DEF Goto, Outside
<1> QED
    BY <1>2, <1>3

LEMMA AcquireBusyKeeps ==
    ASSUME IInv, NEW w \in Actor, AcquireBusy(w)
    PROVE  IInv'
<1>1. PICK s \in Outside, j \in Job :
            /\ pc' = [pc EXCEPT ![w] = s] /\ job' = [job EXCEPT ![w] = j]
            /\ j.row \in {NoRow} \cup DOMAIN rows
            /\ j.queue \subseteq DOMAIN rows
            /\ s = "acquire" => j.row \in DOMAIN rows
    BY Proceeds DEF AcquireBusy
<1>2. pc'[w] = s /\ job'[w] = j /\ pc[w] = "acquire" /\ At(w) /\ s \in Step
    BY <1>1, ActorsWork DEF AcquireBusy, IInv, StateTypeOK, Outside, Step
<1>3. At(w)'
    BY <1>1, <1>2 DEF AcquireBusy, At, Outside, OnRow
<1> QED
    BY <1>1, <1>2, <1>3, QuietStep DEF AcquireBusy, IInv, StateTypeOK, AbstractTypeOK

LEMMA ReleaseKeeps ==
    ASSUME IInv, NEW w \in Actor, Release(w)
    PROVE  IInv'
<1>1. PICK s \in Outside, j \in Job :
            /\ pc' = [pc EXCEPT ![w] = s] /\ job' = [job EXCEPT ![w] = j]
            /\ j.row \in {NoRow} \cup DOMAIN rows
            /\ j.queue \subseteq DOMAIN rows
            /\ s = "acquire" => j.row \in DOMAIN rows
    BY Proceeds DEF Release
<1>2. pc'[w] = s /\ job'[w] = j /\ pc[w] = "release" /\ At(w) /\ s \in Step
    BY <1>1, ActorsWork DEF Release, IInv, StateTypeOK, Outside, Step
<1>3. holder[Upstream] = w /\ Upstream \in HeldBy(w)
    BY <1>2, ActorsWork DEF At, Outside, HeldBy
<1>4. HeldBy(w) \in SUBSET Key /\ Lapse(HeldBy(w)) /\ AbstractTypeOK
    BY DEF HeldBy, Release, IInv, StateTypeOK
<1>5. holder' \in [Key -> Holder] /\ holder'[Upstream] = Nobody
    BY <1>3, <1>4, LeaseTyped, ActorsWork
<1>6. At(w)'
    BY <1>1, <1>2, <1>5, ActorsWork DEF Release, At, Outside, OnRow
<1> QED
    BY <1>1, <1>2, <1>3, <1>5, <1>6, ActorsWork, QuietStep, ZenonT(40)
    DEF Release, Lapse, IInv, StateTypeOK

LEMMA CrashKeeps ==
    ASSUME IInv, NEW w \in Actor, Crash(w)
    PROVE  IInv'
<1>1. /\ pc' = [pc EXCEPT ![w] = "idle"] /\ job' = [job EXCEPT ![w] = NoJob]
      /\ pc'[w] = "idle" /\ job'[w] = NoJob
    BY ActorsWork DEF Crash, Goto, IInv, StateTypeOK
<1>2. /\ holder' \in [Key -> Holder]
      /\ holder'[Upstream] = IF holder[Upstream] = w THEN Orphan ELSE holder[Upstream]
    BY LeaseTyped, ActorsWork DEF Crash, IInv, StateTypeOK
<1>3. At(w)'
    BY <1>1, <1>2, NoJobTyped, ActorsWork DEF At, Outside, OnRow
<1>4. faults' \in Nat
    BY DEF Crash, Fault, IInv, StateTypeOK
<1>5. "idle" \in Step
    BY DEF Step
<1> QED
    BY <1>1, <1>2, <1>3, <1>4, <1>5, NoJobTyped, ActorsWork, QuietStep DEF Crash, Abandon

\* Others take the lease and give it back; that of the dead expires.
LEMMA LeasesOfOthersKeep ==
    ASSUME IInv, OrphanExpires \/ OtherTakes \/ OtherReleases
    PROVE  IInv'
<1> DEFINE w == Poller
<1>1. w \in Actor /\ w \in Worker
    BY ActorsWork DEF Actor
<1>2. /\ pc' = [pc EXCEPT ![w] = pc[w]] /\ job' = [job EXCEPT ![w] = job[w]]
      /\ pc[w] \in Step /\ job[w] \in Job /\ job[w].row \in {NoRow} \cup DOMAIN rows
      /\ UNCHANGED <<fact, up, original, rows, pc, job>> /\ faults' \in Nat
    BY <1>1 DEF OrphanExpires, OtherTakes, OtherReleases, Take, Lapse, IInv, StateTypeOK
<1>3. AbstractTypeOK /\ {Upstream} \in SUBSET Key /\ Other \in Worker
    BY ActorsWork DEF IInv, StateTypeOK
<1>4. /\ holder' \in [Key -> Holder]
      /\ holder[Upstream] \notin Actor /\ holder'[Upstream] \notin Actor
    BY <1>3, LeaseTyped, ActorsWork DEF OrphanExpires, OtherTakes, OtherReleases
<1>5. At(w)'
    BY <1>1, <1>2, <1>4 DEF IInv, At, Active, IsDisabled, IsRestored, ContextOf
<1> HIDE DEF w
<1> QED
    BY <1>1, <1>2, <1>4, <1>5, QuietStep

LEMMA TimePasses ==
    ASSUME IInv, NEW i \in DOMAIN rows, BecomesDue(i) \/ BackoffEnds(i)
    PROVE  IInv'
<1>1. rows[i] \in Row
    BY Typed, ActorsWork DEF IInv, Actor
<1>2. CASE BecomesDue(i)
  <2> DEFINE r == [rows[i] EXCEPT !.due = TRUE]
  <2>1. /\ r \in Row /\ r.active = rows[i].active /\ r.scope = rows[i].scope
        /\ r.model = rows[i].model /\ r.context = rows[i].context /\ r.error = rows[i].error
      BY <1>1 DEF Row
  <2>2. Save(i, r)
      BY <1>2 DEF BecomesDue
  <2> HIDE DEF r
  <2> QED
      BY <1>2, <2>1, <2>2, Saved, SameRows, ZenonT(40) DEF BecomesDue, IInv
<1>3. CASE BackoffEnds(i)
  <2> DEFINE r == [rows[i] EXCEPT !.backoff = FALSE]
  <2>1. /\ r \in Row /\ r.active = rows[i].active /\ r.scope = rows[i].scope
        /\ r.model = rows[i].model /\ r.context = rows[i].context /\ r.error = rows[i].error
      BY <1>1 DEF Row
  <2>2. Save(i, r)
      BY <1>3 DEF BackoffEnds
  <2> HIDE DEF r
  <2> QED
      BY <1>3, <2>1, <2>2, Saved, SameRows DEF BackoffEnds, IInv
<1> QED
    BY <1>2, <1>3

-----------------------------------------------------------------------------
(* Steps under the lease *)

LEMMA GotoKeeps ==
    ASSUME IInv, NEW w \in Actor, pc[w] \notin Outside,
           NEW s \in {"disable", "extend", "pend", "fail", "release"}, Goto(w, s),
           s # "release" => job[w].row \in Active,
           UNCHANGED <<holder, fact, up, original, rows, job>>, faults' \in Nat
    PROVE  IInv'
<1>1. /\ pc' = [pc EXCEPT ![w] = s] /\ job' = [job EXCEPT ![w] = job[w]]
      /\ pc'[w] = s /\ job'[w] = job[w] /\ At(w) /\ job[w] \in Job /\ s \in Step
      /\ job[w].row \in {NoRow} \cup DOMAIN rows
    BY ActorsWork DEF Goto, IInv, StateTypeOK, Step
<1>2. At(w)'
    BY <1>1 DEF At, Outside, OnRow, Active
<1> QED
    BY <1>1, <1>2, QuietStep DEF IInv, StateTypeOK, AbstractTypeOK

\* A request that gives up ends; the loop records the failure with its row.
LEMMA GiveUpKeeps ==
    ASSUME IInv, NEW w \in Actor, pc[w] \in OnRow \cup {"read", "insert"}, GiveUp(w),
           UNCHANGED <<holder, fact, up, original, rows, job>>, faults' \in Nat
    PROVE  IInv'
<1>1. At(w) /\ pc[w] \notin Outside
    BY DEF IInv, OnRow, Outside
<1>2. CASE job[w].kind = "auto"
  <2>1. Goto(w, "fail") /\ job[w].row \in Active
      BY <1>1, <1>2 DEF GiveUp, At
  <2> QED
      BY <1>1, <2>1, GotoKeeps
<1>3. CASE job[w].kind # "auto"
  <2>1. Goto(w, "release")
      BY <1>3 DEF GiveUp
  <2> QED
      BY <1>1, <2>1, GotoKeeps
<1> QED
    BY <1>2, <1>3

LEMMA SaveFailsKeeps ==
    ASSUME IInv, NEW w \in Actor, SaveFails(w)
    PROVE  IInv'
<1>1. faults' \in Nat /\ pc[w] \in OnRow \cup {"read", "insert"}
    BY DEF SaveFails, Fault, IInv, StateTypeOK, OnRow
<1> QED
    BY <1>1, GiveUpKeeps DEF SaveFails

LEMMA CheckKeeps ==
    ASSUME IInv, NEW w \in Actor, Check(w)
    PROVE  IInv'
<1>1. /\ pc[w] = "check" /\ pc[w] \notin Outside /\ job[w].row \in DOMAIN rows
      /\ faults' \in Nat
    BY DEF Check, IInv, StateTypeOK, At, Outside
<1>2. CASE ~rows[job[w].row].active
    BY <1>1, <1>2, GotoKeeps DEF Check
<1>3. CASE rows[job[w].row].active
  <2>1. job[w].row \in Active
      BY <1>1, <1>3 DEF Active
  <2>2. CASE job[w].kind # "adjust"
      BY <1>1, <1>3, <2>1, <2>2, GotoKeeps DEF Check
  <2>3. CASE job[w].kind = "adjust"
    <3>1. Goto(w, IF rows[job[w].row].error = "disable" THEN "disable" ELSE "extend")
        BY <1>3, <2>3 DEF Check
    <3>2. CASE rows[job[w].row].error = "disable"
        BY <1>1, <2>1, <3>1, <3>2, GotoKeeps DEF Check
    <3>3. CASE rows[job[w].row].error # "disable"
        BY <1>1, <2>1, <3>1, <3>3, GotoKeeps DEF Check
    <3> QED
        BY <3>2, <3>3
  <2> QED
      BY <2>2, <2>3
<1> QED
    BY <1>2, <1>3

LEMMA ReadUpstreamKeeps ==
    ASSUME IInv, NEW w \in Actor, ReadUpstream(w)
    PROVE  IInv'
<1>1. /\ pc[w] = "read" /\ pc[w] \notin Outside /\ At(w) /\ faults' \in Nat
      /\ UNCHANGED <<holder, fact, up, original, rows>>
    BY DEF ReadUpstream, IInv, StateTypeOK, Outside
<1>2. CASE Goto(w, "release") /\ UNCHANGED job
    BY <1>1, <1>2, GotoKeeps
<1>3. CASE /\ job' = [job EXCEPT ![w].context = ContextOf(job[w].scope)]
           /\ Goto(w, "insert")
  <2>1. job[w] \in Job /\ job \in [Worker -> Job] /\ up \in Settings /\ pc \in [Worker -> Step]
        /\ w \in Worker /\ job[w].row \in {NoRow} \cup DOMAIN rows
      BY ActorsWork DEF IInv, StateTypeOK
  <2>2. ContextOf(job[w].scope) \in Settings
      BY <2>1 DEF ContextOf, Neutral, Settings
  <2> DEFINE j == [job[w] EXCEPT !.context = ContextOf(job[w].scope)]
  <2>3. /\ j \in Job /\ j.row = job[w].row /\ j.queue = job[w].queue
        /\ j.kind = job[w].kind /\ j.scope = job[w].scope
        /\ j.context = ContextOf(j.scope)
      BY <2>1, <2>2 DEF Job
  <2>4. job' = [job EXCEPT ![w] = j]
      BY <1>3, <2>1
  <2> HIDE DEF j
  <2>5. pc'[w] = "insert" /\ job'[w] = j /\ pc' = [pc EXCEPT ![w] = "insert"] /\ "insert" \in Step
      BY <1>3, <2>1, <2>4 DEF Goto, Step
  <2>6. \A c \in Scope : ContextOf(c)' = ContextOf(c)
      BY <1>1 DEF ContextOf
  <2>7. At(w)'
      BY <1>1, <2>3, <2>5, <2>6 DEF At, Outside, OnRow, ContextOf
  <2> QED
      BY <1>1, <2>1, <2>3, <2>4, <2>5, <2>7, QuietStep DEF IInv, StateTypeOK, AbstractTypeOK
<1> QED
    BY <1>2, <1>3 DEF ReadUpstream

\* The next active row of a scope records what is upstream, which is the original.
LEMMA CreateRowKeeps ==
    ASSUME IInv, NEW w \in Actor, CreateRow(w)
    PROVE  IInv'
<1>1. /\ pc[w] = "insert" /\ pc[w] \notin Outside /\ At(w) /\ faults' \in Nat
      /\ UNCHANGED <<holder, fact, up, original, faults>> /\ StateTypeOK
      /\ w \in Worker
    BY ActorsWork DEF CreateRow, IInv, StateTypeOK, Outside
<1> DEFINE refused == Len(rows) = MaxRows \/ \E i \in Active : rows[i].scope = job[w].scope
<1>2. CASE refused
    BY <1>1, <1>2, GotoKeeps DEF CreateRow
<1>3. CASE ~refused
  <2> DEFINE r == [scope |-> job[w].scope, model |-> job[w].model,
                   context |-> job[w].context, active |-> TRUE,
                   error |-> "disable", due |-> FALSE, backoff |-> FALSE]
             n == Len(rows) + 1
             j == [NoJob EXCEPT !.kind = "create", !.row = n]
  <2>1. job[w] \in Job /\ rows \in Seq(Row) /\ Len(rows) \in Nat /\ Len(rows) <= MaxRows
        /\ DOMAIN rows = 1 .. Len(rows) /\ MaxRows \in Nat
      BY <1>1, Typed, TemporaryDisableAssumption DEF StateTypeOK
  <2>2. r \in Row
      BY <2>1 DEF Job, Row
  <2>3. /\ r.scope = job[w].scope /\ r.context = job[w].context /\ r.error = "disable" /\ r.active
        /\ j \in Job /\ j.row = n /\ j.queue = {} /\ j.kind = "create"
    <3>1. n \in Nat
        BY <2>1
    <3>2. j \in Job /\ j.row = n /\ j.queue = {} /\ j.kind = "create"
        BY <3>1, NoJobTyped DEF Job, NoJob
    <3> QED
        BY <3>2
  <2>4. /\ rows' = Append(rows, r)
        /\ pc' = [pc EXCEPT ![w] = "disable"] /\ job' = [job EXCEPT ![w] = j]
      BY <1>3 DEF CreateRow, Goto
  <2>5. \A i \in Active : rows[i].scope # job[w].scope
      BY <1>3
  <2>6. n <= MaxRows
    <3>1. Len(rows) # MaxRows
        BY <1>3
    <3>2. Len(rows) \in Nat /\ MaxRows \in Nat /\ Len(rows) <= MaxRows
        BY <2>1
    <3> QED
        BY <3>1, <3>2
  <2>7. "disable" \in Step /\ pc'[w] = "disable" /\ job'[w] = j
      BY <1>1, <2>4 DEF StateTypeOK, Step
  <2> HIDE DEF r, j, refused
  <2>8. /\ rows' \in Seq(Row) /\ Len(rows') = n
        /\ \A i \in 1 .. Len(rows) : rows'[i] = rows[i]
        /\ rows'[n] = r
      BY <2>1, <2>2, <2>4, AppendProperties
  <2>9. DOMAIN rows' = DOMAIN rows \cup {n} /\ n \notin DOMAIN rows
      BY <2>1, <2>8
  <2>10. Active' = Active \cup {n} /\ \A i \in Active : rows'[i] = rows[i] /\ i # n
      BY <2>1, <2>3, <2>8, <2>9 DEF Active
  <2>11. Journal'
    <3>1. OneActivePerScope'
        BY <1>1, <2>3, <2>5, <2>8, <2>10 DEF IInv, Journal, OneActivePerScope
    <3>2. ContextsAreOriginal'
      <4>1. IF r.scope = "account" THEN r.context.schedulable = original.schedulable
            ELSE r.context.whitelist = original.whitelist
        <5>1. r.context = ContextOf(r.scope) /\ r.scope \in Scope
            BY <1>1, <2>1, <2>3 DEF At, Job
        <5>2. CASE r.scope = "account"
          <6>1. up.schedulable = original.schedulable
              BY <2>3, <2>5, <5>2 DEF IInv, Journal, RestoredMeansOriginal
          <6> QED
              BY <5>1, <5>2, <6>1 DEF ContextOf, Neutral
        <5>3. CASE r.scope = "model"
          <6>1. up.whitelist = original.whitelist
              BY <2>3, <2>5, <5>3 DEF IInv, Journal, RestoredMeansOriginal
          <6> QED
              BY <5>1, <5>3, <6>1 DEF ContextOf, Neutral
        <5> QED
            BY <5>1, <5>2, <5>3 DEF Scope
      <4> QED
          BY <1>1, <2>8, <2>10, <4>1 DEF IInv, Journal, ContextsAreOriginal
    <3>3. ConfirmedMeansDisabled'
        BY <1>1, <2>3, <2>8, <2>10 DEF IInv, Journal, ConfirmedMeansDisabled, IsDisabled
    <3>4. RestoredMeansOriginal'
        BY <1>1, <2>8, <2>10 DEF IInv, Journal, RestoredMeansOriginal
    <3> QED
        BY <3>1, <3>2, <3>3, <3>4 DEF Journal
  <2>12. At(w)'
      BY <1>1, <2>3, <2>7, <2>10 DEF At, Outside, OnRow
  <2>13. up' \in Settings /\ j.row \in DOMAIN rows' /\ DOMAIN rows \subseteq DOMAIN rows'
      BY <1>1, <2>3, <2>9 DEF StateTypeOK
  <2> HIDE DEF n
  <2> QED
      BY <1>1, <2>3, <2>4, <2>6, <2>7, <2>8, <2>11, <2>12, <2>13, WorkStep
<1> QED
    BY <1>2, <1>3

-----------------------------------------------------------------------------
(* Writing the account *)

\* A disable changes the scope of its row, which has no other active row.
LEMMA DisableWrites ==
    ASSUME IInv, NEW w \in Actor, pc[w] = "disable", Writable(rows[job[w].row]),
           up' = Disabled(rows[job[w].row]), UNCHANGED <<original, rows, job>>
    PROVE  up' \in Settings /\ Journal' /\ IsDisabled(rows[job[w].row])'
<1> DEFINE k == job[w].row
           r == rows[k]
<1>1. k \in Active /\ k \in DOMAIN rows /\ r \in Row /\ r.active /\ up \in Settings
    BY Typed, ActorsWork DEF IInv, At, OnRow, Active
<1>2. r.scope \in Scope /\ r.context \in Settings
    BY <1>1 DEF Row
<1>3. Base(r) \subseteq Model
    BY <1>1, <1>2 DEF Base, Serves, Settings
<1>4. Active' = Active
    BY DEF Active
<1>5. CASE r.scope = "account"
  <2>1. up' = [up EXCEPT !.schedulable = FALSE]
      BY <1>5 DEF Disabled
  <2>2. /\ up' \in Settings /\ ~up'.schedulable /\ up'.whitelist = up.whitelist
      BY <1>1, <2>1 DEF Settings
  <2>3. OneActivePerScope' /\ ContextsAreOriginal'
      BY <1>4 DEF IInv, Journal, OneActivePerScope, ContextsAreOriginal
  <2>4. ConfirmedMeansDisabled'
      BY <1>4, <2>2 DEF IInv, Journal, ConfirmedMeansDisabled, IsDisabled
  <2>5. RestoredMeansOriginal'
      BY <1>1, <1>4, <1>5, <2>2 DEF IInv, Journal, RestoredMeansOriginal
  <2> QED
      BY <1>5, <2>2, <2>3, <2>4, <2>5 DEF Journal, IsDisabled
<1>6. CASE r.scope = "model"
  <2>1. up' = [up EXCEPT !.whitelist = Base(r) \ {r.model}]
      BY <1>6 DEF Disabled
  <2>2. /\ up' \in Settings /\ up'.schedulable = up.schedulable
        /\ up'.whitelist = Base(r) \ {r.model}
      BY <1>1, <1>3, <2>1 DEF Settings
  <2>3. r.model \notin up'.whitelist /\ up'.whitelist # {}
      BY <1>6, <2>2 DEF Writable
  <2>4. OneActivePerScope' /\ ContextsAreOriginal'
      BY <1>4 DEF IInv, Journal, OneActivePerScope, ContextsAreOriginal
  <2>5. ConfirmedMeansDisabled'
    <3> SUFFICES ASSUME NEW i \in Active, rows[i].error = "none" PROVE IsDisabled(rows[i])'
        BY <1>4 DEF ConfirmedMeansDisabled
    <3>1. CASE i = k
        BY <1>6, <2>3, <3>1 DEF IsDisabled
    <3>2. CASE i # k
      <4>1. rows[i].scope = "account"
        <5>1. rows[i] \in Row
            BY Typed, ActorsWork DEF IInv, Active
        <5>2. rows[i].scope # r.scope
            BY <1>1, <3>2 DEF IInv, Journal, OneActivePerScope
        <5> QED
            BY <1>6, <5>1, <5>2 DEF Row, Scope
      <4> QED
          BY <2>2, <4>1 DEF IInv, Journal, ConfirmedMeansDisabled, IsDisabled
    <3> QED
        BY <3>1, <3>2
  <2>6. RestoredMeansOriginal'
      BY <1>1, <1>4, <1>6, <2>2 DEF IInv, Journal, RestoredMeansOriginal
  <2> QED
      BY <1>6, <2>2, <2>3, <2>4, <2>5, <2>6 DEF Journal, IsDisabled
<1> QED
    BY <1>2, <1>5, <1>6 DEF Scope

\* A restore writes what its row recorded, and its row is marked as uncertain.
LEMMA RestoreWrites ==
    ASSUME IInv, NEW w \in Actor, pc[w] = "restore",
           up' = Restored(rows[job[w].row]), UNCHANGED <<original, rows, job>>
    PROVE  up' \in Settings /\ Journal' /\ IsRestored(rows[job[w].row])'
<1> DEFINE k == job[w].row
           r == rows[k]
<1>1. /\ k \in Active /\ k \in DOMAIN rows /\ r \in Row /\ r.active /\ up \in Settings
      /\ r.error = "restore"
    BY Typed, ActorsWork DEF IInv, At, OnRow, Active
<1>2. r.scope \in Scope /\ r.context \in Settings
    BY <1>1 DEF Row
<1>3. Active' = Active
    BY DEF Active
<1>4. OneActivePerScope' /\ ContextsAreOriginal'
    BY <1>3 DEF IInv, Journal, OneActivePerScope, ContextsAreOriginal
<1>5. ASSUME NEW i \in Active, rows[i].error = "none"
      PROVE  rows[i].scope # r.scope /\ rows[i].scope \in Scope /\ IsDisabled(rows[i])
  <2>1. i # k
      BY <1>1, <1>5
  <2>2. rows[i] \in Row
      BY Typed, ActorsWork DEF IInv, Active
  <2> QED
      BY <1>1, <1>5, <2>1, <2>2 DEF IInv, Journal, OneActivePerScope, ConfirmedMeansDisabled, Row
<1>6. CASE r.scope = "account"
  <2>1. up' = [up EXCEPT !.schedulable = r.context.schedulable]
      BY <1>6 DEF Restored
  <2>2. /\ up' \in Settings /\ up'.schedulable = r.context.schedulable
        /\ up'.whitelist = up.whitelist
      BY <1>1, <1>2, <2>1 DEF Settings
  <2>3. ConfirmedMeansDisabled'
      BY <1>3, <1>5, <1>6, <2>2 DEF ConfirmedMeansDisabled, IsDisabled, Scope
  <2>4. RestoredMeansOriginal'
      BY <1>1, <1>3, <1>6, <2>2 DEF IInv, Journal, RestoredMeansOriginal
  <2> QED
      BY <1>4, <1>6, <2>2, <2>3, <2>4 DEF Journal, IsRestored
<1>7. CASE r.scope = "model"
  <2>1. up' = [up EXCEPT !.whitelist = r.context.whitelist]
      BY <1>7 DEF Restored
  <2>2. /\ up' \in Settings /\ up'.schedulable = up.schedulable
        /\ up'.whitelist = r.context.whitelist
      BY <1>1, <1>2, <2>1 DEF Settings
  <2>3. ConfirmedMeansDisabled'
      BY <1>3, <1>5, <1>7, <2>2 DEF ConfirmedMeansDisabled, IsDisabled, Scope
  <2>4. RestoredMeansOriginal'
      BY <1>1, <1>3, <1>7, <2>2 DEF IInv, Journal, RestoredMeansOriginal
  <2> QED
      BY <1>4, <1>7, <2>2, <2>3, <2>4 DEF Journal, IsRestored
<1> QED
    BY <1>2, <1>6, <1>7 DEF Scope

LEMMA WriteDisableKeeps ==
    ASSUME IInv, NEW w \in Actor, WriteDisable(w)
    PROVE  IInv'
<1>1. /\ pc[w] = "disable" /\ pc[w] \notin Outside /\ At(w) /\ w \in Worker
      /\ job[w] \in Job /\ job[w].row \in {NoRow} \cup DOMAIN rows
      /\ rows \in Seq(Row) /\ Len(rows) <= MaxRows
    BY ActorsWork DEF WriteDisable, IInv, StateTypeOK, Outside
<1>2. up' \in Settings /\ Journal' /\ IsDisabled(rows[job[w].row])'
    BY <1>1, DisableWrites DEF WriteDisable
<1>3. /\ pc' = [pc EXCEPT ![w] = "confirm"] /\ pc'[w] = "confirm" /\ "confirm" \in Step
      /\ job' = [job EXCEPT ![w] = job[w]]
      /\ UNCHANGED <<holder, fact, original, rows, job, faults>>
    BY <1>1 DEF WriteDisable, Goto, IInv, StateTypeOK, Step
<1>4. At(w)'
    BY <1>1, <1>2, <1>3 DEF At, Outside, OnRow, Active
<1> QED
    BY <1>1, <1>2, <1>3, <1>4, WorkStep

LEMMA WriteRestoreKeeps ==
    ASSUME IInv, NEW w \in Actor, WriteRestore(w)
    PROVE  IInv'
<1>1. /\ pc[w] = "restore" /\ pc[w] \notin Outside /\ At(w) /\ w \in Worker
      /\ job[w] \in Job /\ job[w].row \in {NoRow} \cup DOMAIN rows
      /\ rows \in Seq(Row) /\ Len(rows) <= MaxRows
    BY ActorsWork DEF WriteRestore, IInv, StateTypeOK, Outside
<1>2. up' \in Settings /\ Journal' /\ IsRestored(rows[job[w].row])'
    BY <1>1, RestoreWrites DEF WriteRestore
<1>3. /\ pc' = [pc EXCEPT ![w] = "done"] /\ pc'[w] = "done" /\ "done" \in Step
      /\ job' = [job EXCEPT ![w] = job[w]]
      /\ UNCHANGED <<holder, fact, original, rows, job, faults>>
    BY <1>1 DEF WriteRestore, Goto, IInv, StateTypeOK, Step
<1>4. At(w)'
    BY <1>1, <1>2, <1>3 DEF At, Outside, OnRow, Active
<1> QED
    BY <1>1, <1>2, <1>3, <1>4, WorkStep

\* A write without an answer took effect by then or never will.
LEMMA UnansweredKeeps ==
    ASSUME IInv, NEW w \in Actor, pc[w] \in OnRow, GiveUp(w),
           UNCHANGED <<holder, fact, original, rows, job, faults>>,
           up' \in Settings, Journal'
    PROVE  IInv'
<1> DEFINE s == IF job[w].kind = "auto" THEN "fail" ELSE "release"
<1>1. /\ pc[w] \notin Outside /\ At(w) /\ w \in Worker
      /\ job[w] \in Job /\ job[w].row \in {NoRow} \cup DOMAIN rows
      /\ rows \in Seq(Row) /\ Len(rows) <= MaxRows
    BY ActorsWork DEF IInv, StateTypeOK, Outside, OnRow
<1>2. /\ pc' = [pc EXCEPT ![w] = s] /\ pc'[w] = s /\ s \in Step /\ s \in {"fail", "release"}
      /\ job' = [job EXCEPT ![w] = job[w]]
    BY <1>1 DEF GiveUp, Goto, IInv, StateTypeOK, Step
<1> HIDE DEF s
<1>3. At(w)'
    BY <1>1, <1>2 DEF At, Outside, OnRow, Active
<1> QED
    BY <1>1, <1>2, <1>3, WorkStep

LEMMA WriteDisableFailsKeeps ==
    ASSUME IInv, NEW w \in Actor, WriteDisableFails(w)
    PROVE  IInv'
<1>1. pc[w] = "disable" /\ pc[w] \in OnRow /\ GiveUp(w) /\ faults' \in Nat
      /\ UNCHANGED <<holder, fact, original, rows, job, faults>>
    BY DEF WriteDisableFails, OnRow, IInv, StateTypeOK
<1>2. CASE UNCHANGED up
    BY <1>1, <1>2, GiveUpKeeps
<1>3. CASE Writable(rows[job[w].row]) /\ up' = Disabled(rows[job[w].row])
    BY <1>1, <1>3, DisableWrites, UnansweredKeeps
<1> QED
    BY <1>2, <1>3 DEF WriteDisableFails

LEMMA WriteRestoreFailsKeeps ==
    ASSUME IInv, NEW w \in Actor, WriteRestoreFails(w)
    PROVE  IInv'
<1>1. pc[w] = "restore" /\ pc[w] \in OnRow /\ GiveUp(w) /\ faults' \in Nat
      /\ UNCHANGED <<holder, fact, original, rows, job, faults>>
    BY DEF WriteRestoreFails, OnRow, IInv, StateTypeOK
<1>2. CASE UNCHANGED up
    BY <1>1, <1>2, GiveUpKeeps
<1>3. CASE up' = Restored(rows[job[w].row])
    BY <1>1, <1>3, RestoreWrites, UnansweredKeeps
<1> QED
    BY <1>2, <1>3 DEF WriteRestoreFails

-----------------------------------------------------------------------------
(* Writing the row *)

\* An active row gets another error or other times; "none" only if it is true.
LEMMA RowStep ==
    ASSUME IInv, NEW w \in Actor, pc[w] \in OnRow, NEW r \in Row, Save(job[w].row, r),
           r.active, r.scope = rows[job[w].row].scope, r.model = rows[job[w].row].model,
           r.context = rows[job[w].row].context,
           r.error = "none" => IsDisabled(rows[job[w].row]),
           NEW s \in {"extend", "restore", "release"}, Goto(w, s),
           s = "restore" => r.error = "restore",
           UNCHANGED <<holder, fact, up, original, job, faults>>
    PROVE  IInv'
<1> DEFINE k == job[w].row
<1>1. /\ pc[w] \notin Outside /\ At(w) /\ w \in Worker /\ k \in Active /\ k \in DOMAIN rows
      /\ job[w] \in Job /\ StateTypeOK /\ rows \in Seq(Row) /\ Len(rows) <= MaxRows /\ up \in Settings
    BY ActorsWork DEF IInv, StateTypeOK, Outside, OnRow, At, Active
<1>2. /\ rows' \in Seq(Row) /\ Len(rows') = Len(rows) /\ DOMAIN rows' = DOMAIN rows
      /\ rows'[k] = r /\ \A i \in DOMAIN rows : i # k => rows'[i] = rows[i]
    BY <1>1, Saved
<1>3. Active' = Active
    BY <1>1, <1>2 DEF Active
<1>4. \A i \in DOMAIN rows :
        /\ rows'[i].scope = rows[i].scope /\ rows'[i].model = rows[i].model
        /\ rows'[i].context = rows[i].context
    BY <1>2
<1>5. Journal'
  <2>1. OneActivePerScope' /\ ContextsAreOriginal'
      BY <1>3, <1>4 DEF IInv, Journal, OneActivePerScope, ContextsAreOriginal, Active
  <2>2. ConfirmedMeansDisabled'
    <3> SUFFICES ASSUME NEW i \in Active, rows'[i].error = "none" PROVE IsDisabled(rows[i])'
        BY <1>3 DEF ConfirmedMeansDisabled
    <3>1. IsDisabled(rows[i])
        BY <1>2 DEF IInv, Journal, ConfirmedMeansDisabled, Active
    <3> QED
        BY <1>4, <3>1 DEF IsDisabled, Active
  <2>3. RestoredMeansOriginal'
      BY <1>3, <1>4 DEF IInv, Journal, RestoredMeansOriginal, Active
  <2> QED
      BY <2>1, <2>2, <2>3 DEF Journal
<1>6. /\ pc' = [pc EXCEPT ![w] = s] /\ pc'[w] = s /\ s \in Step
      /\ job' = [job EXCEPT ![w] = job[w]]
    BY <1>1 DEF Goto, StateTypeOK, Step
<1>7. At(w)'
    BY <1>1, <1>2, <1>3, <1>6 DEF At, Outside, OnRow
<1>8. job[w].row \in DOMAIN rows' /\ up' \in Settings /\ Len(rows') <= MaxRows
    BY <1>1, <1>2
<1> QED
    BY <1>1, <1>2, <1>5, <1>6, <1>7, <1>8, WorkStep

LEMMA RowChangesKeep ==
    ASSUME IInv, NEW w \in Actor,
           \/ ConfirmDisable(w) \/ Extend(w) \/ MarkRestoring(w) \/ RecordRestoreFailure(w)
    PROVE  IInv'
<1> DEFINE k == job[w].row
<1>1. pc[w] \in OnRow /\ At(w) /\ UNCHANGED <<holder, fact, up, original, job, faults>>
    BY DEF IInv, OnRow, ConfirmDisable, Extend, MarkRestoring, RecordRestoreFailure
<1>2. k \in Active /\ k \in DOMAIN rows /\ rows[k] \in Row /\ rows[k].active
    BY <1>1, Typed, ActorsWork DEF IInv, At, Active
<1>3. CASE ConfirmDisable(w)
  <2> DEFINE r == [rows[k] EXCEPT !.error = "none"]
             s == IF job[w].kind = "adjust" THEN "extend" ELSE "release"
  <2>1. /\ r \in Row /\ r.active /\ r.scope = rows[k].scope /\ r.model = rows[k].model
        /\ r.context = rows[k].context /\ r.error = "none"
      BY <1>2 DEF Row
  <2>2. Save(k, r) /\ Goto(w, s) /\ s \in {"extend", "release"} /\ IsDisabled(rows[k])
      BY <1>1, <1>3 DEF ConfirmDisable, At
  <2> HIDE DEF r, s
  <2> QED
      BY <1>1, <2>1, <2>2, RowStep
<1>4. CASE Extend(w)
  <2> DEFINE r == [rows[k] EXCEPT !.due = FALSE, !.backoff = FALSE]
  <2>1. /\ r \in Row /\ r.active /\ r.scope = rows[k].scope /\ r.model = rows[k].model
        /\ r.context = rows[k].context /\ r.error = rows[k].error
      BY <1>2 DEF Row
  <2>2. Save(k, r) /\ Goto(w, "release") /\ (r.error = "none" => IsDisabled(rows[k]))
      BY <1>2, <1>4, <2>1 DEF Extend, IInv, Journal, ConfirmedMeansDisabled
  <2> HIDE DEF r
  <2> QED
      BY <1>1, <2>1, <2>2, RowStep
<1>5. CASE MarkRestoring(w)
  <2> DEFINE r == [rows[k] EXCEPT !.error = "restore", !.backoff = FALSE]
  <2>1. /\ r \in Row /\ r.active /\ r.scope = rows[k].scope /\ r.model = rows[k].model
        /\ r.context = rows[k].context /\ r.error = "restore"
      BY <1>2 DEF Row
  <2>2. Save(k, r) /\ Goto(w, "restore")
      BY <1>5 DEF MarkRestoring
  <2> HIDE DEF r
  <2> QED
      BY <1>1, <2>1, <2>2, RowStep
<1>6. CASE RecordRestoreFailure(w)
  <2> DEFINE r == [rows[k] EXCEPT !.error = "auto", !.backoff = TRUE]
  <2>1. /\ r \in Row /\ r.active /\ r.scope = rows[k].scope /\ r.model = rows[k].model
        /\ r.context = rows[k].context /\ r.error = "auto"
      BY <1>2 DEF Row
  <2>2. Save(k, r) /\ Goto(w, "release")
      BY <1>6 DEF RecordRestoreFailure
  <2> HIDE DEF r
  <2> QED
      BY <1>1, <2>1, <2>2, RowStep
<1> QED
    BY <1>3, <1>4, <1>5, <1>6

\* A row ends when what it recorded is upstream again.
LEMMA MarkRestoredKeeps ==
    ASSUME IInv, NEW w \in Actor, MarkRestored(w)
    PROVE  IInv'
<1> DEFINE k == job[w].row
           r == [rows[k] EXCEPT !.active = FALSE, !.error = "none"]
<1>1. /\ pc[w] = "done" /\ pc[w] \notin Outside /\ At(w) /\ w \in Worker
      /\ k \in Active /\ k \in DOMAIN rows /\ rows[k] \in Row
      /\ job[w] \in Job /\ StateTypeOK /\ up \in Settings /\ Len(rows) <= MaxRows
      /\ UNCHANGED <<holder, fact, up, original, job, faults>>
    BY Typed, ActorsWork DEF MarkRestored, IInv, StateTypeOK, Outside, OnRow, At, Active
<1>2. r \in Row /\ ~r.active
    BY <1>1 DEF Row
<1>3. Save(k, r) /\ Goto(w, "release")
    BY DEF MarkRestored
<1> HIDE DEF r
<1>4. /\ rows' \in Seq(Row) /\ Len(rows') = Len(rows) /\ DOMAIN rows' = DOMAIN rows
      /\ rows'[k] = r /\ \A i \in DOMAIN rows : i # k => rows'[i] = rows[i]
    BY <1>1, <1>2, <1>3, Saved
<1>5. Active' = Active \ {k} /\ \A i \in Active \ {k} : rows'[i] = rows[i]
    BY <1>1, <1>2, <1>4 DEF Active
<1>6. Journal'
  <2>1. OneActivePerScope' /\ ContextsAreOriginal'
      BY <1>1, <1>5 DEF IInv, Journal, OneActivePerScope, ContextsAreOriginal
  <2>2. ConfirmedMeansDisabled'
      BY <1>1, <1>5 DEF IInv, Journal, ConfirmedMeansDisabled, IsDisabled
  <2>3. RestoredMeansOriginal'
    <3>1. IsRestored(rows[k]) /\ rows[k].scope \in Scope
        BY <1>1 DEF At, Row
    <3>2. CASE rows[k].scope = "account"
      <4>1. up.schedulable = original.schedulable
          BY <1>1, <3>1, <3>2 DEF IInv, Journal, ContextsAreOriginal, IsRestored
      <4>2. (\A i \in Active' : rows'[i].scope # "model") => (\A i \in Active : rows[i].scope # "model")
          BY <1>5, <3>2
      <4> QED
          BY <1>1, <4>1, <4>2 DEF IInv, Journal, RestoredMeansOriginal
    <3>3. CASE rows[k].scope = "model"
      <4>1. up.whitelist = original.whitelist
          BY <1>1, <3>1, <3>3 DEF IInv, Journal, ContextsAreOriginal, IsRestored
      <4>2. (\A i \in Active' : rows'[i].scope # "account") => (\A i \in Active : rows[i].scope # "account")
          BY <1>5, <3>3
      <4> QED
          BY <1>1, <4>1, <4>2 DEF IInv, Journal, RestoredMeansOriginal
    <3> QED
        BY <3>1, <3>2, <3>3 DEF Scope
  <2> QED
      BY <2>1, <2>2, <2>3 DEF Journal
<1>7. /\ pc' = [pc EXCEPT ![w] = "release"] /\ pc'[w] = "release" /\ "release" \in Step
      /\ job' = [job EXCEPT ![w] = job[w]]
    BY <1>1, <1>3 DEF Goto, StateTypeOK, Step
<1>8. At(w)'
    BY <1>1, <1>4, <1>7 DEF At, Outside, OnRow
<1>9. job[w].row \in DOMAIN rows' /\ up' \in Settings /\ Len(rows') <= MaxRows
    BY <1>1, <1>4
<1> QED
    BY <1>1, <1>4, <1>6, <1>7, <1>8, <1>9, WorkStep

-----------------------------------------------------------------------------
(* The invariant, and what follows *)

LEMMA InitEstablishes == Init => IInv
<1> SUFFICES ASSUME Init PROVE IInv
    OBVIOUS
<1>1. up \in Settings /\ original \in Settings
    BY TemporaryDisableAssumption DEF Init
<1>2. StateTypeOK
  <2>1. AbstractTypeOK
      BY DEF Init, AbstractInit, AbstractTypeOK, Holder
  <2>2. rows \in Seq(Row) /\ Len(rows) <= MaxRows
      BY TemporaryDisableAssumption DEF Init
  <2>3. /\ pc \in [Worker -> Step] /\ job \in [Worker -> Job] /\ faults \in Nat
        /\ \A w \in Worker : job[w].row \in {NoRow} \cup DOMAIN rows
      BY NoJobTyped DEF Init, Step
  <2> QED
      BY <1>1, <2>1, <2>2, <2>3 DEF StateTypeOK
<1>3. Active = {}
    BY DEF Init, Active
<1>4. Journal
    BY <1>3 DEF Init, Journal, OneActivePerScope, ContextsAreOriginal, ConfirmedMeansDisabled,
           RestoredMeansOriginal
<1>5. ASSUME NEW w \in Actor PROVE At(w)
  <2>1. pc[w] = "idle" /\ job[w].queue = {} /\ holder[Upstream] = Nobody /\ Nobody # w
      BY ActorsWork, NoJobTyped DEF Init, AbstractInit
  <2> QED
      BY <2>1 DEF At, Outside, OnRow
<1> QED
    BY <1>2, <1>4, <1>5 DEF IInv

LEMMA NextPreserves == IInv /\ [Next]_vars => IInv'
<1> SUFFICES ASSUME IInv, [Next]_vars PROVE IInv'
    OBVIOUS
<1>1. ASSUME NEW w \in Actor, Operate(w) \/ SaveFails(w) \/ Crash(w) PROVE IInv'
    BY <1>1, AcquireKeeps, AcquireBusyKeeps, ReadUpstreamKeeps, CreateRowKeeps, CheckKeeps,
       WriteDisableKeeps, WriteDisableFailsKeeps, RowChangesKeep, WriteRestoreKeeps,
       WriteRestoreFailsKeeps, MarkRestoredKeeps, ReleaseKeeps, SaveFailsKeeps, CrashKeeps
    DEF Operate
<1>2. ASSUME NEW w \in Actor, NEW scope \in Scope, NEW m \in Model \cup {NoModel},
             CreateDisable(w, scope, m)
      PROVE  IInv'
    BY <1>2, BeginningsKeep
<1>3. ASSUME NEW w \in Actor, NEW i \in DOMAIN rows, UpdateDisable(w, i) \/ RestoreDisable(w, i)
      PROVE  IInv'
    BY <1>3, BeginningsKeep
<1>4. ASSUME RestoreDue(Poller) PROVE IInv'
    BY <1>4, BeginningsKeep DEF Actor
<1>5. ASSUME NEW i \in DOMAIN rows, BecomesDue(i) \/ BackoffEnds(i) PROVE IInv'
    BY <1>5, TimePasses
<1>6. ASSUME OrphanExpires \/ OtherTakes \/ OtherReleases PROVE IInv'
    BY <1>6, LeasesOfOthersKeep
<1>7. CASE UNCHANGED vars
  <2>1. UNCHANGED <<holder, fact, up, original, rows, pc, job, faults>>
      BY <1>7 DEF vars
  <2> QED
      BY <2>1, SameRows DEF IInv, StateTypeOK
<1> QED
    BY <1>1, <1>2, <1>3, <1>4, <1>5, <1>6, <1>7 DEF Next, Actor

\* What the requests know of the account and of their rows holds throughout.
THEOREM Inductive == Spec => []IInv
<1> QED
    BY InitEstablishes, NextPreserves, PTL DEF Spec

\* The order in which rows became due is an order of rows.
LEMMA OrderTyped ==
    ASSUME IInv, sooner \in SUBSET ((1 .. MaxRows) \X (1 .. MaxRows)), [Next]_vars
    PROVE  sooner' \in SUBSET ((1 .. MaxRows) \X (1 .. MaxRows))
<1>1. DOMAIN rows \subseteq 1 .. MaxRows
    BY Typed, ActorsWork DEF IInv, Actor
<1>2. ASSUME NEW i \in DOMAIN rows, BecomesDue(i)
      PROVE  sooner' \in SUBSET ((1 .. MaxRows) \X (1 .. MaxRows))
    BY <1>1, <1>2 DEF BecomesDue, Active
<1>3. ASSUME NEW w \in Actor, Extend(w)
      PROVE  sooner' \in SUBSET ((1 .. MaxRows) \X (1 .. MaxRows))
    BY <1>3 DEF Extend
<1>4. ASSUME NEW w \in Actor, Operate(w), ~Extend(w)
      PROVE  UNCHANGED sooner
    BY <1>4 DEF Operate, Acquire, AcquireBusy, ReadUpstream, CreateRow, Check, WriteDisable,
         WriteDisableFails, ConfirmDisable, MarkRestoring, WriteRestore, WriteRestoreFails,
         MarkRestored, RecordRestoreFailure, Release
<1>5. ASSUME NEW w \in Actor, SaveFails(w) \/ Crash(w)
      PROVE  UNCHANGED sooner
    BY <1>5 DEF SaveFails, Crash
<1>6. ASSUME NEW w \in Worker, NEW j, Begin(w, j)
      PROVE  UNCHANGED sooner
    BY <1>6 DEF Begin
<1>7. ASSUME NEW i \in DOMAIN rows, BackoffEnds(i)
      PROVE  UNCHANGED sooner
    BY <1>7 DEF BackoffEnds
<1>8. CASE OrphanExpires \/ OtherTakes \/ OtherReleases \/ UNCHANGED vars
    BY <1>8 DEF OrphanExpires, OtherTakes, OtherReleases, vars
<1> QED
    BY <1>2, <1>3, <1>4, <1>5, <1>6, <1>7, <1>8, ActorsWork
    DEF Next, Actor, CreateDisable, UpdateDisable, RestoreDisable, RestoreDue

\* The variables stay within their types.
THEOREM TypeCorrect == Spec => []TypeOK
<1>1. Init => sooner \in SUBSET ((1 .. MaxRows) \X (1 .. MaxRows))
    BY DEF Init
<1>2. IInv /\ sooner \in SUBSET ((1 .. MaxRows) \X (1 .. MaxRows)) /\ [Next]_vars
      => (sooner \in SUBSET ((1 .. MaxRows) \X (1 .. MaxRows)))'
    BY OrderTyped
<1>3. IInv /\ sooner \in SUBSET ((1 .. MaxRows) \X (1 .. MaxRows)) => TypeOK
    BY DEF IInv, TypeOK
<1> QED
    BY <1>1, <1>2, <1>3, Inductive, PTL DEF Spec

\* A row that says nothing is wrong is right: its account, or its model, is out
\* of service upstream.
THEOREM ConfirmedIsTrue == Spec => []ConfirmedMeansDisabled
<1>1. IInv => ConfirmedMeansDisabled
    BY DEF IInv, Journal
<1> QED
    BY <1>1, Inductive, PTL

\* A scope without an active row is upstream as it was at the start.
THEOREM NothingIsLeftBehind == Spec => []RestoredMeansOriginal
<1>1. IInv => RestoredMeansOriginal
    BY DEF IInv, Journal
<1> QED
    BY <1>1, Inductive, PTL
=============================================================================
