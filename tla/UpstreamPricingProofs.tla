------------------------ MODULE UpstreamPricingProofs ------------------------
(***************************************************************************)
(* Why rules never compound and can always be taken back, for every number *)
(* of services, groups, accounts, operations, changes and faults.          *)
(*                                                                         *)
(* The argument follows one group.  Its journal row is only rewritten after*)
(* the group has been read, so a write whose answer was lost, and that     *)
(* nobody has read past, carries what the row still says; and a row that   *)
(* needs no revert has nothing of ours in its group, so that what it       *)
(* records as the next baseline is free of rules.                          *)
(***************************************************************************)
EXTENDS UpstreamPricing, SequenceTheorems, TLAPS

Write == [value : Value \cup {NoValue}, read : BOOLEAN]

Status == {"pending", "failed", "partial", "applied", "reverted"}

Journal == [url : Url \cup {NoUrl}, policy : Policy, selected : SUBSET Group,
            revision : Nat, status : Status, announced : BOOLEAN,
            targets : [Group -> Target]]

AccountRow == [enabled : BOOLEAN, applied : BOOLEAN,
               epoch : [of : {"pending", "none", "applied", "connection"}, number : Nat]]

StepName == {"release", "accounts", "group", "mark", "put", "verify", "settle", "close"}

ApplyOp == [kind : {"apply"}, step : StepName, url : Url,
            todo : SUBSET Group, targets : SUBSET Group, group : Nat,
            accounts : SUBSET Account,
            previous : UNION {[S -> AccountRow] : S \in SUBSET Account},
            groups : UNION {[S -> SUBSET Group] : S \in SUBSET Account},
            errors : SUBSET Account, changed : SUBSET Account]

RevertOp == [kind : {"revert"}, step : StepName, url : Url,
             todo : SUBSET Group, targets : SUBSET Group, group : Nat,
             accounts : SUBSET Account]

Operation == {o \in ApplyOp : o.previous \in [o.accounts -> AccountRow]} \cup RevertOp

\* baseline, before and after come together; what is confirmed is not open.
WellFormed(t) ==
    /\ t \in Target
    /\ (t.baseline = NoValue) <=> (t.after = NoValue)
    /\ (t.baseline = NoValue) <=> (t.before = NoValue)
    /\ t.status \in {"applied", "reverted"} => ~t.pending /\ t.after # NoValue

Shapes ==
    /\ upstream \in [Url -> [Group -> Value]]
    /\ late \in [Url -> [Group -> Write]]
    /\ member \in [Account -> SUBSET Group]
    /\ connection \in Url
    /\ journal \in Journal
    /\ \A g \in Group : WellFormed(journal.targets[g])
    /\ accounts \in [Account -> AccountRow]
    /\ overtaken \in BOOLEAN
    /\ op \in Operation \cup {NoOp}
    /\ changes \in Nat

\* An operation works on the service of its journal, and on a row it has
\* planned; the journal of no service has no prices.
OnTrack ==
    /\ op # NoOp =>
        /\ op.url = connection
        /\ journal.url = connection
        /\ op.step \in {"mark", "put", "verify"} =>
            /\ op.group \in Group
            /\ journal.targets[op.group].status = "pending"
            /\ journal.targets[op.group].baseline # NoValue
    /\ journal.url = NoUrl => \A g \in Group : journal.targets[g].baseline = NoValue

\* Prices that somebody gives later are told apart by their base.
BasesBelow(g) ==
    /\ \A u \in Url : upstream[u][g].base <= changes
    /\ \A u \in Url : late[u][g].value # NoValue => late[u][g].value.base <= changes
    /\ LET t == journal.targets[g]
       IN t.baseline # NoValue => t.baseline.base <= changes /\ t.after.base <= changes

\* Prices with rules of ours are those of a row that needs a revert.
Ours(u, g, value) ==
    value.by # <<>> =>
        Len(value.by) = 1 /\ journal.url = u /\ NeedsRevert(journal.targets[g])

Unread(u, g) == late[u][g].value # NoValue /\ ~late[u][g].read

\* What holds of a group as long as no write was overtaken.
Sound(g) ==
    LET t == journal.targets[g]
    IN /\ t.baseline # NoValue => t.baseline.by = <<>> /\ Len(t.after.by) <= 1
       /\ \A u \in Url : Ours(u, g, upstream[u][g])
       /\ \A u \in Url : Unread(u, g) =>
            /\ Ours(u, g, late[u][g].value)
            /\ u = journal.url /\ t.baseline # NoValue => late[u][g].value \in {t.after, t.baseline}
       /\ (journal.url # NoUrl /\ t.baseline # NoValue
              /\ upstream[journal.url][g].base = t.baseline.base)
            => MatchesJournal(upstream[journal.url][g], t)

IInv ==
    /\ Shapes
    /\ OnTrack
    /\ \A g \in Group : BasesBelow(g)
    /\ ~overtaken => \A g \in Group : Sound(g)

-----------------------------------------------------------------------------
(* Typing *)

LEMMA Assumed ==
    /\ Group \subseteq Nat /\ Recommended \in Policy
    /\ NoUrl \notin Url /\ NoValue \notin Value
    /\ Member \in [Account -> SUBSET Group]
BY PricingAssumption DEF Policy, Value

LEMMA AbsentWellFormed ==
    /\ WellFormed(Absent)
    /\ Absent.baseline = NoValue /\ Absent.status = "absent" /\ ~NeedsRevert(Absent)
BY DEF WellFormed, Absent, Target, NeedsRevert

LEMMA PlanTyped ==
    ASSUME NEW b \in Value, NEW p \in Policy, b.by = <<>>
    PROVE  /\ Plan(b, p) \in Value
           /\ Plan(b, p).base = b.base
           /\ Len(Plan(b, p).by) <= 1
           /\ Plan(b, p).by # <<>> => Len(Plan(b, p).by) = 1 /\ Plan(b, p) # b
<1>1. CASE p = NoRules
    BY <1>1 DEF Plan
<1>2. CASE p # NoRules
  <2>1. p \in Rules
      BY <1>2 DEF Policy
  <2>2. Append(<<>>, p) \in Seq(Rules) /\ Len(Append(<<>>, p)) = 1
      BY <2>1, AppendProperties
  <2>3. Plan(b, p) = [b EXCEPT !.by = Append(b.by, p)]
      BY <1>2 DEF Plan
  <2>4. /\ Plan(b, p) \in Value /\ Plan(b, p).base = b.base
        /\ Plan(b, p).by = Append(<<>>, p)
      BY <2>2, <2>3 DEF Value
  <2>5. Append(<<>>, p) # <<>>
      BY <2>2
  <2>6. Plan(b, p) # b
      BY <2>4, <2>5
  <2>7. Len(Plan(b, p).by) = 1
      BY <2>2, <2>4
  <2> QED
      BY <2>4, <2>6, <2>7
<1> QED
    BY <1>1, <1>2

LEMMA StepTyped ==
    ASSUME op \in Operation, NEW s \in StepName
    PROVE  /\ [op EXCEPT !.step = s] \in Operation
           /\ [op EXCEPT !.step = s].step = s
           /\ [op EXCEPT !.step = s].url = op.url
           /\ [op EXCEPT !.step = s].group = op.group
BY DEF Operation, ApplyOp, RevertOp

LEMMA GroupClosed ==
    ASSUME op \in Operation, NEW g
    PROVE  /\ [op EXCEPT !.step = "group", !.todo = @ \ {g}] \in Operation
           /\ [op EXCEPT !.step = "group", !.todo = @ \ {g}].step = "group"
           /\ [op EXCEPT !.step = "group", !.todo = @ \ {g}].url = op.url
BY DEF Operation, ApplyOp, RevertOp, StepName

LEMMA RowSet ==
    ASSUME Shapes, NEW g \in Group, NEW t, WellFormed(t), SetTarget(g, t)
    PROVE  /\ journal' \in Journal /\ journal'.url = journal.url
           /\ journal'.targets[g] = t
           /\ \A h \in Group : h # g => journal'.targets[h] = journal.targets[h]
           /\ \A h \in Group : WellFormed(journal'.targets[h])
<1>1. t \in Target /\ journal \in Journal
    BY DEF WellFormed, Shapes
<1>2. journal' = [journal EXCEPT !.targets[g] = t]
    BY DEF SetTarget
<1>3. /\ journal' \in Journal /\ journal'.url = journal.url
      /\ journal'.targets = [journal.targets EXCEPT ![g] = t]
    BY <1>1, <1>2 DEF Journal
<1>4. \A h \in Group : journal'.targets[h] = IF h = g THEN t ELSE journal.targets[h]
    BY <1>1, <1>3 DEF Journal
<1>5. \A h \in Group : WellFormed(journal'.targets[h])
    BY <1>4 DEF Shapes
<1> QED
    BY <1>3, <1>4, <1>5

\* Reading a group leaves no write on its way that is unread.
LEMMA GroupRead ==
    ASSUME Shapes, op \in Operation, NEW g \in Group, ReadsGroup(g)
    PROVE  /\ late' \in [Url -> [Group -> Write]]
           /\ \A u \in Url : u = op.url => ~Unread(u, g)'
           /\ \A u \in Url, h \in Group :
                /\ late'[u][h].value = late[u][h].value
                /\ Unread(u, h)' => Unread(u, h)
                /\ h # g => late'[u][h] = late[u][h]
<1> DEFINE v == op.url
           w == [late[v][g] EXCEPT !.read = late[v][g].read \/ late[v][g].value # NoValue]
<1>1. v \in Url /\ late \in [Url -> [Group -> Write]] /\ late[v][g] \in Write
    BY DEF Operation, ApplyOp, RevertOp, Shapes
<1>2. /\ w \in Write /\ w.value = late[v][g].value
      /\ w.read = (late[v][g].read \/ late[v][g].value # NoValue)
    BY <1>1 DEF Write
<1>3. late' = [late EXCEPT ![v][g] = w]
    BY <1>1 DEF ReadsGroup
<1> HIDE DEF w
<1>4. /\ late' \in [Url -> [Group -> Write]]
      /\ \A u \in Url, h \in Group :
            late'[u][h] = IF u = v /\ h = g THEN w ELSE late[u][h]
    BY <1>1, <1>2, <1>3
<1>5. ASSUME NEW u \in Url, u = op.url PROVE ~Unread(u, g)'
  <2>1. late'[u][g] = w
      BY <1>1, <1>4, <1>5
  <2> QED
      BY <1>2, <1>5, <2>1 DEF Unread
<1> QED
    BY <1>1, <1>2, <1>4, <1>5 DEF Unread

-----------------------------------------------------------------------------
(* Steps, group by group *)

\* The writes on their way to group h are the same, or have been read past.
LateKept(h) ==
    \A u \in Url : /\ late'[u][h].value = late[u][h].value
                   /\ Unread(u, h)' => Unread(u, h)

\* A group whose row and prices stay.
LEMMA OtherGroup ==
    ASSUME IInv, NEW h \in Group, journal'.url = journal.url,
           journal'.targets[h] = journal.targets[h],
           \A u \in Url : upstream'[u][h] = upstream[u][h],
           LateKept(h), changes' \in Nat, changes <= changes', ~overtaken' => ~overtaken
    PROVE  BasesBelow(h)' /\ (~overtaken' => Sound(h)')
<1>1. BasesBelow(h)'
  <2>1. BasesBelow(h) /\ changes \in Nat
      BY DEF IInv, Shapes
  <2>2. \A u \in Url : upstream[u][h].base \in Nat
      BY DEF IInv, Shapes, Value
  <2>3. \A u \in Url : late[u][h].value # NoValue => late[u][h].value.base \in Nat
      BY DEF IInv, Shapes, Write, Value
  <2>4. journal.targets[h].baseline # NoValue =>
            journal.targets[h].baseline.base \in Nat /\ journal.targets[h].after.base \in Nat
      BY DEF IInv, Shapes, WellFormed, Target, Value
  <2> QED
      BY <2>1, <2>2, <2>3, <2>4 DEF BasesBelow, LateKept
<1>2. ASSUME ~overtaken' PROVE Sound(h)'
  <2>1. Sound(h) /\ journal.url \in Url \cup {NoUrl}
      BY <1>2 DEF IInv, Shapes, Journal
  <2> QED
      BY <2>1 DEF Sound, Ours, LateKept
<1> QED
    BY <1>1, <1>2

\* A step that leaves the journal's rows and the prices alone.
LEMMA Untouched ==
    ASSUME IInv, UNCHANGED <<upstream, late, overtaken>>,
           journal' \in Journal, journal'.url = journal.url,
           journal'.targets = journal.targets,
           changes' \in Nat, changes <= changes',
           member' \in [Account -> SUBSET Group], connection' \in Url,
           accounts' \in [Account -> AccountRow], op' \in Operation \cup {NoOp},
           OnTrack'
    PROVE  IInv'
<1>1. Shapes'
    BY DEF IInv, Shapes, WellFormed
<1>2. ASSUME NEW h \in Group PROVE BasesBelow(h)' /\ (~overtaken' => Sound(h)')
  <2>1. LateKept(h)
      BY DEF LateKept, Unread
  <2> QED
      BY <2>1, OtherGroup
<1> QED
    BY <1>1, <1>2 DEF IInv

\* A step that writes one row.
LEMMA RowStep ==
    ASSUME IInv, op \in Operation, NEW g \in Group, NEW t, WellFormed(t), SetTarget(g, t),
           UNCHANGED <<upstream, overtaken, accounts>>, StepFrame,
           late' \in [Url -> [Group -> Write]], \A h \in Group : LateKept(h),
           op' \in Operation, op'.url = op.url,
           op'.step \in {"mark", "put", "verify"} =>
                op'.group = g /\ t.status = "pending" /\ t.baseline # NoValue,
           t.baseline # NoValue => t.baseline.base <= changes /\ t.after.base <= changes,
           ~overtaken => Sound(g)'
    PROVE  IInv'
<1>1. /\ journal' \in Journal /\ journal'.url = journal.url
      /\ journal'.targets[g] = t
      /\ \A h \in Group : h # g => journal'.targets[h] = journal.targets[h]
      /\ \A h \in Group : WellFormed(journal'.targets[h])
    BY RowSet DEF IInv
<1>2. Shapes'
    BY <1>1 DEF IInv, Shapes, WellFormed, StepFrame
<1>3. OnTrack'
  <2>1. op # NoOp
      BY DEF NoOp, Operation, ApplyOp, RevertOp
  <2>2. op.url = connection /\ journal.url = connection /\ connection' = connection
      BY <2>1 DEF IInv, OnTrack, StepFrame
  <2>3. journal'.url # NoUrl
      BY <1>1, <2>2, Assumed DEF IInv, Shapes
  <2> QED
      BY <1>1, <2>2, <2>3 DEF OnTrack
<1>4. ASSUME NEW h \in Group PROVE BasesBelow(h)' /\ (~overtaken' => Sound(h)')
  <2>1. changes' = changes /\ changes \in Nat
      BY DEF StepFrame, IInv, Shapes
  <2>2. CASE h # g
      BY <1>1, <2>1, <2>2, OtherGroup
  <2>3. CASE h = g
    <3>1. BasesBelow(g)'
        BY <1>1, <2>1 DEF IInv, BasesBelow, LateKept
    <3> QED
        BY <2>3, <3>1
  <2> QED
      BY <2>2, <2>3
<1> QED
    BY <1>2, <1>3, <1>4 DEF IInv

\* A row that keeps its prices, and does not become a reverted one.
LEMMA SameRow ==
    ASSUME IInv, ~overtaken, NEW g \in Group, NEW t, UNCHANGED upstream, LateKept(g),
           journal'.url = journal.url, journal'.targets[g] = t,
           t.baseline = journal.targets[g].baseline, t.after = journal.targets[g].after,
           t.before = journal.targets[g].before, t.pending = journal.targets[g].pending,
           t.status = "reverted" => journal.targets[g].status = "reverted"
    PROVE  Sound(g)'
<1>1. Sound(g) /\ journal.url \in Url \cup {NoUrl}
    BY DEF IInv, Shapes, Journal
<1>2. NeedsRevert(journal.targets[g]) => NeedsRevert(t)
    BY DEF NeedsRevert
<1>3. \A v : MatchesJournal(v, t) <=> MatchesJournal(v, journal.targets[g])
    BY DEF MatchesJournal
<1> QED
    BY <1>1, <1>2, <1>3 DEF Sound, Ours, LateKept

\* A group without a row that needs a revert has nothing of ours, nor has a
\* write that is still on its way to it.
LEMMA NothingOfOurs ==
    ASSUME IInv, ~overtaken, NEW g \in Group, ~NeedsRevert(journal.targets[g])
    PROVE  /\ \A u \in Url : upstream[u][g].by = <<>>
           /\ \A u \in Url : Unread(u, g) => late[u][g].value.by = <<>>
BY DEF IInv, Sound, Ours

\* A reverted row is taken over afresh, and this fails.
LEMMA ForgottenRow ==
    ASSUME IInv, ~overtaken, NEW g \in Group, NEW t, UNCHANGED upstream, LateKept(g),
           journal'.url = journal.url, journal'.targets[g] = t,
           journal.targets[g].status = "reverted", t.baseline = NoValue
    PROVE  Sound(g)'
<1>1. ~NeedsRevert(journal.targets[g])
    BY DEF NeedsRevert
<1>2. /\ \A u \in Url : upstream[u][g].by = <<>>
      /\ \A u \in Url : Unread(u, g) => late[u][g].value.by = <<>>
    BY <1>1, NothingOfOurs
<1> QED
    BY <1>2 DEF Sound, Ours, LateKept

\* A step that touches the prices of one group.
LEMMA PriceStep ==
    ASSUME IInv, NEW g \in Group,
           upstream' \in [Url -> [Group -> Value]], late' \in [Url -> [Group -> Write]],
           journal' \in Journal, journal'.url = journal.url,
           \A h \in Group : WellFormed(journal'.targets[h]),
           \A h \in Group : h # g =>
                /\ journal'.targets[h] = journal.targets[h]
                /\ \A u \in Url : upstream'[u][h] = upstream[u][h]
                /\ LateKept(h),
           UNCHANGED <<member, connection, accounts>>, changes' \in Nat, changes <= changes',
           op' \in Operation \cup {NoOp}, OnTrack', overtaken' \in BOOLEAN,
           ~overtaken' => ~overtaken, BasesBelow(g)', ~overtaken' => Sound(g)'
    PROVE  IInv'
<1>1. Shapes'
    BY DEF IInv, Shapes, WellFormed
<1>2. ASSUME NEW h \in Group PROVE BasesBelow(h)' /\ (~overtaken' => Sound(h)')
  <2>1. CASE h # g
      BY <2>1, OtherGroup
  <2>2. CASE h = g
      BY <2>2
  <2> QED
      BY <2>1, <2>2
<1> QED
    BY <1>1, <1>2 DEF IInv

\* The row of a group as an operation finds it.
LEMMA OwnedRow ==
    ASSUME IInv, op \in Operation, NEW g \in Group
    PROVE  LET t == journal.targets[g]
           IN /\ Owned(g) \in Target /\ WellFormed(Owned(g))
              /\ Owned(g).baseline = t.baseline /\ Owned(g).before = t.before
              /\ Owned(g).after = t.after /\ Owned(g).pending = t.pending
              /\ Owned(g).status = t.status
<1> DEFINE found == IF op.kind = "apply" THEN {a \in op.accounts : g \in op.groups[a]} ELSE {}
           t == journal.targets[g]
<1>1. t \in Target /\ WellFormed(t)
    BY DEF IInv, Shapes, WellFormed
<1>2. found \subseteq Account
    BY DEF Operation, ApplyOp, RevertOp
<1>3. Owned(g) = [t EXCEPT !.accounts = t.accounts \cup found]
    BY <1>1 DEF Owned, Target
<1> HIDE DEF found
<1>4. /\ Owned(g) \in Target /\ Owned(g).baseline = t.baseline /\ Owned(g).before = t.before
      /\ Owned(g).after = t.after /\ Owned(g).pending = t.pending
      /\ Owned(g).status = t.status
    BY <1>1, <1>2, <1>3 DEF Target
<1> QED
    BY <1>1, <1>4 DEF WellFormed

LEMMA FailedRow ==
    ASSUME NEW t \in Target,
           (t.baseline = NoValue) <=> (t.after = NoValue),
           (t.baseline = NoValue) <=> (t.before = NoValue)
    PROVE  LET f == [t EXCEPT !.status = "failed"]
           IN /\ WellFormed(f) /\ f.status = "failed" /\ f.baseline = t.baseline
              /\ f.before = t.before /\ f.after = t.after /\ f.pending = t.pending
<1> DEFINE f == [t EXCEPT !.status = "failed"]
<1>1. /\ f \in Target /\ f.status = "failed" /\ f.baseline = t.baseline
      /\ f.before = t.before /\ f.after = t.after /\ f.pending = t.pending
    BY DEF Target
<1> HIDE DEF f
<1>2. WellFormed(f)
    BY <1>1 DEF WellFormed
<1> QED
    BY <1>1, <1>2 DEF f

\* Whatever fails for a group leaves its row as it was, but for the status.
LEMMA FailedStep ==
    ASSUME IInv, op \in Operation, NEW g \in Group, NEW t \in Target, FailGroup(g, t),
           t.baseline = journal.targets[g].baseline, t.after = journal.targets[g].after,
           t.before = journal.targets[g].before, t.pending = journal.targets[g].pending,
           UNCHANGED <<upstream, overtaken, accounts>>, StepFrame,
           late' \in [Url -> [Group -> Write]], \A h \in Group : LateKept(h)
    PROVE  IInv'
<1> DEFINE f == [t EXCEPT !.status = "failed"]
<1>1. WellFormed(journal.targets[g])
    BY DEF IInv, Shapes
<1>2. /\ WellFormed(f) /\ f.status = "failed" /\ f.baseline = t.baseline
      /\ f.before = t.before /\ f.after = t.after /\ f.pending = t.pending
    BY <1>1, FailedRow DEF WellFormed
<1>3. SetTarget(g, f) /\ op' = [op EXCEPT !.step = "group", !.todo = @ \ {g}]
    BY DEF FailGroup
<1> HIDE DEF f
<1>4. op' \in Operation /\ op'.step = "group" /\ op'.url = op.url
    BY <1>3, GroupClosed
<1>5. journal'.url = journal.url /\ journal'.targets[g] = f
    BY <1>2, <1>3, RowSet DEF IInv
<1>6. ~overtaken => Sound(g)'
    BY <1>2, <1>5, SameRow
<1>7. f.baseline # NoValue => f.baseline.base <= changes /\ f.after.base <= changes
    BY <1>2 DEF IInv, BasesBelow
<1> QED
    BY <1>2, <1>3, <1>4, <1>6, <1>7, RowStep

LEMMA GroupUnreadableKeeps ==
    ASSUME IInv, NEW g \in Group, GroupUnreadable(g)
    PROVE  IInv'
<1>1. op \in Operation /\ FailGroup(g, Owned(g)) /\ StepFrame
      /\ UNCHANGED <<upstream, late, overtaken, accounts>>
    BY DEF GroupUnreadable, Chosen, IInv, Shapes, service
<1>2. late' \in [Url -> [Group -> Write]] /\ \A h \in Group : LateKept(h)
    BY <1>1 DEF IInv, Shapes, LateKept, Unread
<1> QED
    BY <1>1, <1>2, OwnedRow, FailedStep

-----------------------------------------------------------------------------
(* Planning *)

\* A row taken over afresh, or as it was.
LEMMA ReopenedRow ==
    ASSUME IInv, op \in Operation, NEW g \in Group
    PROVE  LET t == Reopened(Owned(g))
               r == journal.targets[g]
           IN /\ t \in Target
              /\ (t.baseline = NoValue) <=> (t.after = NoValue)
              /\ (t.baseline = NoValue) <=> (t.before = NoValue)
              /\ \/ r.status = "reverted" /\ t.baseline = NoValue
                 \/ /\ r.status # "reverted" /\ t.baseline = r.baseline /\ t.before = r.before
                    /\ t.after = r.after /\ t.pending = r.pending
<1> DEFINE o == Owned(g)
           r == journal.targets[g]
<1>1. /\ o \in Target /\ WellFormed(o) /\ o.baseline = r.baseline /\ o.before = r.before
      /\ o.after = r.after /\ o.pending = r.pending /\ o.status = r.status
    BY OwnedRow
<1> HIDE DEF o
<1>2. CASE r.status = "reverted"
  <2>1. Reopened(o) = [Absent EXCEPT !.status = o.status, !.accounts = o.accounts]
      BY <1>1, <1>2 DEF Reopened, Forgotten
  <2>2. /\ Reopened(o) \in Target /\ Reopened(o).baseline = NoValue
        /\ Reopened(o).after = NoValue /\ Reopened(o).before = NoValue
      BY <1>1, <2>1 DEF Absent, Target
  <2> QED
      BY <1>2, <2>2 DEF o
<1>3. CASE r.status # "reverted"
  <2>1. Reopened(o) = o
      BY <1>1, <1>3 DEF Reopened
  <2> QED
      BY <1>1, <1>3, <2>1 DEF o, WellFormed
<1> QED
    BY <1>2, <1>3

\* The baseline of a plan has no rules of ours in it.
LEMMA BaselineIsClean ==
    ASSUME IInv, ~overtaken, op \in Operation, NEW g \in Group
    PROVE  Baseline(Reopened(Owned(g)), upstream[op.url][g]).by = <<>>
<1> DEFINE t == Reopened(Owned(g))
           r == journal.targets[g]
<1>1. op.url \in Url
    BY DEF Operation, ApplyOp, RevertOp
<1>2. CASE t.baseline = NoValue
  <2>1. ~NeedsRevert(r)
      BY <1>2, ReopenedRow DEF NeedsRevert
  <2>2. upstream[op.url][g].by = <<>>
      BY <1>1, <2>1, NothingOfOurs
  <2> QED
      BY <1>2, <2>2 DEF Baseline
<1>3. CASE t.baseline # NoValue
  <2>1. t.baseline = r.baseline
      BY <1>3, ReopenedRow
  <2>2. r.baseline.by = <<>>
      BY <1>3, <2>1 DEF IInv, Sound
  <2> QED
      BY <1>3, <2>1, <2>2 DEF Baseline
<1> QED
    BY <1>2, <1>3

\* A row that has been planned knows the prices that were just read.
LEMMA PlannedRow ==
    ASSUME IInv, ~overtaken, NEW v \in Url, v = journal.url, NEW g \in Group, NEW t,
           UNCHANGED upstream, LateKept(g), ~Unread(v, g)',
           journal'.url = journal.url, journal'.targets[g] = t,
           t.baseline \in Value, t.baseline.by = <<>>, Len(t.after.by) <= 1,
           t.before = upstream[v][g], t.status = "pending",
           t.pending \/ t.after = upstream[v][g]
    PROVE  Sound(g)'
<1>1. Sound(g)
    BY DEF IInv
<1>2. upstream[v][g].by # <<>> => NeedsRevert(t)
    BY Assumed DEF NeedsRevert
<1>3. \A u \in Url : Ours(u, g, upstream[u][g])'
    BY <1>1, <1>2 DEF Sound, Ours
<1>4. \A u \in Url : Unread(u, g)' => u # v /\ Unread(u, g) /\ late'[u][g].value.by = <<>>
    BY <1>1 DEF Sound, Ours, LateKept
<1>5. MatchesJournal(upstream[v][g], t)
    BY DEF MatchesJournal
<1> DEFINE T == journal.targets[g]
<1>6. (T.baseline # NoValue => T.baseline.by = <<>> /\ Len(T.after.by) <= 1)'
    OBVIOUS
<1>7. (\A u \in Url : Unread(u, g) =>
            /\ Ours(u, g, late[u][g].value)
            /\ u = journal.url /\ T.baseline # NoValue => late[u][g].value \in {T.after, T.baseline})'
    BY <1>4 DEF Ours
<1>8. MatchesJournal(upstream[journal.url][g], T)'
    BY <1>5 DEF MatchesJournal
<1> QED
    BY <1>3, <1>6, <1>7, <1>8 DEF Sound

LEMMA PlanGroupKeeps ==
    ASSUME IInv, NEW g \in Group, PlanGroup(g)
    PROVE  IInv'
<1> DEFINE v == op.url
           current == upstream[v][g]
           t == Reopened(Owned(g))
           r == journal.targets[g]
           baseline == Baseline(t, current)
           desired == Plan(baseline, journal.policy)
<1>1. /\ op \in Operation /\ ReadsGroup(g) /\ StepFrame /\ op # NoOp
      /\ UNCHANGED <<upstream, overtaken, accounts>>
    BY DEF PlanGroup, Chosen, IInv, Shapes
<1>2. /\ late' \in [Url -> [Group -> Write]]
      /\ \A u \in Url : u = v => ~Unread(u, g)'
      /\ \A h \in Group : LateKept(h)
    BY <1>1, GroupRead DEF IInv, LateKept
<1>3. v \in Url /\ v = journal.url /\ current \in Value /\ journal \in Journal
      /\ journal.policy \in Policy
    BY <1>1 DEF Operation, ApplyOp, RevertOp, IInv, OnTrack, Shapes, Journal
<1>4. /\ t \in Target
      /\ (t.baseline = NoValue) <=> (t.after = NoValue)
      /\ (t.baseline = NoValue) <=> (t.before = NoValue)
      /\ \/ r.status = "reverted" /\ t.baseline = NoValue
         \/ /\ r.status # "reverted" /\ t.baseline = r.baseline /\ t.before = r.before
            /\ t.after = r.after /\ t.pending = r.pending
    BY <1>1, ReopenedRow
<1>5. \/ FailGroup(g, t)
      \/ /\ SetTarget(g, [t EXCEPT !.baseline = baseline, !.before = current,
                                  !.after = desired, !.status = "pending",
                                  !.pending = (current # desired)])
         /\ op' = [op EXCEPT !.group = g,
                             !.step = IF current # desired THEN "mark" ELSE "verify"]
    BY DEF PlanGroup
<1> HIDE DEF t
<1>6. CASE FailGroup(g, t)
  <2>1. CASE r.status = "reverted" /\ t.baseline = NoValue
    <3> DEFINE f == [t EXCEPT !.status = "failed"]
    <3>1. WellFormed(f) /\ f.status = "failed" /\ f.baseline = NoValue
        BY <1>4, <2>1, FailedRow
    <3>2. SetTarget(g, f) /\ op' = [op EXCEPT !.step = "group", !.todo = @ \ {g}]
        BY <1>6 DEF FailGroup
    <3> HIDE DEF f
    <3>3. op' \in Operation /\ op'.step = "group" /\ op'.url = op.url
        BY <1>1, <3>2, GroupClosed
    <3>4. journal'.url = journal.url /\ journal'.targets[g] = f
        BY <3>1, <3>2, RowSet DEF IInv
    <3>5. ~overtaken => Sound(g)'
        BY <1>1, <1>2, <2>1, <3>1, <3>4, ForgottenRow
    <3> QED
        BY <1>1, <1>2, <3>1, <3>2, <3>3, <3>5, RowStep
  <2>2. CASE r.status # "reverted" /\ t.baseline = r.baseline /\ t.before = r.before
             /\ t.after = r.after /\ t.pending = r.pending
      BY <1>1, <1>2, <1>4, <1>6, <2>2, FailedStep
  <2> QED
      BY <1>4, <2>1, <2>2
<1>7. CASE /\ SetTarget(g, [t EXCEPT !.baseline = baseline, !.before = current,
                                    !.after = desired, !.status = "pending",
                                    !.pending = (current # desired)])
           /\ op' = [op EXCEPT !.group = g,
                               !.step = IF current # desired THEN "mark" ELSE "verify"]
  <2> DEFINE p == [t EXCEPT !.baseline = baseline, !.before = current,
                            !.after = desired, !.status = "pending",
                            !.pending = (current # desired)]
             s == IF current # desired THEN "mark" ELSE "verify"
  <2>1. baseline \in Value
      BY <1>3, <1>4 DEF Baseline, Target
  <2>2. desired \in Value /\ desired.base = baseline.base
    <3> HIDE DEF baseline
    <3>1. CASE journal.policy = NoRules
        BY <2>1, <3>1 DEF Plan
    <3>2. CASE journal.policy # NoRules
      <4>1. journal.policy \in Rules /\ baseline.by \in Seq(Rules)
          BY <1>3, <2>1, <3>2 DEF Policy, Value
      <4>2. Append(baseline.by, journal.policy) \in Seq(Rules)
          BY <4>1, AppendProperties
      <4>3. desired = [baseline EXCEPT !.by = Append(baseline.by, journal.policy)]
          BY <3>2 DEF Plan
      <4> QED
          BY <2>1, <4>2, <4>3 DEF Value
    <3> QED
        BY <3>1, <3>2
  <2>3. baseline.base <= changes
      BY <1>3, <1>4 DEF IInv, BasesBelow, Baseline
  <2>4. ~overtaken => baseline.by = <<>>
      BY <1>1, BaselineIsClean DEF t
  <2>5. ~overtaken => Len(desired.by) <= 1
    <3> HIDE DEF baseline
    <3> QED
        BY <1>3, <2>1, <2>4, PlanTyped
  <2> HIDE DEF baseline, desired
  <2>6. /\ p \in Target /\ p.baseline = baseline /\ p.before = current /\ p.after = desired
        /\ p.status = "pending" /\ p.pending = (current # desired)
      BY <1>3, <1>4, <2>1, <2>2 DEF Target
  <2>7. SetTarget(g, p) /\ op' = [op EXCEPT !.group = g, !.step = s] /\ s \in {"mark", "verify"}
      BY <1>7
  <2> HIDE DEF p, s
  <2>8. op' \in Operation /\ op'.group = g /\ op'.url = op.url
      BY <1>1, <2>7, Assumed DEF Operation, ApplyOp, RevertOp, StepName
  <2>9. WellFormed(p) /\ p.baseline # NoValue
      BY <1>3, <2>1, <2>2, <2>6, Assumed DEF WellFormed
  <2>10. journal'.url = journal.url /\ journal'.targets[g] = p
      BY <2>7, <2>9, RowSet DEF IInv
  <2>11. ~overtaken => Sound(g)'
    <3>1. p.pending \/ p.after = upstream[v][g]
        BY <2>6
    <3> QED
        BY <1>1, <1>2, <1>3, <2>1, <2>4, <2>5, <2>6, <2>10, <3>1, PlannedRow
  <2> QED
      BY <1>1, <1>2, <2>2, <2>3, <2>6, <2>7, <2>8, <2>9, <2>11, RowStep
<1> QED
    BY <1>5, <1>6, <1>7

\* A row is confirmed, or closed as reverted, on prices that were just read.
LEMMA SettledRow ==
    ASSUME IInv, ~overtaken, NEW v \in Url, v = journal.url, NEW g \in Group, NEW t,
           UNCHANGED upstream, LateKept(g), ~Unread(v, g)',
           journal'.url = journal.url, journal'.targets[g] = t,
           t.baseline = journal.targets[g].baseline, t.after = journal.targets[g].after,
           t.baseline # NoValue,
           upstream[v][g] \in {t.baseline, t.after},
           t.status # "reverted" \/ upstream[v][g] = t.baseline
    PROVE  Sound(g)'
<1>1. Sound(g)
    BY DEF IInv
<1>2. upstream[v][g].by # <<>> => NeedsRevert(t)
    BY <1>1 DEF NeedsRevert, Sound
<1>3. \A u \in Url : Ours(u, g, upstream[u][g])'
    BY <1>1, <1>2 DEF Sound, Ours
<1>4. \A u \in Url : Unread(u, g)' => u # v /\ Unread(u, g) /\ late'[u][g].value.by = <<>>
    BY <1>1 DEF Sound, Ours, LateKept
<1>5. MatchesJournal(upstream[v][g], t)
    BY DEF MatchesJournal
<1> DEFINE T == journal.targets[g]
<1>6. (T.baseline # NoValue => T.baseline.by = <<>> /\ Len(T.after.by) <= 1)'
    BY <1>1 DEF Sound
<1>7. (\A u \in Url : Unread(u, g) =>
            /\ Ours(u, g, late[u][g].value)
            /\ u = journal.url /\ T.baseline # NoValue => late[u][g].value \in {T.after, T.baseline})'
    BY <1>4 DEF Ours
<1>8. MatchesJournal(upstream[journal.url][g], T)'
    BY <1>5 DEF MatchesJournal
<1> QED
    BY <1>3, <1>6, <1>7, <1>8 DEF Sound

LEMMA SettledTyped ==
    ASSUME NEW t, WellFormed(t), t.after # NoValue, NEW s \in {"applied", "reverted"}
    PROVE  /\ WellFormed(Settled(t, s))
           /\ Settled(t, s).baseline = t.baseline /\ Settled(t, s).after = t.after
           /\ Settled(t, s).status = s
<1> DEFINE f == [t EXCEPT !.status = s, !.pending = FALSE]
<1>1. /\ f \in Target /\ f.baseline = t.baseline /\ f.before = t.before /\ f.after = t.after
      /\ f.status = s /\ ~f.pending
    BY DEF WellFormed, Target
<1> HIDE DEF f
<1>2. WellFormed(f)
    BY <1>1 DEF WellFormed
<1> QED
    BY <1>1, <1>2 DEF f, Settled

LEMMA PlanRevertKeeps ==
    ASSUME IInv, NEW g \in Group, PlanRevert(g)
    PROVE  IInv'
<1> DEFINE v == op.url
           current == upstream[v][g]
           t == journal.targets[g]
<1>1. /\ op \in Operation /\ ReadsGroup(g) /\ StepFrame /\ op # NoOp /\ op.step = "group"
      /\ UNCHANGED <<upstream, overtaken, accounts>>
    BY DEF PlanRevert, Chosen, IInv, Shapes
<1>2. /\ late' \in [Url -> [Group -> Write]]
      /\ \A u \in Url : u = v => ~Unread(u, g)'
      /\ \A h \in Group : LateKept(h)
    BY <1>1, GroupRead DEF IInv, LateKept
<1>3. v \in Url /\ v = journal.url /\ current \in Value /\ WellFormed(t) /\ t \in Target
    BY <1>1 DEF Operation, ApplyOp, RevertOp, IInv, OnTrack, Shapes, WellFormed
<1>4. t.baseline # NoValue => t.baseline.base <= changes /\ t.after.base <= changes
    BY DEF IInv, BasesBelow
<1>5. CASE current = t.baseline
  <2>1. t.baseline # NoValue /\ t.after # NoValue
      BY <1>3, <1>5, Assumed DEF WellFormed
  <2> DEFINE f == Settled(t, "reverted")
  <2>2. /\ WellFormed(f) /\ f.baseline = t.baseline /\ f.after = t.after /\ f.status = "reverted"
      BY <1>3, <2>1, SettledTyped
  <2>3. SetTarget(g, f) /\ op' = [op EXCEPT !.todo = op.todo \ {g}]
      BY <1>5 DEF PlanRevert
  <2> HIDE DEF f
  <2>4. op' \in Operation /\ op'.step = "group" /\ op'.url = op.url
      BY <1>1, <2>3 DEF Operation, ApplyOp, RevertOp
  <2>5. journal'.url = journal.url /\ journal'.targets[g] = f
      BY <2>2, <2>3, RowSet DEF IInv
  <2>6. ~overtaken => Sound(g)'
      BY <1>1, <1>2, <1>3, <1>5, <2>1, <2>2, <2>5, SettledRow
  <2> QED
      BY <1>1, <1>2, <1>4, <2>2, <2>3, <2>4, <2>6, RowStep
<1>6. CASE current # t.baseline /\ ~MatchesJournal(current, t)
  <2>1. FailGroup(g, t)
      BY <1>6 DEF PlanRevert
  <2> QED
      BY <1>1, <1>2, <1>3, <2>1, FailedStep
<1>7. CASE current # t.baseline /\ MatchesJournal(current, t)
  <2> DEFINE p == [t EXCEPT !.before = current, !.pending = TRUE, !.status = "pending"]
  <2>1. t.baseline # NoValue /\ t.after # NoValue /\ t.baseline \in Value
      BY <1>3, <1>7, Assumed DEF WellFormed, MatchesJournal, Target
  <2>2. /\ p \in Target /\ p.baseline = t.baseline /\ p.before = current /\ p.after = t.after
        /\ p.status = "pending" /\ p.pending
      BY <1>3 DEF Target
  <2>3. SetTarget(g, p) /\ op' = [op EXCEPT !.group = g, !.step = "put"]
      BY <1>7 DEF PlanRevert
  <2> HIDE DEF p
  <2>4. op' \in Operation /\ op'.group = g /\ op'.url = op.url
      BY <1>1, <2>3, Assumed DEF Operation, ApplyOp, RevertOp, StepName
  <2>5. WellFormed(p)
      BY <1>3, <2>1, <2>2, Assumed DEF WellFormed
  <2>6. journal'.url = journal.url /\ journal'.targets[g] = p
      BY <2>3, <2>5, RowSet DEF IInv
  <2>7. ~overtaken => p.baseline.by = <<>> /\ Len(p.after.by) <= 1
      BY <2>1, <2>2 DEF IInv, Sound
  <2>8. ~overtaken => Sound(g)'
      BY <1>1, <1>2, <1>3, <2>1, <2>2, <2>6, <2>7, PlannedRow
  <2> QED
      BY <1>1, <1>2, <1>4, <2>1, <2>2, <2>3, <2>4, <2>5, <2>8, RowStep
<1> QED
    BY <1>5, <1>6, <1>7

LEMMA VerifyKeeps ==
    ASSUME IInv, NEW g, g = op.group, Verify
    PROVE  IInv'
<1> DEFINE v == op.url
           t == journal.targets[g]
<1>1. /\ op \in Operation /\ StepFrame /\ op # NoOp /\ op.step = "verify"
      /\ UNCHANGED <<upstream, overtaken, accounts>>
      /\ op' = [op EXCEPT !.step = "group", !.todo = op.todo \ {g}]
    BY DEF Verify, GroupDone, IInv, Shapes
<1>2. g \in Group /\ t.baseline # NoValue /\ v \in Url /\ v = journal.url
    BY <1>1 DEF IInv, OnTrack, Shapes
<1>3. WellFormed(t) /\ t \in Target /\ t.after # NoValue
    BY <1>2 DEF IInv, Shapes, WellFormed
<1>4. t.baseline.base <= changes /\ t.after.base <= changes
    BY <1>2 DEF IInv, BasesBelow
<1>5. op' \in Operation /\ op'.step = "group" /\ op'.url = op.url
    BY <1>1, GroupClosed
<1>6. \/ SetTarget(g, [t EXCEPT !.status = "failed"]) /\ UNCHANGED late
      \/ SetTarget(g, [t EXCEPT !.status = "failed"]) /\ ReadsGroup(g)
      \/ /\ ReadsGroup(g) /\ upstream[v][g] = Wanted
         /\ SetTarget(g, Settled(t, IF op.kind = "apply" THEN "applied" ELSE "reverted"))
    BY DEF Verify
<1>7. CASE SetTarget(g, [t EXCEPT !.status = "failed"]) /\ (UNCHANGED late \/ ReadsGroup(g))
  <2>1. late' \in [Url -> [Group -> Write]] /\ \A h \in Group : LateKept(h)
    <3>1. CASE UNCHANGED late
        BY <3>1 DEF IInv, Shapes, LateKept, Unread
    <3>2. CASE ReadsGroup(g)
        BY <1>1, <1>2, <3>2, GroupRead DEF IInv, LateKept
    <3> QED
        BY <1>7, <3>1, <3>2
  <2>2. FailGroup(g, t)
      BY <1>1, <1>7 DEF FailGroup
  <2> QED
      BY <1>1, <1>2, <1>3, <2>1, <2>2, FailedStep
<1>8. CASE /\ ReadsGroup(g) /\ upstream[v][g] = Wanted
           /\ SetTarget(g, Settled(t, IF op.kind = "apply" THEN "applied" ELSE "reverted"))
  <2> DEFINE s == IF op.kind = "apply" THEN "applied" ELSE "reverted"
             f == Settled(t, s)
  <2>1. /\ late' \in [Url -> [Group -> Write]]
        /\ \A u \in Url : u = v => ~Unread(u, g)'
        /\ \A h \in Group : LateKept(h)
      BY <1>1, <1>2, <1>8, GroupRead DEF IInv, LateKept
  <2>2. /\ upstream[v][g] \in {t.after, t.baseline}
        /\ s = "reverted" => upstream[v][g] = t.baseline
      BY <1>2, <1>8 DEF Wanted
  <2>3. s \in {"applied", "reverted"} /\ SetTarget(g, f)
      BY <1>8
  <2> HIDE DEF s
  <2>4. WellFormed(f) /\ f.baseline = t.baseline /\ f.after = t.after /\ f.status = s
      BY <1>3, <2>3, SettledTyped
  <2> HIDE DEF f
  <2>5. journal'.url = journal.url /\ journal'.targets[g] = f
      BY <1>2, <2>3, <2>4, RowSet DEF IInv
  <2>6. ~overtaken => Sound(g)'
      BY <1>1, <1>2, <2>1, <2>2, <2>4, <2>5, SettledRow
  <2> QED
      BY <1>1, <1>2, <1>4, <1>5, <2>1, <2>3, <2>4, <2>6, RowStep
<1> QED
    BY <1>6, <1>7, <1>8

-----------------------------------------------------------------------------
(* Writing *)

\* What an operation writes is free of rules or taken back by a revert.
LEMMA WantedIsOurs ==
    ASSUME IInv, ~overtaken, NEW g \in Group, NEW w, NEW r,
           r.baseline = journal.targets[g].baseline, r.after = journal.targets[g].after,
           r.baseline # NoValue, r.status # "reverted", w \in {r.after, r.baseline}
    PROVE  w.by # <<>> => Len(w.by) = 1 /\ NeedsRevert(r)
<1>1. SUFFICES ASSUME w.by # <<>> PROVE Len(w.by) = 1 /\ NeedsRevert(r)
    OBVIOUS
<1>2. r.baseline.by = <<>> /\ Len(r.after.by) <= 1
    BY DEF IInv, Sound
<1>3. w = r.after /\ r.after # r.baseline
    BY <1>1, <1>2
<1>4. r.after \in Value
    BY DEF IInv, Shapes, WellFormed, Target
<1>5. Len(w.by) \in Nat /\ Len(w.by) # 0
    BY <1>1, <1>3, <1>4, EmptySeq, LenProperties DEF Value
<1> DEFINE n == Len(w.by)
<1>6. n \in Nat /\ n # 0 /\ n <= 1
    BY <1>2, <1>3, <1>5
<1> HIDE DEF n
<1>7. n = 1
    BY <1>6
<1> QED
    BY <1>3, <1>7 DEF NeedsRevert, n

\* A write landed.
LEMMA LandedSound ==
    ASSUME IInv, ~overtaken, NEW g \in Group, NEW v \in Url, v = journal.url, NEW w,
           \A u \in Url : upstream'[u][g] = IF u = v THEN w ELSE upstream[u][g],
           LateKept(g), journal'.url = journal.url,
           NEW r, journal'.targets[g] = r,
           r.baseline = journal.targets[g].baseline, r.after = journal.targets[g].after,
           r.before = journal.targets[g].before, r.pending = journal.targets[g].pending,
           r.baseline # NoValue, r.status # "reverted", w \in {r.after, r.baseline}
    PROVE  Sound(g)'
<1>1. Sound(g)
    BY DEF IInv
<1>2. w.by # <<>> => Len(w.by) = 1 /\ NeedsRevert(r)
    BY WantedIsOurs
<1>3. NeedsRevert(journal.targets[g]) => NeedsRevert(r)
    BY DEF NeedsRevert
<1>4. \A u \in Url : Ours(u, g, upstream[u][g])'
    BY <1>1, <1>2, <1>3 DEF Sound, Ours
<1>5. MatchesJournal(w, r)
    BY DEF MatchesJournal
<1> DEFINE T == journal.targets[g]
<1>6. (T.baseline # NoValue => T.baseline.by = <<>> /\ Len(T.after.by) <= 1)'
    BY <1>1 DEF Sound
<1>7. (\A u \in Url : Unread(u, g) =>
            /\ Ours(u, g, late[u][g].value)
            /\ u = journal.url /\ T.baseline # NoValue => late[u][g].value \in {T.after, T.baseline})'
    BY <1>1, <1>3 DEF Sound, Ours, LateKept
<1>8. MatchesJournal(upstream[journal.url][g], T)'
    BY <1>5 DEF MatchesJournal
<1> QED
    BY <1>4, <1>6, <1>7, <1>8 DEF Sound

\* A write is on its way.
LEMMA DelayedSound ==
    ASSUME IInv, ~overtaken, NEW g \in Group, NEW v \in Url, v = journal.url, NEW w,
           \A u \in Url : upstream'[u][g] = upstream[u][g],
           late'[v][g] = [value |-> w, read |-> FALSE],
           \A u \in Url : u # v => late'[u][g] = late[u][g],
           journal'.url = journal.url,
           NEW r, journal'.targets[g] = r,
           r.baseline = journal.targets[g].baseline, r.after = journal.targets[g].after,
           r.before = journal.targets[g].before, r.pending = journal.targets[g].pending,
           r.baseline # NoValue, r.status # "reverted", w \in {r.after, r.baseline}
    PROVE  Sound(g)'
<1>1. Sound(g)
    BY DEF IInv
<1>2. w.by # <<>> => Len(w.by) = 1 /\ NeedsRevert(r)
    BY WantedIsOurs
<1>3. NeedsRevert(journal.targets[g]) => NeedsRevert(r)
    BY DEF NeedsRevert
<1>4. \A u \in Url : Ours(u, g, upstream[u][g])'
    BY <1>1, <1>3 DEF Sound, Ours
<1>5. \A m : MatchesJournal(m, r) <=> MatchesJournal(m, journal.targets[g])
    BY DEF MatchesJournal
<1> DEFINE T == journal.targets[g]
<1>6. (T.baseline # NoValue => T.baseline.by = <<>> /\ Len(T.after.by) <= 1)'
    BY <1>1 DEF Sound
<1>7. ASSUME NEW u \in Url, Unread(u, g)'
      PROVE  (/\ Ours(u, g, late[u][g].value)
              /\ u = journal.url /\ T.baseline # NoValue =>
                    late[u][g].value \in {T.after, T.baseline})'
  <2>1. CASE u = v
      BY <1>2, <2>1 DEF Ours
  <2>2. CASE u # v
      BY <1>1, <1>3, <1>7, <2>2 DEF Sound, Ours, Unread
  <2> QED
      BY <2>1, <2>2
<1>8. (journal.url # NoUrl /\ T.baseline # NoValue
          /\ upstream[journal.url][g].base = T.baseline.base
        => MatchesJournal(upstream[journal.url][g], T))'
    BY <1>1, <1>5 DEF Sound
<1> QED
    BY <1>4, <1>6, <1>7, <1>8 DEF Sound

\* The steps that send: the row keeps its prices, and is not a reverted one.
LEMMA SentStep ==
    ASSUME IInv, op \in Operation, op.step = "put", NEW g, g = op.group,
           NEW r, WellFormed(r), r.status # "reverted",
           r.baseline = journal.targets[g].baseline, r.after = journal.targets[g].after,
           r.before = journal.targets[g].before, r.pending = journal.targets[g].pending,
           journal' \in Journal, journal'.url = journal.url, journal'.targets[g] = r,
           \A h \in Group : h # g => journal'.targets[h] = journal.targets[h],
           \A h \in Group : WellFormed(journal'.targets[h]),
           UNCHANGED <<overtaken, accounts>>, StepFrame,
           op' \in Operation \cup {NoOp}, OnTrack',
           \/ Land(op.url, g, Wanted) /\ UNCHANGED late
           \/ Delay(op.url, g, Wanted) /\ UNCHANGED upstream
           \/ UNCHANGED <<upstream, late>>
    PROVE  IInv'
<1> DEFINE v == op.url
           t == journal.targets[g]
           w == Wanted
<1>1. op # NoOp
    BY DEF NoOp, Operation, ApplyOp, RevertOp
<1>2. g \in Group /\ t.baseline # NoValue /\ v \in Url /\ v = journal.url
    BY <1>1 DEF IInv, OnTrack, Shapes
<1>3. w \in {r.after, r.baseline} /\ r.baseline # NoValue
    BY <1>2 DEF Wanted
<1>4. w \in Value /\ w.base <= changes
    BY <1>2, <1>3, Assumed DEF WellFormed, Target, IInv, BasesBelow
<1>5. r.baseline.base <= changes /\ r.after.base <= changes
    BY <1>2 DEF IInv, BasesBelow
<1>6. changes' = changes /\ changes \in Nat /\ BasesBelow(g)
    BY <1>2 DEF StepFrame, IInv, Shapes
<1>7. /\ UNCHANGED <<member, connection, accounts>> /\ overtaken' = overtaken
      /\ overtaken' \in BOOLEAN /\ changes' \in Nat /\ changes <= changes'
    BY <1>6 DEF StepFrame, IInv, Shapes
<1>8. CASE Land(op.url, g, Wanted) /\ UNCHANGED late
  <2>1. upstream' = [upstream EXCEPT ![v][g] = w]
      BY <1>8 DEF Land
  <2> HIDE DEF w
  <2>2. /\ upstream' \in [Url -> [Group -> Value]]
        /\ \A u \in Url, h \in Group :
             upstream'[u][h] = IF u = v /\ h = g THEN w ELSE upstream[u][h]
      BY <1>2, <1>4, <2>1 DEF IInv, Shapes
  <2>3. late' \in [Url -> [Group -> Write]] /\ \A h \in Group : LateKept(h)
      BY <1>8 DEF IInv, Shapes, LateKept, Unread
  <2>4. BasesBelow(g)'
      BY <1>2, <1>4, <1>5, <1>6, <1>8, <2>2 DEF BasesBelow
  <2>5. \A u \in Url : upstream'[u][g] = IF u = v THEN w ELSE upstream[u][g]
      BY <1>2, <2>2
  <2>6. \A h \in Group : h # g => \A u \in Url : upstream'[u][h] = upstream[u][h]
      BY <2>2
  <2>7. ASSUME ~overtaken PROVE Sound(g)'
    <3> HIDE DEF v
    <3> QED
        BY <1>2, <1>3, <2>3, <2>5, <2>7, LandedSound, ZenonT(40)
  <2> QED
      BY <1>2, <1>7, <2>2, <2>3, <2>4, <2>6, <2>7, PriceStep
<1>9. CASE Delay(op.url, g, Wanted) /\ UNCHANGED upstream
  <2> DEFINE d == [value |-> w, read |-> FALSE]
  <2>1. late' = [late EXCEPT ![v][g] = d]
      BY <1>9 DEF Delay
  <2>2. d \in Write /\ d.value = w
      BY <1>4 DEF Write
  <2> HIDE DEF d, w
  <2>3. /\ late' \in [Url -> [Group -> Write]]
        /\ \A u \in Url, h \in Group :
             late'[u][h] = IF u = v /\ h = g THEN d ELSE late[u][h]
      BY <1>2, <2>1, <2>2 DEF IInv, Shapes
  <2>4. \A h \in Group : h # g => LateKept(h)
      BY <2>3 DEF LateKept, Unread
  <2>5. BasesBelow(g)'
      BY <1>2, <1>4, <1>5, <1>6, <1>9, <2>2, <2>3 DEF BasesBelow
  <2>6. late'[v][g] = [value |-> w, read |-> FALSE]
      BY <1>2, <2>3 DEF d
  <2>7. ASSUME ~overtaken PROVE Sound(g)'
      BY <1>2, <1>3, <1>9, <2>3, <2>6, <2>7, DelayedSound
  <2>8. /\ upstream' \in [Url -> [Group -> Value]]
        /\ \A h \in Group : h # g => \A u \in Url : upstream'[u][h] = upstream[u][h]
      BY <1>9 DEF IInv, Shapes
  <2> QED
      BY <1>2, <1>7, <2>3, <2>4, <2>5, <2>7, <2>8, PriceStep
<1>10. CASE UNCHANGED <<upstream, late>>
  <2>1. upstream' \in [Url -> [Group -> Value]] /\ late' \in [Url -> [Group -> Write]]
      BY <1>10 DEF IInv, Shapes
  <2>2. \A h \in Group : LateKept(h)
      BY <1>10 DEF LateKept, Unread
  <2>3. BasesBelow(g)'
      BY <1>2, <1>5, <1>6, <1>10 DEF BasesBelow
  <2>4. ASSUME ~overtaken PROVE Sound(g)'
      BY <1>2, <1>10, <2>2, <2>4, SameRow
  <2>5. \A h \in Group : h # g => \A u \in Url : upstream'[u][h] = upstream[u][h]
      BY <1>10
  <2> QED
      BY <1>2, <1>7, <2>1, <2>2, <2>3, <2>4, <2>5, PriceStep
<1> QED
    BY <1>8, <1>9, <1>10

LEMMA PutKeeps ==
    ASSUME IInv, NEW g, g = op.group, Put
    PROVE  IInv'
<1> DEFINE t == journal.targets[g]
<1>1. /\ op \in Operation /\ StepFrame /\ op # NoOp /\ op.step = "put"
      /\ UNCHANGED <<overtaken, accounts>>
    BY DEF Put, IInv, Shapes
<1>2. /\ g \in Group /\ t.baseline # NoValue /\ t.status = "pending" /\ op.url \in Url
      /\ op.url = connection /\ op.url = journal.url /\ op.url # NoUrl
    BY <1>1, Assumed DEF IInv, OnTrack, Shapes
<1>3. WellFormed(t) /\ t \in Target /\ journal \in Journal
    BY <1>2 DEF IInv, Shapes, WellFormed
<1>4. \/ /\ Land(op.url, g, Wanted) /\ UNCHANGED late
         /\ op' = [op EXCEPT !.step = "verify"] /\ UNCHANGED journal
      \/ /\ FailGroup(g, t)
         /\ \/ Land(op.url, g, Wanted) /\ UNCHANGED late
            \/ Delay(op.url, g, Wanted) /\ UNCHANGED upstream
            \/ UNCHANGED <<upstream, late>>
    BY DEF Put, Goto
<1>5. CASE /\ Land(op.url, g, Wanted) /\ UNCHANGED late
           /\ op' = [op EXCEPT !.step = "verify"] /\ UNCHANGED journal
  <2>1. /\ op' \in Operation /\ op'.step = "verify" /\ op'.url = op.url
        /\ op'.group = op.group
      BY <1>1, <1>5, StepTyped DEF StepName
  <2>2. OnTrack'
      BY <1>1, <1>2, <1>5, <2>1 DEF OnTrack, StepFrame
  <2>3. \A h \in Group : WellFormed(journal.targets[h])
      BY DEF IInv, Shapes
  <2> QED
      BY <1>1, <1>2, <1>3, <1>5, <2>1, <2>2, <2>3, SentStep
<1>6. CASE /\ FailGroup(g, t)
           /\ \/ Land(op.url, g, Wanted) /\ UNCHANGED late
              \/ Delay(op.url, g, Wanted) /\ UNCHANGED upstream
              \/ UNCHANGED <<upstream, late>>
  <2> DEFINE f == [t EXCEPT !.status = "failed"]
  <2>1. /\ WellFormed(f) /\ f.status = "failed" /\ f.baseline = t.baseline
        /\ f.before = t.before /\ f.after = t.after /\ f.pending = t.pending
      BY <1>3, FailedRow DEF WellFormed
  <2>2. SetTarget(g, f) /\ op' = [op EXCEPT !.step = "group", !.todo = op.todo \ {g}]
      BY <1>6 DEF FailGroup
  <2> HIDE DEF f
  <2>3. op' \in Operation /\ op'.step = "group" /\ op'.url = op.url
      BY <1>1, <2>2, GroupClosed
  <2>4. /\ journal' \in Journal /\ journal'.url = journal.url /\ journal'.targets[g] = f
        /\ \A h \in Group : h # g => journal'.targets[h] = journal.targets[h]
        /\ \A h \in Group : WellFormed(journal'.targets[h])
      BY <1>2, <2>1, <2>2, RowSet DEF IInv
  <2>5. OnTrack'
      BY <1>1, <1>2, <2>3, <2>4 DEF OnTrack, StepFrame
  <2> QED
      BY <1>1, <1>6, <2>1, <2>3, <2>4, <2>5, SentStep
<1> QED
    BY <1>4, <1>5, <1>6

LEMMA StopKeeps ==
    ASSUME IInv, NEW g, g = op.group, Stop
    PROVE  IInv'
<1> DEFINE t == journal.targets[g]
<1>1. /\ op \in Operation /\ StepFrame /\ op # NoOp /\ op' = NoOp
      /\ UNCHANGED <<overtaken, accounts, journal>>
    BY DEF Stop, IInv, Shapes
<1>2. journal \in Journal /\ (\A h \in Group : WellFormed(journal.targets[h])) /\ OnTrack'
    BY <1>1 DEF IInv, Shapes, OnTrack
<1>3. CASE UNCHANGED <<upstream, late>>
  <2>1. /\ changes' \in Nat /\ changes <= changes' /\ connection' \in Url
        /\ member' \in [Account -> SUBSET Group] /\ accounts' \in [Account -> AccountRow]
      BY <1>1 DEF StepFrame, IInv, Shapes
  <2> QED
      BY <1>1, <1>2, <1>3, <2>1, Untouched
<1>4. CASE op.step = "put"
  <2>1. g \in Group /\ t.status = "pending"
      BY <1>1, <1>4 DEF IInv, OnTrack
  <2>2. \/ Land(op.url, g, Wanted) /\ UNCHANGED late
        \/ Delay(op.url, g, Wanted) /\ UNCHANGED upstream
        \/ UNCHANGED <<upstream, late>>
      BY DEF Stop
  <2> QED
      BY <1>1, <1>2, <1>4, <2>1, <2>2, SentStep
<1> QED
    BY <1>3, <1>4 DEF Stop

LEMMA LateWriteKeeps ==
    ASSUME IInv, NEW v \in Url, NEW g \in Group, LateWrite(v, g)
    PROVE  IInv'
<1> DEFINE w == late[v][g].value
           t == journal.targets[g]
<1>1. /\ w # NoValue /\ overtaken' = (overtaken \/ late[v][g].read)
      /\ upstream' = [upstream EXCEPT ![v][g] = w]
      /\ late' = [late EXCEPT ![v][g] = NoWrite]
      /\ UNCHANGED <<member, connection, accounts, journal, op, changes>>
    BY DEF LateWrite, Land, bounds
<1>2. late[v][g] \in Write /\ w \in Value /\ NoWrite \in Write /\ NoWrite.value = NoValue
    BY <1>1 DEF IInv, Shapes, Write, NoWrite
<1>3. w.base <= changes /\ BasesBelow(g)
    BY <1>1 DEF IInv, BasesBelow
<1>4. Unread(v, g) <=> ~late[v][g].read
    BY <1>1 DEF Unread
<1> HIDE DEF w
<1>5. /\ upstream' \in [Url -> [Group -> Value]]
      /\ \A u \in Url, h \in Group :
           upstream'[u][h] = IF u = v /\ h = g THEN w ELSE upstream[u][h]
    BY <1>1, <1>2 DEF IInv, Shapes
<1> HIDE DEF NoWrite
<1>6. /\ late' \in [Url -> [Group -> Write]]
      /\ \A u \in Url, h \in Group :
           late'[u][h] = IF u = v /\ h = g THEN NoWrite ELSE late[u][h]
    BY <1>1, <1>2 DEF IInv, Shapes
<1>7. \A h \in Group : h # g => /\ \A u \in Url : upstream'[u][h] = upstream[u][h]
                                /\ LateKept(h)
    BY <1>5, <1>6 DEF LateKept, Unread
<1>8. BasesBelow(g)'
    BY <1>1, <1>2, <1>3, <1>5, <1>6 DEF BasesBelow
<1>9. ASSUME ~overtaken' PROVE Sound(g)'
  <2>1. ~overtaken /\ Unread(v, g) /\ Sound(g)
      BY <1>1, <1>4, <1>9 DEF IInv
  <2>2. Ours(v, g, w) /\ (v = journal.url /\ t.baseline # NoValue => w \in {t.after, t.baseline})
      BY <2>1 DEF Sound, w
  <2>3. \A u \in Url : Ours(u, g, upstream[u][g])'
      BY <1>1, <1>5, <2>1, <2>2 DEF Sound, Ours
  <2>4. \A u \in Url : Unread(u, g)' => Unread(u, g) /\ late'[u][g] = late[u][g]
      BY <1>2, <1>6 DEF Unread
  <2>5. v = journal.url /\ t.baseline # NoValue => MatchesJournal(w, t)
      BY <2>2 DEF MatchesJournal
  <2> DEFINE T == journal.targets[g]
  <2>6. (T.baseline # NoValue => T.baseline.by = <<>> /\ Len(T.after.by) <= 1)'
      BY <1>1, <2>1 DEF Sound
  <2>7. (\A u \in Url : Unread(u, g) =>
            /\ Ours(u, g, late[u][g].value)
            /\ u = journal.url /\ T.baseline # NoValue => late[u][g].value \in {T.after, T.baseline})'
      BY <1>1, <2>1, <2>4 DEF Sound, Ours
  <2>8. (journal.url # NoUrl /\ T.baseline # NoValue
            /\ upstream[journal.url][g].base = T.baseline.base
          => MatchesJournal(upstream[journal.url][g], T))'
    <3>1. journal.url \in Url \cup {NoUrl}
        BY DEF IInv, Shapes, Journal
    <3>2. CASE journal.url = v
        BY <1>1, <1>5, <2>5, <3>2 DEF MatchesJournal
    <3>3. CASE journal.url # v
        BY <1>1, <1>5, <2>1, <3>1, <3>3 DEF Sound, MatchesJournal
    <3> QED
        BY <3>2, <3>3
  <2> QED
      BY <2>3, <2>6, <2>7, <2>8 DEF Sound
<1>10. /\ journal' \in Journal /\ journal'.url = journal.url /\ OnTrack'
       /\ \A h \in Group : WellFormed(journal'.targets[h])
       /\ op' \in Operation \cup {NoOp} /\ overtaken' \in BOOLEAN
       /\ changes' \in Nat /\ changes <= changes'
    BY <1>1 DEF IInv, Shapes, OnTrack, WellFormed
<1> QED
    BY <1>1, <1>5, <1>6, <1>7, <1>8, <1>9, <1>10, PriceStep

LEMMA EditGroupKeeps ==
    ASSUME IInv, NEW v \in Url, NEW g \in Group, EditGroup(v, g)
    PROVE  IInv'
<1> DEFINE w == [base |-> changes + 1, by |-> <<>>]
           t == journal.targets[g]
<1>1. /\ upstream' = [upstream EXCEPT ![v][g] = w] /\ changes' = changes + 1
      /\ UNCHANGED <<late, member, overtaken, connection, accounts, journal, op>>
    BY DEF EditGroup, Change, ChangeFrame
<1>2. w \in Value /\ w.base = changes + 1 /\ w.by = <<>> /\ changes \in Nat
    BY EmptySeq DEF IInv, Shapes, Value
<1> HIDE DEF w
<1>3. /\ upstream' \in [Url -> [Group -> Value]]
      /\ \A u \in Url, h \in Group :
           upstream'[u][h] = IF u = v /\ h = g THEN w ELSE upstream[u][h]
    BY <1>1, <1>2 DEF IInv, Shapes
<1>4. /\ late' \in [Url -> [Group -> Write]] /\ \A h \in Group : LateKept(h)
    BY <1>1 DEF IInv, Shapes, LateKept, Unread
<1>5. \A h \in Group : h # g => \A u \in Url : upstream'[u][h] = upstream[u][h]
    BY <1>3
<1>6. BasesBelow(g)'
  <2>1. BasesBelow(g)
      BY DEF IInv
  <2>2. \A u \in Url : upstream[u][g].base \in Nat
      BY DEF IInv, Shapes, Value
  <2>3. \A u \in Url : late[u][g].value # NoValue => late[u][g].value.base \in Nat
      BY DEF IInv, Shapes, Write, Value
  <2>4. t.baseline # NoValue => t.baseline.base \in Nat /\ t.after.base \in Nat
      BY DEF IInv, Shapes, WellFormed, Target, Value
  <2>5. \A u \in Url : upstream'[u][g].base <= changes + 1
      BY <1>2, <1>3, <2>1, <2>2 DEF BasesBelow
  <2>6. \A u \in Url : late[u][g].value # NoValue => late[u][g].value.base <= changes + 1
      BY <1>2, <2>1, <2>3 DEF BasesBelow
  <2>7. t.baseline # NoValue => t.baseline.base <= changes + 1 /\ t.after.base <= changes + 1
      BY <1>2, <2>1, <2>4 DEF BasesBelow
  <2> QED
      BY <1>1, <2>5, <2>6, <2>7 DEF BasesBelow
<1>7. ASSUME ~overtaken' PROVE Sound(g)'
  <2>1. ~overtaken /\ Sound(g) /\ journal.url \in Url \cup {NoUrl}
      BY <1>1, <1>7 DEF IInv, Shapes, Journal
  <2>2. \A u \in Url : Ours(u, g, upstream[u][g])'
      BY <1>1, <1>2, <1>3, <2>1 DEF Sound, Ours
  <2>3. t.baseline # NoValue => t.baseline.base # w.base
    <3>1. t.baseline # NoValue => t.baseline.base \in Nat /\ t.baseline.base <= changes
        BY DEF IInv, BasesBelow, Shapes, WellFormed, Target, Value
    <3> QED
        BY <1>2, <3>1
  <2> DEFINE T == journal.targets[g]
  <2>4. (T.baseline # NoValue => T.baseline.by = <<>> /\ Len(T.after.by) <= 1)'
      BY <1>1, <2>1 DEF Sound
  <2>5. (\A u \in Url : Unread(u, g) =>
            /\ Ours(u, g, late[u][g].value)
            /\ u = journal.url /\ T.baseline # NoValue => late[u][g].value \in {T.after, T.baseline})'
      BY <1>1, <2>1 DEF Sound, Ours, Unread
  <2>6. (journal.url # NoUrl /\ T.baseline # NoValue
            /\ upstream[journal.url][g].base = T.baseline.base
          => MatchesJournal(upstream[journal.url][g], T))'
    <3>1. CASE journal.url = v
        BY <1>1, <1>3, <2>3, <3>1
    <3>2. CASE journal.url # v
        BY <1>1, <1>3, <2>1, <3>2 DEF Sound, MatchesJournal
    <3> QED
        BY <3>1, <3>2
  <2> QED
      BY <2>2, <2>4, <2>5, <2>6 DEF Sound
<1>8. /\ journal' \in Journal /\ journal'.url = journal.url /\ OnTrack'
      /\ \A h \in Group : WellFormed(journal'.targets[h])
      /\ op' \in Operation \cup {NoOp} /\ overtaken' \in BOOLEAN
      /\ changes' \in Nat /\ changes <= changes'
    BY <1>1, <1>2 DEF IInv, Shapes, OnTrack, WellFormed
<1> QED
    BY <1>1, <1>3, <1>4, <1>5, <1>6, <1>7, <1>8, PriceStep

-----------------------------------------------------------------------------
(* The beginning of an operation *)

LEMMA BeginRevertKeeps ==
    ASSUME IInv, BeginRevert
    PROVE  IInv'
<1> DEFINE targets == {g \in Group : NeedsRevert(journal.targets[g])}
           owners == UNION {journal.targets[g].accounts : g \in targets}
<1>1. /\ op = NoOp /\ connection = journal.url
      /\ journal' = [journal EXCEPT !.revision = journal.revision + 1, !.status = "failed"]
      /\ op' = [kind |-> "revert", step |-> "release", url |-> connection,
                todo |-> targets, targets |-> targets, group |-> 0, accounts |-> owners]
      /\ UNCHANGED <<upstream, late, member, overtaken, connection, accounts, changes>>
    BY DEF BeginRevert, service
<1>2. journal \in Journal /\ connection \in Url /\ changes \in Nat
      /\ \A g \in Group : journal.targets[g] \in Target
    BY DEF IInv, Shapes, WellFormed
<1>3. owners \subseteq Account
    BY <1>2 DEF Target
<1> HIDE DEF owners
<1>4. /\ journal' \in Journal /\ journal'.url = journal.url
      /\ journal'.targets = journal.targets
  <2> DEFINE n == journal.revision + 1
  <2>1. n \in Nat
      BY <1>2 DEF Journal
  <2>2. journal' = [journal EXCEPT !.revision = n, !.status = "failed"]
      BY <1>1
  <2> HIDE DEF n
  <2> QED
      BY <1>2, <2>1, <2>2 DEF Journal, Status
<1>5. op' \in Operation /\ op'.step = "release" /\ op'.url = connection
    BY <1>1, <1>2, <1>3 DEF Operation, RevertOp, StepName
<1>6. OnTrack'
    BY <1>1, <1>2, <1>4, <1>5, Assumed DEF OnTrack
<1>7. /\ member' \in [Account -> SUBSET Group] /\ connection' \in Url
      /\ accounts' \in [Account -> AccountRow] /\ changes' \in Nat /\ changes <= changes'
    BY <1>1, <1>2 DEF IInv, Shapes
<1> QED
    BY <1>1, <1>4, <1>5, <1>6, <1>7, Untouched

\* When the journal turns to another service, nothing of ours is left anywhere.
LEMMA TurnedSound ==
    ASSUME IInv, ~overtaken, NEW g \in Group, UNCHANGED <<upstream, late>>,
           journal'.targets[g].baseline = NoValue,
           ~NeedsRevert(journal.targets[g])
    PROVE  Sound(g)'
<1>1. /\ \A u \in Url : upstream[u][g].by = <<>>
      /\ \A u \in Url : Unread(u, g) => late[u][g].value.by = <<>>
    BY NothingOfOurs
<1> QED
    BY <1>1 DEF Sound, Ours, Unread

LEMMA BeginApplyKeeps ==
    ASSUME IInv, NEW p \in Policy, NEW s \in SUBSET Group, NEW b \in BOOLEAN,
           BeginApply(p, s, b)
    PROVE  IInv'
<1> DEFINE moved == journal.url \notin {NoUrl, connection}
           enabled == {a \in Account : accounts[a].enabled}
           rows == IF moved THEN [g \in Group |-> Absent] ELSE journal.targets
           j == [journal EXCEPT
                   !.url = connection, !.policy = p, !.selected = s,
                   !.revision = journal.revision + 1, !.status = "failed",
                   !.announced = journal.announced \/ b, !.targets = rows]
<1>1. /\ op = NoOp
      /\ moved => \A g \in Group : ~NeedsRevert(journal.targets[g])
      /\ journal' = j
      /\ op' = [kind |-> "apply", step |-> "release", url |-> connection,
                todo |-> s, targets |-> s, group |-> 0,
                accounts |-> enabled,
                previous |-> [a \in enabled |-> accounts[a]],
                groups |-> [a \in enabled |-> {}],
                errors |-> {}, changed |-> {}]
      /\ UNCHANGED <<upstream, late, member, overtaken, connection, accounts, changes>>
    BY DEF BeginApply, service
<1>2. journal \in Journal /\ connection \in Url /\ changes \in Nat
      /\ accounts \in [Account -> AccountRow]
    BY DEF IInv, Shapes
<1>3. rows \in [Group -> Target]
    BY <1>2, AbsentWellFormed DEF Journal, WellFormed
<1> HIDE DEF rows
<1>4. /\ j \in Journal /\ j.url = connection /\ j.targets = rows
  <2> DEFINE n == journal.revision + 1
             c == journal.announced \/ b
  <2>1. n \in Nat /\ c \in BOOLEAN
      BY <1>2 DEF Journal
  <2>2. j = [journal EXCEPT
               !.url = connection, !.policy = p, !.selected = s, !.revision = n,
               !.status = "failed", !.announced = c, !.targets = rows]
      OBVIOUS
  <2> HIDE DEF n, c, j
  <2> QED
      BY <1>2, <1>3, <2>1, <2>2 DEF Journal, Status
<1> HIDE DEF j
<1>5. enabled \subseteq Account
    OBVIOUS
<1> HIDE DEF enabled
<1>6. /\ [a \in enabled |-> accounts[a]] \in [enabled -> AccountRow]
      /\ [a \in enabled |-> {}] \in [enabled -> SUBSET Group]
    BY <1>2, <1>5
<1>7. /\ op'.kind = "apply" /\ op'.step = "release" /\ op'.url = connection
      /\ op'.accounts = enabled /\ op'.previous = [a \in enabled |-> accounts[a]]
      /\ op'.groups = [a \in enabled |-> {}]
    BY <1>1
<1>8. op' \in ApplyOp
  <2>1. /\ [a \in enabled |-> accounts[a]] \in UNION {[S -> AccountRow] : S \in SUBSET Account}
        /\ [a \in enabled |-> {}] \in UNION {[S -> SUBSET Group] : S \in SUBSET Account}
      BY <1>5, <1>6
  <2> DEFINE pr == [a \in enabled |-> accounts[a]]
             gr == [a \in enabled |-> {}]
  <2> HIDE DEF pr, gr
  <2>2. pr \in UNION {[S -> AccountRow] : S \in SUBSET Account}
        /\ gr \in UNION {[S -> SUBSET Group] : S \in SUBSET Account}
      BY <2>1 DEF pr, gr
  <2>3. op' = [kind |-> "apply", step |-> "release", url |-> connection,
                todo |-> s, targets |-> s, group |-> 0, accounts |-> enabled,
                previous |-> pr, groups |-> gr, errors |-> {}, changed |-> {}]
      BY <1>1 DEF pr, gr
  <2> QED
      BY <1>2, <1>5, <2>2, <2>3 DEF ApplyOp, StepName
<1>9. op' \in Operation
    BY <1>6, <1>7, <1>8 DEF Operation
<1>10. OnTrack'
    BY <1>1, <1>2, <1>4, <1>7, Assumed DEF OnTrack
<1>11. /\ member' \in [Account -> SUBSET Group] /\ connection' \in Url
       /\ accounts' \in [Account -> AccountRow] /\ changes' \in Nat /\ changes <= changes'
    BY <1>1, <1>2 DEF IInv, Shapes
<1>12. CASE journal.url = connection
  <2>1. rows = journal.targets
      BY <1>12 DEF rows
  <2> QED
      BY <1>1, <1>4, <1>9, <1>10, <1>11, <1>12, <2>1, Untouched
<1>13. CASE journal.url # connection
  <2>1. ASSUME NEW g \in Group
        PROVE  /\ WellFormed(rows[g]) /\ rows[g].baseline = NoValue
               /\ ~NeedsRevert(journal.targets[g])
    <3>1. CASE moved
        BY <1>1, <3>1, AbsentWellFormed DEF rows
    <3>2. CASE ~moved
      <4>1. journal.targets[g].baseline = NoValue /\ rows = journal.targets
          BY <1>13, <3>2 DEF IInv, OnTrack, rows
      <4> QED
          BY <4>1 DEF NeedsRevert, IInv, Shapes
    <3> QED
        BY <3>1, <3>2
  <2>2. Shapes'
    <3>1. \A g \in Group : WellFormed(journal'.targets[g])
        BY <1>1, <1>4, <2>1
    <3> QED
        BY <1>1, <1>4, <1>9, <1>11, <3>1 DEF IInv, Shapes, WellFormed
  <2>3. \A g \in Group : BasesBelow(g)'
      BY <1>1, <1>4, <2>1 DEF IInv, BasesBelow
  <2>4. ASSUME ~overtaken', NEW g \in Group PROVE Sound(g)'
      BY <1>1, <1>4, <2>1, <2>4, TurnedSound
  <2> QED
      BY <1>10, <2>2, <2>3, <2>4 DEF IInv
<1> QED
    BY <1>12, <1>13

-----------------------------------------------------------------------------
(* Accounts, and the end of an operation *)

\* A step of an operation that leaves the journal's rows and the prices alone.
LEMMA Bookkeeping ==
    ASSUME IInv, op \in Operation, UNCHANGED <<upstream, late, overtaken>>, StepFrame,
           journal' \in Journal, journal'.url = journal.url,
           journal'.targets = journal.targets, accounts' \in [Account -> AccountRow],
           \/ op' = NoOp
           \/ /\ op' \in Operation /\ op'.url = op.url /\ op'.group = op.group
              /\ op'.step \in {"mark", "put", "verify"} =>
                    op.step \in {"mark", "put", "verify"}
    PROVE  IInv'
<1>1. op # NoOp
    BY DEF NoOp, Operation, ApplyOp, RevertOp
<1>2. OnTrack'
    BY <1>1 DEF IInv, OnTrack, StepFrame
<1>3. /\ member' \in [Account -> SUBSET Group] /\ connection' \in Url
      /\ changes' \in Nat /\ changes <= changes'
    BY DEF StepFrame, IInv, Shapes
<1> QED
    BY <1>2, <1>3, Untouched

LEMMA UnappliedTyped ==
    ASSUME IInv, NEW S
    PROVE  Unapplied(S) \in [Account -> AccountRow]
<1>1. accounts \in [Account -> AccountRow] /\ journal.revision \in Nat
    BY DEF IInv, Shapes, Journal
<1> DEFINE e == [of |-> "none", number |-> journal.revision]
<1>2. e \in [of : {"pending", "none", "applied", "connection"}, number : Nat]
    BY <1>1
<1> HIDE DEF e
<1>3. ASSUME NEW a \in Account
      PROVE  [accounts[a] EXCEPT !.applied = FALSE, !.epoch = e] \in AccountRow
    BY <1>1, <1>2 DEF AccountRow
<1>4. Unapplied(S) = [a \in Account |->
            IF a \in S THEN [accounts[a] EXCEPT !.applied = FALSE, !.epoch = e]
            ELSE accounts[a]]
    BY DEF Unapplied, e
<1> QED
    BY <1>1, <1>3, <1>4

LEMMA ReleaseAccountsKeeps ==
    ASSUME IInv, ReleaseAccounts
    PROVE  IInv'
<1> DEFINE s == IF op.kind = "apply" THEN "accounts" ELSE "group"
<1>1. /\ op \in Operation /\ StepFrame /\ op' = [op EXCEPT !.step = s]
      /\ UNCHANGED <<upstream, late, overtaken, journal>> /\ accounts' = Unapplied(op.accounts)
    BY DEF ReleaseAccounts, Goto, IInv, Shapes, service
<1>2. s \in StepName /\ s \notin {"mark", "put", "verify"}
    BY DEF StepName
<1> HIDE DEF s
<1>3. op' \in Operation /\ op'.step = s /\ op'.url = op.url /\ op'.group = op.group
    BY <1>1, <1>2, StepTyped
<1> QED
    BY <1>1, <1>2, <1>3, UnappliedTyped, Bookkeeping DEF IInv, Shapes

LEMMA ReadAccountsKeeps ==
    ASSUME IInv, NEW e \in SUBSET Account, ReadAccounts(e)
    PROVE  IInv'
<1> DEFINE gr == [a \in op.accounts |-> IF a \in e THEN {} ELSE member[a]]
<1>1. /\ op \in Operation /\ StepFrame /\ op.kind = "apply"
      /\ UNCHANGED <<upstream, late, overtaken, journal, accounts>>
      /\ op' = [op EXCEPT !.step = "group", !.errors = e, !.groups = gr]
    BY DEF ReadAccounts, Running, IInv, Shapes, NoOp
<1>2. op \in ApplyOp /\ op.previous \in [op.accounts -> AccountRow] /\ op.accounts \subseteq Account
    BY <1>1 DEF Operation, ApplyOp, RevertOp
<1>3. gr \in [op.accounts -> SUBSET Group]
    BY <1>2 DEF IInv, Shapes
<1> HIDE DEF gr
<1>4. gr \in UNION {[S -> SUBSET Group] : S \in SUBSET Account}
    BY <1>2, <1>3
<1>5. op' \in ApplyOp
    BY <1>1, <1>2, <1>4 DEF ApplyOp, StepName
<1>6. /\ op'.step = "group" /\ op'.url = op.url /\ op'.group = op.group
      /\ op'.previous = op.previous /\ op'.accounts = op.accounts
    BY <1>1, <1>2 DEF ApplyOp
<1>7. op' \in Operation
    BY <1>2, <1>5, <1>6 DEF Operation
<1> QED
    BY <1>1, <1>6, <1>7, Bookkeeping DEF IInv, Shapes

LEMMA PlannerFailsKeeps ==
    ASSUME IInv, PlannerFails
    PROVE  IInv'
<1>1. /\ op \in Operation /\ StepFrame /\ op.kind = "apply"
      /\ UNCHANGED <<upstream, late, overtaken, journal, accounts>>
      /\ op' = [op EXCEPT !.step = "settle", !.errors = op.accounts]
    BY DEF PlannerFails, Running, IInv, Shapes, NoOp, service
<1>2. op \in ApplyOp /\ op.previous \in [op.accounts -> AccountRow] /\ op.accounts \subseteq Account
    BY <1>1 DEF Operation, ApplyOp, RevertOp
<1>3. /\ op' \in ApplyOp /\ op'.step = "settle" /\ op'.url = op.url /\ op'.group = op.group
      /\ op'.previous = op.previous /\ op'.accounts = op.accounts
    BY <1>1, <1>2 DEF ApplyOp, StepName
<1>4. op' \in Operation
    BY <1>2, <1>3 DEF Operation
<1> QED
    BY <1>1, <1>3, <1>4, Bookkeeping DEF IInv, Shapes

LEMMA MarkChangedKeeps ==
    ASSUME IInv, MarkChanged
    PROVE  IInv'
<1> DEFINE owners == journal.targets[op.group].accounts
           changed == op.changed \cup owners
<1>1. /\ op \in Operation /\ StepFrame /\ op.kind = "apply" /\ op.step = "mark" /\ op # NoOp
      /\ UNCHANGED <<upstream, late, overtaken, journal>> /\ accounts' = Unapplied(owners)
      /\ op' = [op EXCEPT !.step = "put", !.changed = changed]
    BY DEF MarkChanged, Running, IInv, Shapes, NoOp, service
<1>2. op \in ApplyOp /\ op.previous \in [op.accounts -> AccountRow]
    BY <1>1 DEF Operation, ApplyOp, RevertOp
<1>3. op.group \in Group
    BY <1>1 DEF IInv, OnTrack
<1>4. changed \subseteq Account
    BY <1>2, <1>3 DEF ApplyOp, IInv, Shapes, WellFormed, Target
<1> HIDE DEF changed
<1>5. /\ op' \in ApplyOp /\ op'.step = "put" /\ op'.url = op.url /\ op'.group = op.group
      /\ op'.previous = op.previous /\ op'.accounts = op.accounts
    BY <1>1, <1>2, <1>4 DEF ApplyOp, StepName
<1>6. op' \in Operation
    BY <1>2, <1>5 DEF Operation
<1> QED
    BY <1>1, <1>5, <1>6, UnappliedTyped, Bookkeeping DEF IInv, Shapes

LEMMA SettleAccountsKeeps ==
    ASSUME IInv, SettleAccounts
    PROVE  IInv'
<1> DEFINE epoch(a) == IF KeepsEpoch(a) THEN op.previous[a].epoch
                       ELSE [of |-> IF Confirmed(a) THEN "applied" ELSE "none",
                             number |-> journal.revision]
           row(a) == [accounts[a] EXCEPT !.applied = Confirmed(a), !.epoch = epoch(a)]
<1>1. /\ op \in Operation /\ StepFrame /\ op.kind = "apply"
      /\ UNCHANGED <<upstream, late, overtaken, journal>>
      /\ op' = [op EXCEPT !.step = "close"]
      /\ accounts' = [a \in Account |-> IF a \notin op.accounts THEN accounts[a] ELSE row(a)]
    BY DEF SettleAccounts, Goto, IInv, Shapes, service
<1>2. op.previous \in [op.accounts -> AccountRow] /\ op.accounts \subseteq Account
    BY <1>1 DEF Operation, ApplyOp, RevertOp
<1>3. accounts \in [Account -> AccountRow] /\ journal.revision \in Nat
    BY DEF IInv, Shapes, Journal
<1>4. ASSUME NEW a \in op.accounts PROVE row(a) \in AccountRow
  <2>1. Confirmed(a) \in BOOLEAN
      BY DEF Confirmed
  <2>2. epoch(a) \in [of : {"pending", "none", "applied", "connection"}, number : Nat]
    <3>1. CASE KeepsEpoch(a)
        BY <1>2, <3>1 DEF AccountRow
    <3>2. CASE ~KeepsEpoch(a)
        BY <1>3, <3>2
    <3> QED
        BY <3>1, <3>2
  <2> DEFINE c == Confirmed(a)
             e == epoch(a)
  <2>3. row(a) = [accounts[a] EXCEPT !.applied = c, !.epoch = e]
      OBVIOUS
  <2> HIDE DEF c, e, row
  <2>4. c \in BOOLEAN /\ e \in [of : {"pending", "none", "applied", "connection"}, number : Nat]
      BY <2>1, <2>2 DEF c, e
  <2>5. accounts[a] \in AccountRow
      BY <1>2, <1>3
  <2> QED
      BY <2>3, <2>4, <2>5 DEF AccountRow
<1> HIDE DEF row
<1>5. accounts' \in [Account -> AccountRow]
    BY <1>1, <1>3, <1>4
<1>6. op' \in Operation /\ op'.step = "close" /\ op'.url = op.url /\ op'.group = op.group
    BY <1>1, StepTyped DEF StepName
<1> QED
    BY <1>1, <1>5, <1>6, Bookkeeping DEF IInv, Shapes

LEMMA CloseKeeps ==
    ASSUME IInv, Close
    PROVE  IInv'
<1>1. /\ op \in Operation /\ StepFrame /\ op' = NoOp
      /\ UNCHANGED <<upstream, late, overtaken, accounts>>
    BY DEF Close, IInv, Shapes, service
<1>2. PICK s \in Status : journal' = [journal EXCEPT !.status = s]
    BY DEF Close, Outcome, Status
<1>3. /\ journal' \in Journal /\ journal'.url = journal.url
      /\ journal'.targets = journal.targets
    BY <1>2 DEF IInv, Shapes, Journal
<1> QED
    BY <1>1, <1>3, Bookkeeping DEF IInv, Shapes

LEMMA MoveAccountKeeps ==
    ASSUME IInv, NEW a \in Account, NEW s \in SUBSET Group, MoveAccount(a, s)
    PROVE  IInv'
<1>1. /\ UNCHANGED <<upstream, late, overtaken, connection, journal, accounts, op>>
      /\ member' = [member EXCEPT ![a] = s] /\ changes' = changes + 1
    BY DEF MoveAccount, Change, ChangeFrame
<1>2. changes \in Nat
    BY DEF IInv, Shapes
<1>3. changes' \in Nat /\ changes <= changes'
    BY <1>1, <1>2
<1>4. member' \in [Account -> SUBSET Group] /\ OnTrack'
    BY <1>1 DEF IInv, Shapes, OnTrack
<1> QED
    BY <1>1, <1>3, <1>4, Untouched DEF IInv, Shapes

LEMMA ToggleAccountKeeps ==
    ASSUME IInv, NEW a \in Account, ToggleAccount(a)
    PROVE  IInv'
<1>1. /\ UNCHANGED <<upstream, late, overtaken, member, connection, journal, op>>
      /\ accounts' = [accounts EXCEPT ![a] = [accounts[a] EXCEPT !.enabled = ~accounts[a].enabled]]
      /\ changes' = changes + 1 /\ accounts \in [Account -> AccountRow]
    BY DEF ToggleAccount, Change, ChangeFrame, service, IInv, Shapes
<1>2. changes \in Nat
    BY DEF IInv, Shapes
<1>3. changes' \in Nat /\ changes <= changes'
    BY <1>1, <1>2
<1>4. [accounts[a] EXCEPT !.enabled = ~accounts[a].enabled] \in AccountRow
    BY <1>1 DEF AccountRow
<1>5. accounts' \in [Account -> AccountRow] /\ OnTrack'
    BY <1>1, <1>4 DEF IInv, OnTrack
<1> QED
    BY <1>1, <1>3, <1>5, Untouched DEF IInv, Shapes

LEMMA ChangeConnectionKeeps ==
    ASSUME IInv, NEW u \in Url, ChangeConnection(u)
    PROVE  IInv'
<1> DEFINE e == [of |-> "connection", number |-> changes]
           row(a) == [accounts[a] EXCEPT !.applied = FALSE, !.epoch = e]
<1>1. /\ UNCHANGED <<upstream, late, overtaken, member, op>> /\ op = NoOp
      /\ connection' = u /\ changes' = changes + 1
      /\ accounts' = [a \in Account |-> row(a)]
      /\ \/ journal' = journal
         \/ journal' = [journal EXCEPT !.status = "failed", !.selected = {}]
    BY DEF ChangeConnection, Change, ChangeFrame, service
<1>2. changes \in Nat /\ accounts \in [Account -> AccountRow]
    BY DEF IInv, Shapes
<1>3. changes' \in Nat /\ changes <= changes'
  <2>1. changes' = changes + 1
      BY DEF ChangeConnection, Change
  <2>2. changes \in Nat
      BY <1>2
  <2> QED
      BY <2>1, <2>2
<1>4. e \in [of : {"pending", "none", "applied", "connection"}, number : Nat]
    BY <1>2
<1> HIDE DEF e
<1>5. \A a \in Account : row(a) \in AccountRow
    BY <1>2, <1>4 DEF AccountRow
<1> HIDE DEF row
<1>6. accounts' \in [Account -> AccountRow]
    BY <1>1, <1>5
<1>7. /\ journal' \in Journal /\ journal'.url = journal.url
      /\ journal'.targets = journal.targets
    BY <1>1 DEF IInv, Shapes, Journal, Status
<1>8. OnTrack'
    BY <1>1, <1>7 DEF IInv, OnTrack
<1> QED
    BY <1>1, <1>3, <1>6, <1>7, <1>8, Untouched DEF IInv, Shapes

\* A step that leaves everything the invariant speaks of alone.
LEMMA NothingHappens ==
    ASSUME IInv, UNCHANGED <<upstream, late, overtaken, member, connection, journal,
                             accounts, op, changes>>
    PROVE  IInv'
<1>1. OnTrack' /\ changes' \in Nat /\ changes <= changes'
    BY DEF IInv, Shapes, OnTrack
<1> QED
    BY <1>1, Untouched DEF IInv, Shapes

-----------------------------------------------------------------------------

LEMMA InitEstablishes == Init => IInv
<1> SUFFICES ASSUME Init PROVE IInv
    OBVIOUS
<1> DEFINE z == [base |-> 0, by |-> <<>>]
<1>1. z \in Value /\ z.base = 0 /\ z.by = <<>>
    BY EmptySeq DEF Value
<1>2. NoWrite \in Write /\ NoWrite.value = NoValue
    BY DEF NoWrite, Write
<1>3. upstream = [u \in Url |-> [g \in Group |-> z]]
    BY DEF Init
<1> HIDE DEF z
<1>4. /\ upstream \in [Url -> [Group -> Value]]
      /\ \A u \in Url, g \in Group : upstream[u][g].base = 0 /\ upstream[u][g].by = <<>>
    BY <1>1, <1>3
<1>5. /\ late \in [Url -> [Group -> Write]]
      /\ \A u \in Url, g \in Group : late[u][g].value = NoValue
    BY <1>2 DEF Init
<1> DEFINE rows == [g \in Group |-> Absent]
<1>6. rows \in [Group -> Target] /\ \A g \in Group : rows[g] = Absent
    BY AbsentWellFormed DEF WellFormed
<1> HIDE DEF rows
<1>7. journal \in Journal /\ journal.url = NoUrl /\ journal.targets = rows
    BY <1>6, Assumed DEF Init, Journal, Status, rows
<1>8. \A g \in Group : WellFormed(journal.targets[g]) /\ journal.targets[g].baseline = NoValue
    BY <1>6, <1>7, AbsentWellFormed
<1> DEFINE row == [enabled |-> TRUE, applied |-> FALSE,
                   epoch |-> [of |-> "pending", number |-> 0]]
<1>9. row \in AccountRow /\ accounts = [a \in Account |-> row]
    BY DEF Init, AccountRow
<1> HIDE DEF row
<1>10. Shapes
  <2>1. /\ member \in [Account -> SUBSET Group] /\ connection \in Url
        /\ overtaken \in BOOLEAN /\ op = NoOp /\ changes \in Nat
      BY Assumed DEF Init
  <2>2. accounts \in [Account -> AccountRow]
      BY <1>9
  <2> QED
      BY <1>4, <1>5, <1>7, <1>8, <2>1, <2>2 DEF Shapes
<1>11. OnTrack
    BY <1>8 DEF Init, OnTrack
<1>12. \A g \in Group : BasesBelow(g)
    BY <1>4, <1>5, <1>8 DEF Init, BasesBelow
<1>13. \A g \in Group : Sound(g)
    BY <1>4, <1>5, <1>8 DEF Sound, Ours, Unread
<1> QED
    BY <1>10, <1>11, <1>12, <1>13 DEF IInv

LEMMA NextPreserves == IInv /\ [Next]_vars => IInv'
<1> SUFFICES ASSUME IInv, [Next]_vars PROVE IInv'
    OBVIOUS
<1>1. ASSUME NEW p \in Policy, NEW s \in SUBSET Group, NEW b \in BOOLEAN, BeginApply(p, s, b)
      PROVE  IInv'
    BY <1>1, BeginApplyKeeps
<1>2. CASE BeginRevert
    BY <1>2, BeginRevertKeeps
<1>3. CASE ReleaseAccounts
    BY <1>3, ReleaseAccountsKeeps
<1>4. ASSUME NEW e \in SUBSET Account, ReadAccounts(e) PROVE IInv'
    BY <1>4, ReadAccountsKeeps
<1>5. CASE PlannerFails
    BY <1>5, PlannerFailsKeeps
<1>6. ASSUME NEW g \in Group, GroupUnreadable(g) \/ PlanGroup(g) \/ PlanRevert(g) PROVE IInv'
    BY <1>6, GroupUnreadableKeeps, PlanGroupKeeps, PlanRevertKeeps
<1>7. CASE MarkChanged \/ Put \/ Verify
    BY <1>7, MarkChangedKeeps, PutKeeps, VerifyKeeps
<1>8. CASE SettleAccounts \/ Close \/ Stop
    BY <1>8, SettleAccountsKeeps, CloseKeeps, StopKeeps
<1>9. ASSUME NEW u \in Url, NEW g \in Group, EditGroup(u, g) \/ LateWrite(u, g) PROVE IInv'
    BY <1>9, EditGroupKeeps, LateWriteKeeps
<1>10. ASSUME NEW a \in Account, ToggleAccount(a) \/ Sample(a) PROVE IInv'
    BY <1>10, ToggleAccountKeeps, NothingHappens DEF Sample, service, bounds
<1>11. ASSUME NEW a \in Account, NEW s \in SUBSET Group, MoveAccount(a, s) PROVE IInv'
    BY <1>11, MoveAccountKeeps
<1>12. ASSUME NEW u \in Url, ChangeConnection(u) PROVE IInv'
    BY <1>12, ChangeConnectionKeeps
<1>13. CASE UNCHANGED vars
    BY <1>13, NothingHappens DEF vars, service, bounds
<1> QED
    BY <1>1, <1>2, <1>3, <1>4, <1>5, <1>6, <1>7, <1>8, <1>9, <1>10, <1>11, <1>12, <1>13 DEF Next

\* The inductive invariant holds of every execution of the pricing operations.
THEOREM Inductive == Spec => []IInv
    BY InitEstablishes, NextPreserves, PTL DEF Spec

\* Types and the shape of a journal row (upstream_pricing/service.py): baseline,
\* before and after come together, and what is confirmed has no write open.
THEOREM TypeCorrect == Spec => []TypeOK
<1>1. IInv => TypeOK
    BY DEF IInv, Shapes, TypeOK, WellFormed, Journal, AccountRow
<1> QED
    BY <1>1, Inductive, PTL

\* Applying and reverting, through stops and lost answers, never multiplies rules
\* into prices that already contain rules, however many groups there are.
THEOREM NothingCompounds == Spec => []NeverCompounded
<1>1. IInv => NeverCompounded
  <2> SUFFICES ASSUME IInv, ~overtaken, NEW u \in Url, NEW g \in Group
               PROVE  Len(upstream[u][g].by) <= 1
      BY DEF NeverCompounded
  <2>1. CASE upstream[u][g].by = <<>>
      BY <2>1, EmptySeq
  <2>2. CASE upstream[u][g].by # <<>>
    <3>1. Len(upstream[u][g].by) = 1
        BY <2>2 DEF IInv, Sound, Ours
    <3> QED
        BY <3>1
  <2> QED
      BY <2>1, <2>2
<1> QED
    BY <1>1, Inductive, PTL

\* Whatever of ours is in a group, the journal of its service still knows how to
\* take it back (revert_policy).
THEOREM EverythingCanBeReverted == Spec => []WrittenCanBeReverted
<1>1. IInv => WrittenCanBeReverted
    BY DEF IInv, Sound, Ours, WrittenCanBeReverted
<1> QED
    BY <1>1, Inductive, PTL

\* While nobody else gave a group new prices, the journal recognises the prices
\* it finds (_matches_journal), so an operation is never refused for its own
\* half-done writes.
THEOREM NoLockOut == Spec => []NoFalseConflict
<1>1. IInv => NoFalseConflict
    BY DEF IInv, Sound, NoFalseConflict
<1> QED
    BY <1>1, Inductive, PTL

-----------------------------------------------------------------------------
(***************************************************************************)
(* Why an account that counts as applied has rules of ours in its groups,  *)
(* and why samples under one confirmed epoch saw the same prices, for      *)
(* every number of services, groups, accounts, operations and changes.     *)
(*                                                                         *)
(* The argument follows one account and one of its groups.  The journal    *)
(* names every account it ever found in a group, and an operation takes    *)
(* the confirmation and the epoch from all of them before it writes        *)
(* (ReleaseAccounts, MarkChanged); so what is confirmed is not written to. *)
(* What is being confirmed was read as wanted after the last write to it.  *)
(***************************************************************************)

Owners(g) == journal.targets[g].accounts

\* The journal names the account, and no write to the group is unread.
Recorded(a, g) ==
    /\ journal.url = connection
    /\ a \in Owners(g)
    /\ ~Unread(connection, g)

\* While the prices of a group are those of its row, they have rules of ours.
HasRules(g) ==
    upstream[connection][g].base = journal.targets[g].baseline.base
        => upstream[connection][g].by # <<>>

\* What is confirmed, at every moment.
ConfirmedRows ==
    \A a \in Account \ strayed : accounts[a].applied =>
        \A g \in member[a] :
            /\ Recorded(a, g)
            /\ journal.targets[g].baseline # NoValue
            /\ journal.targets[g].status # "reverted"
            /\ ~overtaken => HasRules(g)

Released(S) == \A a \in S : ~accounts[a].applied
OwnersFound(g) == \A a \in op.accounts : g \in op.groups[a] => a \in Owners(g)

\* Both kinds of operations write to groups whose owners they have released.
Discipline ==
    op # NoOp =>
        /\ op.todo \subseteq op.targets /\ op.targets \subseteq Group
        /\ op.step \notin {"release", "close"} => Released(op.accounts)
        /\ op.step \in {"mark", "put", "verify"} => op.group \in op.todo
        /\ op.kind = "revert" =>
            /\ op.step \in {"release", "group", "put", "verify"}
            /\ \A g \in op.targets : Owners(g) \subseteq op.accounts

\* The policy's operation on its way to a confirmation.
Planned ==
    op # NoOp /\ op.kind = "apply" =>
        /\ op.targets = journal.selected
        /\ op.step = "settle" => op.errors = op.accounts
        /\ op.step \in {"release", "accounts"} => op.todo = op.targets
        /\ op.step \notin {"release", "accounts"} =>
            \A a \in op.accounts : a \notin strayed /\ a \notin op.errors => op.groups[a] = member[a]
        /\ op.step \in {"mark", "put", "verify"} =>
            /\ OwnersFound(op.group)
            /\ journal.targets[op.group].after
                 = Plan(journal.targets[op.group].baseline, journal.policy)
        /\ op.step = "put" => Released(Owners(op.group)) /\ Owners(op.group) \subseteq op.changed

\* A group this operation is done with.
DoneWith(g) ==
    journal.targets[g].status = "applied" =>
        /\ OwnersFound(g)
        /\ journal.targets[g].baseline # NoValue
        /\ ~Unread(connection, g)
        /\ ~overtaken /\ journal.policy # NoRules => HasRules(g)

AllDone ==
    op # NoOp /\ op.kind = "apply" /\ op.step \in {"group", "mark", "put", "verify"} =>
        \A g \in op.targets : g \notin op.todo => DoneWith(g)

\* Epochs are numbered by the revision of the operation that gave them.
EpochsNumbered ==
    /\ \A a \in Account : accounts[a].applied => accounts[a].epoch.number <= journal.revision
    /\ op # NoOp /\ op.kind = "apply" =>
        \A a \in op.accounts :
            op.previous[a].applied => op.previous[a].epoch.number <= journal.revision
    /\ kept # NoSample =>
        /\ kept.account \in Account
        /\ DOMAIN kept.prices \subseteq Group
        /\ kept.epoch.number \in Nat
        /\ kept.epoch.number <= journal.revision
        /\ op # NoOp => kept.epoch.number < journal.revision

\* The account of the sample has its epoch, or may be given it back.
Candidate ==
    \/ accounts[kept.account].applied /\ accounts[kept.account].epoch = kept.epoch
    \/ /\ op # NoOp /\ op.kind = "apply"
       /\ kept.account \in op.accounts /\ kept.account \notin op.changed
       /\ op.previous[kept.account].applied /\ op.previous[kept.account].epoch = kept.epoch

\* Until then none of the prices it saw is written by us.
KeptPrices ==
    kept # NoSample /\ Candidate =>
        \A g \in DOMAIN kept.prices :
            /\ Recorded(kept.account, g)
            /\ kept.prices[g].base \in 0 .. changes
            /\ ~overtaken => (upstream[connection][g].base = kept.prices[g].base
                                 => upstream[connection][g] = kept.prices[g])

CInv ==
    /\ ConfirmedRows
    /\ Discipline
    /\ Planned
    /\ AllDone
    /\ EpochsNumbered
    /\ KeptPrices

-----------------------------------------------------------------------------
(* What a step writes *)

LEMMA OpTyped ==
    ASSUME IInv, op # NoOp
    PROVE  /\ op \in Operation /\ op.kind \in {"apply", "revert"} /\ op.step \in StepName
           /\ op.url = connection /\ journal.url = connection /\ op.url \in Url
           /\ op.accounts \subseteq Account /\ op.todo \subseteq Group /\ op.targets \subseteq Group
           /\ op.kind = "apply" => op \in ApplyOp /\ op.previous \in [op.accounts -> AccountRow]
           /\ op.kind = "revert" => op \in RevertOp
<1>1. op \in Operation
    BY DEF IInv, Shapes
<1>2. op.url = connection /\ journal.url = connection /\ connection \in Url
    BY DEF IInv, OnTrack, Shapes
<1>3. CASE op \in ApplyOp /\ op.previous \in [op.accounts -> AccountRow]
    BY <1>1, <1>2, <1>3 DEF ApplyOp
<1>4. CASE op \in RevertOp
    BY <1>1, <1>2, <1>4 DEF RevertOp
<1> QED
    BY <1>1, <1>3, <1>4 DEF Operation

\* An operation that goes on to another step.
LEMMA StepTaken ==
    ASSUME IInv, op # NoOp, NEW s \in StepName, Goto(s)
    PROVE  /\ op' # NoOp /\ op'.step = s /\ op'.kind = op.kind /\ op'.url = op.url
           /\ op'.todo = op.todo /\ op'.targets = op.targets /\ op'.group = op.group
           /\ op'.accounts = op.accounts
           /\ op.kind = "apply" => /\ op'.previous = op.previous /\ op'.groups = op.groups
                                   /\ op'.errors = op.errors /\ op'.changed = op.changed
<1>1. op' = [op EXCEPT !.step = s]
    BY DEF Goto
<1>2. op \in Operation /\ op.kind \in {"apply", "revert"}
    BY OpTyped
<1>3. op' # NoOp
    BY <1>1, <1>2, StepTyped DEF NoOp, Operation, ApplyOp, RevertOp
<1>4. CASE op.kind = "apply"
    BY <1>1, <1>3, <1>4, OpTyped DEF ApplyOp
<1>5. CASE op.kind = "revert"
    BY <1>1, <1>3, <1>5, OpTyped DEF RevertOp
<1> QED
    BY <1>2, <1>4, <1>5

\* An operation that has closed a group.
LEMMA GroupLeft ==
    ASSUME IInv, op # NoOp, NEW g, op' = [op EXCEPT !.step = "group", !.todo = @ \ {g}]
    PROVE  /\ op' # NoOp /\ op'.step = "group" /\ op'.kind = op.kind /\ op'.url = op.url
           /\ op'.todo = op.todo \ {g} /\ op'.targets = op.targets /\ op'.group = op.group
           /\ op'.accounts = op.accounts
           /\ op.kind = "apply" => /\ op'.previous = op.previous /\ op'.groups = op.groups
                                   /\ op'.errors = op.errors /\ op'.changed = op.changed
<1>1. op \in Operation /\ op.kind \in {"apply", "revert"}
    BY OpTyped
<1>2. op' # NoOp
    BY <1>1, GroupClosed DEF NoOp, Operation, ApplyOp, RevertOp
<1>3. CASE op.kind = "apply"
    BY <1>2, <1>3, OpTyped DEF ApplyOp
<1>4. CASE op.kind = "revert"
    BY <1>2, <1>4, OpTyped DEF RevertOp
<1> QED
    BY <1>1, <1>3, <1>4

\* A row that is written, whatever with.
LEMMA RowWritten ==
    ASSUME IInv, NEW g \in Group, NEW t, SetTarget(g, t)
    PROVE  /\ journal'.targets[g] = t
           /\ \A h \in Group : h # g => journal'.targets[h] = journal.targets[h]
           /\ journal'.url = journal.url /\ journal'.policy = journal.policy
           /\ journal'.selected = journal.selected /\ journal'.revision = journal.revision
BY DEF IInv, Shapes, Journal, SetTarget

\* Only these steps write to the journal.
LEMMA JournalSteps ==
    ASSUME [Next]_vars
    PROVE  \/ UNCHANGED journal
           \/ \E p \in Policy, s \in SUBSET Group, b \in BOOLEAN : BeginApply(p, s, b)
           \/ BeginRevert \/ Close
           \/ \E u \in Url : ChangeConnection(u)
           \/ \E g \in Group : GroupUnreadable(g) \/ PlanGroup(g) \/ PlanRevert(g)
           \/ Put \/ Verify
BY DEF Next, vars, bounds, service, StepFrame, ReleaseAccounts, ReadAccounts, PlannerFails, MarkChanged,
   SettleAccounts, Stop, EditGroup, LateWrite, ToggleAccount, Sample, MoveAccount, ChangeFrame

\* The row of a group that an operation closes or plans.
LEMMA RowOwned ==
    ASSUME IInv, op # NoOp, NEW g \in Group, NEW t, t \in {Owned(g), Reopened(Owned(g))}
    PROVE  /\ t \in Target
           /\ t.status = journal.targets[g].status
           /\ Owners(g) \subseteq t.accounts
           /\ journal.targets[g].status # "reverted" => t.baseline = journal.targets[g].baseline
           /\ op.kind = "revert" => t.accounts = Owners(g)
           /\ op.kind = "apply" => \A a \in op.accounts : g \in op.groups[a] => a \in t.accounts
<1> DEFINE found == IF op.kind = "apply" THEN {a \in op.accounts : g \in op.groups[a]} ELSE {}
           r == journal.targets[g]
<1>1. r \in Target /\ found \subseteq Account /\ op.kind \in {"apply", "revert"}
    BY OpTyped DEF IInv, Shapes, WellFormed
<1>2. Owned(g) = [r EXCEPT !.accounts = r.accounts \cup found]
    BY <1>1 DEF Owned, Target
<1> HIDE DEF found
<1>3. /\ Owned(g) \in Target /\ Owned(g).status = r.status /\ Owned(g).baseline = r.baseline
      /\ Owned(g).accounts = r.accounts \cup found
    BY <1>1, <1>2 DEF Target
<1>4. CASE t = Owned(g)
    BY <1>1, <1>3, <1>4 DEF Owners, found
<1>5. CASE t = Reopened(Owned(g)) /\ r.status = "reverted"
  <2>1. t = [Absent EXCEPT !.status = "reverted", !.accounts = Owned(g).accounts]
      BY <1>3, <1>5 DEF Reopened, Forgotten
  <2>2. t \in Target /\ t.status = "reverted" /\ t.accounts = Owned(g).accounts
      BY <1>3, <2>1 DEF Absent, Target
  <2> QED
      BY <1>1, <1>3, <1>5, <2>2 DEF Owners, found
<1>6. CASE t = Reopened(Owned(g)) /\ r.status # "reverted"
    BY <1>1, <1>3, <1>6 DEF Owners, found, Reopened
<1> QED
    BY <1>4, <1>5, <1>6

\* One row is closed as failed, settled, planned, or opened for a revert.
LEMMA GroupSteps ==
    ASSUME IInv, Discipline, NEW g \in Group, GroupUnreadable(g) \/ PlanGroup(g) \/ PlanRevert(g)
    PROVE  /\ op # NoOp /\ op.step = "group" /\ g \in op.todo
           /\ \E t : /\ SetTarget(g, t)
                     /\ Owners(g) \subseteq t.accounts
                     /\ op.kind = "revert" => t.accounts = Owners(g)
                     /\ op.kind = "apply" =>
                            \A a \in op.accounts : g \in op.groups[a] => a \in t.accounts
                     /\ journal.targets[g].baseline # NoValue /\ journal.targets[g].status # "reverted"
                            => t.baseline = journal.targets[g].baseline
                     /\ t.status \in {"failed", "pending"} \/ (t.status = "reverted" /\ op.kind = "revert")
                     /\ \/ op' = [op EXCEPT !.step = "group", !.todo = @ \ {g}]
                        \/ op.kind = "revert" /\ op' = [op EXCEPT !.group = g, !.step = "put"]
                        \/ /\ op.kind = "apply"
                           /\ \/ op' = [op EXCEPT !.group = g, !.step = "mark"]
                              \/ op' = [op EXCEPT !.group = g, !.step = "verify"]
                           /\ t.after = Plan(t.baseline, journal.policy)
<1>1. op # NoOp /\ op.step = "group" /\ g \in op.todo
    BY DEF GroupUnreadable, PlanGroup, PlanRevert, Chosen
<1> DEFINE r == journal.targets[g]
<1>2. r \in Target
    BY DEF IInv, Shapes, WellFormed
<1>3. ASSUME NEW t, t \in {Owned(g), Reopened(Owned(g))}, FailGroup(g, t)
      PROVE  \E f : /\ SetTarget(g, f)
                    /\ f.accounts = t.accounts /\ f.baseline = t.baseline /\ f.status = "failed"
                    /\ op' = [op EXCEPT !.step = "group", !.todo = @ \ {g}]
    BY <1>1, <1>3, RowOwned DEF FailGroup, Target
<1>4. CASE GroupUnreadable(g)
  <2>1. FailGroup(g, Owned(g))
      BY <1>4 DEF GroupUnreadable
  <2> QED
      BY <1>1, <1>3, <2>1, RowOwned
<1>5. CASE PlanGroup(g)
  <2> DEFINE t == Reopened(Owned(g))
             current == upstream[op.url][g]
             b == Baseline(t, current)
             d == Plan(b, journal.policy)
             p == [t EXCEPT !.baseline = b, !.before = current, !.after = d,
                            !.status = "pending", !.pending = (current # d)]
  <2>1. op.kind = "apply"
      BY <1>5 DEF PlanGroup
  <2>2. \/ FailGroup(g, t)
        \/ /\ SetTarget(g, p)
           /\ op' = [op EXCEPT !.group = g, !.step = IF current # d THEN "mark" ELSE "verify"]
      BY <1>5 DEF PlanGroup
  <2>3. /\ t \in Target /\ Owners(g) \subseteq t.accounts
        /\ r.status # "reverted" => t.baseline = r.baseline
        /\ \A a \in op.accounts : g \in op.groups[a] => a \in t.accounts
      BY <1>1, <2>1, RowOwned
  <2>4. r.baseline # NoValue /\ r.status # "reverted" => b = r.baseline
      BY <2>3 DEF Baseline
  <2>5. CASE FailGroup(g, t)
      BY <1>1, <1>3, <2>1, <2>3, <2>5
  <2> HIDE DEF t, b, d, current
  <2>6. p.accounts = t.accounts /\ p.status = "pending" /\ p.baseline = b /\ p.after = d
      BY <2>3 DEF Target
  <2>7. d = Plan(p.baseline, journal.policy)
      BY <2>6 DEF d
  <2> HIDE DEF p
  <2>8. CASE /\ SetTarget(g, p)
             /\ op' = [op EXCEPT !.group = g, !.step = IF current # d THEN "mark" ELSE "verify"]
    <3>1. \/ op' = [op EXCEPT !.group = g, !.step = "mark"]
          \/ op' = [op EXCEPT !.group = g, !.step = "verify"]
        BY <2>8
    <3> QED
        BY <1>1, <2>1, <2>3, <2>4, <2>6, <2>7, <2>8, <3>1
  <2> QED
      BY <2>2, <2>5, <2>8
<1>6. CASE PlanRevert(g)
  <2>1. op.kind = "revert"
      BY <1>6 DEF PlanRevert
  <2>2. \/ /\ SetTarget(g, [r EXCEPT !.status = "reverted", !.pending = FALSE])
           /\ op' = [op EXCEPT !.todo = @ \ {g}]
        \/ FailGroup(g, r)
        \/ /\ SetTarget(g, [r EXCEPT !.before = upstream[op.url][g], !.pending = TRUE,
                                     !.status = "pending"])
           /\ op' = [op EXCEPT !.group = g, !.step = "put"]
      BY <1>6 DEF PlanRevert, Settled
  <2>3. CASE /\ SetTarget(g, [r EXCEPT !.status = "reverted", !.pending = FALSE])
             /\ op' = [op EXCEPT !.todo = @ \ {g}]
    <3> DEFINE f == [r EXCEPT !.status = "reverted", !.pending = FALSE]
    <3>1. f.accounts = r.accounts /\ f.baseline = r.baseline /\ f.status = "reverted"
        BY <1>2 DEF Target
    <3>2. op' = [op EXCEPT !.step = "group", !.todo = @ \ {g}]
        BY <1>1, <2>1, <2>3, OpTyped DEF RevertOp
    <3> HIDE DEF f
    <3>3. SetTarget(g, f)
        BY <2>3 DEF f
    <3> QED
        BY <1>1, <2>1, <3>1, <3>2, <3>3 DEF Owners
  <2>4. CASE FailGroup(g, r)
    <3> DEFINE f == [r EXCEPT !.status = "failed"]
    <3>1. f.accounts = r.accounts /\ f.baseline = r.baseline /\ f.status = "failed"
        BY <1>2 DEF Target
    <3>2. SetTarget(g, f) /\ op' = [op EXCEPT !.step = "group", !.todo = @ \ {g}]
        BY <2>4 DEF FailGroup
    <3> HIDE DEF f
    <3> QED
        BY <1>1, <2>1, <3>1, <3>2 DEF Owners
  <2>5. CASE /\ SetTarget(g, [r EXCEPT !.before = upstream[op.url][g], !.pending = TRUE,
                                       !.status = "pending"])
             /\ op' = [op EXCEPT !.group = g, !.step = "put"]
    <3> DEFINE f == [r EXCEPT !.before = upstream[op.url][g], !.pending = TRUE, !.status = "pending"]
    <3>1. f.accounts = r.accounts /\ f.baseline = r.baseline /\ f.status = "pending"
        BY <1>2 DEF Target
    <3> HIDE DEF f
    <3>2. SetTarget(g, f)
        BY <2>5 DEF f
    <3> QED
        BY <1>1, <2>1, <2>5, <3>1, <3>2 DEF Owners
  <2> QED
      BY <2>2, <2>3, <2>4, <2>5
<1> QED
    BY <1>4, <1>5, <1>6

\* The write is answered, or the row is closed as failed.
LEMMA PutSteps ==
    ASSUME IInv, Discipline, Put
    PROVE  /\ op # NoOp /\ op.step = "put" /\ op.group \in Group /\ op.group \in op.todo
           /\ \/ UNCHANGED journal /\ Goto("verify")
              \/ \E t : /\ SetTarget(op.group, t)
                        /\ t.accounts = Owners(op.group) /\ t.status = "failed"
                        /\ t.baseline = journal.targets[op.group].baseline
                        /\ op' = [op EXCEPT !.step = "group", !.todo = @ \ {op.group}]
<1>1. op # NoOp /\ op.step = "put"
    BY DEF Put
<1>2. op.group \in Group /\ op.group \in op.todo
    BY <1>1 DEF IInv, OnTrack, Discipline
<1> DEFINE r == journal.targets[op.group]
           f == [r EXCEPT !.status = "failed"]
<1>3. f.accounts = r.accounts /\ f.status = "failed" /\ f.baseline = r.baseline
    BY <1>2 DEF IInv, Shapes, WellFormed, Target
<1>4. CASE UNCHANGED journal /\ Goto("verify")
    BY <1>1, <1>2, <1>4
<1>5. CASE FailGroup(op.group, r)
  <2>1. SetTarget(op.group, f) /\ op' = [op EXCEPT !.step = "group", !.todo = @ \ {op.group}]
      BY <1>5 DEF FailGroup
  <2> HIDE DEF f
  <2> QED
      BY <1>1, <1>2, <1>3, <2>1 DEF Owners
<1> QED
    BY <1>4, <1>5 DEF Put

\* What is confirmed has been read as wanted.
LEMMA VerifySteps ==
    ASSUME IInv, Discipline, Verify
    PROVE  /\ op # NoOp /\ op.step = "verify" /\ op.group \in Group /\ op.group \in op.todo
           /\ op' = [op EXCEPT !.step = "group", !.todo = @ \ {op.group}]
           /\ \E t : /\ SetTarget(op.group, t)
                     /\ t.accounts = Owners(op.group)
                     /\ t.baseline = journal.targets[op.group].baseline
                     /\ \/ t.status = "failed"
                        \/ t.status = "reverted" /\ op.kind = "revert"
                        \/ /\ t.status = "applied" /\ op.kind = "apply"
                           /\ ReadsGroup(op.group)
                           /\ upstream[op.url][op.group] = journal.targets[op.group].after
<1>1. op # NoOp /\ op.step = "verify"
    BY DEF Verify
<1>2. op.group \in Group /\ op.group \in op.todo
    BY <1>1 DEF IInv, OnTrack, Discipline
<1>3. op' = [op EXCEPT !.step = "group", !.todo = @ \ {op.group}]
    BY DEF Verify, GroupDone
<1> DEFINE r == journal.targets[op.group]
           f == [r EXCEPT !.status = "failed"]
           s == IF op.kind = "apply" THEN "applied" ELSE "reverted"
           c == [r EXCEPT !.status = s, !.pending = FALSE]
<1>4. /\ f.accounts = r.accounts /\ f.status = "failed" /\ f.baseline = r.baseline
      /\ c.accounts = r.accounts /\ c.status = s /\ c.baseline = r.baseline
    BY <1>2 DEF IInv, Shapes, WellFormed, Target
<1>5. \/ SetTarget(op.group, f)
      \/ /\ SetTarget(op.group, c) /\ ReadsGroup(op.group)
         /\ upstream[op.url][op.group] = Wanted
    BY DEF Verify, Settled
<1>6. op.kind = "apply" => Wanted = r.after
    BY DEF Wanted
<1>7. op.kind \in {"apply", "revert"}
    BY <1>1, OpTyped
<1> HIDE DEF f, c
<1> QED
    BY <1>1, <1>2, <1>3, <1>4, <1>5, <1>6, <1>7 DEF Owners

\* While an operation runs, service, policy and revision stay.
LEMMA Steady ==
    ASSUME IInv, Discipline, op # NoOp, [Next]_vars
    PROVE  /\ journal'.url = journal.url /\ connection' = connection
           /\ journal'.policy = journal.policy /\ journal'.selected = journal.selected
           /\ journal'.revision = journal.revision
<1>1. connection' = connection
    BY DEF Next, vars, bounds, service, StepFrame, ReleaseAccounts, ReadAccounts, PlannerFails, MarkChanged,
       SettleAccounts, Stop, EditGroup, LateWrite, ToggleAccount, Sample, MoveAccount, ChangeFrame,
       BeginApply, BeginRevert, Close, ChangeConnection, GroupUnreadable, PlanGroup, PlanRevert, Put, Verify
<1>2. CASE UNCHANGED journal
    BY <1>1, <1>2
<1>3. CASE Close
    BY <1>1, <1>3 DEF Close, IInv, Shapes, Journal
<1>4. ASSUME NEW g \in Group, NEW t, SetTarget(g, t)
      PROVE  /\ journal'.url = journal.url /\ journal'.policy = journal.policy
             /\ journal'.selected = journal.selected /\ journal'.revision = journal.revision
    BY <1>4, RowWritten
<1>5. ASSUME NEW g \in Group, GroupUnreadable(g) \/ PlanGroup(g) \/ PlanRevert(g)
      PROVE  \E t : SetTarget(g, t)
    BY <1>5, GroupSteps
<1>6. CASE Put \/ Verify
  <2>1. UNCHANGED journal \/ \E t : SetTarget(op.group, t)
      BY <1>6, PutSteps, VerifySteps
  <2>2. op.group \in Group
      BY <1>6, PutSteps, VerifySteps
  <2> QED
      BY <1>1, <1>2, <1>4, <2>1, <2>2
<1>7. ~BeginRevert /\ ~\E u \in Url : ChangeConnection(u)
    BY DEF BeginRevert, ChangeConnection
<1>8. ~\E p \in Policy, s \in SUBSET Group, b \in BOOLEAN : BeginApply(p, s, b)
    BY DEF BeginApply
<1> QED
    BY <1>1, <1>2, <1>3, <1>4, <1>5, <1>6, <1>7, <1>8, JournalSteps

\* Rows keep their owners; baselines go only with a revert or another service.
LEMMA RowSteps ==
    ASSUME IInv, Discipline, [Next]_vars, NEW g \in Group, journal.url = connection
    PROVE  /\ Owners(g) \subseteq Owners(g)'
           /\ journal.targets[g].baseline # NoValue /\ journal.targets[g].status # "reverted"
                => journal'.targets[g].baseline = journal.targets[g].baseline
           /\ journal'.targets[g].status = "reverted" =>
                \/ journal.targets[g].status = "reverted"
                \/ op # NoOp /\ op.kind = "revert" /\ op.step # "release" /\ g \in op.targets
<1> DEFINE r == journal.targets[g]
           q == journal'.targets[g]
<1>1. CASE q = r
    BY <1>1 DEF Owners
<1>2. ASSUME NEW h \in Group, NEW t, SetTarget(h, t),
             Owners(h) \subseteq t.accounts,
             journal.targets[h].baseline # NoValue /\ journal.targets[h].status # "reverted"
                            => t.baseline = journal.targets[h].baseline,
             \/ t.status # "reverted"
             \/ op # NoOp /\ op.kind = "revert" /\ op.step # "release" /\ h \in op.targets
      PROVE  /\ r.accounts \subseteq q.accounts
             /\ r.baseline # NoValue /\ r.status # "reverted" => q.baseline = r.baseline
             /\ q.status = "reverted" =>
                \/ r.status = "reverted"
                \/ op # NoOp /\ op.kind = "revert" /\ op.step # "release" /\ g \in op.targets
  <2>1. CASE h = g
    <3>1. q = t
        BY <1>2, <2>1, RowWritten
    <3> QED
        BY <1>2, <2>1, <3>1 DEF Owners
  <2>2. CASE h # g
      BY <1>2, <2>2, RowWritten
  <2> QED
      BY <2>1, <2>2
<1>3. ASSUME NEW h \in Group, GroupUnreadable(h) \/ PlanGroup(h) \/ PlanRevert(h)
      PROVE  /\ r.accounts \subseteq q.accounts
             /\ r.baseline # NoValue /\ r.status # "reverted" => q.baseline = r.baseline
             /\ q.status = "reverted" =>
                \/ r.status = "reverted"
                \/ op # NoOp /\ op.kind = "revert" /\ op.step # "release" /\ g \in op.targets
  <2>1. op # NoOp /\ op.step = "group" /\ h \in op.targets
      BY <1>3, GroupSteps DEF Discipline
  <2>2. PICK t : /\ SetTarget(h, t)
                 /\ Owners(h) \subseteq t.accounts
                 /\ journal.targets[h].baseline # NoValue /\ journal.targets[h].status # "reverted"
                            => t.baseline = journal.targets[h].baseline
                 /\ t.status \in {"failed", "pending"} \/ (t.status = "reverted" /\ op.kind = "revert")
      BY <1>3, GroupSteps
  <2> QED
      BY <1>2, <2>1, <2>2
<1>4. CASE Put
  <2>1. CASE UNCHANGED journal
      BY <1>1, <2>1
  <2>2. ASSUME NEW t, SetTarget(op.group, t), t.accounts = Owners(op.group), t.status = "failed",
               t.baseline = journal.targets[op.group].baseline
        PROVE  /\ r.accounts \subseteq q.accounts
               /\ r.baseline # NoValue /\ r.status # "reverted" => q.baseline = r.baseline
               /\ q.status = "reverted" => r.status = "reverted"
    <3>1. op.group \in Group
        BY <1>4, PutSteps
    <3>2. CASE op.group = g
        BY <2>2, <3>1, <3>2, RowWritten DEF Owners
    <3>3. CASE op.group # g
        BY <2>2, <3>1, <3>3, RowWritten
    <3> QED
        BY <3>2, <3>3
  <2> QED
      BY <1>4, <2>1, <2>2, PutSteps DEF Owners
<1>5. CASE Verify
  <2>1. /\ op # NoOp /\ op.step = "verify" /\ op.group \in Group /\ op.group \in op.targets
        /\ op.kind = "apply" \/ op.kind = "revert"
      BY <1>5, VerifySteps, OpTyped DEF Discipline
  <2>2. PICK t : /\ SetTarget(op.group, t)
                 /\ t.accounts = Owners(op.group)
                 /\ t.baseline = journal.targets[op.group].baseline
                 /\ \/ t.status = "failed"
                    \/ t.status = "reverted" /\ op.kind = "revert"
                    \/ t.status = "applied"
      BY <1>5, VerifySteps
  <2>3. CASE op.group = g
      BY <2>1, <2>2, <2>3, RowWritten DEF Owners
  <2>4. CASE op.group # g
      BY <2>1, <2>2, <2>4, RowWritten DEF Owners
  <2> QED
      BY <2>3, <2>4
<1>6. CASE BeginRevert \/ Close \/ \E u \in Url : ChangeConnection(u)
  <2>1. journal'.targets = journal.targets
      BY <1>6 DEF BeginRevert, Close, ChangeConnection, IInv, Shapes, Journal
  <2> QED
      BY <1>1, <2>1
<1>7. CASE \E p \in Policy, s \in SUBSET Group, b \in BOOLEAN : BeginApply(p, s, b)
  <2>1. journal'.targets = journal.targets
      BY <1>7 DEF BeginApply, IInv, Shapes, Journal
  <2> QED
      BY <1>1, <2>1
<1>8. CASE UNCHANGED journal
    BY <1>1, <1>8
<1> HIDE DEF r, q
<1> QED
    BY <1>1, <1>3, <1>4, <1>5, <1>6, <1>7, <1>8, JournalSteps DEF Owners, r, q

LEMMA LandIs ==
    ASSUME IInv, NEW u \in Url, NEW g \in Group, NEW v, Land(u, g, v)
    PROVE  /\ upstream'[u][g] = v
           /\ \A w \in Url, h \in Group : w # u \/ h # g => upstream'[w][h] = upstream[w][h]
BY DEF Land, IInv, Shapes

\* Prices change when an operator gives new ones, when the running operation
\* writes, and when a lost write lands.
LEMMA PriceSteps ==
    ASSUME IInv, Discipline, [Next]_vars, NEW u \in Url, NEW g \in Group
    PROVE  /\ overtaken => overtaken'
           /\ \/ upstream'[u][g] = upstream[u][g]
              \/ /\ changes' = changes + 1
                 /\ upstream'[u][g].base = changes + 1
              \/ op # NoOp /\ op.step = "put" /\ op.url = u /\ op.group = g
              \/ late[u][g].value # NoValue /\ (overtaken' \/ Unread(u, g))
<1>1. overtaken => overtaken'
    BY DEF Next, vars, bounds, service, StepFrame, ReleaseAccounts, ReadAccounts, PlannerFails, MarkChanged,
       SettleAccounts, Stop, EditGroup, LateWrite, ToggleAccount, Sample, MoveAccount, ChangeFrame,
       BeginApply, BeginRevert, Close, ChangeConnection, GroupUnreadable, PlanGroup, PlanRevert, Put, Verify
<1>2. CASE UNCHANGED upstream
    BY <1>1, <1>2
<1>3. CASE Put \/ Stop
  <2>1. CASE UNCHANGED upstream
      BY <1>1, <2>1
  <2>2. CASE op # NoOp /\ op.step = "put" /\ Land(op.url, op.group, Wanted)
    <3>1. op.url \in Url /\ op.group \in Group
        BY <2>2, OpTyped DEF IInv, OnTrack
    <3>2. \A w \in Url, h \in Group :
            w # op.url \/ h # op.group => upstream'[w][h] = upstream[w][h]
        BY <2>2, <3>1, LandIs
    <3> QED
        BY <1>1, <2>2, <3>2
  <2> QED
      BY <1>3, <2>1, <2>2 DEF Put, Stop
<1>4. ASSUME NEW w \in Url, NEW h \in Group, EditGroup(w, h)
      PROVE  upstream'[u][g] = upstream[u][g]
             \/ (changes' = changes + 1 /\ upstream'[u][g].base = changes + 1)
  <2>1. Land(w, h, [base |-> changes + 1, by |-> <<>>]) /\ changes' = changes + 1
      BY <1>4 DEF EditGroup, Land, Change
  <2>2. CASE w = u /\ h = g
      BY <2>1, <2>2, LandIs
  <2>3. CASE w # u \/ h # g
      BY <2>1, <2>3, LandIs
  <2> QED
      BY <2>2, <2>3
<1>5. ASSUME NEW w \in Url, NEW h \in Group, LateWrite(w, h)
      PROVE  upstream'[u][g] = upstream[u][g]
             \/ (late[u][g].value # NoValue /\ (overtaken' \/ Unread(u, g)))
  <2>1. /\ Land(w, h, late[w][h].value) /\ late[w][h].value # NoValue
        /\ overtaken' = (overtaken \/ late[w][h].read)
      BY <1>5 DEF LateWrite
  <2>2. CASE w = u /\ h = g
      BY <2>1, <2>2 DEF Unread
  <2>3. CASE w # u \/ h # g
      BY <2>1, <2>3, LandIs
  <2> QED
      BY <2>2, <2>3
<1>6. \/ UNCHANGED upstream \/ Put \/ Stop
      \/ \E w \in Url, h \in Group : EditGroup(w, h) \/ LateWrite(w, h)
    BY DEF Next, vars, bounds, service, StepFrame, ReleaseAccounts, ReadAccounts, PlannerFails, MarkChanged,
       SettleAccounts, ToggleAccount, Sample, MoveAccount, ChangeFrame,
       BeginApply, BeginRevert, Close, ChangeConnection, GroupUnreadable, PlanGroup, PlanRevert, Verify
<1> QED
    BY <1>1, <1>2, <1>3, <1>4, <1>5, <1>6

\* A write is unread from the moment its answer is lost until its group is read.
LEMMA UnreadSteps ==
    ASSUME IInv, Discipline, [Next]_vars, NEW u \in Url, NEW g \in Group, Unread(u, g)'
    PROVE  Unread(u, g) \/ (op # NoOp /\ op.step = "put" /\ op.url = u /\ op.group = g)
<1>1. CASE UNCHANGED late
    BY <1>1 DEF Unread
<1>2. CASE (Put \/ Stop) /\ ~UNCHANGED late
  <2>1. op # NoOp /\ op.step = "put" /\ Delay(op.url, op.group, Wanted)
      BY <1>2 DEF Put, Stop
  <2>2. op.url \in Url /\ op.group \in Group
      BY <2>1, OpTyped DEF IInv, OnTrack
  <2>3. u # op.url \/ g # op.group => late'[u][g] = late[u][g]
      BY <2>1, <2>2 DEF Delay, IInv, Shapes
  <2> QED
      BY <2>1, <2>3 DEF Unread
<1>3. ASSUME NEW h \in Group, ReadsGroup(h), op # NoOp
      PROVE  Unread(u, g)
    BY <1>3, GroupRead, OpTyped DEF IInv
<1>4. ASSUME NEW h \in Group, PlanGroup(h) \/ PlanRevert(h)
      PROVE  ReadsGroup(h) /\ op # NoOp
    BY <1>4 DEF PlanGroup, PlanRevert, Chosen
<1>5. CASE Verify
    BY <1>1, <1>3, <1>5, VerifySteps DEF Verify
<1>6. ASSUME NEW w \in Url, NEW h \in Group, LateWrite(w, h)
      PROVE  Unread(u, g)
  <2>1. late' = [late EXCEPT ![w][h] = NoWrite]
      BY <1>6 DEF LateWrite
  <2>2. CASE u = w /\ g = h
    <3>1. late'[u][g] = NoWrite
        BY <2>1, <2>2 DEF IInv, Shapes
    <3> QED
        BY <3>1 DEF Unread, NoWrite
  <2>3. CASE u # w \/ g # h
    <3>1. late'[u][g] = late[u][g]
        BY <2>1, <2>3 DEF IInv, Shapes
    <3> QED
        BY <3>1 DEF Unread
  <2> QED
      BY <2>2, <2>3
<1>7. \/ UNCHANGED late \/ Put \/ Stop \/ Verify
      \/ \E h \in Group : PlanGroup(h) \/ PlanRevert(h)
      \/ \E w \in Url, h \in Group : LateWrite(w, h)
    BY DEF Next, vars, bounds, service, StepFrame, ReleaseAccounts, ReadAccounts, PlannerFails, MarkChanged,
       SettleAccounts, ToggleAccount, Sample, MoveAccount, ChangeFrame, EditGroup,
       BeginApply, BeginRevert, Close, ChangeConnection, GroupUnreadable
<1> QED
    BY <1>1, <1>2, <1>3, <1>4, <1>5, <1>6, <1>7

\* An account strays when it moves, until an operation reads its groups.
LEMMA StraySteps ==
    ASSUME IInv, [Next]_vars, NEW a \in Account, a \notin strayed'
    PROVE  \/ a \notin strayed /\ member'[a] = member[a]
           \/ \E e \in SUBSET Account : ReadAccounts(e) /\ a \in op.accounts
<1>1. ASSUME NEW b \in Account, NEW s \in SUBSET Group, MoveAccount(b, s)
      PROVE  a \notin strayed /\ member'[a] = member[a]
    BY <1>1 DEF MoveAccount, IInv, Shapes
<1>2. ASSUME NEW e \in SUBSET Account, ReadAccounts(e)
      PROVE  (a \notin strayed \/ a \in op.accounts) /\ member' = member
    BY <1>2 DEF ReadAccounts, StepFrame
<1>3. \/ UNCHANGED <<strayed, member>>
      \/ \E e \in SUBSET Account : ReadAccounts(e)
      \/ \E b \in Account, s \in SUBSET Group : MoveAccount(b, s)
    BY DEF Next, vars, bounds, service, StepFrame, ReleaseAccounts, PlannerFails, MarkChanged,
       SettleAccounts, Stop, EditGroup, LateWrite, ToggleAccount, Sample, ChangeFrame,
       BeginApply, BeginRevert, Close, ChangeConnection, GroupUnreadable, PlanGroup, PlanRevert, Put, Verify
<1> QED
    BY <1>1, <1>2, <1>3

LEMMA UnappliedIs ==
    ASSUME IInv, NEW S, accounts' = Unapplied(S), NEW a \in Account
    PROVE  /\ a \in S => ~accounts'[a].applied
           /\ a \notin S => accounts'[a] = accounts[a]
BY DEF Unapplied, IInv, Shapes, AccountRow

LEMMA SettledIs ==
    ASSUME IInv, SettleAccounts, NEW a \in Account
    PROVE  /\ op # NoOp /\ op.kind = "apply"
           /\ op.step = "settle" \/ (op.step = "group" /\ op.todo = {})
           /\ a \notin op.accounts => accounts'[a] = accounts[a]
           /\ a \in op.accounts =>
                /\ accounts'[a].applied = Confirmed(a)
                /\ KeepsEpoch(a) => accounts'[a].epoch = op.previous[a].epoch
                /\ ~KeepsEpoch(a) => accounts'[a].epoch.number = journal.revision
<1> DEFINE e == IF KeepsEpoch(a) THEN op.previous[a].epoch
                ELSE [of |-> IF Confirmed(a) THEN "applied" ELSE "none", number |-> journal.revision]
           c == Confirmed(a)
<1>1. op # NoOp /\ op.kind = "apply" /\ (op.step = "settle" \/ (op.step = "group" /\ op.todo = {}))
    BY DEF SettleAccounts
<1>2. accounts'[a] = IF a \notin op.accounts THEN accounts[a]
                     ELSE [accounts[a] EXCEPT !.applied = c, !.epoch = e]
    BY DEF SettleAccounts
<1>3. accounts[a] \in AccountRow
    BY DEF IInv, Shapes
<1> HIDE DEF c, e
<1>4. a \in op.accounts => accounts'[a].applied = c /\ accounts'[a].epoch = e
    BY <1>2, <1>3 DEF AccountRow
<1>5. ~KeepsEpoch(a) => e.number = journal.revision
    BY DEF e
<1>6. KeepsEpoch(a) => e = op.previous[a].epoch
    BY DEF e
<1> QED
    BY <1>1, <1>2, <1>4, <1>5, <1>6 DEF c

\* Only SettleAccounts confirms, and only it gives a confirmed epoch.
LEMMA ConfirmSteps ==
    ASSUME IInv, [Next]_vars, NEW a \in Account, accounts'[a].applied
    PROVE  /\ ~\E u \in Url : ChangeConnection(u)
           /\ \/ accounts[a].applied /\ accounts'[a].epoch = accounts[a].epoch
              \/ SettleAccounts /\ a \in op.accounts /\ Confirmed(a)
<1>1. ~\E u \in Url : ChangeConnection(u)
  <2> SUFFICES ASSUME NEW u \in Url, ChangeConnection(u) PROVE ~accounts'[a].applied
      OBVIOUS
  <2> DEFINE e == [of |-> "connection", number |-> changes]
  <2>1. accounts'[a] = [accounts[a] EXCEPT !.applied = FALSE, !.epoch = e]
      BY DEF ChangeConnection
  <2> HIDE DEF e
  <2> QED
      BY <2>1 DEF IInv, Shapes, AccountRow
<1>2. CASE accounts'[a] = accounts[a]
    BY <1>1, <1>2
<1>3. ASSUME NEW S, accounts' = Unapplied(S)
      PROVE  accounts'[a] = accounts[a]
    BY <1>3, UnappliedIs
<1>4. ASSUME NEW b \in Account, ToggleAccount(b)
      PROVE  accounts[a].applied /\ accounts'[a].epoch = accounts[a].epoch
  <2>1. accounts' = [accounts EXCEPT ![b] = [accounts[b] EXCEPT !.enabled = ~accounts[b].enabled]]
      BY <1>4 DEF ToggleAccount, IInv, Shapes
  <2>2. accounts[a] \in AccountRow
      BY DEF IInv, Shapes
  <2> QED
      BY <2>1, <2>2 DEF IInv, Shapes, AccountRow
<1>5. CASE SettleAccounts
    BY <1>1, <1>2, <1>5, SettledIs
<1>6. (ReleaseAccounts \/ MarkChanged) => \E S : accounts' = Unapplied(S)
    BY DEF ReleaseAccounts, MarkChanged
<1>7. \/ UNCHANGED accounts \/ ReleaseAccounts \/ MarkChanged \/ SettleAccounts
      \/ \E b \in Account : ToggleAccount(b)
      \/ \E u \in Url : ChangeConnection(u)
    BY DEF Next, vars, bounds, service, StepFrame, ReadAccounts, PlannerFails,
       Stop, EditGroup, LateWrite, Sample, MoveAccount, ChangeFrame,
       BeginApply, BeginRevert, Close, GroupUnreadable, PlanGroup, PlanRevert, Put, Verify
<1> QED
    BY <1>1, <1>2, <1>3, <1>4, <1>5, <1>6, <1>7

-----------------------------------------------------------------------------
(* What is confirmed *)

\* Nobody in the group is confirmed when its prices are written.
LEMMA PutReleased ==
    ASSUME IInv, Discipline, Planned, op # NoOp, op.step = "put"
    PROVE  /\ op.group \in Group /\ Released(Owners(op.group))
<1>1. op.group \in Group /\ op.kind \in {"apply", "revert"}
    BY OpTyped DEF IInv, OnTrack
<1>2. CASE op.kind = "apply"
    BY <1>1, <1>2 DEF Planned
<1>3. CASE op.kind = "revert"
  <2>1. Owners(op.group) \subseteq op.accounts /\ Released(op.accounts)
      BY <1>3 DEF Discipline
  <2> QED
      BY <1>1, <2>1 DEF Released
<1> QED
    BY <1>1, <1>2, <1>3

\* The owners of a group in which an account stays confirmed.
LEMMA RecordedStays ==
    ASSUME IInv, Discipline, Planned, [Next]_vars, NEW a \in Account, NEW g \in Group,
           Recorded(a, g), ~\E u \in Url : ChangeConnection(u),
           ~(op # NoOp /\ op.step = "put" /\ op.group = g)
    PROVE  Recorded(a, g)'
<1>1. journal.url = connection /\ a \in Owners(g) /\ ~Unread(connection, g) /\ connection \in Url
    BY DEF Recorded, IInv, Shapes
<1>2. connection' = connection
    BY DEF Next, vars, bounds, service, StepFrame, ReleaseAccounts, ReadAccounts, PlannerFails, MarkChanged,
       SettleAccounts, Stop, EditGroup, LateWrite, ToggleAccount, Sample, MoveAccount, ChangeFrame,
       BeginApply, BeginRevert, Close, GroupUnreadable, PlanGroup, PlanRevert, Put, Verify
<1>3. journal'.url = journal.url
  <2>1. CASE op # NoOp
      BY <2>1, Steady
  <2>2. CASE op = NoOp
    <3>1. ~Close /\ ~Put /\ ~Verify
        BY <2>2 DEF Close, Put, Verify
    <3>2. ~\E h \in Group : GroupUnreadable(h) \/ PlanGroup(h) \/ PlanRevert(h)
        BY <2>2, GroupSteps
    <3>3. BeginRevert => journal'.url = journal.url
        BY DEF BeginRevert, IInv, Shapes, Journal
    <3>4. (\E p \in Policy, s \in SUBSET Group, b \in BOOLEAN : BeginApply(p, s, b))
            => journal'.url = connection
        BY DEF BeginApply, IInv, Shapes, Journal
    <3> QED
        BY <1>1, <3>1, <3>2, <3>3, <3>4, JournalSteps
  <2> QED
      BY <2>1, <2>2
<1>4. a \in Owners(g)'
    BY <1>1, RowSteps
<1>5. ~Unread(connection, g)'
  <2>1. ~Unread(connection, g)' <=> ~(late'[connection'][g].value # NoValue /\ ~late'[connection'][g].read)
      BY DEF Unread
  <2>2. ASSUME late'[connection][g].value # NoValue, ~late'[connection][g].read
        PROVE  FALSE
    <3> DEFINE c == connection
    <3>1. c \in Url /\ late'[c][g].value # NoValue /\ ~late'[c][g].read
        BY <1>1, <2>2
    <3>2. \A u \in Url : Unread(u, g)' =>
            Unread(u, g) \/ (op # NoOp /\ op.step = "put" /\ op.url = u /\ op.group = g)
        BY UnreadSteps
    <3>3. \A u \in Url : u = c => ~(late'[u][g].value # NoValue /\ ~late'[u][g].read)
        BY <1>1, <3>2 DEF Unread
    <3> QED
        BY <3>1, <3>3
  <2> QED
      BY <1>2, <2>1, <2>2
<1> QED
    BY <1>1, <1>2, <1>3, <1>4, <1>5 DEF Recorded

\* Of the accounts a confirmation is for, and the group it rests on.
LEMMA ConfirmedIsDone ==
    ASSUME IInv, Discipline, Planned, AllDone, SettleAccounts, NEW a \in Account, a \in op.accounts,
           Confirmed(a), a \notin strayed, NEW g \in member[a]
    PROVE  /\ Recorded(a, g)
           /\ journal.targets[g].baseline # NoValue /\ journal.targets[g].status = "applied"
           /\ ~overtaken => HasRules(g)
<1>1. op # NoOp /\ op.kind = "apply" /\ (op.step = "settle" \/ (op.step = "group" /\ op.todo = {}))
    BY SettledIs
<1>2. /\ journal.policy # NoRules /\ a \notin op.errors
      /\ \A h \in op.groups[a] : h \in journal.selected /\ journal.targets[h].status = "applied"
    BY DEF Confirmed
<1>3. op.step = "group" /\ op.todo = {}
    BY <1>1, <1>2 DEF Planned
<1>4. op.groups[a] = member[a] /\ op.targets = journal.selected
    BY <1>1, <1>2, <1>3 DEF Planned
<1>5. g \in op.targets /\ journal.targets[g].status = "applied"
    BY <1>2, <1>4
<1>6. DoneWith(g)
    BY <1>1, <1>3, <1>5 DEF AllDone
<1>7. journal.url = connection
    BY <1>1, OpTyped
<1> QED
    BY <1>2, <1>4, <1>5, <1>6, <1>7 DEF DoneWith, OwnersFound, Recorded

LEMMA ConfirmedRowsStep ==
    ASSUME IInv, CInv, [Next]_vars
    PROVE  ConfirmedRows'
<1>1. ConfirmedRows /\ Discipline /\ Planned /\ AllDone
    BY DEF CInv
<1> SUFFICES ASSUME NEW a \in Account, a \notin strayed', accounts'[a].applied, NEW g \in member'[a]
             PROVE  /\ Recorded(a, g)'
                    /\ journal'.targets[g].baseline # NoValue
                    /\ journal'.targets[g].status # "reverted"
                    /\ ~overtaken' => HasRules(g)'
    BY DEF ConfirmedRows
<1>2. CASE SettleAccounts /\ a \in op.accounts /\ Confirmed(a)
  <2>1. UNCHANGED <<upstream, late, overtaken, strayed, member, connection, journal>>
      BY <1>2 DEF SettleAccounts, service, StepFrame
  <2>2. a \notin strayed /\ g \in member[a]
      BY <2>1
  <2>3. /\ Recorded(a, g)
        /\ journal.targets[g].baseline # NoValue /\ journal.targets[g].status = "applied"
        /\ ~overtaken => HasRules(g)
      BY <1>1, <1>2, <2>2, ConfirmedIsDone
  <2> QED
      BY <2>1, <2>3 DEF Recorded, HasRules, Owners, Unread
<1>3. CASE accounts[a].applied
  <2>1. a \notin strayed /\ member'[a] = member[a]
    <3>1. ASSUME NEW e \in SUBSET Account, ReadAccounts(e), a \in op.accounts
          PROVE  FALSE
      <4>1. op # NoOp /\ op.step = "accounts"
          BY <3>1 DEF ReadAccounts, Running, NoOp
      <4> QED
          BY <1>1, <1>3, <3>1, <4>1 DEF Discipline, Released
    <3> QED
        BY <3>1, StraySteps
  <2>2. g \in Group /\ g \in member[a] /\ connection \in Url
      BY <2>1 DEF IInv, Shapes
  <2> DEFINE r == journal.targets[g]
  <2>3. /\ Recorded(a, g) /\ r.baseline # NoValue /\ r.status # "reverted"
        /\ ~overtaken => HasRules(g)
      BY <1>1, <1>3, <2>1, <2>2 DEF ConfirmedRows
  <2>4. ~\E u \in Url : ChangeConnection(u)
      BY ConfirmSteps
  <2>5. ~(op # NoOp /\ op.step = "put" /\ op.group = g)
      BY <1>1, <1>3, <2>3, PutReleased DEF Recorded, Released
  <2>6. Recorded(a, g)'
      BY <1>1, <2>2, <2>3, <2>4, <2>5, RecordedStays
  <2>7. journal'.targets[g].baseline = r.baseline /\ journal'.targets[g].status # "reverted"
    <3>1. journal.url = connection
        BY <2>3 DEF Recorded
    <3>2. ~(op # NoOp /\ op.kind = "revert" /\ op.step # "release" /\ g \in op.targets)
        BY <1>1, <1>3, <2>3 DEF Discipline, Released, Recorded
    <3> QED
        BY <1>1, <2>2, <2>3, <3>1, <3>2, RowSteps
  <2>8. ASSUME ~overtaken'
        PROVE  HasRules(g)'
    <3>1. connection' = connection
        BY <2>3, <2>6, <2>4 DEF Next, vars, bounds, service, StepFrame, ReleaseAccounts, ReadAccounts,
           PlannerFails, MarkChanged, SettleAccounts, Stop, EditGroup, LateWrite, ToggleAccount, Sample,
           MoveAccount, ChangeFrame, BeginApply, BeginRevert, Close, GroupUnreadable, PlanGroup,
           PlanRevert, Put, Verify
    <3>2. ~overtaken /\ HasRules(g)
        BY <1>1, <2>2, <2>3, <2>8, PriceSteps
    <3>3. \/ upstream'[connection][g] = upstream[connection][g]
          \/ upstream'[connection][g].base = changes + 1
        BY <1>1, <2>2, <2>3, <2>5, <2>8, PriceSteps DEF Recorded
    <3>4. r.baseline.base <= changes /\ changes \in Nat /\ r.baseline.base \in Nat
        BY <2>2, <2>3 DEF IInv, BasesBelow, Shapes, WellFormed, Target, Value
    <3>5. r.baseline.base # changes + 1
        BY <3>4
    <3> QED
        BY <2>7, <3>1, <3>2, <3>3, <3>5 DEF HasRules
  <2> QED
      BY <2>3, <2>6, <2>7, <2>8
<1> QED
    BY <1>2, <1>3, ConfirmSteps

-----------------------------------------------------------------------------
(* How an operation goes on *)

\* The steps that belong to no operation leave the running one alone.
LEMMA OpSteps ==
    ASSUME IInv, Discipline, [Next]_vars, op # NoOp, op' # NoOp
    PROVE  \/ UNCHANGED <<op, journal, accounts, connection, kept>>
           \/ ReleaseAccounts
           \/ \E e \in SUBSET Account : ReadAccounts(e)
           \/ PlannerFails
           \/ \E g \in Group : GroupUnreadable(g) \/ PlanGroup(g) \/ PlanRevert(g)
           \/ MarkChanged \/ Put \/ Verify \/ SettleAccounts
BY DEF Next, vars, bounds, service, EditGroup, LateWrite, ToggleAccount, Sample, MoveAccount, ChangeFrame,
   BeginApply, BeginRevert, ChangeConnection, Close, Stop

\* The operation keeps what it is and for whom; its queue only gets shorter.
OpKept ==
    /\ op' # NoOp /\ op'.kind = op.kind /\ op'.url = op.url
    /\ op'.todo \subseteq op.todo /\ op'.targets = op.targets /\ op'.accounts = op.accounts
    /\ op.kind = "apply" => op'.previous = op.previous /\ op.changed \subseteq op'.changed

LEMMA ReleaseIs ==
    ASSUME IInv, ReleaseAccounts
    PROVE  /\ op # NoOp /\ op.step = "release" /\ OpKept
           /\ op'.step = (IF op.kind = "apply" THEN "accounts" ELSE "group")
           /\ op'.todo = op.todo /\ accounts' = Unapplied(op.accounts)
           /\ op.kind = "apply" => op'.errors = op.errors /\ op'.changed = op.changed
           /\ UNCHANGED <<service, journal, connection, kept>>
<1>1. op # NoOp /\ op.step = "release"
    BY DEF ReleaseAccounts
<1> DEFINE s == IF op.kind = "apply" THEN "accounts" ELSE "group"
<1>2. Goto(s) /\ s \in StepName
    BY DEF ReleaseAccounts, StepName
<1> HIDE DEF s
<1>3. /\ op' # NoOp /\ op'.step = s /\ op'.kind = op.kind /\ op'.url = op.url
      /\ op'.todo = op.todo /\ op'.targets = op.targets /\ op'.group = op.group
      /\ op'.accounts = op.accounts
      /\ op.kind = "apply" => /\ op'.previous = op.previous /\ op'.groups = op.groups
                              /\ op'.errors = op.errors /\ op'.changed = op.changed
    BY <1>1, <1>2, StepTaken
<1> QED
    BY <1>1, <1>3 DEF ReleaseAccounts, StepFrame, OpKept, s

LEMMA ReadAccountsIs ==
    ASSUME IInv, NEW e, ReadAccounts(e)
    PROVE  /\ op # NoOp /\ op.kind = "apply" /\ op.step = "accounts" /\ OpKept
           /\ op'.step = "group" /\ op'.todo = op.todo
           /\ \A a \in op.accounts : a \notin op'.errors => op'.groups[a] = member[a]
           /\ op'.changed = op.changed
           /\ UNCHANGED <<upstream, late, overtaken, journal, accounts, connection, member, kept>>
           /\ strayed' \cup (op.accounts \ op'.errors) = strayed \cup (op.accounts \ op'.errors)
<1>1. op # NoOp /\ op.kind = "apply" /\ op.step = "accounts"
    BY DEF ReadAccounts, Running, NoOp
<1> DEFINE gs == [a \in op.accounts |-> IF a \in e THEN {} ELSE member[a]]
<1>2. op' = [op EXCEPT !.step = "group", !.errors = e, !.groups = gs] /\ op \in ApplyOp
    BY <1>1, OpTyped DEF ReadAccounts
<1>3. \A a \in op.accounts : a \notin e => gs[a] = member[a]
    OBVIOUS
<1> HIDE DEF gs
<1>4. /\ op'.step = "group" /\ op'.errors = e /\ op'.groups = gs /\ op'.kind = op.kind
      /\ op'.url = op.url /\ op'.todo = op.todo /\ op'.targets = op.targets
      /\ op'.accounts = op.accounts /\ op'.previous = op.previous /\ op'.changed = op.changed
    BY <1>2 DEF ApplyOp
<1>5. op' # NoOp
    BY <1>1, <1>4 DEF NoOp
<1>6. /\ UNCHANGED <<upstream, late, overtaken, journal, accounts, connection, member, kept>>
      /\ strayed' = strayed \ (op.accounts \ e)
    BY DEF ReadAccounts, StepFrame
<1> QED
    BY <1>1, <1>3, <1>4, <1>5, <1>6 DEF OpKept

LEMMA PlannerFailsIs ==
    ASSUME IInv, PlannerFails
    PROVE  /\ op # NoOp /\ op.kind = "apply" /\ op.step = "accounts" /\ OpKept
           /\ op'.step = "settle" /\ op'.todo = op.todo /\ op'.errors = op.accounts
           /\ op'.changed = op.changed
           /\ UNCHANGED <<service, journal, accounts, connection, kept>>
<1>1. op # NoOp /\ op.kind = "apply" /\ op.step = "accounts"
    BY DEF PlannerFails, Running, NoOp
<1>2. op' = [op EXCEPT !.step = "settle", !.errors = op.accounts] /\ op \in ApplyOp
    BY <1>1, OpTyped DEF PlannerFails
<1>3. /\ op'.step = "settle" /\ op'.errors = op.accounts /\ op'.kind = op.kind
      /\ op'.url = op.url /\ op'.todo = op.todo /\ op'.targets = op.targets
      /\ op'.accounts = op.accounts /\ op'.previous = op.previous /\ op'.changed = op.changed
    BY <1>2 DEF ApplyOp
<1>4. op' # NoOp
    BY <1>1, <1>3 DEF NoOp
<1> QED
    BY <1>1, <1>3, <1>4 DEF OpKept, PlannerFails, StepFrame

LEMMA MarkChangedIs ==
    ASSUME IInv, MarkChanged
    PROVE  /\ op # NoOp /\ op.kind = "apply" /\ op.step = "mark" /\ op.group \in Group /\ OpKept
           /\ op'.step = "put" /\ op'.todo = op.todo /\ op'.group = op.group
           /\ op'.groups = op.groups /\ op'.errors = op.errors
           /\ Owners(op.group) \subseteq op'.changed
           /\ accounts' = Unapplied(Owners(op.group))
           /\ UNCHANGED <<service, journal, connection, kept>>
<1>1. op # NoOp /\ op.kind = "apply" /\ op.step = "mark" /\ op.group \in Group
    BY DEF MarkChanged, Running, NoOp, IInv, OnTrack
<1>2. op' = [op EXCEPT !.step = "put", !.changed = op.changed \cup Owners(op.group)] /\ op \in ApplyOp
    BY <1>1, OpTyped DEF MarkChanged, Owners, ApplyOp
<1>3. /\ op'.step = "put" /\ op'.errors = op.errors /\ op'.kind = op.kind
      /\ op'.url = op.url /\ op'.todo = op.todo /\ op'.targets = op.targets
      /\ op'.accounts = op.accounts /\ op'.previous = op.previous /\ op'.group = op.group
      /\ op'.groups = op.groups /\ op'.changed = op.changed \cup Owners(op.group)
    BY <1>2 DEF ApplyOp
<1>4. op' # NoOp
    BY <1>1, <1>3 DEF NoOp
<1> QED
    BY <1>1, <1>3, <1>4 DEF OpKept, MarkChanged, StepFrame, Owners

LEMMA GroupTaken ==
    ASSUME IInv, op # NoOp, NEW g \in Group, NEW s \in StepName,
           op' = [op EXCEPT !.group = g, !.step = s]
    PROVE  /\ OpKept /\ op'.step = s /\ op'.group = g /\ op'.todo = op.todo
           /\ op.kind = "apply" => /\ op'.groups = op.groups /\ op'.errors = op.errors
                                   /\ op'.changed = op.changed
<1>1. op.kind \in {"apply", "revert"} /\ NoOp.kind = "none"
    BY OpTyped DEF NoOp
<1>2. CASE op.kind = "apply"
  <2>1. op \in ApplyOp
      BY <1>2, OpTyped
  <2>2. /\ op'.step = s /\ op'.group = g /\ op'.kind = "apply"
        /\ op'.url = op.url /\ op'.todo = op.todo /\ op'.targets = op.targets
        /\ op'.accounts = op.accounts /\ op'.previous = op.previous
        /\ op'.groups = op.groups /\ op'.errors = op.errors /\ op'.changed = op.changed
      BY <1>2, <2>1 DEF ApplyOp
  <2> QED
      BY <1>1, <1>2, <2>2 DEF OpKept
<1>3. CASE op.kind = "revert"
  <2>1. op \in RevertOp
      BY <1>3, OpTyped
  <2>2. /\ op'.step = s /\ op'.group = g /\ op'.kind = "revert"
        /\ op'.url = op.url /\ op'.todo = op.todo /\ op'.targets = op.targets
        /\ op'.accounts = op.accounts
      BY <1>3, <2>1 DEF RevertOp
  <2> QED
      BY <1>1, <1>3, <2>2 DEF OpKept
<1> QED
    BY <1>1, <1>2, <1>3

\* One operation, from step to step.
LEMMA GoesOn ==
    ASSUME IInv, Discipline, [Next]_vars, op # NoOp, op' # NoOp
    PROVE  /\ OpKept
           /\ op'.step = "release" => op.step = "release"
           /\ op'.step = "close" => op.step = "close" \/ SettleAccounts
           /\ op'.step # op.step /\ op.step = "release" => ReleaseAccounts
           /\ op'.step \in {"mark", "put", "verify"} =>
                \/ op'.group = op.group /\ op'.todo = op.todo /\ op.step \in {"mark", "put", "verify"}
                \/ op'.group \in op.todo /\ op'.todo = op.todo
           /\ op.kind = "revert" /\ op.step \in {"release", "group", "put", "verify"}
                => op'.step \in {"release", "group", "put", "verify"}
           /\ op.kind = "apply" =>
                \/ op'.groups = op.groups /\ op'.errors = op.errors
                \/ \E e \in SUBSET Account : ReadAccounts(e)
                \/ PlannerFails
<1> DEFINE Goes == /\ OpKept
                   /\ op'.step = "release" => op.step = "release"
                   /\ op'.step = "close" => op.step = "close" \/ SettleAccounts
                   /\ op'.step # op.step /\ op.step = "release" => ReleaseAccounts
                   /\ op'.step \in {"mark", "put", "verify"} =>
                        \/ op'.group = op.group /\ op'.todo = op.todo /\ op.step \in {"mark", "put", "verify"}
                        \/ op'.group \in op.todo /\ op'.todo = op.todo
                   /\ op.kind = "revert" /\ op.step \in {"release", "group", "put", "verify"}
                        => op'.step \in {"release", "group", "put", "verify"}
                   /\ op.kind = "apply" =>
                        \/ op'.groups = op.groups /\ op'.errors = op.errors
                        \/ \E e \in SUBSET Account : ReadAccounts(e)
                        \/ PlannerFails
<1> SUFFICES Goes
    OBVIOUS
<1>1. CASE UNCHANGED op
    BY <1>1 DEF OpKept
<1>2. CASE ReleaseAccounts
  <2>1. op.kind = "apply" => op'.groups = op.groups /\ op'.errors = op.errors
    <3>1. op # NoOp /\ op.step = "release"
        BY <1>2, ReleaseIs
    <3>2. CASE op.kind = "apply"
      <4>1. Goto("accounts") /\ "accounts" \in StepName
          BY <1>2, <3>2 DEF ReleaseAccounts, StepName
      <4> QED
          BY <3>1, <3>2, <4>1, StepTaken
    <3> QED
        BY <3>2
  <2>2. /\ op.step = "release" /\ OpKept /\ op'.step \in {"accounts", "group"}
        /\ op.kind = "revert" => op'.step = "group"
      BY <1>2, ReleaseIs
  <2> QED
      BY <1>2, <2>1, <2>2
<1>3. ASSUME NEW e \in SUBSET Account, ReadAccounts(e)
      PROVE  Goes
  <2>1. op.step = "accounts" /\ OpKept /\ op'.step = "group" /\ op.kind = "apply"
      BY <1>3, ReadAccountsIs
  <2> QED
      BY <1>3, <2>1
<1>4. CASE PlannerFails
  <2>1. op.step = "accounts" /\ OpKept /\ op'.step = "settle" /\ op.kind = "apply"
      BY <1>4, PlannerFailsIs
  <2> QED
      BY <1>4, <2>1
<1>5. ASSUME NEW g, op' = [op EXCEPT !.step = "group", !.todo = @ \ {g}], op.step # "release"
      PROVE  Goes
  <2>1. /\ op'.step = "group" /\ op'.kind = op.kind /\ op'.url = op.url
        /\ op'.todo = op.todo \ {g} /\ op'.targets = op.targets
        /\ op'.accounts = op.accounts
        /\ op.kind = "apply" => /\ op'.previous = op.previous /\ op'.groups = op.groups
                                /\ op'.errors = op.errors /\ op'.changed = op.changed
      BY <1>5, GroupLeft
  <2> QED
      BY <1>5, <2>1 DEF OpKept
<1>6. ASSUME NEW g \in Group, NEW s \in {"mark", "put", "verify"}, op.step = "group", g \in op.todo,
             op' = [op EXCEPT !.group = g, !.step = s],
             op.kind = "revert" => s = "put"
      PROVE  Goes
  <2>1. s \in StepName
      BY DEF StepName
  <2>2. /\ OpKept /\ op'.step = s /\ op'.group = g /\ op'.todo = op.todo
        /\ op.kind = "apply" => op'.groups = op.groups /\ op'.errors = op.errors
      BY <1>6, <2>1, GroupTaken
  <2> QED
      BY <1>6, <2>2
<1>7. ASSUME NEW g \in Group, GroupUnreadable(g) \/ PlanGroup(g) \/ PlanRevert(g)
      PROVE  Goes
  <2>1. op.step = "group" /\ g \in op.todo
      BY <1>7, GroupSteps
  <2>2. \/ op' = [op EXCEPT !.step = "group", !.todo = @ \ {g}]
        \/ op.kind = "revert" /\ op' = [op EXCEPT !.group = g, !.step = "put"]
        \/ op.kind = "apply" /\ op' = [op EXCEPT !.group = g, !.step = "mark"]
        \/ op.kind = "apply" /\ op' = [op EXCEPT !.group = g, !.step = "verify"]
      BY <1>7, GroupSteps
  <2> HIDE DEF Goes
  <2> QED
      BY <1>5, <1>6, <2>1, <2>2
<1>8. CASE MarkChanged
  <2>1. /\ op.kind = "apply" /\ op.step = "mark" /\ OpKept
        /\ op'.step = "put" /\ op'.todo = op.todo /\ op'.group = op.group
        /\ op'.groups = op.groups /\ op'.errors = op.errors
      BY <1>8, MarkChangedIs
  <2> QED
      BY <2>1
<1>9. CASE Put
  <2>1. CASE Goto("verify")
    <3>1. "verify" \in StepName
        BY DEF StepName
    <3>2. /\ op'.step = "verify" /\ op'.kind = op.kind /\ op'.url = op.url
          /\ op'.todo = op.todo /\ op'.targets = op.targets /\ op'.group = op.group
          /\ op'.accounts = op.accounts
          /\ op.kind = "apply" => /\ op'.previous = op.previous /\ op'.groups = op.groups
                                  /\ op'.errors = op.errors /\ op'.changed = op.changed
        BY <2>1, <3>1, StepTaken
    <3>3. op.step = "put"
        BY <1>9, PutSteps
    <3> QED
        BY <3>2, <3>3 DEF OpKept
  <2>2. op.step = "put" /\ (Goto("verify") \/ op' = [op EXCEPT !.step = "group", !.todo = @ \ {op.group}])
      BY <1>9, PutSteps
  <2> HIDE DEF Goes
  <2> QED
      BY <1>5, <2>1, <2>2
<1>10. CASE Verify
    BY <1>5, <1>10, VerifySteps
<1>11. CASE SettleAccounts
  <2>1. Goto("close") /\ "close" \in StepName
      BY <1>11 DEF SettleAccounts, StepName
  <2>2. op.kind = "apply" /\ op.step \in {"group", "settle"}
      BY <1>11 DEF SettleAccounts
  <2>3. /\ op'.step = "close" /\ op'.kind = op.kind /\ op'.url = op.url
        /\ op'.todo = op.todo /\ op'.targets = op.targets /\ op'.group = op.group
        /\ op'.accounts = op.accounts
        /\ op'.previous = op.previous /\ op'.groups = op.groups
        /\ op'.errors = op.errors /\ op'.changed = op.changed
      BY <2>1, <2>2, StepTaken
  <2> QED
      BY <1>11, <2>2, <2>3 DEF OpKept
<1> HIDE DEF Goes
<1> QED
    BY <1>1, <1>2, <1>3, <1>4, <1>7, <1>8, <1>9, <1>10, <1>11, OpSteps

LEMMA BeginApplyIs ==
    ASSUME IInv, NEW p \in Policy, NEW s \in SUBSET Group, NEW b \in BOOLEAN, BeginApply(p, s, b)
    PROVE  /\ op = NoOp /\ op' # NoOp /\ op'.kind = "apply" /\ op'.step = "release"
           /\ op'.todo = s /\ op'.targets = s /\ op'.accounts \subseteq Account
           /\ \A a \in op'.accounts : op'.previous[a] = accounts[a]
           /\ journal'.selected = s /\ journal'.revision = journal.revision + 1
           /\ UNCHANGED <<service, connection, accounts, kept, changes>>
<1> DEFINE enabled == {a \in Account : accounts[a].enabled}
           o == [kind |-> "apply", step |-> "release", url |-> connection,
                 todo |-> s, targets |-> s, group |-> 0,
                 accounts |-> enabled,
                 previous |-> [a \in enabled |-> accounts[a]],
                 groups |-> [a \in enabled |-> {}],
                 errors |-> {}, changed |-> {}]
<1>1. op = NoOp /\ op' = o /\ UNCHANGED <<service, connection, accounts, kept, changes>>
    BY DEF BeginApply
<1>2. /\ o.kind = "apply" /\ o.step = "release" /\ o.todo = s /\ o.targets = s
      /\ o.accounts = enabled /\ \A a \in enabled : o.previous[a] = accounts[a]
    OBVIOUS
<1>3. o # NoOp
    BY <1>2 DEF NoOp
<1>4. journal'.selected = s /\ journal'.revision = journal.revision + 1
    BY DEF BeginApply, IInv, Shapes, Journal
<1> HIDE DEF o
<1> QED
    BY <1>1, <1>2, <1>3, <1>4

LEMMA BeginRevertIs ==
    ASSUME IInv, BeginRevert
    PROVE  /\ op = NoOp /\ op' # NoOp /\ op'.kind = "revert" /\ op'.step = "release"
           /\ op'.todo \subseteq Group /\ op'.targets = op'.todo
           /\ \A g \in op'.targets : Owners(g) \subseteq op'.accounts
           /\ journal'.targets = journal.targets /\ journal'.revision = journal.revision + 1
           /\ UNCHANGED <<service, connection, accounts, kept, changes>>
<1> DEFINE targets == {g \in Group : NeedsRevert(journal.targets[g])}
           o == [kind |-> "revert", step |-> "release", url |-> connection,
                 todo |-> targets, targets |-> targets, group |-> 0,
                 accounts |-> UNION {journal.targets[g].accounts : g \in targets}]
<1>1. op = NoOp /\ op' = o /\ UNCHANGED <<service, connection, accounts, kept, changes>>
    BY DEF BeginRevert
<1>2. /\ o.kind = "revert" /\ o.step = "release" /\ o.todo = targets /\ o.targets = targets
      /\ \A g \in targets : journal.targets[g].accounts \subseteq o.accounts
    OBVIOUS
<1>3. o # NoOp
    BY <1>2 DEF NoOp
<1>4. journal'.targets = journal.targets /\ journal'.revision = journal.revision + 1
    BY DEF BeginRevert, IInv, Shapes, Journal
<1> HIDE DEF o
<1> QED
    BY <1>1, <1>2, <1>3, <1>4 DEF Owners

\* An operation begins with one of two steps.
LEMMA Begins ==
    ASSUME IInv, [Next]_vars, op = NoOp, op' # NoOp
    PROVE  BeginRevert \/ \E p \in Policy, s \in SUBSET Group, b \in BOOLEAN : BeginApply(p, s, b)
BY DEF Next, vars, bounds, service, EditGroup, LateWrite, ToggleAccount, Sample, MoveAccount, ChangeFrame,
   ChangeConnection, Close, Stop, ReleaseAccounts, ReadAccounts, PlannerFails, MarkChanged, SettleAccounts,
   GroupUnreadable, PlanGroup, PlanRevert, Put, Verify, Chosen, Running, NoOp

LEMMA CloseIsLast ==
    ASSUME IInv, Discipline, [Next]_vars, op # NoOp, op' # NoOp
    PROVE  /\ op.step = "close" => op'.step = "close"
           /\ SettleAccounts => op'.step = "close"
<1>1. ASSUME op.step = "close" PROVE op'.step = "close"
  <2>1. ~\E e \in SUBSET Account : ReadAccounts(e)
      BY <1>1, ReadAccountsIs
  <2>2. ~\E g \in Group : GroupUnreadable(g) \/ PlanGroup(g) \/ PlanRevert(g)
      BY <1>1, GroupSteps
  <2>3. ~ReleaseAccounts /\ ~PlannerFails /\ ~MarkChanged /\ ~Put /\ ~Verify /\ ~SettleAccounts
      BY <1>1, ReleaseIs, PlannerFailsIs, MarkChangedIs, PutSteps, VerifySteps DEF SettleAccounts
  <2> QED
      BY <1>1, <2>1, <2>2, <2>3, OpSteps
<1>2. ASSUME SettleAccounts PROVE op'.step = "close"
  <2>1. Goto("close") /\ "close" \in StepName
      BY <1>2 DEF SettleAccounts, StepName
  <2> QED
      BY <2>1, StepTaken
<1> QED
    BY <1>1, <1>2

\* A revert finds no owners.
LEMMA RevertOwners ==
    ASSUME IInv, Discipline, [Next]_vars, op # NoOp, op' # NoOp, op.kind = "revert", NEW g \in Group
    PROVE  Owners(g)' = Owners(g)
<1>1. ASSUME NEW h \in Group, NEW t, SetTarget(h, t), t.accounts = Owners(h)
      PROVE  journal'.targets[g].accounts = journal.targets[g].accounts
  <2>1. CASE h = g
      BY <1>1, <2>1, RowWritten DEF Owners
  <2>2. CASE h # g
      BY <1>1, <2>2, RowWritten
  <2> QED
      BY <2>1, <2>2
<1>2. ASSUME NEW h \in Group, GroupUnreadable(h) \/ PlanGroup(h) \/ PlanRevert(h)
      PROVE  \E t : SetTarget(h, t) /\ t.accounts = Owners(h)
    BY <1>2, GroupSteps
<1>3. ASSUME Put \/ Verify
      PROVE  /\ op.group \in Group
             /\ UNCHANGED journal \/ \E t : SetTarget(op.group, t) /\ t.accounts = Owners(op.group)
    BY <1>3, PutSteps, VerifySteps
<1>4. UNCHANGED journal => journal'.targets[g].accounts = journal.targets[g].accounts
    OBVIOUS
<1>5. ASSUME NEW e \in SUBSET Account, ReadAccounts(e) PROVE UNCHANGED journal
    BY <1>5, ReadAccountsIs
<1>6. ReleaseAccounts \/ PlannerFails \/ MarkChanged \/ SettleAccounts => UNCHANGED journal
    BY ReleaseIs, PlannerFailsIs, MarkChangedIs DEF SettleAccounts
<1> QED
    BY <1>1, <1>2, <1>3, <1>4, <1>5, <1>6, OpSteps DEF Owners

LEMMA DisciplineStep ==
    ASSUME IInv, CInv, [Next]_vars
    PROVE  Discipline'
<1>1. Discipline
    BY DEF CInv
<1> SUFFICES ASSUME op' # NoOp
             PROVE  /\ op'.todo \subseteq op'.targets /\ op'.targets \subseteq Group
                    /\ op'.step \notin {"release", "close"} =>
                            \A a \in op'.accounts : ~accounts'[a].applied
                    /\ op'.step \in {"mark", "put", "verify"} => op'.group \in op'.todo
                    /\ op'.kind = "revert" =>
                        /\ op'.step \in {"release", "group", "put", "verify"}
                        /\ \A g \in op'.targets : Owners(g)' \subseteq op'.accounts
    BY DEF Discipline, Released
<1>2. CASE op = NoOp
  <2>1. CASE BeginRevert
    <3>1. \A g \in op'.targets : Owners(g)' = Owners(g)
        BY <2>1, BeginRevertIs DEF Owners
    <3> QED
        BY <2>1, <3>1, BeginRevertIs
  <2>2. ASSUME NEW p \in Policy, NEW s \in SUBSET Group, NEW b \in BOOLEAN, BeginApply(p, s, b)
        PROVE  /\ op'.kind = "apply" /\ op'.step = "release" /\ op'.todo = op'.targets
               /\ op'.targets \subseteq Group
      BY <2>2, BeginApplyIs
  <2> QED
      BY <1>2, <2>1, <2>2, Begins
<1>3. CASE op # NoOp
  <2>1. /\ op'.todo \subseteq op.todo /\ op'.targets = op.targets /\ op'.accounts = op.accounts
        /\ op'.kind = op.kind /\ op.todo \subseteq op.targets /\ op.targets \subseteq Group
      BY <1>1, <1>3, GoesOn DEF OpKept, Discipline
  <2>2. op'.step \in {"mark", "put", "verify"} => op'.group \in op'.todo
      BY <1>1, <1>3, GoesOn DEF Discipline
  <2>3. ASSUME op'.step \notin {"release", "close"}, NEW a \in op.accounts, accounts'[a].applied
        PROVE  FALSE
    <3>1. a \in Account
        BY <1>3, OpTyped
    <3>2. accounts[a].applied
        BY <1>1, <1>3, <2>3, <3>1, ConfirmSteps, CloseIsLast
    <3>3. op.step = "release"
        BY <1>1, <1>3, <2>3, <3>2, CloseIsLast DEF Discipline, Released
    <3>4. ReleaseAccounts
        BY <1>1, <1>3, <2>3, <3>3, GoesOn
    <3>5. accounts' = Unapplied(op.accounts)
        BY <3>4, ReleaseIs
    <3> QED
        BY <2>3, <3>1, <3>5, UnappliedIs
  <2>4. ASSUME op.kind = "revert"
        PROVE  /\ op'.step \in {"release", "group", "put", "verify"}
               /\ \A g \in op.targets : Owners(g)' \subseteq op.accounts
    <3>1. op.step \in {"release", "group", "put", "verify"} /\ \A g \in op.targets : Owners(g) \subseteq op.accounts
        BY <1>1, <1>3, <2>4 DEF Discipline
    <3>2. \A g \in op.targets : Owners(g)' = Owners(g)
        BY <1>1, <1>3, <2>1, <2>4, RevertOwners
    <3> QED
        BY <1>1, <1>3, <2>4, <3>1, <3>2, GoesOn
  <2> QED
      BY <2>1, <2>2, <2>3, <2>4
<1> QED
    BY <1>2, <1>3

-----------------------------------------------------------------------------
(* The policy's operation *)

\* It reads the groups of its accounts, or ends without having done so.
LEMMA EarlySteps ==
    ASSUME IInv, Discipline, [Next]_vars, op # NoOp, op' # NoOp, op.kind = "apply"
    PROVE  /\ op'.step = "settle" => PlannerFails \/ UNCHANGED op
           /\ op.step = "release" => op'.step \in {"release", "accounts"}
           /\ op.step = "accounts" =>
                \/ op'.step = "accounts" \/ PlannerFails
                \/ \E e \in SUBSET Account : ReadAccounts(e)
           /\ op'.step \in {"release", "accounts"} =>
                op.step \in {"release", "accounts"} /\ op'.todo = op.todo
           /\ op'.step \in {"group", "mark", "put", "verify"} =>
                \/ op.step \in {"group", "mark", "put", "verify"}
                \/ \E e \in SUBSET Account : ReadAccounts(e)
<1>1. ASSUME NEW g \in Group, GroupUnreadable(g) \/ PlanGroup(g) \/ PlanRevert(g)
      PROVE  op.step = "group" /\ op'.step \in {"group", "mark", "verify"}
  <2>1. /\ op.step = "group"
        /\ \/ op' = [op EXCEPT !.step = "group", !.todo = @ \ {g}]
           \/ op' = [op EXCEPT !.group = g, !.step = "mark"]
           \/ op' = [op EXCEPT !.group = g, !.step = "verify"]
      BY <1>1, GroupSteps
  <2>2. "mark" \in StepName /\ "verify" \in StepName
      BY DEF StepName
  <2> QED
      BY <2>1, <2>2, GroupLeft, GroupTaken
<1>2. CASE Put
  <2>1. /\ op.step = "put"
        /\ Goto("verify") \/ op' = [op EXCEPT !.step = "group", !.todo = @ \ {op.group}]
      BY <1>2, PutSteps
  <2>2. "verify" \in StepName
      BY DEF StepName
  <2>3. op'.step \in {"group", "verify"}
      BY <2>1, <2>2, GroupLeft, StepTaken
  <2> QED
      BY <2>1, <2>3
<1>3. CASE Verify
  <2>1. op.step = "verify" /\ op' = [op EXCEPT !.step = "group", !.todo = @ \ {op.group}]
      BY <1>3, VerifySteps
  <2> QED
      BY <2>1, GroupLeft
<1>4. CASE SettleAccounts
    BY <1>4, CloseIsLast DEF SettleAccounts
<1>5. ASSUME NEW e \in SUBSET Account, ReadAccounts(e)
      PROVE  op.step = "accounts" /\ op'.step = "group" /\ op'.todo = op.todo
    BY <1>5, ReadAccountsIs
<1>6. CASE ReleaseAccounts \/ PlannerFails \/ MarkChanged
    BY <1>6, ReleaseIs, PlannerFailsIs, MarkChangedIs
<1> QED
    BY <1>1, <1>2, <1>3, <1>4, <1>5, <1>6, OpSteps

\* What the operation is at, from the plan of a group to its verification.
LEMMA WorkSteps ==
    ASSUME IInv, Discipline, [Next]_vars, op # NoOp, op' # NoOp, op.kind = "apply",
           op'.step \in {"mark", "put", "verify"}
    PROVE  /\ op'.group \in Group /\ op'.groups = op.groups /\ op'.accounts = op.accounts
           /\ \/ /\ op'.group = op.group /\ UNCHANGED journal /\ op.step \in {"mark", "put", "verify"}
                 /\ op'.step = "put" =>
                      \/ MarkChanged
                      \/ UNCHANGED <<op, accounts>>
              \/ /\ op'.step # "put" /\ op'.group \in op.todo
                 /\ \A a \in op.accounts : op'.group \in op.groups[a]
                        => a \in journal'.targets[op'.group].accounts
                 /\ journal'.targets[op'.group].after
                      = Plan(journal'.targets[op'.group].baseline, journal.policy)
<1> DEFINE Works == /\ op'.group \in Group /\ op'.groups = op.groups /\ op'.accounts = op.accounts
                    /\ \/ /\ op'.group = op.group /\ UNCHANGED journal
                          /\ op.step \in {"mark", "put", "verify"}
                          /\ op'.step = "put" =>
                               \/ MarkChanged
                               \/ UNCHANGED <<op, accounts>>
                       \/ /\ op'.step # "put" /\ op'.group \in op.todo
                          /\ \A a \in op.accounts : op'.group \in op.groups[a]
                                 => a \in journal'.targets[op'.group].accounts
                          /\ journal'.targets[op'.group].after
                               = Plan(journal'.targets[op'.group].baseline, journal.policy)
<1> SUFFICES Works
    OBVIOUS
<1>1. CASE UNCHANGED <<op, journal, accounts>>
    BY <1>1 DEF IInv, OnTrack
<1>2. CASE MarkChanged
    BY <1>2, MarkChangedIs DEF OpKept
<1>3. CASE Put
  <2>1. CASE Goto("verify") /\ UNCHANGED journal
    <3>1. "verify" \in StepName
        BY DEF StepName
    <3>2. /\ op'.group = op.group /\ op'.groups = op.groups /\ op'.accounts = op.accounts
          /\ op'.step = "verify"
        BY <2>1, <3>1, StepTaken
    <3> QED
        BY <1>3, <2>1, <3>2, PutSteps
  <2>2. op' # [op EXCEPT !.step = "group", !.todo = @ \ {op.group}]
      BY GroupLeft
  <2> QED
      BY <1>3, <2>1, <2>2, PutSteps
<1>4. ~Verify
    BY GroupLeft, VerifySteps
<1>5. ASSUME NEW g \in Group, GroupUnreadable(g) \/ PlanGroup(g) \/ PlanRevert(g)
      PROVE  Works
  <2>1. PICK t : /\ SetTarget(g, t)
                 /\ \A a \in op.accounts : g \in op.groups[a] => a \in t.accounts
                 /\ \/ op' = [op EXCEPT !.step = "group", !.todo = @ \ {g}]
                    \/ /\ \/ op' = [op EXCEPT !.group = g, !.step = "mark"]
                          \/ op' = [op EXCEPT !.group = g, !.step = "verify"]
                       /\ t.after = Plan(t.baseline, journal.policy)
      BY <1>5, GroupSteps
  <2>2. op' # [op EXCEPT !.step = "group", !.todo = @ \ {g}]
      BY GroupLeft
  <2>3. "mark" \in StepName /\ "verify" \in StepName
      BY DEF StepName
  <2>4. OpKept /\ op'.group = g /\ op'.groups = op.groups /\ op'.step # "put"
    <3>1. ASSUME NEW s \in {"mark", "verify"}, op' = [op EXCEPT !.group = g, !.step = s]
          PROVE  OpKept /\ op'.group = g /\ op'.groups = op.groups /\ op'.step = s
      <4>1. s \in StepName
          BY <2>3, <3>1
      <4> QED
          BY <3>1, <4>1, GroupTaken
    <3> QED
        BY <2>1, <2>2, <3>1
  <2>5. journal'.targets[g] = t
      BY <2>1, RowWritten
  <2>6. g \in op.todo
      BY <1>5, GroupSteps
  <2> QED
      BY <2>1, <2>2, <2>4, <2>5, <2>6 DEF OpKept
<1>6. ~ReleaseAccounts /\ ~PlannerFails /\ ~SettleAccounts
    BY ReleaseIs, PlannerFailsIs, CloseIsLast
<1>7. ~\E e \in SUBSET Account : ReadAccounts(e)
    BY ReadAccountsIs
<1> HIDE DEF Works
<1> QED
    BY <1>1, <1>2, <1>3, <1>4, <1>5, <1>6, <1>7, OpSteps

LEMMA PlannedStep ==
    ASSUME IInv, CInv, [Next]_vars
    PROVE  Planned'
<1>1. Discipline /\ Planned
    BY DEF CInv
<1> SUFFICES ASSUME op' # NoOp, op'.kind = "apply"
             PROVE  /\ op'.targets = journal'.selected
                    /\ op'.step = "settle" => op'.errors = op'.accounts
                    /\ op'.step \in {"release", "accounts"} => op'.todo = op'.targets
                    /\ op'.step \notin {"release", "accounts"} =>
                        \A a \in op'.accounts :
                            a \notin strayed' /\ a \notin op'.errors => op'.groups[a] = member'[a]
                    /\ op'.step \in {"mark", "put", "verify"} =>
                        /\ OwnersFound(op.group)'
                        /\ journal'.targets[op'.group].after
                             = Plan(journal'.targets[op'.group].baseline, journal'.policy)
                    /\ op'.step = "put" =>
                        /\ \A a \in Owners(op.group)' : ~accounts'[a].applied
                        /\ Owners(op.group)' \subseteq op'.changed
    BY DEF Planned, Released
<1>2. CASE op = NoOp
  <2>1. ~BeginRevert
      BY BeginRevertIs
  <2>2. PICK p \in Policy, s \in SUBSET Group, b \in BOOLEAN : BeginApply(p, s, b)
      BY <1>2, <2>1, Begins
  <2> QED
      BY <2>2, BeginApplyIs
<1>3. CASE op # NoOp
  <2>1. /\ OpKept /\ op.kind = "apply"
        /\ \/ op'.groups = op.groups /\ op'.errors = op.errors
           \/ \E e \in SUBSET Account : ReadAccounts(e)
           \/ PlannerFails
      BY <1>1, <1>3, GoesOn DEF OpKept
  <2>2. op'.targets = journal'.selected /\ journal'.policy = journal.policy
      BY <1>1, <1>3, <2>1, Steady DEF OpKept, Planned
  <2>3. ASSUME op'.step = "settle"
        PROVE  op'.errors = op'.accounts
    <3>1. CASE PlannerFails
        BY <2>1, <3>1, PlannerFailsIs DEF OpKept
    <3>2. CASE UNCHANGED op
        BY <1>1, <1>3, <2>1, <2>3, <3>2 DEF Planned
    <3> QED
        BY <1>1, <1>3, <2>1, <2>3, <3>1, <3>2, EarlySteps
  <2>4. ASSUME op'.step \notin {"release", "accounts"}, NEW a \in op'.accounts,
               a \notin strayed', a \notin op'.errors
        PROVE  op'.groups[a] = member'[a]
    <3>1. a \in op.accounts /\ a \in Account
        BY <1>3, <2>1, OpTyped DEF OpKept
    <3>2. ASSUME NEW e \in SUBSET Account, ReadAccounts(e)
          PROVE  op'.groups[a] = member'[a]
        BY <2>4, <3>1, <3>2, ReadAccountsIs
    <3>3. ~PlannerFails
        BY <2>4, <3>1, PlannerFailsIs
    <3>4. CASE ~\E e \in SUBSET Account : ReadAccounts(e)
      <4>1. op'.groups = op.groups /\ op'.errors = op.errors
          BY <2>1, <3>3, <3>4
      <4>2. a \notin strayed /\ member'[a] = member[a]
          BY <2>4, <3>1, <3>4, StraySteps
      <4>3. op.step \notin {"release", "accounts"}
          BY <1>1, <1>3, <2>1, <2>4, <3>3, <3>4, EarlySteps
      <4> QED
          BY <1>1, <1>3, <2>1, <2>4, <3>1, <4>1, <4>2, <4>3 DEF Planned
    <3> QED
        BY <3>2, <3>4
  <2>5. ASSUME op'.step \in {"mark", "put", "verify"}
        PROVE  /\ OwnersFound(op.group)'
               /\ journal'.targets[op'.group].after
                    = Plan(journal'.targets[op'.group].baseline, journal'.policy)
    <3>1. CASE op'.group = op.group /\ UNCHANGED journal /\ op.step \in {"mark", "put", "verify"}
      <4>1. /\ OwnersFound(op.group)
            /\ journal.targets[op.group].after
                 = Plan(journal.targets[op.group].baseline, journal.policy)
          BY <1>1, <1>3, <2>1, <3>1 DEF Planned
      <4>2. op'.groups = op.groups /\ op'.accounts = op.accounts
          BY <1>1, <1>3, <2>1, <2>5, WorkSteps
      <4> QED
          BY <3>1, <4>1, <4>2 DEF OwnersFound, Owners
    <3>2. CASE /\ \A a \in op.accounts : op'.group \in op.groups[a]
                        => a \in journal'.targets[op'.group].accounts
               /\ journal'.targets[op'.group].after
                    = Plan(journal'.targets[op'.group].baseline, journal.policy)
      <4>1. op'.groups = op.groups /\ op'.accounts = op.accounts
          BY <1>1, <1>3, <2>1, <2>5, WorkSteps
      <4> QED
          BY <2>2, <3>2, <4>1 DEF OwnersFound, Owners
    <3> QED
        BY <1>1, <1>3, <2>1, <2>5, <3>1, <3>2, WorkSteps
  <2>6. ASSUME op'.step = "put"
        PROVE  /\ \A a \in Owners(op.group)' : ~accounts'[a].applied
               /\ Owners(op.group)' \subseteq op'.changed
    <3>1. /\ op'.group = op.group /\ UNCHANGED journal /\ op.step \in {"mark", "put", "verify"}
          /\ MarkChanged \/ UNCHANGED <<op, accounts>>
        BY <1>1, <1>3, <2>1, <2>6, WorkSteps
    <3>2. Owners(op.group)' = Owners(op.group)
        BY <3>1 DEF Owners
    <3>3. CASE MarkChanged
      <4>1. /\ op.group \in Group /\ Owners(op.group) \subseteq op'.changed
            /\ accounts' = Unapplied(Owners(op.group))
          BY <3>3, MarkChangedIs
      <4>2. Owners(op.group) \subseteq Account
          BY <4>1 DEF Owners, IInv, Shapes, WellFormed, Target
      <4> QED
          BY <3>2, <4>1, <4>2, UnappliedIs
    <3>4. CASE UNCHANGED <<op, accounts>>
        BY <1>1, <1>3, <2>1, <2>6, <3>2, <3>4 DEF Planned, Released
    <3> QED
        BY <3>1, <3>3, <3>4
  <2>7. ASSUME op'.step \in {"release", "accounts"}
        PROVE  op'.todo = op'.targets
    <3>1. op.step \in {"release", "accounts"} /\ op'.todo = op.todo
        BY <1>1, <1>3, <2>1, <2>7, EarlySteps
    <3> QED
        BY <1>1, <1>3, <2>1, <3>1 DEF Planned, OpKept
  <2> QED
      BY <2>2, <2>3, <2>4, <2>5, <2>6, <2>7
<1> QED
    BY <1>2, <1>3

\* Rows an operation is done with stay, and it writes only to those it is not.
LEMMA DoneRows ==
    ASSUME IInv, Discipline, [Next]_vars, op # NoOp, op' # NoOp, NEW g \in Group, g \notin op.todo
    PROVE  journal'.targets[g] = journal.targets[g]
<1>1. ASSUME NEW h \in Group, GroupUnreadable(h) \/ PlanGroup(h) \/ PlanRevert(h)
      PROVE  h # g /\ \E t : SetTarget(h, t)
    BY <1>1, GroupSteps
<1>2. ASSUME Put \/ Verify
      PROVE  /\ op.group # g /\ op.group \in Group
             /\ UNCHANGED journal \/ \E t : SetTarget(op.group, t)
    BY <1>2, PutSteps, VerifySteps
<1>3. \A h \in Group : \A t : SetTarget(h, t) /\ h # g => journal'.targets[g] = journal.targets[g]
    BY RowWritten
<1>4. ASSUME NEW e \in SUBSET Account, ReadAccounts(e) PROVE UNCHANGED journal
    BY <1>4, ReadAccountsIs
<1>5. ReleaseAccounts \/ PlannerFails \/ MarkChanged \/ SettleAccounts => UNCHANGED journal
    BY ReleaseIs, PlannerFailsIs, MarkChangedIs DEF SettleAccounts
<1> QED
    BY <1>1, <1>2, <1>3, <1>4, <1>5, OpSteps

\* A group leaves the queue as failed, or read as wanted.
LEMMA GroupCloses ==
    ASSUME IInv, Discipline, Planned, [Next]_vars, op # NoOp, op' # NoOp, op.kind = "apply",
           NEW g \in op.todo, g \notin op'.todo, journal'.targets[g].status = "applied"
    PROVE  /\ Verify /\ g = op.group /\ ReadsGroup(g)
           /\ journal'.targets[g].accounts = Owners(g)
           /\ journal'.targets[g].baseline = journal.targets[g].baseline
           /\ upstream[op.url][g] = Plan(journal.targets[g].baseline, journal.policy)
<1>1. g \in Group
    BY OpTyped
<1>2. ASSUME NEW h \in Group, GroupUnreadable(h) \/ PlanGroup(h) \/ PlanRevert(h)
      PROVE  FALSE
  <2>1. PICK t : /\ SetTarget(h, t)
                 /\ t.status \in {"failed", "pending"}
                 /\ \/ op' = [op EXCEPT !.step = "group", !.todo = @ \ {h}]
                    \/ op' = [op EXCEPT !.group = h, !.step = "mark"]
                    \/ op' = [op EXCEPT !.group = h, !.step = "verify"]
      BY <1>2, GroupSteps
  <2>2. ASSUME NEW s \in {"mark", "verify"}, op' = [op EXCEPT !.group = h, !.step = s]
        PROVE  FALSE
    <3>1. s \in StepName
        BY <2>2 DEF StepName
    <3> QED
        BY <2>2, <3>1, GroupTaken
  <2>3. op'.todo = op.todo \ {h}
      BY <2>1, <2>2, GroupLeft
  <2>4. g = h
      BY <2>3
  <2> QED
      BY <2>1, <2>4, RowWritten
<1>3. ~Put
  <2> SUFFICES ASSUME Put PROVE FALSE
      OBVIOUS
  <2>1. ~Goto("verify")
      BY StepTaken DEF StepName
  <2>2. PICK t : /\ SetTarget(op.group, t) /\ t.status = "failed"
                 /\ op' = [op EXCEPT !.step = "group", !.todo = @ \ {op.group}]
      BY <2>1, PutSteps
  <2>3. op'.todo = op.todo \ {op.group} /\ op.group \in Group
      BY <2>2, GroupLeft, PutSteps
  <2>4. g = op.group
      BY <2>3
  <2> QED
      BY <2>2, <2>3, <2>4, RowWritten
<1>4. CASE Verify
  <2>1. op'.todo = op.todo \ {op.group} /\ op.step = "verify"
      BY <1>4, GroupLeft, VerifySteps
  <2>2. g = op.group
      BY <2>1
  <2>3. PICK t : /\ SetTarget(op.group, t)
                 /\ t.accounts = Owners(op.group)
                 /\ t.baseline = journal.targets[op.group].baseline
                 /\ \/ t.status = "failed"
                    \/ t.status = "reverted" /\ op.kind = "revert"
                    \/ /\ t.status = "applied" /\ op.kind = "apply"
                       /\ ReadsGroup(op.group)
                       /\ upstream[op.url][op.group] = journal.targets[op.group].after
      BY <1>4, VerifySteps
  <2>4. journal'.targets[g] = t
      BY <1>1, <2>2, <2>3, RowWritten
  <2>5. journal.targets[g].after = Plan(journal.targets[g].baseline, journal.policy)
      BY <2>1, <2>2 DEF Planned
  <2> QED
      BY <1>4, <2>2, <2>3, <2>4, <2>5
<1>5. CASE UNCHANGED op
    BY <1>5
<1>6. ~\E e \in SUBSET Account : ReadAccounts(e)
    BY ReadAccountsIs
<1>7. ~ReleaseAccounts /\ ~PlannerFails /\ ~MarkChanged
    BY ReleaseIs, PlannerFailsIs, MarkChangedIs
<1>8. ~SettleAccounts
    BY StepTaken DEF SettleAccounts, StepName
<1> QED
    BY <1>2, <1>3, <1>4, <1>5, <1>6, <1>7, <1>8, OpSteps

LEMMA AllDoneStep ==
    ASSUME IInv, CInv, [Next]_vars
    PROVE  AllDone'
<1>1. Discipline /\ Planned /\ AllDone
    BY DEF CInv
<1> SUFFICES ASSUME op' # NoOp, op'.kind = "apply", op'.step \in {"group", "mark", "put", "verify"},
                    NEW g \in op'.targets, g \notin op'.todo, journal'.targets[g].status = "applied"
             PROVE  /\ OwnersFound(g)'
                    /\ journal'.targets[g].baseline # NoValue
                    /\ ~Unread(connection, g)'
                    /\ ~overtaken' /\ journal'.policy # NoRules => HasRules(g)'
    BY DEF AllDone, DoneWith
<1>2. op # NoOp
  <2>1. ~BeginRevert
      BY BeginRevertIs
  <2>2. ~\E p \in Policy, s \in SUBSET Group, b \in BOOLEAN : BeginApply(p, s, b)
      BY BeginApplyIs
  <2> QED
      BY <2>1, <2>2, Begins
<1>3. OpKept /\ op.kind = "apply"
    BY <1>1, <1>2, GoesOn DEF OpKept
<1>4. /\ journal'.url = journal.url /\ connection' = connection /\ journal'.policy = journal.policy
      /\ connection \in Url /\ op.url = connection
    BY <1>1, <1>2, Steady, OpTyped
<1>5. g \in op.targets /\ g \in Group
    BY <1>2, <1>3, OpTyped DEF OpKept
<1>6. ~\E e \in SUBSET Account : ReadAccounts(e)
  <2> SUFFICES ASSUME NEW e \in SUBSET Account, ReadAccounts(e) PROVE FALSE
      OBVIOUS
  <2>1. op.step = "accounts" /\ op'.todo = op.todo
      BY ReadAccountsIs
  <2>2. op.todo = op.targets
      BY <1>1, <1>2, <1>3, <2>1 DEF Planned
  <2> QED
      BY <1>5, <2>1, <2>2
<1>7. op.step \in {"group", "mark", "put", "verify"}
    BY <1>1, <1>2, <1>3, <1>6, EarlySteps
<1>8. op'.groups = op.groups /\ op'.accounts = op.accounts
  <2>1. ~PlannerFails
      BY PlannerFailsIs
  <2> QED
      BY <1>1, <1>2, <1>3, <1>6, <2>1, GoesOn DEF OpKept
<1>9. ASSUME ~(op.step = "put" /\ op.group = g), ~Unread(connection, g)
      PROVE  ~Unread(connection, g)'
  <2>1. \A u \in Url : Unread(u, g)' =>
            Unread(u, g) \/ (op # NoOp /\ op.step = "put" /\ op.url = u /\ op.group = g)
      BY <1>1, <1>5, UnreadSteps
  <2> DEFINE c == connection
  <2>2. \A u \in Url : u = c => ~(late'[u][g].value # NoValue /\ ~late'[u][g].read)
      BY <1>9, <2>1 DEF Unread
  <2>3. ~(late'[c][g].value # NoValue /\ ~late'[c][g].read)
      BY <1>4, <2>2
  <2> QED
      BY <1>4, <2>3 DEF Unread
<1>10. CASE g \notin op.todo
  <2>1. journal'.targets[g] = journal.targets[g]
      BY <1>1, <1>2, <1>5, <1>10, DoneRows
  <2>2. DoneWith(g)
      BY <1>1, <1>2, <1>3, <1>5, <1>7, <1>10 DEF AllDone
  <2>3. /\ OwnersFound(g) /\ journal.targets[g].baseline # NoValue /\ ~Unread(connection, g)
        /\ ~overtaken /\ journal.policy # NoRules => HasRules(g)
      BY <2>1, <2>2 DEF DoneWith
  <2>4. ~(op.step = "put" /\ op.group = g)
      BY <1>1, <1>2, <1>10 DEF Discipline
  <2>5. ASSUME ~overtaken', journal'.policy # NoRules
        PROVE  HasRules(g)'
    <3>1. ~overtaken /\ HasRules(g)
        BY <1>1, <1>4, <1>5, <2>3, <2>5, PriceSteps
    <3>2. \/ upstream'[connection][g] = upstream[connection][g]
          \/ upstream'[connection][g].base = changes + 1
        BY <1>1, <1>4, <1>5, <2>3, <2>4, <2>5, PriceSteps
    <3>3. /\ journal.targets[g].baseline.base <= changes /\ changes \in Nat
          /\ journal.targets[g].baseline.base \in Nat
        BY <1>5, <2>3 DEF IInv, BasesBelow, Shapes, WellFormed, Target, Value
    <3>4. journal.targets[g].baseline.base # changes + 1
        BY <3>3
    <3> QED
        BY <1>4, <2>1, <3>1, <3>2, <3>4 DEF HasRules
  <2>6. OwnersFound(g)'
      BY <1>8, <2>1, <2>3 DEF OwnersFound, Owners
  <2> QED
      BY <1>9, <2>1, <2>3, <2>4, <2>5, <2>6
<1>11. CASE g \in op.todo
  <2>1. /\ Verify /\ g = op.group /\ ReadsGroup(g)
        /\ journal'.targets[g].accounts = Owners(g)
        /\ journal'.targets[g].baseline = journal.targets[g].baseline
        /\ upstream[op.url][g] = Plan(journal.targets[g].baseline, journal.policy)
      BY <1>1, <1>2, <1>3, <1>11, GroupCloses
  <2>2. op.step = "verify" /\ journal.targets[g].baseline # NoValue /\ UNCHANGED upstream
      BY <1>2, <2>1 DEF Verify, IInv, OnTrack
  <2>3. OwnersFound(g)
      BY <1>1, <1>2, <1>3, <2>1, <2>2 DEF Planned
  <2>4. ~Unread(connection, g)'
    <3>1. \A u \in Url : u = op.url => ~Unread(u, g)'
        BY <1>2, <1>5, <2>1, GroupRead, OpTyped DEF IInv
    <3> DEFINE c == connection
    <3>2. \A u \in Url : u = c => ~(late'[u][g].value # NoValue /\ ~late'[u][g].read)
        BY <1>4, <3>1 DEF Unread
    <3>3. ~(late'[c][g].value # NoValue /\ ~late'[c][g].read)
        BY <1>4, <3>2
    <3> QED
        BY <1>4, <3>3 DEF Unread
  <2>5. ASSUME journal.policy # NoRules
        PROVE  upstream[connection][g].by # <<>>
    <3> DEFINE b == journal.targets[g].baseline
               p == journal.policy
    <3>1. b \in Value /\ p \in Rules
        BY <1>5, <2>2, <2>5 DEF IInv, Shapes, Journal, Policy, WellFormed, Target
    <3>2. upstream[connection][g] = [b EXCEPT !.by = Append(b.by, p)]
        BY <1>4, <2>1, <2>5 DEF Plan
    <3> HIDE DEF b, p
    <3>3. b.by \in Seq(Rules) /\ upstream[connection][g].by = Append(b.by, p)
        BY <3>1, <3>2 DEF Value
    <3>4. Len(Append(b.by, p)) = Len(b.by) + 1 /\ Len(b.by) \in Nat
        BY <3>1, <3>3
    <3>5. Append(b.by, p) # <<>>
        BY <3>4
    <3> QED
        BY <3>3, <3>5
  <2>6. OwnersFound(g)'
      BY <1>8, <2>1, <2>3 DEF OwnersFound, Owners
  <2> QED
      BY <1>4, <2>1, <2>2, <2>4, <2>5, <2>6 DEF HasRules
<1> QED
    BY <1>10, <1>11

-----------------------------------------------------------------------------
(* What a sample is compared with *)

LEMMA RevisionSteps ==
    ASSUME IInv, Discipline, [Next]_vars
    PROVE  /\ journal.revision \in Nat /\ journal'.revision \in Nat
           /\ journal.revision <= journal'.revision
           /\ op = NoOp /\ op' # NoOp => journal.revision < journal'.revision
<1>1. journal.revision \in Nat
    BY DEF IInv, Shapes, Journal
<1>2. ASSUME op # NoOp PROVE journal'.revision = journal.revision
    BY <1>2, Steady
<1>3. ASSUME op = NoOp, op' # NoOp PROVE journal'.revision = journal.revision + 1
  <2>1. \A p \in Policy, s \in SUBSET Group, b \in BOOLEAN :
            BeginApply(p, s, b) => journal'.revision = journal.revision + 1
      BY BeginApplyIs
  <2> QED
      BY <1>3, <2>1, Begins, BeginRevertIs
<1>4. ASSUME op = NoOp, op' = NoOp PROVE journal'.revision = journal.revision
  <2>1. ~Close /\ ~Put /\ ~Verify /\ ~BeginRevert
      BY <1>4, BeginRevertIs DEF Close, Put, Verify
  <2>2. ~\E h \in Group : GroupUnreadable(h) \/ PlanGroup(h) \/ PlanRevert(h)
      BY <1>4, GroupSteps
  <2>3. ~\E p \in Policy, s \in SUBSET Group, b \in BOOLEAN : BeginApply(p, s, b)
      BY <1>4, BeginApplyIs
  <2>4. (\E u \in Url : ChangeConnection(u)) => journal'.revision = journal.revision
      BY DEF ChangeConnection, IInv, Shapes, Journal
  <2> QED
      BY <2>1, <2>2, <2>3, <2>4, JournalSteps
<1> DEFINE r == journal.revision
           q == journal'.revision
<1>5. q = r \/ (op = NoOp /\ op' # NoOp /\ q = r + 1)
    BY <1>2, <1>3, <1>4
<1>6. op = NoOp /\ op' # NoOp => q = r + 1
    BY <1>3
<1>7. r \in Nat
    BY <1>1
<1> HIDE DEF r, q
<1>8. q \in Nat /\ r <= q /\ (op = NoOp /\ op' # NoOp => r < q)
    BY <1>5, <1>6, <1>7
<1> QED
    BY <1>7, <1>8 DEF r, q

LEMMA SampleSteps ==
    ASSUME [Next]_vars
    PROVE  UNCHANGED kept \/ \E a \in Account : Sample(a)
BY DEF Next, vars, bounds, service, StepFrame, ReleaseAccounts, ReadAccounts, PlannerFails, MarkChanged,
   SettleAccounts, Stop, EditGroup, LateWrite, ToggleAccount, MoveAccount, ChangeFrame,
   BeginApply, BeginRevert, Close, ChangeConnection, GroupUnreadable, PlanGroup, PlanRevert, Put, Verify

LEMMA ChangeSteps ==
    ASSUME IInv, [Next]_vars
    PROVE  changes \in Nat /\ changes' \in Nat /\ changes <= changes'
<1>1. changes' = changes \/ changes' = changes + 1
    BY DEF Next, vars, bounds, service, StepFrame, ReleaseAccounts, ReadAccounts, PlannerFails, MarkChanged,
       SettleAccounts, Stop, EditGroup, LateWrite, ToggleAccount, Sample, MoveAccount, ChangeFrame, Change,
       BeginApply, BeginRevert, Close, ChangeConnection, GroupUnreadable, PlanGroup, PlanRevert, Put, Verify
<1> DEFINE c == changes
           d == changes'
<1>2. (d = c \/ d = c + 1) /\ c \in Nat
    BY <1>1 DEF IInv, Shapes
<1> HIDE DEF c, d
<1>3. d \in Nat /\ c <= d
    BY <1>2
<1> QED
    BY <1>2, <1>3 DEF c, d

LEMMA EpochsNumberedStep ==
    ASSUME IInv, CInv, [Next]_vars
    PROVE  EpochsNumbered'
<1>1. Discipline /\ EpochsNumbered
    BY DEF CInv
<1>2. /\ journal.revision \in Nat /\ journal'.revision \in Nat
      /\ journal.revision <= journal'.revision
      /\ op = NoOp /\ op' # NoOp => journal.revision < journal'.revision
    BY <1>1, RevisionSteps
<1> DEFINE r == journal.revision
           q == journal'.revision
<1>3. \A n \in Nat : n <= r => n <= q
    BY <1>2
<1>4. \A n \in Nat : n <= r /\ r < q => n < q
    BY <1>2
<1>5. \A a \in Account : accounts[a].epoch.number \in Nat
    BY DEF IInv, Shapes, AccountRow
<1>6. op # NoOp /\ op.kind = "apply" => \A a \in op.accounts : op.previous[a].epoch.number \in Nat
    BY OpTyped DEF AccountRow
<1>7. ASSUME NEW a \in Account, accounts'[a].applied
      PROVE  accounts'[a].epoch.number <= q
  <2>1. CASE accounts[a].applied /\ accounts'[a].epoch = accounts[a].epoch
      BY <1>1, <1>3, <1>5, <2>1 DEF EpochsNumbered
  <2>2. CASE SettleAccounts /\ a \in op.accounts
    <3>1. op # NoOp /\ op.kind = "apply"
        BY <2>2, SettledIs
    <3>2. CASE KeepsEpoch(a)
      <4>1. op.previous[a].applied /\ accounts'[a].epoch = op.previous[a].epoch
          BY <2>2, <3>2, SettledIs DEF KeepsEpoch
      <4> QED
          BY <1>1, <1>3, <1>6, <2>2, <3>1, <4>1 DEF EpochsNumbered
    <3>3. CASE ~KeepsEpoch(a)
      <4>1. accounts'[a].epoch.number = r
          BY <2>2, <3>3, SettledIs
      <4> QED
          BY <1>2, <4>1
    <3> QED
        BY <3>2, <3>3
  <2> QED
      BY <1>7, <2>1, <2>2, ConfirmSteps
<1>8. ASSUME op' # NoOp, op'.kind = "apply", NEW a \in op'.accounts, op'.previous[a].applied
      PROVE  op'.previous[a].epoch.number <= q
  <2>1. CASE op = NoOp
    <3>1. ~BeginRevert
        BY <1>8, BeginRevertIs
    <3>2. PICK p \in Policy, s \in SUBSET Group, b \in BOOLEAN : BeginApply(p, s, b)
        BY <1>8, <2>1, <3>1, Begins
    <3>3. a \in Account /\ op'.previous[a] = accounts[a]
        BY <1>8, <3>2, BeginApplyIs
    <3> QED
        BY <1>1, <1>3, <1>5, <1>8, <3>3 DEF EpochsNumbered
  <2>2. CASE op # NoOp
    <3>1. op.kind = "apply" /\ op'.previous = op.previous /\ op'.accounts = op.accounts
        BY <1>1, <1>8, <2>2, GoesOn DEF OpKept
    <3> QED
        BY <1>1, <1>3, <1>6, <1>8, <2>2, <3>1 DEF EpochsNumbered
  <2> QED
      BY <2>1, <2>2
<1>9. ASSUME kept' # NoSample
      PROVE  /\ kept'.account \in Account
             /\ DOMAIN kept'.prices \subseteq Group
             /\ kept'.epoch.number \in Nat
             /\ kept'.epoch.number <= q
             /\ op' # NoOp => kept'.epoch.number < q
  <2>1. CASE UNCHANGED kept
    <3>1. /\ kept.account \in Account /\ DOMAIN kept.prices \subseteq Group
          /\ kept.epoch.number \in Nat /\ kept.epoch.number <= r
          /\ op # NoOp => kept.epoch.number < r
        BY <1>1, <1>9, <2>1 DEF EpochsNumbered
    <3>2. kept.epoch.number <= q
        BY <1>3, <3>1
    <3>3. ASSUME op' # NoOp PROVE kept.epoch.number < q
      <4>1. CASE op = NoOp
          BY <1>2, <1>4, <3>1, <3>3, <4>1
      <4>2. CASE op # NoOp
          BY <1>1, <3>1, <4>2, Steady
      <4> QED
          BY <4>1, <4>2
    <3> QED
        BY <2>1, <3>1, <3>2, <3>3
  <2>2. ASSUME NEW a \in Account, Sample(a)
        PROVE  /\ kept'.account \in Account
               /\ DOMAIN kept'.prices \subseteq Group
               /\ kept'.epoch.number \in Nat
               /\ kept'.epoch.number <= q
               /\ op' = NoOp
    <3>1. /\ kept'.account = a /\ kept'.epoch = accounts[a].epoch
          /\ DOMAIN kept'.prices = member[a] /\ op' = NoOp /\ accounts[a].applied
        BY <2>2 DEF Sample, Prices
    <3>2. member[a] \subseteq Group
        BY DEF IInv, Shapes
    <3>3. accounts[a].epoch.number <= q
        BY <1>1, <1>3, <1>5, <3>1 DEF EpochsNumbered
    <3> QED
        BY <1>5, <3>1, <3>2, <3>3
  <2> QED
      BY <2>1, <2>2, SampleSteps
<1> QED
    BY <1>7, <1>8, <1>9 DEF EpochsNumbered

\* An epoch that has been taken away is never given back.
LEMMA CandidateStays ==
    ASSUME IInv, CInv, [Next]_vars, kept # NoSample, UNCHANGED kept, Candidate'
    PROVE  Candidate /\ ~\E u \in Url : ChangeConnection(u)
<1> DEFINE a == kept.account
<1>1. Discipline /\ EpochsNumbered
    BY DEF CInv
<1>2. /\ a \in Account /\ kept.epoch.number \in Nat
      /\ op # NoOp => kept.epoch.number < journal.revision
      /\ journal.revision \in Nat
    BY <1>1, RevisionSteps DEF EpochsNumbered
<1>3. CASE accounts'[a].applied /\ accounts'[a].epoch = kept.epoch
  <2>1. ~\E u \in Url : ChangeConnection(u)
      BY <1>2, <1>3, ConfirmSteps
  <2>2. CASE accounts[a].applied /\ accounts'[a].epoch = accounts[a].epoch
      BY <1>3, <2>1, <2>2 DEF Candidate
  <2>3. CASE SettleAccounts /\ a \in op.accounts
    <3>1. op # NoOp /\ op.kind = "apply"
        BY <1>2, <2>3, SettledIs
    <3>2. CASE KeepsEpoch(a)
      <4>1. accounts'[a].epoch = op.previous[a].epoch
          BY <1>2, <2>3, <3>2, SettledIs
      <4>2. op.previous[a].applied /\ a \notin op.changed
          BY <3>2 DEF KeepsEpoch
      <4> QED
          BY <1>3, <2>1, <2>3, <3>1, <4>1, <4>2 DEF Candidate
    <3>3. CASE ~KeepsEpoch(a)
      <4>1. kept.epoch.number = journal.revision
          BY <1>2, <1>3, <2>3, <3>3, SettledIs
      <4> QED
          BY <1>2, <3>1, <4>1
    <3> QED
        BY <3>2, <3>3
  <2> QED
      BY <1>2, <1>3, <2>2, <2>3, ConfirmSteps
<1>4. CASE /\ op' # NoOp /\ op'.kind = "apply" /\ a \in op'.accounts /\ a \notin op'.changed
           /\ op'.previous[a].applied /\ op'.previous[a].epoch = kept.epoch
  <2>1. CASE op = NoOp
    <3>1. ~BeginRevert
        BY <1>4, BeginRevertIs
    <3>2. PICK p \in Policy, s \in SUBSET Group, b \in BOOLEAN : BeginApply(p, s, b)
        BY <1>4, <2>1, <3>1, Begins
    <3>3. op'.previous[a] = accounts[a]
        BY <1>4, <3>2, BeginApplyIs
    <3>4. ~\E u \in Url : ChangeConnection(u)
        BY <1>4, <2>1 DEF ChangeConnection, ChangeFrame
    <3> QED
        BY <1>4, <3>3, <3>4 DEF Candidate
  <2>2. CASE op # NoOp
    <3>1. /\ op.kind = "apply" /\ op'.previous = op.previous /\ op'.accounts = op.accounts
          /\ op.changed \subseteq op'.changed
        BY <1>1, <1>4, <2>2, GoesOn DEF OpKept
    <3>2. ~\E u \in Url : ChangeConnection(u)
        BY <2>2 DEF ChangeConnection
    <3> QED
        BY <1>4, <2>2, <3>1, <3>2 DEF Candidate
  <2> QED
      BY <2>1, <2>2
<1> QED
    BY <1>3, <1>4 DEF Candidate

LEMMA KeptPricesStep ==
    ASSUME IInv, CInv, [Next]_vars
    PROVE  KeptPrices'
<1>1. ConfirmedRows /\ Discipline /\ Planned /\ EpochsNumbered /\ KeptPrices
    BY DEF CInv
<1>2. changes \in Nat /\ changes' \in Nat /\ changes <= changes'
    BY ChangeSteps
<1> SUFFICES ASSUME kept' # NoSample, Candidate', NEW g \in DOMAIN kept'.prices
             PROVE  /\ Recorded(kept.account, g)'
                    /\ kept'.prices[g].base \in 0 .. changes'
                    /\ ~overtaken' => (upstream'[connection'][g].base = kept'.prices[g].base
                                          => upstream'[connection'][g] = kept'.prices[g])
    BY DEF KeptPrices
<1>3. ASSUME NEW a \in Account, Sample(a)
      PROVE  /\ Recorded(kept.account, g)'
             /\ kept'.prices[g].base \in 0 .. changes'
             /\ upstream'[connection'][g] = kept'.prices[g]
  <2>1. /\ kept'.account = a /\ kept'.prices = Prices(a) /\ accounts[a].applied /\ a \notin strayed
        /\ UNCHANGED <<upstream, late, connection, journal, changes>>
      BY <1>3 DEF Sample, service, bounds
  <2>2. g \in member[a] /\ g \in Group /\ kept'.prices[g] = upstream[connection][g]
      BY <2>1 DEF Prices, IInv, Shapes
  <2>3. Recorded(a, g)
      BY <1>1, <2>1, <2>2 DEF ConfirmedRows
  <2>4. upstream[connection][g].base \in 0 .. changes
      BY <1>2, <2>2 DEF IInv, BasesBelow, Shapes, Value
  <2> QED
      BY <2>1, <2>2, <2>3, <2>4 DEF Recorded, Owners, Unread
<1>4. CASE UNCHANGED kept
  <2> DEFINE a == kept.account
             b == kept.prices[g].base
  <2>1. Candidate /\ ~\E u \in Url : ChangeConnection(u)
      BY <1>4, CandidateStays
  <2>2. /\ Recorded(a, g) /\ b \in 0 .. changes
        /\ ~overtaken => (upstream[connection][g].base = b => upstream[connection][g] = kept.prices[g])
      BY <1>1, <1>4, <2>1 DEF KeptPrices
  <2>3. a \in Account /\ g \in Group /\ connection \in Url
      BY <1>1, <1>4 DEF EpochsNumbered, IInv, Shapes
  <2>4. ~(op # NoOp /\ op.step = "put" /\ op.group = g)
    <3> SUFFICES ASSUME op # NoOp, op.step = "put", op.group = g PROVE FALSE
        OBVIOUS
    <3>1. ~accounts[a].applied
        BY <1>1, <2>2, PutReleased DEF Recorded, Released
    <3>2. op.kind = "apply" /\ a \notin op.changed
        BY <2>1, <3>1 DEF Candidate
    <3> QED
        BY <1>1, <2>2, <3>2 DEF Planned, Recorded
  <2>5. Recorded(a, g)'
    <3>1. \A x \in Account : x = a => Recorded(x, g)'
        BY <1>1, <2>1, <2>2, <2>3, <2>4, RecordedStays
    <3> QED
        BY <1>4, <2>3, <3>1 DEF Recorded, Owners
  <2>6. b \in 0 .. changes'
      BY <1>2, <2>2
  <2>7. ASSUME ~overtaken', upstream'[connection'][g].base = b
        PROVE  upstream'[connection'][g] = kept.prices[g]
    <3>1. connection' = connection
        BY <2>1 DEF Next, vars, bounds, service, StepFrame, ReleaseAccounts, ReadAccounts,
           PlannerFails, MarkChanged, SettleAccounts, Stop, EditGroup, LateWrite, ToggleAccount, Sample,
           MoveAccount, ChangeFrame, BeginApply, BeginRevert, Close, GroupUnreadable, PlanGroup,
           PlanRevert, Put, Verify
    <3>2. ~overtaken
        BY <1>1, <2>3, <2>7, PriceSteps
    <3>3. \/ upstream'[connection][g] = upstream[connection][g]
          \/ upstream'[connection][g].base = changes + 1
        BY <1>1, <2>2, <2>3, <2>4, <2>7, PriceSteps DEF Recorded
    <3>4. b # changes + 1
        BY <1>2, <2>2
    <3> QED
        BY <2>2, <2>7, <3>1, <3>2, <3>3, <3>4
  <2> QED
      BY <1>4, <2>5, <2>6, <2>7
<1> QED
    BY <1>3, <1>4, SampleSteps

-----------------------------------------------------------------------------

LEMMA InitConfirms == Init => CInv
<1> SUFFICES ASSUME Init PROVE CInv
    OBVIOUS
<1>1. \A a \in Account : ~accounts[a].applied
    BY DEF Init
<1>2. op = NoOp /\ kept = NoSample
    BY DEF Init
<1> QED
    BY <1>1, <1>2 DEF CInv, ConfirmedRows, Discipline, Planned, AllDone, EpochsNumbered, KeptPrices

\* Confirmations and epochs agree with journal, prices and the running operation
\* in every state; the two theorems below read it between operations.
THEOREM ConfirmationsHold == Spec => []CInv
<1>1. IInv /\ CInv /\ [Next]_vars => CInv'
    BY ConfirmedRowsStep, DisciplineStep, PlannedStep, AllDoneStep, EpochsNumberedStep, KeptPricesStep
       DEF CInv
<1> QED
    BY <1>1, InitConfirms, Inductive, PTL DEF Spec

\* An account counts as applied (_set_accounts) only while all its groups have
\* rules of ours: operations that stop, groups left out and accounts disabled
\* meanwhile leave no confirmation behind.
THEOREM ConfirmedIsApplied == Spec => []AppliedIsTrue
<1>1. CInv => AppliedIsTrue
    BY DEF CInv, ConfirmedRows, HasRules, AppliedIsTrue
<1> QED
    BY <1>1, ConfirmationsHold, PTL

\* Samples that share a confirmed epoch were taken under the same prices, up to
\* what others change: apply_policy keeps an epoch only across no write of ours.
THEOREM EpochsTellPricesApart == Spec => []EpochsSeparatePrices
<1>1. CInv => EpochsSeparatePrices
  <2> SUFFICES ASSUME CInv, ~overtaken, kept # NoSample, accounts[kept.account].applied,
                      accounts[kept.account].epoch = kept.epoch,
                      NEW g \in member[kept.account] \cap DOMAIN kept.prices,
                      Prices(kept.account)[g].base = kept.prices[g].base
               PROVE  Prices(kept.account)[g] = kept.prices[g]
      BY DEF EpochsSeparatePrices
  <2>1. Candidate
      BY DEF Candidate
  <2>2. Prices(kept.account)[g] = upstream[connection][g]
      BY DEF Prices
  <2> QED
      BY <2>1, <2>2 DEF CInv, KeptPrices
<1> QED
    BY <1>1, ConfirmationsHold, PTL
=============================================================================
