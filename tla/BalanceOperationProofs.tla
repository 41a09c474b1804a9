----------------------- MODULE BalanceOperationProofs -----------------------
(***************************************************************************)
(* Why the journal of balance operations is safe, for every number of      *)
(* participants, accounts, jobs, operations and faults.                    *)
(*                                                                         *)
(* The argument turns on the fact revisions.  A committed operation has    *)
(* moved every account past the revision it was based on, and revisions    *)
(* never go back, so nothing that is validated against its base revisions  *)
(* can be committed already.  And a job that still owns its leases is the  *)
(* only one who could have changed what it validated.                      *)
(***************************************************************************)
EXTENDS BalanceOperation, SequenceTheorems, TLAPS

\* The steps of a job that has taken up an operation.
Engaged == {"attempt", "read", "set", "uncertain", "confirm", "commit"}

Expected(step) == IF step = "commit" THEN {"remote_confirmed"}
                  ELSE {"prepared", "reconciliation_required"}

JobsHaveKeys == \A w \in Worker : pc[w] # "idle" => job[w].keys # {}

JobsHaveOperations == \A w \in Worker : pc[w] \in Engaged => job[w].op \in DOMAIN ops

OperationsHaveSources == \A o \in DOMAIN ops : Sources(o) # {}

\* A commit has moved every source past the revision it was based on.
CommittedIsPast ==
    \A o \in DOMAIN ops : ops[o].state = "committed" =>
        \A a \in Sources(o) : ops[o].base[a] < fact[a]

\* What a job validated stays valid for as long as it owns its leases.
OwnersAreCurrent ==
    \A w \in Worker : pc[w] \in Engaged /\ Owns(w) =>
        /\ ValidFor(w, job[w].op)
        /\ ops[job[w].op].state \in Expected(pc[w])

IInv ==
    /\ TypeOK
    /\ OnePendingPerParticipant
    /\ JobsHaveKeys
    /\ JobsHaveOperations
    /\ OperationsHaveSources
    /\ CommittedIsPast
    /\ OwnersAreCurrent

-----------------------------------------------------------------------------
(* What the journal's operators do *)

LEMMA OperationTyped ==
    ASSUME TypeOK, NEW o \in DOMAIN ops
    PROVE  /\ ops[o] \in Operation
           /\ o \in Nat /\ o # 0 /\ o \in 1 .. Len(ops)
BY DEF TypeOK

LEMMA StateSet ==
    ASSUME TypeOK, NEW o \in DOMAIN ops, NEW s \in State, SetState(o, s)
    PROVE  /\ ops' \in Seq(Operation)
           /\ DOMAIN ops' = DOMAIN ops
           /\ ops'[o] = [ops[o] EXCEPT !.state = s]
           /\ \A m \in DOMAIN ops : m # o => ops'[m] = ops[m]
<1>1. ops \in Seq(Operation) /\ o \in 1 .. Len(ops) /\ ops[o] \in Operation
    BY OperationTyped DEF TypeOK
<1> DEFINE e == [ops[o] EXCEPT !.state = s]
<1>2. e \in Operation
    BY <1>1 DEF Operation
<1>3. ops' = [ops EXCEPT ![o] = e]
    BY DEF SetState
<1>4. /\ [ops EXCEPT ![o] = e] \in Seq(Operation)
      /\ Len([ops EXCEPT ![o] = e]) = Len(ops)
      /\ \A j \in 1 .. Len(ops) : [ops EXCEPT ![o] = e][j] = IF j = o THEN e ELSE ops[j]
  <2> HIDE DEF e
  <2>1. QED
      BY <1>1, <1>2, ExceptSeq
<1>5. DOMAIN ops = 1 .. Len(ops) /\ DOMAIN ops' = 1 .. Len(ops')
    BY <1>1, <1>3, <1>4
<1> QED
    BY <1>1, <1>3, <1>4, <1>5

LEMMA Journaled ==
    ASSUME TypeOK, NEW w \in Worker, PrepareNew(w)
    PROVE  /\ ops' \in Seq(Operation)
           /\ DOMAIN ops = 1 .. Len(ops) /\ DOMAIN ops' = 1 .. Len(ops) + 1
           /\ DOMAIN ops' = DOMAIN ops \cup {Len(ops) + 1}
           /\ \A m \in DOMAIN ops : m # Len(ops) + 1 /\ ops'[m] = ops[m]
           /\ ops'[Len(ops) + 1].participant = job[w].participant
           /\ ops'[Len(ops) + 1].state = "prepared"
           /\ ops'[Len(ops) + 1].sources = job[w].keys
           /\ ops'[Len(ops) + 1].base =
                [a \in Account |-> IF a \in job[w].keys THEN fact[a] ELSE 0]
<1> DEFINE e == [participant |-> job[w].participant, requested |-> advice[job[w].participant],
                 state |-> "prepared", sources |-> job[w].keys,
                 base |-> [a \in Account |-> IF a \in job[w].keys THEN fact[a] ELSE 0]]
<1>1. job[w] \in Job /\ fact \in [Account -> Nat] /\ ops \in Seq(Operation)
    BY DEF TypeOK, AbstractTypeOK
<1>2. job[w].participant \in Participant /\ job[w].keys \in SUBSET Account
    BY <1>1 DEF Job
<1>3. advice[job[w].participant] \in Amount
    BY <1>2 DEF TypeOK
<1>4. [a \in Account |-> IF a \in job[w].keys THEN fact[a] ELSE 0] \in [Account -> Nat]
    BY <1>1
<1>5. e \in Operation
    BY <1>2, <1>3, <1>4 DEF Operation, State
<1>6. ops' = Append(ops, e)
    BY DEF PrepareNew
<1> HIDE DEF e
<1>7. /\ ops' \in Seq(Operation) /\ Len(ops') = Len(ops) + 1
      /\ \A m \in 1 .. Len(ops) : ops'[m] = ops[m]
      /\ ops'[Len(ops) + 1] = e
    BY <1>1, <1>5, <1>6, AppendProperties
<1>8. DOMAIN ops = 1 .. Len(ops) /\ DOMAIN ops' = 1 .. Len(ops')
    BY <1>1, <1>7
<1>9. Len(ops) \in Nat
    BY <1>1
<1>10. /\ 1 .. Len(ops) + 1 = (1 .. Len(ops)) \cup {Len(ops) + 1}
       /\ \A m \in 1 .. Len(ops) : m # Len(ops) + 1
    BY <1>9
<1>11. /\ e.participant = job[w].participant /\ e.state = "prepared" /\ e.sources = job[w].keys
       /\ e.base = [a \in Account |-> IF a \in job[w].keys THEN fact[a] ELSE 0]
    BY DEF e
<1> QED
    BY <1>7, <1>8, <1>10, <1>11

\* The unfinished operation of a participant is the one that is taken up.
LEMMA PendingIsFirst ==
    ASSUME TypeOK, OnePendingPerParticipant,
           NEW p \in Participant, PendingOf(p) # {}
    PROVE  /\ First(PendingOf(p)) \in PendingOf(p)
           /\ First(PendingOf(p)) \in DOMAIN ops
           /\ ops[First(PendingOf(p))].state # "committed"
           /\ ops[First(PendingOf(p))].participant = p
<1>1. PICK o \in PendingOf(p) : TRUE
    OBVIOUS
<1>2. \A m \in PendingOf(p) : m = o
    BY DEF OnePendingPerParticipant, PendingOf
<1>3. o \in Nat
    BY OperationTyped DEF PendingOf, Unfinished
<1>4. \A m \in PendingOf(p) : o <= m
    BY <1>2, <1>3
<1>5. First(PendingOf(p)) \in PendingOf(p)
    BY <1>1, <1>4 DEF First
<1> QED
    BY <1>5 DEF PendingOf, Unfinished

-----------------------------------------------------------------------------
(* Types *)

LEMMA InitIInv == Init => IInv
<1> SUFFICES ASSUME Init PROVE IInv
    OBVIOUS
<1>1. NoJob \in Job
    BY BalanceOperationAssumption DEF NoJob, Job, NoOp
<1>2. ops = <<>> /\ DOMAIN ops = {}
    BY DEF Init
<1>3. 0 \in Amount
    BY BalanceOperationAssumption DEF Amount
<1>4. AbstractTypeOK
    BY DEF Init, AbstractInit, AbstractTypeOK, Holder
<1>5. TypeOK
  <2>1. ops \in Seq(Operation)
      BY <1>2
  <2>2. job \in [Worker -> Job] /\ \A w \in Worker : job[w] = NoJob
      BY <1>1 DEF Init
  <2>3. \A w \in Worker : job[w].op = NoOp
      BY <2>2 DEF NoJob
  <2>4. QED
      BY <1>3, <1>4, <2>1, <2>2, <2>3 DEF Init, TypeOK, Step
<1>6. \A w \in Worker : pc[w] = "idle"
    BY DEF Init
<1> QED
    BY <1>2, <1>5, <1>6 DEF IInv, OnePendingPerParticipant, Unfinished, JobsHaveKeys, JobsHaveOperations,
         OperationsHaveSources, CommittedIsPast, OwnersAreCurrent, Engaged

LEMMA AbstractTypes ==
    ASSUME AbstractTypeOK, NEW w \in Worker,
           \/ \E k \in Key : Take(w, k)
           \/ \E K : Lapse(K)
           \/ Abandon(w)
           \/ \E S : Write(w, S)
           \/ UNCHANGED <<holder, fact>>
    PROVE  AbstractTypeOK'
BY DEF AbstractTypeOK, Holder, Take, Lapse, Abandon, Write

\* A step that touches neither the journal nor the balances keeps the types
\* when it keeps those of the leases, the control points and the jobs.
LEMMA ControlTypes ==
    ASSUME TypeOK, AbstractTypeOK', UNCHANGED data, writes' = writes,
           faults' = faults \/ faults' = faults + 1,
           pc' \in [Worker -> Step], job' \in [Worker -> Job],
           \A w \in Worker : job'[w].op \in {NoOp} \cup DOMAIN ops
    PROVE  TypeOK'
BY DEF TypeOK, data

LEMMA NextType ==
    ASSUME TypeOK, OnePendingPerParticipant, JobsHaveOperations, [Next]_vars
    PROVE  TypeOK'
<1> SUFFICES TypeOK'
    OBVIOUS
<1>a. AbstractTypeOK /\ pc \in [Worker -> Step] /\ job \in [Worker -> Job]
    BY DEF TypeOK
<1>b. NoJob \in Job /\ NoJob.op = NoOp
    BY BalanceOperationAssumption DEF NoJob, Job, NoOp
<1>c. UNCHANGED <<holder, fact>> => AbstractTypeOK'
    BY <1>a DEF AbstractTypeOK
<1>d. UNCHANGED job => job' \in [Worker -> Job] /\ \A w \in Worker : job'[w].op \in {NoOp} \cup DOMAIN ops
    BY DEF TypeOK
<1>e. \A w \in Worker : job' = [job EXCEPT ![w] = NoJob] =>
        job' \in [Worker -> Job] /\ \A v \in Worker : job'[v].op \in {NoOp} \cup DOMAIN ops
    BY <1>a, <1>b DEF TypeOK
<1>f. \A w \in Worker, s \in Step : Goto(w, s) => pc' \in [Worker -> Step]
    BY <1>a DEF Goto
<1>g. \A s \in {"idle", "acquire", "prepare", "attempt", "read", "set",
                 "uncertain", "confirm", "commit", "release"} : s \in Step
    BY DEF Step
<1>1. ASSUME NEW w \in Worker, NEW p \in Participant, Start(w, p)
      PROVE  TypeOK'
  <2>1. PICK keys \in SUBSET Account :
            job' = [job EXCEPT ![w] = [participant |-> p, keys |-> keys, op |-> NoOp, created |-> FALSE]]
    <3>1. contract[p] \subseteq Account
        BY BalanceOperationAssumption DEF TypeOK
    <3>2. PendingOf(p) # {} => Sources(First(PendingOf(p))) \subseteq Account
        BY PendingIsFirst, OperationTyped DEF Operation, Sources
    <3>3. QED
        BY <1>1, <3>1, <3>2 DEF Start
  <2>2. [participant |-> p, keys |-> keys, op |-> NoOp, created |-> FALSE] \in Job
      BY DEF Job, NoOp
  <2>3. job' \in [Worker -> Job] /\ \A v \in Worker : job'[v].op \in {NoOp} \cup DOMAIN ops
      BY <1>a, <2>1, <2>2 DEF TypeOK
  <2>4. QED
      BY <1>1, <1>c, <1>f, <1>g, <2>3, ControlTypes DEF Start
<1>2. ASSUME NEW w \in Worker, Acquire(w)
      PROVE  TypeOK'
  <2>1. AbstractTypeOK'
    <3>1. \/ \E k \in Key : Take(w, k)
          \/ UNCHANGED <<holder, fact>>
        BY <1>2, <1>a DEF Acquire, Job, Key
    <3>2. QED
        BY <1>a, <3>1, AbstractTypes
  <2>2. pc' \in [Worker -> Step]
      BY <1>2, <1>a, <1>f, <1>g DEF Acquire
  <2>3. QED
      BY <1>2, <1>d, <2>1, <2>2, ControlTypes DEF Acquire
<1>3. ASSUME NEW w \in Worker,
             \/ Acquired(w) \/ PrepareConflict(w) \/ RecordAttempt(w)
             \/ ReadRemote(w) \/ ReadFails(w) \/ Refused(w) \/ DatabaseFails(w)
      PROVE  TypeOK'
  <2>1. UNCHANGED <<holder, fact, job, writes>> /\ UNCHANGED data
      BY <1>3 DEF Acquired, PrepareConflict, RecordAttempt, ReadRemote, ReadFails, Refused, DatabaseFails
  <2>2. pc' \in [Worker -> Step]
      BY <1>3, <1>f, <1>g
         DEF Acquired, PrepareConflict, RecordAttempt, ReadRemote, ReadFails, Refused, DatabaseFails
  <2>3. faults' = faults \/ faults' = faults + 1
      BY <1>3
         DEF Acquired, PrepareConflict, RecordAttempt, ReadRemote, ReadFails, Refused, DatabaseFails, Fault
  <2>4. QED
      BY <1>c, <1>d, <2>1, <2>2, <2>3, ControlTypes
<1>4. ASSUME NEW w \in Worker, PrepareAgain(w)
      PROVE  TypeOK'
  <2> DEFINE o == First(PendingOf(job[w].participant))
  <2>1. o \in DOMAIN ops /\ o \in Nat
      BY <1>4, <1>a, PendingIsFirst, OperationTyped DEF PrepareAgain, Job
  <2>2. job' = [job EXCEPT ![w].op = o]
      BY <1>4 DEF PrepareAgain
  <2>3. job' \in [Worker -> Job] /\ \A v \in Worker : job'[v].op \in {NoOp} \cup DOMAIN ops
      BY <1>a, <2>1, <2>2 DEF TypeOK, Job
  <2>4. pc' \in [Worker -> Step]
      BY <1>4, <1>f, <1>g DEF PrepareAgain
  <2>5. QED
      BY <1>4, <1>c, <2>3, <2>4, ControlTypes DEF PrepareAgain
<1>5. ASSUME NEW w \in Worker, PrepareNew(w)
      PROVE  TypeOK'
  <2>1. ops' \in Seq(Operation) /\ DOMAIN ops' = 1 .. Len(ops) + 1 /\ DOMAIN ops = 1 .. Len(ops)
      BY <1>5, Journaled
  <2>2. Len(ops) \in Nat
      BY DEF TypeOK
  <2>3. job' = [job EXCEPT ![w].op = Len(ops) + 1, ![w].created = TRUE]
      BY <1>5 DEF PrepareNew
  <2>4. job' \in [Worker -> Job] /\ \A v \in Worker : job'[v].op \in {NoOp} \cup DOMAIN ops'
    <3>1. job[w] \in Job /\ \A v \in Worker : job[v].op \in {NoOp} \cup DOMAIN ops'
        BY <1>a, <2>1, <2>2 DEF TypeOK
    <3>2. job'[w] = [job[w] EXCEPT !.op = Len(ops) + 1, !.created = TRUE]
        BY <1>a, <2>3
    <3>3. job'[w] \in Job /\ job'[w].op = Len(ops) + 1
      <4>1. Len(ops) + 1 \in Nat
          BY <2>2
      <4>2. \A n \in Nat : /\ [job[w] EXCEPT !.op = n, !.created = TRUE] \in Job
                           /\ [job[w] EXCEPT !.op = n, !.created = TRUE].op = n
          BY <3>1 DEF Job
      <4>3. QED
          BY <3>2, <4>1, <4>2
    <3>4. job' = [job EXCEPT ![w] = job'[w]]
        BY <1>a, <2>3
    <3>5. Len(ops) + 1 \in DOMAIN ops'
        BY <2>1, <2>2
    <3>6. QED
        BY <1>a, <3>1, <3>3, <3>4, <3>5
  <2>5. pc' \in [Worker -> Step]
      BY <1>5, <1>f, <1>g DEF PrepareNew
  <2>6. QED
      BY <1>5, <1>c, <2>1, <2>4, <2>5 DEF PrepareNew, TypeOK
<1>6. ASSUME NEW w \in Worker, Sends(w)
      PROVE  TypeOK'
  <2> DEFINE o == ops[job[w].op]
  <2>1. o \in Operation
      BY <1>6, OperationTyped DEF Sends, SetConfirmed, SetUncertain, JobsHaveOperations, Engaged
  <2>2. Sent(o) \in Request
      BY <2>1 DEF Sent, Request, Operation, TypeOK
  <2>3. remote' \in [Participant -> Amount] /\ late' \in SUBSET Request
      BY <1>6, <2>1, <2>2 DEF Sends, SetConfirmed, SetUncertain, TypeOK, Operation
  <2>4. pc' \in [Worker -> Step]
      BY <1>6, <1>f, <1>g DEF Sends, SetConfirmed, SetUncertain
  <2>5. QED
      BY <1>6, <1>c, <2>3, <2>4 DEF Sends, SetConfirmed, SetUncertain, TypeOK
<1>7. ASSUME NEW w \in Worker, MarkReconciliationRequired(w) \/ MarkRemoteConfirmed(w)
      PROVE  TypeOK'
  <2>1. ops' \in Seq(Operation) /\ DOMAIN ops' = DOMAIN ops
      BY <1>7, StateSet
         DEF MarkReconciliationRequired, MarkRemoteConfirmed, JobsHaveOperations, Engaged, State
  <2>2. pc' \in [Worker -> Step]
      BY <1>7, <1>f, <1>g DEF MarkReconciliationRequired, MarkRemoteConfirmed
  <2>3. QED
      BY <1>7, <1>c, <2>1, <2>2 DEF MarkReconciliationRequired, MarkRemoteConfirmed, TypeOK
<1>8. ASSUME NEW w \in Worker, Commit(w)
      PROVE  TypeOK'
  <2>1. job[w].op \in DOMAIN ops
      BY <1>8 DEF Commit, JobsHaveOperations, Engaged
  <2>2. ops' \in Seq(Operation) /\ DOMAIN ops' = DOMAIN ops
      BY <1>8, <2>1, StateSet DEF Commit, State
  <2>3. local' \in [Participant -> Amount]
      BY <1>8, <2>1, OperationTyped DEF Commit, TypeOK, Operation
  <2>4. AbstractTypeOK'
      BY <1>8, <1>a, AbstractTypes DEF Commit
  <2>5. pc' \in [Worker -> Step]
      BY <1>8, <1>f, <1>g DEF Commit
  <2>6. QED
      BY <1>8, <2>2, <2>3, <2>4, <2>5 DEF Commit, TypeOK
<1>9. ASSUME NEW w \in Worker, Release(w) \/ Crash(w)
      PROVE  TypeOK'
  <2>1. AbstractTypeOK'
      BY <1>9, <1>a, AbstractTypes DEF Release, Crash
  <2>2. pc' \in [Worker -> Step]
      BY <1>9, <1>f, <1>g DEF Release, Crash
  <2>3. job' \in [Worker -> Job] /\ \A v \in Worker : job'[v].op \in {NoOp} \cup DOMAIN ops
      BY <1>9, <1>e DEF Release, Crash
  <2>4. faults' = faults \/ faults' = faults + 1
      BY <1>9 DEF Release, Crash, Fault
  <2>5. UNCHANGED data /\ writes' = writes
      BY <1>9 DEF Release, Crash
  <2>6. QED
      BY <2>1, <2>2, <2>3, <2>4, <2>5, ControlTypes
<1>10. ASSUME NEW a \in Account, Stall(a) \/ OrphanExpires(a)
       PROVE  TypeOK'
  <2>1. AbstractTypeOK'
      BY <1>10, <1>a DEF AbstractTypeOK, Holder, Lapse, Stall, OrphanExpires
  <2>2. faults' = faults \/ faults' = faults + 1
      BY <1>10 DEF Stall, OrphanExpires, Fault
  <2>3. UNCHANGED <<pc, job, writes>> /\ UNCHANGED data
      BY <1>10 DEF Stall, OrphanExpires
  <2>4. QED
      BY <1>a, <1>d, <2>1, <2>2, <2>3, ControlTypes
<1>11. ASSUME NEW S \in SUBSET Account, OtherWrite(S),
              contract' \in Contracts,
              local' \in [Participant -> Amount], advice' \in [Participant -> Amount]
       PROVE  TypeOK'
  <2>1. AbstractTypeOK'
      BY <1>11, <1>a DEF OtherWrite, AbstractTypeOK
  <2>2. QED
      BY <1>11, <2>1 DEF OtherWrite, TypeOK
<1>12. ASSUME NEW a \in Account, Sample(a)
       PROVE  TypeOK'
  <2> DEFINE who == {p \in Participant : a \in contract[p]}
  <2>1. local' \in [Participant -> Amount]
      BY <1>12 DEF Sample, TypeOK
  <2>2. PICK f \in [who -> Amount] :
            advice' = [p \in Participant |-> IF p \in who THEN f[p] ELSE advice[p]]
      BY <1>12 DEF Sample
  <2>3. advice' \in [Participant -> Amount]
      BY <2>2 DEF TypeOK
  <2>4. OtherWrite({a}) /\ contract' \in Contracts
      BY <1>12 DEF Sample, TypeOK
  <2>5. QED
      BY <1>11, <2>1, <2>3, <2>4
<1>13. CASE Reallocate
  <2>1. /\ OtherWrite(Account) /\ contract' \in Contracts
        /\ local' \in [Participant -> Amount] /\ advice' \in [Participant -> Amount]
      BY <1>13 DEF Reallocate, TypeOK
  <2>2. QED
      BY <1>11, <2>1
<1>14. ASSUME NEW p \in Participant, Spend(p)
       PROVE  TypeOK'
    BY <1>14, <1>c DEF Spend, TypeOK
<1>15. CASE TakesEffectLate
  <2>1. PICK r \in late :
            /\ remote' = [remote EXCEPT ![r.participant] =
                            IF r.operation = "set" THEN r.amount
                            ELSE IF r.amount <= @ THEN @ - r.amount ELSE @]
            /\ late' = late \ {r}
      BY <1>15 DEF TakesEffectLate
  <2>2. r \in Request /\ remote \in [Participant -> Amount] /\ late \in SUBSET Request
      BY DEF TypeOK
  <2>3. r.participant \in Participant /\ r.amount \in Amount /\ remote[r.participant] \in Amount
      BY <2>2 DEF Request
  <2>4. r.amount <= remote[r.participant] => remote[r.participant] - r.amount \in Amount
      BY <2>3, BalanceOperationAssumption DEF Amount
  <2>5. remote' \in [Participant -> Amount] /\ late' \in SUBSET Request
      BY <2>1, <2>2, <2>3, <2>4
  <2>6. QED
      BY <1>15, <1>c, <2>5 DEF TakesEffectLate, TypeOK
<1>16. CASE UNCHANGED vars
    BY <1>16, <1>c DEF vars, TypeOK
<1> QED
    BY <1>1, <1>2, <1>3, <1>4, <1>5, <1>6, <1>7, <1>8, <1>9, <1>10, <1>12, <1>13, <1>14, <1>15, <1>16
       DEF Next, Operate, Sends

-----------------------------------------------------------------------------
(* Who changes what *)

Acts(w) == (\E p \in Participant : Start(w, p)) \/ Operate(w) \/ DatabaseFails(w) \/ Crash(w)

\* A job is where it was, with no lease it had not.
Steady(w) == pc'[w] = pc[w] /\ job'[w] = job[w] /\ \A k \in Key : holder'[k] = w => holder[k] = w

LEMMA HolderSteps ==
    ASSUME TypeOK, NEW w \in Worker, NEW v \in Worker, w # v,
           \/ \E k \in Key : Take(v, k)
           \/ \E K : Lapse(K)
           \/ Abandon(v)
           \/ UNCHANGED holder
    PROVE  \A k \in Key : holder'[k] = w => holder[k] = w
BY ExclusiveWriterAssumption DEF TypeOK, AbstractTypeOK, Take, Lapse, Abandon

LEMMA OneActs ==
    ASSUME TypeOK, [Next]_vars, NEW w \in Worker
    PROVE  Steady(w) \/ Acts(w)
<1>a. pc \in [Worker -> Step] /\ job \in [Worker -> Job]
    BY DEF TypeOK
<1>1. ASSUME NEW v \in Worker, w # v, Acts(v)
      PROVE  Steady(w)
  <2>1. \/ \E k \in Key : Take(v, k)
        \/ \E K : Lapse(K)
        \/ Abandon(v)
        \/ UNCHANGED holder
    <3>1. CASE Acquire(v)
        BY <3>1, <1>a DEF Acquire, Job, Key
    <3>2. CASE Release(v) \/ Crash(v) \/ Commit(v)
        BY <3>2 DEF Release, Crash, Commit, Write
    <3>3. QED
        BY <1>1, <3>1, <3>2 DEF Acts, Operate, Start, Acquired, PrepareAgain, PrepareNew, PrepareConflict,
             RecordAttempt, ReadRemote, ReadFails, SetConfirmed, SetUncertain,
             MarkReconciliationRequired, MarkRemoteConfirmed, Refused, DatabaseFails
  <2>2. pc'[w] = pc[w]
      BY <1>1, <1>a DEF Acts, Operate, Start, Acquire, Acquired, PrepareAgain, PrepareNew, PrepareConflict,
             RecordAttempt, ReadRemote, ReadFails, SetConfirmed, SetUncertain, Commit, Release, Crash,
             MarkReconciliationRequired, MarkRemoteConfirmed, Refused, DatabaseFails, Goto
  <2>3. job'[w] = job[w]
      BY <1>1, <1>a DEF Acts, Operate, Start, Acquire, Acquired, PrepareAgain, PrepareNew, PrepareConflict,
             RecordAttempt, ReadRemote, ReadFails, SetConfirmed, SetUncertain, Commit, Release, Crash,
             MarkReconciliationRequired, MarkRemoteConfirmed, Refused, DatabaseFails
  <2>4. QED
      BY <1>1, <2>1, <2>2, <2>3, HolderSteps DEF Steady
<1>2. ASSUME NEW a \in Account, Stall(a) \/ OrphanExpires(a)
      PROVE  Steady(w)
    BY <1>2, ExclusiveWriterAssumption DEF Stall, OrphanExpires, Lapse, Steady
<1>3. ASSUME NEW S, OtherWrite(S)
      PROVE  Steady(w)
    BY <1>3 DEF OtherWrite, Steady
<1>4. CASE TakesEffectLate \/ (\E p \in Participant : Spend(p)) \/ UNCHANGED vars
    BY <1>4 DEF TakesEffectLate, Spend, vars, Steady
<1> QED
    BY <1>1, <1>2, <1>3, <1>4 DEF Next, Acts, Sample, Reallocate

\* Journal and revisions change by five kinds of steps only.
LEMMA JournalSteps ==
    ASSUME TypeOK, [Next]_vars
    PROVE  \/ UNCHANGED <<ops, fact>>
           \/ \E w \in Worker : PrepareNew(w) \/ MarkReconciliationRequired(w)
                                  \/ MarkRemoteConfirmed(w) \/ Commit(w)
           \/ \E S \in SUBSET Account : OtherWrite(S)
<1>1. ASSUME NEW w \in Worker, Acts(w), ~PrepareNew(w), ~MarkReconciliationRequired(w),
             ~MarkRemoteConfirmed(w), ~Commit(w)
      PROVE  UNCHANGED <<ops, fact>>
    BY <1>1 DEF Acts, Operate, Start, Acquire, Acquired, PrepareAgain, PrepareConflict,
             RecordAttempt, ReadRemote, ReadFails, SetConfirmed, SetUncertain, Release, Crash,
             Refused, DatabaseFails, data, Take, Lapse, Abandon
<1>2. ASSUME NEW a \in Account, Stall(a) \/ OrphanExpires(a)
      PROVE  UNCHANGED <<ops, fact>>
    BY <1>2 DEF Stall, OrphanExpires, Lapse, data
<1>3. CASE TakesEffectLate \/ (\E p \in Participant : Spend(p)) \/ UNCHANGED vars
    BY <1>3 DEF TakesEffectLate, Spend, vars
<1>4. ASSUME NEW a \in Account, Sample(a)
      PROVE  \E S \in SUBSET Account : OtherWrite(S)
    BY <1>4 DEF Sample
<1>5. CASE Reallocate
    BY <1>5 DEF Reallocate
<1> QED
    BY <1>1, <1>2, <1>3, <1>4, <1>5 DEF Next, Acts

\* The journal only grows, and what an operation is based on never changes.
LEMMA JournalGrows ==
    ASSUME TypeOK, JobsHaveOperations, [Next]_vars
    PROVE  /\ DOMAIN ops \subseteq DOMAIN ops'
           /\ \A m \in DOMAIN ops :
                /\ ops'[m].participant = ops[m].participant
                /\ ops'[m].sources = ops[m].sources
                /\ ops'[m].base = ops[m].base
<1>1. ASSUME NEW w \in Worker, PrepareNew(w)
      PROVE  DOMAIN ops \subseteq DOMAIN ops' /\ \A m \in DOMAIN ops : ops'[m] = ops[m]
  <2>1. Len(ops) \in Nat
      BY DEF TypeOK
  <2>2. /\ DOMAIN ops = 1 .. Len(ops) /\ DOMAIN ops' = 1 .. Len(ops) + 1
        /\ \A m \in DOMAIN ops : ops'[m] = ops[m]
      BY <1>1, Journaled
  <2>3. 1 .. Len(ops) \subseteq 1 .. Len(ops) + 1
      BY <2>1
  <2>4. QED
      BY <2>2, <2>3
<1>2. ASSUME NEW w \in Worker, MarkReconciliationRequired(w) \/ MarkRemoteConfirmed(w) \/ Commit(w)
      PROVE  /\ DOMAIN ops' = DOMAIN ops
             /\ \A m \in DOMAIN ops :
                    ops'[m] = ops[m] \/ \E s \in State : ops'[m] = [ops[m] EXCEPT !.state = s]
  <2>1. job[w].op \in DOMAIN ops
      BY <1>2 DEF MarkReconciliationRequired, MarkRemoteConfirmed, Commit, JobsHaveOperations, Engaged
  <2>2. PICK s \in State : SetState(job[w].op, s)
      BY <1>2 DEF MarkReconciliationRequired, MarkRemoteConfirmed, Commit, State
  <2>3. QED
      BY <2>1, <2>2, StateSet
<1>3. \A m \in DOMAIN ops : ops[m] \in Operation
    BY OperationTyped
<1>4. CASE UNCHANGED ops
    BY <1>4
<1> QED
    BY <1>1, <1>2, <1>3, <1>4, JournalSteps DEF Operation, OtherWrite

\* Revisions grow, one by one.
LEMMA FactSteps ==
    ASSUME TypeOK, [Next]_vars
    PROVE  UNCHANGED fact \/ \E S : fact' = [a \in Account |-> IF a \in S THEN fact[a] + 1 ELSE fact[a]]
<1>1. ASSUME NEW w \in Worker, PrepareNew(w) \/ MarkReconciliationRequired(w) \/ MarkRemoteConfirmed(w)
      PROVE  UNCHANGED fact
    BY <1>1 DEF PrepareNew, MarkReconciliationRequired, MarkRemoteConfirmed
<1>2. ASSUME NEW w \in Worker, Commit(w)
      PROVE  \E S : fact' = [a \in Account |-> IF a \in S THEN fact[a] + 1 ELSE fact[a]]
    BY <1>2 DEF Commit, Write
<1>3. ASSUME NEW S \in SUBSET Account, OtherWrite(S)
      PROVE  fact' = [a \in Account |-> IF a \in S THEN fact[a] + 1 ELSE fact[a]]
    BY <1>3 DEF OtherWrite
<1> QED
    BY <1>1, <1>2, <1>3, JournalSteps

LEMMA RevisionsGrow ==
    ASSUME TypeOK, [Next]_vars, NEW a \in Account
    PROVE  fact[a] <= fact'[a] /\ fact[a] \in Nat /\ fact'[a] \in Nat
<1>1. fact[a] \in Nat
    BY DEF TypeOK, AbstractTypeOK
<1>2. CASE UNCHANGED fact
    BY <1>1, <1>2
<1>3. ASSUME NEW S, fact' = [b \in Account |-> IF b \in S THEN fact[b] + 1 ELSE fact[b]]
      PROVE  fact[a] <= fact'[a] /\ fact'[a] \in Nat
    BY <1>1, <1>3
<1> QED
    BY <1>1, <1>2, <1>3, FactSteps

-----------------------------------------------------------------------------
(* Every step keeps the invariant *)

LEMMA NextJobs ==
    ASSUME TypeOK, OnePendingPerParticipant, JobsHaveKeys, JobsHaveOperations, [Next]_vars
    PROVE  JobsHaveKeys' /\ JobsHaveOperations'
<1>a. pc \in [Worker -> Step] /\ job \in [Worker -> Job] /\ DOMAIN ops \subseteq DOMAIN ops'
    BY JournalGrows DEF TypeOK
<1> SUFFICES ASSUME NEW w \in Worker
             PROVE  /\ pc'[w] # "idle" => job'[w].keys # {}
                    /\ pc'[w] \in Engaged => job'[w].op \in DOMAIN ops'
    BY DEF JobsHaveKeys, JobsHaveOperations
<1>1. CASE Steady(w)
    BY <1>1, <1>a DEF Steady, JobsHaveKeys, JobsHaveOperations
<1>2. ASSUME NEW p \in Participant, Start(w, p)
      PROVE  job'[w].keys # {} /\ pc'[w] = "acquire"
    BY <1>2, <1>a DEF Start, Goto
<1>3. CASE PrepareNew(w)
  <2>1. job'[w].keys = job[w].keys /\ job'[w].op = Len(ops) + 1 /\ pc[w] = "prepare"
      BY <1>3, <1>a DEF PrepareNew, Job
  <2>2. Len(ops) + 1 \in DOMAIN ops'
      BY <1>3, Journaled
  <2>3. QED
      BY <2>1, <2>2 DEF JobsHaveKeys
<1>4. CASE PrepareAgain(w)
  <2> DEFINE o == First(PendingOf(job[w].participant))
  <2>1. o \in DOMAIN ops
      BY <1>4, <1>a, PendingIsFirst DEF PrepareAgain, Job
  <2>2. job' = [job EXCEPT ![w].op = o] /\ pc[w] = "prepare"
      BY <1>4 DEF PrepareAgain
  <2>3. job'[w].keys = job[w].keys /\ job'[w].op = o
      BY <1>a, <2>2 DEF Job
  <2>4. QED
      BY <1>a, <2>1, <2>2, <2>3 DEF JobsHaveKeys
<1>5. CASE Release(w) \/ Crash(w)
    BY <1>5, <1>a DEF Release, Crash, Goto, Engaged
<1>6. CASE Acquire(w) \/ Acquired(w) \/ PrepareConflict(w) \/ RecordAttempt(w) \/ ReadRemote(w)
           \/ ReadFails(w) \/ SetConfirmed(w) \/ SetUncertain(w) \/ MarkReconciliationRequired(w)
           \/ MarkRemoteConfirmed(w) \/ Commit(w) \/ Refused(w) \/ DatabaseFails(w)
  <2>1. /\ job'[w] = job[w] /\ pc[w] # "idle"
        /\ pc'[w] \in Engaged => pc[w] \in Engaged
      BY <1>6, <1>a DEF Acquire, Acquired, PrepareConflict, RecordAttempt, ReadRemote,
           ReadFails, SetConfirmed, SetUncertain, MarkReconciliationRequired,
           MarkRemoteConfirmed, Commit, Refused, DatabaseFails, Goto, Engaged
  <2>2. QED
      BY <1>a, <2>1 DEF JobsHaveKeys, JobsHaveOperations
<1> QED
    BY <1>1, <1>2, <1>3, <1>4, <1>5, <1>6, OneActs DEF Acts, Operate, Engaged

\* A step that changes no operation and takes no revision back.
LEMMA JournalRests ==
    ASSUME TypeOK, OnePendingPerParticipant, OperationsHaveSources, CommittedIsPast,
           [Next]_vars, UNCHANGED ops
    PROVE  OnePendingPerParticipant' /\ OperationsHaveSources' /\ CommittedIsPast'
<1>1. OnePendingPerParticipant' /\ OperationsHaveSources'
    BY DEF OnePendingPerParticipant, OperationsHaveSources, Unfinished, Sources
<1>2. ASSUME NEW o \in DOMAIN ops, ops[o].state = "committed", NEW a \in Sources(o)
      PROVE  ops[o].base[a] < fact'[a]
  <2>1. ops[o].base[a] < fact[a] /\ a \in Account /\ ops[o].base[a] \in Nat
      BY <1>2, OperationTyped DEF CommittedIsPast, Operation, Sources
  <2>2. fact[a] <= fact'[a] /\ fact[a] \in Nat /\ fact'[a] \in Nat
      BY <2>1, RevisionsGrow
  <2>3. QED
      BY <2>1, <2>2
<1> QED
    BY <1>1, <1>2 DEF CommittedIsPast, Sources

\* The operation a job works on, and why it is not committed.
LEMMA OwnersOperation ==
    ASSUME TypeOK, JobsHaveOperations, OwnersAreCurrent,
           NEW w \in Worker, pc[w] \in Engaged, Owns(w)
    PROVE  /\ job[w].op \in DOMAIN ops
           /\ ops[job[w].op].state \in Expected(pc[w])
           /\ ops[job[w].op].state # "committed"
           /\ ValidFor(w, job[w].op)
           /\ \A a \in Sources(job[w].op) : a \in Account /\ a \in job[w].keys /\ holder[a] = w
<1>1. job[w].op \in DOMAIN ops /\ ops[job[w].op] \in Operation
    BY OperationTyped DEF JobsHaveOperations
<1>2. ops[job[w].op].state \in Expected(pc[w]) /\ ValidFor(w, job[w].op)
    BY DEF OwnersAreCurrent
<1> QED
    BY <1>1, <1>2 DEF Expected, ValidFor, Owns, Operation, Sources

LEMMA NextJournal ==
    ASSUME TypeOK, OnePendingPerParticipant, JobsHaveKeys, JobsHaveOperations,
           OperationsHaveSources, CommittedIsPast, OwnersAreCurrent, [Next]_vars
    PROVE  OnePendingPerParticipant' /\ OperationsHaveSources' /\ CommittedIsPast'
<1>a. \A a \in Account : fact[a] <= fact'[a] /\ fact[a] \in Nat /\ fact'[a] \in Nat
    BY RevisionsGrow
<1>b. \A o \in DOMAIN ops : ops[o] \in Operation
    BY OperationTyped
<1>c. ASSUME NEW o \in DOMAIN ops, ops[o].state = "committed", NEW a \in Sources(o)
      PROVE  ops[o].base[a] < fact'[a]
  <2>1. ops[o].base[a] < fact[a] /\ a \in Account /\ ops[o].base[a] \in Nat
      BY <1>b, <1>c DEF CommittedIsPast, Operation, Sources
  <2>2. QED
      BY <1>a, <2>1
<1>1. CASE UNCHANGED ops
    BY <1>1, JournalRests
<1>2. ASSUME NEW w \in Worker, PrepareNew(w)
      PROVE  OnePendingPerParticipant' /\ OperationsHaveSources' /\ CommittedIsPast'
  <2> DEFINE n == Len(ops) + 1
             p == job[w].participant
  <2>1. /\ DOMAIN ops' = DOMAIN ops \cup {n}
        /\ \A m \in DOMAIN ops : m # n /\ ops'[m] = ops[m]
        /\ ops'[n].participant = p /\ ops'[n].sources = job[w].keys /\ ops'[n].state = "prepared"
      BY <1>2, Journaled
  <2>2. PendingOf(p) = {} /\ job[w].keys # {}
      BY <1>2 DEF PrepareNew, JobsHaveKeys
  <2> HIDE DEF n, p
  <2>3. OperationsHaveSources'
      BY <2>1, <2>2 DEF OperationsHaveSources, Sources
  <2>4. CommittedIsPast'
      BY <1>c, <2>1 DEF CommittedIsPast, Sources
  <2>5. OnePendingPerParticipant'
    <3>1. \A m \in DOMAIN ops : ops[m].state # "committed" => ops[m].participant # p
        BY <2>2 DEF PendingOf, Unfinished
    <3>2. QED
        BY <2>1, <3>1 DEF OnePendingPerParticipant, Unfinished
  <2>6. QED
      BY <2>3, <2>4, <2>5
<1>3. ASSUME NEW w \in Worker, MarkReconciliationRequired(w) \/ MarkRemoteConfirmed(w) \/ Commit(w)
      PROVE  OnePendingPerParticipant' /\ OperationsHaveSources' /\ CommittedIsPast'
  <2> DEFINE o == job[w].op
  <2>1. pc[w] \in Engaged /\ Owns(w)
      BY <1>3 DEF MarkReconciliationRequired, MarkRemoteConfirmed, Commit, Engaged
  <2>2. o \in DOMAIN ops /\ ops[o].state # "committed" /\ ValidFor(w, o)
      BY <2>1, OwnersOperation
  <2>3. PICK s \in State : SetState(o, s) /\ (s = "committed" => Commit(w))
      BY <1>3 DEF MarkReconciliationRequired, MarkRemoteConfirmed, Commit, State
  <2>4. /\ DOMAIN ops' = DOMAIN ops
        /\ ops'[o] = [ops[o] EXCEPT !.state = s]
        /\ \A m \in DOMAIN ops : m # o => ops'[m] = ops[m]
      BY <2>2, <2>3, StateSet
  <2>5. /\ ops'[o].participant = ops[o].participant /\ ops'[o].sources = ops[o].sources
        /\ ops'[o].base = ops[o].base /\ ops'[o].state = s
      BY <1>b, <2>2, <2>4 DEF Operation
  <2> HIDE DEF o
  <2>6. OperationsHaveSources'
      BY <2>2, <2>4, <2>5 DEF OperationsHaveSources, Sources
  <2>7. OnePendingPerParticipant'
    <3>1. \A m \in DOMAIN ops :
            ops'[m].participant = ops[m].participant /\ (ops'[m].state # "committed" => ops[m].state # "committed")
        BY <2>2, <2>4, <2>5
    <3>2. QED
        BY <2>4, <3>1 DEF OnePendingPerParticipant, Unfinished
  <2>8. ASSUME s = "committed", NEW a \in Sources(o)
        PROVE  ops[o].base[a] < fact'[a]
    <3>1. a \in Account /\ fact[a] = ops[o].base[a]
        BY <1>b, <2>2, <2>8 DEF ValidFor, Sources, Operation
    <3>2. fact'[a] = fact[a] + 1
        BY <2>3, <2>8, <3>1 DEF Commit, Write, o
    <3>3. QED
        BY <1>a, <3>1, <3>2
  <2>9. CommittedIsPast'
      BY <1>c, <2>2, <2>4, <2>5, <2>8, ZenonT(40) DEF CommittedIsPast, Sources
  <2>10. QED
      BY <2>6, <2>7, <2>9
<1> QED
    BY <1>1, <1>2, <1>3, JournalSteps DEF OtherWrite

LEMMA NextOwners ==
    ASSUME TypeOK, OnePendingPerParticipant, JobsHaveKeys, JobsHaveOperations,
           OperationsHaveSources, OwnersAreCurrent, [Next]_vars
    PROVE  OwnersAreCurrent'
<1>a. pc \in [Worker -> Step] /\ job \in [Worker -> Job]
    BY DEF TypeOK
<1>b. \A m \in DOMAIN ops : ops[m] \in Operation
    BY OperationTyped
<1> SUFFICES ASSUME NEW w \in Worker, pc'[w] \in Engaged,
                    \A a \in job'[w].keys : holder'[a] = w
             PROVE  /\ \A a \in ops'[job'[w].op].sources :
                          a \in job'[w].keys /\ fact'[a] = ops'[job'[w].op].base[a]
                    /\ ops'[job'[w].op].state \in Expected(pc'[w])
    BY DEF OwnersAreCurrent, Owns, ValidFor, Sources
<1>1. ASSUME Steady(w)
      PROVE  /\ \A a \in ops'[job'[w].op].sources :
                   a \in job'[w].keys /\ fact'[a] = ops'[job'[w].op].base[a]
             /\ ops'[job'[w].op].state \in Expected(pc'[w])
  <2> DEFINE o == job[w].op
  <2>1. pc'[w] = pc[w] /\ job'[w] = job[w] /\ pc[w] \in Engaged
      BY <1>1 DEF Steady
  <2>2. Owns(w)
      BY <1>1, <1>a, <2>1 DEF Steady, Owns, Job, Key
  <2>3. /\ o \in DOMAIN ops /\ ops[o].state \in Expected(pc[w]) /\ ValidFor(w, o)
        /\ \A a \in Sources(o) : a \in Account /\ a \in job[w].keys /\ holder[a] = w
      BY <2>1, <2>2, OwnersOperation
  <2>4. ASSUME ops'[o] = ops[o], \A a \in Sources(o) : fact'[a] = fact[a]
        PROVE  /\ \A a \in ops'[job'[w].op].sources :
                     a \in job'[w].keys /\ fact'[a] = ops'[job'[w].op].base[a]
               /\ ops'[job'[w].op].state \in Expected(pc'[w])
      BY <2>1, <2>3, <2>4 DEF ValidFor, Sources
  <2>5. CASE UNCHANGED <<ops, fact>>
      BY <2>4, <2>5
  <2>6. ASSUME NEW v \in Worker, PrepareNew(v)
        PROVE  ops'[o] = ops[o] /\ \A a \in Sources(o) : fact'[a] = fact[a]
      BY <2>3, <2>6, Journaled DEF PrepareNew
  <2>7. ASSUME NEW v \in Worker, MarkReconciliationRequired(v) \/ MarkRemoteConfirmed(v) \/ Commit(v)
        PROVE  ops'[o] = ops[o] /\ \A a \in Sources(o) : fact'[a] = fact[a]
    <3> DEFINE m == job[v].op
    <3>1. v # w
        BY <1>a, <2>1, <2>7 DEF MarkReconciliationRequired, MarkRemoteConfirmed, Commit, Goto
    <3>2. pc[v] \in Engaged /\ Owns(v)
        BY <2>7 DEF MarkReconciliationRequired, MarkRemoteConfirmed, Commit, Engaged
    <3>3. m \in DOMAIN ops /\ \A a \in Sources(m) : holder[a] = v
        BY <3>2, OwnersOperation
    <3>4. m # o /\ Sources(m) \cap Sources(o) = {}
        BY <2>3, <3>1, <3>3 DEF OperationsHaveSources
    <3>5. ops'[o] = ops[o]
      <4>1. PICK s \in State : SetState(m, s)
          BY <2>7 DEF MarkReconciliationRequired, MarkRemoteConfirmed, Commit, State
      <4>2. QED
          BY <2>3, <3>3, <3>4, <4>1, StateSet
    <3>6. \A a \in Sources(o) : fact'[a] = fact[a]
        BY <2>3, <2>7, <3>4 DEF MarkReconciliationRequired, MarkRemoteConfirmed, Commit, Write
    <3>7. QED
        BY <3>5, <3>6
  <2>8. ASSUME NEW S \in SUBSET Account, OtherWrite(S)
        PROVE  ops'[o] = ops[o] /\ \A a \in Sources(o) : fact'[a] = fact[a]
    <3>1. \A a \in S : holder[a] = Nobody
        BY <2>8 DEF OtherWrite, Free, Conflicts, Key
    <3>2. \A a \in Sources(o) : a \notin S
        BY <2>3, <3>1, ExclusiveWriterAssumption
    <3>3. QED
        BY <2>3, <2>8, <3>2 DEF OtherWrite
  <2>9. QED
      BY <2>4, <2>5, <2>6, <2>7, <2>8, JournalSteps
<1>2. CASE PrepareAgain(w)
  <2> DEFINE o == First(PendingOf(job[w].participant))
  <2>1. /\ o \in DOMAIN ops /\ ops[o].state # "committed" /\ ops[o].state \in State
      BY <1>2, <1>a, <1>b, PendingIsFirst DEF PrepareAgain, Job, Operation
  <2>2. /\ job' = [job EXCEPT ![w].op = o] /\ UNCHANGED <<holder, fact, ops>>
        /\ ValidFor(w, o)
        /\ pc'[w] = IF ops[o].state = "remote_confirmed" THEN "commit" ELSE "attempt"
      BY <1>2, <1>a DEF PrepareAgain, Goto, data
  <2>3. job'[w].op = o /\ job'[w].keys = job[w].keys
      BY <1>a, <2>2 DEF Job
  <2> HIDE DEF o
  <2>4. QED
      BY <2>1, <2>2, <2>3 DEF ValidFor, Sources, Expected, State
<1>3. CASE PrepareNew(w)
  <2> DEFINE n == Len(ops) + 1
  <2>1. job'[w].op = n /\ job'[w].keys = job[w].keys /\ pc'[w] = "attempt" /\ fact' = fact
      BY <1>3, <1>a DEF PrepareNew, Job, Goto
  <2>2. /\ ops'[n].sources = job[w].keys /\ ops'[n].state = "prepared"
        /\ ops'[n].base = [a \in Account |-> IF a \in job[w].keys THEN fact[a] ELSE 0]
      BY <1>3, Journaled
  <2>3. job[w].keys \subseteq Account
      BY <1>a DEF Job
  <2> HIDE DEF n
  <2>4. QED
      BY <2>1, <2>2, <2>3 DEF Expected
<1>4. CASE RecordAttempt(w) \/ ReadRemote(w) \/ ReadFails(w) \/ SetConfirmed(w) \/ SetUncertain(w)
  <2>1. /\ UNCHANGED <<holder, fact, ops, job>> /\ pc[w] \in Engaged \ {"commit"}
        /\ pc'[w] # "commit"
      BY <1>4, <1>a DEF RecordAttempt, ReadRemote, ReadFails, SetConfirmed, SetUncertain, Goto, data, Engaged
  <2>2. Owns(w)
      BY <2>1 DEF Owns
  <2>3. ops[job[w].op].state \in Expected(pc[w]) /\ ValidFor(w, job[w].op)
      BY <2>1, <2>2, OwnersOperation
  <2>4. QED
      BY <2>1, <2>3 DEF Expected, ValidFor, Sources
<1>5. CASE MarkRemoteConfirmed(w)
  <2> DEFINE o == job[w].op
  <2>1. /\ pc[w] = "confirm" /\ ValidFor(w, o) /\ SetState(o, "remote_confirmed")
        /\ pc'[w] = "commit" /\ UNCHANGED <<fact, job>>
      BY <1>5, <1>a DEF MarkRemoteConfirmed, Goto
  <2>2. o \in DOMAIN ops
      BY <2>1 DEF JobsHaveOperations, Engaged
  <2>3. ops'[o] = [ops[o] EXCEPT !.state = "remote_confirmed"]
      BY <2>1, <2>2, StateSet DEF State
  <2>4. /\ ops'[o].sources = ops[o].sources /\ ops'[o].base = ops[o].base
        /\ ops'[o].state = "remote_confirmed"
      BY <1>b, <2>2, <2>3 DEF Operation
  <2>5. QED
      BY <2>1, <2>4 DEF ValidFor, Sources, Expected
<1>6. CASE (\E p \in Participant : Start(w, p)) \/ Acquire(w) \/ Acquired(w) \/ PrepareConflict(w)
           \/ MarkReconciliationRequired(w) \/ Commit(w) \/ Refused(w) \/ Release(w)
           \/ DatabaseFails(w) \/ Crash(w)
    BY <1>6, <1>a DEF Start, Acquire, Acquired, PrepareConflict, MarkReconciliationRequired,
         Commit, Refused, Release, DatabaseFails, Crash, Goto, Engaged
<1> QED
    BY <1>1, <1>2, <1>3, <1>4, <1>5, <1>6, OneActs DEF Acts, Operate

LEMMA NextIInv == IInv /\ [Next]_vars => IInv'
BY NextType, NextJobs, NextJournal, NextOwners DEF IInv

LEMMA Invariance == Spec => []IInv
BY InitIInv, NextIInv, PTL DEF Spec

-----------------------------------------------------------------------------
(* The theorems *)

\* Journal, balances and jobs keep their types: a job that is past
\* _prepare_balance_operation always works on a row of the journal.
THEOREM TypeCorrect == Spec => []TypeOK
BY Invariance, PTL DEF IInv

\* However many jobs apply the advice of a participant, at most one operation
\* of it is unfinished.
THEOREM OnePending == Spec => []OnePendingPerParticipant
BY Invariance, PTL DEF IInv

\* A commit is on a revision that every earlier commit has moved past.
LEMMA CommitsApart == IInv /\ OneCommitPerRevision /\ [Next]_vars => OneCommitPerRevision'
<1> SUFFICES ASSUME IInv, OneCommitPerRevision, [Next]_vars PROVE OneCommitPerRevision'
    OBVIOUS
<1>a. /\ TypeOK /\ JobsHaveOperations /\ OwnersAreCurrent /\ CommittedIsPast
      /\ \A o \in DOMAIN ops : ops[o] \in Operation
    BY OperationTyped DEF IInv
<1>1. CASE UNCHANGED ops
    BY <1>1 DEF OneCommitPerRevision, Unfinished, Sources
<1>2. ASSUME NEW w \in Worker, PrepareNew(w)
      PROVE  OneCommitPerRevision'
  <2> DEFINE n == Len(ops) + 1
  <2>1. /\ DOMAIN ops' = DOMAIN ops \cup {n} /\ ops'[n].state = "prepared"
        /\ \A m \in DOMAIN ops : ops'[m] = ops[m]
      BY <1>2, <1>a, Journaled
  <2> HIDE DEF n
  <2>2. QED
      BY <2>1 DEF OneCommitPerRevision, Unfinished, Sources
<1>3. ASSUME NEW w \in Worker, MarkReconciliationRequired(w) \/ MarkRemoteConfirmed(w) \/ Commit(w)
      PROVE  OneCommitPerRevision'
  <2> DEFINE o == job[w].op
  <2>1. pc[w] \in Engaged /\ Owns(w)
      BY <1>3 DEF MarkReconciliationRequired, MarkRemoteConfirmed, Commit, Engaged
  <2>2. o \in DOMAIN ops /\ ops[o].state # "committed" /\ ValidFor(w, o)
      BY <1>a, <2>1, OwnersOperation
  <2>3. PICK s \in State : SetState(o, s)
      BY <1>3 DEF MarkReconciliationRequired, MarkRemoteConfirmed, Commit, State
  <2>4. /\ DOMAIN ops' = DOMAIN ops
        /\ \A m \in DOMAIN ops : m # o => ops'[m] = ops[m]
        /\ ops'[o] = [ops[o] EXCEPT !.state = s]
      BY <1>a, <2>2, <2>3, StateSet
  <2>5. ops'[o].sources = ops[o].sources /\ ops'[o].base = ops[o].base
      BY <1>a, <2>2, <2>4 DEF Operation
  <2> HIDE DEF o
  <2>6. \A m \in DOMAIN ops : ops[m].state = "committed" =>
            \A a \in Sources(m) \cap Sources(o) : ops[m].base[a] # ops[o].base[a]
    <3>1. ASSUME NEW m \in DOMAIN ops, ops[m].state = "committed", NEW a \in Sources(m) \cap Sources(o)
          PROVE  ops[m].base[a] # ops[o].base[a]
      <4>1. ops[m].base[a] < fact[a] /\ fact[a] = ops[o].base[a]
          BY <1>a, <2>2, <3>1 DEF CommittedIsPast, ValidFor
      <4>2. a \in Account /\ ops[m].base[a] \in Nat /\ fact[a] \in Nat
          BY <1>a, <3>1 DEF Operation, Sources, TypeOK, AbstractTypeOK
      <4>3. QED
          BY <4>1, <4>2
    <3>2. QED
        BY <3>1
  <2>7. \A m \in DOMAIN ops : m # o => (ops'[m].state = "committed" <=> ops[m].state = "committed")
      BY <2>4
  <2>8. QED
    <3> SUFFICES ASSUME NEW x \in DOMAIN ops, NEW y \in DOMAIN ops,
                        ops'[x].state = "committed", ops'[y].state = "committed",
                        NEW a \in ops'[x].sources \cap ops'[y].sources,
                        ops'[x].base[a] = ops'[y].base[a], x # y
                 PROVE  FALSE
        BY <2>4 DEF OneCommitPerRevision, Unfinished, Sources
    <3>1. a \in Sources(x) \cap Sources(y) /\ ops[x].base[a] = ops[y].base[a]
        BY <2>4, <2>5 DEF Sources
    <3>2. CASE x = o
        BY <2>6, <2>7, <3>1, <3>2
    <3>3. CASE y = o
        BY <2>6, <2>7, <3>1, <3>3
    <3>4. CASE x # o /\ y # o
        BY <2>7, <3>1, <3>4 DEF OneCommitPerRevision, Unfinished
    <3>5. QED
        BY <3>2, <3>3, <3>4
<1> QED
    BY <1>1, <1>2, <1>3, <1>a, JournalSteps DEF OtherWrite

\* Two operations that share an account never commit on the same revision of
\* it: the later one was computed from evidence that includes the earlier.
THEOREM CommitsAreOrdered == Spec => []OneCommitPerRevision
<1>1. Init => OneCommitPerRevision
    BY DEF Init, OneCommitPerRevision, Unfinished
<1> QED
    BY <1>1, Invariance, CommitsApart, PTL DEF Spec

\* A request to the server goes out only for an operation of the journal that
\* is not confirmed yet, under leases on all its accounts and over current
\* facts, whoever stalled, died or took over before.
THEOREM OnlyCurrentSends == Spec => SendsAreCurrent
<1> DEFINE Current(w) == LET o == job[w].op IN
                /\ o \in Unfinished
                /\ ops[o].state # "remote_confirmed"
                /\ \A a \in Sources(o) : holder[a] = w /\ fact[a] = ops[o].base[a]
<1>1. ASSUME IInv, NEW w \in Worker, Sends(w)
      PROVE  Current(w)
  <2>1. pc[w] = "set" /\ Owns(w)
      BY <1>1 DEF Sends, SetConfirmed, SetUncertain
  <2>2. QED
      BY <1>1, <2>1, OwnersOperation DEF IInv, Engaged, Expected, Unfinished, ValidFor
<1>2. IInv => [\A w \in Worker : Sends(w) => Current(w)]_vars
    BY <1>1
<1> QED
    BY <1>2, Invariance, PTL DEF SendsAreCurrent

-----------------------------------------------------------------------------
(* What can move the revisions of an unfinished operation *)

\* An unfinished operation still has the accounts the contract gives its
\* participant: a reallocation is refused while one of them is blocked.
PendingUnderContract ==
    \A o \in DOMAIN ops : ops[o].state # "committed" => Sources(o) = contract[ops[o].participant]

Passed(o, a) == \E m \in DOMAIN ops : ops[m].state = "committed" /\ PassedBy(m, o, a)

Kept ==
    \A o \in DOMAIN ops : ops[o].state # "committed" =>
        \A a \in Sources(o) : fact[a] = ops[o].base[a] \/ Passed(o, a)

\* No fenced write touches an account of an unfinished operation.
LEMMA BlockedWrites ==
    ASSUME NEW S, OtherWrite(S), NEW o \in DOMAIN ops, ops[o].state # "committed"
    PROVE  S \cap Sources(o) = {}
BY DEF OtherWrite, Blocked, Unfinished

LEMMA ContractSteps ==
    ASSUME [Next]_vars
    PROVE  UNCHANGED contract \/ OtherWrite(Account)
<1>1. ASSUME NEW w \in Worker, Acts(w)
      PROVE  UNCHANGED contract
    BY <1>1 DEF Acts, Operate, Start, Acquire, Acquired, PrepareAgain, PrepareNew, PrepareConflict,
         RecordAttempt, ReadRemote, ReadFails, SetConfirmed, SetUncertain, Commit, Release, Crash,
         MarkReconciliationRequired, MarkRemoteConfirmed, Refused, DatabaseFails, data
<1>2. ASSUME NEW a \in Account, Stall(a) \/ OrphanExpires(a) \/ Sample(a)
      PROVE  UNCHANGED contract
    BY <1>2 DEF Stall, OrphanExpires, Sample, data
<1>3. CASE TakesEffectLate \/ (\E p \in Participant : Spend(p)) \/ UNCHANGED vars
    BY <1>3 DEF TakesEffectLate, Spend, vars
<1>4. CASE Reallocate
    BY <1>4 DEF Reallocate
<1> QED
    BY <1>1, <1>2, <1>3, <1>4 DEF Next, Acts

\* A commit over an operation stays there while the revision and the contract do.
LEMMA PassedStays ==
    ASSUME NEW o \in DOMAIN ops, NEW a, Passed(o, a), UNCHANGED contract, fact'[a] = fact[a],
           DOMAIN ops \subseteq DOMAIN ops',
           \A m \in DOMAIN ops : /\ ops'[m].participant = ops[m].participant
                                 /\ ops'[m].sources = ops[m].sources
                                 /\ ops'[m].base = ops[m].base,
           \A m \in DOMAIN ops : ops[m].state = "committed" => ops'[m].state = "committed"
    PROVE  Passed(o, a)'
<1>1. PICK m \in DOMAIN ops : ops[m].state = "committed" /\ PassedBy(m, o, a)
    BY DEF Passed
<1>2. PassedBy(m, o, a)'
    BY <1>1 DEF PassedBy, Sources
<1>3. QED
    BY <1>1, <1>2 DEF Passed

LEMMA NextKept ==
    ASSUME IInv, PendingUnderContract, Kept, [Next]_vars
    PROVE  PendingUnderContract' /\ Kept'
<1>a. /\ TypeOK /\ JobsHaveOperations /\ OwnersAreCurrent /\ OnePendingPerParticipant
      /\ OperationsHaveSources
      /\ \A o \in DOMAIN ops : ops[o] \in Operation
    BY OperationTyped DEF IInv
<1>b. \A o \in DOMAIN ops : Sources(o) \subseteq Account /\ Sources(o) # {}
    BY <1>a DEF Operation, Sources, OperationsHaveSources
<1>1. CASE UNCHANGED <<ops, fact>>
  <2>1. \A o \in DOMAIN ops : ops[o].state # "committed" => UNCHANGED contract
      BY <1>b, BlockedWrites, ContractSteps
  <2>2. PendingUnderContract'
      BY <1>1, <2>1 DEF PendingUnderContract, Sources
  <2>3. ASSUME NEW o \in DOMAIN ops, ops[o].state # "committed", NEW a \in Sources(o)
        PROVE  fact[a] = ops[o].base[a] \/ Passed(o, a)'
      BY <1>1, <2>1, <2>3, PassedStays DEF Kept
  <2>4. QED
      BY <1>1, <2>2, <2>3 DEF Kept, Sources
<1>2. ASSUME NEW w \in Worker, PrepareNew(w)
      PROVE  PendingUnderContract' /\ Kept'
  <2> DEFINE n == Len(ops) + 1
  <2>1. /\ DOMAIN ops' = DOMAIN ops \cup {n}
        /\ \A m \in DOMAIN ops : ops'[m] = ops[m]
        /\ ops'[n].participant = job[w].participant /\ ops'[n].sources = job[w].keys
        /\ ops'[n].base = [a \in Account |-> IF a \in job[w].keys THEN fact[a] ELSE 0]
      BY <1>2, <1>a, Journaled
  <2>2. /\ contract[job[w].participant] = job[w].keys /\ UNCHANGED <<contract, fact>>
        /\ job[w].keys \subseteq Account
      BY <1>2, <1>a DEF PrepareNew, TypeOK, Job
  <2> HIDE DEF n
  <2>3. PendingUnderContract'
      BY <2>1, <2>2 DEF PendingUnderContract, Sources
  <2>4. ASSUME NEW o \in DOMAIN ops, ops[o].state # "committed", NEW a \in Sources(o)
        PROVE  fact[a] = ops[o].base[a] \/ Passed(o, a)'
      BY <2>1, <2>2, <2>4, PassedStays DEF Kept
  <2>5. \A a \in ops'[n].sources : fact'[a] = ops'[n].base[a]
      BY <2>1, <2>2
  <2>6. ASSUME NEW m \in DOMAIN ops', ops'[m].state # "committed", NEW a \in ops'[m].sources
        PROVE  fact'[a] = ops'[m].base[a] \/ Passed(m, a)'
    <3>1. CASE m \in DOMAIN ops
      <4>1. ops[m].state # "committed" /\ a \in Sources(m) /\ ops'[m].base = ops[m].base
          BY <2>1, <2>6, <3>1 DEF Sources
      <4>2. QED
          BY <2>2, <2>4, <3>1, <4>1
    <3>2. CASE m = n
        BY <2>5, <2>6, <3>2
    <3>3. QED
        BY <2>1, <2>6, <3>1, <3>2
  <2>7. Kept'
      BY <2>6 DEF Kept, Sources
  <2>8. QED
      BY <2>3, <2>7
<1>3. ASSUME NEW w \in Worker, MarkReconciliationRequired(w) \/ MarkRemoteConfirmed(w) \/ Commit(w)
      PROVE  PendingUnderContract' /\ Kept'
  <2>o. PICK o : o = job[w].op
      OBVIOUS
  <2>1. pc[w] \in Engaged /\ Owns(w)
      BY <1>3 DEF MarkReconciliationRequired, MarkRemoteConfirmed, Commit, Engaged
  <2>2. o \in DOMAIN ops /\ ops[o].state # "committed"
      BY <1>a, <2>o, <2>1, OwnersOperation
  <2>3. PICK s \in State : SetState(o, s) /\ ((s = "committed" /\ Commit(w)) \/ UNCHANGED fact)
      BY <1>3, <2>o DEF MarkReconciliationRequired, MarkRemoteConfirmed, Commit, State
  <2>4. /\ DOMAIN ops' = DOMAIN ops
        /\ \A m \in DOMAIN ops : m # o => ops'[m] = ops[m]
        /\ ops'[o] = [ops[o] EXCEPT !.state = s]
      BY <1>a, <2>2, <2>3, StateSet
  <2>5. /\ ops'[o].sources = ops[o].sources /\ ops'[o].base = ops[o].base
        /\ ops'[o].participant = ops[o].participant /\ ops'[o].state = s
      BY <1>a, <2>2, <2>4 DEF Operation
  <2>6. UNCHANGED contract
      BY <1>3 DEF MarkReconciliationRequired, MarkRemoteConfirmed, Commit
  <2>7. \A a \in Account : a \notin Sources(o) => fact'[a] = fact[a]
      BY <1>3, <2>o DEF MarkReconciliationRequired, MarkRemoteConfirmed, Commit, Write
  <2>8. PendingUnderContract'
    <3>1. ASSUME NEW m \in DOMAIN ops, ops'[m].state # "committed"
          PROVE  ops'[m].sources = contract'[ops'[m].participant]
      <4>1. ops[m].state # "committed" => ops[m].sources = contract[ops[m].participant]
          BY DEF PendingUnderContract, Sources
      <4>2. CASE m = o
          BY <2>2, <2>5, <2>6, <4>1, <4>2
      <4>3. CASE m # o
          BY <2>4, <2>6, <3>1, <4>1, <4>3
      <4>4. QED
          BY <4>2, <4>3
    <3>2. QED
        BY <2>4, <3>1 DEF PendingUnderContract, Sources
  <2>9. ASSUME NEW m \in DOMAIN ops, ops[m].state # "committed", NEW a \in Sources(m),
               fact'[a] = fact[a]
        PROVE  fact'[a] = ops[m].base[a] \/ Passed(m, a)'
    <3>1. /\ \A l \in DOMAIN ops : /\ ops'[l].participant = ops[l].participant
                                    /\ ops'[l].sources = ops[l].sources
                                    /\ ops'[l].base = ops[l].base
          /\ \A l \in DOMAIN ops : ops[l].state = "committed" => ops'[l].state = "committed"
        BY <2>2, <2>4, <2>5
    <3>2. Passed(m, a) => Passed(m, a)'
        BY <2>4, <2>6, <2>9, <3>1, PassedStays
    <3>3. QED
        BY <2>9, <3>2 DEF Kept
  \* The commit of o moves an account that m is based on too.
  <2>10. ASSUME NEW m \in DOMAIN ops, m # o, ops[m].state # "committed", NEW a \in Sources(m),
                fact'[a] # fact[a]
         PROVE  Passed(m, a)'
    <3>1. a \in Sources(o) /\ a \in Account
        BY <1>b, <2>7, <2>10
    <3>2. s = "committed" /\ Commit(w)
        BY <2>3, <2>10
    <3>3. fact[a] = ops[o].base[a] /\ fact'[a] = fact[a] + 1
        BY <1>a, <2>o, <3>1, <3>2 DEF Commit, ValidFor, Write, TypeOK, AbstractTypeOK
    <3>4. ops[m].base[a] \in Nat /\ fact[a] \in Nat
        BY <1>a, <3>1 DEF Operation, TypeOK, AbstractTypeOK
    <3>5. fact[a] >= ops[m].base[a]
      <4>1. CASE fact[a] = ops[m].base[a]
          BY <3>4, <4>1
      <4>2. CASE Passed(m, a)
        <5>1. PICK l \in DOMAIN ops : ops[l].base[a] >= ops[m].base[a] /\ fact[a] = ops[l].base[a] + 1
            BY <4>2 DEF Passed, PassedBy
        <5>2. ops[l].base[a] \in Nat
            BY <1>a, <3>1 DEF Operation
        <5>3. QED
            BY <3>4, <5>1, <5>2
      <4>3. QED
          BY <2>10, <4>1, <4>2 DEF Kept
    <3>6. ops[m].participant # ops[o].participant
        BY <1>a, <2>2, <2>10 DEF OnePendingPerParticipant, Unfinished
    <3>7. a \in contract[ops[m].participant] /\ a \in contract[ops[o].participant]
        BY <2>2, <2>10, <3>1 DEF PendingUnderContract
    <3>8. PassedBy(o, m, a)'
      <4>1. /\ ops'[m].participant = ops[m].participant /\ ops'[m].base = ops[m].base
            /\ contract' = contract
          BY <2>4, <2>6, <2>10
      <4>2. /\ ops'[o].participant # ops'[m].participant /\ a \in ops'[o].sources
            /\ \A p \in {ops'[o].participant, ops'[m].participant} : a \in contract'[p]
          BY <2>5, <3>1, <3>6, <3>7, <4>1 DEF Sources
      <4>3. ops'[o].base[a] >= ops'[m].base[a] /\ fact'[a] = ops'[o].base[a] + 1
          BY <2>5, <3>3, <3>5, <4>1
      <4>4. QED
          BY <4>2, <4>3 DEF PassedBy, Sources
    <3>9. o \in DOMAIN ops' /\ ops'[o].state = "committed"
        BY <2>2, <2>4, <2>5, <3>2
    <3>10. QED
        BY <3>8, <3>9 DEF Passed
  <2>11. Kept'
    <3>1. ASSUME NEW m \in DOMAIN ops, ops'[m].state # "committed", NEW a \in ops'[m].sources
          PROVE  fact'[a] = ops'[m].base[a] \/ Passed(m, a)'
      <4>1. CASE m = o
        <5>1. UNCHANGED fact /\ a \in Sources(o)
            BY <2>3, <2>5, <3>1, <4>1 DEF Sources
        <5>2. QED
            BY <2>2, <2>5, <2>9, <4>1, <5>1
      <4>2. CASE m # o
          BY <2>4, <2>9, <2>10, <3>1, <4>2 DEF Sources
      <4>3. QED
          BY <4>1, <4>2
    <3>2. QED
        BY <2>4, <3>1 DEF Kept, Sources
  <2>12. QED
      BY <2>8, <2>11
<1>4. ASSUME NEW S \in SUBSET Account, OtherWrite(S)
      PROVE  PendingUnderContract' /\ Kept'
  <2>1. ops' = ops
      BY <1>4 DEF OtherWrite
  <2>2. \A o \in DOMAIN ops : ops[o].state # "committed" => UNCHANGED contract
      BY <1>b, BlockedWrites, ContractSteps
  <2>3. \A o \in DOMAIN ops : ops[o].state # "committed" =>
            \A a \in Sources(o) : fact'[a] = fact[a]
    <3>1. \A o \in DOMAIN ops : ops[o].state # "committed" => S \cap Sources(o) = {}
        BY <1>4, BlockedWrites
    <3>2. fact' = [a \in Account |-> IF a \in S THEN fact[a] + 1 ELSE fact[a]]
        BY <1>4 DEF OtherWrite
    <3>3. QED
        BY <1>b, <3>1, <3>2
  <2>4. PendingUnderContract'
      BY <2>1, <2>2 DEF PendingUnderContract, Sources
  <2>5. ASSUME NEW o \in DOMAIN ops, ops[o].state # "committed", NEW a \in Sources(o)
        PROVE  fact'[a] = ops[o].base[a] \/ Passed(o, a)'
      BY <2>1, <2>2, <2>3, <2>5, PassedStays DEF Kept
  <2>6. QED
      BY <2>1, <2>4, <2>5 DEF Kept, Sources
<1> QED
    BY <1>1, <1>2, <1>3, <1>4, <1>a, JournalSteps

\* Whatever accounts participants share, the revisions that an unfinished
\* operation is based on are moved only by commits of participants that share
\* the account: no sample, reallocation or other writer gets in between.
THEOREM PendingStaysValid == Spec => []PendingSourcesKept
<1>1. Init => PendingUnderContract /\ Kept
    BY DEF Init, PendingUnderContract, Kept
<1>2. IInv /\ PendingUnderContract /\ Kept /\ [Next]_vars => PendingUnderContract' /\ Kept'
    BY NextKept
<1>3. Kept => PendingSourcesKept
  <2>1. \A m \in DOMAIN ops : ops[m].state = "committed" => m \in DOMAIN ops \ Unfinished
      BY DEF Unfinished
  <2>2. QED
      BY <2>1 DEF Kept, Passed, PendingSourcesKept, Unfinished
<1> QED
    BY <1>1, <1>2, <1>3, Invariance, PTL DEF Spec
=============================================================================
