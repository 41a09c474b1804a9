------------------------- MODULE CPACollectorProofs -------------------------
(***************************************************************************)
(* What the run cpa_collector checks of the collector on a small instance, *)
(* proved for all accounts, bounds and batch sizes.                        *)
(*                                                                         *)
(* No property is inductive alone.  A percentage is complete because the   *)
(* record that carries it waits in the queue behind its events             *)
(* (SamplesWait), which holds because the barrier of its sample was        *)
(* answered after them (BarrierHolds, OnePong, HandedOver) and ids ascend  *)
(* (IdsAscend).  An interval ends as recorded because the records of an    *)
(* account are applied in the order of its sessions (QueueOrdered,         *)
(* PassAligned).  IInv is their conjunction; each part has a lemma that    *)
(* every step keeps it, under which a step is split by what it writes.     *)
(***************************************************************************)
EXTENDS CPACollector, SequenceTheorems, FiniteSetTheorems, TLAPS

-----------------------------------------------------------------------------
(* The inductive invariant *)

\* Where a subscription has a session, and where a reader may still be alive.
Running == {"loop", "opening", "closing", "last sample"}
Alive == {"reading", "pinging", "draining"}

\* The sessions of a queue are those begun so far, and the next has room.
SessionsBegun ==
    /\ session.active => session.key >= 1
    /\ pc \in {"connect", "begin"} => session.key < MaxSessions
    /\ \A r \in Range(boundaries) : 1 <= r.session /\ r.session <= session.key
    /\ \A i \in intervals : i.session <= session.key

\* Nothing is from the future.
Past ==
    /\ stored \subseteq 1 .. now
    /\ Spooled \subseteq 1 .. now
    /\ Unspooled \subseteq 1 .. now
    /\ Range(stream) \subseteq 0 .. now
    /\ \A a \in Account : sampled[a] <= now
    /\ poll.at <= now
    /\ \A o \in observations : o.at <= now
    /\ \A r \in Range(boundaries) :
        /\ r.sample <= now
        /\ r.reliable => r.disconnected <= now
    /\ \A i \in intervals : i.reliable => i.disconnected <= now

\* Usage is queued in the order of its ids.
IdsAscend ==
    /\ \A k \in DOMAIN usage : usage[k].id < nextId
    /\ \A k, l \in DOMAIN usage : k < l => usage[k].id < usage[l].id

\* Who runs when.
Control ==
    /\ pc \in Running => session.active /\ session.connected = connected
    /\ reader \in Alive => pc \in Running \cup {"join"}
    /\ pc = "begin" => subscribed /\ Pong \notin Range(stream)
    /\ barrier.state = "sent" => reader = "pinging"
    /\ barrier.state = "failed" => reader = "finished"
    /\ reader = "finished" => ended # Never
    /\ pass.step # "off" => Draining \/ pc = "loop"

\* One PING at most is unanswered.
OnePong ==
    /\ reader \in {"reading", "draining"} => Pong \notin Range(stream)
    /\ reader = "pinging" =>
        \A k, l \in DOMAIN stream : stream[k] = Pong /\ stream[l] = Pong => k = l

\* What CPA published since the connection is on its way.
InHand(e) == e \in stored \cup Spooled \cup Range(stream)
HandedOver ==
    reader \in {"reading", "pinging"} =>
        subscribed /\ \A e \in connected + 1 .. now : InHand(e)

\* An event is past a point of the queue: it is created, or not behind it.
Through(e, id) ==
    e \in stored \/ \E k \in DOMAIN usage : usage[k].event = e /\ usage[k].id <= id

\* Events sampled before a PING are ahead of its answer, then in the queue.
BarrierHolds ==
    \A a \in Account : \A e \in connected + 1 .. sampled[a] :
        /\ barrier.state = "sent" =>
            \E k \in DOMAIN stream :
                /\ stream[k] = Pong
                /\ \/ e \in stored \cup Spooled
                   \/ \E j \in 1 .. k - 1 : stream[j] = e
        /\ barrier.state = "done" => Through(e, barrier.id)

SamplesWait ==
    \A r \in Range(boundaries) :
        \A e \in EventsOf(r.account, r.connected, r.sample) : Through(e, r.required)

\* Each session has one time of connection.
OneConnection ==
    \E at \in [1 .. MaxSessions -> Time] :
        /\ session.key >= 1 => at[session.key] = session.connected
        /\ \A r \in Range(boundaries) : r.connected = at[r.session]
        /\ \A i \in intervals : i.connected = at[i.session]

\* A recorded percentage belongs to an interval.
ObservedHasInterval ==
    \A o \in observations : o.session >= 1 =>
        \E i \in intervals : i.account = o.account /\ i.session = o.session

\* An opening record has a percentage, a disconnected record an end.
RecordsComplete ==
    \A r \in Range(boundaries) :
        /\ r.kind = "opening_sample" => r.sample # Never
        /\ r.kind = "disconnected" => r.disconnected # Never

\* What is about to leave the spool is in the business database.
LeavingIsApplied ==
    /\ pass.step = "delete" =>
        /\ pass.count <= Len(usage)
        /\ \A k \in 1 .. pass.count : usage[k].event \in stored
    /\ pass.step = "drop" =>
        /\ pass.todo # <<>>
        /\ Applied(Head(pass.todo))
        /\ Head(pass.todo).account \notin pass.blocked

\* The boundaries the pass has gone by are those of accounts that wait.
PassAligned ==
    \E n \in 0 .. Len(boundaries) :
        /\ n + Len(pass.todo) <= Len(boundaries)
        /\ \A k \in 1 .. n : boundaries[k].account \in pass.blocked
        /\ \A k \in 1 .. Len(pass.todo) : boundaries[n + k] = pass.todo[k]

\* Sessions follow each other in the queue, and end once.
QueueOrdered ==
    /\ \A k, l \in DOMAIN boundaries :
        k < l /\ boundaries[k].account = boundaries[l].account
            => boundaries[k].session <= boundaries[l].session
    /\ \A r \in Range(boundaries), i \in intervals :
        r.account = i.account => i.session <= r.session
    /\ \A r, s \in Range(boundaries) :
        /\ r.kind = "disconnected" /\ s.kind = "disconnected"
        /\ r.account = s.account /\ r.session = s.session
        => r = s
    /\ session.active =>
        /\ \A r \in Range(boundaries) : r.session = session.key => r.kind # "disconnected"
        /\ \A i \in intervals : i.session = session.key => i.disconnected = Never

\* A cost computed under a lease that still holds is the one to write.
PollCurrent ==
    poll.step = "write" /\ poll.account \in leased
        => poll.cost = Cost(stored, poll.account, poll.at)

\* What a reader that is alive, the spool and the database hold.
Kept == stored \cup Spooled \cup (IF reader \in Alive THEN Range(stream) ELSE {})

OrderlySoFar ==
    faults = 0 =>
        /\ pc \in Running => reader \in {"reading", "pinging"}
        /\ \A r \in Range(boundaries) :
            r.reliable => EventsOf(r.account, r.connected, r.disconnected) \subseteq Kept
        /\ \A i \in intervals :
            i.reliable => EventsOf(i.account, i.connected, i.disconnected) \subseteq Kept

IInv ==
    /\ TypeOK
    /\ SessionsBegun
    /\ Past
    /\ IdsAscend
    /\ Control
    /\ OnePong
    /\ HandedOver
    /\ BarrierHolds
    /\ SamplesWait
    /\ OneConnection
    /\ ObservedHasInterval
    /\ RecordsComplete
    /\ LeavingIsApplied
    /\ PassAligned
    /\ QueueOrdered
    /\ PollCurrent
    /\ OrderlySoFar
    /\ SamplesAreComplete
    /\ ObservationsCurrent
    /\ EndsAsRecorded

-----------------------------------------------------------------------------
(* Who changes what *)

LEMMA SpoolFrame ==
    ASSUME [Next]_vars
    PROVE  /\ \/ UNCHANGED <<usage, nextId>>
              \/ ReadRecord \/ Flush \/ FlushInLoop \/ LastFlush \/ DeleteBatch
           /\ \/ UNCHANGED boundaries
              \/ Recover \/ (\E A \in SUBSET Account : Begin(A)) \/ CaptureOpening
              \/ FinishDead \/ FinishReliable \/ FinishUncertain \/ DeleteBoundary
           /\ \/ UNCHANGED session
              \/ Recover \/ (\E A \in SUBSET Account : Begin(A)) \/ Heartbeat
              \/ FinishDead \/ FinishReliable \/ FinishUncertain
<1> USE DEF vars, spoolVars, cpaVars, readerVars, mainVars, businessVars, pollVars, PassOnly
<1>1. CASE CPA
    BY <1>1 DEF CPA, Publish
<1>2. CASE ReaderNext
    BY <1>2 DEF ReaderNext, ReadRecord, SendPing, ReadPong, ReaderFails, Unsubscribe, ReaderStops,
        Finish, Fault, AppendUsage
<1>3. CASE SessionNext
    BY <1>3 DEF SessionNext, Recover, Flush, FlushInLoop, Connect, ConnectFails, Begin, BeginFails,
        QueryOpening, Ask, CaptureOpening, Heartbeat, Leave, FinishDead, QueryClosing,
        FinishReliable, FinishUncertain, Join, LastFlush, Query, FinishAs, FinishSession,
        RecoverInterruptedSession, BeginSession, TouchSession, FlushTo, AppendUsage, Finish,
        Raises, Fault, Goto, Step
<1>4. CASE PassNext
    BY <1>4 DEF PassNext, StartPass, PersistBatch, DeleteBatch, NoBatch, Hold, PersistBoundary,
        DeleteBoundary, EndPass, PassFails, DeleteUsage, Fault, Goto, Step
<1>5. CASE Die
    BY <1>5 DEF Die, Fault, Goto, Step
<1>6. CASE PollNext
    BY <1>6 DEF PollNext, PollTake, PollQuery, PollWrite, PollGivesUp, Stall
<1>7. CASE UNCHANGED vars
    BY <1>7
<1> QED
    BY <1>1, <1>2, <1>3, <1>4, <1>5, <1>6, <1>7 DEF Next

LEMMA ReaderFrame ==
    ASSUME [Next]_vars
    PROVE  /\ UNCHANGED published \/ \E a \in Account : Publish(a)
           /\ \/ UNCHANGED subscribed
              \/ ReadRecord \/ ReaderFails \/ Unsubscribe \/ Connect \/ BeginFails
              \/ FinishUncertain \/ Join \/ Die
           /\ \/ UNCHANGED stream
              \/ (\E a \in Account : Publish(a)) \/ ReadRecord \/ SendPing \/ ReadPong
              \/ ReaderFails \/ Connect \/ BeginFails \/ FinishUncertain \/ Join \/ Die
           /\ \/ UNCHANGED <<reader, ended>>
              \/ ReadRecord \/ SendPing \/ ReadPong \/ ReaderFails \/ Unsubscribe \/ ReaderStops
              \/ (\E A \in SUBSET Account : Begin(A)) \/ FinishUncertain \/ Die
           /\ \/ UNCHANGED barrier
              \/ ReadRecord \/ SendPing \/ ReadPong \/ ReaderFails \/ ReaderStops
              \/ (\E A \in SUBSET Account : Begin(A)) \/ QueryOpening \/ Ask \/ QueryClosing
              \/ FinishUncertain \/ Join \/ Die
           /\ UNCHANGED unspooled \/ ReadRecord \/ Flush \/ FlushInLoop \/ LastFlush \/ Die
<1> USE DEF vars, spoolVars, cpaVars, readerVars, mainVars, businessVars, pollVars, PassOnly
<1>1. CASE CPA
    BY <1>1 DEF CPA, Publish
<1>2. CASE ReaderNext
    BY <1>2 DEF ReaderNext, ReadRecord, SendPing, ReadPong, ReaderFails, Unsubscribe, ReaderStops,
        Finish, Fault, AppendUsage
<1>3. CASE SessionNext
    BY <1>3 DEF SessionNext, Recover, Flush, FlushInLoop, Connect, ConnectFails, Begin, BeginFails,
        QueryOpening, Ask, CaptureOpening, Heartbeat, Leave, FinishDead, QueryClosing,
        FinishReliable, FinishUncertain, Join, LastFlush, Query, FinishAs, FinishSession,
        RecoverInterruptedSession, BeginSession, TouchSession, FlushTo, AppendUsage, Finish,
        Raises, Fault, Goto, Step
<1>4. CASE PassNext
    BY <1>4 DEF PassNext, StartPass, PersistBatch, DeleteBatch, NoBatch, Hold, PersistBoundary,
        DeleteBoundary, EndPass, PassFails, DeleteUsage, Fault, Goto, Step
<1>5. CASE Die
    BY <1>5 DEF Die, Fault, Goto, Step
<1>6. CASE PollNext
    BY <1>6 DEF PollNext, PollTake, PollQuery, PollWrite, PollGivesUp, Stall
<1>7. CASE UNCHANGED vars
    BY <1>7
<1> QED
    BY <1>1, <1>2, <1>3, <1>4, <1>5, <1>6, <1>7 DEF Next

LEMMA MainFrame ==
    ASSUME [Next]_vars
    PROVE  /\ \/ UNCHANGED connected
              \/ (\E A \in SUBSET Account : Begin(A)) \/ Join \/ Die
           /\ \/ UNCHANGED openings
              \/ (\E A \in SUBSET Account : Begin(A)) \/ CaptureOpening \/ Join \/ Die
           /\ \/ UNCHANGED sampled
              \/ QueryOpening \/ QueryClosing \/ sampled' = NoSample
           /\ \/ UNCHANGED pass
              \/ StartPass \/ PersistBatch \/ DeleteBatch \/ NoBatch \/ Hold \/ PersistBoundary
              \/ DeleteBoundary \/ EndPass \/ pass' = NoPass
           /\ \/ UNCHANGED pc
              \/ \E s \in Step : pc' = s
           /\ \/ UNCHANGED faults
              \/ faults' = faults + 1
<1> USE DEF vars, spoolVars, cpaVars, readerVars, mainVars, businessVars, pollVars, PassOnly
<1>1. CASE CPA
    BY <1>1 DEF CPA, Publish
<1>2. CASE ReaderNext
    BY <1>2 DEF ReaderNext, ReadRecord, SendPing, ReadPong, ReaderFails, Unsubscribe, ReaderStops,
        Finish, Fault, AppendUsage
<1>3. CASE SessionNext
    BY <1>3 DEF SessionNext, Recover, Flush, FlushInLoop, Connect, ConnectFails, Begin, BeginFails,
        QueryOpening, Ask, CaptureOpening, Heartbeat, Leave, FinishDead, QueryClosing,
        FinishReliable, FinishUncertain, Join, LastFlush, Query, FinishAs, FinishSession,
        RecoverInterruptedSession, BeginSession, TouchSession, FlushTo, AppendUsage, Finish,
        Raises, Fault, Goto, Step
<1>4. CASE PassNext
    BY <1>4 DEF PassNext, StartPass, PersistBatch, DeleteBatch, NoBatch, Hold, PersistBoundary,
        DeleteBoundary, EndPass, PassFails, DeleteUsage, Fault, Goto, Step
<1>5. CASE Die
    BY <1>5 DEF Die, Fault, Goto, Step
<1>6. CASE PollNext
    BY <1>6 DEF PollNext, PollTake, PollQuery, PollWrite, PollGivesUp, Stall
<1>7. CASE UNCHANGED vars
    BY <1>7
<1> QED
    BY <1>1, <1>2, <1>3, <1>4, <1>5, <1>6, <1>7 DEF Next

LEMMA PcFrame ==
    ASSUME [Next]_vars
    PROVE  \/ pc' = pc
           \/ pc' \in {"boot", "flush", "drain", "last flush", "last drain"}
           \/ EndPass /\ pc = "drain" /\ pc' = "connect" /\ session.key < MaxSessions
           \/ Connect
           \/ \E A \in SUBSET Account : Begin(A)
           \/ QueryOpening \/ CaptureOpening \/ Leave \/ QueryClosing
           \/ FinishDead \/ FinishReliable \/ FinishUncertain
<1> USE DEF vars, spoolVars, cpaVars, readerVars, mainVars, businessVars, pollVars, PassOnly
<1>1. CASE CPA
    BY <1>1 DEF CPA, Publish
<1>2. CASE ReaderNext
    BY <1>2 DEF ReaderNext, ReadRecord, SendPing, ReadPong, ReaderFails, Unsubscribe, ReaderStops,
        Finish, Fault, AppendUsage
<1>3. CASE SessionNext
    BY <1>3 DEF SessionNext, Recover, Flush, FlushInLoop, Connect, ConnectFails, Begin, BeginFails,
        QueryOpening, Ask, CaptureOpening, Heartbeat, Leave, FinishDead, QueryClosing,
        FinishReliable, FinishUncertain, Join, LastFlush, Query, FinishAs, FinishSession,
        RecoverInterruptedSession, BeginSession, TouchSession, FlushTo, AppendUsage, Finish,
        Raises, Fault, Goto, Step
<1>4. CASE PassNext
    BY <1>4 DEF PassNext, StartPass, PersistBatch, DeleteBatch, NoBatch, Hold, PersistBoundary,
        DeleteBoundary, EndPass, PassFails, DeleteUsage, Fault, Goto, Step
<1>5. CASE Die
    BY <1>5 DEF Die, Fault, Goto, Step
<1>6. CASE PollNext
    BY <1>6 DEF PollNext, PollTake, PollQuery, PollWrite, PollGivesUp, Stall
<1>7. CASE UNCHANGED vars
    BY <1>7
<1> QED
    BY <1>1, <1>2, <1>3, <1>4, <1>5, <1>6, <1>7 DEF Next

LEMMA BusinessFrame ==
    ASSUME [Next]_vars
    PROVE  /\ UNCHANGED stored \/ PersistBatch
           /\ UNCHANGED intervals \/ PersistBoundary
           /\ UNCHANGED observations \/ PersistBatch \/ PersistBoundary \/ PollWrite
           /\ \/ UNCHANGED pollVars
              \/ (\E a \in Account : PollTake(a))
              \/ PollQuery \/ PollWrite \/ PollGivesUp \/ Stall
<1> USE DEF vars, spoolVars, cpaVars, readerVars, mainVars, businessVars, pollVars, PassOnly
<1>1. CASE CPA
    BY <1>1 DEF CPA, Publish
<1>2. CASE ReaderNext
    BY <1>2 DEF ReaderNext, ReadRecord, SendPing, ReadPong, ReaderFails, Unsubscribe, ReaderStops,
        Finish, Fault, AppendUsage
<1>3. CASE SessionNext
    BY <1>3 DEF SessionNext, Recover, Flush, FlushInLoop, Connect, ConnectFails, Begin, BeginFails,
        QueryOpening, Ask, CaptureOpening, Heartbeat, Leave, FinishDead, QueryClosing,
        FinishReliable, FinishUncertain, Join, LastFlush, Query, FinishAs, FinishSession,
        RecoverInterruptedSession, BeginSession, TouchSession, FlushTo, AppendUsage, Finish,
        Raises, Fault, Goto, Step
<1>4. CASE PassNext
    BY <1>4 DEF PassNext, StartPass, PersistBatch, DeleteBatch, NoBatch, Hold, PersistBoundary,
        DeleteBoundary, EndPass, PassFails, DeleteUsage, Fault, Goto, Step
<1>5. CASE Die
    BY <1>5 DEF Die, Fault, Goto, Step
<1>6. CASE PollNext
    BY <1>6 DEF PollNext, PollTake, PollQuery, PollWrite, PollGivesUp, Stall
<1>7. CASE UNCHANGED vars
    BY <1>7
<1> QED
    BY <1>1, <1>2, <1>3, <1>4, <1>5, <1>6, <1>7 DEF Next

-----------------------------------------------------------------------------
(* The records of the queue of boundaries *)

LEMMA ConnectedRecord ==
    ASSUME NEW a \in Account, NEW s \in 0 .. MaxSessions, NEW t \in Time
    PROVE  /\ Connected(a, s, t) \in Boundary
           /\ Connected(a, s, t).kind = "connected"
           /\ Connected(a, s, t).account = a
           /\ Connected(a, s, t).session = s
           /\ Connected(a, s, t).connected = t
           /\ Connected(a, s, t).reliable = FALSE
           /\ Connected(a, s, t).sample = Never
BY DEF Connected, Boundary

LEMMA OpeningRecord ==
    ASSUME NEW a \in Account, NEW s \in 0 .. MaxSessions, NEW t \in Time,
           NEW at \in Time \cup {Never}, NEW id \in Nat
    PROVE  /\ OpeningSample(a, s, t, at, id) \in Boundary
           /\ OpeningSample(a, s, t, at, id).kind = "opening_sample"
           /\ OpeningSample(a, s, t, at, id).account = a
           /\ OpeningSample(a, s, t, at, id).session = s
           /\ OpeningSample(a, s, t, at, id).connected = t
           /\ OpeningSample(a, s, t, at, id).reliable = FALSE
           /\ OpeningSample(a, s, t, at, id).sample = at
           /\ OpeningSample(a, s, t, at, id).required = id
BY DEF OpeningSample, Connected, Boundary

LEMMA DisconnectedRecord ==
    ASSUME NEW a \in Account, NEW s \in 0 .. MaxSessions, NEW t \in Time,
           NEW end \in Time \cup {Never}, NEW ok \in BOOLEAN,
           NEW at \in Time \cup {Never}, NEW id \in Nat
    PROVE  /\ Disconnected(a, s, t, end, ok, at, id) \in Boundary
           /\ Disconnected(a, s, t, end, ok, at, id).kind = "disconnected"
           /\ Disconnected(a, s, t, end, ok, at, id).account = a
           /\ Disconnected(a, s, t, end, ok, at, id).session = s
           /\ Disconnected(a, s, t, end, ok, at, id).connected = t
           /\ Disconnected(a, s, t, end, ok, at, id).disconnected = end
           /\ Disconnected(a, s, t, end, ok, at, id).reliable = ok
           /\ Disconnected(a, s, t, end, ok, at, id).sample = at
           /\ Disconnected(a, s, t, end, ok, at, id).required = id
BY DEF Disconnected, Connected, Boundary

\* One transaction appends one record per account.
LEMMA Inserted ==
    ASSUME boundaries \in Seq(Boundary), NEW S \in SUBSET Boundary, IsFiniteSet(S), Insert(S)
    PROVE  \E rows \in Seq(Boundary) :
             /\ boundaries' = boundaries \o rows
             /\ Range(rows) = S
             /\ \A i, j \in 1 .. Len(rows) : i < j => rows[i].account < rows[j].account
<1>1. Cardinality(S) \in Nat
    BY FS_CardinalityType
<1>2. PICK rows \in [1 .. Cardinality(S) -> S] :
        /\ \A i, j \in DOMAIN rows : i < j => rows[i].account < rows[j].account
        /\ Range(rows) = S
        /\ boundaries' = boundaries \o rows
    BY DEF Insert
<1>3. rows \in [1 .. Cardinality(S) -> Boundary]
    BY <1>2
<1>4. rows \in Seq(Boundary)
    BY <1>1, <1>3
<1>5. DOMAIN rows = 1 .. Len(rows)
    BY <1>4
<1> QED
    BY <1>2, <1>4, <1>5

\* A sequence with rows appended, element by element.
LEMMA Concatenated ==
    ASSUME NEW S, NEW s \in Seq(S), NEW rows \in Seq(S), NEW t, t = s \o rows
    PROVE  /\ t \in Seq(S)
           /\ Len(t) = Len(s) + Len(rows)
           /\ \A k \in 1 .. Len(s) : k \in 1 .. Len(t) /\ t[k] = s[k]
           /\ \A k \in 1 .. Len(t) :
                \/ k \in 1 .. Len(s) /\ t[k] = s[k]
                \/ k > Len(s) /\ k - Len(s) \in 1 .. Len(rows) /\ t[k] = rows[k - Len(s)]
           /\ Range(t) = Range(s) \cup Range(rows)
<1>1. /\ t \in Seq(S) /\ Len(t) = Len(s) + Len(rows)
      /\ \A i \in 1 .. Len(s) + Len(rows) :
            t[i] = IF i <= Len(s) THEN s[i] ELSE rows[i - Len(s)]
    BY ConcatProperties
<1>2. Len(s) \in Nat /\ Len(rows) \in Nat
    OBVIOUS
<1>3. Range(t) = Range(s) \cup Range(rows)
    BY RangeConcatenation
<1> QED
    BY <1>1, <1>2, <1>3

LEMMA InRange ==
    ASSUME NEW S, NEW s \in Seq(S)
    PROVE  /\ DOMAIN s = 1 .. Len(s) /\ Len(s) \in Nat
           /\ \A k \in 1 .. Len(s) : s[k] \in Range(s) /\ s[k] \in S
           /\ \A x \in Range(s) : x \in S /\ \E k \in 1 .. Len(s) : s[k] = x
BY DEF Range

-----------------------------------------------------------------------------
(* Types *)

LEMMA Fields ==
    ASSUME TypeOK
    PROVE  /\ now \in Nat /\ now \in Time /\ MaxEvents \in Nat /\ MaxSessions \in Nat
           /\ session.key \in 0 .. MaxSessions /\ session.active \in BOOLEAN
           /\ session.connected \in Time /\ session.heartbeat \in Time
           /\ session.accounts \in SUBSET Account
           /\ barrier.state \in {"none", "asked", "sent", "failed", "done"} /\ barrier.id \in Nat
           /\ pass.step \in {"off", "batch", "delete", "bounds", "drop"} /\ pass.count \in Nat
           /\ pass.todo \in Seq(Boundary) /\ pass.blocked \in SUBSET Account
           /\ poll.step \in {"idle", "query", "write"} /\ poll.account \in Account \cup {0}
           /\ poll.at \in Time /\ poll.cost \in Nat
<1>1. now \in Nat /\ MaxEvents \in Nat /\ MaxSessions \in Nat /\ now <= MaxEvents
    BY CPACollectorAssumption DEF TypeOK, now
<1>2. session \in Session
    BY DEF TypeOK, SpoolTypeOK
<1> QED
    BY <1>1, <1>2 DEF TypeOK, Session, Time

LEMMA NeverIsNoTime == Never \in Int /\ \A t \in Time : t \in Nat /\ t # Never /\ Never < t
BY CPACollectorAssumption DEF Time, Never

LEMMA RowFields ==
    ASSUME TypeOK
    PROVE  /\ \A i \in intervals :
                /\ i.account \in Account /\ i.session \in 1 .. MaxSessions /\ i.session \in Nat
                /\ i.connected \in Time /\ i.disconnected \in Int
                /\ i.disconnected = Never \/ i.disconnected \in Time
           /\ \A o \in observations :
                /\ o.account \in Account /\ o.session \in Nat /\ o.at \in Time
           /\ MaxSessions \in Nat
<1>1. MaxSessions \in Nat /\ Never \in Int /\ \A t \in Time : t \in Int
    BY CPACollectorAssumption, NeverIsNoTime
<1>2. intervals \subseteq Interval /\ observations \subseteq Observation
    BY DEF TypeOK
<1> QED
    BY <1>1, <1>2 DEF Interval, Observation

LEMMA RecordFields ==
    ASSUME NEW r \in Boundary
    PROVE  /\ r.account \in Account /\ r.session \in Nat /\ r.session \in 0 .. MaxSessions
           /\ r.connected \in Time /\ r.connected \in Nat
           /\ r.disconnected = Never \/ r.disconnected \in Time
           /\ r.sample = Never \/ r.sample \in Time
           /\ r.disconnected \in Int /\ r.sample \in Int /\ r.required \in Nat
           /\ r.kind \in {"connected", "opening_sample", "disconnected"}
<1>1. MaxSessions \in Nat /\ Never \in Int /\ \A t \in Time : t \in Nat /\ t \in Int
    BY CPACollectorAssumption, NeverIsNoTime
<1> QED
    BY <1>1 DEF Boundary

LEMMA MaxUsageIdTyped ==
    ASSUME usage \in Seq(Usage)
    PROVE  MaxUsageId \in Nat
<1>1. CASE usage = <<>>
    BY <1>1 DEF MaxUsageId
<1>2. CASE usage # <<>>
  <2>1. Len(usage) \in 1 .. Len(usage)
      BY <1>2, EmptySeq
  <2>2. usage[Len(usage)] \in Usage
      BY <2>1, ElementOfSeq
  <2> QED
      BY <1>2, <2>2 DEF MaxUsageId, Usage
<1> QED
    BY <1>1, <1>2

\* Every record that is appended describes the session of its time.
Recorded(r) ==
    /\ r.session = session'.key /\ 1 <= r.session
    /\ r.connected = session'.connected
    /\ r.account \in Account
    /\ \/ /\ r.kind = "connected"
          /\ ~session.active /\ session'.key = session.key + 1
          /\ r.sample = Never /\ ~r.reliable
       \/ /\ r.kind = "opening_sample"
          /\ session' = session /\ pc = "opening" /\ barrier.state = "done"
          /\ r.connected = connected
          /\ r.sample = sampled[r.account] /\ r.sample # Never /\ r.required = barrier.id
          /\ ~r.reliable
       \/ /\ r.kind = "disconnected"
          /\ session.active /\ session' = [session EXCEPT !.active = FALSE]
          /\ r.disconnected # Never
          /\ \/ r.sample = Never /\ ~r.reliable
             \/ /\ pc = "last sample" /\ barrier.state = "done"
                /\ r.connected = connected
                /\ r.sample = sampled[r.account] /\ r.required = barrier.id
                /\ r.disconnected = now

Appends(rows) ==
    /\ boundaries' = boundaries \o rows
    /\ \A r \in Range(rows) : Recorded(r)
    /\ \A i, j \in 1 .. Len(rows) : i < j => rows[i].account < rows[j].account
    /\ UNCHANGED <<usage, nextId, published, businessVars, pass>>

LEMMA RowsAppended ==
    ASSUME TypeOK, UNCHANGED <<usage, nextId, published, businessVars, pass>>,
           NEW A \in SUBSET Account, NEW f,
           \A a \in A : f[a] \in Boundary /\ Recorded(f[a]),
           NEW S, S = {f[a] : a \in A}, Insert(S)
    PROVE  \E rows \in Seq(Boundary) : Appends(rows)
<1> DEFINE g == [a \in A |-> f[a]]
<1>1. IsFiniteSet(A)
    BY CPACollectorAssumption, FS_Subset
<1>2. g \in Surjection(A, S)
    BY DEF Surjection
<1>3. IsFiniteSet(S)
  <2> HIDE DEF g
  <2> QED
      BY <1>1, <1>2, FS_Surjection
<1>4. S \in SUBSET Boundary /\ \A r \in S : Recorded(r)
    OBVIOUS
<1>5. PICK rows \in Seq(Boundary) :
        /\ boundaries' = boundaries \o rows /\ Range(rows) = S
        /\ \A i, j \in 1 .. Len(rows) : i < j => rows[i].account < rows[j].account
    BY <1>3, <1>4, Inserted DEF TypeOK, SpoolTypeOK
<1> QED
    BY <1>4, <1>5 DEF Appends

LEMMA SessionBegins ==
    ASSUME TypeOK, SessionsBegun, NEW A \in SUBSET Account, Begin(A)
    PROVE  \E rows \in Seq(Boundary) : Appends(rows)
<1> DEFINE C(a) == Connected(a, session.key + 1, now)
           f == [a \in A |-> C(a)]
           S == {Connected(a, session.key + 1, now) : a \in A}
<1>1. /\ ~session.active /\ session'.key = session.key + 1 /\ session'.connected = now
      /\ Insert(S) /\ UNCHANGED <<usage, nextId, published, businessVars, pass>>
    BY DEF Begin, BeginSession, cpaVars
<1>2. session.key \in 0 .. MaxSessions /\ session.key < MaxSessions /\ MaxSessions \in Nat
      /\ now \in Time
    BY Fields DEF Begin, SessionsBegun
<1>3. ASSUME NEW a \in A
      PROVE  C(a) \in Boundary /\ Recorded(C(a))
  <2>1. session.key + 1 \in 0 .. MaxSessions /\ 1 <= session.key + 1 /\ a \in Account
      BY <1>2
  <2>2. /\ C(a) \in Boundary /\ C(a).kind = "connected" /\ C(a).account = a
        /\ C(a).session = session.key + 1 /\ C(a).connected = now
        /\ ~C(a).reliable /\ C(a).sample = Never
    <3>1. C(a) \in Boundary
        BY <2>1, <1>2 DEF Connected, Boundary
    <3> QED
        BY <3>1 DEF Connected
  <2> HIDE DEF C
  <2> QED
      BY <1>1, <2>1, <2>2 DEF Recorded
<1>4. S = {f[a] : a \in A}
    OBVIOUS
<1>5. \A a \in A : f[a] \in Boundary /\ Recorded(f[a])
  <2> HIDE DEF C
  <2>1. \A a \in A : f[a] = C(a)
      OBVIOUS
  <2> QED
      BY <2>1, <1>3
<1> HIDE DEF f, S
<1> QED
    BY <1>1, <1>4, <1>5, RowsAppended

LEMMA OpeningsCaptured ==
    ASSUME TypeOK, SessionsBegun, Control, CaptureOpening
    PROVE  \E rows \in Seq(Boundary) : Appends(rows)
<1> DEFINE O(a) == OpeningSample(a, session.key, connected, sampled[a], barrier.id)
           f == [a \in Sampled |-> O(a)]
           S == {OpeningSample(a, session.key, connected, sampled[a], barrier.id) : a \in Sampled}
<1>1. /\ pc = "opening" /\ barrier.state = "done" /\ Insert(S)
      /\ UNCHANGED <<session, usage, nextId, published, businessVars, pass>>
    BY DEF CaptureOpening, cpaVars
<1>2. /\ session.key \in 0 .. MaxSessions /\ 1 <= session.key /\ session.connected = connected
      /\ connected \in Time /\ barrier.id \in Nat
    BY <1>1, Fields DEF SessionsBegun, Control, Running, TypeOK
<1>3. ASSUME NEW a \in Sampled
      PROVE  O(a) \in Boundary /\ Recorded(O(a))
  <2>1. a \in Account /\ sampled[a] \in Time \cup {Never} /\ sampled[a] # Never
      BY DEF Sampled, TypeOK
  <2>2. /\ O(a) \in Boundary /\ O(a).kind = "opening_sample" /\ O(a).account = a
        /\ O(a).session = session.key /\ O(a).connected = connected
        /\ ~O(a).reliable /\ O(a).sample = sampled[a] /\ O(a).required = barrier.id
    BY <2>1, <1>2 DEF OpeningSample, Connected, Boundary
  <2> HIDE DEF O
  <2> QED
      BY <1>1, <1>2, <2>1, <2>2 DEF Recorded
<1>4. S = {f[a] : a \in Sampled}
    OBVIOUS
<1>5. \A a \in Sampled : f[a] \in Boundary /\ Recorded(f[a])
  <2> HIDE DEF O
  <2>1. \A a \in Sampled : f[a] = O(a)
      OBVIOUS
  <2> QED
      BY <2>1, <1>3
<1>6. Sampled \in SUBSET Account
    BY DEF Sampled
<1> HIDE DEF f, S
<1> QED
    BY <1>1, <1>4, <1>5, <1>6, RowsAppended

\* A session that ends: one disconnected record per account.
LEMMA SessionEnds ==
    ASSUME TypeOK, SessionsBegun, UNCHANGED <<published, businessVars, pass>>,
           NEW end \in Time, NEW ok \in BOOLEAN,
           NEW at \in [Account -> Time \cup {Never}], NEW id \in Nat,
           FinishSession({Disconnected(a, session.key, session.connected, end, ok, at[a], id)
                            : a \in session.accounts}),
           \/ ~ok /\ \A a \in Account : at[a] = Never
           \/ /\ pc = "last sample" /\ barrier.state = "done" /\ session.connected = connected
              /\ end = now /\ id = barrier.id /\ \A a \in Account : at[a] = sampled[a]
    PROVE  \E rows \in Seq(Boundary) : Appends(rows)
<1> DEFINE D(a) == Disconnected(a, session.key, session.connected, end, ok, at[a], id)
           S == {D(a) : a \in session.accounts}
<1>1. session.accounts \in SUBSET Account /\ IsFiniteSet(session.accounts)
    BY Fields, CPACollectorAssumption, FS_Subset
<1>2. \A a \in session.accounts :
        /\ D(a) \in Boundary /\ D(a).kind = "disconnected" /\ D(a).account = a
        /\ D(a).session = session.key /\ D(a).connected = session.connected
        /\ D(a).disconnected = end /\ D(a).reliable = ok /\ D(a).sample = at[a]
        /\ D(a).required = id
  <2> TAKE a \in session.accounts
  <2>1. /\ a \in Account /\ session.key \in 0 .. MaxSessions /\ session.connected \in Time
        /\ at[a] \in Time \cup {Never}
      BY <1>1, Fields
  <2> QED
      BY <2>1 DEF Disconnected, Connected, Boundary
<1>3. /\ session.active /\ session' = [session EXCEPT !.active = FALSE]
      /\ Insert(S) /\ UNCHANGED <<usage, nextId>>
    BY DEF FinishSession
<1>4. session'.key = session.key /\ session'.connected = session.connected
      /\ 1 <= session.key
    BY <1>3, Fields DEF SessionsBegun, TypeOK, SpoolTypeOK, Session
<1> HIDE DEF D
<1> DEFINE f == [a \in session.accounts |-> D(a)]
<1>5. ASSUME NEW a \in session.accounts
      PROVE  f[a] \in Boundary /\ Recorded(f[a])
  <2>1. f[a] = D(a)
      OBVIOUS
  <2> DEFINE r == D(a)
  <2>2. /\ r.kind = "disconnected" /\ r.account = a /\ a \in Account
        /\ r.session = session'.key /\ 1 <= r.session /\ r.connected = session'.connected
        /\ r.connected = session.connected
        /\ r.disconnected = end /\ r.reliable = ok /\ r.sample = at[a] /\ r.required = id
        /\ end # Never
    <3>1. end # Never
        BY NeverIsNoTime
    <3> QED
        BY <1>1, <1>2, <1>4, <3>1
  <2> HIDE DEF r
  <2>3. Recorded(r)
      BY <2>2, <1>3 DEF Recorded
  <2> QED
      BY <1>2, <2>1, <2>3 DEF r
<1>6. S = {f[a] : a \in session.accounts}
    OBVIOUS
<1> HIDE DEF f, S
<1> QED
    BY <1>1, <1>3, <1>5, <1>6, RowsAppended

LEMMA EndsUncertain ==
    ASSUME TypeOK, SessionsBegun, UNCHANGED <<published, businessVars, pass>>,
           NEW end \in Time, NEW id \in Nat,
           FinishSession({Disconnected(a, session.key, session.connected, end, FALSE, Never, id)
                            : a \in session.accounts})
    PROVE  \E rows \in Seq(Boundary) : Appends(rows)
<1> DEFINE at == [a \in Account |-> Never]
<1>1. \A a \in session.accounts : at[a] = Never
    BY Fields
<1>2. FinishSession({Disconnected(a, session.key, session.connected, end, FALSE, at[a], id)
                        : a \in session.accounts})
  <2> HIDE DEF at
  <2>1. {Disconnected(a, session.key, session.connected, end, FALSE, at[a], id)
            : a \in session.accounts}
        = {Disconnected(a, session.key, session.connected, end, FALSE, Never, id)
            : a \in session.accounts}
      BY <1>1
  <2> QED
      BY <2>1
<1>3. at \in [Account -> Time \cup {Never}] /\ \A a \in Account : at[a] = Never
    OBVIOUS
<1> HIDE DEF at
<1> QED
    BY <1>2, <1>3, SessionEnds

LEMMA BoundarySteps ==
    ASSUME TypeOK, SessionsBegun, Control, [Next]_vars
    PROVE  \/ UNCHANGED boundaries
           \/ DeleteBoundary
           \/ \E rows \in Seq(Boundary) : Appends(rows)
<1> DEFINE Goal == \E rows \in Seq(Boundary) : Appends(rows)
<1>0. MaxUsageId \in Nat
    BY MaxUsageIdTyped DEF TypeOK, SpoolTypeOK
<1>1. ASSUME Recover, boundaries' # boundaries
      PROVE  Goal
  <2>1. /\ UNCHANGED <<published, businessVars, pass>>
        /\ FinishSession({Disconnected(a, session.key, session.connected, session.heartbeat,
                                       FALSE, Never, MaxUsageId) : a \in session.accounts})
      BY <1>1 DEF Recover, RecoverInterruptedSession, spoolVars, cpaVars
  <2>2. session.heartbeat \in Time
      BY Fields
  <2> QED
      BY <1>0, <2>1, <2>2, EndsUncertain
<1>2. ASSUME FinishDead, boundaries' # boundaries
      PROVE  Goal
  <2>1. /\ UNCHANGED <<published, businessVars, pass>>
        /\ FinishSession(Disconnects(ended, FALSE, MaxUsageId))
      BY <1>2 DEF FinishDead, FinishAs, spoolVars, cpaVars
  <2>2. session.connected = connected
      BY <1>2 DEF FinishDead, Control, Running
  <2>3. FinishSession({Disconnected(a, session.key, session.connected, ended, FALSE, Never,
                                    MaxUsageId) : a \in session.accounts})
      BY <2>1, <2>2 DEF Disconnects
  <2>4. ended \in Time
      BY <1>2 DEF FinishDead, Control, TypeOK
  <2> QED
      BY <1>0, <2>1, <2>3, <2>4, EndsUncertain
<1>3. ASSUME FinishUncertain
      PROVE  Goal
  <2> DEFINE end == IF ended = Never THEN now ELSE ended
  <2>1. /\ UNCHANGED <<published, businessVars, pass>>
        /\ FinishSession(Disconnects(end, FALSE, MaxUsageId))
      BY <1>3 DEF FinishUncertain
  <2>2. session.connected = connected
      BY <1>3 DEF FinishUncertain, Control, Running
  <2>3. end \in Time
      BY Fields DEF TypeOK
  <2> HIDE DEF end
  <2>4. FinishSession({Disconnected(a, session.key, session.connected, end, FALSE, Never,
                                    MaxUsageId) : a \in session.accounts})
      BY <2>1, <2>2 DEF Disconnects
  <2> QED
      BY <1>0, <2>1, <2>3, <2>4, EndsUncertain
<1>4. ASSUME FinishReliable, boundaries' # boundaries
      PROVE  Goal
  <2>1. /\ pc = "last sample" /\ barrier.state = "done"
        /\ UNCHANGED <<published, businessVars, pass>>
        /\ FinishSession(Disconnects(now, TRUE, barrier.id))
      BY <1>4 DEF FinishReliable, FinishAs, spoolVars, cpaVars
  <2>2. session.connected = connected
      BY <2>1 DEF Control, Running
  <2>3. FinishSession({Disconnected(a, session.key, session.connected, now, TRUE, sampled[a],
                                    barrier.id) : a \in session.accounts})
      BY <2>1, <2>2 DEF Disconnects
  <2>4. /\ now \in Time /\ barrier.id \in Nat
        /\ sampled \in [Account -> Time \cup {Never}]
      BY Fields DEF TypeOK
  <2> QED
      BY <2>1, <2>2, <2>3, <2>4, SessionEnds
<1>5. ASSUME NEW A \in SUBSET Account, Begin(A)
      PROVE  Goal
    BY <1>5, SessionBegins
<1>6. CaptureOpening => Goal
    BY OpeningsCaptured
<1> QED
    BY <1>1, <1>2, <1>3, <1>4, <1>5, <1>6, SpoolFrame

-----------------------------------------------------------------------------
(* The queue of usage *)

LEMMA UsageAppended ==
    ASSUME usage \in Seq(Usage), nextId \in Nat \ {0},
           NEW events \in Seq(Event), AppendUsage(events)
    PROVE  /\ usage' \in Seq(Usage) /\ nextId' \in Nat \ {0}
           /\ Len(usage) \in Nat /\ Len(events) \in Nat
           /\ Len(usage') = Len(usage) + Len(events)
           /\ nextId' = nextId + Len(events)
           /\ \A k \in 1 .. Len(usage) : k \in 1 .. Len(usage') /\ usage'[k] = usage[k]
           /\ \A k \in 1 .. Len(events) :
                /\ Len(usage) + k \in 1 .. Len(usage')
                /\ usage'[Len(usage) + k].id = nextId + k - 1
                /\ usage'[Len(usage) + k].event = events[k]
           /\ UNCHANGED <<boundaries, session>>
<1> DEFINE rows == [i \in DOMAIN events |-> [id |-> nextId + i - 1, event |-> events[i]]]
<1>1. DOMAIN events = 1 .. Len(events) /\ Len(events) \in Nat /\ Len(usage) \in Nat
    OBVIOUS
<1>2. \A i \in DOMAIN events : [id |-> nextId + i - 1, event |-> events[i]] \in Usage
    BY <1>1 DEF Usage
<1>3. /\ rows \in Seq(Usage) /\ Len(rows) = Len(events)
      /\ \A k \in 1 .. Len(events) : rows[k].id = nextId + k - 1 /\ rows[k].event = events[k]
    BY <1>1, <1>2
<1>4. usage' = usage \o rows /\ nextId' = nextId + Len(events) /\ UNCHANGED <<boundaries, session>>
    BY DEF AppendUsage
<1> HIDE DEF rows
<1>5. /\ usage' \in Seq(Usage) /\ Len(usage') = Len(usage) + Len(rows)
      /\ \A i \in 1 .. Len(usage) + Len(rows) :
            usage'[i] = IF i <= Len(usage) THEN usage[i] ELSE rows[i - Len(usage)]
  <2>1. /\ usage \o rows \in Seq(Usage) /\ Len(usage \o rows) = Len(usage) + Len(rows)
        /\ \A i \in 1 .. Len(usage) + Len(rows) :
              (usage \o rows)[i] = IF i <= Len(usage) THEN usage[i] ELSE rows[i - Len(usage)]
      BY <1>3, ConcatProperties
  <2> QED
      BY <1>4, <2>1
<1>6. ASSUME NEW k \in 1 .. Len(events)
      PROVE  /\ Len(usage) + k \in 1 .. Len(usage) + Len(rows)
             /\ ~(Len(usage) + k <= Len(usage))
             /\ Len(usage) + k - Len(usage) = k
    BY <1>1, <1>3
<1> QED
    BY <1>1, <1>3, <1>4, <1>5, <1>6

LEMMA UsageDeleted ==
    ASSUME usage \in Seq(Usage), NEW n \in Nat, DeleteUsage(n)
    PROVE  /\ usage' \in Seq(Usage) /\ Len(usage) \in Nat /\ Len(usage') \in Nat
           /\ n <= Len(usage) => Len(usage') = Len(usage) - n
           /\ \A k \in 1 .. Len(usage') : n + k \in 1 .. Len(usage) /\ usage'[k] = usage[n + k]
<1>1. usage' = SubSeq(usage, n + 1, Len(usage)) /\ Len(usage) \in Nat
    BY DEF DeleteUsage
<1>2. \A i \in n + 1 .. Len(usage) : usage[i] \in Usage
    BY <1>1
<1> DEFINE m == n + 1
           l == Len(usage)
<1>3. m \in Int /\ l \in Int /\ \A i \in m .. l : usage[i] \in Usage
    BY <1>1, <1>2
<1>4. /\ SubSeq(usage, m, l) \in Seq(Usage)
      /\ Len(SubSeq(usage, m, l)) = IF m <= l THEN l - m + 1 ELSE 0
      /\ \A i \in 1 .. l - m + 1 : SubSeq(usage, m, l)[i] = usage[m + i - 1]
  <2> HIDE DEF m, l
  <2> QED
      BY <1>3, SubSeqProperties
<1> QED
    BY <1>1, <1>4

LEMMA UsageSteps ==
    ASSUME TypeOK, [Next]_vars
    PROVE  \/ UNCHANGED <<usage, nextId>>
           \/ DeleteBatch
           \/ \E events \in Seq(Event) :
                /\ AppendUsage(events)
                /\ UNCHANGED <<published, businessVars, pass>>
                /\ \/ /\ events = unspooled /\ unspooled' = <<>> /\ reader' = reader
                      /\ stream' = stream
                   \/ /\ stream # <<>> /\ Head(stream) # Pong /\ events = <<Head(stream)>>
                      /\ stream' = Tail(stream) /\ reader' = reader /\ reader \in Alive
                      /\ unspooled' = unspooled
<1>1. ASSUME ReadRecord, usage' # usage \/ nextId' # nextId
      PROVE  \E events \in Seq(Event) :
                /\ AppendUsage(events)
                /\ UNCHANGED <<published, businessVars, pass>>
                /\ stream # <<>> /\ Head(stream) # Pong /\ events = <<Head(stream)>>
                /\ stream' = Tail(stream) /\ reader' = reader /\ reader \in Alive
                /\ unspooled' = unspooled
  <2>1. Head(stream) \in Event
      BY <1>1 DEF ReadRecord, TypeOK
  <2>2. /\ AppendUsage(<<Head(stream)>>)
        /\ UNCHANGED <<published, businessVars, pass, reader, unspooled>>
        /\ stream # <<>> /\ Head(stream) # Pong /\ stream' = Tail(stream) /\ reader \in Alive
      BY <1>1 DEF ReadRecord, mainVars, readerVars, spoolVars, Alive
  <2>3. <<Head(stream)>> \in Seq(Event)
      BY <2>1
  <2> QED
      BY <2>2, <2>3
<1>2. ASSUME Flush \/ FlushInLoop \/ LastFlush, usage' # usage \/ nextId' # nextId
      PROVE  /\ AppendUsage(unspooled) /\ unspooled' = <<>>
             /\ UNCHANGED <<published, businessVars, pass, reader, stream>>
    BY <1>2 DEF Flush, FlushInLoop, LastFlush, FlushTo, cpaVars, spoolVars
<1>3. unspooled \in Seq(Event)
    BY DEF TypeOK
<1> QED
    BY <1>1, <1>2, <1>3, SpoolFrame

-----------------------------------------------------------------------------
(* A boundary leaves the queue *)

LEMMA FirstRemoved ==
    ASSUME NEW S, NEW s \in Seq(S), NEW n \in 1 .. Len(s), NEW e, s[n] = e,
           \A k \in 1 .. n - 1 : s[k] # e
    PROVE  /\ RemoveFirst(s, e) \in Seq(S)
           /\ Len(RemoveFirst(s, e)) = Len(s) - 1
           /\ \A k \in 1 .. Len(s) - 1 :
                RemoveFirst(s, e)[k] = IF k < n THEN s[k] ELSE s[k + 1]
<1> DEFINE I == {i \in 1 .. Len(s) : s[i] = e}
           l == Len(s)
           front == SubSeq(s, 1, n - 1)
           back == SubSeq(s, n + 1, l)
<1>1. l \in Nat /\ n \in 1 .. l
    OBVIOUS
<1>2. n \in I /\ \A i \in I : n <= i
    BY <1>1
<1>3. Min(I) = n
  <2>1. \A m \in I : (\A i \in I : m <= i) => m = n
      BY <1>1, <1>2
  <2> HIDE DEF I
  <2> QED
      BY <1>2, <2>1 DEF Min
<1>4. SelectInSeq(s, LAMBDA v : v = e) = n
    BY <1>2, <1>3 DEF SelectInSeq
<1>5. RemoveFirst(s, e) = front \o back
    BY <1>1, <1>4 DEF RemoveFirst, RemoveAt
<1>6. /\ front \in Seq(S) /\ Len(front) = n - 1
      /\ \A i \in 1 .. n - 1 : front[i] = s[i]
  <2>1. /\ SubSeq(s, 1, n - 1) \in Seq(S)
        /\ Len(SubSeq(s, 1, n - 1)) = IF 1 <= n - 1 THEN n - 1 - 1 + 1 ELSE 0
        /\ \A i \in 1 .. n - 1 - 1 + 1 : SubSeq(s, 1, n - 1)[i] = s[1 + i - 1]
      BY <1>1, SubSeqProperties
  <2> QED
      BY <1>1, <2>1
<1>7. /\ back \in Seq(S) /\ Len(back) = l - n
      /\ \A i \in 1 .. l - n : back[i] = s[n + i]
  <2>1. /\ SubSeq(s, n + 1, l) \in Seq(S)
        /\ Len(SubSeq(s, n + 1, l)) = IF n + 1 <= l THEN l - (n + 1) + 1 ELSE 0
        /\ \A i \in 1 .. l - (n + 1) + 1 : SubSeq(s, n + 1, l)[i] = s[n + 1 + i - 1]
      BY <1>1, SubSeqProperties
  <2> QED
      BY <1>1, <2>1
<1> HIDE DEF front, back, l
<1>8. /\ front \o back \in Seq(S)
      /\ Len(front \o back) = n - 1 + (l - n)
      /\ \A i \in 1 .. n - 1 + (l - n) :
            (front \o back)[i] = IF i <= n - 1 THEN front[i] ELSE back[i - (n - 1)]
  <2>1. /\ front \o back \in Seq(S)
        /\ Len(front \o back) = Len(front) + Len(back)
        /\ \A i \in 1 .. Len(front) + Len(back) :
              (front \o back)[i] = IF i <= Len(front) THEN front[i] ELSE back[i - Len(front)]
      BY <1>6, <1>7, ConcatProperties
  <2> QED
      BY <1>6, <1>7, <2>1
<1>9. ASSUME NEW k \in 1 .. l - 1
      PROVE  (front \o back)[k] = IF k < n THEN s[k] ELSE s[k + 1]
  <2>1. k \in 1 .. n - 1 + (l - n)
      BY <1>1
  <2>2. CASE k < n
      BY <1>1, <1>6, <1>8, <2>1, <2>2
  <2>3. CASE ~(k < n)
    <3>1. ~(k <= n - 1) /\ k - (n - 1) \in 1 .. l - n /\ n + (k - (n - 1)) = k + 1
        BY <1>1, <2>3
    <3> QED
        BY <1>7, <1>8, <2>1, <2>3, <3>1
  <2> QED
      BY <2>2, <2>3
<1>10. /\ RemoveFirst(s, e) \in Seq(S)
       /\ Len(RemoveFirst(s, e)) = l - 1
  <2>1. n - 1 + (l - n) = l - 1
      BY <1>1
  <2> QED
      BY <1>5, <1>8, <2>1
<1>11. \A k \in 1 .. l - 1 : RemoveFirst(s, e)[k] = IF k < n THEN s[k] ELSE s[k + 1]
    BY <1>5, <1>9
<1> QED
    BY <1>10, <1>11 DEF l

LEMMA BoundaryDropped ==
    ASSUME TypeOK, PassAligned, LeavingIsApplied, DeleteBoundary
    PROVE  /\ pass.todo # <<>> /\ pass'.todo = Tail(pass.todo) /\ pass'.step = "bounds"
           /\ pass'.blocked = pass.blocked
           /\ Head(pass.todo) \in Boundary
           /\ Applied(Head(pass.todo))
           /\ boundaries' \in Seq(Boundary)
           /\ Len(boundaries') = Len(boundaries) - 1
           /\ \E n \in 1 .. Len(boundaries) :
                /\ boundaries[n] = Head(pass.todo)
                /\ \A k \in 1 .. n - 1 : boundaries[k].account \in pass.blocked
                /\ n - 1 + Len(pass.todo) <= Len(boundaries)
                /\ \A k \in 1 .. Len(pass.todo) : boundaries[n - 1 + k] = pass.todo[k]
                /\ \A k \in 1 .. Len(boundaries) - 1 :
                     boundaries'[k] = IF k < n THEN boundaries[k] ELSE boundaries[k + 1]
<1> DEFINE r == Head(pass.todo)
<1>1. /\ pass.step = "drop" /\ pass.todo # <<>> /\ Applied(r) /\ r.account \notin pass.blocked
      /\ boundaries' = RemoveFirst(boundaries, r)
      /\ pass' = [pass EXCEPT !.step = "bounds", !.todo = Tail(@), !.moved = TRUE]
    BY DEF DeleteBoundary, LeavingIsApplied
<1>2. pass'.todo = Tail(pass.todo) /\ pass'.step = "bounds" /\ pass'.blocked = pass.blocked
    BY <1>1 DEF TypeOK
<1>3. /\ boundaries \in Seq(Boundary) /\ Len(boundaries) \in Nat
      /\ pass.todo \in Seq(Boundary) /\ Len(pass.todo) \in Nat \ {0}
      /\ r = pass.todo[1] /\ r \in Boundary
  <2>1. boundaries \in Seq(Boundary)
      BY DEF TypeOK, SpoolTypeOK
  <2>2. pass.todo \in Seq(Boundary)
      BY Fields
  <2>3. Len(pass.todo) \in Nat \ {0} /\ r = pass.todo[1] /\ r \in Boundary
      BY <1>1, <2>2
  <2>4. Len(boundaries) \in Nat
      BY <2>1
  <2> QED
      BY <2>1, <2>2, <2>3, <2>4
<1>4. PICK m \in 0 .. Len(boundaries) :
        /\ m + Len(pass.todo) <= Len(boundaries)
        /\ \A k \in 1 .. m : boundaries[k].account \in pass.blocked
        /\ \A k \in 1 .. Len(pass.todo) : boundaries[m + k] = pass.todo[k]
    BY DEF PassAligned
<1> DEFINE n == m + 1
<1>5. n \in 1 .. Len(boundaries) /\ n - 1 = m /\ boundaries[n] = r
    BY <1>3, <1>4
<1>6. \A k \in 1 .. n - 1 : boundaries[k] # r
    BY <1>1, <1>4, <1>5
<1> HIDE DEF r, n
<1>7. /\ RemoveFirst(boundaries, r) \in Seq(Boundary)
      /\ Len(RemoveFirst(boundaries, r)) = Len(boundaries) - 1
      /\ \A k \in 1 .. Len(boundaries) - 1 :
            RemoveFirst(boundaries, r)[k] = IF k < n THEN boundaries[k] ELSE boundaries[k + 1]
    BY <1>3, <1>5, <1>6, FirstRemoved
<1>8. /\ \A k \in 1 .. n - 1 : boundaries[k].account \in pass.blocked
      /\ n - 1 + Len(pass.todo) <= Len(boundaries)
      /\ \A k \in 1 .. Len(pass.todo) : boundaries[n - 1 + k] = pass.todo[k]
    BY <1>4, <1>5
<1> QED
    BY <1>1, <1>2, <1>3, <1>5, <1>7, <1>8 DEF r

LEMMA AfterDrop ==
    ASSUME TypeOK, PassAligned, LeavingIsApplied, DeleteBoundary
    PROVE  /\ boundaries' \in Seq(Boundary)
           /\ Range(boundaries') \subseteq Range(boundaries)
           /\ \A r \in Range(boundaries) : r \in Range(boundaries') \/ r = Head(pass.todo)
           /\ \A k, l \in 1 .. Len(boundaries') : k < l =>
                \E i, j \in 1 .. Len(boundaries) :
                    i < j /\ boundaries'[k] = boundaries[i] /\ boundaries'[l] = boundaries[j]
<1>1. /\ boundaries \in Seq(Boundary) /\ boundaries' \in Seq(Boundary)
      /\ Len(boundaries') = Len(boundaries) - 1 /\ Len(boundaries) \in Nat
    BY BoundaryDropped DEF TypeOK, SpoolTypeOK
<1>2. PICK n \in 1 .. Len(boundaries) :
        /\ boundaries[n] = Head(pass.todo)
        /\ \A k \in 1 .. Len(boundaries) - 1 :
                boundaries'[k] = IF k < n THEN boundaries[k] ELSE boundaries[k + 1]
    BY BoundaryDropped
<1> DEFINE at(k) == IF k < n THEN k ELSE k + 1
<1>3. \A k \in 1 .. Len(boundaries') :
        at(k) \in 1 .. Len(boundaries) /\ boundaries'[k] = boundaries[at(k)]
    BY <1>1, <1>2
<1>4. \A k, l \in 1 .. Len(boundaries') : k < l => at(k) < at(l)
    BY <1>1
<1>5. \A k \in 1 .. Len(boundaries) :
        k = n \/ \E j \in 1 .. Len(boundaries') : boundaries'[j] = boundaries[k]
  <2> TAKE k \in 1 .. Len(boundaries)
  <2>1. CASE k < n
    <3>1. k \in 1 .. Len(boundaries')
        BY <1>1, <2>1
    <3> QED
        BY <1>1, <1>2, <2>1, <3>1
  <2>2. CASE k > n
    <3>1. k - 1 \in 1 .. Len(boundaries') /\ ~(k - 1 < n) /\ k - 1 + 1 = k
        BY <1>1, <2>2
    <3>2. k - 1 \in 1 .. Len(boundaries) - 1
        BY <1>1, <3>1
    <3>3. boundaries'[k - 1] = boundaries[k]
        BY <1>2, <3>1, <3>2
    <3> QED
        BY <3>1, <3>3
  <2> QED
      BY <2>1, <2>2
<1> HIDE DEF at
<1>6. ASSUME NEW x \in Range(boundaries')
      PROVE  x \in Range(boundaries)
  <2>1. PICK k \in 1 .. Len(boundaries') : boundaries'[k] = x
      BY <1>1, InRange
  <2>2. at(k) \in 1 .. Len(boundaries) /\ boundaries[at(k)] = x
      BY <1>3, <2>1
  <2> QED
      BY <1>1, <2>2, InRange
<1>7. ASSUME NEW r \in Range(boundaries)
      PROVE  r \in Range(boundaries') \/ r = Head(pass.todo)
  <2>1. PICK k \in 1 .. Len(boundaries) : boundaries[k] = r
      BY <1>1, InRange
  <2> QED
      BY <1>1, <1>2, <1>5, <2>1, InRange
<1> QED
    BY <1>1, <1>3, <1>4, <1>6, <1>7

-----------------------------------------------------------------------------
(* Types *)

LEMMA SpoolTyped ==
    ASSUME TypeOK, SessionsBegun, Control, PassAligned, LeavingIsApplied, [Next]_vars
    PROVE  SpoolTypeOK'
<1>1. usage' \in Seq(Usage) /\ nextId' \in Nat \ {0}
  <2>1. usage \in Seq(Usage) /\ nextId \in Nat \ {0} /\ pass.count \in Nat
      BY Fields DEF TypeOK, SpoolTypeOK
  <2>2. CASE DeleteBatch
    <3>1. DeleteUsage(pass.count)
        BY <2>2 DEF DeleteBatch
    <3> QED
        BY <2>1, <3>1, UsageDeleted DEF DeleteUsage
  <2>3. ASSUME NEW events \in Seq(Event), AppendUsage(events)
        PROVE  usage' \in Seq(Usage) /\ nextId' \in Nat \ {0}
      BY <2>1, <2>3, UsageAppended
  <2> QED
      BY <2>1, <2>2, <2>3, UsageSteps
<1>2. boundaries' \in Seq(Boundary)
  <2>1. boundaries \in Seq(Boundary)
      BY DEF TypeOK, SpoolTypeOK
  <2>2. ASSUME NEW rows \in Seq(Boundary), Appends(rows)
        PROVE  boundaries' \in Seq(Boundary)
      BY <2>1, <2>2 DEF Appends
  <2> QED
      BY <2>1, <2>2, BoundarySteps, AfterDrop
<1>3. session' \in Session
  <2>1. session \in Session /\ now \in Time /\ session.key \in 0 .. MaxSessions
        /\ MaxSessions \in Nat
      BY Fields DEF TypeOK, SpoolTypeOK
  <2>2. ASSUME NEW A \in SUBSET Account, Begin(A)
        PROVE  session' \in Session
    <3>1. session.key + 1 \in 0 .. MaxSessions
        BY <2>1, <2>2 DEF Begin, SessionsBegun
    <3> QED
        BY <2>1, <2>2, <3>1 DEF Begin, BeginSession, Session
  <2>3. CASE Heartbeat
      BY <2>1, <2>3 DEF Heartbeat, TouchSession, Session
  <2>4. ASSUME Recover \/ FinishDead \/ FinishReliable \/ FinishUncertain
        PROVE  session' = session \/ session' = [session EXCEPT !.active = FALSE]
      BY <2>4 DEF Recover, FinishDead, FinishReliable, FinishUncertain, FinishAs,
         RecoverInterruptedSession, FinishSession, spoolVars
  <2>5. [session EXCEPT !.active = FALSE] \in Session
      BY <2>1 DEF Session
  <2> QED
      BY <2>1, <2>2, <2>3, <2>4, <2>5, SpoolFrame
<1> QED
    BY <1>1, <1>2, <1>3 DEF SpoolTypeOK

LEMMA ReaderTyped ==
    ASSUME TypeOK, [Next]_vars
    PROVE  /\ published' \in Seq(Account) /\ now' <= MaxEvents
           /\ subscribed' \in BOOLEAN
           /\ stream' \in Seq(Event \cup {Pong})
           /\ reader' \in Reader
           /\ ended' \in Time \cup {Never}
           /\ barrier' \in [state : {"none", "asked", "sent", "failed", "done"}, id : Nat]
           /\ unspooled' \in Seq(Event)
<1>1. /\ published \in Seq(Account) /\ now \in Nat /\ now <= MaxEvents /\ MaxEvents \in Nat
      /\ now \in Time /\ stream \in Seq(Event \cup {Pong}) /\ unspooled \in Seq(Event)
      /\ subscribed \in BOOLEAN /\ reader \in Reader /\ ended \in Time \cup {Never}
    BY Fields DEF TypeOK
<1>2. barrier \in [state : {"none", "asked", "sent", "failed", "done"}, id : Nat]
    BY DEF TypeOK
<1>3. ASSUME NEW a \in Account, Publish(a)
      PROVE  /\ published' \in Seq(Account) /\ now' <= MaxEvents
             /\ stream' \in Seq(Event \cup {Pong})
  <2>1. published' = Append(published, a) /\ now < MaxEvents
      BY <1>3 DEF Publish
  <2>2. published' \in Seq(Account) /\ Len(published') = Len(published) + 1
      BY <1>1, <2>1, AppendProperties
  <2>3. now + 1 \in Event \cup {Pong}
      BY <1>1, <2>1 DEF Event
  <2>4. stream' = stream \/ stream' = Append(stream, now + 1)
      BY <1>3 DEF Publish
  <2> QED
    <3>1. Append(stream, now + 1) \in Seq(Event \cup {Pong})
        BY <1>1, <2>3, AppendProperties
    <3>2. now' <= MaxEvents
        BY <1>1, <2>1, <2>2 DEF now
    <3> QED
        BY <1>1, <2>2, <2>4, <3>1, <3>2
<1>4. stream # <<>> => Tail(stream) \in Seq(Event \cup {Pong}) /\ Head(stream) \in Event \cup {Pong}
    BY <1>1, HeadTailProperties
<1>5. Append(stream, Pong) \in Seq(Event \cup {Pong})
    BY <1>1, AppendProperties
<1>6. published' \in Seq(Account) /\ now' <= MaxEvents
    BY <1>1, <1>3, ReaderFrame DEF now
<1>7. subscribed' \in BOOLEAN
  <2>1. ReadRecord => subscribed' = subscribed \/ subscribed' = FALSE
      BY DEF ReadRecord
  <2>2. Connect => subscribed' = TRUE
      BY DEF Connect
  <2>3. ReaderFails \/ Unsubscribe \/ BeginFails \/ FinishUncertain \/ Join \/ Die
            => subscribed' = FALSE
      BY DEF ReaderFails, Unsubscribe, BeginFails, FinishUncertain, Join, Die
  <2>4. subscribed' = subscribed \/ subscribed' = FALSE \/ subscribed' = TRUE
      BY <2>1, <2>2, <2>3, ReaderFrame
  <2> QED
      BY <1>1, <2>4
<1>8. stream' \in Seq(Event \cup {Pong})
  <2>1. ReadRecord \/ ReadPong => stream # <<>> /\ stream' = Tail(stream)
      BY DEF ReadRecord, ReadPong
  <2>2. SendPing => stream' = Append(stream, Pong)
      BY DEF SendPing
  <2>3. ReaderFails \/ Connect \/ BeginFails \/ FinishUncertain \/ Join \/ Die
            => stream' = <<>>
      BY DEF ReaderFails, Connect, BeginFails, FinishUncertain, Join, Die
  <2>4. <<>> \in Seq(Event \cup {Pong})
      BY EmptySeq
  <2> QED
      BY <1>1, <1>3, <1>4, <1>5, <2>1, <2>2, <2>3, <2>4, ReaderFrame
<1>9. reader' \in Reader /\ ended' \in Time \cup {Never}
    BY <1>1, ReaderFrame DEF ReadRecord, SendPing, ReadPong, ReaderFails, Unsubscribe,
       ReaderStops, Begin, FinishUncertain, Die, Finish, Reader, readerVars
<1>10. barrier' \in [state : {"none", "asked", "sent", "failed", "done"}, id : Nat]
  <2>1. [barrier EXCEPT !.state = "failed"]
            \in [state : {"none", "asked", "sent", "failed", "done"}, id : Nat]
      BY <1>2
  <2>2. [barrier EXCEPT !.state = "sent"]
            \in [state : {"none", "asked", "sent", "failed", "done"}, id : Nat]
      BY <1>2
  <2>3. [barrier EXCEPT !.state = "asked"]
            \in [state : {"none", "asked", "sent", "failed", "done"}, id : Nat]
      BY <1>2
  <2>4. [state |-> "done", id |-> MaxUsageId]
            \in [state : {"none", "asked", "sent", "failed", "done"}, id : Nat]
      BY MaxUsageIdTyped DEF TypeOK, SpoolTypeOK
  <2>5. NoBarrier \in [state : {"none", "asked", "sent", "failed", "done"}, id : Nat]
      BY DEF NoBarrier
  <2>6. \/ barrier' = barrier \/ barrier' = NoBarrier
        \/ barrier' = [barrier EXCEPT !.state = "failed"]
        \/ barrier' = [barrier EXCEPT !.state = "sent"]
        \/ barrier' = [barrier EXCEPT !.state = "asked"]
        \/ barrier' = [state |-> "done", id |-> MaxUsageId]
      BY ReaderFrame DEF ReadRecord, SendPing, ReadPong, ReaderFails, ReaderStops, Begin,
         QueryOpening, Ask, QueryClosing, Query, FinishUncertain, Join, Die, Finish, readerVars
  <2> QED
      BY <1>2, <2>1, <2>2, <2>3, <2>4, <2>5, <2>6
<1>11. unspooled' \in Seq(Event)
  <2>1. ASSUME ReadRecord
        PROVE  unspooled' = unspooled \/ unspooled' = Append(unspooled, Head(stream))
      BY <2>1 DEF ReadRecord, readerVars
  <2>2. ASSUME ReadRecord
        PROVE  Append(unspooled, Head(stream)) \in Seq(Event)
    <3>1. Head(stream) \in Event
        BY <1>4, <2>2 DEF ReadRecord
    <3> QED
        BY <1>1, <3>1, AppendProperties
  <2>3. ASSUME Flush \/ FlushInLoop \/ LastFlush \/ Die
        PROVE  unspooled' = unspooled \/ unspooled' = <<>>
      BY <2>3 DEF Flush, FlushInLoop, LastFlush, FlushTo, Die
  <2>4. <<>> \in Seq(Event)
      BY EmptySeq
  <2> QED
      BY <1>1, <2>1, <2>2, <2>3, <2>4, ReaderFrame
<1> QED
    BY <1>6, <1>7, <1>8, <1>9, <1>10, <1>11

\* A batch: the first elements of a queue.
LEMMA BatchOf ==
    ASSUME NEW S, NEW s \in Seq(S), NEW size \in Nat \ {0}
    PROVE  LET n == Min({size, Len(s)})
           IN  /\ n \in 0 .. Len(s) /\ n <= size
               /\ SubSeq(s, 1, n) \in Seq(S)
               /\ Len(SubSeq(s, 1, n)) = n
               /\ \A k \in 1 .. n : SubSeq(s, 1, n)[k] = s[k]
<1> DEFINE l == Len(s)
           n == Min({size, l})
<1>1. l \in Nat
    OBVIOUS
<1>2. n = IF size <= l THEN size ELSE l
  <2>1. CASE size <= l
    <3>1. \A m \in {size, l} : (\A i \in {size, l} : m <= i) => m = size
        BY <1>1, <2>1
    <3> QED
        BY <1>1, <2>1, <3>1 DEF Min
  <2>2. CASE ~(size <= l)
    <3>1. \A m \in {size, l} : (\A i \in {size, l} : m <= i) => m = l
        BY <1>1, <2>2
    <3>2. \A i \in {size, l} : l <= i
        BY <1>1, <2>2
    <3> QED
        BY <1>1, <2>2, <3>1, <3>2 DEF Min
  <2> QED
      BY <2>1, <2>2
<1>3. n \in 0 .. l /\ n <= size
    BY <1>1, <1>2
<1> HIDE DEF n
<1>4. /\ SubSeq(s, 1, n) \in Seq(S)
      /\ Len(SubSeq(s, 1, n)) = IF 1 <= n THEN n - 1 + 1 ELSE 0
      /\ \A i \in 1 .. n - 1 + 1 : SubSeq(s, 1, n)[i] = s[1 + i - 1]
    BY <1>3, SubSeqProperties
<1>5. Len(SubSeq(s, 1, n)) = n /\ \A i \in 1 .. n : SubSeq(s, 1, n)[i] = s[i]
    BY <1>3, <1>4
<1> QED
    BY <1>3, <1>4, <1>5 DEF n

LEMMA TakenTyped ==
    ASSUME TypeOK
    PROVE  Taken \in 0 .. Len(usage) /\ Len(usage) \in Nat
<1>1. usage \in Seq(Usage) /\ UsageBatch \in Nat \ {0} /\ Len(usage) \in Nat
    BY CPACollectorAssumption DEF TypeOK, SpoolTypeOK
<1>2. Min({UsageBatch, Len(usage)}) \in 0 .. Len(usage)
    BY <1>1, BatchOf
<1> QED
    BY <1>1, <1>2 DEF Taken

LEMMA MainTyped ==
    ASSUME TypeOK, LeavingIsApplied, [Next]_vars
    PROVE  /\ pc' \in Step /\ connected' \in Time /\ openings' \in SUBSET Account
           /\ sampled' \in [Account -> Time \cup {Never}]
           /\ pass' \in [step : {"off", "batch", "delete", "bounds", "drop"}, count : Nat,
                         todo : Seq(Boundary), blocked : SUBSET Account, moved : BOOLEAN]
           /\ faults' \in Nat
<1>1. /\ now \in Time /\ pc \in Step /\ connected \in Time /\ openings \in SUBSET Account
      /\ sampled \in [Account -> Time \cup {Never}] /\ faults \in Nat
    BY Fields DEF TypeOK
<1>2. pass \in [step : {"off", "batch", "delete", "bounds", "drop"}, count : Nat,
                todo : Seq(Boundary), blocked : SUBSET Account, moved : BOOLEAN]
    BY DEF TypeOK
<1>3. pc' \in Step /\ faults' \in Nat
    BY <1>1, MainFrame
<1>4. connected' \in Time /\ openings' \in SUBSET Account
  <2>1. 0 \in Time
      BY Fields DEF Time
  <2> QED
      BY <1>1, <2>1, MainFrame DEF Begin, CaptureOpening, Join, Die
<1>5. sampled' \in [Account -> Time \cup {Never}]
  <2>1. NoSample \in [Account -> Time \cup {Never}]
      BY DEF NoSample
  <2>2. ASSUME QueryOpening \/ QueryClosing
        PROVE  sampled' \in [Account -> Time \cup {Never}]
    <3>1. PICK S : sampled' = [a \in Account |-> IF a \in S THEN now ELSE Never]
        BY <2>2 DEF QueryOpening, QueryClosing, Query
    <3> QED
        BY <1>1, <3>1
  <2> QED
      BY <1>1, <2>1, <2>2, MainFrame
<1>6. pass' \in [step : {"off", "batch", "delete", "bounds", "drop"}, count : Nat,
                 todo : Seq(Boundary), blocked : SUBSET Account, moved : BOOLEAN]
  <2> DEFINE P == [step : {"off", "batch", "delete", "bounds", "drop"}, count : Nat,
                   todo : Seq(Boundary), blocked : SUBSET Account, moved : BOOLEAN]
  <2>1. NoPass \in P /\ [NoPass EXCEPT !.step = "batch"] \in P
    <3>1. <<>> \in Seq(Boundary) /\ {} \in SUBSET Account
        BY EmptySeq
    <3>2. NoPass \in P
        BY <3>1 DEF NoPass
    <3> QED
        BY <3>2
  <2>2. ToBoundaries \in P
    <3> DEFINE m == Min({BoundaryBatch, Len(boundaries)})
    <3>1. SubSeq(boundaries, 1, m) \in Seq(Boundary)
        BY BatchOf, CPACollectorAssumption DEF TypeOK, SpoolTypeOK
    <3> HIDE DEF m
    <3>2. [NoPass EXCEPT !.step = "bounds", !.todo = SubSeq(boundaries, 1, m)] \in P
        BY <2>1, <3>1
    <3> QED
        BY <3>2 DEF ToBoundaries, m
  <2>3. ASSUME PersistBatch
        PROVE  pass' \in P
    <3>1. Taken \in Nat /\ pass' = [pass EXCEPT !.step = "delete", !.count = Taken]
        BY <2>3, TakenTyped DEF PersistBatch
    <3> QED
        BY <1>2, <3>1
  <2>4. ASSUME Hold
        PROVE  pass' \in P
    <3> DEFINE r == Head(pass.todo)
    <3>1. pass.todo \in Seq(Boundary) /\ pass.todo # <<>>
        BY <2>4, Fields DEF Hold
    <3>2. Tail(pass.todo) \in Seq(Boundary) /\ r \in Boundary
        BY <3>1, HeadTailProperties
    <3>3. pass' = [pass EXCEPT !.todo = Tail(@), !.blocked = @ \cup {r.account}]
        BY <2>4 DEF Hold
    <3>4. r.account \in Account
        BY <3>2 DEF Boundary
    <3> HIDE DEF r
    <3> QED
        BY <1>2, <3>2, <3>3, <3>4
  <2>5. ASSUME DeleteBoundary
        PROVE  pass' \in P
    <3>1. pass.todo \in Seq(Boundary) /\ pass.todo # <<>>
        BY <2>5, Fields DEF DeleteBoundary, LeavingIsApplied
    <3>2. Tail(pass.todo) \in Seq(Boundary)
        BY <3>1, HeadTailProperties
    <3>3. pass' = [pass EXCEPT !.step = "bounds", !.todo = Tail(@), !.moved = TRUE]
        BY <2>5 DEF DeleteBoundary
    <3> QED
        BY <1>2, <3>2, <3>3
  <2>6. ASSUME PersistBoundary
        PROVE  pass' \in P
    <3>1. pass' = [pass EXCEPT !.step = "drop"]
        BY <2>6 DEF PersistBoundary
    <3> QED
        BY <1>2, <3>1
  <2> HIDE DEF P
  <2>7. ASSUME StartPass \/ DeleteBatch \/ NoBatch \/ EndPass
        PROVE  \/ pass' = [NoPass EXCEPT !.step = "batch"] \/ pass' = NoPass
               \/ pass' = ToBoundaries
      BY <2>7 DEF StartPass, DeleteBatch, NoBatch, EndPass
  <2> QED
      BY <1>2, <2>1, <2>2, <2>3, <2>4, <2>5, <2>6, <2>7, MainFrame DEF P
<1> QED
    BY <1>1, <1>3, <1>4, <1>5, <1>6

-----------------------------------------------------------------------------
(* What a boundary does to the intervals *)

LEMMA NextBoundary ==
    ASSUME TypeOK, PassAligned, pass.todo # <<>>
    PROVE  /\ Head(pass.todo) \in Boundary
           /\ Head(pass.todo) \in Range(boundaries)
           /\ Tail(pass.todo) \in Seq(Boundary)
           /\ Len(pass.todo) \in Nat \ {0} /\ Len(Tail(pass.todo)) = Len(pass.todo) - 1
           /\ pass.todo[1] = Head(pass.todo)
           /\ \A k \in 1 .. Len(pass.todo) - 1 : Tail(pass.todo)[k] = pass.todo[k + 1]
<1>1. /\ pass.todo \in Seq(Boundary) /\ boundaries \in Seq(Boundary)
      /\ Len(boundaries) \in Nat
    BY Fields DEF TypeOK, SpoolTypeOK
<1>2. /\ Len(pass.todo) \in Nat \ {0} /\ pass.todo[1] = Head(pass.todo)
      /\ Head(pass.todo) \in Boundary /\ Tail(pass.todo) \in Seq(Boundary)
      /\ Len(Tail(pass.todo)) = Len(pass.todo) - 1
      /\ \A k \in 1 .. Len(Tail(pass.todo)) : Tail(pass.todo)[k] = pass.todo[k + 1]
    BY <1>1, EmptySeq, HeadTailProperties
<1>3. PICK n \in 0 .. Len(boundaries) :
        /\ n + Len(pass.todo) <= Len(boundaries)
        /\ \A k \in 1 .. Len(pass.todo) : boundaries[n + k] = pass.todo[k]
    BY DEF PassAligned
<1>4. n + 1 \in 1 .. Len(boundaries) /\ 1 \in 1 .. Len(pass.todo)
    BY <1>1, <1>2, <1>3
<1>5. boundaries[n + 1] = Head(pass.todo)
    BY <1>2, <1>3, <1>4
<1> QED
    BY <1>1, <1>2, <1>4, <1>5, InRange

LEMMA LockedRow ==
    ASSUME TypeOK, NEW r \in Boundary, 1 <= r.session,
           \A i \in Of(r) : i.connected = r.connected
    PROVE  /\ Locked(r) \in Interval
           /\ Locked(r).account = r.account /\ Locked(r).session = r.session
           /\ Locked(r).connected = r.connected
           /\ \/ Locked(r) \in Of(r)
              \/ Of(r) = {} /\ Locked(r).disconnected = Never /\ ~Locked(r).reliable
<1>1. CASE Of(r) # {}
  <2>1. Locked(r) \in Of(r)
      BY <1>1 DEF Locked
  <2> QED
      BY <2>1 DEF Of, TypeOK
<1>2. CASE Of(r) = {}
  <2>1. Locked(r) = NewInterval(r)
      BY <1>2 DEF Locked
  <2>2. r.session \in 1 .. MaxSessions /\ r.account \in Account /\ r.connected \in Time
      BY CPACollectorAssumption DEF Boundary
  <2> QED
      BY <1>2, <2>1, <2>2 DEF NewInterval, Interval
<1> QED
    BY <1>1, <1>2

\* Where a row comes from when the boundary r has been applied.
IntervalFrom(j, r) ==
    \/ j \in intervals
    \/ /\ j.account = r.account /\ j.session = r.session /\ j.connected = r.connected
       /\ \/ Of(r) = {} /\ j.disconnected = Never /\ ~j.reliable
          \/ \E i \in Of(r) : j.disconnected = i.disconnected /\ j.reliable = i.reliable
          \/ /\ r.kind = "disconnected"
             /\ j.disconnected = r.disconnected /\ j.reliable = r.reliable
    \/ \E i \in intervals :
        /\ i.account = r.account /\ i.session # r.session /\ i.disconnected = Never
        /\ j.account = i.account /\ j.session = i.session /\ j.connected = i.connected
        /\ r.kind = "connected" /\ j.disconnected = r.connected /\ ~j.reliable

\* A row saved in the place of those of its session.
LEMMA Saved ==
    ASSUME TypeOK, NEW r \in Boundary, NEW j \in Interval, Save(j, r),
           j.account = r.account, j.session = r.session
    PROVE  /\ intervals' \subseteq Interval
           /\ \A x \in intervals' : x \in intervals \/ x = j
           /\ j \in intervals'
           /\ \A i \in intervals : \E x \in intervals' :
                x.account = i.account /\ x.session = i.session
BY DEF Save, Of, TypeOK

LEMMA BoundaryApplied ==
    ASSUME TypeOK, SessionsBegun, PassAligned, OneConnection, RecordsComplete,
           PersistBoundary, NEW r, r = Head(pass.todo)
    PROVE  /\ r \in Boundary /\ r \in Range(boundaries)
           /\ intervals' \subseteq Interval
           /\ \A j \in intervals' : IntervalFrom(j, r)
           /\ \A i \in intervals : \E j \in intervals' :
                j.account = i.account /\ j.session = i.session
           /\ \E j \in intervals' :
                /\ j.account = r.account /\ j.session = r.session
                /\ r.kind = "opening_sample" => j.opened
                /\ r.kind = "disconnected" => j.disconnected # Never
           /\ \/ observations' = observations
              \/ r.sample # Never /\ Observe(r)
<1>1. /\ ~Held(r) /\ ~Refused(r) /\ pass.todo # <<>>
      /\ ApplyConnected(r) \/ ApplyOpening(r) \/ ApplyDisconnected(r)
    BY DEF PersistBoundary
<1>2. r \in Boundary /\ r \in Range(boundaries) /\ 1 <= r.session
    BY <1>1, NextBoundary DEF SessionsBegun
<1>3. \A i \in Of(r) : i.connected = r.connected
    BY <1>2 DEF OneConnection, Of
<1>4. /\ Locked(r) \in Interval
      /\ Locked(r).account = r.account /\ Locked(r).session = r.session
      /\ Locked(r).connected = r.connected
      /\ \/ Locked(r) \in Of(r)
         \/ Of(r) = {} /\ Locked(r).disconnected = Never /\ ~Locked(r).reliable
    BY <1>2, <1>3, LockedRow
<1>5. \A i \in Of(r) : i \in intervals /\ i.account = r.account /\ i.session = r.session
    BY DEF Of
<1>6. intervals \subseteq Interval
    BY DEF TypeOK
<1>7. CASE ApplyConnected(r)
  <2>1. r.kind = "connected" /\ observations' = observations
      BY <1>7 DEF ApplyConnected
  <2>2. CASE Of(r) # {}
    <3>1. intervals' = intervals
        BY <1>7, <2>2 DEF ApplyConnected
    <3> QED
        BY <1>2, <1>5, <1>6, <2>1, <2>2, <3>1 DEF IntervalFrom
  <2>3. CASE Of(r) = {}
    <3> DEFINE n == NewInterval(r)
               Close(i) == [i EXCEPT !.disconnected = r.connected, !.reliable = FALSE]
    <3>1. /\ n \in Interval /\ n.account = r.account /\ n.session = r.session
          /\ n.connected = r.connected /\ n.disconnected = Never /\ ~n.reliable
        BY <1>4, <2>3 DEF Locked, NewInterval
    <3>2. ASSUME NEW i \in Open(r.account)
          PROVE  /\ i \in intervals /\ i.account = r.account /\ i.session # r.session
                 /\ i.disconnected = Never /\ Close(i) \in Interval
                 /\ Close(i).account = i.account /\ Close(i).session = i.session
                 /\ Close(i).connected = i.connected
                 /\ Close(i).disconnected = r.connected /\ ~Close(i).reliable
      <4>1. i \in intervals /\ i.account = r.account /\ i.disconnected = Never /\ i \in Interval
          BY <1>6 DEF Open
      <4>2. i.session # r.session
          BY <2>3, <4>1 DEF Of
      <4>3. r.connected \in Time
          BY <1>2 DEF Boundary
      <4> QED
          BY <4>1, <4>2, <4>3 DEF Interval
    <3>3. intervals' = (intervals \ Open(r.account)) \cup {n} \cup {Close(i) : i \in Open(r.account)}
        BY <1>7, <2>3 DEF ApplyConnected
    <3> HIDE DEF n, Close
    <3>4. intervals' \subseteq Interval
        BY <1>6, <3>1, <3>2, <3>3
    <3>5. \A j \in intervals' : IntervalFrom(j, r)
      <4> TAKE j \in intervals'
      <4>1. CASE j = n
          BY <2>3, <3>1, <4>1 DEF IntervalFrom
      <4>2. ASSUME NEW i \in Open(r.account), j = Close(i)
            PROVE  IntervalFrom(j, r)
          BY <2>1, <3>2, <4>2 DEF IntervalFrom
      <4> QED
          BY <3>3, <4>1, <4>2 DEF IntervalFrom
    <3>6. \A i \in intervals : \E j \in intervals' :
                j.account = i.account /\ j.session = i.session
      <4> TAKE i \in intervals
      <4>1. CASE i \in Open(r.account)
          BY <3>2, <3>3, <4>1
      <4> QED
          BY <3>3, <4>1
    <3> QED
        BY <1>2, <2>1, <3>1, <3>3, <3>4, <3>5, <3>6
  <2> QED
      BY <2>2, <2>3
<1>8. CASE ApplyOpening(r)
  <2> DEFINE j == [Locked(r) EXCEPT !.opened = TRUE]
  <2>1. /\ j \in Interval /\ j.opened /\ j.account = r.account /\ j.session = r.session
        /\ j.connected = r.connected /\ j.disconnected = Locked(r).disconnected
        /\ j.reliable = Locked(r).reliable
      BY <1>4 DEF Interval
  <2>2. r.kind = "opening_sample" /\ r.sample # Never
      BY <1>2, <1>8 DEF ApplyOpening, RecordsComplete
  <2>3. CASE Locked(r).opened
    <3>1. UNCHANGED <<intervals, observations>>
        BY <1>8, <2>3 DEF ApplyOpening
    <3>2. Locked(r) \in Of(r)
        BY <1>4, <2>3 DEF Locked, NewInterval
    <3> QED
        BY <1>2, <1>4, <1>5, <1>6, <2>2, <2>3, <3>1, <3>2 DEF IntervalFrom
  <2>4. CASE ~Locked(r).opened
    <3>1. Save(j, r) /\ Observe(r)
        BY <1>8, <2>4 DEF ApplyOpening
    <3> HIDE DEF j
    <3>2. IntervalFrom(j, r)
        BY <1>4, <2>1 DEF IntervalFrom
    <3>3. /\ intervals' \subseteq Interval
          /\ \A x \in intervals' : x \in intervals \/ x = j
          /\ j \in intervals'
          /\ \A i \in intervals : \E x \in intervals' :
                x.account = i.account /\ x.session = i.session
        BY <1>2, <2>1, <3>1, Saved
    <3>4. \A x \in intervals' : IntervalFrom(x, r)
        BY <3>2, <3>3 DEF IntervalFrom
    <3> QED
        BY <1>2, <2>1, <2>2, <3>1, <3>3, <3>4
  <2> QED
      BY <2>3, <2>4
<1>9. CASE ApplyDisconnected(r)
  <2> DEFINE j == [Locked(r) EXCEPT !.disconnected = r.disconnected, !.reliable = r.reliable]
  <2>1. /\ j \in Interval /\ j.account = r.account /\ j.session = r.session
        /\ j.connected = r.connected /\ j.disconnected = r.disconnected
        /\ j.reliable = r.reliable
      BY <1>2, <1>4 DEF Interval, Boundary
  <2>2. r.kind = "disconnected" /\ r.disconnected # Never
      BY <1>2, <1>9 DEF ApplyDisconnected, RecordsComplete
  <2>3. CASE Locked(r).disconnected # Never
    <3>1. UNCHANGED <<intervals, observations>>
        BY <1>9, <2>3 DEF ApplyDisconnected
    <3>2. Locked(r) \in Of(r)
        BY <1>4, <2>3
    <3> QED
        BY <1>2, <1>4, <1>5, <1>6, <2>2, <2>3, <3>1, <3>2 DEF IntervalFrom
  <2>4. CASE Locked(r).disconnected = Never
    <3>1. /\ Save(j, r)
          /\ observations' = observations \/ (r.sample # Never /\ Observe(r))
      <4>1. Save(j, r)
          BY <1>9, <2>4 DEF ApplyDisconnected
      <4>2. r.sample = Never => UNCHANGED observations
          BY <1>9, <2>4 DEF ApplyDisconnected
      <4>3. r.sample # Never => Observe(r)
          BY <1>9, <2>4 DEF ApplyDisconnected
      <4> HIDE DEF j
      <4> QED
          BY <4>1, <4>2, <4>3
    <3> HIDE DEF j
    <3>2. IntervalFrom(j, r)
        BY <2>1, <2>2, <2>4 DEF IntervalFrom
    <3>3. /\ intervals' \subseteq Interval
          /\ \A x \in intervals' : x \in intervals \/ x = j
          /\ j \in intervals'
          /\ \A i \in intervals : \E x \in intervals' :
                x.account = i.account /\ x.session = i.session
        BY <1>2, <2>1, <3>1, Saved
    <3>4. \A x \in intervals' : IntervalFrom(x, r)
        BY <3>2, <3>3 DEF IntervalFrom
    <3> QED
        BY <1>2, <2>1, <2>2, <3>1, <3>3, <3>4
  <2> QED
      BY <2>3, <2>4
<1> QED
    BY <1>1, <1>7, <1>8, <1>9

-----------------------------------------------------------------------------
(* Types of the business database and of the poll loop *)

LEMMA CostTyped ==
    ASSUME NEW S \in SUBSET Event, NEW a, NEW t
    PROVE  Cost(S, a, t) \in Nat
<1> DEFINE C == {e \in S : published[e] = a /\ e <= t}
<1>1. IsFiniteSet(1 .. MaxEvents)
    BY CPACollectorAssumption, FS_Interval
<1>2. C \in SUBSET (1 .. MaxEvents)
    BY DEF Event
<1> HIDE DEF C
<1>3. IsFiniteSet(C)
    BY <1>1, <1>2, FS_Subset
<1>4. Cardinality(C) \in Nat
    BY <1>3, FS_CardinalityType
<1> QED
    BY <1>4 DEF Cost, C

LEMMA BatchTyped ==
    ASSUME TypeOK
    PROVE  /\ Peeked \in SUBSET Event /\ Fresh \in SUBSET Peeked
           /\ Peeked \subseteq Spooled
<1>1. \A i \in 1 .. Taken : i \in DOMAIN usage /\ usage[i] \in Usage
    BY TakenTyped DEF TypeOK, SpoolTypeOK
<1> QED
    BY <1>1 DEF Peeked, Fresh, Spooled, Usage

\* An observation is kept, or computed again, when events are created.
LEMMA Recomputed ==
    ASSUME TypeOK, NEW new, CreateEvents(new), NEW o \in observations'
    PROVE  \E b \in observations :
             /\ \/ o = b /\ \A e \in new : ~(published[e] = b.account /\ e <= b.at)
                \/ o = [b EXCEPT !.cost = Cost(stored', b.account, b.at)]
BY DEF CreateEvents

LEMMA BusinessTyped ==
    ASSUME TypeOK, SessionsBegun, PassAligned, OneConnection, RecordsComplete, [Next]_vars
    PROVE  stored' \subseteq Event /\ intervals' \subseteq Interval /\ observations' \subseteq Observation
<1>1. stored \subseteq Event /\ intervals \subseteq Interval /\ observations \subseteq Observation
    BY DEF TypeOK
<1>2. PersistBatch => CreateEvents(Fresh)
    BY DEF PersistBatch
<1>3. stored' \subseteq Event
    BY <1>1, <1>2, BusinessFrame, BatchTyped DEF CreateEvents
<1>4. intervals' \subseteq Interval
    BY <1>1, BoundaryApplied, BusinessFrame
<1>5. ASSUME CreateEvents(Fresh), NEW o \in observations'
      PROVE  o \in Observation
  <2>1. PICK b \in observations : o = b \/ o = [b EXCEPT !.cost = Cost(stored', b.account, b.at)]
      BY <1>5, Recomputed
  <2>2. b \in Observation
      BY <1>1
  <2>3. Cost(stored', b.account, b.at) \in Nat
      BY <1>3, CostTyped
  <2> QED
      BY <2>1, <2>2, <2>3 DEF Observation
<1>6. ASSUME PersistBoundary
      PROVE  observations' \subseteq Observation
  <2> DEFINE r == Head(pass.todo)
             o == [account |-> r.account, session |-> r.session, at |-> r.sample,
                   cost |-> Cost(stored, r.account, r.sample)]
  <2>1. r \in Boundary /\ (observations' = observations \/ (r.sample # Never /\ Observe(r)))
      BY <1>6, BoundaryApplied
  <2>2. Cost(stored, r.account, r.sample) \in Nat
      BY <1>1, CostTyped
  <2>3. r.sample # Never => o \in Observation
      BY <2>1, <2>2 DEF Boundary, Observation
  <2> QED
      BY <1>1, <2>1, <2>3 DEF Observe
<1>7. ASSUME PollWrite
      PROVE  observations' \subseteq Observation
  <2>1. poll.account \in Account /\ poll.at \in Time /\ poll.cost \in Nat /\ 0 \in 0 .. MaxSessions
      BY <1>7, Fields, CPACollectorAssumption DEF PollWrite, TypeOK
  <2> QED
      BY <1>1, <1>7, <2>1 DEF PollWrite, Observation
<1>8. observations' \subseteq Observation
    BY <1>1, <1>2, <1>5, <1>6, <1>7, BusinessFrame
<1> QED
    BY <1>3, <1>4, <1>8

LEMMA PollTyped ==
    ASSUME TypeOK, [Next]_vars
    PROVE  /\ leased' \in SUBSET Account
           /\ poll' \in [step : {"idle", "query", "write"}, account : Account \cup {0},
                         at : Time, cost : Nat]
           /\ polls' \in Nat
<1> DEFINE P == [step : {"idle", "query", "write"}, account : Account \cup {0},
                 at : Time, cost : Nat]
<1>1. leased \in SUBSET Account /\ poll \in P /\ polls \in Nat /\ now \in Time /\ 0 \in Time
    BY Fields DEF TypeOK, Time
<1>2. NoPoll \in P
    BY <1>1 DEF NoPoll
<1>3. ASSUME NEW a \in Account, PollTake(a)
      PROVE  leased' \in SUBSET Account /\ poll' \in P /\ polls' \in Nat
  <2>1. [NoPoll EXCEPT !.step = "query", !.account = a] \in P
      BY <1>2
  <2> HIDE DEF P
  <2> QED
      BY <1>1, <1>3, <2>1 DEF PollTake
<1>4. ASSUME PollQuery
      PROVE  leased' \in SUBSET Account /\ poll' \in P /\ polls' \in Nat
  <2>1. Cost(stored, poll.account, now) \in Nat
      BY CostTyped DEF TypeOK
  <2> QED
      BY <1>1, <1>4, <2>1 DEF PollQuery
<1>5. ASSUME PollWrite \/ PollGivesUp
      PROVE  leased' \in SUBSET Account /\ poll' = NoPoll /\ polls' \in Nat
    BY <1>1, <1>5 DEF PollWrite, PollGivesUp
<1>6. ASSUME Stall
      PROVE  leased' \in SUBSET Account /\ poll' \in P /\ polls' \in Nat
    BY <1>1, <1>6 DEF Stall
<1> HIDE DEF P
<1>7. CASE UNCHANGED pollVars
    BY <1>1, <1>7 DEF pollVars, P
<1> QED
    BY <1>2, <1>3, <1>4, <1>5, <1>6, <1>7, BusinessFrame DEF P

LEMMA TypeStep ==
    ASSUME IInv, [Next]_vars
    PROVE  TypeOK'
<1>1. /\ TypeOK /\ SessionsBegun /\ Control /\ PassAligned /\ LeavingIsApplied
      /\ OneConnection /\ RecordsComplete
    BY DEF IInv
<1>2. SpoolTypeOK'
    BY <1>1, SpoolTyped
<1>3. /\ published' \in Seq(Account) /\ now' <= MaxEvents
      /\ subscribed' \in BOOLEAN
      /\ stream' \in Seq(Event \cup {Pong})
      /\ reader' \in Reader
      /\ ended' \in Time \cup {Never}
      /\ barrier' \in [state : {"none", "asked", "sent", "failed", "done"}, id : Nat]
      /\ unspooled' \in Seq(Event)
    BY <1>1, ReaderTyped
<1>4. /\ pc' \in Step /\ connected' \in Time /\ openings' \in SUBSET Account
      /\ sampled' \in [Account -> Time \cup {Never}]
      /\ pass' \in [step : {"off", "batch", "delete", "bounds", "drop"}, count : Nat,
                    todo : Seq(Boundary), blocked : SUBSET Account, moved : BOOLEAN]
      /\ faults' \in Nat
    BY <1>1, MainTyped
<1>5. stored' \subseteq Event /\ intervals' \subseteq Interval /\ observations' \subseteq Observation
    BY <1>1, BusinessTyped
<1>6. /\ leased' \in SUBSET Account
      /\ poll' \in [step : {"idle", "query", "write"}, account : Account \cup {0},
                    at : Time, cost : Nat]
      /\ polls' \in Nat
    BY <1>1, PollTyped
<1> QED
    BY <1>2, <1>3, <1>4, <1>5, <1>6, ZenonT(30) DEF TypeOK

-----------------------------------------------------------------------------
(* What every step keeps *)

\* The clock goes on, and what has been published stays.
LEMMA ClockSteps ==
    ASSUME TypeOK, [Next]_vars
    PROVE  /\ now \in Nat /\ now' \in Nat /\ now <= now'
           /\ \A e \in 1 .. now : published'[e] = published[e]
           /\ now' # now => \E a \in Account : Publish(a) /\ now' = now + 1
<1>1. published \in Seq(Account) /\ now \in Nat
    BY Fields DEF TypeOK
<1>2. ASSUME NEW a \in Account, Publish(a)
      PROVE  now' = now + 1 /\ \A e \in 1 .. now : published'[e] = published[e]
    BY <1>1, <1>2, AppendProperties DEF Publish, now
<1>3. CASE published' = published
    BY <1>1, <1>3 DEF now
<1> QED
    BY <1>1, <1>2, <1>3, ReaderFrame

LEMMA EventsStay ==
    ASSUME TypeOK, [Next]_vars
    PROVE  /\ \A a : \A f \in Nat, t \in Int : t <= now => EventsOf(a, f, t)' = EventsOf(a, f, t)
           /\ \A S \in SUBSET (1 .. now) : \A a, t : Cost(S, a, t)' = Cost(S, a, t)
<1>1. now \in Nat /\ \A e \in 1 .. now : published'[e] = published[e]
    BY ClockSteps
<1>2. ASSUME NEW a, NEW f \in Nat, NEW t \in Int, t <= now
      PROVE  EventsOf(a, f, t)' = EventsOf(a, f, t)
  <2>1. \A e \in f + 1 .. t : e \in 1 .. now
      BY <1>1, <1>2
  <2> QED
      BY <1>1, <2>1 DEF EventsOf
<1>3. ASSUME NEW S \in SUBSET (1 .. now), NEW a, NEW t
      PROVE  Cost(S, a, t)' = Cost(S, a, t)
  <2>1. {e \in S : published'[e] = a /\ e <= t} = {e \in S : published[e] = a /\ e <= t}
      BY <1>1
  <2> QED
      BY <2>1 DEF Cost
<1> QED
    BY <1>2, <1>3

LEMMA StoredStays ==
    ASSUME TypeOK, [Next]_vars
    PROVE  stored \subseteq stored' /\ (PersistBatch \/ stored' = stored)
BY BusinessFrame DEF PersistBatch, CreateEvents

\* Usage leaves the queue when it is in the database.
LEMMA UsageStays ==
    ASSUME IInv, [Next]_vars, NEW k \in DOMAIN usage
    PROVE  \/ usage[k].event \in stored'
           \/ \E l \in DOMAIN usage' : usage'[l] = usage[k]
<1>1. TypeOK /\ usage \in Seq(Usage) /\ usage' \in Seq(Usage) /\ nextId \in Nat \ {0}
    BY TypeStep DEF IInv, TypeOK, SpoolTypeOK
<1>2. /\ DOMAIN usage = 1 .. Len(usage) /\ DOMAIN usage' = 1 .. Len(usage')
      /\ Len(usage) \in Nat /\ Len(usage') \in Nat
    BY <1>1
<1>3. CASE DeleteBatch
  <2>1. /\ pass.count \in Nat /\ pass.count <= Len(usage) /\ DeleteUsage(pass.count)
        /\ \A m \in 1 .. pass.count : usage[m].event \in stored
      BY <1>1, <1>3, Fields DEF DeleteBatch, IInv, LeavingIsApplied
  <2>2. /\ Len(usage') = Len(usage) - pass.count
        /\ \A m \in 1 .. Len(usage') : usage'[m] = usage[pass.count + m]
      BY <1>1, <2>1, UsageDeleted
  <2>3. CASE k <= pass.count
      BY <1>1, <1>2, <2>1, <2>3, StoredStays
  <2>4. CASE ~(k <= pass.count)
    <3>1. k - pass.count \in 1 .. Len(usage') /\ pass.count + (k - pass.count) = k
        BY <1>2, <2>1, <2>2, <2>4
    <3> QED
        BY <1>2, <2>2, <3>1
  <2> QED
      BY <2>3, <2>4
<1>4. ASSUME NEW events \in Seq(Event), AppendUsage(events)
      PROVE  \E l \in DOMAIN usage' : usage'[l] = usage[k]
    BY <1>1, <1>2, <1>4, UsageAppended
<1> QED
    BY <1>1, <1>3, <1>4, UsageSteps

LEMMA ThroughStays ==
    ASSUME IInv, [Next]_vars, NEW e, NEW id, Through(e, id)
    PROVE  Through(e, id)'
<1>1. stored \subseteq stored'
    BY StoredStays DEF IInv
<1> QED
    BY <1>1, UsageStays DEF Through

LEMMA HeldStays ==
    ASSUME IInv, [Next]_vars, NEW e \in stored \cup Spooled
    PROVE  e \in stored' \cup Spooled'
<1>1. stored \subseteq stored'
    BY StoredStays DEF IInv
<1> QED
    BY <1>1, UsageStays DEF Spooled

\* A session begins, goes on, or ends.
LEMMA SessionSteps ==
    ASSUME TypeOK, SessionsBegun, [Next]_vars
    PROVE  \/ /\ session'.key = session.key /\ session'.connected = session.connected
              /\ session'.active => session.active
           \/ /\ ~session.active /\ session'.active
              /\ session'.key = session.key + 1 /\ session'.key <= MaxSessions
              /\ session'.connected = now /\ connected' = now
              /\ pc = "begin" /\ pc' = "loop" /\ now' = now /\ now \in Time
              /\ UNCHANGED businessVars
<1>1. session \in Session
    BY DEF TypeOK, SpoolTypeOK
<1>2. ASSUME NEW A \in SUBSET Account, Begin(A)
      PROVE  /\ ~session.active /\ session'.active
             /\ session'.key = session.key + 1 /\ session'.key <= MaxSessions
             /\ session'.connected = now /\ connected' = now
             /\ pc = "begin" /\ pc' = "loop" /\ now' = now /\ now \in Time
             /\ UNCHANGED businessVars
    BY <1>2, Fields DEF Begin, BeginSession, SessionsBegun, cpaVars, now, Goto
<1>3. ASSUME Heartbeat
      PROVE  /\ session'.key = session.key /\ session'.connected = session.connected
             /\ session'.active => session.active
    BY <1>1, <1>3 DEF Heartbeat, TouchSession, Session
<1>4. ASSUME Recover \/ FinishDead \/ FinishReliable \/ FinishUncertain
      PROVE  session' = session \/ session' = [session EXCEPT !.active = FALSE]
    BY <1>4 DEF Recover, FinishDead, FinishReliable, FinishUncertain, FinishAs,
       RecoverInterruptedSession, FinishSession, spoolVars
<1>5. /\ [session EXCEPT !.active = FALSE].key = session.key
      /\ [session EXCEPT !.active = FALSE].connected = session.connected
      /\ ~[session EXCEPT !.active = FALSE].active
    BY <1>1 DEF Session
<1> QED
    BY <1>2, <1>3, <1>4, <1>5, SpoolFrame

\* A record of the queue was there before, or describes the session of the step.
LEMMA QueueSteps ==
    ASSUME IInv, [Next]_vars, NEW r \in Range(boundaries')
    PROVE  /\ r \in Boundary
           /\ \/ r \in Range(boundaries)
              \/ Recorded(r) /\ UNCHANGED <<usage, nextId, published, businessVars, pass>>
<1>1. /\ TypeOK /\ SessionsBegun /\ Control /\ PassAligned /\ LeavingIsApplied
      /\ boundaries \in Seq(Boundary) /\ boundaries' \in Seq(Boundary)
    BY TypeStep DEF IInv, TypeOK, SpoolTypeOK
<1>2. r \in Boundary
    BY <1>1, InRange
<1>3. ASSUME NEW rows \in Seq(Boundary), Appends(rows), r \notin Range(boundaries)
      PROVE  Recorded(r) /\ UNCHANGED <<usage, nextId, published, businessVars, pass>>
  <2>1. boundaries' = boundaries \o rows
      BY <1>3 DEF Appends
  <2>2. r \in Range(rows)
      BY <1>1, <1>3, <2>1, RangeConcatenation
  <2> QED
      BY <1>3, <2>2 DEF Appends
<1> QED
    BY <1>1, <1>2, <1>3, BoundarySteps, AfterDrop

\* A row was there before, or the next boundary of the pass was applied to it.
LEMMA RowSteps ==
    ASSUME IInv, [Next]_vars, NEW j \in intervals'
    PROVE  \/ j \in intervals
           \/ /\ PersistBoundary /\ pass.todo # <<>>
              /\ Head(pass.todo) \in Range(boundaries) /\ Head(pass.todo) \in Boundary
              /\ IntervalFrom(j, Head(pass.todo))
<1>1. /\ TypeOK /\ SessionsBegun /\ PassAligned /\ OneConnection /\ RecordsComplete
    BY DEF IInv
<1> QED
    BY <1>1, BusinessFrame, BoundaryApplied DEF PersistBoundary

-----------------------------------------------------------------------------
(* Sessions *)

LEMMA SessionsBegunStep ==
    ASSUME IInv, [Next]_vars
    PROVE  SessionsBegun'
<1>1. TypeOK /\ TypeOK' /\ SessionsBegun /\ Control
    BY TypeStep DEF IInv
<1>2. /\ session.key \in Nat /\ session'.key \in Nat /\ session.key <= session'.key
      /\ session'.active => session'.key >= 1
  <2>1. session.key \in 0 .. MaxSessions /\ MaxSessions \in Nat
      BY <1>1, Fields
  <2> QED
      BY <1>1, <2>1, SessionSteps DEF SessionsBegun
<1>3. ASSUME pc' \in {"connect", "begin"}
      PROVE  session'.key < MaxSessions
  <2>1. session' = session
      BY <1>3, SpoolFrame DEF Recover, Raises, Begin, Heartbeat, FinishDead, FinishReliable,
         FinishUncertain, FinishAs, Goto, mainVars
  <2>2. pc \in {"connect", "begin"} \/ session.key < MaxSessions
      BY <1>3, PcFrame DEF Connect, Begin, QueryOpening, CaptureOpening, Leave, QueryClosing,
         FinishDead, FinishReliable, FinishUncertain, FinishAs, Goto
  <2> QED
      BY <1>1, <2>1, <2>2 DEF SessionsBegun
<1>4. ASSUME NEW r \in Range(boundaries')
      PROVE  1 <= r.session /\ r.session <= session'.key
  <2>1. r.session \in Nat
      BY <1>4, QueueSteps DEF Boundary
  <2>2. CASE Recorded(r)
    <3>1. r.session = session'.key /\ 1 <= r.session
        BY <2>2 DEF Recorded
    <3> QED
        BY <1>2, <3>1
  <2>3. CASE r \in Range(boundaries)
    <3>1. 1 <= r.session /\ r.session <= session.key
        BY <1>1, <2>3 DEF SessionsBegun
    <3> QED
        BY <1>2, <2>1, <3>1
  <2> QED
      BY <1>4, <2>2, <2>3, QueueSteps
<1>5. ASSUME NEW j \in intervals'
      PROVE  j.session <= session'.key
  <2>1. CASE j \in intervals
    <3>1. j.session \in Nat
        BY <1>1, <2>1, RowFields
    <3>2. j.session <= session.key
        BY <1>1, <2>1 DEF SessionsBegun
    <3> QED
        BY <1>2, <3>1, <3>2
  <2>2. CASE PersistBoundary /\ IntervalFrom(j, Head(pass.todo))
             /\ Head(pass.todo) \in Range(boundaries) /\ Head(pass.todo) \in Boundary
    <3> DEFINE r == Head(pass.todo)
    <3>1. r.session \in Nat /\ r.session <= session.key
      <4>1. r \in Range(boundaries) /\ r \in Boundary
          BY <2>2
      <4> HIDE DEF r
      <4>2. r.session \in Nat
          BY <4>1, CPACollectorAssumption DEF Boundary
      <4> QED
          BY <1>1, <4>1, <4>2 DEF SessionsBegun
    <3>2. \A i \in intervals : i.session \in Nat /\ i.session <= session.key
        BY <1>1, RowFields DEF SessionsBegun
    <3> HIDE DEF r
    <3>3. IntervalFrom(j, r)
        BY <2>2 DEF r
    <3>4. j.session \in Nat /\ j.session <= session.key
        BY <3>1, <3>2, <3>3 DEF IntervalFrom
    <3> QED
        BY <1>2, <3>4
  <2> QED
      BY <2>1, <2>2, RowSteps
<1> QED
    BY <1>2, <1>3, <1>4, <1>5 DEF SessionsBegun

LEMMA OneConnectionStep ==
    ASSUME IInv, [Next]_vars
    PROVE  OneConnection'
<1>1. TypeOK /\ SessionsBegun /\ OneConnection /\ SessionsBegun'
    BY SessionsBegunStep DEF IInv
<1>2. PICK at \in [1 .. MaxSessions -> Time] :
        /\ session.key >= 1 => at[session.key] = session.connected
        /\ \A r \in Range(boundaries) : r.connected = at[r.session]
        /\ \A i \in intervals : i.connected = at[i.session]
    BY <1>1 DEF OneConnection
<1>3. /\ session.key \in Nat /\ MaxSessions \in Nat /\ session'.key \in Nat
      /\ \A r \in Range(boundaries) : r.session \in Nat /\ 1 <= r.session /\ r.session <= session.key
      /\ \A i \in intervals : i.session \in Nat /\ i.session <= session.key
  <2>1. session.key \in Nat /\ session'.key \in Nat /\ MaxSessions \in Nat
      BY <1>1, Fields, SessionSteps
  <2>2. \A r \in Range(boundaries) : r.session \in Nat
    <3>1. \A r \in Range(boundaries) : r \in Boundary
        BY <1>1, InRange DEF TypeOK, SpoolTypeOK
    <3> QED
        BY <3>1, RecordFields
  <2>3. \A i \in intervals : i.session \in Nat
      BY <1>1, RowFields
  <2> QED
      BY <1>1, <2>1, <2>2, <2>3 DEF SessionsBegun
<1>4. CASE /\ session'.key = session.key /\ session'.connected = session.connected
  <2>1. ASSUME NEW r \in Range(boundaries')
        PROVE  r.connected = at[r.session]
    <3>1. CASE Recorded(r)
      <4>1. r.session = session'.key /\ 1 <= r.session /\ r.connected = session'.connected
          BY <3>1 DEF Recorded
      <4> QED
          BY <1>2, <1>3, <1>4, <4>1
    <3> QED
        BY <1>2, <2>1, <3>1, QueueSteps
  <2>2. ASSUME NEW j \in intervals'
        PROVE  j.connected = at[j.session]
    <3>1. ASSUME NEW r \in Range(boundaries), IntervalFrom(j, r)
          PROVE  j.connected = at[j.session]
        BY <1>2, <3>1 DEF IntervalFrom
    <3> QED
        BY <1>2, <2>2, <3>1, RowSteps
  <2> QED
      BY <1>2, <1>4, <2>1, <2>2 DEF OneConnection
<1>5. CASE /\ session'.key = session.key + 1 /\ session'.key <= MaxSessions
           /\ session'.connected = now /\ now \in Time /\ UNCHANGED businessVars
  <2> DEFINE at2 == [at EXCEPT ![session'.key] = now]
  <2>1. /\ at2 \in [1 .. MaxSessions -> Time]
        /\ at2[session'.key] = session'.connected
        /\ \A s \in Nat : s >= 1 /\ s <= session.key => at2[s] = at[s]
      BY <1>2, <1>3, <1>5
  <2> HIDE DEF at2
  <2>2. ASSUME NEW r \in Range(boundaries')
        PROVE  r.connected = at2[r.session]
    <3>1. CASE Recorded(r)
        BY <2>1, <3>1 DEF Recorded
    <3>2. CASE r \in Range(boundaries)
        BY <1>2, <1>3, <2>1, <3>2
    <3> QED
        BY <2>2, <3>1, <3>2, QueueSteps
  <2>3. ASSUME NEW j \in intervals'
        PROVE  j.connected = at2[j.session]
    <3>1. j \in intervals
        BY <1>5, <2>3 DEF businessVars
    <3>2. j.session \in Nat /\ 1 <= j.session
        BY <1>1, <3>1, RowFields
    <3> QED
        BY <1>2, <1>3, <2>1, <3>1, <3>2
  <2> QED
      BY <2>1, <2>2, <2>3 DEF OneConnection
<1> QED
    BY <1>1, <1>4, <1>5, SessionSteps

LEMMA RecordsCompleteStep ==
    ASSUME IInv, [Next]_vars
    PROVE  RecordsComplete'
<1>1. ASSUME NEW r \in Range(boundaries')
      PROVE  /\ r.kind = "opening_sample" => r.sample # Never
             /\ r.kind = "disconnected" => r.disconnected # Never
  <2>1. CASE Recorded(r)
      BY <2>1 DEF Recorded
  <2>2. CASE r \in Range(boundaries)
      BY <2>2 DEF IInv, RecordsComplete
  <2> QED
      BY <1>1, <2>1, <2>2, QueueSteps
<1> QED
    BY <1>1 DEF RecordsComplete

\* An observation was there before, perhaps with another cost, or is made by a
\* boundary or by the poll loop.
LEMMA ObservationSteps ==
    ASSUME IInv, [Next]_vars, NEW o \in observations'
    PROVE  \/ \E b \in observations :
                o.account = b.account /\ o.session = b.session /\ o.at = b.at
           \/ /\ PersistBoundary /\ Head(pass.todo) \in Range(boundaries)
              /\ o.account = Head(pass.todo).account /\ o.session = Head(pass.todo).session
              /\ o.at = Head(pass.todo).sample
              /\ o.cost = Cost(stored, Head(pass.todo).account, Head(pass.todo).sample)
           \/ /\ PollWrite
              /\ o.account = poll.account /\ o.session = 0 /\ o.at = poll.at /\ o.cost = poll.cost
<1>1. /\ TypeOK /\ SessionsBegun /\ PassAligned /\ OneConnection /\ RecordsComplete
    BY DEF IInv
<1>2. CASE PersistBatch
  <2>1. CreateEvents(Fresh)
      BY <1>2 DEF PersistBatch
  <2>2. PICK b \in observations : o = b \/ o = [b EXCEPT !.cost = Cost(stored', b.account, b.at)]
      BY <1>1, <2>1, Recomputed
  <2>3. o.account = b.account /\ o.session = b.session /\ o.at = b.at
      BY <1>1, <2>2 DEF TypeOK, Observation
  <2> QED
      BY <2>3
<1>3. CASE PersistBoundary /\ o \notin observations
  <2> DEFINE r == Head(pass.todo)
  <2>1. Observe(r) /\ r \in Range(boundaries)
      BY <1>1, <1>3, BoundaryApplied
  <2> HIDE DEF r
  <2>2. /\ o.account = r.account /\ o.session = r.session /\ o.at = r.sample
        /\ o.cost = Cost(stored, r.account, r.sample)
      BY <1>3, <2>1 DEF Observe
  <2> QED
      BY <1>3, <2>1, <2>2 DEF r
<1>4. CASE PollWrite /\ o \notin observations
    BY <1>4 DEF PollWrite
<1>5. CASE o \in observations
    BY <1>5
<1> QED
    BY <1>2, <1>3, <1>4, <1>5, BusinessFrame

LEMMA ObservedHasIntervalStep ==
    ASSUME IInv, [Next]_vars
    PROVE  ObservedHasInterval'
<1>1. /\ TypeOK /\ SessionsBegun /\ PassAligned /\ OneConnection /\ RecordsComplete
      /\ ObservedHasInterval
    BY DEF IInv
<1>2. \A i \in intervals : \E j \in intervals' : j.account = i.account /\ j.session = i.session
    BY <1>1, BusinessFrame, BoundaryApplied
<1>3. ASSUME NEW o \in observations', o.session >= 1
      PROVE  \E j \in intervals' : j.account = o.account /\ j.session = o.session
  <2>1. ASSUME NEW b \in observations, o.account = b.account, o.session = b.session
        PROVE  \E j \in intervals' : j.account = o.account /\ j.session = o.session
      BY <1>1, <1>2, <1>3, <2>1 DEF ObservedHasInterval
  <2>2. ASSUME PersistBoundary, o.account = Head(pass.todo).account,
               o.session = Head(pass.todo).session
        PROVE  \E j \in intervals' : j.account = o.account /\ j.session = o.session
      BY <1>1, <2>2, BoundaryApplied
  <2> QED
      BY <1>3, <2>1, <2>2, ObservationSteps
<1> QED
    BY <1>3 DEF ObservedHasInterval

-----------------------------------------------------------------------------
(* The order of the queue of boundaries, and the ends of intervals *)

\* No earlier boundary of its account is in front of the one to apply.
LEMMA HeadIsFirst ==
    ASSUME IInv, pass.todo # <<>>, Head(pass.todo).account \notin pass.blocked,
           NEW r \in Range(boundaries), r.account = Head(pass.todo).account
    PROVE  Head(pass.todo).session <= r.session
<1> DEFINE h == Head(pass.todo)
<1>1. TypeOK /\ PassAligned /\ QueueOrdered
    BY DEF IInv
<1>2. h \in Boundary /\ pass.todo[1] = h /\ Len(pass.todo) \in Nat \ {0}
    BY <1>1, NextBoundary
<1>3. boundaries \in Seq(Boundary) /\ Len(boundaries) \in Nat
    BY <1>1 DEF TypeOK, SpoolTypeOK
<1>4. PICK n \in 0 .. Len(boundaries) :
        /\ n + Len(pass.todo) <= Len(boundaries)
        /\ \A k \in 1 .. n : boundaries[k].account \in pass.blocked
        /\ \A k \in 1 .. Len(pass.todo) : boundaries[n + k] = pass.todo[k]
    BY <1>1 DEF PassAligned
<1>5. n + 1 \in 1 .. Len(boundaries) /\ boundaries[n + 1] = h
    BY <1>2, <1>3, <1>4
<1>6. PICK k \in 1 .. Len(boundaries) : boundaries[k] = r
    BY <1>3, InRange
<1>7. ~(k <= n)
    BY <1>4, <1>6
<1> HIDE DEF h
<1>8. h.session \in Nat
  <2>1. h \in Boundary
      BY <1>2
  <2> QED
      BY <2>1, RecordFields
<1>9. CASE k = n + 1
  <2>1. r = h
      BY <1>5, <1>6, <1>9
  <2> QED
      BY <1>8, <2>1 DEF h
<1>10. CASE k # n + 1
  <2>1. n + 1 < k /\ DOMAIN boundaries = 1 .. Len(boundaries)
      BY <1>3, <1>4, <1>7, <1>10
  <2> QED
      BY <1>1, <1>5, <1>6, <2>1 DEF QueueOrdered, h
<1> QED
    BY <1>9, <1>10 DEF h

LEMMA QueueOrderedStep ==
    ASSUME IInv, [Next]_vars
    PROVE  QueueOrdered'
<1>1. /\ TypeOK /\ TypeOK' /\ SessionsBegun /\ SessionsBegun' /\ Control /\ PassAligned
      /\ LeavingIsApplied /\ QueueOrdered
    BY TypeStep, SessionsBegunStep DEF IInv
<1>2. /\ boundaries \in Seq(Boundary) /\ boundaries' \in Seq(Boundary)
      /\ DOMAIN boundaries = 1 .. Len(boundaries) /\ DOMAIN boundaries' = 1 .. Len(boundaries')
      /\ Len(boundaries) \in Nat
    BY <1>1 DEF TypeOK, SpoolTypeOK
<1>3. /\ session.key \in Nat /\ session'.key \in Nat /\ session.key <= session'.key
  <2>1. session.key \in Nat
      BY <1>1, Fields
  <2> QED
      BY <1>1, <2>1, SessionSteps
<1>4. /\ \A r \in Range(boundaries) : r.session \in Nat /\ r.session <= session.key
      /\ \A r \in Range(boundaries') : r.session \in Nat /\ r.session <= session'.key
      /\ \A i \in intervals : i.session \in Nat /\ i.session <= session.key
      /\ \A i \in intervals' : i.session <= session'.key
  <2>1. /\ \A r \in Range(boundaries) : r.session \in Nat
        /\ \A r \in Range(boundaries') : r.session \in Nat
      BY <1>2, InRange, RecordFields
  <2>2. \A i \in intervals : i.session \in Nat
      BY <1>1, RowFields
  <2> QED
      BY <1>1, <2>1, <2>2 DEF SessionsBegun
<1>5. ASSUME NEW k \in DOMAIN boundaries', NEW l \in DOMAIN boundaries',
             k < l, boundaries'[k].account = boundaries'[l].account
      PROVE  boundaries'[k].session <= boundaries'[l].session
  <2>1. CASE UNCHANGED boundaries
      BY <1>1, <1>5, <2>1 DEF QueueOrdered
  <2>2. CASE DeleteBoundary
    <3>1. PICK i, j \in 1 .. Len(boundaries) :
            i < j /\ boundaries'[k] = boundaries[i] /\ boundaries'[l] = boundaries[j]
        BY <1>1, <1>2, <1>5, <2>2, AfterDrop
    <3> QED
        BY <1>1, <1>2, <1>5, <3>1 DEF QueueOrdered
  <2>3. ASSUME NEW rows \in Seq(Boundary), Appends(rows)
        PROVE  boundaries'[k].session <= boundaries'[l].session
    <3>1. /\ boundaries' = boundaries \o rows
          /\ \A r \in Range(rows) : Recorded(r)
          /\ \A i, j \in 1 .. Len(rows) : i < j => rows[i].account < rows[j].account
        BY <2>3 DEF Appends
    <3>2. \A m \in 1 .. Len(boundaries') :
            \/ m \in 1 .. Len(boundaries) /\ boundaries'[m] = boundaries[m]
            \/ /\ m > Len(boundaries) /\ m - Len(boundaries) \in 1 .. Len(rows)
               /\ boundaries'[m] = rows[m - Len(boundaries)]
        BY <1>2, <3>1, Concatenated
    <3>3. CASE l \in 1 .. Len(boundaries)
      <4>1. k \in 1 .. Len(boundaries)
          BY <1>2, <1>5, <3>3
      <4>2. boundaries'[k] = boundaries[k] /\ boundaries'[l] = boundaries[l]
          BY <1>2, <3>2, <3>3, <4>1
      <4> QED
          BY <1>1, <1>2, <1>5, <3>3, <4>1, <4>2 DEF QueueOrdered
    <3>4. CASE l \notin 1 .. Len(boundaries)
      <4>1. l - Len(boundaries) \in 1 .. Len(rows) /\ boundaries'[l] = rows[l - Len(boundaries)]
          BY <1>2, <3>2, <3>4
      <4>2. boundaries'[l].session = session'.key
        <5>1. boundaries'[l] \in Range(rows)
            BY <4>1, InRange
        <5> QED
            BY <3>1, <5>1 DEF Recorded
      <4> QED
          BY <1>2, <1>4, <4>2, InRange
    <3> QED
        BY <3>3, <3>4
  <2> QED
      BY <1>1, <2>1, <2>2, <2>3, BoundarySteps
<1>6. ASSUME NEW r \in Range(boundaries'), NEW j \in intervals', r.account = j.account
      PROVE  j.session <= r.session
  <2>1. CASE Recorded(r)
    <3>1. r.session = session'.key
        BY <2>1 DEF Recorded
    <3> QED
        BY <1>4, <3>1
  <2>2. CASE r \in Range(boundaries) /\ j \in intervals
      BY <1>1, <1>6, <2>2 DEF QueueOrdered
  <2>3. CASE r \in Range(boundaries) /\ j \notin intervals
    <3> DEFINE h == Head(pass.todo)
    <3>1. PersistBoundary /\ pass.todo # <<>> /\ IntervalFrom(j, h)
        BY <2>3, RowSteps
    <3>2. h.account \notin pass.blocked
        BY <3>1 DEF PersistBoundary, Held
    <3> HIDE DEF h
    <3>3. \/ j.account = h.account /\ j.session = h.session
          \/ \E i \in intervals : j.account = i.account /\ j.session = i.session
        BY <2>3, <3>1 DEF IntervalFrom
    <3>4. ASSUME j.account = h.account, j.session = h.session
          PROVE  j.session <= r.session
        BY <1>6, <2>3, <3>1, <3>2, <3>4, HeadIsFirst DEF h
    <3> QED
        BY <1>1, <1>6, <2>3, <3>3, <3>4 DEF QueueOrdered
  <2> QED
      BY <1>6, <2>1, <2>2, <2>3, QueueSteps
<1>7. ASSUME NEW r \in Range(boundaries'), NEW s \in Range(boundaries'),
             r.kind = "disconnected", s.kind = "disconnected",
             r.account = s.account, r.session = s.session
      PROVE  r = s
  <2>1. CASE r \in Range(boundaries) /\ s \in Range(boundaries)
      BY <1>1, <1>7, <2>1 DEF QueueOrdered
  <2>2. ASSUME NEW x \in Range(boundaries), x.kind = "disconnected",
               NEW y, Recorded(y), y.kind = "disconnected"
        PROVE  x.session # y.session
    <3>1. session.active /\ session' = [session EXCEPT !.active = FALSE] /\ y.session = session'.key
        BY <2>2 DEF Recorded
    <3>2. y.session = session.key
        BY <1>1, <3>1 DEF TypeOK, SpoolTypeOK, Session
    <3> QED
        BY <1>1, <2>2, <3>1, <3>2 DEF QueueOrdered
  <2>3. CASE r \notin Range(boundaries) /\ s \notin Range(boundaries)
    <3>1. PICK rows \in Seq(Boundary) : Appends(rows)
        BY <1>1, <1>7, <2>3, BoundarySteps, AfterDrop
    <3>2. /\ boundaries' = boundaries \o rows
          /\ \A i, j \in 1 .. Len(rows) : i < j => rows[i].account < rows[j].account
        BY <3>1 DEF Appends
    <3>3. r \in Range(rows) /\ s \in Range(rows)
        BY <1>2, <1>7, <2>3, <3>2, RangeConcatenation
    <3>4. PICK i, j \in 1 .. Len(rows) : rows[i] = r /\ rows[j] = s
        BY <3>3, InRange
    <3>5. r.account \in Nat
        BY <1>2, <1>7, InRange, RecordFields, CPACollectorAssumption
    <3>6. ~(i < j) /\ ~(j < i)
        BY <1>7, <3>2, <3>4, <3>5
    <3> QED
        BY <3>4, <3>6
  <2> QED
      BY <1>7, <2>1, <2>2, <2>3, QueueSteps
<1>8. ASSUME session'.active, NEW r \in Range(boundaries'), r.session = session'.key
      PROVE  r.kind # "disconnected"
  <2>1. CASE Recorded(r)
    <3>1. session \in Session /\ session' \in Session
        BY <1>1 DEF TypeOK, SpoolTypeOK
    <3>2. ~[session EXCEPT !.active = FALSE].active
        BY <3>1 DEF Session
    <3> QED
        BY <1>8, <2>1, <3>2 DEF Recorded
  <2>2. CASE r \in Range(boundaries)
    <3>1. session.active /\ session'.key = session.key
        BY <1>1, <1>3, <1>4, <1>8, <2>2, SessionSteps
    <3> QED
        BY <1>1, <1>8, <2>2, <3>1 DEF QueueOrdered
  <2> QED
      BY <1>8, <2>1, <2>2, QueueSteps
<1>9. ASSUME session'.active, NEW j \in intervals', j.session = session'.key
      PROVE  j.disconnected = Never
  <2>1. CASE j \in intervals
    <3>1. session.active /\ session'.key = session.key
        BY <1>1, <1>3, <1>4, <1>9, <2>1, SessionSteps
    <3> QED
        BY <1>1, <1>9, <2>1, <3>1 DEF QueueOrdered
  <2>2. CASE j \notin intervals
    <3> DEFINE h == Head(pass.todo)
    <3>1. PersistBoundary /\ h \in Range(boundaries) /\ IntervalFrom(j, h)
        BY <1>9, <2>2, RowSteps
    <3>2. session' = session
        BY <3>1 DEF PersistBoundary, PassOnly
    <3> HIDE DEF h
    <3>3. \A i \in intervals : i.session = session.key => i.disconnected = Never
        BY <1>1, <1>9, <3>2 DEF QueueOrdered
    <3>4. h.session = session.key => h.kind # "disconnected"
        BY <1>1, <1>9, <3>1, <3>2 DEF QueueOrdered
    <3>5. \A i \in intervals : i.account = h.account => i.session <= h.session
        BY <1>1, <3>1 DEF QueueOrdered
    <3>6. h.session \in Nat /\ h.session <= session.key
        BY <1>4, <3>1
    <3>7. \A i \in intervals : i.account = h.account /\ i.session = session.key
                => i.session = h.session
        BY <1>3, <1>4, <3>5, <3>6
    <3> QED
        BY <1>9, <2>2, <3>1, <3>2, <3>3, <3>4, <3>7 DEF IntervalFrom, Of
  <2> QED
      BY <2>1, <2>2
<1> QED
    BY <1>5, <1>6, <1>7, <1>8, <1>9 DEF QueueOrdered

LEMMA EndsAsRecordedStep ==
    ASSUME IInv, [Next]_vars
    PROVE  EndsAsRecorded'
<1>1. TypeOK /\ QueueOrdered /\ EndsAsRecorded
    BY DEF IInv
<1>2. ASSUME NEW r \in Range(boundaries'), r.kind = "disconnected",
             NEW j \in intervals', j.account = r.account, j.session = r.session,
             j.disconnected # Never
      PROVE  j.disconnected = r.disconnected /\ j.reliable = r.reliable
  <2>1. CASE Recorded(r) /\ UNCHANGED businessVars
    <3>1. session.active /\ session' = [session EXCEPT !.active = FALSE] /\ r.session = session'.key
        BY <1>2, <2>1 DEF Recorded
    <3>2. r.session = session.key
        BY <1>1, <3>1 DEF TypeOK, SpoolTypeOK, Session
    <3>3. j \in intervals
        BY <1>2, <2>1 DEF businessVars
    <3> QED
        BY <1>1, <1>2, <3>1, <3>2, <3>3 DEF QueueOrdered
  <2>2. CASE r \in Range(boundaries) /\ j \in intervals
      BY <1>1, <1>2, <2>2 DEF EndsAsRecorded, Of
  <2>3. CASE r \in Range(boundaries) /\ j \notin intervals
    <3> DEFINE h == Head(pass.todo)
    <3>1. PersistBoundary /\ pass.todo # <<>> /\ IntervalFrom(j, h) /\ h \in Range(boundaries)
          /\ h \in Boundary
        BY <2>3, RowSteps
    <3>2. h.account \notin pass.blocked
        BY <3>1 DEF PersistBoundary, Held
    <3>3. r.account = h.account => h.session <= r.session
        BY <2>3, <3>1, <3>2, HeadIsFirst
    <3> HIDE DEF h
    <3>4. h.session \in Nat
      <4>1. h \in Boundary
          BY <3>1
      <4> QED
          BY <4>1, RecordFields
    <3>5. \A i \in intervals : i.session \in Nat
        BY <1>1, RowFields
    <3>6. \A i \in intervals : i.account = h.account => i.session <= h.session
        BY <1>1, <3>1 DEF QueueOrdered
    <3>7. CASE /\ j.account = h.account /\ j.session = h.session
               /\ \E i \in Of(h) : j.disconnected = i.disconnected /\ j.reliable = i.reliable
      <4>1. PICK i \in Of(h) : j.disconnected = i.disconnected /\ j.reliable = i.reliable
          BY <3>7
      <4>2. i \in Of(r)
          BY <1>2, <3>7, <4>1 DEF Of
      <4> QED
          BY <1>1, <1>2, <2>3, <4>1, <4>2 DEF EndsAsRecorded
    <3>8. CASE /\ j.account = h.account /\ j.session = h.session /\ h.kind = "disconnected"
               /\ j.disconnected = h.disconnected /\ j.reliable = h.reliable
      <4>1. h = r
          BY <1>1, <1>2, <2>3, <3>1, <3>8 DEF QueueOrdered
      <4> QED
          BY <3>8, <4>1
    <3>9. CASE \E i \in intervals : /\ i.account = h.account /\ i.session # h.session
                                    /\ j.account = i.account /\ j.session = i.session
        BY <1>2, <3>3, <3>4, <3>5, <3>6, <3>9 DEF h
    <3> QED
        BY <1>2, <2>3, <3>1, <3>7, <3>8, <3>9 DEF IntervalFrom
  <2> QED
      BY <1>2, <2>1, <2>2, <2>3, QueueSteps
<1> QED
    BY <1>2 DEF EndsAsRecorded, Of

-----------------------------------------------------------------------------
(* The stream *)

LEMMA Appended ==
    ASSUME NEW S, NEW s \in Seq(S), NEW e \in S
    PROVE  /\ Append(s, e) \in Seq(S) /\ Len(s) \in Nat /\ Len(Append(s, e)) = Len(s) + 1
           /\ DOMAIN s = 1 .. Len(s) /\ DOMAIN Append(s, e) = 1 .. Len(s) + 1
           /\ \A k \in 1 .. Len(s) : k \in 1 .. Len(s) + 1 /\ Append(s, e)[k] = s[k]
           /\ Append(s, e)[Len(s) + 1] = e
           /\ Range(Append(s, e)) = Range(s) \cup {e}
<1>1. /\ Append(s, e) \in Seq(S) /\ Len(s) \in Nat /\ Len(Append(s, e)) = Len(s) + 1
      /\ \A k \in 1 .. Len(s) : k \in 1 .. Len(s) + 1 /\ Append(s, e)[k] = s[k]
      /\ Append(s, e)[Len(s) + 1] = e
    OBVIOUS
<1>2. \A k \in 1 .. Len(s) + 1 : k \in 1 .. Len(s) \/ k = Len(s) + 1
    BY <1>1
<1>3. DOMAIN s = 1 .. Len(s) /\ DOMAIN Append(s, e) = 1 .. Len(s) + 1
      /\ Len(s) + 1 \in 1 .. Len(s) + 1
    BY <1>1
<1> QED
    BY <1>1, <1>2, <1>3 DEF Range

LEMMA HeadAndTail ==
    ASSUME NEW S, NEW s \in Seq(S), s # <<>>
    PROVE  /\ Head(s) \in S /\ s[1] = Head(s)
           /\ Tail(s) \in Seq(S) /\ Len(s) \in Nat \ {0} /\ Len(Tail(s)) = Len(s) - 1
           /\ DOMAIN s = 1 .. Len(s) /\ DOMAIN Tail(s) = 1 .. Len(s) - 1
           /\ \A k \in 1 .. Len(s) - 1 : k + 1 \in 1 .. Len(s) /\ Tail(s)[k] = s[k + 1]
           /\ Range(s) = {Head(s)} \cup Range(Tail(s))
<1>1. /\ Head(s) \in S /\ s[1] = Head(s)
      /\ Tail(s) \in Seq(S) /\ Len(s) \in Nat \ {0} /\ Len(Tail(s)) = Len(s) - 1
      /\ \A k \in 1 .. Len(s) - 1 : k + 1 \in 1 .. Len(s) /\ Tail(s)[k] = s[k + 1]
    OBVIOUS
<1>2. DOMAIN s = 1 .. Len(s) /\ DOMAIN Tail(s) = 1 .. Len(s) - 1
    BY <1>1
<1>3. \A k \in 1 .. Len(s) : k = 1 \/ (k - 1 \in 1 .. Len(s) - 1 /\ s[k] = Tail(s)[k - 1])
  <2> SUFFICES ASSUME NEW k \in 1 .. Len(s), k # 1
               PROVE  k - 1 \in 1 .. Len(s) - 1 /\ s[k] = Tail(s)[k - 1]
      OBVIOUS
  <2>1. k - 1 \in 1 .. Len(s) - 1 /\ (k - 1) + 1 = k
      BY <1>1
  <2> QED
      BY <1>1, <2>1
<1>4. ASSUME NEW x \in Range(s)
      PROVE  x = Head(s) \/ x \in Range(Tail(s))
  <2>1. PICK k \in 1 .. Len(s) : s[k] = x
      BY <1>2, <1>4 DEF Range
  <2>2. k = 1 \/ (k - 1 \in DOMAIN Tail(s) /\ x = Tail(s)[k - 1])
      BY <1>2, <1>3, <2>1
  <2> QED
      BY <1>1, <2>1, <2>2 DEF Range
<1>5. Head(s) \in Range(s) /\ \A x \in Range(Tail(s)) : x \in Range(s)
  <2>1. 1 \in 1 .. Len(s)
      BY <1>1
  <2> QED
      BY <1>1, <1>2, <2>1 DEF Range
<1> QED
    BY <1>1, <1>2, <1>4, <1>5

LEMMA StreamSteps ==
    ASSUME TypeOK, Control, [Next]_vars
    PROVE  \/ UNCHANGED stream
           \/ /\ \E a \in Account : Publish(a)
              /\ stream' = Append(stream, now + 1) /\ subscribed
           \/ SendPing /\ stream' = Append(stream, Pong)
           \/ ReadRecord /\ stream # <<>> /\ Head(stream) # Pong /\ stream' = Tail(stream)
           \/ ReadPong /\ stream # <<>> /\ Head(stream) = Pong /\ stream' = Tail(stream)
           \/ stream' = <<>> /\ reader' \notin Alive
<1>1. CASE \E a \in Account : Publish(a)
    BY <1>1 DEF Publish
<1>2. CASE ReadRecord \/ SendPing \/ ReadPong
    BY <1>2 DEF ReadRecord, SendPing, ReadPong
<1>3. CASE ReaderFails \/ FinishUncertain \/ Die
    BY <1>3 DEF ReaderFails, FinishUncertain, Die, Finish, Alive
<1>4. CASE Connect \/ BeginFails \/ Join
    BY <1>4 DEF Connect, BeginFails, Join, Control, Alive, Running, readerVars
<1> QED
    BY <1>1, <1>2, <1>3, <1>4, ReaderFrame

-----------------------------------------------------------------------------
(* Nothing is from the future *)

LEMMA PastStep ==
    ASSUME IInv, [Next]_vars
    PROVE  Past'
<1>1. TypeOK /\ TypeOK' /\ Past /\ Control
    BY TypeStep DEF IInv
<1>2. now \in Nat /\ now' \in Nat /\ now <= now' /\ Pong = 0
    BY <1>1, ClockSteps DEF Pong
<1>3. stream \in Seq(Event \cup {Pong}) /\ unspooled \in Seq(Event) /\ usage \in Seq(Usage)
      /\ nextId \in Nat \ {0}
    BY <1>1 DEF TypeOK, SpoolTypeOK
<1> HIDE DEF now
<1>4. stored' \subseteq 1 .. now'
  <2>1. stored' \subseteq stored \cup Spooled
      BY <1>1, BatchTyped, BusinessFrame DEF PersistBatch, CreateEvents
  <2> QED
      BY <1>1, <1>2, <2>1 DEF Past
<1>5. Spooled' \subseteq 1 .. now'
  <2>1. CASE UNCHANGED <<usage, nextId>>
      BY <1>1, <1>2, <2>1 DEF Past, Spooled
  <2>2. CASE DeleteBatch
    <3>1. pass.count \in Nat /\ DeleteUsage(pass.count)
        BY <1>1, <2>2, Fields DEF DeleteBatch
    <3>2. \A k \in DOMAIN usage' : \E l \in DOMAIN usage : usage'[k] = usage[l]
      <4>1. /\ usage' \in Seq(Usage)
            /\ \A k \in 1 .. Len(usage') :
                  pass.count + k \in 1 .. Len(usage) /\ usage'[k] = usage[pass.count + k]
          BY <1>3, <3>1, UsageDeleted
      <4>2. DOMAIN usage = 1 .. Len(usage) /\ DOMAIN usage' = 1 .. Len(usage')
          BY <1>3, <4>1
      <4> QED
          BY <4>1, <4>2
    <3> QED
        BY <1>1, <1>2, <3>2 DEF Past, Spooled
  <2>3. ASSUME NEW events \in Seq(Event), AppendUsage(events),
               \A k \in 1 .. Len(events) : events[k] \in 1 .. now
        PROVE  Spooled' \subseteq 1 .. now'
    <3>1. ASSUME NEW k \in DOMAIN usage'
          PROVE  usage'[k].event \in 1 .. now
      <4>1. /\ usage' \in Seq(Usage) /\ Len(usage) \in Nat /\ Len(events) \in Nat
            /\ Len(usage') = Len(usage) + Len(events)
            /\ \A m \in 1 .. Len(usage) : usage'[m] = usage[m]
            /\ \A m \in 1 .. Len(events) : usage'[Len(usage) + m].event = events[m]
          BY <1>3, <2>3, UsageAppended
      <4>2. CASE k \in 1 .. Len(usage)
          BY <1>1, <1>3, <4>1, <4>2 DEF Past, Spooled
      <4>3. CASE k \notin 1 .. Len(usage)
        <5>1. k - Len(usage) \in 1 .. Len(events) /\ k = Len(usage) + (k - Len(usage))
            BY <3>1, <4>1, <4>3
        <5> QED
            BY <2>3, <4>1, <5>1
      <4> QED
          BY <4>2, <4>3
    <3>2. Spooled' \subseteq 1 .. now
        BY <3>1 DEF Spooled
    <3> QED
        BY <1>2, <3>2
  <2>4. \A k \in 1 .. Len(unspooled) : unspooled[k] \in 1 .. now
      BY <1>1, <1>3 DEF Past, Unspooled
  <2>5. ASSUME stream # <<>>, Head(stream) # Pong
        PROVE  <<Head(stream)>> \in Seq(Event)
               /\ \A k \in 1 .. Len(<<Head(stream)>>) : <<Head(stream)>>[k] \in 1 .. now
    <3>1. Head(stream) \in Range(stream) /\ Head(stream) \in Event
        BY <1>3, <2>5, HeadAndTail
    <3>2. Head(stream) \in 1 .. now
        BY <1>1, <1>2, <2>5, <3>1 DEF Past
    <3> QED
        BY <3>1, <3>2
  <2> QED
      BY <1>1, <1>3, <2>1, <2>2, <2>3, <2>4, <2>5, UsageSteps
<1>6. ASSUME NEW x \in Range(stream')
      PROVE  x \in 0 .. now'
  <2>1. CASE UNCHANGED stream
      BY <1>1, <1>2, <1>6, <2>1 DEF Past
  <2>2. CASE stream # <<>> /\ stream' = Tail(stream)
    <3>1. x \in Range(stream)
        BY <1>3, <1>6, <2>2, HeadAndTail
    <3> QED
        BY <1>1, <1>2, <3>1 DEF Past
  <2>3. CASE SendPing /\ stream' = Append(stream, Pong)
    <3>1. Range(stream') = Range(stream) \cup {Pong}
      <4>1. Pong \in Event \cup {Pong}
          OBVIOUS
      <4> QED
          BY <1>3, <2>3, <4>1, Appended
    <3> QED
        BY <1>1, <1>2, <3>1 DEF Past
  <2>4. CASE /\ \E a \in Account : Publish(a)
             /\ stream' = Append(stream, now + 1)
    <3>1. now' = now + 1 /\ now + 1 \in Event
      <4>1. PICK a \in Account : Publish(a)
          BY <2>4
      <4>2. published \in Seq(Account) /\ published' = Append(published, a) /\ now < MaxEvents
          BY <1>1, <4>1 DEF TypeOK, Publish
      <4> QED
          BY <1>2, <4>2, CPACollectorAssumption DEF now, Event
    <3>2. Range(stream') = Range(stream) \cup {now + 1}
      <4>1. now + 1 \in Event \cup {Pong}
          BY <3>1
      <4> QED
          BY <1>3, <2>4, <4>1, Appended
    <3> QED
        BY <1>1, <1>2, <1>6, <3>1, <3>2 DEF Past
  <2>5. CASE stream' = <<>>
      BY <1>6, <2>5 DEF Range
  <2> QED
      BY <1>1, <2>1, <2>2, <2>3, <2>4, <2>5, StreamSteps
<1>7. Unspooled' \subseteq 1 .. now'
  <2>1. CASE UNCHANGED unspooled
      BY <1>1, <1>2, <2>1 DEF Past, Unspooled
  <2>2. CASE unspooled' = <<>>
      BY <2>2 DEF Unspooled
  <2>3. CASE ReadRecord /\ unspooled' = Append(unspooled, Head(stream))
    <3>1. stream # <<>> /\ Head(stream) # Pong
        BY <2>3 DEF ReadRecord
    <3>2. Head(stream) \in Range(stream) /\ Head(stream) \in Event
        BY <1>3, <3>1, HeadAndTail
    <3>3. Head(stream) \in 1 .. now
        BY <1>1, <1>2, <3>1, <3>2 DEF Past
    <3>4. Range(unspooled') = Range(unspooled) \cup {Head(stream)}
      <4> HIDE DEF Event
      <4> QED
          BY <1>3, <2>3, <3>2, Appended
    <3>5. Unspooled = Range(unspooled) /\ Unspooled' = Range(unspooled')
        BY DEF Unspooled, Range
    <3> QED
        BY <1>1, <1>2, <3>3, <3>4, <3>5 DEF Past
  <2> QED
      BY <2>1, <2>2, <2>3, ReaderFrame
         DEF ReadRecord, Flush, FlushInLoop, LastFlush, FlushTo, Raises, Die, readerVars
<1>8. ASSUME NEW a \in Account
      PROVE  sampled'[a] <= now'
  <2>1. CASE UNCHANGED sampled
    <3>1. sampled[a] \in Int
        BY <1>1, NeverIsNoTime DEF TypeOK
    <3> QED
        BY <1>1, <1>2, <2>1, <3>1 DEF Past
  <2>2. CASE QueryOpening \/ QueryClosing
    <3>1. now' = now /\ \E S \in SUBSET Account :
              sampled' = [b \in Account |-> IF b \in S THEN now ELSE Never]
        BY <1>1, <2>2, Fields DEF QueryOpening, QueryClosing, Query, cpaVars, now, TypeOK
    <3> QED
        BY <1>2, <3>1 DEF Never
  <2>3. CASE sampled' = NoSample
      BY <1>2, <2>3 DEF NoSample, Never
  <2> QED
      BY <2>1, <2>2, <2>3, MainFrame
<1>9. poll'.at <= now'
  <2>1. CASE poll' = poll
      BY <1>1, <1>2, <2>1, Fields, NeverIsNoTime DEF Past
  <2>2. CASE PollQuery
    <3>1. poll'.at = now /\ now' = now
        BY <1>1, <2>2 DEF PollQuery, TypeOK, cpaVars, now
    <3> QED
        BY <1>2, <3>1
  <2>3. CASE poll' = NoPoll
      BY <1>2, <2>3 DEF NoPoll
  <2>4. ASSUME NEW a \in Account, PollTake(a)
        PROVE  poll'.at <= now'
    <3>1. poll' = [NoPoll EXCEPT !.step = "query", !.account = a]
        BY <2>4 DEF PollTake
    <3>2. poll'.at = 0
        BY <3>1 DEF NoPoll
    <3> QED
        BY <1>2, <3>2
  <2> QED
      BY <2>1, <2>2, <2>3, <2>4, BusinessFrame DEF pollVars, PollWrite, PollGivesUp, Stall
<1>10. ASSUME NEW r \in Range(boundaries)
       PROVE  /\ r.sample \in Int /\ r.sample <= now
              /\ r.reliable => r.disconnected \in Int /\ r.disconnected <= now
  <2>1. r \in Boundary
      BY <1>1, <1>10, InRange DEF TypeOK, SpoolTypeOK
  <2> QED
      BY <1>1, <1>10, <2>1, RecordFields DEF Past
<1>11. ASSUME NEW o \in observations'
       PROVE  o.at <= now'
  <2>1. ASSUME NEW b \in observations, o.at = b.at
        PROVE  o.at <= now'
    <3>1. b.at \in Int
        BY <1>1, RowFields, NeverIsNoTime
    <3> QED
        BY <1>1, <1>2, <2>1, <3>1 DEF Past
  <2>2. CASE Head(pass.todo) \in Range(boundaries) /\ o.at = Head(pass.todo).sample
      BY <1>2, <1>10, <2>2
  <2>3. CASE o.at = poll.at
      BY <1>1, <1>2, <2>3, Fields, NeverIsNoTime DEF Past
  <2> QED
      BY <1>11, <2>1, <2>2, <2>3, ObservationSteps
<1>12. ASSUME NEW r \in Range(boundaries')
       PROVE  /\ r.sample <= now'
              /\ r.reliable => r.disconnected <= now'
  <2>1. CASE r \in Range(boundaries)
      BY <1>2, <1>10, <2>1
  <2>2. CASE Recorded(r)
    <3>1. r.sample = Never \/ r.sample = sampled[r.account]
        BY <2>2 DEF Recorded
    <3>2. r.account \in Account /\ \A a \in Account : sampled[a] \in Int /\ sampled[a] <= now
      <4>1. r.account \in Account
          BY <2>2 DEF Recorded
      <4>2. \A a \in Account : sampled[a] \in Int
          BY <1>1, NeverIsNoTime DEF TypeOK
      <4> QED
          BY <1>1, <4>1, <4>2 DEF Past
    <3>3. r.reliable => r.disconnected = now
        BY <2>2 DEF Recorded
    <3>4. Never \in Int /\ Never <= now
        BY <1>2 DEF Never
    <3> QED
        BY <1>2, <3>1, <3>2, <3>3, <3>4
  <2> QED
      BY <1>12, <2>1, <2>2, QueueSteps
<1>13. ASSUME NEW j \in intervals', j.reliable
       PROVE  j.disconnected <= now'
  <2>1. \A i \in intervals : i.disconnected \in Int /\ (i.reliable => i.disconnected <= now)
      BY <1>1, RowFields DEF Past
  <2>2. ASSUME NEW h \in Range(boundaries), IntervalFrom(j, h)
        PROVE  j.disconnected <= now'
    <3>1. \/ \E i \in intervals : j.disconnected = i.disconnected /\ j.reliable = i.reliable
          \/ j.disconnected = h.disconnected /\ j.reliable = h.reliable
        BY <1>13, <2>2 DEF IntervalFrom, Of
    <3>2. h.reliable => h.disconnected \in Int /\ h.disconnected <= now
        BY <1>10
    <3> QED
      <4>1. j.disconnected \in Int /\ j.disconnected <= now
          BY <1>13, <2>1, <3>1, <3>2
      <4> QED
          BY <1>2, <4>1
  <2> QED
      BY <1>2, <1>13, <2>1, <2>2, RowSteps
<1> QED
    BY <1>4, <1>5, <1>6, <1>7, <1>8, <1>9, <1>11, <1>12, <1>13 DEF Past

-----------------------------------------------------------------------------
(* The order of the ids, and who runs when *)

LEMMA IdsAscendStep ==
    ASSUME IInv, [Next]_vars
    PROVE  IdsAscend'
<1>1. TypeOK /\ TypeOK' /\ IdsAscend /\ LeavingIsApplied
    BY TypeStep DEF IInv
<1>2. /\ usage \in Seq(Usage) /\ nextId \in Nat \ {0} /\ usage' \in Seq(Usage)
      /\ DOMAIN usage = 1 .. Len(usage) /\ DOMAIN usage' = 1 .. Len(usage')
      /\ Len(usage) \in Nat /\ Len(usage') \in Nat
      /\ \A k \in 1 .. Len(usage) : usage[k].id \in Nat
  <2>1. usage \in Seq(Usage) /\ nextId \in Nat \ {0} /\ usage' \in Seq(Usage)
      BY <1>1 DEF TypeOK, SpoolTypeOK
  <2>2. \A k \in 1 .. Len(usage) : usage[k] \in Usage
      BY <2>1
  <2> QED
      BY <2>1, <2>2 DEF Usage
<1>3. CASE UNCHANGED <<usage, nextId>>
    BY <1>1, <1>3 DEF IdsAscend
<1>4. CASE DeleteBatch
  <2>1. pass.count \in Nat /\ DeleteUsage(pass.count)
      BY <1>1, <1>4, Fields DEF DeleteBatch
  <2>2. nextId' = nextId
      BY <2>1 DEF DeleteUsage
  <2>3. \A k \in 1 .. Len(usage') :
            pass.count + k \in 1 .. Len(usage) /\ usage'[k] = usage[pass.count + k]
      BY <1>2, <2>1, UsageDeleted
  <2>4. \A k \in DOMAIN usage' : usage'[k].id < nextId'
      BY <1>1, <1>2, <2>2, <2>3 DEF IdsAscend
  <2>5. ASSUME NEW k \in DOMAIN usage', NEW l \in DOMAIN usage', k < l
        PROVE  usage'[k].id < usage'[l].id
    <3>1. pass.count + k \in DOMAIN usage /\ pass.count + l \in DOMAIN usage
        BY <1>2, <2>3
    <3>2. pass.count + k < pass.count + l
        BY <1>2, <2>1, <2>5
    <3> QED
        BY <1>1, <1>2, <2>3, <3>1, <3>2 DEF IdsAscend
  <2> QED
      BY <2>4, <2>5 DEF IdsAscend
<1>5. ASSUME NEW events \in Seq(Event), AppendUsage(events)
      PROVE  IdsAscend'
  <2>1. /\ Len(events) \in Nat /\ Len(usage') = Len(usage) + Len(events)
        /\ nextId' = nextId + Len(events)
        /\ \A k \in 1 .. Len(usage) : usage'[k] = usage[k]
        /\ \A k \in 1 .. Len(events) : usage'[Len(usage) + k].id = nextId + k - 1
      BY <1>2, <1>5, UsageAppended
  <2>2. ASSUME NEW k \in 1 .. Len(usage')
        PROVE  \/ k \in 1 .. Len(usage) /\ usage'[k].id = usage[k].id
               \/ /\ k > Len(usage) /\ k <= Len(usage) + Len(events)
                  /\ usage'[k].id = nextId + (k - Len(usage)) - 1
    <3>1. CASE k \in 1 .. Len(usage)
        BY <2>1, <3>1
    <3>2. CASE k \notin 1 .. Len(usage)
      <4> DEFINE m == k - Len(usage)
      <4>1. m \in 1 .. Len(events) /\ k = Len(usage) + m
          BY <1>2, <2>1, <3>2
      <4> HIDE DEF m
      <4>2. usage'[k].id = nextId + m - 1
          BY <2>1, <4>1
      <4>3. k > Len(usage) /\ k <= Len(usage) + Len(events)
          BY <1>2, <2>1, <3>2
      <4> QED
          BY <4>2, <4>3 DEF m
    <3> QED
        BY <3>1, <3>2
  <2>3. ASSUME NEW k \in 1 .. Len(usage')
        PROVE  usage'[k].id < nextId'
    <3>1. CASE k \in 1 .. Len(usage)
      <4>1. usage'[k].id \in Nat /\ usage'[k].id < nextId
          BY <1>1, <1>2, <2>1, <3>1 DEF IdsAscend
      <4> QED
          BY <1>2, <2>1, <4>1
    <3>2. CASE k > Len(usage)
      <4>1. usage'[k].id = nextId + (k - Len(usage)) - 1 /\ k <= Len(usage) + Len(events)
          BY <1>2, <2>2, <3>2
      <4> QED
          BY <1>2, <2>1, <4>1
    <3> QED
        BY <1>2, <3>1, <3>2
  <2>4. ASSUME NEW k \in 1 .. Len(usage'), NEW l \in 1 .. Len(usage'), k < l
        PROVE  usage'[k].id < usage'[l].id
    <3>1. CASE k \in 1 .. Len(usage) /\ l \in 1 .. Len(usage)
        BY <1>1, <1>2, <2>1, <2>4, <3>1 DEF IdsAscend
    <3>2. CASE k \in 1 .. Len(usage) /\ l > Len(usage)
      <4>1. usage'[k].id < nextId /\ usage'[k].id \in Nat
          BY <1>1, <1>2, <2>1, <3>2 DEF IdsAscend
      <4>2. usage'[l].id = nextId + (l - Len(usage)) - 1
          BY <1>2, <2>2, <3>2
      <4> QED
          BY <1>2, <3>2, <4>1, <4>2
    <3>3. CASE k > Len(usage)
      <4>1. /\ usage'[k].id = nextId + (k - Len(usage)) - 1
            /\ usage'[l].id = nextId + (l - Len(usage)) - 1
          BY <1>2, <2>2, <2>4, <3>3
      <4> QED
          BY <1>2, <2>4, <4>1
    <3> QED
        BY <1>2, <3>1, <3>2, <3>3
  <2> QED
      BY <1>2, <2>3, <2>4 DEF IdsAscend
<1> QED
    BY <1>1, <1>3, <1>4, <1>5, UsageSteps

LEMMA ControlStep ==
    ASSUME IInv, [Next]_vars
    PROVE  Control'
<1>1. TypeOK /\ Control
    BY DEF IInv
<1>2. /\ session \in Session /\ barrier \in [state : {"none", "asked", "sent", "failed", "done"}, id : Nat]
      /\ now # Never /\ pass \in [step : {"off", "batch", "delete", "bounds", "drop"}, count : Nat,
                 todo : Seq(Boundary), blocked : SUBSET Account, moved : BOOLEAN]
    BY <1>1, Fields, NeverIsNoTime DEF TypeOK, SpoolTypeOK
<1>16. ASSUME pc' = "begin"
       PROVE  subscribed' /\ Pong \notin Range(stream')
  <2>1. CASE Connect
      BY <2>1 DEF Connect, Range
  <2>2. CASE pc = "begin"
    <3>1. reader \notin Alive /\ subscribed /\ Pong \notin Range(stream)
        BY <1>1, <2>2 DEF Control, Running
    <3>2. subscribed' = subscribed
        BY <1>16, <2>2, <3>1, ReaderFrame DEF ReadRecord, ReaderFails, Unsubscribe, Connect, BeginFails,
           FinishUncertain, Join, Die, Goto, Alive
    <3>3. CASE UNCHANGED stream \/ stream' = <<>>
        BY <3>1, <3>2, <3>3 DEF Range
    <3>4. CASE (\E a \in Account : Publish(a)) /\ stream' = Append(stream, now + 1)
      <4>1. now + 1 \in Event /\ now + 1 # Pong /\ stream \in Seq(Event \cup {Pong})
        <5>1. now \in Nat /\ now < MaxEvents
            BY <1>1, <3>4, Fields DEF Publish
        <5>2. stream \in Seq(Event \cup {Pong})
            BY <1>1 DEF TypeOK
        <5> QED
            BY <5>1, <5>2, Fields, <1>1 DEF Event, Pong
      <4>2. now + 1 \in Event \cup {Pong}
          BY <4>1
      <4>3. Range(Append(stream, now + 1)) = Range(stream) \cup {now + 1}
          BY <4>1, <4>2, Appended
      <4> QED
          BY <3>1, <3>2, <3>4, <4>1, <4>3
    <3> QED
        BY <1>1, <3>1, <3>3, <3>4, StreamSteps DEF SendPing, ReadRecord, ReadPong, Alive
  <2>3. Connect \/ pc = "begin"
      BY <1>16, PcFrame DEF Begin, QueryOpening, CaptureOpening, Leave, QueryClosing,
         FinishDead, FinishReliable, FinishUncertain, FinishAs, Goto
  <2> QED
      BY <2>1, <2>2, <2>3
<1> HIDE DEF now
<1>3. CASE CPA
    BY <1>1, <1>16, <1>3 DEF CPA, Publish, Control, spoolVars, readerVars, mainVars, Draining
<1>4. CASE ReadRecord \/ ReaderFails \/ ReaderStops
    BY <1>1, <1>2, <1>16, <1>4 DEF Running, ReadRecord, ReaderFails, ReaderStops, AppendUsage, Finish, Control,
       Alive, Draining, spoolVars, cpaVars, readerVars, mainVars
<1>5. CASE SendPing \/ ReadPong \/ Unsubscribe
  <2>1. CASE SendPing
      BY <1>1, <1>2, <1>16, <2>1 DEF SendPing, Goto, Control, Alive, Running, Draining, spoolVars, cpaVars, readerVars, mainVars
  <2>2. CASE ReadPong
      BY <1>1, <1>2, <1>16, <2>2 DEF ReadPong, Goto, Control, Alive, Running, Draining, spoolVars, cpaVars, readerVars, mainVars
  <2>3. CASE Unsubscribe
      BY <1>1, <1>2, <1>16, <2>3 DEF Unsubscribe, Goto, Control, Alive, Running, Draining, spoolVars, cpaVars, readerVars, mainVars
  <2> QED
      BY <1>5, <2>1, <2>2, <2>3
<1>6. CASE Recover
    BY <1>1, <1>2, <1>16, <1>6 DEF Recover, RecoverInterruptedSession, FinishSession, Raises, Goto, Control,
       Alive, Running, Draining, spoolVars, cpaVars, readerVars
<1>7. CASE Flush \/ FlushInLoop \/ LastFlush
    BY <1>1, <1>2, <1>16, <1>7 DEF Flush, FlushInLoop, LastFlush, FlushTo, AppendUsage, Raises, Goto, Control,
       Alive, Running, Draining, spoolVars, cpaVars, readerVars
<1>8. CASE Connect \/ ConnectFails \/ BeginFails
    BY <1>1, <1>2, <1>16, <1>8 DEF Connect, ConnectFails, BeginFails, Raises, Goto, Control,
       Alive, Running, Draining, spoolVars, cpaVars, readerVars, Range
<1>9. CASE \E A \in SUBSET Account : Begin(A)
    BY <1>1, <1>2, <1>16, <1>9 DEF Begin, BeginSession, Goto, Control,
       Alive, Running, Draining, spoolVars, cpaVars, readerVars, NoBarrier
<1>10. CASE QueryOpening \/ Ask \/ CaptureOpening \/ Heartbeat \/ Leave \/ QueryClosing
  <2>1. CASE QueryOpening
      BY <1>1, <1>2, <1>16, <2>1 DEF QueryOpening, Goto, Control, Alive, Running, Draining, spoolVars, cpaVars, readerVars, mainVars, Query, NoBarrier, TouchSession, NoPass, Session
  <2>2. CASE Ask
      BY <1>1, <1>2, <1>16, <2>2 DEF Ask, Goto, Control, Alive, Running, Draining, spoolVars, cpaVars, readerVars, mainVars, Query, NoBarrier, TouchSession, NoPass, Session
  <2>3. CASE CaptureOpening
      BY <1>1, <1>2, <1>16, <2>3 DEF CaptureOpening, Goto, Control, Alive, Running, Draining, spoolVars, cpaVars, readerVars, mainVars, Query, NoBarrier, TouchSession, NoPass, Session
  <2>4. CASE Heartbeat
      BY <1>1, <1>2, <1>16, <2>4 DEF Heartbeat, Goto, Control, Alive, Running, Draining, spoolVars, cpaVars, readerVars, mainVars, Query, NoBarrier, TouchSession, NoPass, Session
  <2>5. CASE Leave
      BY <1>1, <1>2, <1>16, <2>5 DEF Leave, Goto, Control, Alive, Running, Draining, spoolVars, cpaVars, readerVars, mainVars, Query, NoBarrier, TouchSession, NoPass, Session
  <2>6. CASE QueryClosing
      BY <1>1, <1>2, <1>16, <2>6 DEF QueryClosing, Goto, Control, Alive, Running, Draining, spoolVars, cpaVars, readerVars, mainVars, Query, NoBarrier, TouchSession, NoPass, Session
  <2> QED
      BY <1>10, <2>1, <2>2, <2>3, <2>4, <2>5, <2>6
<1>11. CASE FinishDead \/ FinishReliable \/ FinishUncertain \/ Join
  <2>1. CASE FinishDead
      BY <1>1, <1>2, <1>16, <2>1 DEF FinishDead, Goto, Control, Alive, Running, Draining, spoolVars, cpaVars, readerVars, mainVars, Finish, FinishAs, FinishSession, Session, NoBarrier
  <2>2. CASE FinishReliable
      BY <1>1, <1>2, <1>16, <2>2 DEF FinishReliable, Goto, Control, Alive, Running, Draining, spoolVars, cpaVars, readerVars, mainVars, Finish, FinishAs, FinishSession, Session, NoBarrier
  <2>3. CASE FinishUncertain
      BY <1>1, <1>2, <1>16, <2>3 DEF FinishUncertain, Goto, Control, Alive, Running, Draining, spoolVars, cpaVars, readerVars, mainVars, Finish, FinishAs, FinishSession, Session, NoBarrier
  <2>4. CASE Join
      BY <1>1, <1>2, <1>16, <2>4 DEF Join, Goto, Control, Alive, Running, Draining, spoolVars, cpaVars, readerVars, mainVars, Finish, FinishAs, FinishSession, Session, NoBarrier
  <2> QED
      BY <1>11, <2>1, <2>2, <2>3, <2>4
<1>12. CASE StartPass \/ PersistBatch \/ DeleteBatch \/ NoBatch \/ Hold \/ PersistBoundary \/ DeleteBoundary
  <2>1. UNCHANGED <<session, subscribed, stream, reader, ended, barrier, connected, pc>>
      BY <1>12 DEF StartPass, PersistBatch, DeleteBatch, NoBatch, Hold, PersistBoundary, DeleteBoundary,
         DeleteUsage, PassOnly, cpaVars, readerVars
  <2>2. pass.step # "off" \/ pc = "loop" \/ Draining
      BY <1>2, <1>12 DEF StartPass, PersistBatch, DeleteBatch, NoBatch, Hold, PersistBoundary, DeleteBoundary
  <2> QED
      BY <1>1, <1>16, <2>1, <2>2 DEF Control, Draining
<1>13. CASE EndPass \/ PassFails
  <2>1. CASE EndPass
    <3>1. /\ UNCHANGED <<session, subscribed, stream, reader, ended, barrier, connected>>
          /\ Draining \/ pc = "loop"
        BY <1>1, <2>1 DEF EndPass, PassOnly, cpaVars, readerVars, Control
    <3>2. \/ pc' = pc /\ Draining
          \/ pass' = NoPass /\ pc' = pc
          \/ pass' = NoPass /\ pc' = "boot" /\ Draining
          \/ pass' = NoPass /\ pc' = "connect" /\ pc = "drain"
        BY <2>1, <3>1 DEF EndPass, Goto
    <3>3. NoPass.step = "off"
        BY DEF NoPass
    <3>4. pass'.step # "off" => (Draining' \/ pc' = "loop")
        BY <3>1, <3>2, <3>3 DEF Draining
    <3>5. \/ pc' = pc
          \/ /\ pc' \notin Running \cup {"begin"}
             /\ pc \notin Running \cup {"join"}
        BY <3>2 DEF Running, Draining
    <3> QED
        BY <1>1, <1>16, <3>1, <3>4, <3>5 DEF Control
  <2>2. CASE PassFails
      BY <1>1, <1>2, <1>16, <2>2 DEF PassFails, Goto, Control, Alive, Running, Draining, spoolVars, cpaVars, readerVars, mainVars, ToBoundaries, NoPass, PassOnly
  <2> QED
      BY <1>13, <2>1, <2>2
<1>14. CASE Die
    BY <1>1, <1>2, <1>16, <1>14 DEF Die, Control, Alive, Running, Goto, Draining, NoPass, NoBarrier, spoolVars
<1>15. CASE PollNext \/ UNCHANGED vars
    BY <1>1, <1>16, <1>15 DEF PollNext, PollTake, PollQuery, PollWrite, PollGivesUp, Stall, vars, Control,
       Draining, spoolVars, cpaVars, readerVars, mainVars
<1> QED
    BY <1>3, <1>4, <1>5, <1>6, <1>7, <1>8, <1>9, <1>10, <1>11, <1>12, <1>13, <1>14, <1>15
       DEF Next, ReaderNext, SessionNext, PassNext

-----------------------------------------------------------------------------
(* The barrier *)

LEMMA ReaderSteps ==
    ASSUME TypeOK, Control, [Next]_vars
    PROVE  \/ reader' = reader
           \/ SendPing /\ reader = "reading" /\ reader' = "pinging"
           \/ ReadPong /\ reader = "pinging" /\ reader' = "reading"
           \/ /\ reader = "reading" /\ reader' = "draining" /\ pc = "join"
              /\ stream' = stream /\ UNCHANGED mainVars
           \/ /\ pc = "begin" /\ reader' = "reading" /\ stream' = stream
              /\ connected' = now /\ now' = now /\ subscribed' = subscribed
              /\ barrier' = NoBarrier
           \/ reader' \notin Alive
<1>1. CASE ReadRecord \/ SendPing \/ ReadPong \/ ReaderFails \/ Unsubscribe \/ ReaderStops
    BY <1>1 DEF ReadRecord, SendPing, ReadPong, ReaderFails, Unsubscribe, ReaderStops, Finish, Alive, readerVars
<1>2. CASE \E A \in SUBSET Account : Begin(A)
    BY <1>2 DEF Begin, cpaVars, now
<1>3. CASE FinishUncertain \/ Die
    BY <1>3 DEF FinishUncertain, Die, Finish, Alive
<1> QED
    BY <1>1, <1>2, <1>3, ReaderFrame

LEMMA StreamAppended ==
    ASSUME TypeOK, NEW a \in Account, Publish(a), stream' = Append(stream, now + 1)
    PROVE  /\ now' = now + 1 /\ now \in Nat /\ now + 1 \in Event /\ now + 1 # Pong
           /\ Len(stream) \in Nat /\ DOMAIN stream = 1 .. Len(stream)
           /\ DOMAIN stream' = 1 .. Len(stream) + 1
           /\ \A k \in 1 .. Len(stream) : stream'[k] = stream[k]
           /\ stream'[Len(stream) + 1] = now + 1
           /\ Range(stream') = Range(stream) \cup {now + 1}
<1>1. published \in Seq(Account) /\ published' = Append(published, a) /\ now < MaxEvents
      /\ stream \in Seq(Event \cup {Pong})
    BY DEF Publish, TypeOK
<1>2. now' = now + 1 /\ now \in Nat /\ now + 1 \in Event /\ now + 1 # Pong
    BY <1>1, Fields DEF Event, Pong, now
<1> HIDE DEF now
<1>3. now + 1 \in Event \cup {Pong}
    BY <1>2
<1> QED
    BY <1>1, <1>2, <1>3, Appended

LEMMA OnePongStep ==
    ASSUME IInv, [Next]_vars
    PROVE  OnePong'
<1>1. TypeOK /\ Control /\ OnePong
    BY DEF IInv
<1>2. /\ stream \in Seq(Event \cup {Pong}) /\ DOMAIN stream = 1 .. Len(stream) /\ Len(stream) \in Nat
      /\ Pong \in Event \cup {Pong}
    BY <1>1 DEF TypeOK
<1>3. CASE UNCHANGED stream
    BY <1>1, <1>3, ReaderSteps DEF OnePong, Control, SendPing, ReadPong, Alive
<1>4. CASE (\E a \in Account : Publish(a)) /\ stream' = Append(stream, now + 1)
  <2>1. PICK a \in Account : Publish(a)
      BY <1>4
  <2>2. reader' = reader
      BY <2>1 DEF Publish, readerVars
  <2>3. /\ now + 1 # Pong
        /\ DOMAIN stream' = 1 .. Len(stream) + 1
        /\ \A k \in 1 .. Len(stream) : stream'[k] = stream[k]
        /\ stream'[Len(stream) + 1] = now + 1
        /\ Range(stream') = Range(stream) \cup {now + 1}
      BY <1>1, <1>4, <2>1, StreamAppended
  <2>4. \A k \in DOMAIN stream' : stream'[k] = Pong => k \in DOMAIN stream /\ stream[k] = Pong
      BY <1>2, <2>3
  <2> QED
      BY <1>1, <2>2, <2>3, <2>4 DEF OnePong
<1>5. CASE SendPing /\ stream' = Append(stream, Pong)
  <2>1. reader = "reading" /\ reader' = "pinging"
      BY <1>5 DEF SendPing
  <2>2. /\ DOMAIN stream' = 1 .. Len(stream) + 1
        /\ \A k \in 1 .. Len(stream) : stream'[k] = stream[k]
      BY <1>2, <1>5, Appended
  <2>3. \A k \in 1 .. Len(stream) : stream[k] # Pong
      BY <1>1, <1>2, <2>1 DEF OnePong, Range
  <2>4. \A k \in DOMAIN stream' : stream'[k] = Pong => k = Len(stream) + 1
      BY <1>2, <2>2, <2>3
  <2> QED
      BY <2>1, <2>4 DEF OnePong
<1>6. CASE stream # <<>> /\ stream' = Tail(stream)
  <2>1. /\ stream[1] = Head(stream) /\ DOMAIN stream' = 1 .. Len(stream) - 1
        /\ \A k \in 1 .. Len(stream) - 1 : k + 1 \in 1 .. Len(stream) /\ stream'[k] = stream[k + 1]
        /\ Range(stream') \subseteq Range(stream) /\ Len(stream) \in Nat \ {0}
      BY <1>2, <1>6, HeadAndTail
  <2>2. CASE reader' = reader
    <3>1. ASSUME NEW k \in DOMAIN stream', NEW l \in DOMAIN stream', reader = "pinging",
                 stream'[k] = Pong, stream'[l] = Pong
          PROVE  k = l
      <4>1. k + 1 = l + 1
          BY <1>1, <1>2, <2>1, <3>1 DEF OnePong
      <4> QED
          BY <2>1, <4>1
    <3> QED
        BY <1>1, <2>1, <2>2, <3>1 DEF OnePong
  <2>3. CASE ReadPong /\ reader = "pinging" /\ reader' = "reading"
    <3>1. stream[1] = Pong
        BY <2>1, <2>3 DEF ReadPong
    <3>2. \A k \in DOMAIN stream' : stream'[k] # Pong
      <4> SUFFICES ASSUME NEW k \in DOMAIN stream', stream'[k] = Pong
                   PROVE  FALSE
          OBVIOUS
      <4>1. k + 1 \in DOMAIN stream /\ 1 \in DOMAIN stream /\ stream[k + 1] = Pong
          BY <1>2, <2>1
      <4>2. k + 1 = 1
          BY <1>1, <2>3, <3>1, <4>1 DEF OnePong
      <4> QED
          BY <2>1, <4>2
    <3> QED
        BY <2>3, <3>2 DEF OnePong, Range
  <2>4. CASE reader' \notin Alive
      BY <2>4 DEF OnePong, Alive
  <2> QED
      BY <1>1, <1>6, <2>1, <2>2, <2>3, <2>4, StreamSteps, ReaderSteps
         DEF SendPing, ReadRecord, ReadPong, Finish, Alive, readerVars
<1>7. CASE stream' = <<>> /\ reader' \notin Alive
    BY <1>7 DEF OnePong, Alive
<1> QED
    BY <1>1, <1>3, <1>4, <1>5, <1>6, <1>7, StreamSteps

\* The record that is read is in the spool while the reader lives.
LEMMA HeadRead ==
    ASSUME TypeOK, TypeOK', ReadRecord, reader' \in Alive
    PROVE  Head(stream) \in Spooled'
<1>1. stream # <<>> /\ Head(stream) # Pong /\ stream \in Seq(Event \cup {Pong})
    BY DEF ReadRecord, TypeOK
<1>2. Head(stream) \in Event
    BY <1>1, HeadAndTail
<1> DEFINE events == <<Head(stream)>>
<1>3. AppendUsage(events)
    BY DEF ReadRecord, Finish, Alive
<1>4. /\ events \in Seq(Event) /\ Len(events) = 1 /\ events[1] = Head(stream)
      /\ 1 \in 1 .. Len(events)
    BY <1>2
<1>5. usage \in Seq(Usage) /\ nextId \in Nat \ {0} /\ usage' \in Seq(Usage)
    BY DEF TypeOK, SpoolTypeOK
<1> HIDE DEF events
<1>6. /\ Len(usage) + 1 \in 1 .. Len(usage')
      /\ usage'[Len(usage) + 1].event = Head(stream)
    BY <1>3, <1>4, <1>5, UsageAppended
<1> QED
    BY <1>5, <1>6 DEF Spooled

LEMMA HandedOverStep ==
    ASSUME IInv, [Next]_vars
    PROVE  HandedOver'
<1>1. TypeOK /\ TypeOK' /\ Control /\ HandedOver
    BY TypeStep DEF IInv
<1>2. /\ now \in Nat /\ now' \in Nat /\ now <= now' /\ connected \in Nat
      /\ stream \in Seq(Event \cup {Pong})
    BY <1>1, ClockSteps, NeverIsNoTime DEF TypeOK
<1>3. CASE /\ pc = "begin" /\ connected' = now /\ now' = now /\ subscribed' = subscribed
  <2>1. subscribed' /\ \A e \in connected' + 1 .. now' : FALSE
      BY <1>1, <1>2, <1>3 DEF Control
  <2> QED
      BY <2>1 DEF HandedOver
<1>4. CASE reader \in {"reading", "pinging"} /\ reader' \in {"reading", "pinging"}
  <2>1. subscribed /\ \A e \in connected + 1 .. now : InHand(e)
      BY <1>1, <1>4 DEF HandedOver
  <2>2. pc \in Running \cup {"join"}
      BY <1>1, <1>4 DEF Control, Alive
  <2>3. subscribed'
      BY <1>1, <1>4, <2>1, <2>2, ReaderFrame DEF ReadRecord, ReaderFails, Unsubscribe, Connect,
         BeginFails, FinishUncertain, Join, Die, Finish, Running, spoolVars
  <2>4. connected' = connected
      BY <1>4, <2>2, MainFrame DEF Begin, Join, Die, Running
  <2>5. ASSUME NEW e \in connected + 1 .. now, e \in Range(stream)
        PROVE  e \in stored' \cup Spooled' \cup Range(stream')
    <3>1. e # Pong
        BY <1>2, <2>5 DEF Pong
    <3>2. CASE /\ stream # <<>> /\ stream' = Tail(stream)
               /\ ReadRecord \/ Head(stream) = Pong
      <4>1. e = Head(stream) \/ e \in Range(stream')
          BY <1>2, <2>5, <3>2, HeadAndTail
      <4>2. ReadRecord => Head(stream) \in Spooled'
          BY <1>1, <1>4, HeadRead DEF Alive
      <4> QED
          BY <3>1, <3>2, <4>1, <4>2
    <3>3. CASE (\E a \in Account : Publish(a)) /\ stream' = Append(stream, now + 1)
        BY <1>1, <2>5, <3>3, StreamAppended
    <3>4. CASE SendPing /\ stream' = Append(stream, Pong)
      <4>1. Pong \in Event \cup {Pong}
          OBVIOUS
      <4>2. Range(Append(stream, Pong)) = Range(stream) \cup {Pong}
          BY <1>2, <4>1, Appended
      <4> QED
          BY <2>5, <3>4, <4>2
    <3>5. CASE UNCHANGED stream
        BY <2>5, <3>5
    <3> QED
        BY <1>1, <1>4, <3>2, <3>3, <3>4, <3>5, StreamSteps DEF Alive
  <2>6. ASSUME NEW e \in connected' + 1 .. now'
        PROVE  e \in stored' \cup Spooled' \cup Range(stream')
    <3>1. CASE e <= now
      <4>1. e \in connected + 1 .. now
          BY <1>2, <2>4, <2>6, <3>1
      <4> QED
          BY <2>1, <2>5, <4>1, HeldStays DEF InHand
    <3>2. CASE now < e
      <4>1. now' # now
          BY <1>2, <2>6, <3>2
      <4>2. PICK a \in Account : Publish(a) /\ now' = now + 1
          BY <1>1, <4>1, ClockSteps
      <4>3. e = now + 1
          BY <1>2, <2>6, <3>2, <4>2
      <4>4. stream' = Append(stream, now + 1)
          BY <2>1, <4>2 DEF Publish
      <4> QED
          BY <1>1, <4>2, <4>3, <4>4, StreamAppended
    <3> QED
        BY <1>2, <2>4, <2>6, <3>1, <3>2
  <2> QED
      BY <2>3, <2>6 DEF HandedOver, InHand
<1>5. CASE reader' \notin {"reading", "pinging"}
    BY <1>5 DEF HandedOver
<1> QED
    BY <1>1, <1>3, <1>4, <1>5, ReaderSteps DEF Alive

\* The barrier of the main loop goes on, is sent, is answered, or is given up.
LEMMA BarrierSteps ==
    ASSUME TypeOK, Control, Control', [Next]_vars
    PROVE  \/ barrier' = barrier
           \/ SendPing /\ barrier'.state = "sent" /\ UNCHANGED mainVars
           \/ /\ ReadPong /\ barrier.state = "sent" /\ reader = "pinging"
              /\ barrier' = [state |-> "done", id |-> MaxUsageId]
           \/ barrier'.state \notin {"sent", "done"}
<1>1. barrier \in [state : {"none", "asked", "sent", "failed", "done"}, id : Nat]
    BY DEF TypeOK
<1>2. CASE SendPing \/ ReadPong
    BY <1>1, <1>2 DEF SendPing, ReadPong
<1>3. CASE ReadRecord \/ ReaderFails \/ ReaderStops \/ FinishUncertain
    BY <1>1, <1>3 DEF ReadRecord, ReaderFails, ReaderStops, FinishUncertain, Finish, readerVars
<1>4. CASE barrier' = NoBarrier
    BY <1>4 DEF NoBarrier
<1>5. CASE Ask
    BY <1>1, <1>5 DEF Ask
<1> QED
    BY <1>2, <1>3, <1>4, <1>5, ReaderFrame DEF Begin, QueryOpening, QueryClosing, Query, Join, Die

\* The ids of the queue end with the greatest.
LEMMA LastIdIsGreatest ==
    ASSUME TypeOK, IdsAscend, NEW k \in DOMAIN usage
    PROVE  usage[k].id <= MaxUsageId
<1>1. usage \in Seq(Usage)
    BY DEF TypeOK, SpoolTypeOK
<1>2. Len(usage) \in Nat /\ k \in 1 .. Len(usage) /\ DOMAIN usage = 1 .. Len(usage) /\ usage # <<>>
    BY <1>1
<1>3. usage[k] \in Usage /\ MaxUsageId = usage[Len(usage)].id
    BY <1>1, <1>2 DEF MaxUsageId
<1>4. usage[k].id \in Nat
    BY <1>3 DEF Usage
<1>5. k = Len(usage) \/ k < Len(usage)
    BY <1>2
<1>6. k < Len(usage) => usage[k].id < usage[Len(usage)].id
    BY <1>2 DEF IdsAscend
<1>7. usage[Len(usage)] \in Usage
    BY <1>1, <1>2
<1>8. usage[Len(usage)].id \in Nat
    BY <1>7 DEF Usage
<1> QED
    BY <1>3, <1>4, <1>5, <1>6, <1>8

LEMMA BarrierHoldsStep ==
    ASSUME IInv, [Next]_vars
    PROVE  BarrierHolds'
<1>1. TypeOK /\ TypeOK' /\ Control /\ Control' /\ BarrierHolds /\ HandedOver /\ OnePong
      /\ IdsAscend /\ Past
    BY TypeStep, ControlStep DEF IInv
<1>2. /\ stream \in Seq(Event \cup {Pong}) /\ DOMAIN stream = 1 .. Len(stream) /\ Len(stream) \in Nat
      /\ Pong \in Event \cup {Pong}
    BY <1>1 DEF TypeOK
<1>3. connected \in Nat /\ connected' \in Nat /\ now \in Nat
    BY <1>1, Fields, NeverIsNoTime DEF TypeOK
<1>4. ASSUME NEW a \in Account, NEW e \in connected' + 1 .. sampled'[a], barrier'.state \in {"sent", "done"}
      PROVE  /\ e \in connected + 1 .. sampled[a] /\ e \in Nat
             /\ e \in connected + 1 .. now /\ e # Pong
  <2>1. barrier' # NoBarrier
      BY <1>4 DEF NoBarrier
  <2>2. connected' = connected /\ (sampled' = sampled \/ sampled' = NoSample)
      BY <2>1, MainFrame DEF Begin, Join, Die, QueryOpening, QueryClosing, Query
  <2>3. sampled' # NoSample
    <3>1. e \in connected + 1 .. sampled'[a]
        BY <1>4, <2>2
    <3>2. ASSUME sampled' = NoSample
          PROVE  FALSE
      <4>1. sampled'[a] = Never
          BY <3>2 DEF NoSample
      <4>2. e \in connected + 1 .. Never
          BY <3>1, <4>1
      <4> QED
          BY <1>3, <4>2 DEF Never
    <3> QED
        BY <3>2
  <2>4. sampled[a] <= now /\ sampled[a] \in Int
    <3>1. sampled[a] <= now
        BY <1>1 DEF Past
    <3>2. sampled[a] \in Time \cup {Never}
        BY <1>1 DEF TypeOK
    <3> QED
        BY <3>1, <3>2, NeverIsNoTime
  <2> QED
      BY <1>3, <1>4, <2>2, <2>3, <2>4 DEF Pong
<1>5. ASSUME NEW a \in Account, NEW e \in connected' + 1 .. sampled'[a], barrier'.state = "sent"
      PROVE  \E k \in DOMAIN stream' :
                /\ stream'[k] = Pong
                /\ \/ e \in stored' \cup Spooled'
                   \/ \E j \in 1 .. k - 1 : stream'[j] = e
  <2>1. /\ e \in connected + 1 .. sampled[a] /\ e \in connected + 1 .. now /\ e # Pong
      BY <1>4, <1>5
  <2>2. reader' = "pinging"
      BY <1>1, <1>5 DEF Control
  <2>3. CASE SendPing
    <3>1. reader = "reading" /\ stream' = Append(stream, Pong)
        BY <2>3 DEF SendPing
    <3>2. /\ DOMAIN stream' = 1 .. Len(stream) + 1
          /\ \A k \in 1 .. Len(stream) : stream'[k] = stream[k]
          /\ stream'[Len(stream) + 1] = Pong
        BY <1>2, <3>1, Appended
    <3>3. Len(stream) + 1 \in DOMAIN stream' /\ (Len(stream) + 1) - 1 = Len(stream)
        BY <1>2, <3>2
    <3>4. InHand(e)
        BY <1>1, <2>1, <3>1 DEF HandedOver
    <3>5. CASE e \in stored \cup Spooled
        BY <3>2, <3>3, <3>5, HeldStays
    <3>6. CASE e \in Range(stream)
      <4>1. PICK j \in 1 .. Len(stream) : stream[j] = e
          BY <1>2, <3>6 DEF Range
      <4>2. stream'[j] = e
          BY <3>2, <4>1
      <4> QED
          BY <3>2, <3>3, <4>2
    <3> QED
        BY <3>4, <3>5, <3>6 DEF InHand
  <2>4. CASE barrier' = barrier
    <3>1. reader = "pinging"
        BY <1>1, <1>5, <2>4 DEF Control
    <3>2. PICK k \in DOMAIN stream :
            /\ stream[k] = Pong
            /\ \/ e \in stored \cup Spooled
               \/ \E j \in 1 .. k - 1 : stream[j] = e
        BY <1>1, <1>5, <2>1, <2>4 DEF BarrierHolds
    <3>3. k \in 1 .. Len(stream)
        BY <1>2, <3>2
    <3>4. CASE UNCHANGED stream
        BY <3>2, <3>4, HeldStays
    <3>5. CASE (\E b \in Account : Publish(b)) /\ stream' = Append(stream, now + 1)
      <4>1. /\ DOMAIN stream' = 1 .. Len(stream) + 1
            /\ \A m \in 1 .. Len(stream) : stream'[m] = stream[m]
          BY <1>1, <3>5, StreamAppended
      <4>2. k \in DOMAIN stream' /\ stream'[k] = Pong
          BY <1>2, <3>2, <3>3, <4>1
      <4>3. \A j \in 1 .. k - 1 : stream'[j] = stream[j]
          BY <1>2, <3>3, <4>1
      <4> QED
          BY <3>2, <4>2, <4>3, HeldStays
    <3>6. CASE ReadRecord /\ stream # <<>> /\ Head(stream) # Pong /\ stream' = Tail(stream)
      <4>1. /\ stream[1] = Head(stream) /\ DOMAIN stream' = 1 .. Len(stream) - 1
            /\ \A m \in 1 .. Len(stream) - 1 : stream'[m] = stream[m + 1]
          BY <1>2, <3>6, HeadAndTail
      <4>2. Head(stream) \in Spooled'
          BY <1>1, <2>2, <3>6, HeadRead DEF Alive
      <4>3. k # 1
          BY <3>2, <3>6, <4>1
      <4> DEFINE m == k - 1
      <4>4. m \in DOMAIN stream' /\ stream'[m] = Pong
        <5>1. m \in 1 .. Len(stream) - 1 /\ m + 1 = k
            BY <1>2, <3>3, <4>3
        <5> QED
            BY <3>2, <4>1, <5>1
      <4>5. ASSUME NEW j \in 1 .. k - 1, stream[j] = e, j # 1
            PROVE  \E i \in 1 .. m - 1 : stream'[i] = e
        <5>1. j - 1 \in 1 .. m - 1 /\ j - 1 \in 1 .. Len(stream) - 1 /\ (j - 1) + 1 = j
            BY <1>2, <3>3, <4>5
        <5> QED
            BY <4>1, <4>5, <5>1
      <4> HIDE DEF m
      <4>6. e \in stored' \cup Spooled' \/ \E i \in 1 .. m - 1 : stream'[i] = e
          BY <3>2, <4>1, <4>2, <4>5, HeldStays
      <4> QED
          BY <4>4, <4>6
    <3> QED
        BY <1>1, <1>5, <2>2, <2>4, <3>1, <3>4, <3>5, <3>6, StreamSteps DEF SendPing, ReadPong, Alive
  <2> QED
      BY <1>1, <1>5, <2>3, <2>4, BarrierSteps
<1>6. ASSUME NEW a \in Account, NEW e \in connected' + 1 .. sampled'[a], barrier'.state = "done"
      PROVE  Through(e, barrier.id)'
  <2>1. e \in connected + 1 .. sampled[a]
      BY <1>4, <1>6
  <2>2. CASE barrier' = barrier
    <3>1. Through(e, barrier.id)
        BY <1>1, <1>6, <2>1, <2>2 DEF BarrierHolds
    <3>2. \A id : Through(e, id) => Through(e, id)'
        BY ThroughStays
    <3> QED
        BY <2>2, <3>1, <3>2 DEF Through
  <2>3. CASE /\ ReadPong /\ barrier.state = "sent" /\ reader = "pinging"
             /\ barrier' = [state |-> "done", id |-> MaxUsageId]
    <3>1. PICK k \in DOMAIN stream :
            /\ stream[k] = Pong
            /\ \/ e \in stored \cup Spooled
               \/ \E j \in 1 .. k - 1 : stream[j] = e
        BY <1>1, <2>1, <2>3 DEF BarrierHolds
    <3>2. stream[1] = Pong /\ 1 \in DOMAIN stream
        BY <1>2, <2>3, HeadAndTail DEF ReadPong
    <3>3. k = 1
        BY <1>1, <2>3, <3>1, <3>2 DEF OnePong
    <3>4. e \in stored \cup Spooled
        BY <3>1, <3>3
    <3>5. stored' = stored /\ usage' = usage
        BY <2>3 DEF ReadPong, businessVars, spoolVars
    <3>6. \A m \in DOMAIN usage : usage[m].id <= MaxUsageId
        BY <1>1, LastIdIsGreatest
    <3>7. barrier'.id = MaxUsageId
        BY <2>3
    <3> HIDE DEF MaxUsageId
    <3> QED
        BY <3>4, <3>5, <3>6, <3>7 DEF Through, Spooled
  <2> QED
      BY <1>1, <1>6, <2>2, <2>3, BarrierSteps DEF SendPing
<1> QED
    BY <1>5, <1>6 DEF BarrierHolds

LEMMA SamplesWaitStep ==
    ASSUME IInv, [Next]_vars
    PROVE  SamplesWait'
<1>1. TypeOK /\ Past /\ SamplesWait /\ BarrierHolds
    BY DEF IInv
<1>2. ASSUME NEW r \in Range(boundaries'), NEW e \in EventsOf(r.account, r.connected, r.sample)'
      PROVE  Through(e, r.required)'
  <2>1. r \in Boundary
      BY <1>2, QueueSteps
  <2>2. r.connected \in Nat /\ r.sample \in Int
      BY <2>1, RecordFields
  <2>3. CASE r \in Range(boundaries)
    <3>1. r.sample <= now
        BY <1>1, <2>3 DEF Past
    <3>2. e \in EventsOf(r.account, r.connected, r.sample)
        BY <1>1, <1>2, <2>2, <3>1, EventsStay
    <3>3. Through(e, r.required)
        BY <1>1, <2>3, <3>2 DEF SamplesWait
    <3> QED
        BY <3>3, ThroughStays
  <2>4. CASE Recorded(r)
    <3>1. e \in r.connected + 1 .. r.sample
        BY <1>2 DEF EventsOf
    <3>2. r.sample # Never
        BY <2>2, <3>1 DEF Never
    <3>3. /\ barrier.state = "done" /\ r.connected = connected /\ r.account \in Account
          /\ r.sample = sampled[r.account] /\ r.required = barrier.id
        BY <2>4, <3>2 DEF Recorded
    <3>4. Through(e, r.required)
        BY <1>1, <3>1, <3>3 DEF BarrierHolds
    <3> QED
        BY <3>4, ThroughStays
  <2> QED
      BY <1>2, <2>3, <2>4, QueueSteps
<1> QED
    BY <1>2 DEF SamplesWait

-----------------------------------------------------------------------------
(* The pass over the spool *)

LEMMA PassSteps ==
    ASSUME TypeOK, [Next]_vars
    PROVE  \/ pass' = pass
           \/ pass'.todo = <<>> /\ pass'.step \notin {"delete", "drop"}
           \/ PersistBatch
           \/ pass' = ToBoundaries /\ boundaries' = boundaries
           \/ Hold \/ PersistBoundary \/ DeleteBoundary
<1>1. NoPass.todo = <<>> /\ NoPass.step = "off"
    BY DEF NoPass
<1>2. LET p == [NoPass EXCEPT !.step = "batch"] IN p.todo = <<>> /\ p.step = "batch"
    BY DEF NoPass
<1>3. CASE StartPass
    BY <1>2, <1>3 DEF StartPass
<1>4. CASE DeleteBatch
    BY <1>2, <1>4 DEF DeleteBatch, DeleteUsage
<1>5. CASE NoBatch
    BY <1>5 DEF NoBatch
<1>6. CASE EndPass
    BY <1>1, <1>6 DEF EndPass
<1> QED
    BY <1>1, <1>3, <1>4, <1>5, <1>6, MainFrame

LEMMA LeavingIsAppliedStep ==
    ASSUME IInv, [Next]_vars
    PROVE  LeavingIsApplied'
<1>1. TypeOK /\ LeavingIsApplied /\ SessionsBegun /\ PassAligned /\ OneConnection /\ RecordsComplete
    BY DEF IInv
<1>2. usage \in Seq(Usage) /\ nextId \in Nat \ {0} /\ Len(usage) \in Nat
    BY <1>1 DEF TypeOK, SpoolTypeOK
<1>3. /\ pass.count \in Nat
      /\ pass \in [step : {"off", "batch", "delete", "bounds", "drop"}, count : Nat,
                   todo : Seq(Boundary), blocked : SUBSET Account, moved : BOOLEAN]
    BY <1>1, Fields DEF TypeOK
<1>4. CASE pass' = pass
  <2>1. ASSUME pass.step = "delete"
        PROVE  /\ pass.count <= Len(usage')
               /\ \A k \in 1 .. pass.count : usage'[k].event \in stored'
    <3>1. /\ pass.count <= Len(usage) /\ stored \subseteq stored'
          /\ \A k \in 1 .. pass.count : usage[k].event \in stored
        BY <1>1, <2>1, StoredStays DEF LeavingIsApplied
    <3>2. CASE UNCHANGED usage
        BY <3>1, <3>2
    <3>3. ASSUME NEW events \in Seq(Event), AppendUsage(events)
          PROVE  /\ pass.count <= Len(usage')
                 /\ \A k \in 1 .. pass.count : usage'[k].event \in stored'
      <4>1. /\ Len(usage') = Len(usage) + Len(events) /\ Len(events) \in Nat
            /\ \A k \in 1 .. Len(usage) : usage'[k] = usage[k]
          BY <1>2, <3>3, UsageAppended
      <4> QED
          BY <1>2, <1>3, <3>1, <4>1
    <3>4. ~DeleteBatch
      <4>1. [NoPass EXCEPT !.step = "batch"].step = "batch" /\ ToBoundaries.step = "bounds"
          BY DEF NoPass, ToBoundaries
      <4> QED
          BY <1>4, <2>1, <4>1 DEF DeleteBatch
    <3> QED
        BY <1>1, <3>2, <3>3, <3>4, UsageSteps
  <2>2. ASSUME pass.step = "drop"
        PROVE  intervals' = intervals
      BY <2>2, BusinessFrame DEF PersistBoundary
  <2> QED
      BY <1>1, <1>4, <2>1, <2>2 DEF LeavingIsApplied, Applied, Of
<1>5. CASE PersistBatch
  <2>1. /\ pass'.step = "delete" /\ pass'.count = Taken /\ usage' = usage
        /\ stored' = stored \cup Fresh
      BY <1>3, <1>5 DEF PersistBatch, CreateEvents
  <2>2. Taken \in 0 .. Len(usage) /\ \A k \in 1 .. Taken : usage[k].event \in Peeked
      BY <1>1, TakenTyped DEF Peeked
  <2> HIDE DEF Taken, Peeked
  <2>3. Taken <= Len(usage) /\ \A k \in 1 .. Taken : usage[k].event \in stored'
      BY <1>2, <2>1, <2>2 DEF Fresh
  <2> QED
      BY <2>1, <2>3 DEF LeavingIsApplied
<1>6. CASE PersistBoundary
  <2>1. /\ pass.todo # <<>> /\ pass'.todo = pass.todo /\ pass'.step = "drop"
        /\ pass'.blocked = pass.blocked
      BY <1>3, <1>6 DEF PersistBoundary
  <2>2. Head(pass.todo).account \notin pass.blocked
      BY <1>6 DEF PersistBoundary, Held
  <2>3. PICK j \in intervals' :
            /\ j.account = Head(pass.todo).account /\ j.session = Head(pass.todo).session
            /\ Head(pass.todo).kind = "opening_sample" => j.opened
            /\ Head(pass.todo).kind = "disconnected" => j.disconnected # Never
      BY <1>1, <1>6, BoundaryApplied
  <2> QED
      BY <2>1, <2>2, <2>3 DEF LeavingIsApplied, Applied, Of
<1>7. CASE pass'.step \notin {"delete", "drop"}
    BY <1>7 DEF LeavingIsApplied
<1>8. CASE pass' = ToBoundaries \/ Hold \/ DeleteBoundary
  <2>1. ToBoundaries.step = "bounds"
      BY DEF ToBoundaries, NoPass
  <2>2. pass'.step = "bounds"
      BY <1>3, <1>8, <2>1 DEF Hold, DeleteBoundary
  <2> QED
      BY <2>2 DEF LeavingIsApplied
<1> QED
    BY <1>1, <1>4, <1>5, <1>6, <1>7, <1>8, PassSteps

LEMMA PassAlignedStep ==
    ASSUME IInv, [Next]_vars
    PROVE  PassAligned'
<1>1. TypeOK /\ TypeOK' /\ LeavingIsApplied /\ SessionsBegun /\ PassAligned /\ Control
    BY TypeStep DEF IInv
<1>2. /\ boundaries \in Seq(Boundary) /\ Len(boundaries) \in Nat
      /\ boundaries' \in Seq(Boundary) /\ Len(boundaries') \in Nat
      /\ pass.todo \in Seq(Boundary) /\ Len(pass.todo) \in Nat
      /\ pass \in [step : {"off", "batch", "delete", "bounds", "drop"}, count : Nat,
                   todo : Seq(Boundary), blocked : SUBSET Account, moved : BOOLEAN]
  <2>1. /\ boundaries \in Seq(Boundary) /\ boundaries' \in Seq(Boundary)
        /\ pass \in [step : {"off", "batch", "delete", "bounds", "drop"}, count : Nat,
                     todo : Seq(Boundary), blocked : SUBSET Account, moved : BOOLEAN]
      BY <1>1 DEF TypeOK, SpoolTypeOK
  <2>2. pass.todo \in Seq(Boundary)
      BY <1>1, Fields
  <2> QED
      BY <2>1, <2>2
<1>3. PICK n \in 0 .. Len(boundaries) :
        /\ n + Len(pass.todo) <= Len(boundaries)
        /\ \A k \in 1 .. n : boundaries[k].account \in pass.blocked
        /\ \A k \in 1 .. Len(pass.todo) : boundaries[n + k] = pass.todo[k]
    BY <1>1 DEF PassAligned
<1>4. CASE pass'.todo = pass.todo /\ pass'.blocked = pass.blocked
           /\ (UNCHANGED boundaries \/ \E rows \in Seq(Boundary) : Appends(rows))
  <2>1. /\ Len(boundaries) <= Len(boundaries')
        /\ \A k \in 1 .. Len(boundaries) : boundaries'[k] = boundaries[k]
    <3>1. ASSUME NEW rows \in Seq(Boundary), Appends(rows)
          PROVE  /\ Len(boundaries) <= Len(boundaries')
                 /\ \A k \in 1 .. Len(boundaries) : boundaries'[k] = boundaries[k]
      <4>1. boundaries' = boundaries \o rows
          BY <3>1 DEF Appends
      <4>2. /\ Len(boundaries') = Len(boundaries) + Len(rows) /\ Len(rows) \in Nat
            /\ \A k \in 1 .. Len(boundaries) : boundaries'[k] = boundaries[k]
          BY <1>2, <4>1, Concatenated
      <4> QED
          BY <1>2, <4>2
    <3> QED
        BY <1>2, <1>4, <3>1
  <2>2. /\ n \in 0 .. Len(boundaries') /\ n + Len(pass.todo) <= Len(boundaries')
        /\ \A k \in 1 .. n : k \in 1 .. Len(boundaries)
        /\ \A k \in 1 .. Len(pass.todo) : n + k \in 1 .. Len(boundaries)
      BY <1>2, <1>3, <2>1
  <2> QED
      BY <1>3, <1>4, <2>1, <2>2 DEF PassAligned
<1>5. CASE pass'.todo = <<>>
  <2>1. Len(pass'.todo) = 0 /\ 0 \in 0 .. Len(boundaries')
      BY <1>2, <1>5
  <2> QED
      BY <1>2, <2>1 DEF PassAligned
<1>6. CASE pass' = ToBoundaries /\ boundaries' = boundaries
  <2> DEFINE m == Min({BoundaryBatch, Len(boundaries)})
  <2>1. /\ m \in 0 .. Len(boundaries)
        /\ Len(SubSeq(boundaries, 1, m)) = m
        /\ \A k \in 1 .. m : SubSeq(boundaries, 1, m)[k] = boundaries[k]
    <3>1. boundaries \in Seq(Boundary) /\ BoundaryBatch \in Nat \ {0}
        BY <1>2, CPACollectorAssumption
    <3>2. m \in 0 .. Len(boundaries)
        BY <3>1, BatchOf
    <3>3. Len(SubSeq(boundaries, 1, m)) = m
        BY <3>1, BatchOf
    <3> QED
        BY <3>1, <3>2, <3>3, BatchOf
  <2>2. pass'.todo = SubSeq(boundaries, 1, m)
      BY <1>6 DEF ToBoundaries, NoPass
  <2> HIDE DEF m
  <2>3. Len(pass'.todo) = m /\ \A k \in 1 .. m : pass'.todo[k] = boundaries'[0 + k]
      BY <1>6, <2>1, <2>2
  <2>4. 0 \in 0 .. Len(boundaries') /\ 0 + m <= Len(boundaries')
      BY <1>2, <1>6, <2>1
  <2> QED
      BY <2>3, <2>4 DEF PassAligned
<1>7. CASE Hold
  <2>1. /\ pass.todo # <<>> /\ boundaries' = boundaries /\ pass'.todo = Tail(pass.todo)
        /\ pass'.blocked = pass.blocked \cup {Head(pass.todo).account}
      BY <1>2, <1>7 DEF Hold
  <2>2. /\ Len(pass.todo) \in Nat \ {0} /\ Len(Tail(pass.todo)) = Len(pass.todo) - 1
        /\ pass.todo[1] = Head(pass.todo)
        /\ \A k \in 1 .. Len(pass.todo) - 1 :
              k + 1 \in 1 .. Len(pass.todo) /\ Tail(pass.todo)[k] = pass.todo[k + 1]
      BY <1>2, <2>1, HeadAndTail
  <2> DEFINE m == n + 1
  <2>3. m \in 0 .. Len(boundaries') /\ m + Len(pass'.todo) <= Len(boundaries')
      BY <1>2, <1>3, <2>1, <2>2
  <2>4. ASSUME NEW k \in 1 .. m
        PROVE  boundaries'[k].account \in pass'.blocked
    <3>1. k \in 1 .. n \/ k = n + 1
        BY <1>3, <2>4
    <3>2. boundaries[n + 1] = Head(pass.todo)
        BY <1>3, <2>2
    <3> QED
        BY <1>3, <2>1, <3>1, <3>2
  <2>5. ASSUME NEW k \in 1 .. Len(pass'.todo)
        PROVE  boundaries'[m + k] = pass'.todo[k]
    <3>1. k \in 1 .. Len(pass.todo) - 1 /\ m + k = n + (k + 1)
        BY <1>3, <2>1, <2>2, <2>5
    <3> QED
        BY <1>3, <2>1, <2>2, <3>1
  <2> HIDE DEF m
  <2> QED
      BY <2>3, <2>4, <2>5 DEF PassAligned
<1>8. CASE DeleteBoundary
  <2>1. /\ pass.todo # <<>> /\ pass'.todo = Tail(pass.todo) /\ pass'.blocked = pass.blocked
        /\ Len(boundaries') = Len(boundaries) - 1
      BY <1>1, <1>8, BoundaryDropped
  <2>2. PICK m \in 1 .. Len(boundaries) :
            /\ \A k \in 1 .. m - 1 : boundaries[k].account \in pass.blocked
            /\ m - 1 + Len(pass.todo) <= Len(boundaries)
            /\ \A k \in 1 .. Len(pass.todo) : boundaries[m - 1 + k] = pass.todo[k]
            /\ \A k \in 1 .. Len(boundaries) - 1 :
                 boundaries'[k] = IF k < m THEN boundaries[k] ELSE boundaries[k + 1]
      BY <1>1, <1>8, BoundaryDropped
  <2>3. /\ Len(pass.todo) \in Nat \ {0} /\ Len(Tail(pass.todo)) = Len(pass.todo) - 1
        /\ \A k \in 1 .. Len(pass.todo) - 1 :
              k + 1 \in 1 .. Len(pass.todo) /\ Tail(pass.todo)[k] = pass.todo[k + 1]
      BY <1>2, <2>1, HeadAndTail
  <2> DEFINE p == m - 1
  <2>4. p \in 0 .. Len(boundaries') /\ p + Len(pass'.todo) <= Len(boundaries')
      BY <1>2, <2>1, <2>2, <2>3
  <2>5. ASSUME NEW k \in 1 .. p
        PROVE  boundaries'[k].account \in pass'.blocked
    <3>1. k \in 1 .. Len(boundaries) - 1 /\ k < m /\ k \in 1 .. m - 1
        BY <1>2, <2>2, <2>5
    <3> QED
        BY <2>1, <2>2, <3>1
  <2>6. ASSUME NEW k \in 1 .. Len(pass'.todo)
        PROVE  boundaries'[p + k] = pass'.todo[k]
    <3>1. k \in 1 .. Len(pass.todo) - 1
        BY <2>1, <2>3, <2>6
    <3>2. /\ p + k \in 1 .. Len(boundaries) - 1
          /\ ~(p + k < m)
          /\ (p + k) + 1 = m - 1 + (k + 1)
      <4>1. /\ m \in Nat /\ k \in Nat /\ 1 <= m /\ 1 <= k /\ k <= Len(pass.todo) - 1
            /\ m - 1 + Len(pass.todo) <= Len(boundaries)
            /\ Len(pass.todo) \in Nat /\ Len(boundaries) \in Nat
          BY <1>2, <2>2, <2>3, <3>1
      <4> QED
          BY <4>1
    <3>3. boundaries'[p + k] = boundaries[(p + k) + 1]
        BY <2>2, <3>2
    <3> QED
        BY <2>1, <2>2, <2>3, <3>1, <3>2, <3>3
  <2> HIDE DEF p
  <2> QED
      BY <2>4, <2>5, <2>6 DEF PassAligned
<1>9. CASE PersistBatch \/ PersistBoundary
  <2>1. boundaries' = boundaries /\ pass'.todo = pass.todo /\ pass'.blocked = pass.blocked
      BY <1>2, <1>9 DEF PersistBatch, PersistBoundary
  <2> QED
      BY <1>4, <2>1
<1>10. CASE pass' = pass /\ ~DeleteBoundary
    BY <1>1, <1>4, <1>10, BoundarySteps
<1> QED
    BY <1>1, <1>5, <1>6, <1>7, <1>8, <1>9, <1>10, PassSteps

-----------------------------------------------------------------------------
(* Costs *)

\* A cost stays when no event that it counts is created.
LEMMA CostStays ==
    ASSUME TypeOK, Past, [Next]_vars, NEW a, NEW t,
           \A e \in stored' : e \in stored \/ ~(published[e] = a /\ e <= t)
    PROVE  Cost(stored, a, t)' = Cost(stored, a, t)
<1>1. stored \subseteq stored' /\ (PersistBatch \/ stored' = stored)
    BY StoredStays
<1>2. \A e \in stored : published'[e] = published[e]
    BY ClockSteps DEF Past
<1>3. PersistBatch => published' = published
    BY DEF PersistBatch, PassOnly, cpaVars
<1>4. \A e \in stored' : (published'[e] = a /\ e <= t) <=> (e \in stored /\ published[e] = a /\ e <= t)
    BY <1>1, <1>2, <1>3
<1>5. {e \in stored' : published'[e] = a /\ e <= t} = {e \in stored : published[e] = a /\ e <= t}
    BY <1>1, <1>4
<1> QED
    BY <1>5 DEF Cost

LEMMA PollCurrentStep ==
    ASSUME IInv, [Next]_vars
    PROVE  PollCurrent'
<1>1. TypeOK /\ Past /\ PollCurrent
    BY DEF IInv
<1>2. /\ poll \in [step : {"idle", "query", "write"}, account : Account \cup {0},
                   at : Time, cost : Nat]
      /\ NoPoll.step = "idle"
    BY <1>1 DEF TypeOK, NoPoll
<1>3. CASE PollQuery
  <2>1. /\ poll'.cost = Cost(stored, poll.account, now) /\ poll'.at = now
        /\ poll'.account = poll.account /\ stored' = stored /\ published' = published
      BY <1>2, <1>3 DEF PollQuery, businessVars, cpaVars
  <2>2. poll'.cost = Cost(stored, poll.account, poll.at)'
      BY <2>1 DEF Cost
  <2> QED
      BY <2>2 DEF PollCurrent
<1>4. ASSUME NEW a \in Account, PollTake(a)
      PROVE  PollCurrent'
  <2>1. poll'.step = "query"
      BY <1>4 DEF PollTake, NoPoll
  <2> QED
      BY <2>1 DEF PollCurrent
<1>5. CASE PollWrite \/ PollGivesUp
    BY <1>2, <1>5 DEF PollWrite, PollGivesUp, PollCurrent
<1>6. CASE Stall
    BY <1>6 DEF Stall, PollCurrent
<1>7. CASE UNCHANGED pollVars
  <2> SUFFICES ASSUME poll.step = "write", poll.account \in leased
               PROVE  poll.cost = Cost(stored, poll.account, poll.at)'
      BY <1>7 DEF pollVars, PollCurrent
  <2>1. poll.cost = Cost(stored, poll.account, poll.at)
      BY <1>1 DEF PollCurrent
  <2>2. \A e \in stored' : e \in stored \/ published[e] # poll.account
      BY <1>1, BusinessFrame DEF PersistBatch, CreateEvents, FreshAccounts
  <2>3. \A a, t : (\A e \in stored' : e \in stored \/ ~(published[e] = a /\ e <= t))
                    => Cost(stored, a, t)' = Cost(stored, a, t)
      BY <1>1, CostStays
  <2>4. PICK a, t : a = poll.account /\ t = poll.at
      OBVIOUS
  <2>5. Cost(stored, a, t)' = Cost(stored, a, t)
      BY <2>2, <2>3, <2>4
  <2> QED
      BY <1>7, <2>1, <2>4, <2>5 DEF Cost, pollVars
<1> QED
    BY <1>3, <1>4, <1>5, <1>6, <1>7, BusinessFrame

LEMMA ObservationsCurrentStep ==
    ASSUME IInv, [Next]_vars
    PROVE  ObservationsCurrent'
<1>1. /\ TypeOK /\ Past /\ PollCurrent /\ ObservationsCurrent
      /\ SessionsBegun /\ PassAligned /\ OneConnection /\ RecordsComplete
    BY DEF IInv
<1>2. ASSUME NEW a, NEW t, \A e \in stored' : e \in stored \/ ~(published[e] = a /\ e <= t)
      PROVE  Cost(stored, a, t)' = Cost(stored, a, t)
    BY <1>1, <1>2, CostStays
<1>3. ASSUME NEW o \in observations'
      PROVE  o.cost = Cost(stored, o.account, o.at)'
  <2>1. CASE PersistBatch
    <3>1. CreateEvents(Fresh) /\ stored' = stored \cup Fresh /\ published' = published
        BY <2>1 DEF PersistBatch, CreateEvents, PassOnly, cpaVars
    <3>2. PICK b \in observations :
            \/ o = b /\ \A e \in Fresh : ~(published[e] = b.account /\ e <= b.at)
            \/ o = [b EXCEPT !.cost = Cost(stored', b.account, b.at)]
        BY <1>1, <1>3, <3>1, Recomputed
    <3>3. CASE o = b /\ \A e \in Fresh : ~(published[e] = b.account /\ e <= b.at)
      <4>1. Cost(stored, o.account, o.at)' = Cost(stored, o.account, o.at)
          BY <1>2, <3>1, <3>3
      <4> QED
          BY <1>1, <3>3, <4>1 DEF ObservationsCurrent
    <3>4. CASE o = [b EXCEPT !.cost = Cost(stored', b.account, b.at)]
      <4>1. b \in Observation
          BY <1>1 DEF TypeOK
      <4>2. o.cost = Cost(stored', b.account, b.at) /\ o.account = b.account /\ o.at = b.at
          BY <3>4, <4>1 DEF Observation
      <4> QED
          BY <3>1, <4>2 DEF Cost
    <3> QED
        BY <3>2, <3>3, <3>4
  <2>2. CASE stored' = stored
    <3>1. Cost(stored, o.account, o.at)' = Cost(stored, o.account, o.at)
        BY <1>2, <2>2
    <3>2. CASE o \in observations
        BY <1>1, <3>1, <3>2 DEF ObservationsCurrent
    <3>3. CASE PersistBoundary /\ o \notin observations
      <4> DEFINE r == Head(pass.todo)
      <4>1. Observe(r)
          BY <1>1, <1>3, <3>3, BoundaryApplied
      <4> HIDE DEF r
      <4>2. o.account = r.account /\ o.at = r.sample /\ o.cost = Cost(stored, r.account, r.sample)
          BY <1>3, <3>3, <4>1 DEF Observe
      <4> QED
          BY <3>1, <4>2
    <3>4. CASE PollWrite /\ o \notin observations
      <4>1. /\ o.account = poll.account /\ o.at = poll.at /\ o.cost = poll.cost
            /\ poll.step = "write" /\ poll.account \in leased
          BY <1>3, <3>4 DEF PollWrite
      <4> QED
          BY <1>1, <3>1, <4>1 DEF PollCurrent
    <3> QED
        BY <1>3, <2>1, <3>2, <3>3, <3>4, BusinessFrame
  <2> QED
      BY <1>1, <2>1, <2>2, StoredStays
<1> QED
    BY <1>3 DEF ObservationsCurrent

LEMMA SamplesAreCompleteStep ==
    ASSUME IInv, [Next]_vars
    PROVE  SamplesAreComplete'
<1>1. /\ TypeOK /\ TypeOK' /\ Past /\ SamplesAreComplete /\ ObservedHasInterval /\ OneConnection
      /\ SamplesWait /\ IdsAscend
    BY TypeStep DEF IInv
<1>2. PICK at \in [1 .. MaxSessions -> Time] :
        /\ \A r \in Range(boundaries) : r.connected = at[r.session]
        /\ \A i \in intervals : i.connected = at[i.session]
    BY <1>1 DEF OneConnection
<1>3. ASSUME NEW j \in intervals'
      PROVE  j.connected = at[j.session] /\ j.session >= 1 /\ j.connected \in Nat
  <2>1. j.session >= 1 /\ j.connected \in Nat
    <3>1. j \in Interval /\ MaxSessions \in Nat
        BY <1>1, <1>3, CPACollectorAssumption DEF TypeOK
    <3> QED
        BY <3>1, NeverIsNoTime DEF Interval
  <2>2. ASSUME NEW h \in Range(boundaries), IntervalFrom(j, h)
        PROVE  j.connected = at[j.session]
      BY <1>2, <2>2 DEF IntervalFrom
  <2> QED
      BY <1>2, <1>3, <2>1, <2>2, RowSteps
<1>4. ASSUME NEW o \in observations', NEW j \in intervals',
             j.account = o.account, j.session = o.session,
             NEW e \in EventsOf(o.account, j.connected, o.at)'
      PROVE  e \in stored'
  <2>1. stored \subseteq stored'
      BY <1>1, StoredStays
  <2>2. j.connected = at[j.session] /\ j.session >= 1 /\ j.connected \in Nat
      BY <1>3
  <2>3. ASSUME NEW b \in observations,
               o.account = b.account, o.session = b.session, o.at = b.at
        PROVE  e \in stored'
    <3>1. PICK i \in intervals : i.account = o.account /\ i.session = o.session
        BY <1>1, <1>4, <2>2, <2>3 DEF ObservedHasInterval
    <3>2. i.connected = j.connected
        BY <1>2, <1>4, <2>2, <3>1
    <3>3. o.at <= now /\ o.at \in Int
        BY <1>1, <2>3, RowFields, NeverIsNoTime DEF Past
    <3>4. e \in EventsOf(o.account, j.connected, o.at)
        BY <1>1, <1>4, <2>2, <3>3, EventsStay
    <3> QED
        BY <1>1, <2>1, <2>3, <3>1, <3>2, <3>4 DEF SamplesAreComplete
  <2>4. ASSUME NEW h \in Range(boundaries), PersistBoundary, h = Head(pass.todo),
               o.account = h.account, o.session = h.session, o.at = h.sample
        PROVE  e \in stored'
    <3>1. j.connected = h.connected /\ published' = published
        BY <1>2, <1>4, <2>2, <2>4 DEF PersistBoundary, PassOnly, cpaVars
    <3>2. e \in EventsOf(h.account, h.connected, h.sample)
        BY <1>4, <2>4, <3>1 DEF EventsOf
    <3>3. Through(e, h.required)
        BY <1>1, <3>2 DEF SamplesWait
    <3>4. ~Waits(h)
        BY <2>4 DEF PersistBoundary, Held
    <3>5. ASSUME NEW k \in DOMAIN usage, usage[k].id <= h.required
          PROVE  FALSE
      <4>1. usage \in Seq(Usage) /\ h \in Boundary
          BY <1>1, InRange DEF TypeOK, SpoolTypeOK
      <4>2. h.required \in Nat
          BY <4>1, RecordFields
      <4>3. k \in 1 .. Len(usage) /\ 1 \in 1 .. Len(usage) /\ DOMAIN usage = 1 .. Len(usage)
            /\ usage # <<>>
          BY <4>1
      <4>4. usage[k] \in Usage /\ usage[1] \in Usage
          BY <4>1, <4>3
      <4>5. usage[k].id \in Nat /\ usage[1].id \in Nat
          BY <4>4 DEF Usage
      <4>6. ~(usage[1].id <= h.required)
          BY <3>4, <4>3 DEF Waits
      <4>7. 1 < k => usage[1].id < usage[k].id
          BY <1>1, <4>3 DEF IdsAscend
      <4>8. k = 1 \/ 1 < k
          BY <4>3
      <4> QED
          BY <3>5, <4>2, <4>5, <4>6, <4>7, <4>8
    <3> QED
        BY <2>1, <3>3, <3>5 DEF Through
  <2> QED
      BY <1>4, <2>2, <2>3, <2>4, ObservationSteps
<1> QED
    BY <1>4 DEF SamplesAreComplete

-----------------------------------------------------------------------------
(* Reliable ends *)

\* Without a fault, a reader that has something to read lives on.
LEMMA ReaderGoesOn ==
    ASSUME TypeOK, Control, [Next]_vars, faults' = 0, reader \in Alive, stream # <<>>
    PROVE  reader' \in Alive
<1>1. faults \in Nat
    BY DEF TypeOK
<1>2. ~Fault
    BY <1>1 DEF Fault
<1>3. CASE ReadRecord \/ SendPing \/ ReadPong \/ ReaderFails \/ Unsubscribe \/ ReaderStops
    BY <1>2, <1>3 DEF ReadRecord, SendPing, ReadPong, ReaderFails, Unsubscribe, ReaderStops,
       Alive, readerVars
<1>4. CASE FinishUncertain
  <2>1. faults + 1 # 0
      BY <1>1
  <2>2. barrier.state = "failed"
      BY <1>4, <2>1 DEF FinishUncertain
  <2> QED
      BY <2>2 DEF Control, Alive
<1>5. CASE Die \/ \E A \in SUBSET Account : Begin(A)
    BY <1>2, <1>5 DEF Die, Begin, Alive
<1> QED
    BY <1>3, <1>4, <1>5, ReaderFrame

LEMMA KeptStays ==
    ASSUME IInv, [Next]_vars, faults' = 0, NEW e \in Kept, e # Pong
    PROVE  e \in Kept'
<1>1. TypeOK /\ TypeOK' /\ Control
    BY TypeStep DEF IInv
<1>2. CASE e \in stored \cup Spooled
    BY <1>2, HeldStays DEF Kept
<1>3. CASE reader \in Alive /\ e \in Range(stream)
  <2>1. stream \in Seq(Event \cup {Pong}) /\ stream # <<>> /\ Pong \in Event \cup {Pong}
      BY <1>1, <1>3 DEF TypeOK, Range
  <2>2. reader' \in Alive
      BY <1>1, <1>3, <2>1, ReaderGoesOn
  <2>3. CASE /\ stream' = Tail(stream)
             /\ ReadRecord \/ Head(stream) = Pong
    <3>1. e = Head(stream) \/ e \in Range(stream')
        BY <1>3, <2>1, <2>3, HeadAndTail
    <3>2. ReadRecord => Head(stream) \in Spooled'
        BY <1>1, <2>2, HeadRead
    <3> QED
        BY <2>2, <2>3, <3>1, <3>2 DEF Kept
  <2>4. CASE (\E a \in Account : Publish(a)) /\ stream' = Append(stream, now + 1)
      BY <1>1, <1>3, <2>2, <2>4, StreamAppended DEF Kept
  <2>5. CASE stream' = Append(stream, Pong)
    <3>1. Range(Append(stream, Pong)) = Range(stream) \cup {Pong}
        BY <2>1, Appended
    <3> QED
        BY <1>3, <2>2, <2>5, <3>1 DEF Kept
  <2>6. CASE UNCHANGED stream
      BY <1>3, <2>2, <2>6 DEF Kept
  <2> QED
      BY <1>1, <2>2, <2>3, <2>4, <2>5, <2>6, StreamSteps
<1> QED
    BY <1>2, <1>3 DEF Kept

LEMMA OrderlySoFarStep ==
    ASSUME IInv, [Next]_vars
    PROVE  OrderlySoFar'
<1> SUFFICES ASSUME faults' = 0
             PROVE  /\ pc' \in Running => reader' \in {"reading", "pinging"}
                    /\ \A r \in Range(boundaries') : r.reliable =>
                         EventsOf(r.account, r.connected, r.disconnected)' \subseteq Kept'
                    /\ \A j \in intervals' : j.reliable =>
                         EventsOf(j.account, j.connected, j.disconnected)' \subseteq Kept'
    BY DEF OrderlySoFar
<1>1. /\ TypeOK /\ TypeOK' /\ Control /\ Past /\ OneConnection /\ HandedOver /\ OrderlySoFar
    BY TypeStep DEF IInv
<1>2. faults = 0
    BY <1>1, MainFrame DEF TypeOK
<1>3. /\ pc \in Running => reader \in {"reading", "pinging"}
      /\ \A r \in Range(boundaries) :
            r.reliable => EventsOf(r.account, r.connected, r.disconnected) \subseteq Kept
      /\ \A i \in intervals :
            i.reliable => EventsOf(i.account, i.connected, i.disconnected) \subseteq Kept
    BY <1>1, <1>2 DEF OrderlySoFar
<1>4. ASSUME pc' \in Running
      PROVE  reader' \in {"reading", "pinging"}
  <2>1. ~Fault
      BY <1>2 DEF Fault
  <2>2. CASE \E A \in SUBSET Account : Begin(A)
      BY <2>2 DEF Begin
  <2>3. CASE pc \in Running
    <3>1. reader \in {"reading", "pinging"}
        BY <1>3, <2>3
    <3> QED
        BY <1>4, <2>1, <2>3, <3>1, ReaderFrame DEF ReadRecord, SendPing, ReadPong, ReaderFails,
           Unsubscribe, ReaderStops, Begin, FinishUncertain, Die, Goto, Running, readerVars
  <2> QED
      BY <1>4, <2>2, <2>3, PcFrame DEF Connect, QueryOpening, CaptureOpening, Leave, QueryClosing,
         FinishDead, FinishReliable, FinishUncertain, FinishAs, Goto, Running
<1>5. ASSUME NEW a, NEW c \in Nat, NEW d \in Int, d <= now, EventsOf(a, c, d) \subseteq Kept
      PROVE  EventsOf(a, c, d)' \subseteq Kept'
  <2>1. EventsOf(a, c, d)' = EventsOf(a, c, d)
      BY <1>1, <1>5, EventsStay
  <2>2. \A e \in EventsOf(a, c, d) : e # Pong
      BY <1>5 DEF EventsOf, Pong
  <2> QED
      BY <1>5, <2>1, <2>2, KeptStays
<1>6. ASSUME NEW r \in Range(boundaries'), r.reliable
      PROVE  EventsOf(r.account, r.connected, r.disconnected)' \subseteq Kept'
  <2>1. r \in Boundary
      BY <1>6, QueueSteps
  <2>2. r.connected \in Nat /\ r.disconnected \in Int
      BY <2>1, RecordFields
  <2>3. CASE r \in Range(boundaries)
    <3>1. r.disconnected <= now /\ EventsOf(r.account, r.connected, r.disconnected) \subseteq Kept
        BY <1>1, <1>3, <1>6, <2>3 DEF Past
    <3> QED
        BY <1>5, <2>2, <3>1
  <2>4. CASE Recorded(r)
    <3>1. pc = "last sample" /\ r.connected = connected /\ r.disconnected = now
        BY <1>6, <2>4 DEF Recorded
    <3>2. reader \in {"reading", "pinging"}
        BY <1>3, <3>1 DEF Running
    <3>3. \A e \in connected + 1 .. now : e \in Kept
        BY <1>1, <3>2 DEF HandedOver, InHand, Kept, Alive
    <3>4. now \in Int /\ now <= now
        BY <1>1, Fields
    <3>5. EventsOf(r.account, r.connected, r.disconnected) \subseteq Kept
        BY <3>1, <3>3 DEF EventsOf
    <3> QED
        BY <1>5, <2>2, <3>1, <3>4, <3>5
  <2> QED
      BY <1>6, <2>3, <2>4, QueueSteps
<1>7. ASSUME NEW j \in intervals', j.reliable
      PROVE  EventsOf(j.account, j.connected, j.disconnected)' \subseteq Kept'
  <2>1. PICK at \in [1 .. MaxSessions -> Time] :
          /\ \A r \in Range(boundaries) : r.connected = at[r.session]
          /\ \A i \in intervals : i.connected = at[i.session]
      BY <1>1 DEF OneConnection
  <2>2. ASSUME NEW i \in intervals, i.reliable, j.account = i.account,
               j.connected = i.connected, j.disconnected = i.disconnected
        PROVE  EventsOf(j.account, j.connected, j.disconnected)' \subseteq Kept'
    <3>1. i.connected \in Nat /\ i.disconnected \in Int
        BY <1>1, RowFields, NeverIsNoTime
    <3>2. i.disconnected <= now
        BY <1>1, <2>2 DEF Past
    <3>3. EventsOf(i.account, i.connected, i.disconnected) \subseteq Kept
        BY <1>3, <2>2
    <3> QED
        BY <1>5, <2>2, <3>1, <3>2, <3>3
  <2>3. ASSUME NEW h \in Range(boundaries), NEW h1 \in Boundary, h1 = h, IntervalFrom(j, h)
        PROVE  EventsOf(j.account, j.connected, j.disconnected)' \subseteq Kept'
    <3>1. CASE j \in intervals
        BY <1>7, <2>2, <3>1
    <3>2. CASE /\ j.account = h.account /\ j.session = h.session /\ j.connected = h.connected
               /\ \E i \in Of(h) : j.disconnected = i.disconnected /\ j.reliable = i.reliable
      <4>1. PICK i \in intervals : /\ i.account = h.account /\ i.session = h.session
                                   /\ j.disconnected = i.disconnected /\ j.reliable = i.reliable
          BY <3>2 DEF Of
      <4>2. j.connected = i.connected
          BY <2>1, <3>2, <4>1
      <4> QED
          BY <1>7, <2>2, <3>2, <4>1, <4>2
    <3>3. CASE /\ j.account = h.account /\ j.connected = h.connected
               /\ j.disconnected = h.disconnected /\ j.reliable = h.reliable
      <4>1. h.connected \in Nat /\ h.disconnected \in Int
          BY <2>3, RecordFields
      <4>2. h.disconnected <= now /\ EventsOf(h.account, h.connected, h.disconnected) \subseteq Kept
          BY <1>1, <1>3, <1>7, <3>3 DEF Past
      <4> QED
          BY <1>5, <3>3, <4>1, <4>2
    <3> QED
        BY <1>7, <2>3, <3>1, <3>2, <3>3 DEF IntervalFrom
  <2>4. CASE j \in intervals
      BY <1>7, <2>2, <2>4
  <2> QED
      BY <1>7, <2>3, <2>4, RowSteps
<1> QED
    BY <1>4, <1>6, <1>7

-----------------------------------------------------------------------------
(* The theorems *)

LEMMA InitIsTyped ==
    ASSUME Init
    PROVE  TypeOK
<1>1. /\ MaxEvents \in Nat /\ MaxSessions \in Nat /\ 0 \in Time /\ 0 \in 0 .. MaxSessions
      /\ now = 0
    BY CPACollectorAssumption DEF Init, Time, now
<1>2. SpoolTypeOK
    BY <1>1 DEF Init, SpoolInit, SpoolTypeOK, Session
<1>3. /\ NoBarrier \in [state : {"none", "asked", "sent", "failed", "done"}, id : Nat]
      /\ NoSample \in [Account -> Time \cup {Never}]
      /\ NoPass \in [step : {"off", "batch", "delete", "bounds", "drop"}, count : Nat,
                     todo : Seq(Boundary), blocked : SUBSET Account, moved : BOOLEAN]
      /\ NoPoll \in [step : {"idle", "query", "write"}, account : Account \cup {0},
                     at : Time, cost : Nat]
    BY <1>1 DEF NoBarrier, NoSample, NoPass, NoPoll
<1>4. /\ published \in Seq(Account) /\ now <= MaxEvents /\ stream \in Seq(Event \cup {Pong})
      /\ unspooled \in Seq(Event)
    BY <1>1 DEF Init
<1> QED
    BY <1>1, <1>2, <1>3, <1>4 DEF Init, TypeOK, Reader, Step

LEMMA InitIsInvariant ==
    ASSUME Init
    PROVE  IInv
<1>1. TypeOK /\ MaxSessions \in Nat /\ MaxEvents \in Nat /\ now = 0 /\ 0 \in Time
    BY InitIsTyped, Fields DEF Init, now, Time
<1>2. /\ usage = <<>> /\ boundaries = <<>> /\ stored = {} /\ intervals = {} /\ observations = {}
      /\ stream = <<>> /\ unspooled = <<>> /\ reader = "none" /\ pc = "boot" /\ connected = 0
      /\ session.key = 0 /\ ~session.active /\ barrier.state = "none" /\ pass.step = "off"
      /\ pass.todo = <<>> /\ pass.blocked = {} /\ poll.step = "idle" /\ poll.at = 0
      /\ sampled = NoSample
    BY DEF Init, SpoolInit, NoBarrier, NoPass, NoPoll
<1>3. /\ DOMAIN usage = {} /\ Range(boundaries) = {} /\ Range(stream) = {} /\ Spooled = {}
      /\ Unspooled = {}
    BY <1>2 DEF Range, Spooled, Unspooled
<1>4. \A a \in Account : sampled[a] = Never
    BY <1>2 DEF NoSample
<1>5. Never <= 0 /\ \A e \in 0 + 1 .. Never : FALSE
    BY DEF Never
<1>6. SessionsBegun /\ Past /\ IdsAscend /\ Control /\ OnePong /\ HandedOver
    BY <1>1, <1>2, <1>3, <1>4, <1>5
       DEF SessionsBegun, Past, IdsAscend, Control, Running, Alive, OnePong, HandedOver
<1>7. BarrierHolds /\ SamplesWait /\ ObservedHasInterval /\ RecordsComplete
    BY <1>2, <1>3, <1>4, <1>5 DEF BarrierHolds, SamplesWait, ObservedHasInterval, RecordsComplete
<1>8. OneConnection
  <2>1. ~(session.key >= 1)
      BY <1>2
  <2>2. PICK at \in [1 .. MaxSessions -> Time] : TRUE
    <3>1. [s \in 1 .. MaxSessions |-> 0] \in [1 .. MaxSessions -> Time]
        BY <1>1
    <3> QED
        BY <3>1
  <2> QED
      BY <1>2, <1>3, <2>1, <2>2 DEF OneConnection
<1>9. LeavingIsApplied /\ QueueOrdered /\ PollCurrent /\ OrderlySoFar
  <2>1. DOMAIN boundaries = {}
      BY <1>2
  <2> QED
      BY <1>2, <1>3, <2>1 DEF LeavingIsApplied, QueueOrdered, PollCurrent, OrderlySoFar, Running
<1>10. PassAligned
  <2>1. Len(boundaries) = 0 /\ Len(pass.todo) = 0 /\ 0 \in 0 .. 0
      BY <1>2
  <2> QED
      BY <2>1 DEF PassAligned
<1>11. SamplesAreComplete /\ ObservationsCurrent /\ EndsAsRecorded
    BY <1>2, <1>3 DEF SamplesAreComplete, ObservationsCurrent, EndsAsRecorded
<1> QED
    BY <1>1, <1>6, <1>7, <1>8, <1>9, <1>10, <1>11 DEF IInv

LEMMA StepKeepsInvariant ==
    ASSUME IInv, [Next]_vars
    PROVE  IInv'
<1>1. TypeOK' /\ SessionsBegun' /\ Past' /\ IdsAscend' /\ Control' /\ OnePong' /\ HandedOver'
    BY TypeStep, SessionsBegunStep, PastStep, IdsAscendStep, ControlStep, OnePongStep, HandedOverStep
<1>2. BarrierHolds' /\ SamplesWait' /\ OneConnection' /\ ObservedHasInterval' /\ RecordsComplete'
    BY BarrierHoldsStep, SamplesWaitStep, OneConnectionStep, ObservedHasIntervalStep, RecordsCompleteStep
<1>3. LeavingIsApplied' /\ PassAligned' /\ QueueOrdered' /\ PollCurrent' /\ OrderlySoFar'
    BY LeavingIsAppliedStep, PassAlignedStep, QueueOrderedStep, PollCurrentStep, OrderlySoFarStep
<1>4. SamplesAreComplete' /\ ObservationsCurrent' /\ EndsAsRecorded'
    BY SamplesAreCompleteStep, ObservationsCurrentStep, EndsAsRecordedStep
<1> QED
    BY <1>1, <1>2, <1>3, <1>4 DEF IInv

\* The strengthening every theorem below rests on: queue, stream, barrier, pass
\* and lease agree with each other and with the business database in every state.
THEOREM InductiveInvariant == Spec => []IInv
<1>1. Init => IInv
    BY InitIsInvariant
<1>2. IInv /\ [Next]_vars => IInv'
    BY StepKeepsInvariant
<1> QED
    BY <1>1, <1>2, PTL DEF Spec

\* Every variable of the collector, the spool and the databases keeps its type.
THEOREM TypeCorrect == Spec => []TypeOK
<1>1. IInv => TypeOK
    BY DEF IInv
<1> QED
    BY <1>1, InductiveInvariant, PTL

\* A percentage is recorded only with every usage event of its account since
\* the connection: has_usage_through, and the barrier before append_boundaries.
THEOREM PercentagesComplete == Spec => []SamplesAreComplete
<1>1. IInv => SamplesAreComplete
    BY DEF IInv
<1> QED
    BY <1>1, InductiveInvariant, PTL

\* The cost of every observation is that of the events created so far:
\* persist_usage_events corrects the ones it finds, and the poll loop, whose
\* lease keeps the events of its account out, writes no stale cost.
THEOREM CostsCurrent == Spec => []ObservationsCurrent
<1>1. IInv => ObservationsCurrent
    BY DEF IInv
<1> QED
    BY <1>1, InductiveInvariant, PTL

\* Only its own disconnected record closes an interval while that record waits:
\* _locked_collection_interval and the closing of an open interval at the next
\* connection.
THEOREM EndsKept == Spec => []EndsAsRecorded
<1>1. IInv => EndsAsRecorded
    BY DEF IInv
<1> QED
    BY <1>1, InductiveInvariant, PTL

\* Without faults an interval that ends reliably misses no event of its account.
THEOREM OrderlyEnd == Spec => []OrderlyEndLosesNothing
<1>1. IInv => OrderlyEndLosesNothing
    BY DEF IInv, OrderlySoFar, OrderlyEndLosesNothing, Covered, Kept
<1> QED
    BY <1>1, InductiveInvariant, PTL

\* What leaves the spool is in the business database: delete after persist, for
\* usage and for boundaries.
THEOREM NothingDropped == Spec => KeptUntilApplied
<1> DEFINE Keeps == /\ Spooled \ Spooled' \subseteq stored'
                    /\ \A r \in Range(boundaries) \ Range(boundaries') : Applied(r)'
<1>1. ASSUME IInv, [Next]_vars
      PROVE  Keeps
  <2>1. TypeOK /\ SessionsBegun /\ Control /\ PassAligned /\ LeavingIsApplied
      BY <1>1 DEF IInv
  <2>2. Spooled \ Spooled' \subseteq stored'
      BY <1>1, UsageStays DEF Spooled
  <2>3. ASSUME NEW r \in Range(boundaries) \ Range(boundaries')
        PROVE  Applied(r)'
    <3>1. CASE DeleteBoundary
      <4>1. r = Head(pass.todo) /\ pass.step = "drop" /\ intervals' = intervals
          BY <2>1, <2>3, <3>1, AfterDrop DEF DeleteBoundary, businessVars
      <4>2. Applied(r)
          BY <2>1, <4>1 DEF LeavingIsApplied
      <4> QED
          BY <4>1, <4>2 DEF Applied, Of
    <3>2. ASSUME NEW rows \in Seq(Boundary), Appends(rows)
          PROVE  FALSE
      <4>1. boundaries \in Seq(Boundary) /\ boundaries' = boundaries \o rows
          BY <2>1, <3>2 DEF Appends, TypeOK, SpoolTypeOK
      <4>2. Range(boundaries \o rows) = Range(boundaries) \cup Range(rows)
          BY <4>1, RangeConcatenation
      <4> QED
          BY <2>3, <4>1, <4>2
    <3>3. ~UNCHANGED boundaries
        BY <2>3
    <3> QED
        BY <1>1, <2>1, <3>1, <3>2, <3>3, BoundarySteps
  <2> QED
      BY <2>2, <2>3
<1>2. IInv /\ [Next]_vars => [Keeps]_vars
    BY <1>1
<1> QED
    BY <1>2, InductiveInvariant, PTL DEF Spec, KeptUntilApplied
=============================================================================
