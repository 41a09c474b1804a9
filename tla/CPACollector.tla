---------------------------- MODULE CPACollector ----------------------------
(***************************************************************************)
(* The CPA usage collector: management/commands/runcpacollector.py with    *)
(* the writes of cpa/usage.py and cpa/monitoring.py.                       *)
(*                                                                         *)
(* A reader thread moves the events of a subscription into the spool.  The *)
(* main loop moves them on into the business database, and records for     *)
(* each account when the subscription was connected and disconnected, with *)
(* percentages observed at both ends.  A barrier (a PING the reader sends) *)
(* tells the main loop which events came before.  The process dies,        *)
(* connections break, both databases refuse, and the poll loop, which      *)
(* shares the accounts' leases, observes percentages of its own.           *)
(*                                                                         *)
(* A fenced write of the business database is one step that needs the      *)
(* lease of its accounts to be free; FactLease says why that is enough.    *)
(***************************************************************************)
EXTENDS UsageSpool, Functions

CONSTANTS
    UsageBatch,     \* BATCH_SIZE, for usage events
    BoundaryBatch,  \* BATCH_SIZE, for boundaries
    MaxPolls,       \* bound on the observations of the poll loop
    MaxFaults       \* bound on deaths, lost connections and database errors

ASSUME CPACollectorAssumption ==
    /\ Account \subseteq Nat \ {0}
    /\ IsFiniteSet(Account)
    /\ MaxEvents \in Nat
    /\ MaxSessions \in Nat
    /\ UsageBatch \in Nat \ {0}
    /\ BoundaryBatch \in Nat \ {0}
    /\ MaxPolls \in Nat
    /\ MaxFaults \in Nat

VARIABLES
    published,      \* the account of every usage event CPA has published
    subscribed, stream,     \* CPA's side of the connection, and what it has sent
    reader, ended,  \* the reader thread, and when it finished
    barrier,        \* the main loop's request to the reader
    unspooled,      \* events the spool refused, in memory
    pc,             \* where the main thread is
    connected,      \* connected_at of the subscription
    openings,       \* accounts whose opening sample is still to be taken
    sampled,        \* percentages observed and waiting for the barrier
    pass,           \* where the main thread is in moving the spool's content on
    stored,         \* the events in CPAUsageEvent
    intervals,      \* the CPAAccountCollectionInterval rows
    observations,   \* the Observation rows
    leased, poll, polls,    \* the poll loop's leases, what it is doing, how often it began
    faults

cpaVars      == <<published, subscribed, stream>>
readerVars   == <<reader, ended, barrier, unspooled>>
mainVars     == <<pc, connected, openings, sampled, pass>>
businessVars == <<stored, intervals, observations>>
pollVars     == <<leased, poll, polls>>
vars == <<spoolVars, cpaVars, readerVars, mainVars, businessVars, pollVars, faults>>

Pong == 0
now  == Len(published)
Unspooled == {unspooled[i] : i \in DOMAIN unspooled}
EventsOf(a, from, to) == {e \in (from + 1) .. to : published[e] = a}

Reader == {"none", "reading", "pinging", "draining", "finished"}
Step == {"boot", "flush", "drain", "connect", "begin", "loop", "opening",
         "closing", "last sample", "join", "last flush", "last drain"}

Interval == [account : Account, session : 1 .. MaxSessions, connected : Time,
             disconnected : Time \cup {Never}, reliable : BOOLEAN,
             opened : BOOLEAN]              \* it has its opening observation

\* session 0: the poll loop's own.
Observation == [account : Account, session : 0 .. MaxSessions, at : Time, cost : Nat]

NoPass == [step |-> "off", count |-> 0, todo |-> <<>>, blocked |-> {}, moved |-> FALSE]
NoPoll == [step |-> "idle", account |-> 0, at |-> 0, cost |-> 0]
NoBarrier == [state |-> "none", id |-> 0]
NoSample == [a \in Account |-> Never]

TypeOK ==
    /\ SpoolTypeOK
    /\ published \in Seq(Account) /\ now <= MaxEvents
    /\ subscribed \in BOOLEAN
    /\ stream \in Seq(Event \cup {Pong})
    /\ reader \in Reader
    /\ ended \in Time \cup {Never}
    /\ barrier \in [state : {"none", "asked", "sent", "failed", "done"}, id : Nat]
    /\ unspooled \in Seq(Event)
    /\ pc \in Step
    /\ connected \in Time
    /\ openings \in SUBSET Account
    /\ sampled \in [Account -> Time \cup {Never}]
    /\ pass \in [step : {"off", "batch", "delete", "bounds", "drop"}, count : Nat,
                 todo : Seq(Boundary), blocked : SUBSET Account, moved : BOOLEAN]
    /\ stored \subseteq Event
    /\ intervals \subseteq Interval
    /\ observations \subseteq Observation
    /\ leased \in SUBSET Account
    /\ poll \in [step : {"idle", "query", "write"}, account : Account \cup {0},
                 at : Time, cost : Nat]
    /\ polls \in Nat
    /\ faults \in Nat

Init ==
    /\ SpoolInit
    /\ published = <<>>
    /\ subscribed = FALSE
    /\ stream = <<>>
    /\ reader = "none"
    /\ ended = Never
    /\ barrier = NoBarrier
    /\ unspooled = <<>>
    /\ pc = "boot"
    /\ connected = 0
    /\ openings = {}
    /\ sampled = NoSample
    /\ pass = NoPass
    /\ stored = {}
    /\ intervals = {}
    /\ observations = {}
    /\ leased = {}
    /\ poll = NoPoll
    /\ polls = 0
    /\ faults = 0

Fault == faults < MaxFaults /\ faults' = faults + 1
Goto(step) == pc' = step

-----------------------------------------------------------------------------
(* CPA: usage events, sent to whoever is subscribed *)

Publish(a) ==
    /\ now < MaxEvents
    /\ published' = Append(published, a)
    /\ stream' = IF subscribed THEN Append(stream, now + 1) ELSE stream
    /\ UNCHANGED <<spoolVars, subscribed, readerVars, mainVars, businessVars, pollVars, faults>>

-----------------------------------------------------------------------------
(* _read_subscription: the reader thread *)

\* The thread ends: its socket is of no use any more, a barrier asked of it
\* fails, and so does any later one.
Finish ==
    /\ reader' = "finished"
    /\ ended' = now
    /\ barrier' = IF barrier.state \in {"asked", "sent"}
                  THEN [barrier EXCEPT !.state = "failed"] ELSE barrier

\* The next frame of the stream is an event: it goes into the spool, or, when
\* the spool refuses it, into memory, and the thread ends.
ReadRecord ==
    /\ reader \in {"reading", "pinging", "draining"}
    /\ stream # <<>> /\ Head(stream) # Pong
    /\ stream' = Tail(stream)
    /\ \/ /\ AppendUsage(<<Head(stream)>>)
          /\ UNCHANGED <<subscribed, readerVars, faults>>
       \/ /\ Fault
          /\ unspooled' = Append(unspooled, Head(stream))
          /\ subscribed' = FALSE
          /\ Finish
          /\ UNCHANGED spoolVars
    /\ UNCHANGED <<published, mainVars, businessVars, pollVars>>

\* A barrier is a PING, sent unless the thread has been told to stop; the
\* events published before it are ahead of its answer in the stream.
SendPing ==
    /\ reader = "reading"
    /\ barrier.state = "asked"
    /\ reader' = "pinging"
    /\ barrier' = [barrier EXCEPT !.state = "sent"]
    /\ stream' = Append(stream, Pong)
    /\ UNCHANGED <<spoolVars, published, subscribed, ended, unspooled, mainVars, businessVars, pollVars, faults>>

ReadPong ==
    /\ reader = "pinging"
    /\ stream # <<>> /\ Head(stream) = Pong
    /\ stream' = Tail(stream)
    /\ reader' = "reading"
    /\ barrier' = IF barrier.state = "sent" THEN [state |-> "done", id |-> MaxUsageId] ELSE barrier
    /\ UNCHANGED <<spoolVars, published, subscribed, ended, unspooled, mainVars, businessVars, pollVars, faults>>

\* The connection breaks, or a PING is not answered in time.
ReaderFails ==
    /\ reader \in {"reading", "pinging", "draining"}
    /\ Fault
    /\ subscribed' = FALSE
    /\ stream' = <<>>
    /\ Finish
    /\ UNCHANGED <<spoolVars, published, unspooled, mainVars, businessVars, pollVars>>

\* Slip: what was sent before the UNSUBSCRIBE is not read.
UnsubscribeAtOnce ==
    /\ reader = "reading" /\ pc = "join"
    /\ subscribed' = FALSE /\ stream' = <<>>
    /\ reader' = "draining"
    /\ UNCHANGED <<spoolVars, published, ended, barrier, unspooled, mainVars, businessVars, pollVars, faults>>

\* stop_event: UNSUBSCRIBE, then what was sent before it is still read.
Unsubscribe ==
    /\ reader = "reading" /\ pc = "join"
    /\ subscribed' = FALSE
    /\ reader' = "draining"
    /\ UNCHANGED <<spoolVars, published, stream, ended, barrier, unspooled, mainVars, businessVars, pollVars, faults>>

ReaderStops ==
    /\ reader = "draining" /\ stream = <<>>
    /\ Finish
    /\ UNCHANGED <<spoolVars, cpaVars, unspooled, mainVars, businessVars, pollVars, faults>>

-----------------------------------------------------------------------------
(* _run_forever and the beginning of _run_subscription *)

\* A refused operation of the spool or of the database raises, and the loop
\* begins again.
Raises(step) ==
    /\ Fault
    /\ Goto(step)

Recover ==
    /\ pc = "boot"
    /\ \/ RecoverInterruptedSession /\ Goto("flush") /\ UNCHANGED faults
       \/ Raises("boot") /\ UNCHANGED spoolVars
    /\ UNCHANGED <<cpaVars, readerVars, connected, openings, sampled, pass, businessVars, pollVars>>

\* _flush_unspooled: all of it in one append, then forgotten.
FlushTo(step) ==
    /\ AppendUsage(unspooled)
    /\ unspooled' = <<>>
    /\ Goto(step)

Flush ==
    /\ pc = "flush"
    /\ \/ FlushTo("drain") /\ UNCHANGED faults
       \/ Raises("boot") /\ UNCHANGED <<spoolVars, unspooled>>
    /\ UNCHANGED <<cpaVars, reader, ended, barrier, connected, openings, sampled, pass, businessVars, pollVars>>

FlushInLoop ==
    /\ pc = "loop" /\ pass = NoPass
    /\ unspooled # <<>>
    /\ FlushTo("loop")
    /\ UNCHANGED <<cpaVars, reader, ended, barrier, connected, openings, sampled, pass, businessVars, pollVars, faults>>

\* The subscription is acknowledged; only then is the clock read.
Connect ==
    /\ pc = "connect"
    /\ subscribed' = TRUE
    /\ stream' = <<>>
    /\ Goto("begin")
    /\ UNCHANGED <<spoolVars, published, readerVars, connected, openings, sampled, pass, businessVars, pollVars, faults>>

\* connect raises.
ConnectFails ==
    /\ pc = "connect"
    /\ Raises("last flush")
    /\ UNCHANGED <<spoolVars, cpaVars, readerVars, connected, openings, sampled, pass, businessVars, pollVars>>

\* begin_session for the accounts enabled now, and the reader starts.
Begin(A) ==
    /\ pc = "begin"
    /\ BeginSession(session.key + 1, A, now)
    /\ connected' = now
    /\ openings' = A
    /\ reader' = "reading"
    /\ ended' = Never
    /\ barrier' = NoBarrier
    /\ Goto("loop")
    /\ UNCHANGED <<cpaVars, unspooled, sampled, pass, businessVars, pollVars, faults>>

\* begin_session refuses, or fails: the connection is closed without a session.
BeginFails ==
    /\ pc = "begin"
    /\ \/ session.active /\ UNCHANGED faults
       \/ Fault
    /\ subscribed' = FALSE
    /\ stream' = <<>>
    /\ Goto("last flush")
    /\ UNCHANGED <<spoolVars, published, readerVars, connected, openings, sampled, pass, businessVars, pollVars>>

-----------------------------------------------------------------------------
(* The loop of _run_subscription *)

\* Percentages observed now, for some of the accounts; the queries of one
\* round are one step, and each of them may fail.
Query(A) ==
    /\ \E S \in SUBSET A : sampled' = [a \in Account |-> IF a \in S THEN now ELSE Never]
    /\ barrier' = NoBarrier

\* _request_reader_barrier, after the queries.
Ask ==
    /\ pc \in {"opening", "last sample"}
    /\ barrier.state = "none"
    /\ barrier' = [barrier EXCEPT !.state = IF reader = "finished" THEN "failed" ELSE "asked"]
    /\ UNCHANGED <<spoolVars, cpaVars, reader, ended, unspooled, mainVars, businessVars, pollVars, faults>>

Sampled == {a \in Account : sampled[a] # Never}

QueryOpening ==
    /\ pc = "loop" /\ pass = NoPass
    /\ reader # "finished"
    /\ openings # {}
    /\ Query(openings)
    /\ sampled' # NoSample
    /\ Goto("opening")
    /\ UNCHANGED <<spoolVars, cpaVars, reader, ended, unspooled, connected, openings, pass, businessVars, pollVars, faults>>

\* append_boundaries: a sample needs the events that came before it.
CaptureOpening ==
    /\ pc = "opening"
    /\ barrier.state = "done"
    /\ Insert({OpeningSample(a, session.key, connected, sampled[a], barrier.id) : a \in Sampled})
    /\ openings' = openings \ Sampled
    /\ sampled' = NoSample
    /\ Goto("loop")
    /\ UNCHANGED <<usage, nextId, session, cpaVars, readerVars, connected, pass, businessVars, pollVars, faults>>

Heartbeat ==
    /\ pc = "loop" /\ pass = NoPass
    /\ session.heartbeat # now
    /\ TouchSession(now)
    /\ UNCHANGED <<cpaVars, readerVars, mainVars, businessVars, pollVars, faults>>

\* The loop ends: the reader has finished, the barrier of an opening failed or
\* timed out, an operation of the spool failed, the configuration changed, or
\* the process was asked to stop.
Leave ==
    /\ pc \in {"loop", "opening"} /\ pass = NoPass
    /\ pc = "opening" =>
        barrier.state = "failed" \/ faults < MaxFaults
    /\ faults' = IF pc = "opening" /\ barrier.state # "failed" THEN faults + 1 ELSE faults
    /\ sampled' = NoSample
    /\ Goto("closing")
    /\ UNCHANGED <<spoolVars, cpaVars, readerVars, connected, openings, pass, businessVars, pollVars>>

-----------------------------------------------------------------------------
(* _finish_subscription_session, and the end of _run_subscription *)

Disconnects(end, ok, id) ==
    {Disconnected(a, session.key, connected, end, ok, IF ok THEN sampled[a] ELSE Never, id)
        : a \in session.accounts}

\* finish_session; if it fails the session stays active, to be recovered.
FinishAs(records) ==
    /\ \/ FinishSession(records) /\ UNCHANGED faults
       \/ Fault /\ UNCHANGED spoolVars
    /\ sampled' = NoSample
    /\ Goto("join")

\* The reader is dead: what came after its end is unknown.
FinishDead ==
    /\ pc = "closing"
    /\ reader = "finished"
    /\ FinishAs(Disconnects(ended, FALSE, MaxUsageId))
    /\ UNCHANGED <<cpaVars, readerVars, connected, openings, pass, businessVars, pollVars>>

\* Closing samples, unless the configuration changed; then the last barrier.
QueryClosing ==
    /\ pc = "closing"
    /\ reader # "finished"
    /\ Query(session.accounts)
    /\ Goto("last sample")
    /\ UNCHANGED <<spoolVars, cpaVars, reader, ended, unspooled, connected, openings, pass, businessVars, pollVars, faults>>

\* The barrier held: the session ends now, reliably.
FinishReliable ==
    /\ pc = "last sample"
    /\ barrier.state = "done"
    /\ FinishAs(Disconnects(now, TRUE, barrier.id))
    /\ UNCHANGED <<cpaVars, readerVars, connected, openings, pass, businessVars, pollVars>>

\* It failed, or timed out: the connection is closed, the end is uncertain.
FinishUncertain ==
    /\ pc = "last sample"
    /\ barrier.state \notin {"none", "done"}
    /\ barrier.state # "failed" => faults < MaxFaults
    /\ FinishSession(Disconnects(IF ended = Never THEN now ELSE ended, FALSE, MaxUsageId))
    /\ faults' = IF barrier.state = "failed" THEN faults ELSE faults + 1
    /\ sampled' = NoSample
    /\ Goto("join")
    /\ subscribed' = FALSE
    /\ stream' = <<>>
    /\ IF reader = "finished" THEN UNCHANGED <<reader, ended, barrier>> ELSE Finish
    /\ UNCHANGED <<published, unspooled, connected, openings, pass, businessVars, pollVars>>

\* stop_event is set and the reader joined; the socket is closed, and the
\* subscription's own variables are gone.
Join ==
    /\ pc = "join"
    /\ reader = "finished"
    /\ subscribed' = FALSE
    /\ stream' = <<>>
    /\ barrier' = NoBarrier
    /\ connected' = 0
    /\ openings' = {}
    /\ Goto("last flush")
    /\ UNCHANGED <<spoolVars, published, reader, ended, unspooled, sampled, pass, businessVars, pollVars, faults>>

LastFlush ==
    /\ pc = "last flush"
    /\ \/ FlushTo("last drain") /\ UNCHANGED faults
       \/ Raises("boot") /\ UNCHANGED <<spoolVars, unspooled>>
    /\ UNCHANGED <<cpaVars, reader, ended, barrier, connected, openings, sampled, pass, businessVars, pollVars>>

-----------------------------------------------------------------------------
(* Moving the spool on: one round of the loop, or _drain_persistence *)

Draining == pc \in {"drain", "last drain"}

PassOnly == <<nextId, session, cpaVars, readerVars, connected, openings, sampled, pollVars>>

StartPass ==
    /\ pc = "loop" \/ Draining
    /\ pass = NoPass
    /\ pass' = [NoPass EXCEPT !.step = "batch"]
    /\ UNCHANGED <<usage, boundaries, pc, businessVars, faults, PassOnly>>

\* cpa_window_cost, with S the events in the database.
Cost(S, a, t) == Cardinality({e \in S : published[e] = a /\ e <= t})

Taken  == Min({UsageBatch, Len(usage)})
Peeked == {usage[i].event : i \in 1 .. Taken}

\* Events not there yet; existing fingerprints are duplicates.
Fresh == Peeked \ stored

FreshAccounts == {published[e] : e \in Fresh}

\* The events are created and the observations made after one of them are
\* computed again, in one transaction.
CreateEvents(new) ==
    /\ new \cap stored = {}
    /\ stored' = stored \cup new
    /\ observations' =
        {IF \E e \in new : published[e] = o.account /\ e <= o.at
         THEN [o EXCEPT !.cost = Cost(stored', o.account, o.at)] ELSE o : o \in observations}

\* persist_usage_events
PersistBatch ==
    /\ pass.step = "batch"
    /\ usage # <<>>
    /\ FreshAccounts \cap leased = {}
    /\ CreateEvents(Fresh)
    /\ pass' = [pass EXCEPT !.step = "delete", !.count = Taken]
    /\ UNCHANGED <<usage, boundaries, pc, intervals, faults, PassOnly>>

\* Boundaries come after the batch, from the start of their queue.
ToBoundaries == [NoPass EXCEPT !.step = "bounds",
                               !.todo = SubSeq(boundaries, 1, Min({BoundaryBatch, Len(boundaries)}))]

\* The batch leaves the spool; a drain takes another one.
DeleteBatch ==
    /\ pass.step = "delete"
    /\ DeleteUsage(pass.count)
    /\ pass' = IF Draining THEN [NoPass EXCEPT !.step = "batch"] ELSE ToBoundaries
    /\ UNCHANGED <<pc, businessVars, faults, cpaVars, readerVars, connected, openings, sampled, pollVars>>

NoBatch ==
    /\ pass.step = "batch"
    /\ usage = <<>>
    /\ pass' = ToBoundaries
    /\ UNCHANGED <<usage, boundaries, pc, businessVars, faults, PassOnly>>

-----------------------------------------------------------------------------
(* What a boundary does to the business database *)

Of(r) == {i \in intervals : i.account = r.account /\ i.session = r.session}
Open(a) == {i \in intervals : i.account = a /\ i.disconnected = Never}

NewInterval(r) ==
    [account |-> r.account, session |-> r.session, connected |-> r.connected,
     disconnected |-> Never, reliable |-> FALSE, opened |-> FALSE]

\* _locked_collection_interval
Locked(r) == IF Of(r) # {} THEN CHOOSE i \in Of(r) : TRUE ELSE NewInterval(r)
Save(i, r) == intervals' = (intervals \ Of(r)) \cup {i}

\* unique_open_cpa_collection_interval, and a connection before the open one.
Refused(r) ==
    /\ Of(r) = {}
    /\ \E i \in Open(r.account) : r.kind = "connected" => r.connected < i.connected

Observe(r) ==
    observations' = observations \cup
        {[account |-> r.account, session |-> r.session, at |-> r.sample,
          cost |-> Cost(stored, r.account, r.sample)]}

ApplyConnected(r) ==
    /\ r.kind = "connected"
    /\ intervals' =
        IF Of(r) # {} THEN intervals
        ELSE (intervals \ Open(r.account)) \cup {NewInterval(r)} \cup
                {[i EXCEPT !.disconnected = r.connected, !.reliable = FALSE]
                    : i \in Open(r.account)}
    /\ UNCHANGED observations

ApplyOpening(r) ==
    /\ r.kind = "opening_sample"
    /\ IF Locked(r).opened THEN UNCHANGED <<intervals, observations>>
       ELSE Save([Locked(r) EXCEPT !.opened = TRUE], r) /\ Observe(r)

\* Slip: an end without a percentage is observed all the same.
ApplyDisconnectedUnsampled(r) ==
    /\ r.kind = "disconnected"
    /\ Save([Locked(r) EXCEPT !.disconnected = r.disconnected, !.reliable = r.reliable], r)
    /\ Observe(r)

ApplyDisconnected(r) ==
    /\ r.kind = "disconnected"
    /\ IF Locked(r).disconnected # Never THEN UNCHANGED <<intervals, observations>>
       ELSE /\ Save([Locked(r) EXCEPT !.disconnected = r.disconnected,
                                      !.reliable = r.reliable], r)
            /\ IF r.sample = Never THEN UNCHANGED observations ELSE Observe(r)

-----------------------------------------------------------------------------
(* _persist_pending_boundaries *)

\* Slip: a boundary that waits does not hold back the later ones.
HeldAlone(r) == Waits(r) \/ r.account \in leased

\* The usage it needs is not in the database yet, or the account is busy; an
\* account that waits makes all its later boundaries wait.
Held(r) == Waits(r) \/ r.account \in leased \cup pass.blocked

Hold ==
    /\ pass.step = "bounds" /\ pass.todo # <<>>
    /\ Held(Head(pass.todo))
    /\ pass' = [pass EXCEPT !.todo = Tail(@), !.blocked = @ \cup {Head(pass.todo).account}]
    /\ UNCHANGED <<usage, boundaries, pc, businessVars, faults, PassOnly>>

PersistBoundary ==
    /\ pass.step = "bounds" /\ pass.todo # <<>>
    /\ LET r == Head(pass.todo) IN
        /\ ~Held(r)
        /\ ~Refused(r)
        /\ ApplyConnected(r) \/ ApplyOpening(r) \/ ApplyDisconnected(r)
    /\ pass' = [pass EXCEPT !.step = "drop"]
    /\ UNCHANGED <<usage, boundaries, pc, stored, faults, PassOnly>>

DeleteBoundary ==
    /\ pass.step = "drop"
    /\ boundaries' = RemoveFirst(boundaries, Head(pass.todo))
    /\ pass' = [pass EXCEPT !.step = "bounds", !.todo = Tail(@), !.moved = TRUE]
    /\ UNCHANGED <<usage, pc, businessVars, faults, PassOnly>>

\* A drain goes on until no boundary moves; then a session begins, if there is
\* an account for one, or everything begins again.
EndPass ==
    /\ pass.step = "bounds" /\ pass.todo = <<>>
    /\ \/ /\ Draining /\ pass.moved
          /\ pass' = ToBoundaries
          /\ UNCHANGED pc
       \/ /\ ~(Draining /\ pass.moved)
          /\ pass' = NoPass
          /\ \/ pc = "loop" /\ UNCHANGED pc
             \/ pc # "loop" /\ Goto("boot")
             \/ pc = "drain" /\ session.key < MaxSessions /\ Goto("connect")
    /\ UNCHANGED <<usage, boundaries, businessVars, faults, PassOnly>>

\* An operation is refused: an account of the batch is busy, a constraint does
\* not allow a boundary, a database fails.
PassFails ==
    /\ pass.step # "off"
    /\ \/ /\ \/ pass.step = "batch" /\ FreshAccounts \cap leased # {}
             \/ /\ pass.step = "bounds" /\ pass.todo # <<>>
                /\ ~Held(Head(pass.todo)) /\ Refused(Head(pass.todo))
          /\ UNCHANGED faults
       \/ Fault
    /\ pass' = NoPass
    /\ IF Draining THEN Goto("boot") ELSE UNCHANGED pc
    /\ UNCHANGED <<usage, boundaries, businessVars, PassOnly>>

\* The process dies and is started again: its memory is gone.
Die ==
    /\ Fault
    /\ pc # "boot" \/ unspooled # <<>>
    /\ Goto("boot")
    /\ subscribed' = FALSE
    /\ stream' = <<>>
    /\ reader' = "none"
    /\ ended' = Never
    /\ barrier' = NoBarrier
    /\ unspooled' = <<>>
    /\ connected' = 0
    /\ openings' = {}
    /\ sampled' = NoSample
    /\ pass' = NoPass
    /\ UNCHANGED <<spoolVars, published, businessVars, pollVars>>

-----------------------------------------------------------------------------
(* The poll loop: run_cpa_monitor under the account's lease *)

PollTake(a) ==
    /\ poll.step = "idle" /\ polls < MaxPolls
    /\ polls' = polls + 1
    /\ leased' = leased \cup {a}
    /\ poll' = [NoPoll EXCEPT !.step = "query", !.account = a]
    /\ UNCHANGED <<spoolVars, cpaVars, readerVars, mainVars, businessVars, faults>>

\* The percentage is observed, and the cost up to then computed.
PollQuery ==
    /\ poll.step = "query"
    /\ poll' = [poll EXCEPT !.step = "write", !.at = now,
                            !.cost = Cost(stored, poll.account, now)]
    /\ UNCHANGED <<spoolVars, cpaVars, readerVars, mainVars, businessVars, leased, polls, faults>>

\* Slip: the poll writes without looking at its lease.
PollWriteUnowned ==
    /\ poll.step = "write"
    /\ observations' = observations \cup {[account |-> poll.account, session |-> 0,
                                           at |-> poll.at, cost |-> poll.cost]}
    /\ leased' = leased \ {poll.account}
    /\ poll' = NoPoll
    /\ UNCHANGED <<spoolVars, cpaVars, readerVars, mainVars, stored, intervals, polls, faults>>

\* renew and assert_owned: the write needs the lease it began with.
PollWrite ==
    /\ poll.step = "write"
    /\ poll.account \in leased
    /\ observations' = observations \cup {[account |-> poll.account, session |-> 0,
                                           at |-> poll.at, cost |-> poll.cost]}
    /\ leased' = leased \ {poll.account}
    /\ poll' = NoPoll
    /\ UNCHANGED <<spoolVars, cpaVars, readerVars, mainVars, stored, intervals, polls, faults>>

\* The query fails, or the lease is found to be lost.
PollGivesUp ==
    /\ poll.step # "idle"
    /\ leased' = leased \ {poll.account}
    /\ poll' = NoPoll
    /\ UNCHANGED <<spoolVars, cpaVars, readerVars, mainVars, businessVars, polls, faults>>

\* The poll loop stalls for longer than its lease.
Stall ==
    /\ leased # {}
    /\ leased' = {}
    /\ UNCHANGED <<spoolVars, cpaVars, readerVars, mainVars, businessVars, poll, polls, faults>>

-----------------------------------------------------------------------------
CPA     == \E a \in Account : Publish(a)
ReaderNext == ReadRecord \/ SendPing \/ ReadPong \/ ReaderFails \/ Unsubscribe \/ ReaderStops
SessionNext ==
    \/ Recover \/ Flush \/ FlushInLoop \/ Connect \/ ConnectFails
    \/ \E A \in SUBSET Account : Begin(A)
    \/ BeginFails \/ QueryOpening \/ Ask \/ CaptureOpening \/ Heartbeat \/ Leave
    \/ FinishDead \/ QueryClosing \/ FinishReliable \/ FinishUncertain \/ Join \/ LastFlush
PassNext == StartPass \/ PersistBatch \/ DeleteBatch \/ NoBatch \/ Hold \/ PersistBoundary
            \/ DeleteBoundary \/ EndPass \/ PassFails
PollNext == (\E a \in Account : PollTake(a)) \/ PollQuery \/ PollWrite \/ PollGivesUp \/ Stall

Next == CPA \/ ReaderNext \/ SessionNext \/ PassNext \/ Die \/ PollNext

Spec == Init /\ [][Next]_vars

\* Threads run on, and the loop gets to each part of its body; nothing makes
\* CPA publish, a fault happen or a subscription end.
Fairness ==
    /\ WF_vars(ReadRecord \/ SendPing \/ ReadPong \/ Unsubscribe \/ ReaderStops)
    /\ WF_vars(SessionNext)
    /\ SF_vars(StartPass)
    /\ WF_vars(PassNext)
    /\ WF_vars(PollQuery \/ PollWrite \/ PollGivesUp)

FairSpec == Spec /\ Fairness

-----------------------------------------------------------------------------
(* Properties *)

\* A percentage taken during a session is recorded only when every usage event
\* of its account since the connection has been created: the events are in the
\* spool when the barrier answers, and the boundary waits for the spool to get
\* past them, through retries, restarts and sessions in between.
SamplesAreComplete ==
    \A o \in observations, i \in intervals :
        i.account = o.account /\ i.session = o.session
            => EventsOf(o.account, i.connected, o.at) \subseteq stored

\* An observation's cost is always that of the events created so far up to it:
\* an event created late corrects it, and a poll that computed its cost before
\* an event was created does not write it afterwards.
ObservationsCurrent ==
    \A o \in observations : o.cost = Cost(stored, o.account, o.at)

\* While the record of a session's end is in the spool, its interval is open, or
\* closed by that very record: no later session ends it in some other way.
EndsAsRecorded ==
    \A r \in Range(boundaries) : r.kind = "disconnected" =>
        \A i \in Of(r) : i.disconnected # Never
            => i.disconnected = r.disconnected /\ i.reliable = r.reliable

Applied(r) ==
    \E i \in Of(r) :
        /\ r.kind = "opening_sample" => i.opened
        /\ r.kind = "disconnected" => i.disconnected # Never

\* Nothing leaves the spool before it is in the business database, whatever
\* fails between the two databases and whoever appends in the meantime.
KeptUntilApplied ==
    [][/\ Spooled \ Spooled' \subseteq stored'
       /\ \A r \in Range(boundaries) \ Range(boundaries') : Applied(r)']_vars

\* The events of an interval whose end is reliable, in the collector's hands.
Covered(i) == EventsOf(i.account, i.connected, i.disconnected)
                \subseteq stored \cup Spooled \cup Range(stream)

\* As long as nothing fails, an interval with a reliable end misses no event,
\* though its end is read from the clock after the last barrier: what the
\* subscription still sends is read before it is given up.
OrderlyEndLosesNothing ==
    faults = 0 => \A i \in intervals : i.reliable => Covered(i)

\* The spool empties, usage and boundaries, whatever is busy or retried.
SpoolDrains ==
    (usage # <<>> \/ boundaries # <<>>) ~> (usage = <<>> /\ boundaries = <<>>)
=============================================================================
