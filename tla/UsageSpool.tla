----------------------------- MODULE UsageSpool -----------------------------
(***************************************************************************)
(* The collector's durable queue: backend/monitor/cpa/usage_spool.py.      *)
(*                                                                         *)
(* A SQLite file of its own holds the usage events not yet in the business *)
(* database, the boundaries (connected, opening sample, disconnected) not  *)
(* yet applied to it, and the session that is being recorded.  Every       *)
(* operation is one transaction of that file.                              *)
(*                                                                         *)
(* Time is the number of usage events published so far: event e happens    *)
(* at e, and a clock read at t is later than exactly the events 1 .. t.    *)
(***************************************************************************)
EXTENDS Integers, SequencesExt

CONSTANTS
    Account,        \* monitored CPA accounts
    MaxEvents,      \* bound on the events published
    MaxSessions     \* bound on the subscriptions

Event == 1 .. MaxEvents
Time  == 0 .. MaxEvents
Never == -1         \* a time that is not there

VARIABLES
    usage,          \* usage_events, in order of id
    nextId,         \* the next AUTOINCREMENT id of usage_events
    boundaries,     \* boundary_events, in order of id
    session         \* the collector_session row

spoolVars == <<usage, nextId, boundaries, session>>

Usage == [id : Nat \ {0}, event : Event]

Boundary ==
    [kind : {"connected", "opening_sample", "disconnected"},
     account : Account, session : 0 .. MaxSessions,
     connected : Time,
     disconnected : Time \cup {Never}, reliable : BOOLEAN,
     sample : Time \cup {Never},        \* when the percentage was observed
     required : Nat]                    \* required_usage_id

Session == [key : 0 .. MaxSessions, active : BOOLEAN, connected : Time, heartbeat : Time,
            accounts : SUBSET Account]

SpoolTypeOK ==
    /\ usage \in Seq(Usage)
    /\ nextId \in Nat \ {0}
    /\ boundaries \in Seq(Boundary)
    /\ session \in Session

SpoolInit ==
    /\ usage = <<>>
    /\ nextId = 1
    /\ boundaries = <<>>
    /\ session = [key |-> 0, active |-> FALSE, connected |-> 0, heartbeat |-> 0,
                   accounts |-> {}]

-----------------------------------------------------------------------------
(* Usage events *)

Spooled == {usage[i].event : i \in DOMAIN usage}

\* append: one transaction for all the records it is given.
AppendUsage(events) ==
    /\ usage' = usage \o [i \in DOMAIN events |->
                            [id |-> nextId + i - 1, event |-> events[i]]]
    /\ nextId' = nextId + Len(events)
    /\ UNCHANGED <<boundaries, session>>

\* Slip: delete() empties the queue.
DeleteUsageAll(n) == usage' = <<>> /\ UNCHANGED <<nextId, boundaries, session>>

\* Slip: the last record peeked stays.
DeleteUsageShort(n) ==
    usage' = SubSeq(usage, n, Len(usage)) /\ UNCHANGED <<nextId, boundaries, session>>

\* peek and delete, at the head of the queue.
DeleteUsage(n) ==
    /\ usage' = SubSeq(usage, n + 1, Len(usage))
    /\ UNCHANGED <<nextId, boundaries, session>>

MaxUsageId == IF usage = <<>> THEN 0 ELSE usage[Len(usage)].id

-----------------------------------------------------------------------------
(* Boundaries *)

Connected(a, s, t) ==
    [kind |-> "connected", account |-> a, session |-> s, connected |-> t,
     disconnected |-> Never, reliable |-> FALSE, sample |-> Never, required |-> 0]

OpeningSample(a, s, t, at, id) ==
    [Connected(a, s, t) EXCEPT !.kind = "opening_sample", !.sample = at, !.required = id]

Disconnected(a, s, t, end, ok, at, id) ==
    [Connected(a, s, t) EXCEPT !.kind = "disconnected", !.disconnected = end,
                               !.reliable = ok, !.sample = at, !.required = id]

\* INSERT OR IGNORE of one record per account, in ascending order.
Insert(S) ==
    \E rows \in [1 .. Cardinality(S) -> S] :
        /\ \A i, j \in DOMAIN rows : i < j => rows[i].account < rows[j].account
        /\ Range(rows) = S
        /\ boundaries' = boundaries \o rows

\* Slip: a boundary waits for no usage.
WaitsNever(r) == FALSE

\* has_usage_through(required_usage_id)
Waits(r) == usage # <<>> /\ usage[1].id <= r.required

-----------------------------------------------------------------------------
(* The session: its row and its boundaries change in one transaction *)

BeginSession(s, A, t) ==
    /\ ~session.active
    /\ session' = [key |-> s, active |-> TRUE, connected |-> t, heartbeat |-> t, accounts |-> A]
    /\ Insert({Connected(a, s, t) : a \in A})
    /\ UNCHANGED <<usage, nextId>>

TouchSession(t) ==
    /\ session.active
    /\ session' = [session EXCEPT !.heartbeat = t]
    /\ UNCHANGED <<usage, nextId, boundaries>>

\* Ends with the disconnected records the collector computed.
FinishSession(records) ==
    /\ session.active
    /\ session' = [session EXCEPT !.active = FALSE]
    /\ Insert(records)
    /\ UNCHANGED <<usage, nextId>>

\* A session whose process vanished ends, unreliably, at its last heartbeat.
RecoverInterruptedSession ==
    IF session.active
    THEN FinishSession({Disconnected(a, session.key, session.connected, session.heartbeat,
                                     FALSE, Never, MaxUsageId) : a \in session.accounts})
    ELSE UNCHANGED spoolVars
=============================================================================
