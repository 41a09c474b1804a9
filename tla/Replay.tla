------------------------------- MODULE Replay -------------------------------
(***************************************************************************)
(* The stored observations of one account and everything replay derives    *)
(* from them: accounting/replay.py, the administrator's commands of        *)
(* accounting/commands.py, the captures of engine.py and cpa/monitoring.py *)
(* and the start-up command replayobservations.                            *)
(*                                                                         *)
(* A row of `rows` holds the facts of CycleBoundaries (at, used, resets,   *)
(* manual), the exclusion, and what replay derives:                        *)
(*    start   attribution_started_at (0: None)                             *)
(*    mates   the times of the rows of its segment: they and the start are *)
(*            the input of replay_dynamic_segment                          *)
(*    prior   the row whose rate is the segment's prior_rate (0: none)     *)
(* A sample of `samples` is the ParticipantUsageSample of one capture of a *)
(* Sub2API account.  `intervals` holds the CPAAccountCollectionIntervals of*)
(* a CPA account, in order.                                                *)
(*                                                                         *)
(* Every command runs in one transaction under the account's lease         *)
(* (fenced_fact_write, module FactLease), so it is one action.  A capture  *)
(* is two: the facts are committed first, the replay follows in a          *)
(* transaction of its own, and may fail.                                   *)
(***************************************************************************)
EXTENDS CycleBoundaries, FiniteSets

CONSTANTS Providers,   \* a subset of {"sub2api", "cpa"}
          Times,       \* the times of the captures, in order, per provider
          Windows,     \* what the upstream reports, [used, resets], per provider
          MaxCommands, \* bound: commands of the administrator
          MaxSteps,    \* bound: captures and commands together, per provider
          MaxIntervals,\* bound: collection intervals of a CPA account
          MaxFaults    \* bound: stops of the container and failed replays

ASSUME ProvidersAssumption == Providers \subseteq {"sub2api", "cpa"}

ASSUME TimesAssumption ==
    \A p \in Providers :
        /\ Times[p] \in Seq(Nat \ {0})
        /\ \A i, j \in DOMAIN Times[p] : i < j => Times[p][i] < Times[p][j]

\* A window's official start is a time: 0 stands for None.
ASSUME WindowsAssumption ==
    \A p \in Providers :
        /\ Windows[p] \subseteq [used : Nat, resets : Nat]
        /\ \A w \in Windows[p] : w.resets > Window

VARIABLES provider, rows, samples, intervals,
          clock,     \* captures made so far
          captured,  \* the row whose replay has not run yet, or 0
          up,        \* the container runs
          anchored,  \* no command trusted a start that had moved
          timely,    \* every reading was of a window that had just been open
          commands, crashes, failures

bounds == <<commands, crashes, failures>>
premises == <<anchored, timely>>
vars == <<provider, rows, samples, intervals, clock, captured, up, premises, bounds>>

Included(rs, i) == rs[i].excl = "none"

\* The last of a set of indices, 0 if there is none.
LastOf(S) == IF S = {} THEN 0 ELSE CHOOSE i \in S : \A j \in S : j <= i

\* _previous_included
PreviousIncluded(rs, i) == LastOf({j \in 1 .. i - 1 : Included(rs, j)})
LatestIncluded(rs) == PreviousIncluded(rs, Len(rs) + 1)

\* _previous_segment_included
PreviousSegmentIncluded(rs, i) ==
    LastOf({j \in 1 .. i - 1 : /\ Included(rs, j)
                               /\ \/ rs[i].start = 0
                                  \/ rs[j].start # rs[i].start})

-----------------------------------------------------------------------------
(* rebuild_account: replay every row from time `from` on. *)

Facts(r) == [at |-> r.at, used |-> r.used, resets |-> r.resets, manual |-> r.manual]

ToReplay(rs, from) ==
    Subsequence([i \in DOMAIN rs |-> Facts(rs[i])],
                {i \in DOMAIN rs : rs[i].at >= from /\ rs[i].excl # "manual"})

MemberTimes(segment) == {m.at : m \in ToSet(segment.members)}

RebuiltRows(rs, from, result) ==
    LET before == LastOf({i \in DOMAIN rs : rs[i].at < from /\ Included(rs, i)})
        PriorOf(k) == IF k > 1 THEN Last(result.segs[k - 1].members).at
                      ELSE IF before = 0 THEN 0 ELSE rs[before].at
        SegmentOf(r) == {k \in DOMAIN result.segs : r.at \in MemberTimes(result.segs[k])}
        Rebuilt(r) ==
            IF r.at < from \/ r.excl = "manual" THEN r
            ELSE IF r.at \in result.auto
              THEN [r EXCEPT !.excl = "automatic", !.start = 0, !.mates = {}, !.prior = 0]
            ELSE LET k == CHOOSE n \in SegmentOf(r) : TRUE
                 IN [r EXCEPT !.excl = "none", !.start = result.segs[k].start,
                              !.mates = MemberTimes(result.segs[k]), !.prior = PriorOf(k)]
    IN [i \in DOMAIN rs |-> Rebuilt(rs[i])]

\* Slip: a sample at the time of a segment's first row is left to the one before.
SlipSamplesAfterStart(ss, from, segs) ==
    LET StartAt(t) ==
            LET begun == {k \in DOMAIN segs : segs[k].first < t}
            IN IF begun = {} THEN 0 ELSE segs[LastOf(begun)].start
        Rebuilt(u) == IF u.at < from THEN u ELSE [u EXCEPT !.start = StartAt(u.at)]
    IN IF segs = <<>> THEN ss ELSE [i \in DOMAIN ss |-> Rebuilt(ss[i])]

\* _replay_usage_samples: the last segment that had been observed by then.
RebuiltSamples(ss, from, segs) ==
    LET StartAt(t) ==
            LET begun == {k \in DOMAIN segs : segs[k].first <= t}
            IN IF begun = {} THEN 0 ELSE segs[LastOf(begun)].start
        Rebuilt(u) == IF u.at < from THEN u ELSE [u EXCEPT !.start = StartAt(u.at)]
    IN IF segs = <<>> THEN ss ELSE [i \in DOMAIN ss |-> Rebuilt(ss[i])]

Everything == 0   \* replay_from = None

Inferred(rs, from, spans) ==
    InferSegments(ToReplay(rs, from), ToReplay(rs, Everything), provider = "cpa", spans)

Rebuild(rs, from) ==
    LET result == Inferred(rs, from, intervals)
    IN /\ rows' = RebuiltRows(rs, from, result)
       /\ samples' = RebuiltSamples(samples, from, result.segs)

-----------------------------------------------------------------------------
(* _replay_anchor: the time from which a change of row i is replayed. *)

StartOr(time, other) == IF time # 0 THEN time ELSE other

SegmentStart(r) ==
    StartOr(r.start, IF r.manual # 0 THEN r.at ELSE OfficialStart(r))

\* Slip: a manual start that goes does not merge with the segment before it.
SlipNoMerge(rs, i) == SegmentStart(rs[i])

MergeAnchor(rs, i) ==
    LET p == PreviousIncluded(rs, i)
    IN IF p = 0 THEN OfficialStart(rs[i]) ELSE SegmentStart(rs[p])

\* The row before is unused: the window it opened may have to be undone.
AnchorAfterUnused(rs, i, p) ==
    LET q == PreviousSegmentIncluded(rs, p)
    IN IF ~SameReset(rs[p].resets, rs[i].resets) /\ q # 0
         THEN SegmentStart(rs[q])
         ELSE StartOr(rs[p].start, rs[p].at)

Anchor(rs, i) ==
    LET r == rs[i]
        p == PreviousIncluded(rs, i)
    IN IF r.manual # 0 THEN r.at
       ELSE IF r.start # 0 THEN r.start
       ELSE IF p # 0 /\ rs[p].used = 0 THEN AnchorAfterUnused(rs, i, p)
       ELSE IF p # 0 /\ SameReset(rs[p].resets, r.resets)
         THEN StartOr(rs[p].start, OfficialStart(r))
       ELSE OfficialStart(r)

-----------------------------------------------------------------------------
Init ==
    /\ provider \in Providers
    /\ rows = <<>> /\ samples = <<>> /\ intervals = <<>>
    /\ clock = 0 /\ captured = 0
    /\ up = TRUE /\ anchored = TRUE /\ timely = TRUE
    /\ commands = 0 /\ crashes = 0 /\ failures = 0

Now == Times[provider][clock + 1]
StepsLeft == clock + commands < MaxSteps[provider]
TimeLeft == clock < Len(Times[provider]) /\ StepsLeft

Idle == up /\ captured = 0   \* nobody holds the account's lease

NewSample ==
    LET p == LatestIncluded(rows)
    IN [at |-> Now, start |-> IF p = 0 THEN 0 ELSE rows[p].start]

\* A capture that does not read the upstream: local usage only.
CaptureLocal ==
    /\ provider = "sub2api"
    /\ Idle /\ TimeLeft /\ rows # <<>>
    /\ samples' = Append(samples, NewSample)
    /\ clock' = clock + 1
    /\ UNCHANGED <<provider, rows, intervals, captured, up, premises, bounds>>

\* A window reported now had not begun when another window was last reported, and
\* which of the windows reported it is, is in no doubt: within the tolerance its
\* reset agrees with all readings of that window or with none.
Timely(window) ==
    /\ \A r \in ToSet(rows) : SameReset(window.resets, r.resets) \/ OfficialStart(window) > r.at
    /\ \A r, s \in ToSet(rows) : SameReset(window.resets, r.resets) =>
          (SameReset(window.resets, s.resets) <=> SameReset(r.resets, s.resets))

NewRow(at, window) ==
    [at |-> at, used |-> window.used, resets |-> window.resets, manual |-> 0, excl |-> "none",
     start |-> 0, mates |-> {}, prior |-> 0]

\* The facts of a capture with its observation: _persist_capture,
\* _persist_cpa_capture.
Capture(window) ==
    /\ Idle /\ TimeLeft
    /\ OfficialStart(window) <= Now
    /\ rows' = Append(rows, NewRow(Now, window))
    /\ samples' = IF provider = "cpa" THEN samples ELSE Append(samples, NewSample)
    /\ captured' = Len(rows')
    /\ clock' = clock + 1
    /\ timely' = (timely /\ Timely(window))
    /\ UNCHANGED <<provider, intervals, up, anchored, bounds>>

\* _rebuild_capture; the whole account when its quota profile changed, and
\* always for a CPA account (run_cpa_monitor).  Temporary bursts are settled in
\* the same transaction (module TemporaryBurst).
RebuildCapture(profileChanged) ==
    /\ captured # 0
    /\ Rebuild(rows, IF profileChanged \/ provider = "cpa" THEN Everything ELSE Anchor(rows, captured))
    /\ captured' = 0
    /\ UNCHANGED <<provider, intervals, clock, up, premises, bounds>>

\* The replay's transaction rolls back; the facts stay committed and the
\* monitor goes on to its next cycle.
RebuildFails ==
    /\ captured # 0
    /\ crashes + failures < MaxFaults
    /\ failures' = failures + 1
    /\ captured' = 0
    /\ UNCHANGED <<provider, rows, samples, intervals, clock, up, premises, commands, crashes>>

Crash ==
    /\ up
    /\ crashes + failures < MaxFaults
    /\ crashes' = crashes + 1
    /\ up' = FALSE /\ captured' = 0
    /\ UNCHANGED <<provider, rows, samples, intervals, clock, premises, commands, failures>>

\* The rows whose sample_note still says that they wait for their derivation.
Underived == {i \in DOMAIN rows : rows[i].excl = "none" /\ rows[i].mates = {}}

\* entrypoint.sh runs replayobservations before any other process.
Restart ==
    /\ ~up
    /\ up' = TRUE
    /\ IF Underived = {} THEN UNCHANGED <<rows, samples>>
       ELSE LET i == CHOOSE k \in Underived : \A j \in Underived : k <= j
            IN Rebuild(rows, IF rows[i].manual = 0 THEN MergeAnchor(rows, i)
                             ELSE Anchor(rows, i))
    /\ UNCHANGED <<provider, intervals, clock, captured, premises, bounds>>

Command == /\ Idle
           /\ commands < MaxCommands /\ StepsLeft
           /\ commands' = commands + 1
           /\ UNCHANGED <<provider, intervals, clock, captured, up, timely, crashes, failures>>

InsideInterval(i) == \E k \in DOMAIN rows : k < i /\ rows[k].manual >= rows[i].at

\* A replay of the whole account begins a segment with the first row replayed.
BeginsSegment(rs, from) ==
    LET later == ToReplay(rs, from)
    IN later # <<>> =>
         \E g \in ToSet(Inferred(rs, Everything, intervals).segs) : g.first = later[1].at

\* A command on row i.  A row that an administrator excluded keeps the start it
\* had, and a row inside a manual interval may get one of its own: neither need
\* be a start any more.
RebuildFor(i, rs, from) ==
    /\ Rebuild(rs, from)
    /\ anchored' = (anchored /\ (\/ rows[i].excl # "manual" /\ ~InsideInterval(i)
                                 \/ BeginsSegment(rs, from)))

RemovalAnchor(i) == IF rows[i].manual # 0 THEN MergeAnchor(rows, i) ELSE Anchor(rows, i)

RebuildCurrentInterval ==
    /\ Command
    /\ rows # <<>>
    /\ RebuildFor(Len(rows), rows, RemovalAnchor(Len(rows)))

Exclude(i) ==
    /\ Command
    /\ RebuildFor(i, [rows EXCEPT ![i].excl = "manual"], RemovalAnchor(i))

\* Does restoring row i mean that the administrator vouches for a rollback?
ConfirmsRollback(i) ==
    LET p == PreviousIncluded(rows, i)
    IN /\ ~Included(rows, i)
       /\ p # 0
       /\ SameReset(rows[p].resets, rows[i].resets)
       /\ rows[i].used < rows[p].used

Restore(i) ==
    /\ Command
    /\ IF ConfirmsRollback(i) /\ rows[i].manual = 0
         THEN RebuildFor(i, [rows EXCEPT ![i].excl = "none", ![i].manual = rows[i].at],
                         rows[i].at)
         ELSE RebuildFor(i, [rows EXCEPT ![i].excl = "none"], Anchor(rows, i))

\* Closed intervals of observations.
Overlap(a, b, c, d) == a <= d /\ c <= b
Within(a, b, c, d) == c <= a /\ b <= d

SetManualStart(i, e) ==
    LET from == rows[i].at
        until == rows[e].at
        Others == {k \in DOMAIN rows \ {i} : rows[k].manual # 0}
        Met == {k \in Others : Overlap(rows[k].at, rows[k].manual, from, until)}
        Absorbed(k) == Within(rows[k].at, rows[k].manual, from, until)
        Marked(k) == IF k = i THEN [rows[k] EXCEPT !.manual = until, !.excl = "none"]
                     ELSE IF k \in Met THEN [rows[k] EXCEPT !.manual = 0]
                     ELSE rows[k]
    IN /\ Command
       /\ i <= e
       /\ \A k \in Met : Absorbed(k)
       /\ Rebuild([k \in DOMAIN rows |-> Marked(k)], from)
       /\ UNCHANGED anchored

ClearManualStart(i) ==
    /\ Command
    /\ Rebuild([rows EXCEPT ![i].manual = 0], MergeAnchor(rows, i))
    /\ UNCHANGED anchored

-----------------------------------------------------------------------------
(* The collection intervals of a CPA account: the events that the collector *)
(* left in the spool, with the times it recorded (module CPACollector), each*)
(* one transaction under the account's lease.  They reach this point later. *)
(* A connection begins just before a capture's time, and ends just after.   *)

\* The monitor takes no sample at this time.
Pass ==
    /\ provider = "cpa"
    /\ Idle /\ TimeLeft
    /\ clock' = clock + 1
    /\ UNCHANGED <<provider, rows, samples, intervals, captured, up, premises, bounds>>

Elapsed == {Times[provider][k] : k \in 1 .. clock}
Free == Elapsed \ {r.at : r \in ToSet(rows)}

\* Slip: the rows are replayed with the intervals of before.
SlipOldIntervals(rs, spans) ==
    LET result == Inferred(rs, Everything, intervals)
    IN /\ rows' = RebuiltRows(rs, Everything, result)
       /\ intervals' = spans
       /\ UNCHANGED <<provider, samples, clock, captured, up, anchored, bounds>>

RebuildWith(rs, spans) ==
    LET result == Inferred(rs, Everything, spans)
    IN /\ rows' = RebuiltRows(rs, Everything, result)
       /\ intervals' = spans
       /\ UNCHANGED <<provider, samples, clock, captured, up, anchored, bounds>>

\* Slip: a row that arrives late is put last.
SlipAppend(rs, r) == Append(rs, r)
Insert(rs, r) == InsertAt(rs, LastOf({i \in DOMAIN rs : rs[i].at < r.at}) + 1, r)

\* persist_cpa_collection_connected; an interval still open ends where the new
\* one begins.
CollectionConnected(t) ==
    /\ provider = "cpa" /\ Idle
    /\ Len(intervals) < MaxIntervals
    /\ t \in Elapsed
    /\ intervals # <<>> =>
         /\ t - 1 > Last(intervals).from
         /\ t - 1 > Last(intervals).to
    /\ LET closed == [k \in DOMAIN intervals |->
                        IF intervals[k].to = 0 THEN [intervals[k] EXCEPT !.to = t - 1]
                        ELSE intervals[k]]
       IN RebuildWith(rows, Append(closed, [from |-> t - 1, to |-> 0, opened |-> FALSE]))
    /\ UNCHANGED timely

\* persist_cpa_collection_opening_sample: once for an interval.
OpeningSample(t, window) ==
    /\ provider = "cpa" /\ Idle
    /\ intervals # <<>>
    /\ ~Last(intervals).opened
    /\ t \in Free
    /\ Covers(Last(intervals), t)
    /\ OfficialStart(window) <= t
    /\ RebuildWith(Insert(rows, NewRow(t, window)),
                   [intervals EXCEPT ![Len(intervals)].opened = TRUE])
    /\ timely' = (timely /\ Timely(window))

\* persist_cpa_collection_disconnected, without and with a closing sample.
Closed(t) == [intervals EXCEPT ![Len(intervals)].to = t + 1]
Disconnect(t) ==
    /\ provider = "cpa" /\ Idle
    /\ intervals # <<>>
    /\ Last(intervals).to = 0
    /\ t \in Elapsed
    /\ t + 1 > Last(intervals).from
CollectionDisconnected(t) ==
    /\ Disconnect(t)
    /\ RebuildWith(rows, Closed(t))
    /\ UNCHANGED timely
CollectionDisconnectedWithSample(t, window) ==
    /\ Disconnect(t)
    /\ t \in Free
    /\ OfficialStart(window) <= t
    /\ RebuildWith(Insert(rows, NewRow(t, window)), Closed(t))
    /\ timely' = (timely /\ Timely(window))

CollectionEvent ==
    \E t \in Elapsed :
        \/ CollectionConnected(t)
        \/ CollectionDisconnected(t)
        \/ \E w \in Windows[provider] :
              \/ OpeningSample(t, w)
              \/ CollectionDisconnectedWithSample(t, w)

Next ==
    \/ CaptureLocal \/ Pass
    \/ CollectionEvent
    \/ \E w \in Windows[provider] : Capture(w)
    \/ \E b \in BOOLEAN : RebuildCapture(b)
    \/ RebuildFails
    \/ Crash \/ Restart
    \/ RebuildCurrentInterval
    \/ \E i \in DOMAIN rows : Exclude(i)
    \/ \E i \in DOMAIN rows : Restore(i)
    \/ \E i, e \in DOMAIN rows : SetManualStart(i, e)
    \/ \E i \in DOMAIN rows : ClearManualStart(i)

Spec == Init /\ [][Next]_vars

-----------------------------------------------------------------------------
(* What the derived rows must be. *)

FullResult == Inferred(rows, Everything, intervals)

\* What a reader sees of a row.  A row an administrator excluded is not read,
\* and rows after a row are only read with that later row.
Causal(r) == {t \in r.mates : t <= r.at}
Reading(r) == IF r.excl = "manual" THEN [excl |-> "manual"]
              ELSE [excl |-> r.excl, start |-> r.start, mates |-> Causal(r), prior |-> r.prior]
Readings(rs) == [i \in DOMAIN rs |-> Reading(rs[i])]

\* No replay is due, the readings came as an upstream is expected to give them.
Settled == Idle /\ Underived = {}
Regular == Settled /\ timely /\ failures = 0

\* No collection interval of a CPA account covers the row.
Uncovered(r) == provider = "cpa" /\ CoveringInterval(intervals, r.at) = 0

IncludedRows == {i \in DOMAIN rows : Included(rows, i)}

\* Types, and what every action keeps of them: rows are in the order of their
\* times, every row of a Sub2API account has its usage sample
\* (sampling/observations.py writes both in one transaction), and only the
\* captured row may still wait for its derivation while no replay has failed.
TypeOK ==
    /\ \A i \in DOMAIN rows :
         /\ rows[i].excl \in {"none", "manual", "automatic"}
         /\ rows[i].mates \subseteq {r.at : r \in ToSet(rows)}
         /\ rows[i].at \in Elapsed
         /\ provider = "sub2api" => \E k \in DOMAIN samples : samples[k].at = rows[i].at
    /\ \A i, j \in DOMAIN rows : i < j => rows[i].at < rows[j].at
    /\ clock \in 0 .. Len(Times[provider]) /\ captured \in {0, Len(rows)}
    /\ {up, anchored, timely} \subseteq BOOLEAN
    /\ up /\ failures = 0 => Underived \subseteq {captured}

\* Whatever captures, commands and restarts came before, the derived rows are
\* those of a replay of the whole account: replaying from _replay_anchor (or
\* from the time a command chooses) loses nothing that a later row depends on.
\* docs/data-and-replay.md:120-128.
RowsAreAFullReplay ==
    Settled /\ timely /\ anchored => Readings(rows) = Readings(RebuiltRows(rows, Everything, FullResult))

\* The same for a Sub2API account while no replay failed after its capture was
\* committed.
SuffixReplayIsFullReplay ==
    (provider = "sub2api" /\ failures = 0) => RowsAreAFullReplay

\* The rows of a manual interval belong to one segment, the one that starts
\* with the interval, and other starts in it do not divide it.
WholeIntervals ==
    \A i, j \in IncludedRows :
        (i <= j /\ rows[j].at <= rows[i].manual /\ ~InsideInterval(i)) =>
            rows[j].start = rows[i].at

\* Later captures, exclusions and other intervals of set_manual_start do not take
\* a row out of its manual interval, and the interval's start, which the
\* administrator vouches for, is not excluded as a transient anomaly - as long as
\* no command replays from a start that has moved.
ManualIntervalsAreWhole ==
    Regular /\ anchored =>
        /\ WholeIntervals
        /\ \A i \in DOMAIN rows :
             (rows[i].manual # 0 /\ rows[i].excl = "automatic") => Uncovered(rows[i])

\* The same of whatever the administrator commands: everything observed from the
\* start of a manual interval to its end is forced into one segment
\* (docs/data-and-replay.md:94).
IntervalsAreNeverDivided == Regular => WholeIntervals

\* A row is excluded automatically only while it has a cause: for a Sub2API
\* account, the row kept before it is higher in the same official window (a
\* first low row of the next window is never taken for a fall), so excluding or
\* moving that row brings the lower one back.
ExclusionsHaveACause ==
    Regular /\ provider = "sub2api" => \A i \in DOMAIN rows :
       LET p == PreviousIncluded(rows, i)
       IN rows[i].excl = "automatic" => /\ p # 0 /\ rows[p].used > rows[i].used
                                        /\ SameReset(rows[p].resets, rows[i].resets)

\* No row of a CPA account counts that no collection interval covers, however
\* late its interval was opened or closed, whatever an administrator restored and
\* from wherever it was replayed (boundaries.py marks what is not covered).
UncoveredRowsDoNotCount ==
    Settled => \A i \in DOMAIN rows : Uncovered(rows[i]) => ~Included(rows, i)

\* The usage sample of a capture is attributed to the segment its row is in,
\* however often that row's segment moved (_replay_usage_samples).
SamplesFollowRows ==
    Settled => \A i \in IncludedRows, k \in DOMAIN samples :
        samples[k].at = rows[i].at => samples[k].start = rows[i].start

\* A new zero window that the old one interrupts once and that then comes back
\* is the right one: the interruption is excluded, and what follows belongs to
\* the window first seen (docs/data-and-replay.md:96).  Its official start must
\* not have moved past the row that saw it first.
ReturnsTo(k, p) == SameReset(rows[k].resets, rows[p].resets) /\ rows[k].used >= rows[p].used
CandidateReinstated ==
    (Settled /\ commands = 0 /\ failures = 0 /\ provider = "sub2api") => \A p \in DOMAIN rows :
        LET i == p + 1   k == p + 2   j == p + 3
        IN ( /\ j <= Len(rows)
             /\ Included(rows, p) /\ rows[p].used > 0
             /\ rows[i].used = 0
             /\ ResetAdvanced(rows[i].resets, rows[p].resets)
             /\ ReturnsTo(k, p) /\ SameReset(rows[j].resets, rows[i].resets)
             /\ OfficialStart(rows[j]) <= rows[i].at )
           => /\ Included(rows, i) /\ ~Included(rows, k)
              /\ rows[j].start = rows[i].start

\* A segment does not continue across a gap in the collection: what was used
\* while nothing was collected is in nobody's costs
\* (docs/data-and-replay.md:106).  A manual interval may.
GapsAreNotBridged ==
    Regular /\ provider = "cpa" => \A i, j \in IncludedRows :
        rows[i].start = rows[j].start =>
            CoveringInterval(intervals, rows[i].at) = CoveringInterval(intervals, rows[j].at)
=============================================================================
