-------------------------- MODULE CycleBoundaries --------------------------
(***************************************************************************)
(* Which quota cycle an observation belongs to: the boundary inference of  *)
(* accounting/boundaries.py, as operators over the list of observations.   *)
(*                                                                         *)
(* An observation is a record                                              *)
(*    at      observed_at; observations have distinct times, so the time   *)
(*            also identifies the row                                      *)
(*    used    upstream_used_percent, an integer                            *)
(*    resets  upstream_resets_at                                           *)
(*    manual  0, or the time of manual_start_end (is_manual_start)         *)
(* Window is window_seconds and Jitter is RESET_TIME_TOLERANCE.  Of integer*)
(* percentages RESET_ROLLBACK_TOLERANCE (0.1) decides as their order does. *)
(***************************************************************************)
EXTENDS Integers, Sequences, SequencesExt

CONSTANTS Window, Jitter

ASSUME WindowAssumption == Window \in Nat \ {0} /\ Jitter \in Nat

NoSegment == [reason |-> "none"]

\* The elements of s at the indices in kept, in their order.  (By indices, not a
\* test as in SelectSeq, of which the prover knows nothing.)
Subsequence(s, kept) ==
    LET part[n \in 0 .. Len(s)] ==
            IF n = 0 THEN <<>>
            ELSE IF n \in kept THEN Append(part[n - 1], s[n]) ELSE part[n - 1]
    IN part[Len(s)]

SameReset(a, b) == a - b \in -Jitter .. Jitter
ResetAdvanced(a, b) == a - b > Jitter

OfficialStart(o) == o.resets - Window

\* A segment that is anchored at a real observation: its costs, and its
\* percentage, are the baseline of the segment.
ObservedBaseline(o, reason) ==
    [reason |-> reason, start |-> o.at, first |-> o.at, resets |-> o.resets,
     members |-> <<o>>]

OfficialSegment(o) ==
    IF o.used = 0
      THEN ObservedBaseline(o, "official_zero_observation")
      ELSE [reason |-> "official_window", start |-> OfficialStart(o),
            first |-> o.at, resets |-> o.resets, members |-> <<o>>]

ManualSegment(o) == ObservedBaseline(o, "manual_override")
CollectionSegment(o) == ObservedBaseline(o, "provider_collection_baseline")

TentativeReasons == {"official_zero_observation", "provider_collection_baseline"}

WaitingForFirstUse(s) ==
    /\ s.reason \in TentativeReasons \cup {"manual_override"}
    /\ \A k \in DOMAIN s.members : s.members[k].used = 0

Join(s, o) == [s EXCEPT !.members = Append(@, o)]
JoinMovingReset(s, o) == [Join(s, o) EXCEPT !.resets = o.resets]

(***************************************************************************)
(* CPA accounts: an observation counts only while some collection interval *)
(* covers it, the latest one; the first observation in an interval is a    *)
(* baseline.  An interval is [from, to], to = 0 while it is open.           *)
(***************************************************************************)
Covers(c, time) == c.from <= time /\ (c.to = 0 \/ time <= c.to)
CoveringInterval(intervals, time) ==
    LET covering == {k \in DOMAIN intervals : Covers(intervals[k], time)}
    IN IF covering = {} THEN 0 ELSE intervals[Max(covering)].from

CollectionBaselines(intervals, history) ==
    {o.at : o \in {h \in ToSet(history) :
        /\ CoveringInterval(intervals, h.at) # 0
        /\ \A g \in ToSet(history) :
             CoveringInterval(intervals, g.at) = CoveringInterval(intervals, h.at)
               => h.at <= g.at}}

(***************************************************************************)
(* The loop of infer_segments.  Its state: i, the index; segs, the closed  *)
(* segments; cur, the open one; until, the end of an active manual         *)
(* interval (0: none); auto, the times excluded automatically.             *)
(***************************************************************************)
CloseCurrent(w) ==
    IF w.cur = NoSegment THEN w.segs ELSE Append(w.segs, w.cur)

Open(w, segment) ==
    [w EXCEPT !.segs = CloseCurrent(w), !.cur = segment, !.i = @ + 1]

Continue(w, segment) == [w EXCEPT !.cur = segment, !.i = @ + 1]

\* The first of the indexes where a scan stops, or Len + 1.
ScanTo(list, stops) == Min(stops \cup {Len(list) + 1})

TimesOf(list, from, to) == {list[k].at : k \in from .. to}

\* Exclude the observations before index k and go on there.
SkipTo(w, list, k) ==
    [w EXCEPT !.auto = @ \cup TimesOf(list, w.i, k - 1), !.i = k]

\* Slip: what follows is not looked at.
SlipNoLookAhead(w, list) == 0

\* Before the first use of a tentative window: did the window that the
\* current observation leaves come back later?
CandidateConfirmedAt(w, list) ==
    LET k == ScanTo(list, {j \in w.i .. Len(list) :
                 list[j].manual # 0 \/ SameReset(list[j].resets, w.cur.resets)})
    IN IF /\ w.cur.reason \in TentativeReasons
          /\ ~SameReset(list[w.i].resets, w.cur.resets)
          /\ k <= Len(list)
          /\ list[k].manual = 0
         THEN k ELSE 0

\* Slip: a manual start is given up like a tentative window.
SlipRestoreAny(w, o) ==
    /\ w.segs # <<>>
    /\ SameReset(o.resets, Last(w.segs).resets)
    /\ o.used >= Last(Last(w.segs).members).used

\* ... or did the previous window come back, with its percentage?
PreviousRestored(w, o) ==
    /\ w.cur.reason \in TentativeReasons
    /\ w.segs # <<>>
    /\ SameReset(o.resets, Last(w.segs).resets)
    /\ o.used >= Last(Last(w.segs).members).used

RestorePrevious(w, o) ==
    [w EXCEPT !.auto = @ \cup {m.at : m \in ToSet(w.cur.members)},
              !.cur = Join(Last(w.segs), o),
              !.segs = Front(@),
              !.i = @ + 1]

WhileUnused(w, list) ==
    LET o == list[w.i]
        k == CandidateConfirmedAt(w, list)
    IN IF k # 0 THEN SkipTo(w, list, k)
       ELSE IF PreviousRestored(w, o) THEN RestorePrevious(w, o)
       ELSE Continue(w, JoinMovingReset(w.cur, o))

\* Slip: the low run goes on into the next official window.
SlipLowRunOn(w, list) ==
    LET high == Last(w.cur.members).used
        k == ScanTo(list, {j \in w.i + 1 .. Len(list) :
                 list[j].manual # 0 \/ list[j].used >= high})
    IN SkipTo(w, list, k)

\* A lower percentage under the same official reset: the low run is excluded.
SkipLowRun(w, list) ==
    LET high == Last(w.cur.members).used
        k == ScanTo(list, {j \in w.i + 1 .. Len(list) :
                 \/ list[j].manual # 0
                 \/ ~SameReset(list[j].resets, w.cur.resets)
                 \/ list[j].used >= high})
    IN SkipTo(w, list, k)

\* One iteration of the loop.
Iterate(w, list, baselines) ==
    LET o == list[w.i]
        inManual == w.until # 0 /\ o.at <= w.until
    IN CASE inManual ->
              Continue(w, JoinMovingReset(w.cur, o))
         [] ~inManual /\ o.manual # 0 ->
              [Open(w, ManualSegment(o)) EXCEPT !.until = o.manual]
         [] OTHER ->
              LET v == [w EXCEPT !.until = 0]
              IN IF o.at \in baselines THEN Open(v, CollectionSegment(o))
                 ELSE IF v.cur # NoSegment /\ WaitingForFirstUse(v.cur)
                   THEN WhileUnused(v, list)
                 ELSE IF v.cur = NoSegment \/ ResetAdvanced(o.resets, v.cur.resets)
                   THEN Open(v, OfficialSegment(o))
                 ELSE IF o.used >= Last(v.cur.members).used
                   THEN Continue(v, Join(v.cur, o))
                 ELSE SkipLowRun(v, list)

LoopStart == [i |-> 1, segs |-> <<>>, cur |-> NoSegment, until |-> 0, auto |-> {}]

\* The loop, left when no observation is left; every iteration passes one at least.
Step(w, list, baselines) == IF w.i > Len(list) THEN w ELSE Iterate(w, list, baselines)
AfterLoop(list, baselines) ==
    LET walk[n \in 0 .. Len(list)] ==
            IF n = 0 THEN LoopStart ELSE Step(walk[n - 1], list, baselines)
    IN walk[Len(list)]

InferFrom(list, baselines) ==
    LET done == AfterLoop(list, baselines)
    IN [segs |-> CloseCurrent(done), auto |-> done.auto]

(***************************************************************************)
(* infer_segments: list holds the observations to segment, without those an*)
(* administrator excluded, history all the account's.  For a Sub2API       *)
(* account every observation is covered (cpa = FALSE).                     *)
(***************************************************************************)
InferSegments(list, history, cpa, intervals) ==
    IF ~cpa THEN InferFrom(list, {})
    ELSE LET covered == {k \in DOMAIN list : CoveringInterval(intervals, list[k].at) # 0}
             result == InferFrom(Subsequence(list, covered),
                                 CollectionBaselines(intervals, history))
         IN [result EXCEPT !.auto = @ \cup {list[k].at : k \in DOMAIN list \ covered}]
=============================================================================
