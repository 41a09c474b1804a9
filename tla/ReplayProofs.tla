---------------------------- MODULE ReplayProofs ----------------------------
(***************************************************************************)
(* Why every observation counts once, in a segment that had begun, and why *)
(* the usage samples follow, for every number of captures, commands,       *)
(* collection events and faults, and whatever the upstream reports.        *)
(*                                                                         *)
(* First the inference alone: each iteration of infer_segments accounts for*)
(* what it passes (Accounted), so the segments it returns are in order and *)
(* nothing is lost or used twice.  Then one replay: it leaves what is      *)
(* before its anchor as it was, and an anchor is never after the row that  *)
(* it is for; so rows replayed and rows left alone agree with the samples, *)
(* which are cut at the same time.  The steps follow from these two.       *)
(*                                                                         *)
(* Last, why a replay of a suffix is enough, for readings that come as an  *)
(* upstream gives them (Timely): the inference then decides one observation*)
(* after the other (Online), so a replay that begins where a segment of the*)
(* whole account begins continues it (CutReplay); each anchor is such a    *)
(* place; so the rows always follow the derivations of the whole (Follows).*)
(***************************************************************************)
EXTENDS Replay, FoldTheorems, SequenceTheorems

-----------------------------------------------------------------------------
(* Sequences *)

Ascending(s) == \A a, b \in DOMAIN s : a < b => s[a].at < s[b].at

LEMMA Appended ==
    ASSUME NEW T, NEW s \in Seq(T), NEW x \in T
    PROVE  /\ Append(s, x) \in Seq(T)
           /\ Len(Append(s, x)) = Len(s) + 1
           /\ DOMAIN Append(s, x) = DOMAIN s \cup {Len(s) + 1}
           /\ \A k \in DOMAIN s : Append(s, x)[k] = s[k]
           /\ Append(s, x)[Len(s) + 1] = x
           /\ Last(Append(s, x)) = x
           /\ ToSet(Append(s, x)) = ToSet(s) \cup {x}
<1> DEFINE n == Len(s)   a == Append(s, x)
<1>1. /\ a \in Seq(T) /\ Len(a) = n + 1
      /\ \A k \in 1 .. n : a[k] = s[k]
      /\ a[n + 1] = x
  BY AppendProperties
<1>2. n \in Nat /\ DOMAIN s = 1 .. n
  BY LenProperties
<1>3. DOMAIN a = 1 .. n + 1
  BY <1>1, LenProperties
<1> HIDE DEF n, a
<1>4. DOMAIN a = (1 .. n) \cup {n + 1}
  BY <1>2, <1>3
<1>5. ToSet(a) = ToSet(s) \cup {x}
  BY <1>1, <1>2, <1>4 DEF ToSet
<1>6. Last(a) = x
  BY <1>1 DEF Last
<1> QED
  BY <1>1, <1>2, <1>4, <1>5, <1>6 DEF n, a

\* c[k] of the first k elements of s are in p, in their order.
Counted(p, s, kept, n, c) ==
    /\ c \in [0 .. n -> Nat]
    /\ c[0] = 0 /\ c[n] = Len(p) /\ \A k \in 0 .. n : c[k] <= Len(p)
    /\ \A k \in 1 .. n : IF k \in kept THEN c[k] = c[k - 1] + 1 /\ p[c[k]] = s[k]
                         ELSE c[k] = c[k - 1]

\* A part of s after the first n elements were looked at.
PartOf(p, s, kept, T, n) ==
    /\ p \in Seq(T)
    /\ ToSet(p) = {s[k] : k \in (1 .. n) \cap kept}
    /\ Ascending(s) => Ascending(p)
    /\ \E c : Counted(p, s, kept, n, c)

LEMMA CountGrows ==
    ASSUME NEW T, NEW s, NEW kept, NEW n \in Nat \ {0}, NEW p \in Seq(T), NEW c,
           Counted(p, s, kept, n - 1, c), NEW q \in Seq(T), \A k \in 1 .. Len(p) : q[k] = p[k],
           IF n \in kept THEN Len(q) = Len(p) + 1 /\ q[Len(q)] = s[n] ELSE q = p
    PROVE  \E d : Counted(q, s, kept, n, d)
<1> DEFINE d == [k \in 0 .. n |-> IF k = n THEN Len(q) ELSE c[k]]
<1>1. /\ Len(p) \in Nat /\ Len(q) \in Nat /\ Len(p) <= Len(q)
      /\ n - 1 \in Nat /\ n # 0
      /\ \A k \in 0 .. n : k = n \/ (k # n /\ k \in 0 .. n - 1)
      /\ \A k \in 1 .. n : k \in 0 .. n /\ k - 1 \in 0 .. n - 1 /\ (k # n => k \in 1 .. n - 1)
  <2>1. Len(p) \in Nat /\ Len(q) \in Nat
    BY LenProperties
  <2> QED
    BY <2>1
<1>2. /\ c \in [0 .. n - 1 -> Nat] /\ c[0] = 0 /\ c[n - 1] = Len(p)
      /\ \A k \in 0 .. n - 1 : c[k] \in Nat /\ c[k] <= Len(p)
      /\ \A k \in 1 .. n - 1 : IF k \in kept THEN c[k] = c[k - 1] + 1 /\ p[c[k]] = s[k]
                               ELSE c[k] = c[k - 1]
  BY DEF Counted
<1>3. /\ d[n] = Len(q) /\ DOMAIN d = 0 .. n
      /\ \A k \in 0 .. n - 1 : d[k] = c[k]
  <2>1. n \in 0 .. n /\ \A k \in 0 .. n - 1 : k \in 0 .. n /\ k # n
    OBVIOUS
  <2> QED
    BY <2>1
<1>3a. d = [k \in 0 .. n |-> d[k]]
  OBVIOUS
<1> HIDE DEF d
<1>4. \A k \in 0 .. n : d[k] \in Nat /\ d[k] <= Len(q)
  <2> SUFFICES ASSUME NEW k \in 0 .. n PROVE d[k] \in Nat /\ d[k] <= Len(q)
    OBVIOUS
  <2>1. CASE k = n
    BY <1>1, <1>3, <2>1
  <2>2. CASE k # n
    <3>1. d[k] = c[k] /\ c[k] \in Nat /\ c[k] <= Len(p)
      BY <1>1, <1>2, <1>3, <2>2
    <3> QED
      BY <1>1, <3>1
  <2> QED
    BY <2>1, <2>2
<1>5. d \in [0 .. n -> Nat] /\ d[0] = 0
  <2>1. 0 \in 0 .. n - 1
    BY <1>1
  <2> QED
    BY <1>2, <1>3, <1>3a, <1>4, <2>1
<1>6. ASSUME NEW k \in 1 .. n
      PROVE  IF k \in kept THEN d[k] = d[k - 1] + 1 /\ q[d[k]] = s[k] ELSE d[k] = d[k - 1]
  <2>1. d[k - 1] = c[k - 1]
    BY <1>1, <1>3
  <2>2. CASE k = n
    BY <1>2, <1>3, <2>1, <2>2
  <2>3. CASE k # n
    <3>1. /\ k \in 1 .. n - 1 /\ k \in 0 .. n - 1 /\ d[k] = c[k] /\ c[k] \in Nat /\ c[k] <= Len(p)
          /\ c[k - 1] \in Nat
      BY <1>1, <1>2, <1>3, <2>3
    <3>2. CASE k \notin kept
      BY <1>2, <2>1, <3>1, <3>2
    <3>3. CASE k \in kept
      <4>1. c[k] = c[k - 1] + 1 /\ p[c[k]] = s[k]
        BY <1>2, <3>1, <3>3
      <4>2. c[k] \in 1 .. Len(p)
        BY <1>1, <3>1, <4>1
      <4> QED
        BY <2>1, <3>1, <3>3, <4>1, <4>2
    <3> QED
      BY <3>2, <3>3
  <2> QED
    BY <2>2, <2>3
<1>7. Counted(q, s, kept, n, d)
  BY <1>3, <1>4, <1>5, <1>6 DEF Counted
<1> QED
  BY <1>7

LEMMA PartGrows ==
    ASSUME NEW T, NEW s \in Seq(T), NEW kept, NEW n \in 1 .. Len(s),
           NEW p, PartOf(p, s, kept, T, n - 1)
    PROVE  PartOf(IF n \in kept THEN Append(p, s[n]) ELSE p, s, kept, T, n)
<1>0. n - 1 \in Nat /\ (\A k : k \in 1 .. n <=> (k \in 1 .. n - 1 \/ k = n))
  OBVIOUS
<1>1. /\ p \in Seq(T)
      /\ ToSet(p) = {s[k] : k \in (1 .. n - 1) \cap kept}
      /\ Ascending(s) => Ascending(p)
  BY DEF PartOf
<1>1a. PICK c : Counted(p, s, kept, n - 1, c)
  BY DEF PartOf
<1>1b. n \in Nat \ {0} /\ DOMAIN p = 1 .. Len(p)
  BY <1>1, LenProperties
<1>2. CASE n \notin kept
  <2>1. (1 .. n) \cap kept = (1 .. n - 1) \cap kept
    BY <1>0, <1>2
  <2>2. \E d : Counted(p, s, kept, n, d)
    BY <1>1, <1>1a, <1>1b, <1>2, CountGrows
  <2> QED
    BY <1>1, <1>2, <2>1, <2>2 DEF PartOf
<1>3. CASE n \in kept
  <2> DEFINE q == Append(p, s[n])
  <2>0. s[n] \in T /\ DOMAIN s = 1 .. Len(s)
    BY ElementOfSeq, LenProperties
  <2>1. /\ q \in Seq(T) /\ Len(q) = Len(p) + 1
        /\ DOMAIN q = DOMAIN p \cup {Len(p) + 1}
        /\ \A k \in DOMAIN p : q[k] = p[k]
        /\ q[Len(p) + 1] = s[n]
        /\ ToSet(q) = ToSet(p) \cup {s[n]}
    BY <1>1, <2>0, Appended
  <2>2. (1 .. n) \cap kept = ((1 .. n - 1) \cap kept) \cup {n}
    BY <1>0, <1>3
  <2> HIDE DEF q
  <2>3. ToSet(q) = {s[k] : k \in (1 .. n) \cap kept}
    BY <1>1, <2>1, <2>2
  <2>4. ASSUME Ascending(s) PROVE Ascending(q)
    <3>1. \A x \in ToSet(p) : x.at < s[n].at
      <4>1. \A k \in 1 .. n - 1 : k \in DOMAIN s /\ n \in DOMAIN s /\ k < n
        BY <2>0
      <4> QED
        BY <1>1, <4>1, <2>4 DEF Ascending
    <3>2. DOMAIN p = 1 .. Len(p) /\ Len(p) \in Nat
      BY <1>1, LenProperties
    <3>3. \A k \in DOMAIN p : p[k].at < s[n].at
      BY <3>1 DEF ToSet
    <3>4. ASSUME NEW a \in DOMAIN q, NEW b \in DOMAIN q, a < b
          PROVE  q[a].at < q[b].at
      <4>1. a \in DOMAIN p
        BY <2>1, <3>2, <3>4
      <4>2. CASE b \in DOMAIN p
        BY <1>1, <2>1, <2>4, <3>4, <4>1, <4>2 DEF Ascending
      <4>3. CASE b = Len(p) + 1
        BY <2>1, <3>3, <4>1, <4>3
      <4> QED
        BY <2>1, <4>2, <4>3
    <3> QED
      BY <3>4 DEF Ascending
  <2>5. \E d : Counted(q, s, kept, n, d)
    <3>1. (\A k \in 1 .. Len(p) : q[k] = p[k]) /\ q[Len(q)] = s[n]
      BY <1>1b, <2>1
    <3> QED
      BY <1>1, <1>1a, <1>1b, <1>3, <2>1, <3>1, CountGrows
  <2>6. PartOf(q, s, kept, T, n)
    BY <2>1, <2>3, <2>4, <2>5 DEF PartOf
  <2> QED
    BY <1>3, <2>6 DEF q
<1> QED
  BY <1>2, <1>3

\* What Subsequence gives: the elements kept, in their order.
LEMMA SubsequenceIs ==
    ASSUME NEW T, NEW s \in Seq(T), NEW kept
    PROVE  PartOf(Subsequence(s, kept), s, kept, T, Len(s))
<1> DEFINE n == Len(s)
           S == [k \in 0 .. n |-> {p \in Seq(T) : PartOf(p, s, kept, T, k)}]
           F == [c \in (1 .. n) \X Seq(T) |->
                   IF c[1] \in kept THEN Append(c[2], s[c[1]]) ELSE c[2]]
           Defines(h) == h = [k \in 0 .. n |->
                                IF k = 0 THEN <<>>
                                ELSE IF k \in kept THEN Append(h[k - 1], s[k]) ELSE h[k - 1]]
           part == CHOOSE h : Defines(h)
<1>0. n \in Nat
  BY LenProperties
<1>1. PartOf(<<>>, s, kept, T, 0) /\ <<>> \in S[0]
  <2>1. <<>> \in Seq(T) /\ DOMAIN <<>> = {}
    BY EmptySeq
  <2>2. ToSet(<<>>) = {} /\ Ascending(<<>>) /\ (1 .. 0) \cap kept = {}
    BY <2>1 DEF ToSet, Ascending
  <2>2a. \E c : Counted(<<>>, s, kept, 0, c)
    <3> DEFINE c == [k \in 0 .. 0 |-> 0]
    <3>1. c \in [0 .. 0 -> Nat] /\ c[0] = 0 /\ Len(<<>>) = 0 /\ (\A k \in 0 .. 0 : c[k] = 0)
      OBVIOUS
    <3>2. 1 .. 0 = {} /\ 0 <= 0
      OBVIOUS
    <3> HIDE DEF c
    <3>3. Counted(<<>>, s, kept, 0, c)
      BY <3>1, <3>2 DEF Counted
    <3> QED
      BY <3>3
  <2>3. PartOf(<<>>, s, kept, T, 0)
    BY <2>1, <2>2, <2>2a DEF PartOf
  <2> QED
    BY <1>0, <2>1, <2>3
<1>2. ASSUME NEW k \in 1 .. n, NEW p \in S[k - 1]
      PROVE  F[<<k, p>>] = (IF k \in kept THEN Append(p, s[k]) ELSE p) /\ F[<<k, p>>] \in S[k]
  <2>1. k - 1 \in 0 .. n /\ k \in 0 .. n
    BY <1>0
  <2>2. p \in Seq(T) /\ PartOf(p, s, kept, T, k - 1)
    BY <1>2, <2>1
  <2>3. F[<<k, p>>] = (IF k \in kept THEN Append(p, s[k]) ELSE p)
    BY <2>2
  <2> HIDE DEF F
  <2>4. PartOf(F[<<k, p>>], s, kept, T, k)
    BY <2>2, <2>3, PartGrows
  <2>5. F[<<k, p>>] \in Seq(T)
    BY <2>4 DEF PartOf
  <2> QED
    BY <2>1, <2>3, <2>4, <2>5
<1>3. PICK h : Runs(h, n, <<>>, F, S)
  <2> HIDE DEF n, S, F
  <2> QED
    BY <1>0, <1>1, <1>2, RecursionExists
<1>4. /\ h = [k \in 0 .. n |-> IF k = 0 THEN <<>> ELSE F[<<k, h[k - 1]>>]]
      /\ \A k \in 0 .. n : h[k] \in S[k]
  BY <1>3 DEF Runs
<1>5. Defines(h)
  <2>1. ASSUME NEW k \in 1 .. n
        PROVE  F[<<k, h[k - 1]>>] = IF k \in kept THEN Append(h[k - 1], s[k]) ELSE h[k - 1]
    <3>1. k - 1 \in 0 .. n
      BY <1>0
    <3>2. h[k - 1] \in S[k - 1]
      BY <1>4, <3>1
    <3> HIDE DEF n, S, F
    <3> QED
      BY <1>2, <3>2
  <2>2. \A k \in 0 .. n : k = 0 \/ k \in 1 .. n
    BY <1>0
  <2> HIDE DEF n, S, F
  <2> QED
    BY <1>4, <2>1, <2>2
<1>6. Defines(part)
  <2> HIDE DEF Defines
  <2> QED
    BY <1>5
<1>7. \A k \in 0 .. n : part[k] \in S[k]
  <2>1. part[0] \in S[0]
    <3> HIDE DEF part, S
    <3> QED
      BY <1>0, <1>1, <1>6
  <2>2. ASSUME NEW k \in 1 .. n, part[k - 1] \in S[k - 1] PROVE part[k] \in S[k]
    <3>1. k \in 0 .. n /\ k # 0
      BY <1>0
    <3>2. part[k] = IF k \in kept THEN Append(part[k - 1], s[k]) ELSE part[k - 1]
      <4> HIDE DEF part
      <4> QED
        BY <1>6, <3>1
    <3> HIDE DEF part, S, F
    <3> QED
      BY <1>2, <2>2, <3>2
  <2> HIDE DEF n, part, S
  <2> QED
    BY <1>0, <2>1, <2>2, RecursionKeeps
<1>8. Subsequence(s, kept) = part[n]
  BY DEF Subsequence
<1>9. PartOf(part[n], s, kept, T, n)
  <2> HIDE DEF part
  <2> QED
    BY <1>0, <1>7
<1> QED
  BY <1>8, <1>9

-----------------------------------------------------------------------------
(* Segments *)

Fact == [at : Nat, used : Nat, resets : Nat, manual : Nat]

Reasons == {"official_zero_observation", "official_window", "manual_override",
            "provider_collection_baseline"}
Segment == [reason : Reasons, start : Int, first : Nat, resets : Nat, members : Seq(Fact)]

\* It starts no later than its first member.
SegmentOK(g) ==
    /\ g \in Segment
    /\ ToSet(g.members) # {}
    /\ g.start <= g.first
    /\ \A m \in ToSet(g.members) : g.first <= m.at

InOrder(segs) ==
    \A a, b \in DOMAIN segs : a < b => \A m \in ToSet(segs[a].members) : m.at < segs[b].first

\* The segments and the excluded times are all that was seen: an observation is
\* excluded or in a segment, never both, and the segments follow each other.
Accounted(segs, auto, seen) ==
    /\ segs \in Seq(Segment)
    /\ auto \subseteq {o.at : o \in seen}
    /\ \A k \in DOMAIN segs : SegmentOK(segs[k]) /\ ToSet(segs[k].members) \subseteq seen
    /\ InOrder(segs)
    /\ \A o \in seen : o.at \in auto \/ \E k \in DOMAIN segs : o \in ToSet(segs[k].members)
    /\ \A k \in DOMAIN segs : \A m \in ToSet(segs[k].members) : m.at \notin auto

\* The last segment takes the next observation.
LEMMA SegmentGrows ==
    ASSUME NEW segs \in Seq(Segment), NEW cur \in Segment, NEW g \in Segment, NEW auto,
           NEW seen, seen \subseteq Fact, NEW o \in Fact, \A x \in seen : x.at < o.at,
           Accounted(Append(segs, cur), auto, seen),
           g.start = cur.start, g.first = cur.first, g.members = Append(cur.members, o)
    PROVE  Accounted(Append(segs, g), auto, seen \cup {o})
<1> DEFINE P == Append(segs, cur)   Q == Append(segs, g)   n == Len(segs) + 1
<1>0. Len(segs) \in Nat /\ DOMAIN segs = 1 .. Len(segs)
  BY LenProperties
<1>1. /\ DOMAIN P = DOMAIN segs \cup {n}
      /\ \A k \in DOMAIN segs : P[k] = segs[k]
      /\ P[n] = cur
  BY Appended
<1>2. /\ Q \in Seq(Segment)
      /\ DOMAIN Q = DOMAIN segs \cup {n}
      /\ \A k \in DOMAIN segs : Q[k] = segs[k]
      /\ Q[n] = g
  BY Appended
<1>3. /\ auto \subseteq {x.at : x \in seen}
      /\ \A k \in DOMAIN P : SegmentOK(P[k]) /\ ToSet(P[k].members) \subseteq seen
      /\ InOrder(P)
      /\ \A x \in seen : x.at \in auto \/ \E k \in DOMAIN P : x \in ToSet(P[k].members)
      /\ \A k \in DOMAIN P : \A m \in ToSet(P[k].members) : m.at \notin auto
  BY DEF Accounted
<1> HIDE DEF P, Q
<1>4. ToSet(g.members) = ToSet(cur.members) \cup {o}
  BY Appended DEF Segment
<1>5. \A k \in DOMAIN segs : k < n /\ k # n
  BY <1>0
<1>6. SegmentOK(g) /\ ToSet(g.members) \subseteq seen \cup {o}
  <2>1. SegmentOK(cur) /\ ToSet(cur.members) \subseteq seen
    BY <1>1, <1>3
  <2>2. PICK m \in ToSet(cur.members) : TRUE
    BY <2>1 DEF SegmentOK
  <2>3. cur.first <= m.at /\ m.at < o.at /\ m.at \in Nat
    BY <2>1, <2>2 DEF SegmentOK, Fact
  <2>4. cur.first \in Nat /\ o.at \in Nat
    BY DEF Segment, Fact
  <2>5. cur.first <= o.at
    BY <2>3, <2>4
  <2> QED
    BY <1>4, <2>1, <2>5 DEF SegmentOK
<1>7. InOrder(Q)
  <2> SUFFICES ASSUME NEW a \in DOMAIN Q, NEW b \in DOMAIN Q, a < b,
                      NEW m \in ToSet(Q[a].members)
               PROVE  m.at < Q[b].first
    BY DEF InOrder
  <2>1. a \in DOMAIN segs
    BY <1>0, <1>2
  <2>2. Q[a] = P[a] /\ Q[b].first = P[b].first
    BY <1>1, <1>2, <1>5, <2>1
  <2> QED
    BY <1>1, <1>2, <1>3, <2>1, <2>2 DEF InOrder
<1>8. \A k \in DOMAIN Q : ToSet(Q[k].members) = ToSet(P[k].members) \cup (IF k = n THEN {o} ELSE {})
  BY <1>1, <1>2, <1>4, <1>5
<1>9. o.at \notin auto
  <2>1. \A x \in seen : x.at # o.at
    BY DEF Fact
  <2> QED
    BY <1>3, <2>1
<1> QED
  <2>1. \A x \in seen \cup {o} : x.at \in auto \/ \E k \in DOMAIN Q : x \in ToSet(Q[k].members)
    <3>1. o \in ToSet(Q[n].members) /\ n \in DOMAIN Q /\ DOMAIN Q = DOMAIN P
      BY <1>1, <1>2, <1>4
    <3>2. \A k \in DOMAIN Q : ToSet(P[k].members) \subseteq ToSet(Q[k].members)
      BY <1>8
    <3> QED
      BY <1>3, <3>1, <3>2
  <2>2. \A k \in DOMAIN Q : \A m \in ToSet(Q[k].members) : m.at \notin auto
    <3>1. DOMAIN Q = DOMAIN P /\ \A k \in DOMAIN Q : ToSet(Q[k].members) \subseteq ToSet(P[k].members) \cup {o}
      BY <1>1, <1>2, <1>8
    <3> QED
      BY <1>3, <1>9, <3>1
  <2>3. \A k \in DOMAIN Q : SegmentOK(Q[k]) /\ ToSet(Q[k].members) \subseteq seen \cup {o}
    BY <1>1, <1>2, <1>3, <1>6
  <2>4. auto \subseteq {x.at : x \in seen \cup {o}}
    BY <1>3
  <2> QED
    BY <1>2, <1>7, <2>1, <2>2, <2>3, <2>4 DEF Accounted, Q

\* A segment opens with the next observation.
LEMMA SegmentOpens ==
    ASSUME NEW segs \in Seq(Segment), NEW g \in Segment, NEW auto,
           NEW seen, seen \subseteq Fact, NEW o \in Fact, \A x \in seen : x.at < o.at,
           Accounted(segs, auto, seen),
           g.start <= o.at, g.first = o.at, ToSet(g.members) = {o}
    PROVE  Accounted(Append(segs, g), auto, seen \cup {o})
<1> DEFINE Q == Append(segs, g)   n == Len(segs) + 1
<1>0. Len(segs) \in Nat /\ DOMAIN segs = 1 .. Len(segs)
  BY LenProperties
<1>2. /\ Q \in Seq(Segment)
      /\ DOMAIN Q = DOMAIN segs \cup {n}
      /\ \A k \in DOMAIN segs : Q[k] = segs[k]
      /\ Q[n] = g
  BY Appended
<1>3. /\ auto \subseteq {x.at : x \in seen}
      /\ \A k \in DOMAIN segs : SegmentOK(segs[k]) /\ ToSet(segs[k].members) \subseteq seen
      /\ InOrder(segs)
      /\ \A x \in seen : x.at \in auto \/ \E k \in DOMAIN segs : x \in ToSet(segs[k].members)
      /\ \A k \in DOMAIN segs : \A m \in ToSet(segs[k].members) : m.at \notin auto
  BY DEF Accounted
<1> HIDE DEF Q
<1>6. SegmentOK(g)
  BY DEF SegmentOK, Fact
<1>7. InOrder(Q)
  <2> SUFFICES ASSUME NEW a \in DOMAIN Q, NEW b \in DOMAIN Q, a < b,
                      NEW m \in ToSet(Q[a].members)
               PROVE  m.at < Q[b].first
    BY DEF InOrder
  <2>1. a \in DOMAIN segs
    BY <1>0, <1>2
  <2>2. CASE b \in DOMAIN segs
    BY <1>2, <1>3, <2>1, <2>2 DEF InOrder
  <2>3. CASE b = n
    BY <1>2, <1>3, <2>1, <2>3
  <2> QED
    BY <1>2, <2>2, <2>3
<1>9. o.at \notin auto
  <2>1. \A x \in seen : x.at # o.at
    BY DEF Fact
  <2> QED
    BY <1>3, <2>1
<1> QED
  <2>1. \A x \in seen \cup {o} : x.at \in auto \/ \E k \in DOMAIN Q : x \in ToSet(Q[k].members)
    BY <1>2, <1>3
  <2>2. \A k \in DOMAIN Q : \A m \in ToSet(Q[k].members) : m.at \notin auto
    BY <1>2, <1>3, <1>9
  <2>3. \A k \in DOMAIN Q : SegmentOK(Q[k]) /\ ToSet(Q[k].members) \subseteq seen \cup {o}
    BY <1>2, <1>3, <1>6
  <2>4. auto \subseteq {x.at : x \in seen \cup {o}}
    BY <1>3
  <2> QED
    BY <1>2, <1>7, <2>1, <2>2, <2>3, <2>4 DEF Accounted, Q

\* What comes next is excluded.
LEMMA NextExcluded ==
    ASSUME NEW segs, NEW auto, NEW seen, seen \subseteq Fact, NEW next, next \subseteq Fact,
           \A x \in seen : \A y \in next : x.at < y.at,
           Accounted(segs, auto, seen)
    PROVE  Accounted(segs, auto \cup {y.at : y \in next}, seen \cup next)
<1>1. \A x \in seen : \A y \in next : x.at # y.at
  BY DEF Fact
<1>2. \A k \in DOMAIN segs : ToSet(segs[k].members) \subseteq seen
  BY DEF Accounted
<1>3. \A k \in DOMAIN segs : \A m \in ToSet(segs[k].members) :
          m.at \notin auto \cup {y.at : y \in next}
  BY <1>1, <1>2 DEF Accounted
<1> QED
  BY <1>3 DEF Accounted

\* The last segment is given up: its observations are excluded.
LEMMA SegmentGivenUp ==
    ASSUME NEW segs \in Seq(Segment), NEW cur \in Segment, NEW auto, NEW seen,
           seen \subseteq Fact,
           Accounted(Append(segs, cur), auto, seen)
    PROVE  Accounted(segs, auto \cup {m.at : m \in ToSet(cur.members)}, seen)
<1> DEFINE P == Append(segs, cur)   n == Len(segs) + 1
<1>0. Len(segs) \in Nat /\ DOMAIN segs = 1 .. Len(segs)
  BY LenProperties
<1>1. /\ DOMAIN P = DOMAIN segs \cup {n}
      /\ \A k \in DOMAIN segs : P[k] = segs[k]
      /\ P[n] = cur
  BY Appended
<1>3. /\ auto \subseteq {x.at : x \in seen}
      /\ \A k \in DOMAIN P : SegmentOK(P[k]) /\ ToSet(P[k].members) \subseteq seen
      /\ InOrder(P)
      /\ \A x \in seen : x.at \in auto \/ \E k \in DOMAIN P : x \in ToSet(P[k].members)
      /\ \A k \in DOMAIN P : \A m \in ToSet(P[k].members) : m.at \notin auto
  BY DEF Accounted
<1> HIDE DEF P
<1>4. SegmentOK(cur) /\ ToSet(cur.members) \subseteq seen
  BY <1>1, <1>3
<1>5. \A k \in DOMAIN segs : k < n
  BY <1>0
<1>6. ASSUME NEW k \in DOMAIN segs, NEW m \in ToSet(segs[k].members),
             NEW x \in ToSet(cur.members)
      PROVE  m.at # x.at
  <2>1. m.at < cur.first
    BY <1>1, <1>3, <1>5, <1>6 DEF InOrder
  <2>2. cur.first <= x.at
    BY <1>4 DEF SegmentOK
  <2>3. m \in Fact /\ x \in Fact
    BY <1>1, <1>3, <1>4, <1>6
  <2>4. m.at \in Nat /\ x.at \in Nat /\ cur.first \in Nat
    BY <2>3 DEF Fact, Segment
  <2> QED
    BY <2>1, <2>2, <2>4
<1> QED
  <2>1. InOrder(segs)
    BY <1>1, <1>3 DEF InOrder
  <2>2. \A k \in DOMAIN segs : \A m \in ToSet(segs[k].members) :
            m.at \notin auto \cup {x.at : x \in ToSet(cur.members)}
    BY <1>1, <1>3, <1>6
  <2>3. \A x \in seen : \/ x.at \in auto \cup {m.at : m \in ToSet(cur.members)}
                        \/ \E k \in DOMAIN segs : x \in ToSet(segs[k].members)
    BY <1>1, <1>3
  <2>4. auto \cup {m.at : m \in ToSet(cur.members)} \subseteq {x.at : x \in seen}
    BY <1>3, <1>4
  <2>5. \A k \in DOMAIN segs : SegmentOK(segs[k]) /\ ToSet(segs[k].members) \subseteq seen
    BY <1>1, <1>3
  <2> QED
    BY <2>1, <2>2, <2>3, <2>4, <2>5 DEF Accounted

-----------------------------------------------------------------------------
(* The loop of infer_segments *)

Seen(list, n) == {list[k] : k \in 1 .. n}

\* No window is reported before it has begun.
Begun(list) == \A k \in DOMAIN list : OfficialStart(list[k]) <= list[k].at

WalkState == [i : Nat, segs : Seq(Segment), cur : Segment \cup {NoSegment}, until : Nat,
              auto : SUBSET Nat]

\* What has been passed is accounted for.  A manual interval is active only while
\* a segment is open, so "its start is missing" is never raised.
WalkOK(w, list) ==
    /\ w \in WalkState
    /\ w.i \in 1 .. Len(list) + 1
    /\ w.cur = NoSegment => w.segs = <<>> /\ w.until = 0
    /\ Accounted(CloseCurrent(w), w.auto, Seen(list, w.i - 1))

\* The segments of manual starts, and that a step keeps them with all they hold.
ManualOf(segs) == {g \in ToSet(segs) : g.reason = "manual_override"}
Survive(w, n) ==
    \A g \in ManualOf(CloseCurrent(w)) : \E h \in ManualOf(CloseCurrent(n)) :
        h.start = g.start /\ ToSet(g.members) \subseteq ToSet(h.members)

LEMMA NoSegmentIsNone == NoSegment \notin Segment
<1> SUFFICES ASSUME NoSegment \in Segment PROVE FALSE
  OBVIOUS
<1>1. NoSegment.reason \in Reasons /\ NoSegment.reason = "none"
  BY DEF NoSegment, Segment
<1> QED
  BY <1>1 DEF Reasons

LEMMA SeenNext ==
    ASSUME NEW list \in Seq(Fact), Ascending(list),
           NEW i \in 1 .. Len(list), NEW k \in i + 1 .. Len(list) + 1
    PROVE  /\ list[i] \in Fact
           /\ Seen(list, i - 1) \subseteq Fact
           /\ {list[j] : j \in i .. k - 1} \subseteq Fact
           /\ \A x \in Seen(list, i - 1) : \A y \in {list[j] : j \in i .. k - 1} : x.at < y.at
           /\ \A x \in Seen(list, i - 1) : x.at < list[i].at
           /\ Seen(list, i) = Seen(list, i - 1) \cup {list[i]}
           /\ Seen(list, k - 1) = Seen(list, i - 1) \cup {list[j] : j \in i .. k - 1}
<1>1. /\ Len(list) \in Nat /\ DOMAIN list = 1 .. Len(list)
      /\ \A j \in 1 .. Len(list) : list[j] \in Fact
  BY LenProperties, ElementOfSeq
<1>2. /\ 1 .. i - 1 \subseteq 1 .. Len(list) /\ i .. k - 1 \subseteq 1 .. Len(list)
      /\ \A a \in 1 .. i - 1, b \in i .. k - 1 : a < b
      /\ \A a \in 1 .. i - 1 : a < i
  BY <1>1
<1>3. 1 .. i = (1 .. i - 1) \cup {i} /\ 1 .. k - 1 = (1 .. i - 1) \cup (i .. k - 1)
  BY <1>1
<1>4. \A a \in 1 .. i - 1, b \in i .. k - 1 : list[a].at < list[b].at
  BY <1>1, <1>2 DEF Ascending
<1>5. \A a \in 1 .. i - 1 : list[a].at < list[i].at
  BY <1>1, <1>2 DEF Ascending
<1> QED
  BY <1>1, <1>2, <1>3, <1>4, <1>5 DEF Seen

LEMMA ContinueKeeps ==
    ASSUME NEW list \in Seq(Fact), Ascending(list), NEW w, WalkOK(w, list),
           w.i <= Len(list), w.cur # NoSegment, NEW g \in Segment,
           g.start = w.cur.start, g.first = w.cur.first,
           g.members = Append(w.cur.members, list[w.i])
    PROVE  LET n == Continue(w, g)
           IN /\ WalkOK(n, list) /\ n.i = w.i + 1
              /\ n.cur = g /\ n.until = w.until /\ CloseCurrent(n) = Append(w.segs, g)
              /\ w.segs \in Seq(Segment) /\ CloseCurrent(w) = Append(w.segs, w.cur)
<1> DEFINE c == Continue(w, g)   o == list[w.i]
<1>0. Len(list) \in Nat
  BY LenProperties
<1>1. /\ w \in WalkState /\ w.i \in 1 .. Len(list) /\ w.i + 1 \in w.i + 1 .. Len(list) + 1
      /\ w.cur \in Segment /\ w.segs \in Seq(Segment) /\ w.i \in Nat
  BY <1>0 DEF WalkOK, WalkState
<1>2. Accounted(Append(w.segs, w.cur), w.auto, Seen(list, w.i - 1))
  BY DEF WalkOK, CloseCurrent
<1>3. /\ o \in Fact /\ Seen(list, w.i - 1) \subseteq Fact
      /\ \A x \in Seen(list, w.i - 1) : x.at < o.at
      /\ Seen(list, w.i) = Seen(list, w.i - 1) \cup {o}
  BY <1>1, SeenNext
<1>4. /\ c \in WalkState /\ c.i = w.i + 1 /\ c.cur = g
      /\ c.segs = w.segs /\ c.auto = w.auto /\ c.until = w.until
  <2>1. /\ c = [w EXCEPT !.cur = g, !.i = w.i + 1]
        /\ w.i + 1 \in Nat /\ g \in Segment \cup {NoSegment}
    BY <1>1 DEF Continue
  <2> HIDE DEF c
  <2> QED
    BY <1>1, <2>1 DEF WalkState
<1>5. Accounted(Append(w.segs, g), w.auto, Seen(list, w.i))
  <2>1. g.members = Append(w.cur.members, o)
    OBVIOUS
  <2> DEFINE seen == Seen(list, w.i - 1)
  <2>2. Accounted(Append(w.segs, g), w.auto, seen \cup {o})
    <3>1. Accounted(Append(w.segs, w.cur), w.auto, seen)
      BY <1>2
    <3>2. seen \subseteq Fact /\ o \in Fact /\ (\A x \in seen : x.at < o.at)
      BY <1>3
    <3> HIDE DEF o, seen
    <3> QED
      BY <1>1, <2>1, <3>1, <3>2, SegmentGrows
  <2> QED
    BY <1>3, <2>2
<1>6. CloseCurrent(c) = Append(w.segs, g)
  BY <1>4, NoSegmentIsNone DEF CloseCurrent
<1>7. c.i - 1 = w.i /\ c.i \in 1 .. Len(list) + 1
  BY <1>0, <1>1, <1>4
<1> HIDE DEF c
<1>8. WalkOK(c, list)
  BY <1>4, <1>5, <1>6, <1>7, NoSegmentIsNone DEF WalkOK
<1>9. CloseCurrent(w) = Append(w.segs, w.cur)
  BY DEF CloseCurrent
<1> QED
  BY <1>1, <1>4, <1>6, <1>8, <1>9 DEF c

LEMMA OpenKeeps ==
    ASSUME NEW list \in Seq(Fact), Ascending(list), NEW w, WalkOK(w, list),
           w.i <= Len(list), NEW g \in Segment, NEW until \in Nat,
           g.start <= list[w.i].at, g.first = list[w.i].at, ToSet(g.members) = {list[w.i]}
    PROVE  LET n == [Open(w, g) EXCEPT !.until = until]
           IN /\ WalkOK(n, list) /\ n.i = w.i + 1 /\ n.cur = g /\ n.until = until
              /\ CloseCurrent(n) = Append(CloseCurrent(w), g) /\ Survive(w, n)
<1> DEFINE c == [Open(w, g) EXCEPT !.until = until]   o == list[w.i]   P == CloseCurrent(w)
<1>0. Len(list) \in Nat
  BY LenProperties
<1>1. /\ w \in WalkState /\ w.i \in 1 .. Len(list) /\ w.i + 1 \in w.i + 1 .. Len(list) + 1
      /\ w.i \in Nat
  BY <1>0 DEF WalkOK, WalkState
<1>2. Accounted(P, w.auto, Seen(list, w.i - 1)) /\ P \in Seq(Segment)
  BY DEF WalkOK, Accounted
<1>3. /\ o \in Fact /\ Seen(list, w.i - 1) \subseteq Fact
      /\ \A x \in Seen(list, w.i - 1) : x.at < o.at
      /\ Seen(list, w.i) = Seen(list, w.i - 1) \cup {o}
  BY <1>1, SeenNext
<1>4. c \in WalkState /\ c.i = w.i + 1 /\ c.cur = g /\ c.segs = P /\ c.auto = w.auto /\ c.until = until
  <2>1. /\ c = [w EXCEPT !.segs = P, !.cur = g, !.i = w.i + 1, !.until = until]
        /\ w.i + 1 \in Nat /\ g \in Segment \cup {NoSegment}
    BY <1>1 DEF Open, WalkState
  <2> HIDE DEF c, P
  <2> QED
    BY <1>1, <1>2, <2>1 DEF WalkState
<1>5. Accounted(Append(P, g), w.auto, Seen(list, w.i))
  <2> HIDE DEF o, P
  <2> QED
    BY <1>1, <1>2, <1>3, SegmentOpens DEF o
<1>6. CloseCurrent(c) = Append(P, g)
  <2> HIDE DEF c, P
  <2> QED
    BY <1>4, NoSegmentIsNone DEF CloseCurrent
<1>7. c.i - 1 = w.i /\ c.i \in 1 .. Len(list) + 1
  BY <1>0, <1>1, <1>4
<1>9. Survive(w, c)
  <2>1. ToSet(Append(P, g)) = ToSet(P) \cup {g}
    <3> HIDE DEF P
    <3> QED
      BY <1>2, Appended
  <2> HIDE DEF c
  <2> QED
    BY <1>6, <2>1 DEF Survive, ManualOf
<1> HIDE DEF c, P
<1>8. WalkOK(c, list)
  BY <1>4, <1>5, <1>6, <1>7, NoSegmentIsNone DEF WalkOK
<1> QED
  BY <1>4, <1>6, <1>8, <1>9 DEF c, P

LEMMA SkipKeeps ==
    ASSUME NEW list \in Seq(Fact), Ascending(list), NEW w, WalkOK(w, list),
           w.i <= Len(list), NEW k \in w.i + 1 .. Len(list) + 1
    PROVE  LET n == SkipTo(w, list, k)
           IN /\ WalkOK(n, list) /\ n.i > w.i /\ n.i = k /\ n.until = w.until
              /\ CloseCurrent(n) = CloseCurrent(w)
<1> DEFINE c == SkipTo(w, list, k)   next == {list[j] : j \in w.i .. k - 1}
<1>0. Len(list) \in Nat
  BY LenProperties
<1>1. /\ w \in WalkState /\ w.i \in 1 .. Len(list) /\ w.i \in Nat /\ k \in Nat /\ k > w.i
      /\ k \in 1 .. Len(list) + 1
  BY <1>0 DEF WalkOK, WalkState
<1>2. Accounted(CloseCurrent(w), w.auto, Seen(list, w.i - 1))
  BY DEF WalkOK
<1>3. /\ next \subseteq Fact /\ Seen(list, w.i - 1) \subseteq Fact
      /\ \A x \in Seen(list, w.i - 1) : \A y \in next : x.at < y.at
      /\ Seen(list, k - 1) = Seen(list, w.i - 1) \cup next
  BY <1>1, SeenNext
<1>4. TimesOf(list, w.i, k - 1) = {y.at : y \in next}
  BY DEF TimesOf
<1>5. {y.at : y \in next} \subseteq Nat
  BY <1>3 DEF Fact
<1> HIDE DEF next
<1>6. /\ c \in WalkState /\ c.i = k /\ c.cur = w.cur /\ c.segs = w.segs /\ c.until = w.until
      /\ c.auto = w.auto \cup {y.at : y \in next}
  BY <1>1, <1>4, <1>5 DEF SkipTo, WalkState
<1> HIDE DEF c
<1>7. CloseCurrent(c) = CloseCurrent(w)
  BY <1>6 DEF CloseCurrent
<1>8. Accounted(CloseCurrent(c), c.auto, Seen(list, k - 1))
  BY <1>2, <1>3, <1>6, <1>7, NextExcluded
<1>9. WalkOK(c, list)
  BY <1>1, <1>6, <1>8 DEF WalkOK
<1> QED
  BY <1>1, <1>6, <1>7, <1>9 DEF c

\* The candidate goes, and the segment before it goes on.
LEMMA RestoreKeeps ==
    ASSUME NEW list \in Seq(Fact), Ascending(list), NEW w, WalkOK(w, list),
           w.i <= Len(list), w.cur # NoSegment, w.segs # <<>>
    PROVE  LET n == RestorePrevious(w, list[w.i])
           IN /\ WalkOK(n, list) /\ n.i = w.i + 1 /\ n.until = w.until
              /\ w.cur.reason # "manual_override" => Survive(w, n)
<1> DEFINE o == list[w.i]   gone == {m.at : m \in ToSet(w.cur.members)}
           v == [w EXCEPT !.auto = @ \cup gone, !.cur = Last(w.segs), !.segs = Front(@)]
           g == Join(Last(w.segs), o)
<1>0. Len(list) \in Nat
  BY LenProperties
<1>1. /\ w \in WalkState /\ w.i \in 1 .. Len(list) /\ w.i + 1 \in w.i + 1 .. Len(list) + 1
      /\ w.cur \in Segment /\ w.segs \in Seq(Segment) /\ w.i \in Nat
  BY <1>0 DEF WalkOK, WalkState
<1>2. /\ Front(w.segs) \in Seq(Segment) /\ Last(w.segs) \in Segment
      /\ w.segs = Append(Front(w.segs), Last(w.segs))
  <2> DEFINE s == w.segs   n == Len(s)
  <2>1. n \in Nat /\ n # 0 /\ (\A k \in 1 .. n : s[k] \in Segment)
    BY <1>1, EmptySeq, LenProperties, ElementOfSeq
  <2>2. /\ Front(s) \in Seq(Segment) /\ Len(Front(s)) = n - 1
        /\ \A k \in 1 .. n - 1 : Front(s)[k] = s[k]
    <3> HIDE DEF s, n
    <3>1. \A k \in 1 .. n - 1 : s[k] \in Segment
      BY <2>1
    <3>2. /\ SubSeq(s, 1, n - 1) \in Seq(Segment)
          /\ Len(SubSeq(s, 1, n - 1)) = IF 1 <= n - 1 THEN (n - 1) - 1 + 1 ELSE 0
          /\ \A k \in 1 .. (n - 1) - 1 + 1 : SubSeq(s, 1, n - 1)[k] = s[1 + k - 1]
      BY <2>1, <3>1, SubSeqProperties
    <3>3. Front(s) = SubSeq(s, 1, n - 1)
      BY DEF Front, n
    <3>4. (n - 1) - 1 + 1 = n - 1 /\ (\A k \in 1 .. n - 1 : 1 + k - 1 = k)
      BY <2>1
    <3>5. Len(Front(s)) = n - 1
      BY <2>1, <3>2, <3>3
    <3> QED
      BY <3>2, <3>3, <3>4, <3>5
  <2>3. Last(s) = s[n] /\ s[n] \in Segment
    BY <2>1 DEF Last
  <2> HIDE DEF s
  <2>4. /\ Append(Front(s), Last(s)) \in Seq(Segment)
        /\ Len(Append(Front(s), Last(s))) = n
        /\ \A k \in 1 .. n : Append(Front(s), Last(s))[k] = s[k]
    <3>1. /\ Append(Front(s), Last(s)) \in Seq(Segment)
          /\ Len(Append(Front(s), Last(s))) = Len(Front(s)) + 1
          /\ \A k \in 1 .. Len(Front(s)) : Append(Front(s), Last(s))[k] = Front(s)[k]
          /\ Append(Front(s), Last(s))[Len(Front(s)) + 1] = Last(s)
      BY <2>2, <2>3, AppendProperties
    <3>2. (n - 1) + 1 = n /\ (\A k \in 1 .. n : k = n \/ k \in 1 .. n - 1)
      BY <2>1
    <3> QED
      BY <2>2, <2>3, <3>1, <3>2
  <2>5. s = Append(Front(s), Last(s))
    <3>1. s \in Seq(Segment)
      BY <1>1 DEF s
    <3> HIDE DEF n
    <3> QED
      BY <2>4, <3>1, SeqEqual DEF n
  <2> QED
    BY <2>2, <2>3, <2>5 DEF s
<1>3. Accounted(Append(w.segs, w.cur), w.auto, Seen(list, w.i - 1))
  BY DEF WalkOK, CloseCurrent
<1>4. Seen(list, w.i - 1) \subseteq Fact /\ o \in Fact
  BY <1>1, SeenNext
<1>5. Accounted(w.segs, w.auto \cup gone, Seen(list, w.i - 1))
  <2> QED
    BY <1>1, <1>3, <1>4, SegmentGivenUp
<1>6. gone \subseteq Nat
  <2>1. w.cur.members \in Seq(Fact)
    BY <1>1 DEF Segment
  <2>2. ToSet(w.cur.members) \subseteq Fact
    BY <2>1, LenProperties, ElementOfSeq DEF ToSet
  <2> QED
    BY <2>2 DEF Fact
<1> HIDE DEF gone
<1>7. /\ v \in WalkState /\ v.i = w.i /\ v.cur = Last(w.segs) /\ v.segs = Front(w.segs)
      /\ v.auto = w.auto \cup gone /\ v.until = w.until
  BY <1>1, <1>2, <1>6 DEF WalkState
<1> HIDE DEF v
<1>8. CloseCurrent(v) = w.segs
  BY <1>2, <1>7, NoSegmentIsNone DEF CloseCurrent
<1>9. WalkOK(v, list) /\ v.cur # NoSegment
  BY <1>1, <1>2, <1>5, <1>7, <1>8, NoSegmentIsNone DEF WalkOK
<1>10. /\ g \in Segment /\ g.start = v.cur.start /\ g.first = v.cur.first
       /\ g.members = Append(v.cur.members, o)
  <2>1. Last(w.segs).members \in Seq(Fact)
    BY <1>2 DEF Segment
  <2>2. Append(Last(w.segs).members, o) \in Seq(Fact)
    BY <1>4, <2>1, AppendProperties
  <2> QED
    BY <1>2, <1>7, <2>2 DEF Join, Segment
<1>11. RestorePrevious(w, o) = Continue(v, g)
  BY <1>1 DEF RestorePrevious, Continue, v, gone, WalkState
<1>12. /\ WalkOK(Continue(v, g), list) /\ Continue(v, g).i = w.i + 1
       /\ Continue(v, g).until = w.until
       /\ CloseCurrent(Continue(v, g)) = Append(Front(w.segs), g)
  <2> DEFINE n == Continue(v, g)
  <2> HIDE DEF g
  <2>1. v.i <= Len(list) /\ list[v.i] = o
    BY <1>7
  <2>2. g \in Segment /\ g.start = v.cur.start /\ g.first = v.cur.first
    BY <1>10
  <2>3. g.members = Append(v.cur.members, list[v.i])
    BY <1>10, <2>1
  <2> HIDE DEF o
  <2>4. WalkOK(v, list) /\ v.cur # NoSegment /\ v.i <= Len(list)
    BY <1>9, <2>1
  <2>5. /\ WalkOK(n, list) /\ n.i = v.i + 1 /\ n.until = v.until
        /\ CloseCurrent(n) = Append(v.segs, g)
    BY <2>2, <2>3, <2>4, ContinueKeeps
  <2> HIDE DEF n
  <2>6. /\ WalkOK(n, list) /\ n.i = w.i + 1 /\ n.until = w.until
        /\ CloseCurrent(n) = Append(Front(w.segs), g)
    BY <1>7, <2>5
  <2> QED
    BY <2>6 DEF n
<1>13. ASSUME w.cur.reason # "manual_override" PROVE Survive(w, Continue(v, g))
  <2>1. /\ ToSet(Append(w.segs, w.cur)) = ToSet(w.segs) \cup {w.cur}
        /\ ToSet(w.segs) = ToSet(Front(w.segs)) \cup {Last(w.segs)}
        /\ ToSet(Append(Front(w.segs), g)) = ToSet(Front(w.segs)) \cup {g}
    <3> DEFINE before == Front(w.segs)   last == Last(w.segs)
    <3>1. before \in Seq(Segment) /\ last \in Segment /\ w.segs = Append(before, last)
      BY <1>2
    <3>2. g \in Segment
      BY <1>10
    <3> HIDE DEF g, before, last
    <3>3. ToSet(Append(w.segs, w.cur)) = ToSet(w.segs) \cup {w.cur}
      BY <1>1, Appended
    <3>4. ToSet(Append(before, last)) = ToSet(before) \cup {last}
      BY <3>1, Appended
    <3>5. ToSet(Append(before, g)) = ToSet(before) \cup {g}
      BY <3>1, <3>2, Appended
    <3> QED
      BY <3>1, <3>3, <3>4, <3>5 DEF before, last
  <2>2. CloseCurrent(w) = Append(w.segs, w.cur)
    BY DEF CloseCurrent
  <2>3. ManualOf(CloseCurrent(w)) \subseteq ToSet(Front(w.segs)) \cup {Last(w.segs)}
    BY <1>13, <2>1, <2>2 DEF ManualOf
  <2>4. /\ g.reason = Last(w.segs).reason /\ g.start = Last(w.segs).start
        /\ ToSet(g.members) = ToSet(Last(w.segs).members) \cup {o}
    <3>1. g.reason = Last(w.segs).reason /\ g.start = Last(w.segs).start
      BY <1>2 DEF Join, Segment
    <3>2. g.members = Append(Last(w.segs).members, o) /\ Last(w.segs).members \in Seq(Fact)
      BY <1>2, <1>7, <1>10 DEF Segment
    <3> HIDE DEF g
    <3> QED
      BY <1>4, <3>1, <3>2, Appended
  <2> HIDE DEF g
  <2>5. ToSet(CloseCurrent(Continue(v, g))) = ToSet(Front(w.segs)) \cup {g}
    BY <1>12, <2>1
  <2> QED
    BY <2>3, <2>4, <2>5 DEF Survive, ManualOf
<1> QED
  BY <1>11, <1>12, <1>13

LEMMA ObservedBaselineOK ==
    ASSUME NEW o \in Fact, NEW reason \in Reasons
    PROVE  LET g == ObservedBaseline(o, reason)
           IN g \in Segment /\ g.start <= o.at /\ g.first = o.at /\ ToSet(g.members) = {o}
<1> DEFINE g == ObservedBaseline(o, reason)
<1>1. <<o>> \in Seq(Fact) /\ ToSet(<<o>>) = {o}
  BY DEF ToSet
<1>2. o.at \in Nat /\ o.at \in Int /\ o.resets \in Nat /\ o.at <= o.at
  BY DEF Fact
<1> QED
  BY <1>1, <1>2 DEF ObservedBaseline, Segment

LEMMA OfficialSegmentOK ==
    ASSUME NEW o \in Fact, OfficialStart(o) <= o.at
    PROVE  LET g == OfficialSegment(o)
           IN g \in Segment /\ g.start <= o.at /\ g.first = o.at /\ ToSet(g.members) = {o}
<1>1. CASE o.used = 0
  <2>1. "official_zero_observation" \in Reasons
    BY DEF Reasons
  <2> QED
    BY <1>1, <2>1, ObservedBaselineOK DEF OfficialSegment
<1>2. CASE o.used # 0
  <2> DEFINE g == OfficialSegment(o)
  <2>1. <<o>> \in Seq(Fact) /\ ToSet(<<o>>) = {o}
    BY DEF ToSet
  <2>2. /\ o.at \in Nat /\ o.resets \in Nat /\ OfficialStart(o) \in Int
        /\ "official_window" \in Reasons
    BY WindowAssumption DEF Fact, OfficialStart, Reasons
  <2>3. g = [reason |-> "official_window", start |-> OfficialStart(o),
             first |-> o.at, resets |-> o.resets, members |-> <<o>>]
    BY <1>2 DEF OfficialSegment
  <2> HIDE DEF g
  <2>4. g \in Segment
    BY <2>1, <2>2, <2>3 DEF Segment
  <2> QED
    BY <2>1, <2>3, <2>4 DEF g
<1> QED
  BY <1>1, <1>2

\* A segment joined by an observation, with its reset or without it.
LEMMA JoinOK ==
    ASSUME NEW g \in Segment, NEW o \in Fact, NEW j \in {Join(g, o), JoinMovingReset(g, o)}
    PROVE  /\ j \in Segment /\ j.start = g.start /\ j.first = g.first
           /\ j.members = Append(g.members, o) /\ j.reason = g.reason
<1>1. Append(g.members, o) \in Seq(Fact)
  BY AppendProperties DEF Segment
<1>2. Join(g, o) = [g EXCEPT !.members = Append(g.members, o)]
  BY DEF Join, Segment
<1>3. /\ Join(g, o) \in Segment /\ Join(g, o).start = g.start /\ Join(g, o).first = g.first
      /\ Join(g, o).members = Append(g.members, o) /\ Join(g, o).reason = g.reason
  BY <1>1, <1>2 DEF Segment
<1>4. o.resets \in Nat
  BY DEF Fact
<1> QED
  BY <1>3, <1>4 DEF JoinMovingReset, Segment

\* The indexes where a scan may stop.
LEMMA ScanStops ==
    ASSUME NEW list \in Seq(Fact), NEW n \in Nat, NEW stops, stops \subseteq n .. Len(list),
           n <= Len(list) + 1
    PROVE  /\ ScanTo(list, stops) \in stops \cup {Len(list) + 1}
           /\ ScanTo(list, stops) \in n .. Len(list) + 1
           /\ \A j \in stops : ScanTo(list, stops) <= j
<1> DEFINE T == stops \cup {Len(list) + 1}
<1>1. Len(list) \in Nat /\ T \subseteq Nat /\ T # {} /\ T \subseteq n .. Len(list) + 1
  <2>1. Len(list) \in Nat
    BY LenProperties
  <2>2. n .. Len(list) \subseteq n .. Len(list) + 1 /\ Len(list) + 1 \in n .. Len(list) + 1
    BY <2>1
  <2>3. n .. Len(list) + 1 \subseteq Nat
    BY <2>1
  <2> QED
    BY <2>1, <2>2, <2>3
<1>2. \E x \in T : \A y \in T : x <= y
  <2> HIDE DEF T
  <2> QED
    BY <1>1, LeastNumber
<1>3. Min(T) \in T /\ \A y \in T : Min(T) <= y
  BY <1>2 DEF Min
<1> QED
  BY <1>1, <1>3 DEF ScanTo

Passed(w, n, list) == WalkOK(n, list) /\ n.i > w.i

\* Nothing that begins or ends a manual interval was passed.
PassedUnmarked(w, n, list) ==
    /\ Passed(w, n, list) /\ Survive(w, n) /\ n.until = w.until
    /\ \A j \in w.i .. n.i - 1 : list[j].manual = 0

LEMMA GrownSurvives ==
    ASSUME NEW w, NEW n, NEW segs \in Seq(Segment), NEW cur \in Segment, NEW g \in Segment,
           NEW o \in Fact, CloseCurrent(w) = Append(segs, cur), CloseCurrent(n) = Append(segs, g),
           g.reason = cur.reason, g.start = cur.start, g.members = Append(cur.members, o)
    PROVE  Survive(w, n)
<1>1. /\ ToSet(Append(segs, cur)) = ToSet(segs) \cup {cur}
      /\ ToSet(Append(segs, g)) = ToSet(segs) \cup {g}
  BY Appended
<1>2. ToSet(g.members) = ToSet(cur.members) \cup {o}
  BY Appended DEF Segment
<1> QED
  BY <1>1, <1>2 DEF Survive, ManualOf

LEMMA WhileUnusedKeeps ==
    ASSUME NEW list \in Seq(Fact), Ascending(list), NEW w, WalkOK(w, list), w.i <= Len(list),
           w.cur # NoSegment, list[w.i].manual = 0
    PROVE  PassedUnmarked(w, WhileUnused(w, list), list)
<1> DEFINE o == list[w.i]   k == CandidateConfirmedAt(w, list)
           stops == {j \in w.i .. Len(list) :
                       list[j].manual # 0 \/ SameReset(list[j].resets, w.cur.resets)}
<1>0. Len(list) \in Nat /\ w.i \in 1 .. Len(list) /\ o \in Fact /\ w.cur \in Segment
  BY LenProperties, ElementOfSeq DEF WalkOK, WalkState
<1>1. CASE k # 0
  <2>1. /\ k = ScanTo(list, stops) /\ k <= Len(list)
        /\ ~SameReset(list[w.i].resets, w.cur.resets)
    BY <1>1 DEF CandidateConfirmedAt
  <2>2. w.i \in Nat /\ stops \subseteq w.i .. Len(list) /\ w.i <= Len(list) + 1
    BY <1>0
  <2>3. /\ ScanTo(list, stops) \in stops \cup {Len(list) + 1}
        /\ \A j \in stops : ScanTo(list, stops) <= j
    <3> HIDE DEF stops
    <3> QED
      BY <2>2, ScanStops
  <2> HIDE DEF k
  <2>4. k \in stops
    BY <1>0, <2>1, <2>3
  <2>5. k # w.i
    BY <2>1, <2>4
  <2>6. k \in w.i + 1 .. Len(list) + 1
    BY <1>0, <2>4, <2>5
  <2>7. WhileUnused(w, list) = SkipTo(w, list, k)
    BY <1>1 DEF WhileUnused, k
  <2>8. ASSUME NEW j \in w.i .. k - 1 PROVE list[j].manual = 0
    <3>1. j \in w.i .. Len(list) /\ ~(k <= j)
      BY <1>0, <2>6
    <3>2. j \notin stops
      BY <2>1, <2>3, <3>1
    <3> QED
      BY <3>1, <3>2
  <2> QED
    BY <2>6, <2>7, <2>8, SkipKeeps DEF Passed, PassedUnmarked, Survive
<1>2. CASE k = 0 /\ PreviousRestored(w, o)
  <2>1. WhileUnused(w, list) = RestorePrevious(w, o)
    BY <1>2 DEF WhileUnused
  <2>2. w.segs # <<>> /\ w.cur.reason # "manual_override"
    BY <1>2 DEF PreviousRestored, TentativeReasons
  <2>3. /\ WalkOK(RestorePrevious(w, o), list) /\ RestorePrevious(w, o).i = w.i + 1
        /\ RestorePrevious(w, o).until = w.until /\ Survive(w, RestorePrevious(w, o))
    BY <2>2, RestoreKeeps
  <2> QED
    BY <1>0, <2>1, <2>3 DEF Passed, PassedUnmarked
<1>3. CASE k = 0 /\ ~PreviousRestored(w, o)
  <2> DEFINE g == JoinMovingReset(w.cur, o)
  <2>1. WhileUnused(w, list) = Continue(w, g)
    BY <1>3 DEF WhileUnused
  <2>2. /\ g \in Segment /\ g.start = w.cur.start /\ g.first = w.cur.first
        /\ g.members = Append(w.cur.members, o) /\ g.reason = w.cur.reason
    BY <1>0, JoinOK
  <2> HIDE DEF g
  <2> DEFINE n == Continue(w, g)
  <2>3. /\ WalkOK(n, list) /\ n.i = w.i + 1 /\ n.until = w.until
        /\ CloseCurrent(n) = Append(w.segs, g) /\ CloseCurrent(w) = Append(w.segs, w.cur)
        /\ w.segs \in Seq(Segment)
    BY <2>2, ContinueKeeps
  <2> HIDE DEF n
  <2>4. Survive(w, n)
    BY <1>0, <2>2, <2>3, GrownSurvives
  <2> QED
    BY <1>0, <2>1, <2>3, <2>4 DEF Passed, PassedUnmarked, n
<1> QED
  BY <1>1, <1>2, <1>3

LEMMA SkipLowRunKeeps ==
    ASSUME NEW list \in Seq(Fact), Ascending(list), NEW w, WalkOK(w, list), w.i <= Len(list),
           list[w.i].manual = 0
    PROVE  PassedUnmarked(w, SkipLowRun(w, list), list)
<1> DEFINE stops == {j \in w.i + 1 .. Len(list) :
                       \/ list[j].manual # 0
                       \/ ~SameReset(list[j].resets, w.cur.resets)
                       \/ list[j].used >= Last(w.cur.members).used}
<1>1. Len(list) \in Nat /\ w.i \in 1 .. Len(list) /\ w.i + 1 \in Nat /\ w.i + 1 <= Len(list) + 1
  BY LenProperties DEF WalkOK, WalkState
<1>2. SkipLowRun(w, list) = SkipTo(w, list, ScanTo(list, stops))
  BY DEF SkipLowRun
<1>3. stops \subseteq w.i + 1 .. Len(list)
  OBVIOUS
<1> DEFINE k == ScanTo(list, stops)
<1>4. k \in w.i + 1 .. Len(list) + 1 /\ \A j \in stops : k <= j
  <2> HIDE DEF stops
  <2> QED
    BY <1>1, <1>3, ScanStops
<1> HIDE DEF k
<1>5. ASSUME NEW j \in w.i .. k - 1 PROVE list[j].manual = 0
  <2>1. j = w.i \/ (j \in w.i + 1 .. Len(list) /\ ~(k <= j))
    BY <1>1, <1>4
  <2> QED
    BY <1>4, <2>1
<1> HIDE DEF stops
<1> QED
  BY <1>2, <1>4, <1>5, SkipKeeps DEF Passed, PassedUnmarked, Survive, k

\* Index i is in the manual interval of a row before it; it opens one otherwise.
Inside(list, i) == \E k \in 1 .. i - 1 : list[k].manual >= list[i].at
OpensInterval(list, i) == list[i].manual # 0 /\ ~Inside(list, i)

\* Of the first n observations, those in the interval of the one at i.
InInterval(list, i, n) == {list[j] : j \in {k \in i .. n : list[k].at <= list[i].manual}}

\* Of the first n observations, every manual start is in a segment of a manual
\* start, and every interval is in the one that starts with it.
IntervalsKept(segs, list, n) ==
    /\ \A i \in 1 .. n : list[i].manual # 0 =>
         \E g \in ManualOf(segs) : list[i] \in ToSet(g.members)
    /\ \A i \in 1 .. n : OpensInterval(list, i) =>
         \E g \in ManualOf(segs) : g.start = list[i].at /\ InInterval(list, i, n) \subseteq ToSet(g.members)

\* The interval of i is the active one; the open segment is its own.
ActiveInterval(w, list, i) ==
    /\ w.until = list[i].manual
    /\ w.cur.start = list[i].at
    /\ InInterval(list, i, w.i - 1) \subseteq ToSet(w.cur.members)

\* An interval that is not active was left behind.
IntervalsWalked(w, list) ==
    /\ IntervalsKept(CloseCurrent(w), list, w.i - 1)
    /\ w.until # 0 => /\ w.cur.reason = "manual_override"
                      /\ \E k \in 1 .. w.i - 1 : list[k].manual = w.until
    /\ \A i \in 1 .. w.i - 1 : OpensInterval(list, i) =>
         \/ ActiveInterval(w, list, i)
         \/ \E j \in 1 .. w.i - 1 : list[j].at > list[i].manual

\* What was passed stays in its segments when the next observation is not in the
\* active interval.
LEMMA IntervalsLeft ==
    ASSUME NEW list \in Seq(Fact), Ascending(list), NEW w, WalkOK(w, list),
           IntervalsWalked(w, list), w.i <= Len(list),
           ~(w.until # 0 /\ list[w.i].at <= w.until),
           NEW n, Passed(w, n, list), Survive(w, n), NEW i \in 1 .. w.i - 1
    PROVE  /\ list[i].manual # 0 =>
                \E g \in ManualOf(CloseCurrent(n)) : list[i] \in ToSet(g.members)
           /\ OpensInterval(list, i) =>
                /\ \E j \in 1 .. n.i - 1 : list[j].at > list[i].manual
                /\ \E g \in ManualOf(CloseCurrent(n)) :
                     g.start = list[i].at /\ InInterval(list, i, n.i - 1) \subseteq ToSet(g.members)
<1>0. /\ Len(list) \in Nat /\ DOMAIN list = 1 .. Len(list) /\ w.i \in 1 .. Len(list)
      /\ n.i \in 1 .. Len(list) + 1 /\ n.i > w.i
      /\ \A j \in 1 .. Len(list) : list[j] \in Fact /\ list[j].at \in Nat /\ list[j].manual \in Nat
  <2>1. \A j \in 1 .. Len(list) : list[j] \in Fact
    BY ElementOfSeq, LenProperties
  <2>2. Len(list) \in Nat /\ DOMAIN list = 1 .. Len(list)
    BY LenProperties
  <2>3. w.i \in 1 .. Len(list) /\ n.i \in 1 .. Len(list) + 1 /\ n.i > w.i
    BY <2>2 DEF Passed, WalkOK
  <2> QED
    BY <2>1, <2>2, <2>3 DEF Fact
<1>1. /\ IntervalsKept(CloseCurrent(w), list, w.i - 1)
      /\ OpensInterval(list, i) => ActiveInterval(w, list, i) \/ \E j \in 1 .. w.i - 1 : list[j].at > list[i].manual
  BY DEF IntervalsWalked
<1>2. ASSUME list[i].manual # 0
      PROVE  \E g \in ManualOf(CloseCurrent(n)) : list[i] \in ToSet(g.members)
  <2>1. PICK g \in ManualOf(CloseCurrent(w)) : list[i] \in ToSet(g.members)
    BY <1>1, <1>2 DEF IntervalsKept
  <2>2. PICK h \in ManualOf(CloseCurrent(n)) : ToSet(g.members) \subseteq ToSet(h.members)
    BY <2>1 DEF Survive
  <2> QED
    BY <2>1, <2>2
<1>3. ASSUME OpensInterval(list, i)
      PROVE  /\ \E j \in 1 .. n.i - 1 : list[j].at > list[i].manual
             /\ \E g \in ManualOf(CloseCurrent(n)) :
                  g.start = list[i].at /\ InInterval(list, i, n.i - 1) \subseteq ToSet(g.members)
  <2>1. list[w.i].at > list[i].manual
    <3>1. CASE ActiveInterval(w, list, i)
      <4>1. w.until = list[i].manual /\ list[i].manual # 0
        BY <1>3, <3>1 DEF ActiveInterval, OpensInterval
      <4> QED
        BY <1>0, <4>1
    <3>2. CASE \E j \in 1 .. w.i - 1 : list[j].at > list[i].manual
      <4>1. PICK j \in 1 .. w.i - 1 : list[j].at > list[i].manual
        BY <3>2
      <4>2. /\ j \in 1 .. Len(list) /\ i \in 1 .. Len(list) /\ j < w.i
            /\ j \in DOMAIN list /\ w.i \in DOMAIN list
        BY <1>0, <4>1
      <4>3. list[j].at < list[w.i].at
        BY <4>2 DEF Ascending
      <4> QED
        BY <1>0, <4>1, <4>2, <4>3
    <3> QED
      BY <1>1, <1>3, <3>1, <3>2
  <2>2. w.i \in 1 .. n.i - 1 /\ i \in 1 .. Len(list)
    BY <1>0
  <2>3. ASSUME NEW j \in i .. n.i - 1, list[j].at <= list[i].manual PROVE j \in i .. w.i - 1
    <3>1. SUFFICES ASSUME j \in w.i .. n.i - 1 PROVE FALSE
      BY <1>0
    <3>2. j \in 1 .. Len(list)
      BY <1>0, <3>1
    <3>3. j = w.i \/ list[w.i].at < list[j].at
      <4>1. j \in DOMAIN list /\ w.i \in DOMAIN list /\ (j = w.i \/ w.i < j)
        BY <1>0, <3>1, <3>2
      <4> QED
        BY <4>1 DEF Ascending
    <3> QED
      BY <1>0, <2>1, <2>2, <2>3, <3>2, <3>3
  <2>4. InInterval(list, i, n.i - 1) \subseteq InInterval(list, i, w.i - 1)
    BY <2>3 DEF InInterval
  <2>5. \E g \in ManualOf(CloseCurrent(w)) :
           g.start = list[i].at /\ InInterval(list, i, w.i - 1) \subseteq ToSet(g.members)
    BY <1>1, <1>3 DEF IntervalsKept
  <2>6. \E g \in ManualOf(CloseCurrent(n)) :
           g.start = list[i].at /\ InInterval(list, i, w.i - 1) \subseteq ToSet(g.members)
    <3>1. PICK g \in ManualOf(CloseCurrent(w)) :
             g.start = list[i].at /\ InInterval(list, i, w.i - 1) \subseteq ToSet(g.members)
      BY <2>5
    <3>2. PICK h \in ManualOf(CloseCurrent(n)) :
             h.start = g.start /\ ToSet(g.members) \subseteq ToSet(h.members)
      BY <3>1 DEF Survive
    <3> QED
      BY <3>1, <3>2
  <2> QED
    BY <2>1, <2>2, <2>4, <2>6
<1> QED
  BY <1>2, <1>3

\* Observations outside manual intervals are passed.
LEMMA IntervalsRest ==
    ASSUME NEW list \in Seq(Fact), Ascending(list), NEW w, WalkOK(w, list),
           IntervalsWalked(w, list), w.i <= Len(list),
           ~(w.until # 0 /\ list[w.i].at <= w.until),
           NEW n, Passed(w, n, list), Survive(w, n), n.until = 0,
           \A j \in w.i .. n.i - 1 : list[j].manual = 0
    PROVE  IntervalsWalked(n, list)
<1>1. /\ w.i \in Nat /\ n.i \in Nat /\ w.i >= 1
      /\ \A i \in 1 .. n.i - 1 : i \in 1 .. w.i - 1 \/ i \in w.i .. n.i - 1
  BY DEF Passed, WalkOK, WalkState
<1>2. \A i \in 1 .. n.i - 1 : list[i].manual = 0 \/ i \in 1 .. w.i - 1
  BY <1>1
<1>3. \A i \in 1 .. w.i - 1 :
        /\ list[i].manual # 0 => \E g \in ManualOf(CloseCurrent(n)) : list[i] \in ToSet(g.members)
        /\ OpensInterval(list, i) =>
             /\ \E j \in 1 .. n.i - 1 : list[j].at > list[i].manual
             /\ \E g \in ManualOf(CloseCurrent(n)) :
                  g.start = list[i].at /\ InInterval(list, i, n.i - 1) \subseteq ToSet(g.members)
  BY IntervalsLeft
<1>4. \A i \in 1 .. n.i - 1 : OpensInterval(list, i) => i \in 1 .. w.i - 1
  BY <1>2 DEF OpensInterval
<1> QED
  BY <1>2, <1>3, <1>4 DEF IntervalsWalked, IntervalsKept

\* A manual start that no interval contains opens one.
LEMMA IntervalOpens ==
    ASSUME NEW list \in Seq(Fact), Ascending(list), NEW w, WalkOK(w, list),
           IntervalsWalked(w, list), w.i <= Len(list),
           ~(w.until # 0 /\ list[w.i].at <= w.until),
           NEW n, Passed(w, n, list), Survive(w, n), n.i = w.i + 1,
           n.until = list[w.i].manual, n.cur \in ManualOf(CloseCurrent(n)),
           n.cur.start = list[w.i].at, list[w.i] \in ToSet(n.cur.members)
    PROVE  IntervalsWalked(n, list)
<1>1. /\ w.i \in Nat /\ w.i >= 1 /\ n.i - 1 = w.i
      /\ \A i \in 1 .. w.i : i \in 1 .. w.i - 1 \/ i = w.i
  BY DEF WalkOK, WalkState
<1>2. \A i \in 1 .. w.i - 1 :
        /\ list[i].manual # 0 => \E g \in ManualOf(CloseCurrent(n)) : list[i] \in ToSet(g.members)
        /\ OpensInterval(list, i) =>
             /\ \E j \in 1 .. n.i - 1 : list[j].at > list[i].manual
             /\ \E g \in ManualOf(CloseCurrent(n)) :
                  g.start = list[i].at /\ InInterval(list, i, n.i - 1) \subseteq ToSet(g.members)
  BY IntervalsLeft
<1>3. InInterval(list, w.i, w.i) \subseteq ToSet(n.cur.members)
  <2>1. \A k \in w.i .. w.i : k = w.i
    BY <1>1
  <2> QED
    BY <2>1 DEF InInterval
<1>4. ActiveInterval(n, list, w.i)
  BY <1>1, <1>3 DEF ActiveInterval
<1>5. w.i \in 1 .. w.i /\ n.cur.reason = "manual_override"
  BY <1>1 DEF ManualOf
<1>6. IntervalsKept(CloseCurrent(n), list, w.i)
  BY <1>1, <1>2, <1>3 DEF IntervalsKept
<1>7. \A i \in 1 .. w.i : OpensInterval(list, i) =>
         \/ ActiveInterval(n, list, i)
         \/ \E j \in 1 .. w.i : list[j].at > list[i].manual
  BY <1>1, <1>2, <1>4
<1> QED
  BY <1>1, <1>5, <1>6, <1>7 DEF IntervalsWalked

\* An observation in the active interval joins its segment, whatever it says.
LEMMA IntervalGoesOn ==
    ASSUME NEW list \in Seq(Fact), Ascending(list), NEW w, WalkOK(w, list),
           IntervalsWalked(w, list), w.i <= Len(list),
           w.until # 0, list[w.i].at <= w.until,
           NEW n, Passed(w, n, list), Survive(w, n), n.i = w.i + 1, n.until = w.until,
           n.cur \in ManualOf(CloseCurrent(n)), n.cur.start = w.cur.start,
           ToSet(n.cur.members) = ToSet(w.cur.members) \cup {list[w.i]}
    PROVE  IntervalsWalked(n, list)
<1> DEFINE o == list[w.i]
<1>0. /\ Len(list) \in Nat /\ DOMAIN list = 1 .. Len(list) /\ w.i \in 1 .. Len(list)
      /\ \A j \in 1 .. Len(list) : list[j].at \in Nat /\ list[j].manual \in Nat
  <2>1. \A j \in 1 .. Len(list) : list[j] \in Fact
    BY ElementOfSeq, LenProperties
  <2>2. Len(list) \in Nat /\ DOMAIN list = 1 .. Len(list)
    BY LenProperties
  <2>3. w.i \in 1 .. Len(list)
    BY <2>2 DEF WalkOK
  <2> QED
    BY <2>1, <2>2, <2>3 DEF Fact
<1>1. /\ n.i - 1 = w.i /\ w.i \in 1 .. w.i
      /\ \A i \in 1 .. w.i : i \in 1 .. w.i - 1 \/ i = w.i
      /\ 1 .. w.i - 1 \subseteq 1 .. w.i
  BY <1>0
<1>2. PICK k \in 1 .. w.i - 1 : list[k].manual = w.until
  BY DEF IntervalsWalked
<1>3. ~OpensInterval(list, w.i)
  <2>1. list[k].manual >= o.at
    BY <1>0, <1>2
  <2> QED
    BY <1>2, <2>1 DEF OpensInterval, Inside
<1>4. ASSUME NEW i \in 1 .. w.i, list[i].manual # 0
      PROVE  \E g \in ManualOf(CloseCurrent(n)) : list[i] \in ToSet(g.members)
  <2>1. CASE i = w.i
    BY <2>1
  <2>2. CASE i \in 1 .. w.i - 1
    <3>1. PICK g \in ManualOf(CloseCurrent(w)) : list[i] \in ToSet(g.members)
      BY <1>4, <2>2 DEF IntervalsWalked, IntervalsKept
    <3>2. PICK h \in ManualOf(CloseCurrent(n)) : ToSet(g.members) \subseteq ToSet(h.members)
      BY <3>1 DEF Survive
    <3> QED
      BY <3>1, <3>2
  <2> QED
    BY <1>1, <2>1, <2>2
<1>5. ASSUME NEW i \in 1 .. w.i - 1, OpensInterval(list, i)
      PROVE  /\ \/ ActiveInterval(n, list, i)
                \/ \E j \in 1 .. w.i : list[j].at > list[i].manual
             /\ \E g \in ManualOf(CloseCurrent(n)) :
                  g.start = list[i].at /\ InInterval(list, i, w.i) \subseteq ToSet(g.members)
  <2>1. CASE ActiveInterval(w, list, i)
    <3>1. InInterval(list, i, w.i) \subseteq InInterval(list, i, w.i - 1) \cup {o}
      <4>1. \A j \in i .. w.i : j \in i .. w.i - 1 \/ j = w.i
        BY <1>0
      <4> QED
        BY <4>1 DEF InInterval
    <3>2. InInterval(list, i, w.i) \subseteq ToSet(n.cur.members)
      BY <2>1, <3>1 DEF ActiveInterval
    <3> QED
      BY <1>1, <2>1, <3>2 DEF ActiveInterval
  <2>2. CASE \E j \in 1 .. w.i - 1 : list[j].at > list[i].manual
    <3>1. PICK j \in 1 .. w.i - 1 : list[j].at > list[i].manual
      BY <2>2
    <3>2. list[j].at < o.at /\ j \in 1 .. Len(list) /\ i \in 1 .. Len(list)
      <4>1. /\ j \in 1 .. Len(list) /\ i \in 1 .. Len(list) /\ j < w.i
            /\ j \in DOMAIN list /\ w.i \in DOMAIN list
        BY <1>0, <3>1
      <4>2. list[j].at < list[w.i].at
        BY <4>1 DEF Ascending
      <4> QED
        BY <4>1, <4>2
    <3>3. o.at > list[i].manual
      BY <1>0, <3>1, <3>2
    <3>4. InInterval(list, i, w.i) \subseteq InInterval(list, i, w.i - 1)
      <4>1. ASSUME NEW m \in i .. w.i, list[m].at <= list[i].manual PROVE m \in i .. w.i - 1
        <5>1. m # w.i
          BY <1>0, <3>2, <3>3, <4>1
        <5> QED
          BY <1>0, <5>1
      <4> QED
        BY <4>1 DEF InInterval
    <3>5. \E g \in ManualOf(CloseCurrent(w)) :
             g.start = list[i].at /\ InInterval(list, i, w.i - 1) \subseteq ToSet(g.members)
      BY <1>5 DEF IntervalsWalked, IntervalsKept
    <3>6. \E g \in ManualOf(CloseCurrent(n)) :
             g.start = list[i].at /\ InInterval(list, i, w.i - 1) \subseteq ToSet(g.members)
      <4>1. PICK g \in ManualOf(CloseCurrent(w)) :
               g.start = list[i].at /\ InInterval(list, i, w.i - 1) \subseteq ToSet(g.members)
        BY <3>5
      <4>2. PICK h \in ManualOf(CloseCurrent(n)) :
               h.start = g.start /\ ToSet(g.members) \subseteq ToSet(h.members)
        BY <4>1 DEF Survive
      <4> QED
        BY <4>1, <4>2
    <3> QED
      BY <1>1, <3>1, <3>4, <3>6
  <2> QED
    BY <1>5, <2>1, <2>2 DEF IntervalsWalked
<1>6. IntervalsKept(CloseCurrent(n), list, w.i)
  BY <1>1, <1>3, <1>4, <1>5 DEF IntervalsKept
<1>7. n.cur.reason = "manual_override" /\ \E j \in 1 .. w.i : list[j].manual = n.until
  BY <1>1, <1>2 DEF ManualOf
<1>8. \A i \in 1 .. w.i : OpensInterval(list, i) =>
         \/ ActiveInterval(n, list, i)
         \/ \E j \in 1 .. w.i : list[j].at > list[i].manual
  BY <1>1, <1>3, <1>5
<1> QED
  BY <1>1, <1>6, <1>7, <1>8 DEF IntervalsWalked

\* A step past one observation that neither begins nor ends a manual interval.
LEMMA OneUnmarked ==
    ASSUME NEW list, NEW v, NEW n, WalkOK(v, list), WalkOK(n, list), n.i = v.i + 1,
           n.until = v.until, Survive(v, n), list[v.i].manual = 0
    PROVE  PassedUnmarked(v, n, list)
<1>1. v.i \in Nat
  BY DEF WalkOK, WalkState
<1>2. n.i > v.i /\ (\A j \in v.i .. n.i - 1 : j = v.i)
  BY <1>1
<1> QED
  BY <1>2 DEF PassedUnmarked, Passed

LEMMA OpenPasses ==
    ASSUME NEW list \in Seq(Fact), Ascending(list), NEW v, WalkOK(v, list), v.i <= Len(list),
           list[v.i].manual = 0, NEW g \in Segment,
           g.start <= list[v.i].at, g.first = list[v.i].at, ToSet(g.members) = {list[v.i]},
           NEW m \in Nat, m = v.until, NEW n, n = [Open(v, g) EXCEPT !.until = m]
    PROVE  PassedUnmarked(v, n, list)
<1>1. WalkOK(n, list) /\ n.i = v.i + 1 /\ n.until = m /\ Survive(v, n)
  <2> DEFINE next == [Open(v, g) EXCEPT !.until = m]
  <2>1. /\ WalkOK(next, list) /\ next.i = v.i + 1 /\ next.cur = g /\ next.until = m
        /\ CloseCurrent(next) = Append(CloseCurrent(v), g) /\ Survive(v, next)
    BY OpenKeeps
  <2>2. n = next
    OBVIOUS
  <2> HIDE DEF next
  <2> QED
    BY <2>1, <2>2
<1>2. n.until = v.until
  BY <1>1
<1> QED
  BY <1>1, <1>2, OneUnmarked

LEMMA ContinuePasses ==
    ASSUME NEW list \in Seq(Fact), Ascending(list), NEW v, WalkOK(v, list), v.i <= Len(list),
           list[v.i].manual = 0, v.cur # NoSegment, v.cur \in Segment, NEW g \in Segment,
           g.start = v.cur.start, g.first = v.cur.first, g.reason = v.cur.reason,
           g.members = Append(v.cur.members, list[v.i]), NEW n, n = Continue(v, g)
    PROVE  PassedUnmarked(v, n, list)
<1>1. /\ WalkOK(n, list) /\ n.i = v.i + 1 /\ n.until = v.until
      /\ CloseCurrent(n) = Append(v.segs, g)
      /\ v.segs \in Seq(Segment) /\ CloseCurrent(v) = Append(v.segs, v.cur)
  BY ContinueKeeps
<1>2. list[v.i] \in Fact
  <2>1. v.i \in 1 .. Len(list)
    BY LenProperties DEF WalkOK
  <2> QED
    BY <2>1, ElementOfSeq
<1>3. Survive(v, n)
  BY <1>1, <1>2, GrownSurvives
<1> QED
  BY <1>1, <1>3, OneUnmarked

\* Every iteration keeps the account and passes an observation at least.
LEMMA IterateKeeps ==
    ASSUME NEW list \in Seq(Fact), Ascending(list), Begun(list), NEW baselines,
           NEW w, WalkOK(w, list), IntervalsWalked(w, list), w.i <= Len(list)
    PROVE  LET n == Iterate(w, list, baselines)
           IN Passed(w, n, list) /\ IntervalsWalked(n, list)
<1> DEFINE o == list[w.i]   v == [w EXCEPT !.until = 0]   next == Iterate(w, list, baselines)
           inManual == w.until # 0 /\ o.at <= w.until
<1>0. /\ Len(list) \in Nat /\ w.i \in 1 .. Len(list) /\ o \in Fact /\ w \in WalkState
      /\ OfficialStart(o) <= o.at
  BY LenProperties, ElementOfSeq DEF WalkOK, Begun
<1>1. CASE inManual
  <2> DEFINE g == JoinMovingReset(w.cur, o)
  <2>1. next = Continue(w, g)
    BY <1>1 DEF Iterate
  <2>2. w.cur # NoSegment /\ w.cur \in Segment
    BY <1>1 DEF WalkOK, WalkState
  <2>3. /\ g \in Segment /\ g.start = w.cur.start /\ g.first = w.cur.first
        /\ g.members = Append(w.cur.members, o) /\ g.reason = w.cur.reason
    BY <1>0, <2>2, JoinOK
  <2> HIDE DEF g
  <2>4. /\ WalkOK(Continue(w, g), list) /\ Continue(w, g).i = w.i + 1
        /\ Continue(w, g).cur = g /\ Continue(w, g).until = w.until
        /\ CloseCurrent(Continue(w, g)) = Append(w.segs, g)
        /\ w.segs \in Seq(Segment) /\ CloseCurrent(w) = Append(w.segs, w.cur)
    BY <2>2, <2>3, ContinueKeeps
  <2> HIDE DEF next
  <2>5. /\ Passed(w, next, list) /\ next.cur = g /\ next.until = w.until /\ next.i = w.i + 1
        /\ CloseCurrent(next) = Append(w.segs, g)
    BY <1>0, <2>1, <2>4 DEF Passed
  <2>6. Survive(w, next)
    BY <1>0, <2>2, <2>3, <2>4, <2>5, GrownSurvives
  <2>7. ToSet(g.members) = ToSet(w.cur.members) \cup {o}
    BY <1>0, <2>2, <2>3, Appended DEF Segment
  <2>8. next.cur \in ManualOf(CloseCurrent(next))
    <3>1. ToSet(Append(w.segs, g)) = ToSet(w.segs) \cup {g}
      BY <2>3, <2>4, Appended
    <3>2. g.reason = "manual_override"
      BY <1>1, <2>3 DEF IntervalsWalked
    <3> QED
      BY <2>5, <3>1, <3>2 DEF ManualOf
  <2>9. IntervalsWalked(next, list)
    BY <1>1, <2>3, <2>5, <2>6, <2>7, <2>8, IntervalGoesOn
  <2> QED
    BY <2>5, <2>9 DEF next
<1>2. CASE ~inManual /\ o.manual # 0
  <2> DEFINE g == ManualSegment(o)
  <2>1. next = [Open(w, g) EXCEPT !.until = o.manual]
    BY <1>2 DEF Iterate
  <2>2. /\ g \in Segment /\ g.start <= o.at /\ g.first = o.at /\ ToSet(g.members) = {o}
        /\ g.reason = "manual_override" /\ g.start = o.at
    BY <1>0, ObservedBaselineOK DEF ManualSegment, Reasons, ObservedBaseline
  <2>3. o.manual \in Nat
    BY <1>0 DEF Fact
  <2> HIDE DEF g
  <2> HIDE DEF next
  <2>4. /\ WalkOK(next, list) /\ next.i = w.i + 1 /\ next.cur = g /\ next.until = o.manual
        /\ CloseCurrent(next) = Append(CloseCurrent(w), g) /\ Survive(w, next)
    <3> DEFINE m == o.manual
    <3>1. /\ g \in Segment /\ g.start <= list[w.i].at /\ g.first = list[w.i].at
          /\ ToSet(g.members) = {list[w.i]} /\ m \in Nat
      BY <2>2, <2>3
    <3>2. next = [Open(w, g) EXCEPT !.until = m]
      BY <2>1
    <3> HIDE DEF m, o
    <3>3. /\ WalkOK(next, list) /\ next.i = w.i + 1 /\ next.cur = g /\ next.until = m
          /\ CloseCurrent(next) = Append(CloseCurrent(w), g) /\ Survive(w, next)
      BY <3>1, <3>2, OpenKeeps
    <3> QED
      BY <3>3 DEF m
  <2>5. Passed(w, next, list)
    BY <1>0, <2>4 DEF Passed
  <2>6. next.cur \in ManualOf(CloseCurrent(next))
    <3>1. CloseCurrent(w) \in Seq(Segment)
      BY DEF WalkOK, Accounted
    <3>2. ToSet(Append(CloseCurrent(w), g)) = ToSet(CloseCurrent(w)) \cup {g}
      BY <2>2, <3>1, Appended
    <3> QED
      BY <2>2, <2>4, <3>2 DEF ManualOf
  <2>7. IntervalsWalked(next, list)
    BY <1>2, <2>2, <2>4, <2>5, <2>6, IntervalOpens
  <2> QED
    BY <2>5, <2>7 DEF next
<1>3. CASE ~inManual /\ o.manual = 0
  <2>1. v \in WalkState /\ v.i = w.i /\ v.cur = w.cur /\ v.segs = w.segs /\ v.auto = w.auto
    BY <1>0 DEF WalkState
  <2>2. v.until = 0 /\ (\A g : Open(v, g) = [Open(v, g) EXCEPT !.until = 0])
    BY <1>0 DEF WalkState, Open
  <2>3. next = IF o.at \in baselines THEN Open(v, CollectionSegment(o))
               ELSE IF v.cur # NoSegment /\ WaitingForFirstUse(v.cur) THEN WhileUnused(v, list)
               ELSE IF v.cur = NoSegment \/ ResetAdvanced(o.resets, v.cur.resets)
                 THEN Open(v, OfficialSegment(o))
               ELSE IF o.used >= Last(v.cur.members).used THEN Continue(v, Join(v.cur, o))
               ELSE SkipLowRun(v, list)
    BY <1>3 DEF Iterate
  <2> HIDE DEF v, next
  <2>4. CloseCurrent(v) = CloseCurrent(w)
    BY <2>1 DEF CloseCurrent
  <2>5. WalkOK(v, list) /\ v.i <= Len(list) /\ list[v.i] = o /\ list[v.i].manual = 0
    BY <1>3, <2>1, <2>2, <2>4 DEF WalkOK
  <2>6. ASSUME o.at \in baselines
        PROVE  PassedUnmarked(v, next, list)
    <3> DEFINE g == CollectionSegment(o)
    <3>1. g \in Segment /\ g.start <= o.at /\ g.first = o.at /\ ToSet(g.members) = {o}
      BY <1>0, ObservedBaselineOK DEF CollectionSegment, Reasons
    <3> HIDE DEF g
    <3>2. next = [Open(v, g) EXCEPT !.until = 0]
      BY <2>2, <2>3, <2>6 DEF g
    <3>3. g.start <= list[v.i].at /\ g.first = list[v.i].at /\ ToSet(g.members) = {list[v.i]}
      BY <2>5, <3>1
    <3> QED
      BY <2>2, <2>5, <3>1, <3>2, <3>3, OpenPasses, 0 \in Nat
  <2>7. ASSUME o.at \notin baselines /\ v.cur # NoSegment /\ WaitingForFirstUse(v.cur)
        PROVE  PassedUnmarked(v, next, list)
    <3>1. next = WhileUnused(v, list)
      BY <2>3, <2>7
    <3> QED
      BY <1>3, <2>1, <2>5, <2>7, <3>1, WhileUnusedKeeps
  <2>8. ASSUME /\ o.at \notin baselines /\ ~(v.cur # NoSegment /\ WaitingForFirstUse(v.cur))
               /\ v.cur = NoSegment \/ ResetAdvanced(o.resets, v.cur.resets)
        PROVE  PassedUnmarked(v, next, list)
    <3> DEFINE g == OfficialSegment(o)
    <3>1. g \in Segment /\ g.start <= o.at /\ g.first = o.at /\ ToSet(g.members) = {o}
      BY <1>0, OfficialSegmentOK
    <3> HIDE DEF g
    <3>2. next = [Open(v, g) EXCEPT !.until = 0]
      BY <2>2, <2>3, <2>8 DEF g
    <3>3. g.start <= list[v.i].at /\ g.first = list[v.i].at /\ ToSet(g.members) = {list[v.i]}
      BY <2>5, <3>1
    <3> QED
      BY <2>2, <2>5, <3>1, <3>2, <3>3, OpenPasses, 0 \in Nat
  <2>9. ASSUME /\ o.at \notin baselines /\ ~(v.cur # NoSegment /\ WaitingForFirstUse(v.cur))
               /\ ~(v.cur = NoSegment \/ ResetAdvanced(o.resets, v.cur.resets))
               /\ o.used >= Last(v.cur.members).used
        PROVE  PassedUnmarked(v, next, list)
    <3> DEFINE g == Join(v.cur, o)
    <3>1. next = Continue(v, g)
      BY <2>3, <2>9
    <3>2. v.cur # NoSegment /\ v.cur \in Segment
      BY <2>1, <2>9 DEF WalkState
    <3>3. /\ g \in Segment /\ g.start = v.cur.start /\ g.first = v.cur.first
          /\ g.members = Append(v.cur.members, o) /\ g.reason = v.cur.reason
      BY <1>0, <3>2, JoinOK
    <3> HIDE DEF g
    <3>4. g.members = Append(v.cur.members, list[v.i])
      BY <2>5, <3>3
    <3> QED
      BY <2>5, <3>1, <3>2, <3>3, <3>4, ContinuePasses
  <2>10. ASSUME /\ o.at \notin baselines /\ ~(v.cur # NoSegment /\ WaitingForFirstUse(v.cur))
                /\ ~(v.cur = NoSegment \/ ResetAdvanced(o.resets, v.cur.resets))
                /\ ~(o.used >= Last(v.cur.members).used)
         PROVE  PassedUnmarked(v, next, list)
    <3>1. next = SkipLowRun(v, list)
      BY <2>3, <2>10
    <3> QED
      BY <1>3, <2>5, <3>1, SkipLowRunKeeps
  <2>11. PassedUnmarked(v, next, list)
    BY <2>6, <2>7, <2>8, <2>9, <2>10
  <2>12. /\ Passed(w, next, list) /\ Survive(w, next) /\ next.until = 0
         /\ \A j \in w.i .. next.i - 1 : list[j].manual = 0
    BY <2>1, <2>2, <2>4, <2>11 DEF PassedUnmarked, Passed, Survive
  <2>13. IntervalsWalked(next, list)
    BY <1>0, <1>3, <2>12, IntervalsRest
  <2> QED
    BY <2>12, <2>13 DEF next
<1> QED
  BY <1>1, <1>2, <1>3

\* n iterations pass n observations, or all.
After(w, n, list) == WalkOK(w, list) /\ IntervalsWalked(w, list) /\ w.i >= n + 1

LEMMA StepKeeps ==
    ASSUME NEW list \in Seq(Fact), Ascending(list), Begun(list), NEW baselines,
           NEW n \in 1 .. Len(list), NEW w, After(w, n - 1, list)
    PROVE  After(Step(w, list, baselines), n, list)
<1>1. /\ Len(list) \in Nat /\ n \in Nat /\ w.i \in 1 .. Len(list) + 1 /\ w.i >= n /\ WalkOK(w, list)
      /\ IntervalsWalked(w, list)
  BY LenProperties DEF After, WalkOK
<1>2. CASE w.i > Len(list)
  <2>1. Step(w, list, baselines) = w /\ w.i >= n + 1
    BY <1>1, <1>2 DEF Step
  <2> QED
    BY <1>1, <2>1 DEF After
<1>3. CASE ~(w.i > Len(list))
  <2> DEFINE next == Iterate(w, list, baselines)
  <2>1. Step(w, list, baselines) = next
    BY <1>3 DEF Step
  <2>2. Passed(w, next, list) /\ IntervalsWalked(next, list)
    BY <1>1, <1>3, IterateKeeps
  <2> HIDE DEF next
  <2>3. WalkOK(next, list) /\ next.i > w.i /\ next.i \in 1 .. Len(list) + 1
    BY <2>2 DEF Passed, WalkOK
  <2>4. next.i >= n + 1
    BY <1>1, <2>3
  <2> QED
    BY <2>1, <2>2, <2>3, <2>4 DEF After
<1> QED
  BY <1>2, <1>3

\* What holds before the loop, and is kept by its n-th step, holds after it.
LEMMA LoopInduction ==
    ASSUME NEW list \in Seq(Fact), NEW baselines, NEW S,
           LoopStart \in S[0],
           \A k \in 1 .. Len(list) : \A w \in S[k - 1] : Step(w, list, baselines) \in S[k],
           \A k \in 0 .. Len(list) : S[k] \subseteq WalkState
    PROVE  AfterLoop(list, baselines) \in S[Len(list)]
<1> DEFINE n == Len(list)
           F == [c \in (1 .. n) \X WalkState |-> Step(c[2], list, baselines)]
           Defines(h) == h = [k \in 0 .. n |->
                                IF k = 0 THEN LoopStart ELSE Step(h[k - 1], list, baselines)]
           walk == CHOOSE h : Defines(h)
<1>0. n \in Nat
  BY LenProperties
<1>2. ASSUME NEW k \in 1 .. n, NEW w \in S[k - 1]
      PROVE  F[<<k, w>>] = Step(w, list, baselines) /\ F[<<k, w>>] \in S[k]
  <2>1. k - 1 \in 0 .. n /\ k \in 0 .. n
    BY <1>0
  <2>2. w \in WalkState
    BY <1>2, <2>1
  <2>3. F[<<k, w>>] = Step(w, list, baselines)
    BY <2>2
  <2> HIDE DEF F
  <2> QED
    BY <1>2, <2>3
<1>3. PICK h : Runs(h, n, LoopStart, F, S)
  <2> HIDE DEF n, F
  <2> QED
    BY <1>0, <1>2, RecursionExists
<1>4. /\ h = [k \in 0 .. n |-> IF k = 0 THEN LoopStart ELSE F[<<k, h[k - 1]>>]]
      /\ \A k \in 0 .. n : h[k] \in S[k]
  BY <1>3 DEF Runs
<1>5. Defines(h)
  <2>1. ASSUME NEW k \in 1 .. n PROVE F[<<k, h[k - 1]>>] = Step(h[k - 1], list, baselines)
    <3>1. k - 1 \in 0 .. n
      BY <1>0
    <3>2. h[k - 1] \in S[k - 1]
      BY <1>4, <3>1
    <3> HIDE DEF n, F
    <3> QED
      BY <1>2, <3>2
  <2>2. \A k \in 0 .. n : k = 0 \/ k \in 1 .. n
    BY <1>0
  <2> HIDE DEF n, F
  <2> QED
    BY <1>4, <2>1, <2>2
<1>6. Defines(walk)
  <2> HIDE DEF Defines
  <2> QED
    BY <1>5
<1>7. \A k \in 0 .. n : walk[k] \in S[k]
  <2>1. walk[0] \in S[0]
    <3>1. walk[0] = LoopStart
      <4> HIDE DEF walk
      <4> QED
        BY <1>0, <1>6
    <3> QED
      BY <3>1
  <2>2. ASSUME NEW k \in 1 .. n, walk[k - 1] \in S[k - 1] PROVE walk[k] \in S[k]
    <3>1. k \in 0 .. n /\ k # 0
      BY <1>0
    <3>2. walk[k] = Step(walk[k - 1], list, baselines)
      <4> HIDE DEF walk
      <4> QED
        BY <1>6, <3>1
    <3> HIDE DEF walk, F
    <3> QED
      BY <2>2, <3>2
  <2> HIDE DEF n, walk
  <2> QED
    BY <1>0, <2>1, <2>2, RecursionKeeps
<1>8. AfterLoop(list, baselines) = walk[n]
  BY DEF AfterLoop
<1> HIDE DEF walk
<1> QED
  BY <1>0, <1>7, <1>8

LEMMA LoopEnds ==
    ASSUME NEW list \in Seq(Fact), Ascending(list), Begun(list), NEW baselines
    PROVE  After(AfterLoop(list, baselines), Len(list), list)
<1> DEFINE n == Len(list)
           S == [k \in 0 .. n |-> {w \in WalkState : After(w, k, list)}]
<1>0. n \in Nat
  BY LenProperties
<1>1. LoopStart \in S[0]
  <2>1. LoopStart \in WalkState
    BY EmptySeq DEF LoopStart, WalkState
  <2>2. CloseCurrent(LoopStart) = <<>> /\ Seen(list, 0) = {} /\ LoopStart.auto = {}
    BY DEF CloseCurrent, LoopStart, Seen
  <2>3. <<>> \in Seq(Segment) /\ DOMAIN <<>> = {}
    BY EmptySeq
  <2>4. Accounted(<<>>, {}, {})
    BY <2>3 DEF Accounted, InOrder
  <2>5. LoopStart.i = 1 /\ LoopStart.segs = <<>> /\ LoopStart.until = 0
    BY DEF LoopStart
  <2>6. 1 - 1 = 0 /\ 1 \in 1 .. n + 1 /\ 1 >= 0 + 1
    BY <1>0
  <2>7. WalkOK(LoopStart, list)
    BY <2>1, <2>2, <2>4, <2>5, <2>6 DEF WalkOK
  <2>8. IntervalsWalked(LoopStart, list)
    BY <2>5 DEF IntervalsWalked, IntervalsKept
  <2>9. After(LoopStart, 0, list)
    BY <2>5, <2>6, <2>7, <2>8 DEF After
  <2> QED
    BY <1>0, <2>1, <2>9
<1>2. ASSUME NEW k \in 1 .. n, NEW w \in S[k - 1]
      PROVE  Step(w, list, baselines) \in S[k]
  <2>1. k - 1 \in 0 .. n /\ k \in 0 .. n
    BY <1>0
  <2>2. w \in WalkState /\ After(w, k - 1, list)
    BY <1>2, <2>1
  <2>4. After(Step(w, list, baselines), k, list)
    BY <2>2, StepKeeps
  <2>5. Step(w, list, baselines) \in WalkState
    BY <2>4 DEF After, WalkOK
  <2> QED
    BY <2>1, <2>4, <2>5
<1>3. \A k \in 0 .. n : S[k] \subseteq WalkState
  OBVIOUS
<1>4. S[n] = {w \in WalkState : After(w, n, list)}
  BY <1>0
<1>5. AfterLoop(list, baselines) \in S[n]
  <2> HIDE DEF S
  <2> QED
    BY <1>1, <1>2, <1>3, LoopInduction
<1> QED
  BY <1>4, <1>5

\* infer_segments accounts for every observation it is given.
LEMMA InferFromAccounts ==
    ASSUME NEW list \in Seq(Fact), Ascending(list), Begun(list), NEW baselines
    PROVE  LET result == InferFrom(list, baselines)
           IN Accounted(result.segs, result.auto, ToSet(list))
<1> DEFINE done == AfterLoop(list, baselines)
<1>1. WalkOK(done, list) /\ done.i >= Len(list) + 1
  BY LoopEnds DEF After
<1>2. Len(list) \in Nat /\ DOMAIN list = 1 .. Len(list)
  BY LenProperties
<1>3. done.i - 1 = Len(list)
  <2> HIDE DEF done
  <2> QED
    BY <1>1, <1>2 DEF WalkOK
<1>4. Seen(list, Len(list)) = ToSet(list)
  BY <1>2 DEF Seen, ToSet
<1>5. Accounted(CloseCurrent(done), done.auto, ToSet(list))
  BY <1>1, <1>3, <1>4 DEF WalkOK
<1>6. /\ InferFrom(list, baselines).segs = CloseCurrent(done)
      /\ InferFrom(list, baselines).auto = done.auto
  BY DEF InferFrom
<1> QED
  BY <1>5, <1>6

\* Every manual interval is kept in one segment, the one that starts with it, and a
\* manual start is never excluded: whatever later readings and rollbacks look like,
\* and whatever baselines and other starts lie in the interval, a replay that sees
\* the interval's start does not divide it (docs/data-and-replay.md:94).  For a CPA
\* account the list has the covered observations.
THEOREM InferenceKeepsIntervals ==
    ASSUME NEW list \in Seq(Fact), Ascending(list), Begun(list), NEW baselines
    PROVE  LET result == InferFrom(list, baselines)
           IN /\ IntervalsKept(result.segs, list, Len(list))
              /\ \A i \in 1 .. Len(list) : list[i].manual # 0 => list[i].at \notin result.auto
<1> DEFINE done == AfterLoop(list, baselines)   segs == CloseCurrent(done)
<1>1. WalkOK(done, list) /\ IntervalsWalked(done, list) /\ done.i >= Len(list) + 1
  BY LoopEnds DEF After
<1>2. Len(list) \in Nat /\ done.i \in 1 .. Len(list) + 1
  BY <1>1, LenProperties DEF WalkOK
<1>3. done.i - 1 = Len(list)
  <2> HIDE DEF done
  <2> QED
    BY <1>1, <1>2
<1>4. IntervalsKept(segs, list, Len(list))
  BY <1>1, <1>3 DEF IntervalsWalked
<1>5. \A k \in DOMAIN segs : \A m \in ToSet(segs[k].members) : m.at \notin done.auto
  BY <1>1 DEF WalkOK, Accounted
<1>6. ToSet(segs) = {segs[k] : k \in DOMAIN segs}
  BY DEF ToSet
<1>7. /\ InferFrom(list, baselines).segs = segs
      /\ InferFrom(list, baselines).auto = done.auto
  BY DEF InferFrom
<1> HIDE DEF segs, done
<1>8. \A i \in 1 .. Len(list) : list[i].manual # 0 => list[i].at \notin done.auto
  BY <1>4, <1>5, <1>6 DEF IntervalsKept, ManualOf
<1> QED
  BY <1>4, <1>7, <1>8

\* The result of infer_segments: all of the list is accounted for, and for a CPA
\* account what is in a segment is covered.
InferenceOK(result, list, cpa, spans) ==
    /\ Accounted(result.segs, result.auto, ToSet(list))
    /\ cpa => \A k \in DOMAIN result.segs : \A m \in ToSet(result.segs[k].members) :
                  CoveringInterval(spans, m.at) # 0

\* infer_segments excludes an observation or puts it in one segment, never both or
\* neither; a segment starts no later than its first observation, and all of it
\* comes before the first observation of the next; and no observation of a CPA
\* account that is not covered is in any.
THEOREM InferSegmentsAccounts ==
    ASSUME NEW list \in Seq(Fact), Ascending(list), Begun(list), NEW history,
           NEW cpa \in BOOLEAN, NEW spans
    PROVE  InferenceOK(InferSegments(list, history, cpa, spans), list, cpa, spans)
<1>1. CASE cpa = FALSE
  BY <1>1, InferFromAccounts DEF InferSegments, InferenceOK
<1>2. CASE cpa = TRUE
  <2> DEFINE kept == {k \in DOMAIN list : CoveringInterval(spans, list[k].at) # 0}
             part == Subsequence(list, kept)
             inferred == InferFrom(part, CollectionBaselines(spans, history))
             left == {list[k].at : k \in DOMAIN list \ kept}
             result == InferSegments(list, history, cpa, spans)
  <2>1. /\ part \in Seq(Fact) /\ Ascending(part)
        /\ ToSet(part) = {list[k] : k \in (1 .. Len(list)) \cap kept}
    <3> HIDE DEF kept
    <3> QED
      BY SubsequenceIs DEF PartOf
  <2>2. DOMAIN list = 1 .. Len(list) /\ (\A k \in DOMAIN list : list[k] \in Fact)
    BY LenProperties, ElementOfSeq
  <2>3. ToSet(part) = {list[k] : k \in kept}
    BY <2>1, <2>2
  <2>4. Begun(part)
    <3> SUFFICES ASSUME NEW k \in DOMAIN part PROVE OfficialStart(part[k]) <= part[k].at
      BY DEF Begun
    <3>1. part[k] \in ToSet(part)
      BY DEF ToSet
    <3> HIDE DEF part
    <3> QED
      BY <2>3, <3>1 DEF Begun
  <2>5. Accounted(inferred.segs, inferred.auto, ToSet(part))
    <3> HIDE DEF part
    <3> QED
      BY <2>1, <2>4, InferFromAccounts
  <2>6. result = [inferred EXCEPT !.auto = inferred.auto \cup left]
    BY <1>2 DEF InferSegments
  <2>7. result.segs = inferred.segs /\ result.auto = inferred.auto \cup left
    <3>1. inferred = [segs |-> inferred.segs, auto |-> inferred.auto]
      BY DEF InferFrom
    <3> HIDE DEF inferred, result, left
    <3> QED
      BY <2>6, <3>1
  <2> HIDE DEF inferred, result, part
  <2>8. \A a, b \in DOMAIN list : a # b => list[a].at # list[b].at
    <3>1. \A a, b \in DOMAIN list : a # b => a < b \/ b < a
      BY <2>2
    <3>2. \A a \in DOMAIN list : list[a].at \in Nat
      BY <2>2 DEF Fact
    <3> QED
      BY <3>1, <3>2 DEF Ascending
  <2>9. \A x \in ToSet(part) : x.at \notin left
    BY <2>3, <2>8
  <2>10. ToSet(list) = ToSet(part) \cup {list[k] : k \in DOMAIN list \ kept}
    BY <2>3 DEF ToSet
  <2>11. Accounted(inferred.segs, inferred.auto \cup left, ToSet(list))
    <3> DEFINE segs == inferred.segs   auto == inferred.auto
    <3>1. /\ segs \in Seq(Segment)
          /\ auto \subseteq {o.at : o \in ToSet(part)}
          /\ \A k \in DOMAIN segs : SegmentOK(segs[k]) /\ ToSet(segs[k].members) \subseteq ToSet(part)
          /\ InOrder(segs)
          /\ \A o \in ToSet(part) : o.at \in auto \/ \E k \in DOMAIN segs : o \in ToSet(segs[k].members)
          /\ \A k \in DOMAIN segs : \A m \in ToSet(segs[k].members) : m.at \notin auto
      BY <2>5 DEF Accounted
    <3> HIDE DEF segs, auto, kept
    <3>2. left = {x.at : x \in {list[k] : k \in DOMAIN list \ kept}}
      OBVIOUS
    <3>3. auto \cup left \subseteq {o.at : o \in ToSet(list)}
      BY <2>10, <3>1, <3>2
    <3> HIDE DEF left
    <3>4. \A o \in ToSet(list) : o.at \in auto \cup left \/ \E k \in DOMAIN segs : o \in ToSet(segs[k].members)
      BY <2>10, <3>1, <3>2
    <3>5. \A k \in DOMAIN segs : \A m \in ToSet(segs[k].members) : m.at \notin auto \cup left
      BY <2>9, <3>1
    <3>6. \A k \in DOMAIN segs : SegmentOK(segs[k]) /\ ToSet(segs[k].members) \subseteq ToSet(list)
      BY <2>10, <3>1
    <3>7. Accounted(segs, auto \cup left, ToSet(list))
      BY <3>1, <3>3, <3>4, <3>5, <3>6 DEF Accounted
    <3> QED
      BY <3>7 DEF segs, auto
  <2>12. \A k \in DOMAIN inferred.segs : \A m \in ToSet(inferred.segs[k].members) :
             CoveringInterval(spans, m.at) # 0
    <3>1. \A x \in ToSet(part) : CoveringInterval(spans, x.at) # 0
      BY <2>3
    <3> QED
      BY <2>5, <3>1 DEF Accounted
  <2>13. InferenceOK(result, list, cpa, spans)
    BY <2>7, <2>11, <2>12 DEF InferenceOK
  <2> QED
    BY <2>13 DEF result
<1> QED
  BY <1>1, <1>2

-----------------------------------------------------------------------------
(* What a replay does to the rows and the samples *)

Row == [at : Nat, used : Nat, resets : Nat, manual : Nat,
        excl : {"none", "manual", "automatic"}, start : Int, mates : SUBSET Nat, prior : Nat]
Sample == [at : Nat, start : Int]

TimesIn(rs) == {r.at : r \in ToSet(rs)}

RowsOK(rs) ==
    /\ rs \in Seq(Row)
    /\ Ascending(rs)
    /\ \A i \in DOMAIN rs : /\ OfficialStart(rs[i]) <= rs[i].at
                            /\ rs[i].start <= rs[i].at
                            /\ rs[i].mates \subseteq TimesIn(rs)

LEMMA FunctionIsSeq ==
    ASSUME NEW T, NEW n \in Nat, NEW f \in [1 .. n -> T]
    PROVE  f \in Seq(T) /\ Len(f) = n /\ DOMAIN f = 1 .. n
<1>1. f \in Seq(T)
  BY SeqDef
<1>2. Len(f) \in Nat /\ DOMAIN f = 1 .. Len(f)
  BY <1>1, LenProperties
<1>3. 1 .. Len(f) = 1 .. n
  BY <1>2
<1>4. Len(f) = n
  <2>1. CASE n = 0
    <3>1. Len(f) \notin 1 .. n
      BY <2>1
    <3>2. Len(f) \notin 1 .. Len(f)
      BY <1>3, <3>1
    <3> QED
      BY <1>2, <2>1, <3>2
  <2>2. CASE n # 0
    <3>1. n \in 1 .. n
      BY <2>2
    <3>2. n \in 1 .. Len(f)
      BY <1>3, <3>1
    <3>3. Len(f) \in 1 .. Len(f)
      BY <1>2, <3>2
    <3>4. Len(f) \in 1 .. n
      BY <1>3, <3>3
    <3> QED
      BY <1>2, <3>2, <3>4
  <2> QED
    BY <2>1, <2>2
<1> QED
  BY <1>1, <1>2, <1>3, <1>4

LEMMA LastOfIs ==
    ASSUME NEW n \in Nat, NEW S, S \subseteq 1 .. n
    PROVE  /\ LastOf(S) \in S \cup {0}
           /\ S # {} => LastOf(S) \in S
           /\ \A j \in S : j <= LastOf(S)
<1>1. CASE S = {}
  BY <1>1 DEF LastOf
<1>2. CASE S # {}
  <2>1. S \subseteq 0 .. n
    OBVIOUS
  <2>2. \E i \in S : \A j \in S : j <= i
    BY <1>2, <2>1, GreatestNumber
  <2>3. LastOf(S) = CHOOSE i \in S : \A j \in S : j <= i
    BY <1>2 DEF LastOf
  <2> QED
    BY <2>2, <2>3
<1> QED
  BY <1>1, <1>2

LEMMA RowFacts ==
    ASSUME NEW r \in Row
    PROVE  /\ Facts(r) \in Fact /\ Facts(r).at = r.at
           /\ OfficialStart(Facts(r)) = OfficialStart(r)
BY DEF Facts, Fact, Row, OfficialStart

\* What is replayed: the facts of the rows from a time on, in their order.
LEMMA ToReplayIs ==
    ASSUME NEW rs, RowsOK(rs), NEW from
    PROVE  /\ ToReplay(rs, from) \in Seq(Fact)
           /\ Ascending(ToReplay(rs, from)) /\ Begun(ToReplay(rs, from))
           /\ ToSet(ToReplay(rs, from)) =
                {Facts(rs[i]) : i \in {j \in DOMAIN rs : rs[j].at >= from /\ rs[j].excl # "manual"}}
<1> DEFINE facts == [i \in DOMAIN rs |-> Facts(rs[i])]
           kept == {j \in DOMAIN rs : rs[j].at >= from /\ rs[j].excl # "manual"}
           list == Subsequence(facts, kept)
<1>1. /\ Len(rs) \in Nat /\ DOMAIN rs = 1 .. Len(rs) /\ rs \in Seq(Row)
      /\ \A i \in DOMAIN rs : rs[i] \in Row
  BY LenProperties, ElementOfSeq DEF RowsOK
<1>2. \A i \in DOMAIN rs : /\ facts[i] = Facts(rs[i]) /\ facts[i] \in Fact
                           /\ facts[i].at = rs[i].at /\ OfficialStart(facts[i]) <= facts[i].at
  BY <1>1, RowFacts DEF RowsOK
<1>3. facts \in [1 .. Len(rs) -> Fact]
  BY <1>1, <1>2
<1>4. facts \in Seq(Fact) /\ Len(facts) = Len(rs) /\ DOMAIN facts = DOMAIN rs
  <2> HIDE DEF facts
  <2> QED
    BY <1>1, <1>3, FunctionIsSeq
<1>5. Ascending(facts)
  BY <1>2, <1>4 DEF Ascending, RowsOK
<1>6. ToReplay(rs, from) = list
  BY DEF ToReplay
<1> HIDE DEF facts, list
<1>7. /\ list \in Seq(Fact) /\ Ascending(list)
      /\ ToSet(list) = {facts[k] : k \in (1 .. Len(facts)) \cap kept}
  <2> HIDE DEF kept
  <2> QED
    BY <1>4, <1>5, SubsequenceIs DEF PartOf, list
<1>8. ToSet(list) = {Facts(rs[i]) : i \in kept}
  <2>1. (1 .. Len(facts)) \cap kept = kept
    BY <1>1, <1>4
  <2>2. \A k \in kept : facts[k] = Facts(rs[k])
    BY <1>2
  <2> HIDE DEF kept
  <2> QED
    BY <1>7, <2>1, <2>2
<1>9. Begun(list)
  <2> SUFFICES ASSUME NEW k \in DOMAIN list PROVE OfficialStart(list[k]) <= list[k].at
    BY DEF Begun
  <2>1. list[k] \in ToSet(list)
    BY DEF ToSet
  <2>2. PICK i \in kept : list[k] = facts[i]
    BY <1>7, <2>1
  <2> QED
    BY <1>2, <2>2
<1> QED
  BY <1>6, <1>7, <1>8, <1>9

\* What new is, the rows replayed from a time on with an inference's result.
Replayed(new, rs, from, result, cpa, spans) ==
    /\ RowsOK(new)
    /\ DOMAIN new = DOMAIN rs /\ Len(new) = Len(rs)
    /\ \A i \in DOMAIN rs :
         /\ new[i].at = rs[i].at /\ new[i].manual = rs[i].manual
         /\ (rs[i].at < from \/ rs[i].excl = "manual") => new[i] = rs[i]
         /\ (~(rs[i].at < from \/ rs[i].excl = "manual") /\ new[i].excl = "none") =>
               /\ new[i].mates # {}
               /\ cpa => CoveringInterval(spans, rs[i].at) # 0
               /\ \E k \in DOMAIN result.segs : /\ rs[i].at \in MemberTimes(result.segs[k])
                                                /\ new[i].start = result.segs[k].start

LEMMA RowsReplayed ==
    ASSUME NEW rs, RowsOK(rs), NEW from \in Int, NEW result, NEW cpa, NEW spans,
           InferenceOK(result, ToReplay(rs, from), cpa, spans)
    PROVE  Replayed(RebuiltRows(rs, from, result), rs, from, result, cpa, spans)
<1> DEFINE list == ToReplay(rs, from)   segs == result.segs
           before == LastOf({i \in DOMAIN rs : rs[i].at < from /\ Included(rs, i)})
           PriorOf(k) == IF k > 1 THEN Last(segs[k - 1].members).at
                         ELSE IF before = 0 THEN 0 ELSE rs[before].at
           SegmentOf(r) == {k \in DOMAIN segs : r.at \in MemberTimes(segs[k])}
           Kept(r) == r.at < from \/ r.excl = "manual"
           Chosen(r) == CHOOSE n \in SegmentOf(r) : TRUE
           new == RebuiltRows(rs, from, result)
<1>1. /\ Len(rs) \in Nat /\ DOMAIN rs = 1 .. Len(rs) /\ rs \in Seq(Row)
      /\ \A i \in DOMAIN rs : rs[i] \in Row
  BY LenProperties, ElementOfSeq DEF RowsOK
<1>2. DOMAIN new = DOMAIN rs
  BY DEF RebuiltRows
<1>3. ASSUME NEW i \in DOMAIN rs
      PROVE  new[i] = IF Kept(rs[i]) THEN rs[i]
                      ELSE IF rs[i].at \in result.auto
                        THEN [rs[i] EXCEPT !.excl = "automatic", !.start = 0, !.mates = {}, !.prior = 0]
                      ELSE [rs[i] EXCEPT !.excl = "none", !.start = segs[Chosen(rs[i])].start,
                                         !.mates = MemberTimes(segs[Chosen(rs[i])]),
                                         !.prior = PriorOf(Chosen(rs[i]))]
  BY <1>3 DEF RebuiltRows
<1>4. /\ segs \in Seq(Segment)
      /\ \A k \in DOMAIN segs : SegmentOK(segs[k]) /\ ToSet(segs[k].members) \subseteq ToSet(list)
      /\ \A o \in ToSet(list) : o.at \in result.auto \/ \E k \in DOMAIN segs : o \in ToSet(segs[k].members)
      /\ cpa => \A k \in DOMAIN segs : \A m \in ToSet(segs[k].members) : CoveringInterval(spans, m.at) # 0
  BY DEF InferenceOK, Accounted
<1>5. /\ ToSet(list) = {Facts(rs[i]) : i \in {j \in DOMAIN rs : rs[j].at >= from /\ rs[j].excl # "manual"}}
      /\ list \in Seq(Fact)
  BY ToReplayIs
<1>6. \A o \in ToSet(list) : o \in Fact /\ o.at \in TimesIn(rs)
  <2>1. \A i \in DOMAIN rs : /\ Facts(rs[i]) \in Fact /\ Facts(rs[i]).at = rs[i].at
                             /\ rs[i].at \in TimesIn(rs)
    BY <1>1, RowFacts DEF TimesIn, ToSet
  <2> HIDE DEF list
  <2> QED
    BY <1>5, <2>1
<1>7. before = 0 \/ before \in DOMAIN rs
  <2> DEFINE earlier == {i \in DOMAIN rs : rs[i].at < from /\ Included(rs, i)}
  <2>1. earlier \subseteq 1 .. Len(rs)
    BY <1>1
  <2> HIDE DEF earlier
  <2>2. LastOf(earlier) \in earlier \cup {0}
    BY <1>1, <2>1, LastOfIs
  <2> QED
    BY <1>1, <2>1, <2>2 DEF earlier
<1>8. ASSUME NEW k \in DOMAIN segs PROVE PriorOf(k) \in Nat
  <2>1. CASE k > 1
    <3>1. k - 1 \in DOMAIN segs
      BY <1>4, <1>8, <2>1, LenProperties
    <3>2. SegmentOK(segs[k - 1])
      BY <1>4, <3>1
    <3> DEFINE ms == segs[k - 1].members
    <3>3. ms \in Seq(Fact) /\ ToSet(ms) # {}
      BY <3>2 DEF SegmentOK, Segment
    <3> HIDE DEF ms
    <3>4. Len(ms) \in Nat /\ DOMAIN ms = 1 .. Len(ms) /\ DOMAIN ms # {}
      BY <3>3, LenProperties DEF ToSet
    <3>5. Len(ms) \in 1 .. Len(ms)
      BY <3>4
    <3>6. ms[Len(ms)] \in Fact
      BY <3>3, <3>5, ElementOfSeq
    <3>7. Last(ms).at \in Nat
      BY <3>6 DEF Last, Fact
    <3> QED
      BY <2>1, <3>7 DEF ms
  <2>2. CASE ~(k > 1)
    BY <1>1, <1>7, <2>2 DEF Row
  <2> QED
    BY <2>1, <2>2
<1>9. ASSUME NEW i \in DOMAIN rs, ~Kept(rs[i]), rs[i].at \notin result.auto
      PROVE  /\ Chosen(rs[i]) \in DOMAIN segs
             /\ rs[i].at \in MemberTimes(segs[Chosen(rs[i])])
  <2>0. rs[i].at \in Nat
    BY <1>1 DEF Row
  <2>1. Facts(rs[i]) \in ToSet(list)
    BY <1>5, <1>9, <2>0
  <2>2. Facts(rs[i]).at = rs[i].at
    BY <1>1, RowFacts
  <2>3. PICK k \in DOMAIN segs : Facts(rs[i]) \in ToSet(segs[k].members)
    BY <1>4, <1>9, <2>1, <2>2
  <2>4. rs[i].at \in MemberTimes(segs[k])
    BY <2>2, <2>3 DEF MemberTimes
  <2>5. k \in SegmentOf(rs[i])
    BY <2>3, <2>4
  <2>6. Chosen(rs[i]) \in SegmentOf(rs[i])
    <3> HIDE DEF SegmentOf
    <3> QED
      BY <2>5
  <2> QED
    BY <2>6
<1>10. ASSUME NEW k \in DOMAIN segs
       PROVE  /\ segs[k].start \in Int
              /\ MemberTimes(segs[k]) \subseteq TimesIn(rs) /\ MemberTimes(segs[k]) \subseteq Nat
              /\ \A t \in MemberTimes(segs[k]) : segs[k].start <= t /\ (cpa => CoveringInterval(spans, t) # 0)
  <2>1. SegmentOK(segs[k]) /\ ToSet(segs[k].members) \subseteq ToSet(list)
    BY <1>4
  <2>2. segs[k].start \in Int /\ segs[k].first \in Nat /\ segs[k].start <= segs[k].first
    BY <2>1 DEF SegmentOK, Segment
  <2>3. \A m \in ToSet(segs[k].members) : m.at \in Nat /\ segs[k].first <= m.at /\ m.at \in TimesIn(rs)
    BY <1>6, <2>1 DEF SegmentOK, Fact
  <2>4. \A m \in ToSet(segs[k].members) : segs[k].start <= m.at
    BY <2>2, <2>3
  <2> QED
    BY <1>4, <2>2, <2>3, <2>4 DEF MemberTimes
<1> HIDE DEF new, list, PriorOf, Chosen, segs
<1>11. ASSUME NEW i \in DOMAIN rs
       PROVE  /\ new[i] \in Row /\ new[i].at = rs[i].at /\ new[i].manual = rs[i].manual
              /\ OfficialStart(new[i]) <= new[i].at /\ new[i].start <= new[i].at
              /\ new[i].mates \subseteq TimesIn(rs)
              /\ Kept(rs[i]) => new[i] = rs[i]
              /\ (~Kept(rs[i]) /\ new[i].excl = "none") =>
                    /\ new[i].mates # {}
                    /\ cpa => CoveringInterval(spans, rs[i].at) # 0
                    /\ \E k \in DOMAIN segs : /\ rs[i].at \in MemberTimes(segs[k])
                                              /\ new[i].start = segs[k].start
  <2> DEFINE r == rs[i]   k == Chosen(rs[i])
  <2>1. /\ r \in Row /\ OfficialStart(r) <= r.at /\ r.start <= r.at /\ r.mates \subseteq TimesIn(rs)
        /\ r.at \in Nat
    BY <1>1 DEF RowsOK, Row
  <2>2. CASE Kept(r)
    BY <1>3, <2>1, <2>2
  <2>3. CASE ~Kept(r) /\ r.at \in result.auto
    <3>1. new[i] = [r EXCEPT !.excl = "automatic", !.start = 0, !.mates = {}, !.prior = 0]
      BY <1>3, <2>3
    <3> HIDE DEF r, Kept
    <3>2. /\ new[i] \in Row /\ new[i].at = r.at /\ new[i].resets = r.resets
          /\ new[i].manual = r.manual
          /\ new[i].excl = "automatic" /\ new[i].start = 0 /\ new[i].mates = {}
      <4>1. 0 \in Int /\ 0 \in Nat /\ {} \in SUBSET Nat
        OBVIOUS
      <4> DEFINE none == {}
      <4>2. none \in SUBSET Nat /\ new[i] = [r EXCEPT !.excl = "automatic", !.start = 0,
                                                     !.mates = none, !.prior = 0]
        BY <3>1
      <4> HIDE DEF none
      <4>3. /\ new[i] \in Row /\ new[i].at = r.at /\ new[i].resets = r.resets
            /\ new[i].manual = r.manual
            /\ new[i].excl = "automatic" /\ new[i].start = 0 /\ new[i].mates = none
        BY <2>1, <4>1, <4>2 DEF Row
      <4> QED
        BY <4>3 DEF none
    <3> QED
      BY <2>1, <2>3, <3>2 DEF OfficialStart, r
  <2>4. CASE ~Kept(r) /\ r.at \notin result.auto
    <3>1. new[i] = [r EXCEPT !.excl = "none", !.start = segs[k].start,
                             !.mates = MemberTimes(segs[k]), !.prior = PriorOf(k)]
      BY <1>3, <2>4
    <3>2. k \in DOMAIN segs /\ r.at \in MemberTimes(segs[k])
      BY <1>9, <2>4
    <3>3. /\ segs[k].start \in Int /\ segs[k].start <= r.at /\ PriorOf(k) \in Nat
          /\ MemberTimes(segs[k]) \subseteq TimesIn(rs) /\ MemberTimes(segs[k]) \in SUBSET Nat
          /\ cpa => CoveringInterval(spans, r.at) # 0
      BY <1>8, <1>10, <3>2
    <3> HIDE DEF r, Kept, k
    <3>4. /\ new[i] \in Row /\ new[i].at = r.at /\ new[i].resets = r.resets
          /\ new[i].manual = r.manual
          /\ new[i].excl = "none" /\ new[i].start = segs[k].start
          /\ new[i].mates = MemberTimes(segs[k])
      BY <2>1, <3>1, <3>3 DEF Row
    <3>5. OfficialStart(new[i]) = OfficialStart(r)
      BY <3>4 DEF OfficialStart
    <3> QED
      BY <2>1, <2>4, <3>2, <3>3, <3>4, <3>5 DEF r
  <2> QED
    BY <2>2, <2>3, <2>4
<1>12. new \in [1 .. Len(rs) -> Row]
  <2>1. new = [i \in DOMAIN rs |-> new[i]]
    BY DEF new, RebuiltRows
  <2> QED
    BY <1>1, <1>11, <2>1
<1>13. new \in Seq(Row) /\ Len(new) = Len(rs)
  BY <1>1, <1>12, FunctionIsSeq
<1>14. TimesIn(new) = TimesIn(rs)
  BY <1>2, <1>11 DEF TimesIn, ToSet
<1>15. Ascending(new)
  BY <1>2, <1>11 DEF Ascending, RowsOK
<1>16. RowsOK(new)
  BY <1>2, <1>11, <1>13, <1>14, <1>15 DEF RowsOK
<1>17. Replayed(new, rs, from, result, cpa, spans)
  BY <1>2, <1>11, <1>13, <1>16 DEF Replayed, segs
<1> QED
  BY <1>17 DEF new

\* The segment at a time one of its members was made: the last that had begun.
LEMMA SegmentAt ==
    ASSUME NEW segs \in Seq(Segment), \A k \in DOMAIN segs : SegmentOK(segs[k]),
           \A k \in DOMAIN segs : ToSet(segs[k].members) \subseteq Fact,
           InOrder(segs), NEW k \in DOMAIN segs, NEW t \in MemberTimes(segs[k])
    PROVE  /\ {j \in DOMAIN segs : segs[j].first <= t} # {}
           /\ LastOf({j \in DOMAIN segs : segs[j].first <= t}) = k
<1> DEFINE begun == {j \in DOMAIN segs : segs[j].first <= t}
<1>1. Len(segs) \in Nat /\ DOMAIN segs = 1 .. Len(segs)
  BY LenProperties
<1>2. PICK m \in ToSet(segs[k].members) : t = m.at
  BY DEF MemberTimes
<1>3. segs[k].first <= t /\ t \in Nat /\ k \in begun
  BY <1>2 DEF SegmentOK, Fact
<1>4. ASSUME NEW j \in begun PROVE j <= k
  <2> SUFFICES ASSUME ~(j <= k) PROVE FALSE
    OBVIOUS
  <2>1. k < j /\ j \in DOMAIN segs
    BY <1>1
  <2>2. t < segs[j].first
    BY <1>2, <2>1 DEF InOrder
  <2>3. segs[j].first \in Nat /\ segs[j].first <= t
    BY <2>1 DEF SegmentOK, Segment
  <2> QED
    BY <1>3, <2>2, <2>3
<1>5. begun \subseteq 1 .. Len(segs)
  BY <1>1
<1> HIDE DEF begun
<1>6. LastOf(begun) \in begun /\ k <= LastOf(begun)
  BY <1>1, <1>3, <1>5, LastOfIs
<1>7. LastOf(begun) <= k
  BY <1>4, <1>6
<1>8. LastOf(begun) \in Nat /\ k \in Nat
  <2>1. LastOf(begun) \in 1 .. Len(segs) /\ k \in 1 .. Len(segs)
    BY <1>1, <1>5, <1>6
  <2>2. 1 .. Len(segs) \subseteq Nat
    BY <1>1
  <2> QED
    BY <2>1, <2>2
<1>9. LastOf(begun) = k
  BY <1>6, <1>7, <1>8
<1> QED
  BY <1>3, <1>9 DEF begun

\* infer_segments is the loop over what is covered.
LEMMA InferenceIsLoop ==
    ASSUME NEW list \in Seq(Fact), Ascending(list), Begun(list), NEW history,
           NEW cpa \in BOOLEAN, NEW spans
    PROVE  \E part \in Seq(Fact) : \E baselines :
              /\ Ascending(part) /\ Begun(part) /\ ToSet(part) \subseteq ToSet(list)
              /\ InferSegments(list, history, cpa, spans).segs = InferFrom(part, baselines).segs
<1>1. CASE cpa = FALSE
  <2>1. InferSegments(list, history, cpa, spans) = InferFrom(list, {})
    BY <1>1 DEF InferSegments
  <2> QED
    BY <2>1
<1>2. CASE cpa = TRUE
  <2> DEFINE kept == {k \in DOMAIN list : CoveringInterval(spans, list[k].at) # 0}
             part == Subsequence(list, kept)
             inferred == InferFrom(part, CollectionBaselines(spans, history))
  <2>1. /\ part \in Seq(Fact) /\ Ascending(part)
        /\ ToSet(part) = {list[k] : k \in (1 .. Len(list)) \cap kept}
    <3> HIDE DEF kept
    <3> QED
      BY SubsequenceIs DEF PartOf
  <2>2. ToSet(part) \subseteq ToSet(list)
    <3>1. (1 .. Len(list)) \cap kept \subseteq DOMAIN list
      OBVIOUS
    <3> HIDE DEF kept, part
    <3> QED
      BY <2>1, <3>1 DEF ToSet
  <2>3. Begun(part)
    <3> HIDE DEF part
    <3>1. \A o \in ToSet(list) : OfficialStart(o) <= o.at
      BY DEF Begun, ToSet
    <3> QED
      BY <2>2, <3>1 DEF Begun, ToSet
  <2>4. InferSegments(list, history, cpa, spans).segs = inferred.segs
    BY <1>2 DEF InferSegments, InferFrom
  <2> HIDE DEF part
  <2> QED
    BY <2>1, <2>2, <2>3, <2>4
<1> QED
  BY <1>1, <1>2

\* A replay of the whole account leaves every manual interval in one segment.
Whole(rs) ==
    \A i, j \in DOMAIN rs :
        (/\ Included(rs, i) /\ Included(rs, j) /\ i <= j /\ rs[j].at <= rs[i].manual
         /\ ~\E k \in DOMAIN rs : k < i /\ rs[k].manual >= rs[i].at)
            => rs[j].start = rs[i].at

LEMMA WholeAfterFullReplay ==
    ASSUME NEW rs, RowsOK(rs), \A i \in DOMAIN rs : rs[i].at > 0,
           NEW cpa \in BOOLEAN, NEW spans, NEW history
    PROVE  Whole(RebuiltRows(rs, Everything, InferSegments(ToReplay(rs, Everything), history, cpa, spans)))
<1> DEFINE list == ToReplay(rs, Everything)
           result == InferSegments(list, history, cpa, spans)   segs == result.segs
           new == RebuiltRows(rs, Everything, result)
<1>1. /\ list \in Seq(Fact) /\ Ascending(list) /\ Begun(list)
      /\ ToSet(list) \subseteq {Facts(rs[i]) : i \in DOMAIN rs}
  BY ToReplayIs
<1>2. /\ Len(rs) \in Nat /\ DOMAIN rs = 1 .. Len(rs)
      /\ \A i \in DOMAIN rs : rs[i] \in Row /\ rs[i].at \in Nat /\ rs[i].manual \in Nat
  <2>1. \A i \in DOMAIN rs : rs[i] \in Row
    BY LenProperties, ElementOfSeq DEF RowsOK
  <2> QED
    BY <2>1, LenProperties DEF RowsOK, Row
<1> HIDE DEF list
<1>3. InferenceOK(result, list, cpa, spans)
  BY <1>1, InferSegmentsAccounts
<1>4. Replayed(new, rs, Everything, result, cpa, spans)
  <2>1. Everything \in Int
    BY DEF Everything
  <2> HIDE DEF result
  <2> QED
    BY <1>3, <2>1, RowsReplayed DEF list
<1>5. PICK part \in Seq(Fact) : \E baselines :
        /\ Ascending(part) /\ Begun(part) /\ ToSet(part) \subseteq ToSet(list)
        /\ segs = InferFrom(part, baselines).segs
  BY <1>1, InferenceIsLoop
<1>5a. PICK baselines : segs = InferFrom(part, baselines).segs
  BY <1>5
<1> HIDE DEF result, new, segs
<1>6. /\ IntervalsKept(segs, part, Len(part))
      /\ Accounted(segs, InferFrom(part, baselines).auto, ToSet(part))
  BY <1>5, <1>5a, InferenceKeepsIntervals, InferFromAccounts
<1>7. /\ segs \in Seq(Segment) /\ InOrder(segs)
      /\ \A k \in DOMAIN segs : SegmentOK(segs[k]) /\ ToSet(segs[k].members) \subseteq ToSet(part)
      /\ ToSet(segs) = {segs[k] : k \in DOMAIN segs}
  BY <1>6 DEF Accounted, ToSet
<1>8. /\ Len(part) \in Nat /\ DOMAIN part = 1 .. Len(part)
      /\ \A a \in DOMAIN part : \E i \in DOMAIN rs : part[a] = Facts(rs[i])
      /\ ToSet(part) = {part[a] : a \in DOMAIN part}
  BY <1>1, <1>5, LenProperties DEF ToSet
<1>9. \A i \in DOMAIN rs : Facts(rs[i]).at = rs[i].at /\ Facts(rs[i]).manual = rs[i].manual
  BY DEF Facts
<1>10. ASSUME NEW i \in DOMAIN rs, Included(new, i)
       PROVE  /\ \E a \in DOMAIN part : part[a] = Facts(rs[i])
              /\ \E k \in DOMAIN segs : /\ rs[i].at \in MemberTimes(segs[k])
                                        /\ new[i].start = segs[k].start
  <2>1. rs[i].excl # "manual"
    BY <1>4, <1>10 DEF Replayed, Included
  <2>2. ~(rs[i].at < Everything)
    BY <1>2 DEF Everything
  <2>3. PICK k \in DOMAIN segs : rs[i].at \in MemberTimes(segs[k]) /\ new[i].start = segs[k].start
    BY <1>4, <1>10, <2>1, <2>2 DEF Replayed, Included, segs
  <2>4. PICK m \in ToSet(segs[k].members) : m.at = rs[i].at
    BY <2>3 DEF MemberTimes
  <2>5. PICK a \in DOMAIN part : part[a] = m
    BY <1>7, <1>8, <2>4
  <2>6. PICK n \in DOMAIN rs : part[a] = Facts(rs[n])
    BY <1>8
  <2>7. rs[n].at = rs[i].at
    BY <1>9, <2>4, <2>5, <2>6
  <2>8. n = i
    <3>1. n < i => rs[n].at < rs[i].at
      BY DEF RowsOK, Ascending
    <3>2. i < n => rs[i].at < rs[n].at
      BY DEF RowsOK, Ascending
    <3> QED
      BY <1>2, <2>7, <3>1, <3>2
  <2> QED
    BY <2>3, <2>6, <2>8
<1>11. ASSUME NEW i \in DOMAIN new, NEW j \in DOMAIN new, Included(new, i), Included(new, j),
              i <= j, new[j].at <= new[i].manual,
              ~\E k \in DOMAIN new : k < i /\ new[k].manual >= new[i].at
       PROVE  new[j].start = new[i].at
  <2>1. /\ i \in DOMAIN rs /\ j \in DOMAIN rs /\ DOMAIN new = DOMAIN rs
        /\ \A k \in DOMAIN rs : new[k].at = rs[k].at /\ new[k].manual = rs[k].manual
    BY <1>4 DEF Replayed
  <2>2. rs[j].at <= rs[i].manual /\ rs[i].at <= rs[j].at /\ rs[i].manual # 0
    <3>1. rs[i].at <= rs[j].at
      <4>1. i < j => rs[i].at < rs[j].at
        BY <2>1 DEF RowsOK, Ascending
      <4> QED
        BY <1>2, <1>11, <2>1, <4>1
    <3>2. rs[j].at > 0 /\ rs[j].at <= rs[i].manual
      BY <1>11, <2>1
    <3> QED
      BY <1>2, <2>1, <3>1, <3>2
  <2>3. PICK a \in DOMAIN part : part[a] = Facts(rs[i])
    BY <1>10, <1>11, <2>1
  <2>4. PICK b \in DOMAIN part : part[b] = Facts(rs[j])
    BY <1>10, <1>11, <2>1
  <2>5. PICK k \in DOMAIN segs : rs[j].at \in MemberTimes(segs[k]) /\ new[j].start = segs[k].start
    BY <1>10, <1>11, <2>1
  <2>6. /\ part[a].at = rs[i].at /\ part[a].manual = rs[i].manual
        /\ part[b].at = rs[j].at
    BY <1>9, <2>1, <2>3, <2>4
  <2>7. OpensInterval(part, a)
    <3>1. ASSUME NEW c \in 1 .. a - 1, part[c].manual >= part[a].at PROVE FALSE
      <4>1. c \in DOMAIN part /\ c < a
        BY <1>8
      <4>2. part[c].at < part[a].at
        BY <1>5, <4>1 DEF Ascending
      <4>3. PICK n \in DOMAIN rs : part[c] = Facts(rs[n])
        BY <1>8, <4>1
      <4>4. rs[n].at < rs[i].at /\ rs[n].manual >= rs[i].at
        BY <1>9, <2>6, <3>1, <4>2, <4>3
      <4>5. i < n => rs[i].at < rs[n].at
        BY <2>1 DEF RowsOK, Ascending
      <4>6. n < i
        BY <1>2, <2>1, <4>4, <4>5
      <4> QED
        BY <1>11, <2>1, <4>4, <4>6
    <3> QED
      BY <2>2, <2>6, <3>1 DEF OpensInterval, Inside
  <2>8. PICK g \in ManualOf(segs) :
           g.start = part[a].at /\ InInterval(part, a, Len(part)) \subseteq ToSet(g.members)
    BY <1>6, <1>8, <2>7 DEF IntervalsKept
  <2>9. part[b] \in InInterval(part, a, Len(part))
    <3>1. b < a => part[b].at < part[a].at
      BY <1>5 DEF Ascending
    <3>2. b \in a .. Len(part)
      BY <1>2, <1>8, <2>1, <2>2, <2>6, <3>1
    <3>3. part[b].at <= part[a].manual
      BY <2>2, <2>6
    <3> QED
      BY <3>2, <3>3 DEF InInterval
  <2>10. PICK h \in DOMAIN segs : segs[h] = g
    BY <1>7, <2>8 DEF ManualOf
  <2>11. rs[j].at \in MemberTimes(segs[h])
    BY <2>6, <2>8, <2>9, <2>10 DEF MemberTimes
  <2>12. k = h
    <3>1. \A n \in DOMAIN segs : ToSet(segs[n].members) \subseteq Fact
      <4>1. ToSet(part) \subseteq Fact
        BY <1>5, <1>8, ElementOfSeq
      <4> QED
        BY <1>7, <4>1
    <3>2. LastOf({n \in DOMAIN segs : segs[n].first <= rs[j].at}) = k
      BY <1>7, <2>5, <3>1, SegmentAt
    <3>3. LastOf({n \in DOMAIN segs : segs[n].first <= rs[j].at}) = h
      BY <1>7, <2>11, <3>1, SegmentAt
    <3> QED
      BY <3>2, <3>3
  <2> QED
    BY <2>1, <2>5, <2>6, <2>8, <2>10, <2>12
<1>12. Whole(new)
  BY <1>11 DEF Whole
<1> QED
  BY <1>12 DEF new, result, list

\* What the samples are after a replay.
SamplesReplayed(new, ss, from, segs) ==
    /\ new \in Seq(Sample)
    /\ DOMAIN new = DOMAIN ss
    /\ \A i \in DOMAIN ss :
         /\ new[i].at = ss[i].at
         /\ ss[i].at < from => new[i] = ss[i]
         /\ ~(ss[i].at < from) => \A k \in DOMAIN segs :
                ss[i].at \in MemberTimes(segs[k]) => new[i].start = segs[k].start

LEMMA SamplesFollow ==
    ASSUME NEW ss \in Seq(Sample), NEW from \in Int, NEW segs, NEW auto, NEW seen, seen \subseteq Fact,
           Accounted(segs, auto, seen)
    PROVE  SamplesReplayed(RebuiltSamples(ss, from, segs), ss, from, segs)
<1> DEFINE Begun1(t) == {k \in DOMAIN segs : segs[k].first <= t}
           StartAt(t) == IF Begun1(t) = {} THEN 0 ELSE segs[LastOf(Begun1(t))].start
           new == RebuiltSamples(ss, from, segs)
<1>1. /\ Len(ss) \in Nat /\ DOMAIN ss = 1 .. Len(ss) /\ (\A i \in DOMAIN ss : ss[i] \in Sample)
      /\ segs \in Seq(Segment) /\ Len(segs) \in Nat /\ DOMAIN segs = 1 .. Len(segs)
      /\ \A k \in DOMAIN segs : SegmentOK(segs[k]) /\ ToSet(segs[k].members) \subseteq Fact
      /\ InOrder(segs)
  BY LenProperties, ElementOfSeq DEF Accounted
<1>2. CASE segs = <<>>
  <2>1. new = ss /\ DOMAIN segs = {}
    BY <1>2, EmptySeq DEF RebuiltSamples
  <2> QED
    BY <2>1 DEF SamplesReplayed
<1>3. CASE segs # <<>>
  <2>1. new = [i \in DOMAIN ss |-> IF ss[i].at < from THEN ss[i]
                                   ELSE [ss[i] EXCEPT !.start = StartAt(ss[i].at)]]
    BY <1>3 DEF RebuiltSamples
  <2>2. ASSUME NEW t PROVE StartAt(t) \in Int
    <3>1. CASE Begun1(t) # {}
      <4>1. Begun1(t) \subseteq 1 .. Len(segs)
        BY <1>1
      <4>2. LastOf(Begun1(t)) \in Begun1(t)
        <5> HIDE DEF Begun1
        <5> QED
          BY <1>1, <3>1, <4>1, LastOfIs
      <4>3. segs[LastOf(Begun1(t))].start \in Int
        BY <1>1, <4>1, <4>2 DEF SegmentOK, Segment
      <4> QED
        BY <3>1, <4>3
    <3> QED
      BY <3>1
  <2>3. ASSUME NEW k \in DOMAIN segs, NEW t \in MemberTimes(segs[k])
        PROVE  StartAt(t) = segs[k].start
    BY <1>1, <2>3, SegmentAt
  <2> HIDE DEF StartAt, new
  <2>4. ASSUME NEW i \in DOMAIN ss
        PROVE  /\ new[i] \in Sample /\ new[i].at = ss[i].at
               /\ ss[i].at < from => new[i] = ss[i]
               /\ ~(ss[i].at < from) => new[i].start = StartAt(ss[i].at)
    <3>1. ss[i] \in Sample /\ StartAt(ss[i].at) \in Int
      BY <1>1, <2>2
    <3>2. new[i] = IF ss[i].at < from THEN ss[i] ELSE [ss[i] EXCEPT !.start = StartAt(ss[i].at)]
      BY <2>1
    <3> QED
      BY <3>1, <3>2 DEF Sample
  <2>5. DOMAIN new = DOMAIN ss
    BY <2>1
  <2>6. new \in [1 .. Len(ss) -> Sample]
    BY <1>1, <2>1, <2>4
  <2>7. new \in Seq(Sample)
    BY <1>1, <2>6, FunctionIsSeq
  <2>8. SamplesReplayed(new, ss, from, segs)
    BY <2>3, <2>4, <2>5, <2>7 DEF SamplesReplayed
  <2> QED
    BY <2>8 DEF new
<1> QED
  BY <1>2, <1>3

-----------------------------------------------------------------------------
(* The inductive invariant *)

StateOK ==
    /\ provider \in Providers
    /\ RowsOK(rows)
    /\ \A i \in DOMAIN rows : rows[i].at \in Elapsed
    /\ samples \in Seq(Sample)
    /\ provider = "cpa" => samples = <<>>
    /\ provider = "sub2api" =>
         \A i \in DOMAIN rows : \E k \in DOMAIN samples : samples[k].at = rows[i].at
    /\ clock \in 0 .. Len(Times[provider])
    /\ captured \in {0, Len(rows)} /\ (~up => captured = 0)
    /\ up \in BOOLEAN /\ anchored \in BOOLEAN /\ timely \in BOOLEAN
    /\ failures \in Nat

\* A row that waits for its derivation has the start of nothing; of the others,
\* the samples know the start.
SamplesAgree ==
    \A i \in DOMAIN rows, k \in DOMAIN samples :
        (Included(rows, i) /\ rows[i].mates # {} /\ samples[k].at = rows[i].at)
            => samples[k].start = rows[i].start

RowsCovered ==
    provider = "cpa" => \A i \in DOMAIN rows :
        (Included(rows, i) /\ rows[i].mates # {}) => CoveringInterval(intervals, rows[i].at) # 0

OnlyCapturedWaits == up /\ failures = 0 => Underived \subseteq {captured}

Inv == StateOK /\ SamplesAgree /\ RowsCovered /\ OnlyCapturedWaits

\* rs is a change of the rows that touches none before a time that counts.
ChangeFrom(rs, from) ==
    /\ RowsOK(rs)
    /\ DOMAIN rs = DOMAIN rows /\ Len(rs) = Len(rows)
    /\ \A i \in DOMAIN rows :
         /\ rs[i].at = rows[i].at /\ rs[i].used = rows[i].used /\ rs[i].resets = rows[i].resets
         /\ rs[i].start = rows[i].start /\ rs[i].mates = rows[i].mates
         /\ rs[i].at < from => rs[i] = rows[i]

Waiting(rs, from) == {i \in DOMAIN rs : rs[i].excl = "none" /\ rs[i].mates = {} /\ rs[i].at < from}

LEMMA RebuildKeeps ==
    ASSUME StateOK, SamplesAgree, RowsCovered,
           NEW rs, NEW from \in Int, ChangeFrom(rs, from), Rebuild(rs, from),
           provider' = provider, intervals' = intervals, clock' = clock
    PROVE  /\ RowsOK(rows') /\ Len(rows') = Len(rows)
           /\ \A i \in DOMAIN rows' : rows'[i].at \in Elapsed'
           /\ samples' \in Seq(Sample)
           /\ provider' = "cpa" => samples' = <<>>
           /\ provider' = "sub2api" =>
                \A i \in DOMAIN rows' : \E k \in DOMAIN samples' : samples'[k].at = rows'[i].at
           /\ SamplesAgree' /\ RowsCovered'
           /\ Underived' \subseteq Waiting(rs, from)
<1> DEFINE cpa == provider = "cpa"   list == ToReplay(rs, from)
           result == Inferred(rs, from, intervals)
<1>0. RowsOK(rs) /\ DOMAIN rs = DOMAIN rows /\ Len(rs) = Len(rows)
  BY DEF ChangeFrom
<1>1. InferenceOK(result, list, cpa, intervals)
  <2>1. cpa \in BOOLEAN
    OBVIOUS
  <2>2. list \in Seq(Fact) /\ Ascending(list) /\ Begun(list)
    BY <1>0, ToReplayIs
  <2>3. result = InferSegments(list, ToReplay(rs, Everything), cpa, intervals)
    BY DEF Inferred
  <2> HIDE DEF list, cpa
  <2>4. InferenceOK(InferSegments(list, ToReplay(rs, Everything), cpa, intervals), list, cpa, intervals)
    BY <2>1, <2>2, InferSegmentsAccounts
  <2> QED
    BY <2>3, <2>4
<1>2. rows' = RebuiltRows(rs, from, result) /\ samples' = RebuiltSamples(samples, from, result.segs)
  BY DEF Rebuild
<1> HIDE DEF result, cpa
<1>3. Replayed(rows', rs, from, result, cpa, intervals)
  <2> HIDE DEF list
  <2>1. Replayed(RebuiltRows(rs, from, result), rs, from, result, cpa, intervals)
    BY <1>0, <1>1, RowsReplayed DEF list
  <2> QED
    BY <1>2, <2>1
<1>4. SamplesReplayed(samples', samples, from, result.segs)
  <2>1. samples \in Seq(Sample) /\ Accounted(result.segs, result.auto, ToSet(list))
    BY <1>1 DEF StateOK, InferenceOK
  <2>2. ToSet(list) \subseteq Fact
    <3>1. list \in Seq(Fact)
      BY <1>0, ToReplayIs
    <3> HIDE DEF list
    <3> QED
      BY <3>1, LenProperties, ElementOfSeq DEF ToSet
  <2> HIDE DEF list
  <2> QED
    BY <1>2, <2>1, <2>2, SamplesFollow
<1>5. /\ RowsOK(rows') /\ DOMAIN rows' = DOMAIN rows /\ Len(rows') = Len(rows)
      /\ \A i \in DOMAIN rows : rows'[i].at = rows[i].at
  BY <1>0, <1>3 DEF Replayed, ChangeFrom
<1>6. \A i \in DOMAIN rows' : rows'[i].at \in Elapsed'
  BY <1>5 DEF StateOK, Elapsed
<1>7. /\ samples' \in Seq(Sample) /\ DOMAIN samples' = DOMAIN samples
      /\ \A k \in DOMAIN samples : samples'[k].at = samples[k].at
  BY <1>4 DEF SamplesReplayed
<1>8. provider' = "cpa" => samples' = <<>>
  BY <1>2 DEF StateOK, RebuiltSamples
<1>9. provider' = "sub2api" =>
         \A i \in DOMAIN rows' : \E k \in DOMAIN samples' : samples'[k].at = rows'[i].at
  BY <1>5, <1>7 DEF StateOK
<1>10. ASSUME NEW i \in DOMAIN rows, rows'[i].excl = "none"
       PROVE  \/ /\ rs[i].at < from /\ rows'[i] = rs[i] /\ rs[i].excl = "none"
                 /\ Included(rows, i) /\ rs[i].mates = rows[i].mates /\ rs[i].start = rows[i].start
              \/ /\ ~(rs[i].at < from) /\ rows'[i].mates # {}
                 /\ cpa => CoveringInterval(intervals, rs[i].at) # 0
                 /\ \E k \in DOMAIN result.segs : /\ rs[i].at \in MemberTimes(result.segs[k])
                                                  /\ rows'[i].start = result.segs[k].start
  <2>1. /\ (rs[i].at < from \/ rs[i].excl = "manual") => rows'[i] = rs[i]
        /\ (~(rs[i].at < from \/ rs[i].excl = "manual") /\ rows'[i].excl = "none") =>
               /\ rows'[i].mates # {}
               /\ cpa => CoveringInterval(intervals, rs[i].at) # 0
               /\ \E k \in DOMAIN result.segs : /\ rs[i].at \in MemberTimes(result.segs[k])
                                                /\ rows'[i].start = result.segs[k].start
    BY <1>0, <1>3 DEF Replayed
  <2>2. /\ rs[i].start = rows[i].start /\ rs[i].mates = rows[i].mates
        /\ rs[i].at < from => rs[i].excl = rows[i].excl
    BY DEF ChangeFrom
  <2>3. CASE rs[i].at < from
    BY <1>10, <2>1, <2>2, <2>3 DEF Included
  <2>4. CASE ~(rs[i].at < from)
    <3>1. rs[i].excl # "manual"
      BY <1>10, <2>1
    <3> QED
      BY <1>10, <2>1, <2>4, <3>1
  <2> QED
    BY <2>3, <2>4
<1>11. SamplesAgree'
  <2> SUFFICES ASSUME NEW i \in DOMAIN rows, NEW k \in DOMAIN samples, rows'[i].excl = "none",
                      rows'[i].mates # {}, samples'[k].at = rows'[i].at
               PROVE  samples'[k].start = rows'[i].start
    BY <1>5, <1>7 DEF SamplesAgree, Included
  <2>1. samples[k].at = rows[i].at /\ rs[i].at = rows[i].at
    BY <1>5, <1>7 DEF ChangeFrom
  <2>2. CASE rs[i].at < from
    <3>1. /\ rows'[i] = rs[i] /\ Included(rows, i) /\ rs[i].mates = rows[i].mates
          /\ rs[i].start = rows[i].start
      BY <1>10, <2>2
    <3>2. samples'[k] = samples[k]
      BY <1>4, <2>1, <2>2 DEF SamplesReplayed
    <3> QED
      BY <2>1, <3>1, <3>2 DEF SamplesAgree
  <2>3. CASE ~(rs[i].at < from)
    <3>1. PICK n \in DOMAIN result.segs : /\ rs[i].at \in MemberTimes(result.segs[n])
                                          /\ rows'[i].start = result.segs[n].start
      BY <1>10, <2>3
    <3> QED
      BY <1>4, <2>1, <2>3, <3>1 DEF SamplesReplayed
  <2> QED
    BY <2>2, <2>3
<1>12. RowsCovered'
  <2> SUFFICES ASSUME cpa, NEW i \in DOMAIN rows, rows'[i].excl = "none", rows'[i].mates # {}
               PROVE  CoveringInterval(intervals, rows'[i].at) # 0
    BY <1>5 DEF RowsCovered, Included, cpa
  <2>1. rs[i].at = rows[i].at /\ rows'[i].at = rows[i].at
    BY <1>5 DEF ChangeFrom
  <2>2. CASE rs[i].at < from
    BY <1>10, <2>1, <2>2 DEF RowsCovered, cpa
  <2>3. CASE ~(rs[i].at < from)
    BY <1>10, <2>1, <2>3
  <2> QED
    BY <2>2, <2>3
<1>13. Underived' \subseteq Waiting(rs, from)
  <2> SUFFICES ASSUME NEW i \in DOMAIN rows, rows'[i].excl = "none", rows'[i].mates = {}
               PROVE  i \in Waiting(rs, from)
    BY <1>5 DEF Underived
  <2>1. rs[i].at < from /\ rows'[i] = rs[i]
    BY <1>10
  <2> QED
    BY <1>0, <2>1 DEF Waiting
<1> QED
  BY <1>5, <1>6, <1>7, <1>8, <1>9, <1>11, <1>12, <1>13

\* A replay of everything, after a collection event of a CPA account.
LEMMA RebuildWithKeeps ==
    ASSUME StateOK, provider = "cpa", Idle, NEW rs, RowsOK(rs),
           \A i \in DOMAIN rs : rs[i].at \in Elapsed,
           NEW spans, RebuildWith(rs, spans), timely' \in BOOLEAN
    PROVE  Inv'
<1> DEFINE cpa == provider = "cpa"   list == ToReplay(rs, Everything)
           result == Inferred(rs, Everything, spans)
<1>1. InferenceOK(result, list, cpa, spans)
  <2>1. cpa \in BOOLEAN
    OBVIOUS
  <2>2. list \in Seq(Fact) /\ Ascending(list) /\ Begun(list)
    BY ToReplayIs
  <2>3. result = InferSegments(list, list, cpa, spans)
    BY DEF Inferred
  <2> HIDE DEF list, cpa
  <2>4. InferenceOK(InferSegments(list, list, cpa, spans), list, cpa, spans)
    BY <2>1, <2>2, InferSegmentsAccounts
  <2> QED
    BY <2>3, <2>4
<1>2. /\ rows' = RebuiltRows(rs, Everything, result)
      /\ provider' = provider /\ samples' = samples /\ clock' = clock /\ captured' = captured
      /\ up' = up /\ anchored' = anchored /\ failures' = failures /\ intervals' = spans
  BY DEF RebuildWith, bounds
<1>3. cpa
  OBVIOUS
<1> HIDE DEF result, cpa
<1>4. Replayed(rows', rs, Everything, result, cpa, spans)
  <2>1. Everything \in Int
    BY DEF Everything
  <2>2. Replayed(RebuiltRows(rs, Everything, result), rs, Everything, result, cpa, spans)
    BY <1>1, <2>1, RowsReplayed
  <2> QED
    BY <1>2, <2>2
<1>5. RowsOK(rows') /\ DOMAIN rows' = DOMAIN rs /\ (\A i \in DOMAIN rs : rows'[i].at = rs[i].at)
  BY <1>4 DEF Replayed
<1>6. \A i \in DOMAIN rs : ~(rs[i].at < Everything)
  <2>1. \A i \in DOMAIN rs : rs[i].at \in Nat
    <3>1. \A i \in DOMAIN rs : rs[i] \in Row
      BY LenProperties, ElementOfSeq DEF RowsOK
    <3> QED
      BY <3>1 DEF Row
  <2> QED
    BY <2>1 DEF Everything
<1>7. ASSUME NEW i \in DOMAIN rs, rows'[i].excl = "none"
      PROVE  rows'[i].mates # {} /\ CoveringInterval(spans, rows'[i].at) # 0
  <2>1. CASE rs[i].excl = "manual"
    <3>1. rows'[i] = rs[i]
      BY <1>4, <2>1 DEF Replayed
    <3> QED
      BY <1>7, <2>1, <3>1
  <2>2. CASE rs[i].excl # "manual"
    BY <1>3, <1>4, <1>6, <1>7, <2>2 DEF Replayed
  <2> QED
    BY <2>1, <2>2
<1>8. samples' = <<>>
  BY <1>2, <1>3 DEF StateOK
<1>9. StateOK'
  <2>1. \A i \in DOMAIN rows' : rows'[i].at \in Elapsed'
    BY <1>2, <1>5 DEF Elapsed
  <2>2. captured' = 0
    BY <1>2 DEF Idle
  <2> QED
    BY <1>2, <1>5, <1>8, <2>1, <2>2 DEF StateOK
<1>10. SamplesAgree'
  <2>1. DOMAIN samples' = {}
    BY <1>8
  <2> QED
    BY <2>1 DEF SamplesAgree
<1>11. RowsCovered'
  BY <1>2, <1>5, <1>7 DEF RowsCovered, Included
<1>12. OnlyCapturedWaits'
  BY <1>5, <1>7 DEF OnlyCapturedWaits, Underived
<1> QED
  BY <1>9, <1>10, <1>11, <1>12 DEF Inv

-----------------------------------------------------------------------------
(* A replay never begins after the row it is about. *)

LEMMA PreviousIs ==
    ASSUME NEW rs, RowsOK(rs), NEW i \in DOMAIN rs
    PROVE  /\ PreviousIncluded(rs, i) \in {0} \cup {j \in DOMAIN rs : rs[j].at < rs[i].at}
           /\ PreviousSegmentIncluded(rs, i) \in {0} \cup {j \in DOMAIN rs : rs[j].at < rs[i].at}
<1>1. Len(rs) \in Nat /\ DOMAIN rs = 1 .. Len(rs)
  BY LenProperties DEF RowsOK
<1>2. 1 .. i - 1 \subseteq 1 .. Len(rs) /\ (\A j \in 1 .. i - 1 : j < i)
  BY <1>1
<1>3. \A j \in 1 .. i - 1 : j \in DOMAIN rs /\ rs[j].at < rs[i].at
  BY <1>1, <1>2 DEF RowsOK, Ascending
<1>4. ASSUME NEW S, S \subseteq 1 .. i - 1
      PROVE  LastOf(S) \in {0} \cup {j \in DOMAIN rs : rs[j].at < rs[i].at}
  <2>1. S \subseteq 1 .. Len(rs)
    BY <1>2, <1>4
  <2>2. LastOf(S) \in S \cup {0}
    BY <1>1, <2>1, LastOfIs
  <2> QED
    BY <1>3, <1>4, <2>2
<1>5. /\ {j \in 1 .. i - 1 : Included(rs, j)} \subseteq 1 .. i - 1
      /\ {j \in 1 .. i - 1 : /\ Included(rs, j)
                             /\ rs[i].start = 0 \/ rs[j].start # rs[i].start} \subseteq 1 .. i - 1
  OBVIOUS
<1> QED
  BY <1>4, <1>5 DEF PreviousIncluded, PreviousSegmentIncluded

\* The time t is one at which a replay may begin for row r.
Before(t, r) == t \in Int /\ t <= r.at

LEMMA StartsBefore ==
    ASSUME NEW rs, RowsOK(rs), NEW i \in DOMAIN rs
    PROVE  /\ rs[i].at \in Nat /\ rs[i].start \in Int
           /\ Before(rs[i].at, rs[i]) /\ Before(rs[i].start, rs[i])
           /\ Before(OfficialStart(rs[i]), rs[i]) /\ Before(SegmentStart(rs[i]), rs[i])
<1>1. rs[i] \in Row
  BY LenProperties, ElementOfSeq DEF RowsOK
<1>2. /\ rs[i].at \in Nat /\ rs[i].start \in Int /\ OfficialStart(rs[i]) \in Int
      /\ OfficialStart(rs[i]) <= rs[i].at /\ rs[i].start <= rs[i].at
  BY <1>1, WindowAssumption DEF RowsOK, Row, OfficialStart
<1> QED
  BY <1>2 DEF Before, SegmentStart, StartOr

LEMMA AnchorsBefore ==
    ASSUME NEW rs, RowsOK(rs), NEW i \in DOMAIN rs
    PROVE  Before(MergeAnchor(rs, i), rs[i]) /\ Before(Anchor(rs, i), rs[i])
<1>1. ASSUME NEW t, NEW j \in DOMAIN rs, rs[j].at < rs[i].at, Before(t, rs[j])
      PROVE  Before(t, rs[i])
  BY <1>1, StartsBefore DEF Before
<1>2. MergeAnchor(rs, i) = IF PreviousIncluded(rs, i) = 0 THEN OfficialStart(rs[i])
                           ELSE SegmentStart(rs[PreviousIncluded(rs, i)])
  BY DEF MergeAnchor
<1>3. Before(MergeAnchor(rs, i), rs[i])
  BY <1>1, <1>2, PreviousIs, StartsBefore
<1>4. ASSUME NEW p \in DOMAIN rs, rs[p].at < rs[i].at
      PROVE  Before(AnchorAfterUnused(rs, i, p), rs[i])
  <2>1. /\ Before(rs[p].at, rs[i]) /\ Before(rs[p].start, rs[i])
        /\ Before(StartOr(rs[p].start, rs[p].at), rs[i])
    BY <1>1, <1>4, StartsBefore DEF StartOr
  <2> DEFINE q == PreviousSegmentIncluded(rs, p)
  <2>2. CASE ~SameReset(rs[p].resets, rs[i].resets) /\ q # 0
    <3>1. q \in DOMAIN rs /\ rs[q].at < rs[p].at
      BY <2>2, PreviousIs
    <3>2. rs[q].at < rs[i].at
      BY <1>4, <3>1, StartsBefore
    <3>3. Before(SegmentStart(rs[q]), rs[i])
      BY <1>1, <3>1, <3>2, StartsBefore
    <3> QED
      BY <2>2, <3>3 DEF AnchorAfterUnused
  <2>3. CASE ~(~SameReset(rs[p].resets, rs[i].resets) /\ q # 0)
    BY <2>1, <2>3 DEF AnchorAfterUnused
  <2> QED
    BY <2>2, <2>3
<1>5. Before(Anchor(rs, i), rs[i])
  <2> DEFINE p == PreviousIncluded(rs, i)
  <2>1. Anchor(rs, i) \in
          {rs[i].at, rs[i].start, OfficialStart(rs[i])}
            \cup (IF p = 0 THEN {} ELSE {AnchorAfterUnused(rs, i, p), rs[p].start})
    BY DEF Anchor, StartOr
  <2>2. p # 0 => /\ p \in DOMAIN rs /\ rs[p].at < rs[i].at
    BY PreviousIs
  <2>3. p # 0 => Before(AnchorAfterUnused(rs, i, p), rs[i]) /\ Before(rs[p].start, rs[i])
    <3> HIDE DEF p
    <3> QED
      BY <1>1, <1>4, <2>2, StartsBefore
  <2> HIDE DEF p
  <2> QED
    BY <2>1, <2>3, StartsBefore
<1> QED
  BY <1>3, <1>5

-----------------------------------------------------------------------------
(* Rows that arrive *)

LEMMA NewRowOK ==
    ASSUME provider \in Providers, NEW t \in Nat, NEW window \in Windows[provider],
           OfficialStart(window) <= t
    PROVE  LET r == NewRow(t, window)
           IN /\ r \in Row /\ r.at = t /\ r.excl = "none" /\ r.mates = {}
              /\ OfficialStart(r) <= r.at /\ r.start <= r.at
<1>1. window.used \in Nat /\ window.resets \in Nat
  BY WindowsAssumption
<1> DEFINE none == {}   r == NewRow(t, window)
<1>2. r = [at |-> t, used |-> window.used, resets |-> window.resets, manual |-> 0, excl |-> "none",
           start |-> 0, mates |-> none, prior |-> 0]
  BY DEF NewRow
<1>3. 0 \in Nat /\ 0 \in Int /\ none \in SUBSET Nat /\ 0 <= t
  OBVIOUS
<1> HIDE DEF none, r
<1>4. r \in Row
  BY <1>1, <1>2, <1>3 DEF Row
<1>5. OfficialStart(r) = OfficialStart(window)
  BY <1>2 DEF OfficialStart
<1> QED
  BY <1>2, <1>3, <1>4, <1>5 DEF r, none

LEMMA CapturedRowOK ==
    ASSUME NEW rs, RowsOK(rs), NEW r \in Row, OfficialStart(r) <= r.at, r.start <= r.at,
           r.mates = {}, \A i \in DOMAIN rs : rs[i].at < r.at
    PROVE  RowsOK(Append(rs, r))
<1> DEFINE new == Append(rs, r)
<1>1. /\ rs \in Seq(Row) /\ Len(rs) \in Nat /\ DOMAIN rs = 1 .. Len(rs)
  BY LenProperties DEF RowsOK
<1>2. /\ new \in Seq(Row) /\ DOMAIN new = DOMAIN rs \cup {Len(rs) + 1}
      /\ \A k \in DOMAIN rs : new[k] = rs[k]
      /\ new[Len(rs) + 1] = r
      /\ ToSet(new) = ToSet(rs) \cup {r}
  BY <1>1, Appended
<1> HIDE DEF new
<1>3. Ascending(new)
  <2> SUFFICES ASSUME NEW a \in DOMAIN new, NEW b \in DOMAIN new, a < b
               PROVE  new[a].at < new[b].at
    BY DEF Ascending
  <2>1. a \in DOMAIN rs
    BY <1>1, <1>2
  <2>2. CASE b \in DOMAIN rs
    BY <1>2, <2>1, <2>2 DEF RowsOK, Ascending
  <2>3. CASE b = Len(rs) + 1
    BY <1>2, <2>1, <2>3
  <2> QED
    BY <1>2, <2>2, <2>3
<1>4. TimesIn(rs) \subseteq TimesIn(new)
  BY <1>2 DEF TimesIn
<1>5. RowsOK(new)
  BY <1>2, <1>3, <1>4 DEF RowsOK
<1> QED
  BY <1>5 DEF new

LEMMA InsertedRowOK ==
    ASSUME NEW rs, RowsOK(rs), NEW r \in Row, OfficialStart(r) <= r.at, r.start <= r.at,
           r.mates = {}, \A i \in DOMAIN rs : rs[i].at # r.at
    PROVE  RowsOK(Insert(rs, r)) /\ \A k \in DOMAIN Insert(rs, r) :
                                       Insert(rs, r)[k].at \in TimesIn(rs) \cup {r.at}
<1> DEFINE earlier == {i \in DOMAIN rs : rs[i].at < r.at}   n == LastOf(earlier)
           m == Len(rs)   new == Insert(rs, r)
<1>1. /\ rs \in Seq(Row) /\ m \in Nat /\ DOMAIN rs = 1 .. m
      /\ \A i \in 1 .. m : rs[i] \in Row /\ rs[i].at \in Nat
  <2>1. rs \in Seq(Row)
    BY DEF RowsOK
  <2>2. \A i \in 1 .. m : rs[i] \in Row
    BY <2>1, ElementOfSeq
  <2> QED
    BY <2>1, <2>2, LenProperties DEF Row
<1>2. r.at \in Nat
  BY DEF Row
<1>3. n \in 0 .. m /\ (\A i \in 1 .. m : i <= n <=> rs[i].at < r.at)
  <2>1. earlier \subseteq 1 .. m
    BY <1>1
  <2>2. n \in earlier \cup {0} /\ (\A j \in earlier : j <= n)
    <3> HIDE DEF earlier
    <3> QED
      BY <1>1, <2>1, LastOfIs
  <2>3. n \in 0 .. m
    BY <1>1, <2>1, <2>2
  <2>4. ASSUME NEW i \in 1 .. m, i <= n PROVE rs[i].at < r.at
    <3>1. n \in 1 .. m /\ rs[n].at < r.at
      BY <2>1, <2>2, <2>3, <2>4
    <3>2. CASE i = n
      BY <3>1, <3>2
    <3>3. CASE i # n
      <4>1. i < n
        BY <2>3, <2>4, <3>3
      <4>2. rs[i].at < rs[n].at
        BY <1>1, <3>1, <4>1 DEF RowsOK, Ascending
      <4> QED
        BY <1>1, <1>2, <3>1, <4>2
    <3> QED
      BY <3>2, <3>3
  <2>5. \A i \in 1 .. m : rs[i].at < r.at => i <= n
    BY <1>1, <2>2
  <2> QED
    BY <2>3, <2>4, <2>5
<1> HIDE DEF n, m
<1>4. \A i \in 1 .. m : ~(i <= n) => r.at < rs[i].at
  BY <1>1, <1>2, <1>3
<1>5. new = InsertAt(rs, n + 1, r)
  BY DEF Insert, n
<1> DEFINE head == SubSeq(rs, 1, n)   tail == SubSeq(rs, n + 1, m)
<1>6. new = head \o <<r>> \o tail
  <2>1. (n + 1) - 1 = n
    BY <1>3
  <2> QED
    BY <1>5, <2>1 DEF InsertAt, m
<1>7. /\ head \in Seq(Row) /\ Len(head) = n /\ (\A k \in 1 .. n : head[k] = rs[k])
  <2>1. \A k \in 1 .. n : rs[k] \in Row
    BY <1>1, <1>3
  <2>2. /\ head \in Seq(Row) /\ Len(head) = (IF 1 <= n THEN n - 1 + 1 ELSE 0)
        /\ \A k \in 1 .. n - 1 + 1 : head[k] = rs[1 + k - 1]
    BY <1>3, <2>1, SubSeqProperties
  <2>3. n - 1 + 1 = n /\ (\A k \in 1 .. n : 1 + k - 1 = k)
    BY <1>3
  <2> HIDE DEF head
  <2> QED
    BY <1>3, <2>2, <2>3
<1>8. /\ tail \in Seq(Row) /\ Len(tail) = m - n /\ (\A k \in 1 .. m - n : tail[k] = rs[n + k])
  <2>1. \A k \in n + 1 .. m : rs[k] \in Row
    BY <1>1, <1>3
  <2>2. /\ tail \in Seq(Row) /\ Len(tail) = (IF n + 1 <= m THEN m - (n + 1) + 1 ELSE 0)
        /\ \A k \in 1 .. m - (n + 1) + 1 : tail[k] = rs[(n + 1) + k - 1]
    BY <1>1, <1>3, <2>1, SubSeqProperties
  <2>3. m - (n + 1) + 1 = m - n /\ (\A k \in 1 .. m - n : (n + 1) + k - 1 = n + k)
    BY <1>1, <1>3
  <2> HIDE DEF tail
  <2>4. Len(tail) = m - n
    BY <1>1, <1>3, <2>2
  <2> QED
    BY <2>2, <2>3, <2>4
<1> HIDE DEF head, tail, new
<1> DEFINE mid == head \o <<r>>
<1>9. /\ mid \in Seq(Row) /\ Len(mid) = n + 1
      /\ (\A k \in 1 .. n : mid[k] = rs[k]) /\ mid[n + 1] = r
  <2>1. mid = Append(head, r)
    BY <1>7, AppendIsConcat
  <2> HIDE DEF mid
  <2> QED
    BY <1>7, <2>1, AppendProperties
<1> HIDE DEF mid
<1>10. /\ new \in Seq(Row) /\ Len(new) = m + 1
       /\ \A k \in 1 .. n : new[k] = rs[k]
       /\ new[n + 1] = r
       /\ \A k \in n + 2 .. m + 1 : new[k] = rs[k - 1]
  <2>1. /\ mid \o tail \in Seq(Row) /\ Len(mid \o tail) = (n + 1) + (m - n)
        /\ \A k \in 1 .. (n + 1) + (m - n) :
             (mid \o tail)[k] = IF k <= n + 1 THEN mid[k] ELSE tail[k - (n + 1)]
    <3>1. mid \in Seq(Row) /\ tail \in Seq(Row)
      BY <1>8, <1>9
    <3>2. /\ mid \o tail \in Seq(Row) /\ Len(mid \o tail) = Len(mid) + Len(tail)
          /\ \A k \in 1 .. Len(mid) + Len(tail) :
               (mid \o tail)[k] = IF k <= Len(mid) THEN mid[k] ELSE tail[k - Len(mid)]
      BY <3>1, ConcatProperties
    <3> QED
      BY <1>8, <1>9, <3>2
  <2>2. new = mid \o tail
    BY <1>6 DEF mid
  <2>3. (n + 1) + (m - n) = m + 1
    BY <1>1, <1>3
  <2>4. /\ \A k \in 1 .. n : k \in 1 .. m + 1 /\ k <= n + 1
        /\ n + 1 \in 1 .. m + 1 /\ n + 1 <= n + 1
        /\ \A k \in n + 2 .. m + 1 : /\ k \in 1 .. m + 1 /\ ~(k <= n + 1)
                                     /\ k - (n + 1) \in 1 .. m - n /\ n + (k - (n + 1)) = k - 1
    BY <1>1, <1>3
  <2>5. \A k \in 1 .. m + 1 : new[k] = IF k <= n + 1 THEN mid[k] ELSE tail[k - (n + 1)]
    BY <2>1, <2>2, <2>3
  <2>6. \A k \in n + 2 .. m + 1 : new[k] = rs[k - 1]
    BY <1>8, <2>4, <2>5
  <2> QED
    BY <1>9, <2>1, <2>2, <2>3, <2>4, <2>5, <2>6
<1>11. DOMAIN new = 1 .. m + 1
  BY <1>10, LenProperties
<1>12. ASSUME NEW k \in 1 .. m + 1
       PROVE  \/ k \in 1 .. n /\ k \in 1 .. m /\ new[k] = rs[k] /\ new[k].at < r.at
              \/ k = n + 1 /\ new[k] = r
              \/ /\ k \in n + 2 .. m + 1 /\ k - 1 \in 1 .. m /\ new[k] = rs[k - 1]
                 /\ r.at < new[k].at
  <2>1. CASE k <= n
    <3>1. k \in 1 .. n /\ k \in 1 .. m
      BY <1>1, <1>3, <2>1
    <3>2. rs[k].at < r.at
      BY <1>3, <2>1, <3>1
    <3> QED
      BY <1>10, <3>1, <3>2
  <2>2. CASE k = n + 1
    BY <1>10, <2>2
  <2>3. CASE k > n + 1
    <3>1. k \in n + 2 .. m + 1 /\ k - 1 \in 1 .. m /\ ~(k - 1 <= n)
      BY <1>1, <1>3, <2>3
    <3> QED
      BY <1>4, <1>10, <3>1
  <2> QED
    BY <1>3, <2>1, <2>2, <2>3
<1>13. Ascending(new)
  <2> SUFFICES ASSUME NEW a \in 1 .. m + 1, NEW b \in 1 .. m + 1, a < b
               PROVE  new[a].at < new[b].at
    BY <1>11 DEF Ascending
  <2>0. \A x, y \in 1 .. m : x < y => rs[x].at < rs[y].at
    BY <1>1 DEF RowsOK, Ascending
  <2>1. CASE a \in 1 .. n
    <3>1. new[a] = rs[a] /\ a \in 1 .. m /\ new[a].at < r.at
      BY <1>1, <1>3, <1>10, <2>1
    <3>2. CASE b \in 1 .. n
      BY <1>1, <1>3, <1>10, <2>0, <3>1, <3>2
    <3>3. CASE b = n + 1
      BY <1>10, <3>1, <3>3
    <3>4. CASE b \in n + 2 .. m + 1
      <4>1. new[b] = rs[b - 1] /\ b - 1 \in 1 .. m /\ a < b - 1
        BY <1>1, <1>3, <1>10, <2>1, <3>4
      <4> QED
        BY <2>0, <3>1, <4>1
    <3> QED
      BY <1>3, <3>2, <3>3, <3>4
  <2>2. CASE a = n + 1
    <3>1. b \in n + 2 .. m + 1
      BY <1>3, <2>2
    <3>2. new[a] = r /\ new[b] = rs[b - 1] /\ b - 1 \in 1 .. m /\ ~(b - 1 <= n)
      BY <1>1, <1>3, <1>10, <2>2, <3>1
    <3> QED
      BY <1>4, <3>2
  <2>3. CASE a \in n + 2 .. m + 1
    <3>1. b \in n + 2 .. m + 1
      BY <1>3, <2>3
    <3>2. /\ new[a] = rs[a - 1] /\ new[b] = rs[b - 1]
          /\ a - 1 \in 1 .. m /\ b - 1 \in 1 .. m /\ a - 1 < b - 1
      BY <1>1, <1>3, <1>10, <2>3, <3>1
    <3> QED
      BY <2>0, <3>2
  <2> QED
    BY <1>3, <2>1, <2>2, <2>3
<1>14. \A i \in 1 .. m : \E k \in 1 .. m + 1 : new[k] = rs[i]
  <2> SUFFICES ASSUME NEW i \in 1 .. m PROVE \E k \in 1 .. m + 1 : new[k] = rs[i]
    OBVIOUS
  <2>1. CASE i <= n
    BY <1>1, <1>3, <1>10, <2>1
  <2>2. CASE i > n
    <3>1. i + 1 \in n + 2 .. m + 1 /\ i + 1 \in 1 .. m + 1 /\ (i + 1) - 1 = i
      BY <1>1, <1>3, <2>2
    <3> QED
      BY <1>10, <3>1
  <2> QED
    BY <1>3, <2>1, <2>2
<1>15. TimesIn(rs) \subseteq TimesIn(new)
  BY <1>1, <1>11, <1>14 DEF TimesIn, ToSet
<1>16. ASSUME NEW k \in DOMAIN new
       PROVE  /\ new[k].at \in TimesIn(rs) \cup {r.at}
              /\ OfficialStart(new[k]) <= new[k].at /\ new[k].start <= new[k].at
              /\ new[k].mates \subseteq TimesIn(rs)
  <2>1. \A i \in 1 .. m : /\ rs[i].at \in TimesIn(rs)
                          /\ OfficialStart(rs[i]) <= rs[i].at /\ rs[i].start <= rs[i].at
                          /\ rs[i].mates \subseteq TimesIn(rs)
    BY <1>1 DEF RowsOK, TimesIn, ToSet
  <2> QED
    BY <1>11, <1>12, <2>1
<1>17. RowsOK(new)
  BY <1>10, <1>13, <1>15, <1>16 DEF RowsOK
<1> QED
  BY <1>16, <1>17 DEF new

-----------------------------------------------------------------------------
(* The steps *)

LEMMA RowTyped ==
    ASSUME StateOK
    PROVE  /\ Len(rows) \in Nat /\ DOMAIN rows = 1 .. Len(rows) /\ rows \in Seq(Row)
           /\ \A i \in DOMAIN rows : /\ rows[i] \in Row /\ rows[i].at \in Nat
                                     /\ rows[i].start \in Int
<1>1. rows \in Seq(Row)
  BY DEF StateOK, RowsOK
<1>2. Len(rows) \in Nat /\ DOMAIN rows = 1 .. Len(rows) /\ (\A i \in DOMAIN rows : rows[i] \in Row)
  BY <1>1, LenProperties, ElementOfSeq
<1> QED
  BY <1>1, <1>2 DEF Row

\* The time of a capture is a new one, after those of all rows.
LEMMA NowIsNew ==
    ASSUME StateOK, TimeLeft, clock' = clock + 1, provider' = provider
    PROVE  /\ clock' \in 0 .. Len(Times[provider]) /\ Now \in Nat
           /\ Elapsed' = Elapsed \cup {Now}
           /\ \A i \in DOMAIN rows : rows[i].at < Now
<1>1. /\ Times[provider] \in Seq(Nat \ {0})
      /\ \A i, j \in DOMAIN Times[provider] : i < j => Times[provider][i] < Times[provider][j]
  BY TimesAssumption DEF StateOK
<1> DEFINE times == Times[provider]   n == Len(times)
<1>2. n \in Nat /\ DOMAIN times = 1 .. n /\ (\A i \in 1 .. n : times[i] \in Nat \ {0})
  BY <1>1, LenProperties, ElementOfSeq
<1>3. clock \in 0 .. n /\ clock < n
  BY DEF StateOK, TimeLeft
<1>4. clock + 1 \in 1 .. n /\ 1 .. clock + 1 = (1 .. clock) \cup {clock + 1} /\ clock + 1 \in 0 .. n
  BY <1>2, <1>3
<1>5. Now = times[clock + 1] /\ Now \in Nat
  BY <1>2, <1>4 DEF Now
<1>6. Elapsed = {times[k] : k \in 1 .. clock} /\ Elapsed' = {times[k] : k \in 1 .. clock + 1}
  BY DEF Elapsed
<1>7. \A k \in 1 .. clock : k \in DOMAIN times /\ clock + 1 \in DOMAIN times /\ k < clock + 1
  BY <1>2, <1>3
<1>8. \A k \in 1 .. clock : times[k] < Now
  BY <1>1, <1>5, <1>7
<1> HIDE DEF times, n
<1>9. \A i \in DOMAIN rows : rows[i].at < Now
  BY <1>6, <1>8 DEF StateOK
<1>10. Elapsed' = Elapsed \cup {Now}
  BY <1>4, <1>5, <1>6
<1> QED
  BY <1>4, <1>5, <1>9, <1>10 DEF n, times

LEMMA ElapsedTyped ==
    ASSUME StateOK
    PROVE  Elapsed \subseteq Nat
<1>1. Times[provider] \in Seq(Nat \ {0})
  BY TimesAssumption DEF StateOK
<1>2. clock \in 0 .. Len(Times[provider]) /\ Len(Times[provider]) \in Nat
  BY <1>1, LenProperties DEF StateOK
<1>3. \A k \in 1 .. clock : k \in 1 .. Len(Times[provider])
  BY <1>2
<1> QED
  BY <1>1, <1>3, ElementOfSeq DEF Elapsed

LEMMA NewSampleTyped ==
    ASSUME StateOK, Now \in Nat
    PROVE  NewSample \in Sample /\ NewSample.at = Now
<1>1. Len(rows) \in Nat /\ DOMAIN rows = 1 .. Len(rows) /\ (\A i \in DOMAIN rows : rows[i].start \in Int)
  BY RowTyped
<1> DEFINE S == {j \in 1 .. (Len(rows) + 1) - 1 : Included(rows, j)}
<1>2. S \subseteq 1 .. Len(rows)
  BY <1>1
<1>3. LatestIncluded(rows) = LastOf(S)
  BY DEF LatestIncluded, PreviousIncluded
<1> HIDE DEF S
<1>4. LatestIncluded(rows) \in {0} \cup DOMAIN rows
  <2>1. LastOf(S) \in S \cup {0}
    BY <1>1, <1>2, LastOfIs
  <2> QED
    BY <1>1, <1>2, <1>3, <2>1
<1> DEFINE p == LatestIncluded(rows)   start == IF p = 0 THEN 0 ELSE rows[p].start
<1>5. start \in Int
  BY <1>1, <1>4
<1>6. NewSample = [at |-> Now, start |-> start]
  BY DEF NewSample
<1> HIDE DEF start
<1> QED
  BY <1>5, <1>6 DEF Sample

LEMMA InitInv == Init => Inv
<1> SUFFICES ASSUME Init PROVE Inv
  OBVIOUS
<1>1. /\ rows = <<>> /\ samples = <<>> /\ DOMAIN rows = {} /\ DOMAIN samples = {}
      /\ rows \in Seq(Row) /\ samples \in Seq(Sample) /\ Len(rows) = 0
  BY EmptySeq DEF Init
<1>2. RowsOK(rows)
  BY <1>1 DEF RowsOK, Ascending
<1>3. clock \in 0 .. Len(Times[provider])
  <2>1. provider \in Providers /\ clock = 0
    BY DEF Init
  <2>2. Len(Times[provider]) \in Nat
    BY <2>1, TimesAssumption, LenProperties
  <2> QED
    BY <2>1, <2>2
<1>4. StateOK
  BY <1>1, <1>2, <1>3 DEF Init, StateOK
<1>5. SamplesAgree /\ RowsCovered
  BY <1>1 DEF SamplesAgree, RowsCovered
<1>6. OnlyCapturedWaits
  BY <1>1 DEF OnlyCapturedWaits, Underived
<1> QED
  BY <1>4, <1>5, <1>6 DEF Inv

\* Nothing that Inv is about changes but whether the container is up, a pending
\* capture is dropped, and the failures counted.
LEMMA DropKeeps ==
    ASSUME Inv, rows' = rows, samples' = samples, intervals' = intervals,
           provider' = provider, clock' = clock, anchored' = anchored, timely' = timely,
           up' \in BOOLEAN, captured' = 0, failures' \in Nat,
           up' /\ failures' = 0 => Underived = {}
    PROVE  Inv'
<1>1. StateOK'
  BY DEF Inv, StateOK, Elapsed
<1>2. SamplesAgree' /\ RowsCovered'
  BY DEF Inv, SamplesAgree, RowsCovered, Included
<1>3. OnlyCapturedWaits'
  BY DEF OnlyCapturedWaits, Underived
<1> QED
  BY <1>1, <1>2, <1>3 DEF Inv

LEMMA CaptureLocalKeeps ==
    ASSUME Inv, CaptureLocal
    PROVE  Inv'
<1>1. /\ samples' = Append(samples, NewSample) /\ clock' = clock + 1 /\ TimeLeft
      /\ provider = "sub2api"
      /\ provider' = provider /\ rows' = rows /\ intervals' = intervals /\ captured' = captured
      /\ up' = up /\ anchored' = anchored /\ timely' = timely /\ failures' = failures
  BY DEF CaptureLocal, premises, bounds
<1>2. StateOK
  BY DEF Inv
<1>3. /\ clock' \in 0 .. Len(Times[provider]) /\ Now \in Nat /\ Elapsed' = Elapsed \cup {Now}
      /\ \A i \in DOMAIN rows : rows[i].at < Now
  BY <1>1, <1>2, NowIsNew
<1>4. NewSample \in Sample /\ NewSample.at = Now
  BY <1>2, <1>3, NewSampleTyped
<1>5. /\ samples' \in Seq(Sample) /\ DOMAIN samples' = DOMAIN samples \cup {Len(samples) + 1}
      /\ \A k \in DOMAIN samples : samples'[k] = samples[k]
      /\ samples'[Len(samples) + 1].at = Now
  BY <1>1, <1>2, <1>4, Appended DEF StateOK
<1>6. \A i \in DOMAIN rows : rows[i].at # Now
  BY <1>2, <1>3, RowTyped
<1>7. StateOK'
  BY <1>1, <1>2, <1>3, <1>5 DEF StateOK
<1>8. SamplesAgree'
  BY <1>1, <1>5, <1>6 DEF Inv, SamplesAgree, Included
<1>9. RowsCovered' /\ OnlyCapturedWaits'
  BY <1>1 DEF Inv, RowsCovered, OnlyCapturedWaits, Underived, Included
<1> QED
  BY <1>7, <1>8, <1>9 DEF Inv

LEMMA PassKeeps ==
    ASSUME Inv, Pass
    PROVE  Inv'
<1>1. /\ clock' = clock + 1 /\ TimeLeft
      /\ provider' = provider /\ rows' = rows /\ intervals' = intervals /\ captured' = captured
      /\ samples' = samples
      /\ up' = up /\ anchored' = anchored /\ timely' = timely /\ failures' = failures
  BY DEF Pass, premises, bounds
<1>2. StateOK
  BY DEF Inv
<1>3. clock' \in 0 .. Len(Times[provider]) /\ Elapsed' = Elapsed \cup {Now}
  BY <1>1, <1>2, NowIsNew
<1>4. StateOK'
  BY <1>1, <1>2, <1>3 DEF StateOK
<1>5. SamplesAgree' /\ RowsCovered' /\ OnlyCapturedWaits'
  BY <1>1 DEF Inv, SamplesAgree, RowsCovered, OnlyCapturedWaits, Underived, Included
<1> QED
  BY <1>4, <1>5 DEF Inv

LEMMA CaptureKeeps ==
    ASSUME Inv, NEW window \in Windows[provider], Capture(window)
    PROVE  Inv'
<1> DEFINE r == NewRow(Now, window)   n == Len(rows) + 1
<1>1. /\ rows' = Append(rows, r) /\ clock' = clock + 1 /\ TimeLeft /\ OfficialStart(window) <= Now
      /\ samples' = IF provider = "cpa" THEN samples ELSE Append(samples, NewSample)
      /\ captured' = Len(rows') /\ captured = 0 /\ up
      /\ provider' = provider /\ intervals' = intervals
      /\ up' = up /\ anchored' = anchored /\ failures' = failures
  BY DEF Capture, bounds, Idle
<1>2. StateOK
  BY DEF Inv
<1>3. /\ clock' \in 0 .. Len(Times[provider]) /\ Now \in Nat /\ Elapsed' = Elapsed \cup {Now}
      /\ \A i \in DOMAIN rows : rows[i].at < Now
  BY <1>1, <1>2, NowIsNew
<1>4. NewSample \in Sample /\ NewSample.at = Now
  BY <1>2, <1>3, NewSampleTyped
<1>5. /\ r \in Row /\ r.at = Now /\ r.excl = "none" /\ r.mates = {}
      /\ OfficialStart(r) <= r.at /\ r.start <= r.at
  BY <1>1, <1>2, <1>3, NewRowOK DEF StateOK
<1>6. timely' \in BOOLEAN
  BY DEF Capture
<1> HIDE DEF r
<1>7. RowsOK(rows')
  BY <1>1, <1>2, <1>3, <1>5, CapturedRowOK DEF StateOK
<1>8. /\ DOMAIN rows' = DOMAIN rows \cup {n} /\ Len(rows') = n
      /\ \A i \in DOMAIN rows : rows'[i] = rows[i]
      /\ rows'[n] = r
  BY <1>1, <1>2, <1>5, RowTyped, Appended
<1>9. /\ samples' \in Seq(Sample) /\ DOMAIN samples \subseteq DOMAIN samples'
      /\ \A k \in DOMAIN samples : samples'[k] = samples[k]
      /\ \A k \in DOMAIN samples' : k \in DOMAIN samples \/ samples'[k].at = Now
      /\ provider # "cpa" => \E k \in DOMAIN samples' : samples'[k].at = Now
  BY <1>1, <1>2, <1>4, Appended DEF StateOK
<1>10. \A i \in DOMAIN rows : rows[i].at # Now
  BY <1>2, <1>3, RowTyped
<1>11. StateOK'
  <2>1. \A i \in DOMAIN rows' : rows'[i].at \in Elapsed'
    BY <1>2, <1>3, <1>5, <1>8 DEF StateOK
  <2>2. provider' = "cpa" => samples' = <<>>
    BY <1>1, <1>2 DEF StateOK
  <2>3. provider' = "sub2api" =>
           \A i \in DOMAIN rows' : \E k \in DOMAIN samples' : samples'[k].at = rows'[i].at
    BY <1>1, <1>2, <1>5, <1>8, <1>9 DEF StateOK
  <2> QED
    BY <1>1, <1>2, <1>3, <1>6, <1>7, <1>9, <2>1, <2>2, <2>3 DEF StateOK
<1>12. SamplesAgree'
  BY <1>5, <1>8, <1>9, <1>10 DEF Inv, SamplesAgree, Included
<1>13. RowsCovered'
  BY <1>1, <1>5, <1>8 DEF Inv, RowsCovered, Included
<1>14. OnlyCapturedWaits'
  <2> SUFFICES ASSUME failures = 0 PROVE Underived' \subseteq {n}
    BY <1>1, <1>8 DEF OnlyCapturedWaits
  <2>1. Underived \subseteq {0} /\ 0 \notin DOMAIN rows
    BY <1>1, <1>2, RowTyped DEF Inv, OnlyCapturedWaits
  <2> QED
    BY <1>8, <2>1 DEF Underived
<1> QED
  BY <1>11, <1>12, <1>13, <1>14 DEF Inv

\* The premises of every replay of an account whose intervals stay.
LEMMA ReplayKeeps ==
    ASSUME Inv, NEW rs, NEW from \in Int, ChangeFrom(rs, from), Rebuild(rs, from),
           provider' = provider, intervals' = intervals, clock' = clock, failures' = failures,
           captured' = 0, up' \in BOOLEAN, anchored' \in BOOLEAN, timely' \in BOOLEAN,
           up' /\ failures' = 0 => Waiting(rs, from) = {}
    PROVE  Inv'
<1>1. /\ RowsOK(rows') /\ Len(rows') = Len(rows)
      /\ \A i \in DOMAIN rows' : rows'[i].at \in Elapsed'
      /\ samples' \in Seq(Sample)
      /\ provider' = "cpa" => samples' = <<>>
      /\ provider' = "sub2api" =>
           \A i \in DOMAIN rows' : \E k \in DOMAIN samples' : samples'[k].at = rows'[i].at
      /\ SamplesAgree' /\ RowsCovered'
      /\ Underived' \subseteq Waiting(rs, from)
  BY RebuildKeeps DEF Inv
<1>2. StateOK'
  BY <1>1 DEF Inv, StateOK
<1>3. OnlyCapturedWaits'
  BY <1>1 DEF OnlyCapturedWaits
<1> QED
  BY <1>1, <1>2, <1>3 DEF Inv

\* Nothing is changed before a row is replayed.
LEMMA Unchanged ==
    ASSUME StateOK, NEW from
    PROVE  ChangeFrom(rows, from) /\ Waiting(rows, from) = {i \in Underived : rows[i].at < from}
BY DEF StateOK, ChangeFrom, Waiting, Underived

LEMMA RebuildCaptureKeeps ==
    ASSUME Inv, NEW b \in BOOLEAN, RebuildCapture(b)
    PROVE  Inv'
<1> DEFINE from == IF b \/ provider = "cpa" THEN Everything ELSE Anchor(rows, captured)
<1>1. /\ captured # 0 /\ Rebuild(rows, from) /\ captured' = 0
      /\ provider' = provider /\ intervals' = intervals /\ clock' = clock
      /\ up' = up /\ anchored' = anchored /\ timely' = timely /\ failures' = failures
  BY DEF RebuildCapture, premises, bounds
<1>2. StateOK
  BY DEF Inv
<1>3. captured \in DOMAIN rows /\ RowsOK(rows)
  BY <1>1, <1>2, RowTyped DEF StateOK
<1>4. Before(from, rows[captured])
  <2>1. Before(Everything, rows[captured])
    BY <1>3, StartsBefore DEF Before, Everything
  <2>2. Before(Anchor(rows, captured), rows[captured])
    BY <1>3, AnchorsBefore
  <2> QED
    BY <2>1, <2>2
<1> HIDE DEF from
<1>5. from \in Int /\ from <= rows[captured].at /\ rows[captured].at \in Int
  BY <1>3, <1>4, StartsBefore DEF Before
<1>6. up /\ failures = 0 => Waiting(rows, from) = {}
  <2>1. up /\ failures = 0 => Underived \subseteq {captured}
    BY DEF Inv, OnlyCapturedWaits
  <2>2. ~(rows[captured].at < from)
    BY <1>5
  <2> QED
    BY <1>2, <2>1, <2>2, Unchanged
<1> QED
  BY <1>1, <1>2, <1>5, <1>6, Unchanged, ReplayKeeps DEF StateOK

LEMMA RestartKeeps ==
    ASSUME Inv, Restart
    PROVE  Inv'
<1>1. /\ ~up /\ up' = TRUE /\ captured' = captured
      /\ provider' = provider /\ intervals' = intervals /\ clock' = clock
      /\ anchored' = anchored /\ timely' = timely /\ failures' = failures
  BY DEF Restart, premises, bounds
<1>2. StateOK
  BY DEF Inv
<1>3. Underived \subseteq DOMAIN rows /\ DOMAIN rows \subseteq Nat
  BY <1>2, RowTyped DEF Underived
<1>4. CASE Underived = {}
  <2>1. rows' = rows /\ samples' = samples
    BY <1>4 DEF Restart
  <2> QED
    BY <1>1, <1>2, <1>4, <2>1, DropKeeps DEF StateOK
<1>5. CASE Underived # {}
  <2> DEFINE i == CHOOSE k \in Underived : \A j \in Underived : k <= j
             from == IF rows[i].manual = 0 THEN MergeAnchor(rows, i) ELSE Anchor(rows, i)
  <2>1. i \in Underived /\ (\A j \in Underived : i <= j)
    <3>1. \E k \in Underived : \A j \in Underived : k <= j
      BY <1>3, <1>5, LeastNumber
    <3> QED
      BY <3>1
  <2>2. Rebuild(rows, from)
    BY <1>5 DEF Restart
  <2> HIDE DEF i
  <2>3. i \in DOMAIN rows /\ RowsOK(rows)
    BY <1>2, <1>3, <2>1 DEF StateOK
  <2>4. Before(from, rows[i])
    BY <2>3, AnchorsBefore
  <2> HIDE DEF from
  <2>5. from \in Int /\ from <= rows[i].at
    BY <2>4 DEF Before
  <2>6. ASSUME NEW j \in Underived PROVE ~(rows[j].at < from)
    <3>1. i = j \/ rows[i].at < rows[j].at
      <4>1. i <= j /\ i \in Nat /\ j \in Nat /\ i \in DOMAIN rows /\ j \in DOMAIN rows
        BY <1>3, <2>1
      <4>2. i = j \/ i < j
        BY <4>1
      <4> QED
        BY <2>3, <4>1, <4>2 DEF RowsOK, Ascending
    <3>2. rows[i].at \in Nat /\ rows[j].at \in Nat
      BY <1>2, <1>3, <2>3, RowTyped
    <3> QED
      BY <2>5, <3>1, <3>2
  <2>7. Waiting(rows, from) = {}
    BY <1>2, <2>6, Unchanged
  <2>8. captured' = 0
    BY <1>1, <1>2 DEF StateOK
  <2> QED
    BY <1>1, <1>2, <2>2, <2>5, <2>7, <2>8, Unchanged, ReplayKeeps DEF StateOK
<1> QED
  BY <1>4, <1>5

\* A command changes the exclusion and the mark of rows, from a time on.
LEMMA ChangeIs ==
    ASSUME StateOK, NEW rs, NEW from, DOMAIN rs = DOMAIN rows, rs = [k \in DOMAIN rs |-> rs[k]],
           \A k \in DOMAIN rows :
              /\ rs[k] \in Row /\ rs[k].at = rows[k].at
              /\ rs[k].used = rows[k].used /\ rs[k].resets = rows[k].resets
              /\ rs[k].start = rows[k].start /\ rs[k].mates = rows[k].mates
              /\ rs[k].at < from => rs[k] = rows[k]
    PROVE  ChangeFrom(rs, from)
<1>1. RowsOK(rows) /\ Len(rows) \in Nat /\ DOMAIN rows = 1 .. Len(rows)
  BY RowTyped DEF StateOK
<1>2. rs \in [1 .. Len(rows) -> Row]
  BY <1>1
<1>3. rs \in Seq(Row) /\ Len(rs) = Len(rows)
  BY <1>1, <1>2, FunctionIsSeq
<1>4. TimesIn(rs) = TimesIn(rows)
  BY DEF TimesIn, ToSet
<1>5. Ascending(rs)
  BY <1>1 DEF RowsOK, Ascending
<1>6. \A i \in DOMAIN rs : /\ OfficialStart(rs[i]) <= rs[i].at
                           /\ rs[i].start <= rs[i].at
                           /\ rs[i].mates \subseteq TimesIn(rs)
  BY <1>1, <1>4 DEF RowsOK, OfficialStart
<1>7. RowsOK(rs)
  BY <1>3, <1>5, <1>6 DEF RowsOK
<1> QED
  BY <1>3, <1>7 DEF ChangeFrom

\* A command replays what it changed.
LEMMA CommandKeeps ==
    ASSUME Inv, Command, NEW rs, NEW from \in Int, ChangeFrom(rs, from), Rebuild(rs, from),
           anchored' \in BOOLEAN
    PROVE  Inv'
<1>1. /\ up /\ captured = 0 /\ captured' = 0 /\ up' = up
      /\ provider' = provider /\ intervals' = intervals /\ clock' = clock
      /\ timely' = timely /\ failures' = failures
  BY DEF Command, Idle
<1>2. StateOK
  BY DEF Inv
<1>3. failures = 0 => Waiting(rs, from) = {}
  <2>1. failures = 0 => Underived \subseteq {0}
    BY <1>1 DEF Inv, OnlyCapturedWaits
  <2>2. 0 \notin DOMAIN rows
    BY <1>2, RowTyped
  <2>3. Waiting(rs, from) \subseteq Underived
    BY DEF ChangeFrom, Waiting, Underived
  <2> QED
    BY <2>1, <2>2, <2>3 DEF Underived
<1> QED
  BY <1>1, <1>2, <1>3, ReplayKeeps DEF StateOK

LEMMA AnchoredTyped ==
    ASSUME NEW i, NEW rs, NEW from, RebuildFor(i, rs, from)
    PROVE  Rebuild(rs, from) /\ anchored' \in BOOLEAN
<1>1. Rebuild(rs, from)
  BY DEF RebuildFor
<1>2. anchored' = (anchored /\ (\/ rows[i].excl # "manual" /\ ~InsideInterval(i)
                                \/ BeginsSegment(rs, from)))
  BY DEF RebuildFor
<1>3. anchored' \in BOOLEAN
  BY <1>2
<1> QED
  BY <1>1, <1>3

LEMMA RemovalAnchorBefore ==
    ASSUME StateOK, NEW i \in DOMAIN rows
    PROVE  Before(RemovalAnchor(i), rows[i])
BY AnchorsBefore DEF RemovalAnchor, StateOK

LEMMA RebuildCurrentIntervalKeeps ==
    ASSUME Inv, RebuildCurrentInterval
    PROVE  Inv'
<1> DEFINE i == Len(rows)   from == RemovalAnchor(i)
<1>1. Command /\ rows # <<>> /\ RebuildFor(i, rows, from)
  BY DEF RebuildCurrentInterval
<1>2. StateOK
  BY DEF Inv
<1>3. i \in DOMAIN rows
  BY <1>1, <1>2, RowTyped, EmptySeq
<1>4. Before(from, rows[i])
  BY <1>2, <1>3, RemovalAnchorBefore
<1> HIDE DEF i, from
<1>5. from \in Int
  BY <1>4 DEF Before
<1> QED
  BY <1>1, <1>2, <1>5, Unchanged, AnchoredTyped, CommandKeeps

\* The rows that a command replays: one row is marked or excluded, or its mark goes.
MarkRow(i, excl, manual) == [rows EXCEPT ![i] = [@ EXCEPT !.excl = excl, !.manual = manual]]

LEMMA MarkRowIs ==
    ASSUME StateOK, NEW i \in DOMAIN rows, NEW excl \in {"none", "manual", "automatic"},
           NEW manual \in Nat, NEW from, Before(from, rows[i])
    PROVE  ChangeFrom(MarkRow(i, excl, manual), from) /\ from \in Int
<1> DEFINE rs == MarkRow(i, excl, manual)
<1>1. from \in Int /\ from <= rows[i].at
  BY DEF Before
<1>2. ASSUME NEW k \in DOMAIN rows
      PROVE  /\ rs[k] \in Row /\ rs[k].at = rows[k].at
             /\ rs[k].used = rows[k].used /\ rs[k].resets = rows[k].resets
             /\ rs[k].start = rows[k].start /\ rs[k].mates = rows[k].mates
             /\ rs[k].at < from => rs[k] = rows[k]
  <2>1. rows[k] \in Row /\ rows[k].at \in Nat
    BY RowTyped
  <2>2. CASE k # i
    <3>1. rs[k] = rows[k]
      BY <2>2 DEF MarkRow
    <3> HIDE DEF rs
    <3> QED
      BY <2>1, <3>1
  <2>3. CASE k = i
    <3>1. rs[k] = [rows[k] EXCEPT !.excl = excl, !.manual = manual]
      BY <2>3 DEF MarkRow
    <3> HIDE DEF rs
    <3>2. /\ rs[k] \in Row /\ rs[k].at = rows[k].at
          /\ rs[k].used = rows[k].used /\ rs[k].resets = rows[k].resets
          /\ rs[k].start = rows[k].start /\ rs[k].mates = rows[k].mates
      BY <2>1, <3>1 DEF Row
    <3> QED
      BY <1>1, <2>1, <2>3, <3>2
  <2> QED
    BY <2>2, <2>3
<1>3. DOMAIN rs = DOMAIN rows /\ rs = [k \in DOMAIN rs |-> rs[k]]
  <2>1. rows = [k \in DOMAIN rows |-> rows[k]]
    BY RowTyped, LenProperties
  <2> QED
    BY <2>1 DEF MarkRow
<1> HIDE DEF rs
<1>4. ChangeFrom(rs, from)
  BY <1>2, <1>3, ChangeIs
<1> QED
  BY <1>1, <1>4 DEF rs

LEMMA MarkRowSame ==
    ASSUME StateOK, NEW i \in DOMAIN rows, NEW excl, NEW manual
    PROVE  /\ manual = rows[i].manual => [rows EXCEPT ![i].excl = excl] = MarkRow(i, excl, manual)
           /\ excl = rows[i].excl => [rows EXCEPT ![i].manual = manual] = MarkRow(i, excl, manual)
           /\ [rows EXCEPT ![i].excl = excl, ![i].manual = manual] = MarkRow(i, excl, manual)
<1>1. rows[i] \in Row /\ rows \in Seq(Row)
  BY RowTyped DEF StateOK, RowsOK
<1>2. rows[i].manual = manual => [rows[i] EXCEPT !.excl = excl] = [rows[i] EXCEPT !.excl = excl, !.manual = manual]
  BY <1>1 DEF Row
<1>3. rows[i].excl = excl => [rows[i] EXCEPT !.manual = manual] = [rows[i] EXCEPT !.excl = excl, !.manual = manual]
  BY <1>1 DEF Row
<1>4. [rows EXCEPT ![i].excl = excl, ![i].manual = manual] = MarkRow(i, excl, manual)
  BY <1>1 DEF MarkRow
<1>5. [rows EXCEPT ![i].excl = excl] = [rows EXCEPT ![i] = [rows[i] EXCEPT !.excl = excl]]
  OBVIOUS
<1>6. [rows EXCEPT ![i].manual = manual] = [rows EXCEPT ![i] = [rows[i] EXCEPT !.manual = manual]]
  OBVIOUS
<1>7. MarkRow(i, excl, manual) = [rows EXCEPT ![i] = [rows[i] EXCEPT !.excl = excl, !.manual = manual]]
  BY DEF MarkRow
<1> QED
  BY <1>2, <1>3, <1>4, <1>5, <1>6, <1>7

LEMMA ExcludeIs ==
    ASSUME StateOK, NEW i \in DOMAIN rows, Exclude(i)
    PROVE  LET rs == MarkRow(i, "manual", rows[i].manual)
               from == RemovalAnchor(i)
           IN Command /\ RebuildFor(i, rs, from) /\ ChangeFrom(rs, from) /\ from \in Int
<1>1. Command /\ RebuildFor(i, [rows EXCEPT ![i].excl = "manual"], RemovalAnchor(i))
  BY DEF Exclude
<1>2. [rows EXCEPT ![i].excl = "manual"] = MarkRow(i, "manual", rows[i].manual)
  BY MarkRowSame
<1>3. Before(RemovalAnchor(i), rows[i])
  BY RemovalAnchorBefore
<1>4. rows[i].manual \in Nat
  BY RowTyped DEF Row
<1>5. ChangeFrom(MarkRow(i, "manual", rows[i].manual), RemovalAnchor(i)) /\ RemovalAnchor(i) \in Int
  BY <1>3, <1>4, MarkRowIs
<1> QED
  BY <1>1, <1>2, <1>5

LEMMA ExcludeKeeps ==
    ASSUME Inv, NEW i \in DOMAIN rows, Exclude(i)
    PROVE  Inv'
<1> DEFINE rs == MarkRow(i, "manual", rows[i].manual)   from == RemovalAnchor(i)
<1>1. Command /\ RebuildFor(i, rs, from) /\ ChangeFrom(rs, from) /\ from \in Int
  BY ExcludeIs DEF Inv
<1> HIDE DEF rs, from
<1> QED
  BY <1>1, AnchoredTyped, CommandKeeps

LEMMA RestoreIs ==
    ASSUME StateOK, NEW i \in DOMAIN rows, Restore(i)
    PROVE  LET confirmed == ConfirmsRollback(i) /\ rows[i].manual = 0
               rs == MarkRow(i, "none", IF confirmed THEN rows[i].at ELSE rows[i].manual)
               from == IF confirmed THEN rows[i].at ELSE Anchor(rows, i)
           IN Command /\ RebuildFor(i, rs, from) /\ ChangeFrom(rs, from) /\ from \in Int
<1> DEFINE confirmed == ConfirmsRollback(i) /\ rows[i].manual = 0
           manual == IF confirmed THEN rows[i].at ELSE rows[i].manual
           rs == MarkRow(i, "none", manual)
           from == IF confirmed THEN rows[i].at ELSE Anchor(rows, i)
<1>1. Command /\ RebuildFor(i, rs, from)
  <2>1. CASE confirmed
    <3>1. Command /\ RebuildFor(i, [rows EXCEPT ![i].excl = "none", ![i].manual = rows[i].at], rows[i].at)
      BY <2>1 DEF Restore
    <3>2. [rows EXCEPT ![i].excl = "none", ![i].manual = rows[i].at] = MarkRow(i, "none", rows[i].at)
      BY MarkRowSame
    <3> QED
      BY <2>1, <3>1, <3>2
  <2>2. CASE ~confirmed
    <3>1. Command /\ RebuildFor(i, [rows EXCEPT ![i].excl = "none"], Anchor(rows, i))
      BY <2>2 DEF Restore
    <3>2. [rows EXCEPT ![i].excl = "none"] = MarkRow(i, "none", rows[i].manual)
      BY MarkRowSame
    <3> QED
      BY <2>2, <3>1, <3>2
  <2> QED
    BY <2>1, <2>2
<1>2. RowsOK(rows)
  BY DEF StateOK
<1>3. Before(from, rows[i])
  BY <1>2, AnchorsBefore, StartsBefore
<1>4. manual \in Nat
  BY RowTyped DEF Row
<1> HIDE DEF from, manual
<1>5. ChangeFrom(rs, from) /\ from \in Int
  BY <1>3, <1>4, MarkRowIs
<1> QED
  BY <1>1, <1>5 DEF from, manual

LEMMA RestoreKeepsInv ==
    ASSUME Inv, NEW i \in DOMAIN rows, Restore(i)
    PROVE  Inv'
<1> DEFINE confirmed == ConfirmsRollback(i) /\ rows[i].manual = 0
           rs == MarkRow(i, "none", IF confirmed THEN rows[i].at ELSE rows[i].manual)
           from == IF confirmed THEN rows[i].at ELSE Anchor(rows, i)
<1>1. Command /\ RebuildFor(i, rs, from) /\ ChangeFrom(rs, from) /\ from \in Int
  BY RestoreIs DEF Inv
<1> HIDE DEF rs, from
<1> QED
  BY <1>1, AnchoredTyped, CommandKeeps

\* The rows of set_manual_start: the row is marked to its end, and the intervals
\* inside the new one go.
MarkInterval(i, e) ==
    LET from == rows[i].at
        until == rows[e].at
        Others == {k \in DOMAIN rows \ {i} : rows[k].manual # 0}
        Met == {k \in Others : Overlap(rows[k].at, rows[k].manual, from, until)}
        Marked(k) == IF k = i THEN [rows[k] EXCEPT !.manual = until, !.excl = "none"]
                     ELSE IF k \in Met THEN [rows[k] EXCEPT !.manual = 0]
                     ELSE rows[k]
    IN [k \in DOMAIN rows |-> Marked(k)]

LEMMA SetManualStartIs ==
    ASSUME StateOK, NEW i \in DOMAIN rows, NEW e \in DOMAIN rows, SetManualStart(i, e)
    PROVE  /\ Command /\ Rebuild(MarkInterval(i, e), rows[i].at) /\ anchored' = anchored
           /\ ChangeFrom(MarkInterval(i, e), rows[i].at) /\ rows[i].at \in Int
           /\ \A k \in DOMAIN rows \ {i} :
                 LET met == rows[k].manual # 0 /\ Overlap(rows[k].at, rows[k].manual, rows[i].at, rows[e].at)
                 IN /\ MarkInterval(i, e)[k] = IF met THEN [rows[k] EXCEPT !.manual = 0] ELSE rows[k]
                    /\ met => rows[i].at <= rows[k].at
           /\ MarkInterval(i, e)[i] = [rows[i] EXCEPT !.manual = rows[e].at, !.excl = "none"]
<1> DEFINE from == rows[i].at
           until == rows[e].at
           Others == {k \in DOMAIN rows \ {i} : rows[k].manual # 0}
           Met == {k \in Others : Overlap(rows[k].at, rows[k].manual, from, until)}
           rs == MarkInterval(i, e)
<1>1. Command /\ Rebuild(rs, from) /\ anchored' = anchored
  BY DEF SetManualStart, MarkInterval
<1>2. \A k \in Met : from <= rows[k].at
  BY DEF SetManualStart, Within
<1>3. from \in Nat /\ from \in Int /\ until \in Nat
  BY RowTyped
<1>4. /\ DOMAIN rs = DOMAIN rows /\ rs = [k \in DOMAIN rs |-> rs[k]]
      /\ \A k \in DOMAIN rows :
            rs[k] = IF k = i THEN [rows[k] EXCEPT !.manual = until, !.excl = "none"]
                    ELSE IF k \in Met THEN [rows[k] EXCEPT !.manual = 0]
                    ELSE rows[k]
  BY DEF MarkInterval
<1>5. \A k \in DOMAIN rows \ {i} :
         k \in Met <=> (rows[k].manual # 0 /\ Overlap(rows[k].at, rows[k].manual, rows[i].at, rows[e].at))
  OBVIOUS
<1> HIDE DEF Met, rs
<1>6. ASSUME NEW k \in DOMAIN rows
      PROVE  /\ rs[k] \in Row /\ rs[k].at = rows[k].at
             /\ rs[k].used = rows[k].used /\ rs[k].resets = rows[k].resets
             /\ rs[k].start = rows[k].start /\ rs[k].mates = rows[k].mates
             /\ rs[k].at < from => rs[k] = rows[k]
  <2>1. rows[k] \in Row /\ rows[k].at \in Nat
    BY RowTyped
  <2>2. CASE k # i /\ k \notin Met
    <3>1. rs[k] = rows[k]
      BY <1>4, <2>2
    <3> QED
      BY <2>1, <3>1
  <2>3. CASE k = i
    <3>1. rs[k] = [rows[k] EXCEPT !.manual = until, !.excl = "none"] /\ from = rows[k].at
      BY <1>4, <2>3
    <3> HIDE DEF from, until
    <3>2. /\ rs[k] \in Row /\ rs[k].at = rows[k].at
          /\ rs[k].used = rows[k].used /\ rs[k].resets = rows[k].resets
          /\ rs[k].start = rows[k].start /\ rs[k].mates = rows[k].mates
      BY <1>3, <2>1, <3>1 DEF Row
    <3>3. ~(rs[k].at < from)
      BY <2>1, <3>1, <3>2
    <3> QED
      BY <3>2, <3>3
  <2>4. CASE k # i /\ k \in Met
    <3>1. rs[k] = [rows[k] EXCEPT !.manual = 0] /\ 0 \in Nat /\ from <= rows[k].at
      BY <1>2, <1>4, <2>4
    <3> HIDE DEF from
    <3>2. /\ rs[k] \in Row /\ rs[k].at = rows[k].at
          /\ rs[k].used = rows[k].used /\ rs[k].resets = rows[k].resets
          /\ rs[k].start = rows[k].start /\ rs[k].mates = rows[k].mates
      BY <2>1, <3>1 DEF Row
    <3>3. ~(rs[k].at < from)
      BY <1>3, <2>1, <3>1, <3>2 DEF from
    <3> QED
      BY <3>2, <3>3
  <2> QED
    BY <2>2, <2>3, <2>4
<1>7. ChangeFrom(rs, from)
  <2> HIDE DEF from
  <2> QED
    BY <1>4, <1>6, ChangeIs
<1>8. \A k \in DOMAIN rows \ {i} :
         LET met == rows[k].manual # 0 /\ Overlap(rows[k].at, rows[k].manual, rows[i].at, rows[e].at)
         IN /\ rs[k] = IF met THEN [rows[k] EXCEPT !.manual = 0] ELSE rows[k]
            /\ met => rows[i].at <= rows[k].at
  BY <1>2, <1>4, <1>5
<1> QED
  BY <1>1, <1>3, <1>4, <1>7, <1>8 DEF rs

LEMMA SetManualStartKeeps ==
    ASSUME Inv, NEW i \in DOMAIN rows, NEW e \in DOMAIN rows, SetManualStart(i, e)
    PROVE  Inv'
<1> DEFINE rs == MarkInterval(i, e)   from == rows[i].at
<1>1. /\ Command /\ Rebuild(rs, from) /\ anchored' = anchored
      /\ ChangeFrom(rs, from) /\ from \in Int
  BY SetManualStartIs DEF Inv
<1>2. anchored' \in BOOLEAN
  BY <1>1 DEF Inv, StateOK
<1> HIDE DEF rs, from
<1> QED
  BY <1>1, <1>2, CommandKeeps

LEMMA ClearManualStartIs ==
    ASSUME StateOK, NEW i \in DOMAIN rows, ClearManualStart(i)
    PROVE  LET rs == MarkRow(i, rows[i].excl, 0)
               from == MergeAnchor(rows, i)
           IN /\ Command /\ Rebuild(rs, from) /\ anchored' = anchored
              /\ ChangeFrom(rs, from) /\ from \in Int
<1>1. Command /\ Rebuild([rows EXCEPT ![i].manual = 0], MergeAnchor(rows, i)) /\ anchored' = anchored
  BY DEF ClearManualStart
<1>2. [rows EXCEPT ![i].manual = 0] = MarkRow(i, rows[i].excl, 0)
  BY MarkRowSame
<1>3. Before(MergeAnchor(rows, i), rows[i])
  BY AnchorsBefore DEF StateOK
<1>4. rows[i].excl \in {"none", "manual", "automatic"} /\ 0 \in Nat
  BY RowTyped DEF Row
<1>5. ChangeFrom(MarkRow(i, rows[i].excl, 0), MergeAnchor(rows, i)) /\ MergeAnchor(rows, i) \in Int
  BY <1>3, <1>4, MarkRowIs
<1> QED
  BY <1>1, <1>2, <1>5

LEMMA ClearManualStartKeeps ==
    ASSUME Inv, NEW i \in DOMAIN rows, ClearManualStart(i)
    PROVE  Inv'
<1> DEFINE rs == MarkRow(i, rows[i].excl, 0)   from == MergeAnchor(rows, i)
<1>1. /\ Command /\ Rebuild(rs, from) /\ anchored' = anchored
      /\ ChangeFrom(rs, from) /\ from \in Int
  BY ClearManualStartIs DEF Inv
<1>2. anchored' \in BOOLEAN
  BY <1>1 DEF Inv, StateOK
<1> HIDE DEF rs, from
<1> QED
  BY <1>1, <1>2, CommandKeeps

\* The events of the collector: rows stay, or one is inserted where no row is.
LEMMA InsertedInTime ==
    ASSUME StateOK, NEW t \in Free, NEW window \in Windows[provider], OfficialStart(window) <= t
    PROVE  LET new == Insert(rows, NewRow(t, window))
           IN RowsOK(new) /\ \A i \in DOMAIN new : new[i].at \in Elapsed
<1> DEFINE r == NewRow(t, window)   new == Insert(rows, r)
<1>1. t \in Elapsed /\ t \in Nat /\ (\A i \in DOMAIN rows : rows[i].at # t)
  BY ElapsedTyped DEF Free, ToSet
<1>2. /\ r \in Row /\ r.at = t /\ r.mates = {}
      /\ OfficialStart(r) <= r.at /\ r.start <= r.at
  BY <1>1, NewRowOK DEF StateOK
<1> HIDE DEF r
<1>3. RowsOK(new) /\ (\A k \in DOMAIN new : new[k].at \in TimesIn(rows) \cup {r.at})
  BY <1>1, <1>2, InsertedRowOK DEF StateOK
<1>4. TimesIn(rows) \subseteq Elapsed
  BY DEF StateOK, TimesIn, ToSet
<1> HIDE DEF new
<1>5. RowsOK(new) /\ (\A i \in DOMAIN new : new[i].at \in Elapsed)
  BY <1>1, <1>2, <1>3, <1>4
<1> QED
  BY <1>5 DEF new, r

LEMMA CollectionEventKeeps ==
    ASSUME Inv, CollectionEvent
    PROVE  Inv'
<1>1. StateOK /\ RowsOK(rows) /\ (\A i \in DOMAIN rows : rows[i].at \in Elapsed) /\ timely \in BOOLEAN
  BY DEF Inv, StateOK
<1>2. ASSUME NEW t \in Elapsed, CollectionConnected(t) PROVE Inv'
  <2>1. PICK spans : RebuildWith(rows, spans)
    BY <1>2 DEF CollectionConnected
  <2>2. provider = "cpa" /\ Idle /\ timely' = timely
    BY <1>2 DEF CollectionConnected
  <2> QED
    BY <1>1, <2>1, <2>2, RebuildWithKeeps
<1>3. ASSUME NEW t \in Elapsed, CollectionDisconnected(t) PROVE Inv'
  BY <1>1, <1>3, RebuildWithKeeps DEF CollectionDisconnected, Disconnect
<1>4. ASSUME NEW t \in Elapsed, NEW w \in Windows[provider], OpeningSample(t, w) PROVE Inv'
  <2> DEFINE rs == Insert(rows, NewRow(t, w))
  <2>1. PICK spans : RebuildWith(rs, spans)
    BY <1>4 DEF OpeningSample
  <2>2. provider = "cpa" /\ Idle /\ t \in Free /\ OfficialStart(w) <= t
    BY <1>4 DEF OpeningSample
  <2>3. timely' = (timely /\ Timely(w))
    BY <1>4 DEF OpeningSample
  <2>4. timely' \in BOOLEAN
    BY <2>3
  <2>5. RowsOK(rs) /\ (\A i \in DOMAIN rs : rs[i].at \in Elapsed)
    BY <1>1, <2>2, InsertedInTime
  <2> HIDE DEF rs
  <2> QED
    BY <1>1, <2>1, <2>2, <2>4, <2>5, RebuildWithKeeps
<1>5. ASSUME NEW t \in Elapsed, NEW w \in Windows[provider], CollectionDisconnectedWithSample(t, w)
      PROVE  Inv'
  <2> DEFINE rs == Insert(rows, NewRow(t, w))
  <2>1. RebuildWith(rs, Closed(t))
    BY <1>5 DEF CollectionDisconnectedWithSample
  <2>2. provider = "cpa" /\ Idle /\ t \in Free /\ OfficialStart(w) <= t
    BY <1>5 DEF CollectionDisconnectedWithSample, Disconnect
  <2>3. timely' = (timely /\ Timely(w))
    BY <1>5 DEF CollectionDisconnectedWithSample
  <2>4. timely' \in BOOLEAN
    BY <2>3
  <2>5. RowsOK(rs) /\ (\A i \in DOMAIN rs : rs[i].at \in Elapsed)
    BY <1>1, <2>2, InsertedInTime
  <2> HIDE DEF rs
  <2> QED
    BY <1>1, <2>1, <2>2, <2>4, <2>5, RebuildWithKeeps
<1> QED
  BY <1>2, <1>3, <1>4, <1>5 DEF CollectionEvent

LEMMA NextInv == Inv /\ [Next]_vars => Inv'
<1> SUFFICES ASSUME Inv, [Next]_vars PROVE Inv'
  OBVIOUS
<1>1. CASE CaptureLocal
  BY <1>1, CaptureLocalKeeps
<1>2. CASE Pass
  BY <1>2, PassKeeps
<1>3. CASE CollectionEvent
  BY <1>3, CollectionEventKeeps
<1>4. ASSUME NEW w \in Windows[provider], Capture(w) PROVE Inv'
  BY <1>4, CaptureKeeps
<1>5. ASSUME NEW b \in BOOLEAN, RebuildCapture(b) PROVE Inv'
  BY <1>5, RebuildCaptureKeeps
<1>6. CASE RebuildFails
  <2>1. /\ rows' = rows /\ samples' = samples /\ intervals' = intervals
        /\ provider' = provider /\ clock' = clock /\ anchored' = anchored /\ timely' = timely
        /\ up' = up /\ captured' = 0 /\ failures' = failures + 1
    BY <1>6 DEF RebuildFails, premises
  <2>2. failures' \in Nat /\ failures' # 0 /\ up' \in BOOLEAN
    BY <2>1 DEF Inv, StateOK
  <2> QED
    BY <2>1, <2>2, DropKeeps
<1>7. CASE Crash
  <2>1. /\ rows' = rows /\ samples' = samples /\ intervals' = intervals
        /\ provider' = provider /\ clock' = clock /\ anchored' = anchored /\ timely' = timely
        /\ up' = FALSE /\ captured' = 0 /\ failures' = failures
    BY <1>7 DEF Crash, premises
  <2>2. failures' \in Nat
    BY <2>1 DEF Inv, StateOK
  <2> QED
    BY <2>1, <2>2, DropKeeps
<1>8. CASE Restart
  BY <1>8, RestartKeeps
<1>9. CASE RebuildCurrentInterval
  BY <1>9, RebuildCurrentIntervalKeeps
<1>10. ASSUME NEW i \in DOMAIN rows, Exclude(i) PROVE Inv'
  BY <1>10, ExcludeKeeps
<1>11. ASSUME NEW i \in DOMAIN rows, Restore(i) PROVE Inv'
  BY <1>11, RestoreKeepsInv
<1>12. ASSUME NEW i \in DOMAIN rows, NEW e \in DOMAIN rows, SetManualStart(i, e) PROVE Inv'
  BY <1>12, SetManualStartKeeps
<1>13. ASSUME NEW i \in DOMAIN rows, ClearManualStart(i) PROVE Inv'
  BY <1>13, ClearManualStartKeeps
<1>14. CASE UNCHANGED vars
  <2>1. /\ rows' = rows /\ samples' = samples /\ intervals' = intervals
        /\ provider' = provider /\ clock' = clock /\ anchored' = anchored /\ timely' = timely
        /\ up' = up /\ captured' = captured /\ failures' = failures
    BY <1>14 DEF vars, premises, bounds
  <2> QED
    BY <2>1 DEF Inv, StateOK, Elapsed, SamplesAgree, RowsCovered, OnlyCapturedWaits, Underived, Included
<1> QED
  BY <1>1, <1>2, <1>3, <1>4, <1>5, <1>6, <1>7, <1>8, <1>9, <1>10, <1>11, <1>12, <1>13, <1>14
  DEF Next

\* What every step keeps of the rows, the samples and the pending capture.
THEOREM Invariance == Spec => []Inv
BY InitInv, NextInv, PTL DEF Spec

-----------------------------------------------------------------------------
(* The results *)

LEMMA InvTyped == Inv => TypeOK
<1> SUFFICES ASSUME Inv PROVE TypeOK
  OBVIOUS
<1>1. StateOK /\ RowsOK(rows) /\ OnlyCapturedWaits
  BY DEF Inv, StateOK
<1>2. ASSUME NEW i \in DOMAIN rows
      PROVE  /\ rows[i].excl \in {"none", "manual", "automatic"}
             /\ rows[i].mates \subseteq {r.at : r \in ToSet(rows)}
             /\ rows[i].at \in Elapsed
             /\ provider = "sub2api" => \E k \in DOMAIN samples : samples[k].at = rows[i].at
  <2>1. rows[i] \in Row
    BY <1>1, RowTyped
  <2>2. rows[i].excl \in {"none", "manual", "automatic"}
    BY <2>1 DEF Row
  <2> QED
    BY <1>1, <2>2 DEF StateOK, RowsOK, TimesIn
<1> QED
  BY <1>1, <1>2 DEF TypeOK, StateOK, RowsOK, Ascending, OnlyCapturedWaits

\* The rows stay in order with their samples, and only the captured row may wait
\* for its derivation while no replay has failed: every anchor that a capture, a
\* command or the start-up chooses reaches the rows it is for.
THEOREM Typing == Spec => []TypeOK
BY Invariance, InvTyped, PTL

LEMMA SettledIsDerived ==
    ASSUME Settled, NEW i \in DOMAIN rows, Included(rows, i)
    PROVE  rows[i].mates # {}
BY DEF Settled, Underived, Included

LEMMA InvSamples == Inv => SamplesFollowRows
BY SettledIsDerived DEF Inv, SamplesAgree, SamplesFollowRows, IncludedRows

\* The usage sample of a capture is attributed to the segment its row is in, from
\* wherever the replays of captures, commands and start-ups began
\* (_replay_usage_samples).
THEOREM SamplesAttributed == Spec => []SamplesFollowRows
BY Invariance, InvSamples, PTL

LEMMA InvCovered == Inv => UncoveredRowsDoNotCount
BY SettledIsDerived DEF Inv, RowsCovered, UncoveredRowsDoNotCount, Uncovered

\* A row of a CPA account that no collection interval covers is not counted.
THEOREM OnlyCoveredCount == Spec => []UncoveredRowsDoNotCount
BY Invariance, InvCovered, PTL

-----------------------------------------------------------------------------
(* Manual intervals *)

\* The replays that begin with the first row: of a capture with a new quota
\* profile, of every capture of a CPA account, of every event of its collector.
WholeReplay ==
    \/ \E b \in BOOLEAN : RebuildCapture(b) /\ (b \/ provider = "cpa")
    \/ CollectionEvent

LEMMA WholeNext ==
    ASSUME NEW rs, RowsOK(rs), \A i \in DOMAIN rs : rs[i].at \in Elapsed, StateOK, StateOK',
           NEW spans, rows' = RebuiltRows(rs, Everything, Inferred(rs, Everything, spans))
    PROVE  WholeIntervals'
<1> DEFINE cpa == provider = "cpa"   history == ToReplay(rs, Everything)
           result == InferSegments(history, history, cpa, spans)
<1>1. \A i \in DOMAIN rs : rs[i].at > 0
  <2>1. Times[provider] \in Seq(Nat \ {0})
    BY TimesAssumption DEF StateOK
  <2>2. clock \in 0 .. Len(Times[provider]) /\ Len(Times[provider]) \in Nat
    BY <2>1, LenProperties DEF StateOK
  <2>3. \A k \in 1 .. clock : k \in 1 .. Len(Times[provider])
    BY <2>2
  <2>4. \A k \in 1 .. clock : Times[provider][k] \in Nat \ {0}
    BY <2>1, <2>3, ElementOfSeq
  <2>5. \A t \in Elapsed : t > 0
    BY <2>4 DEF Elapsed
  <2> QED
    BY <2>5
<1>2. Inferred(rs, Everything, spans) = result
  BY DEF Inferred
<1>3. cpa \in BOOLEAN
  OBVIOUS
<1>4. Whole(rows')
  <2> HIDE DEF cpa
  <2>1. Whole(RebuiltRows(rs, Everything, InferSegments(ToReplay(rs, Everything), history, cpa, spans)))
    BY <1>1, <1>3, WholeAfterFullReplay
  <2> QED
    BY <2>1, <1>2
<1> QED
  BY <1>4 DEF Whole, WholeIntervals, IncludedRows, InsideInterval, Included

\* Such a replay divides no manual interval, whatever the rows were and whatever
\* anchors were used before: what a trusted stale anchor divided
\* (IntervalsAreNeverDivided) the next one joins again.
THEOREM WholeReplaysDivideNothing == Spec => [][WholeReplay => WholeIntervals']_vars
<1>1. ASSUME Inv, Inv', WholeReplay PROVE WholeIntervals'
  <2>1. /\ StateOK /\ StateOK' /\ RowsOK(rows)
        /\ \A i \in DOMAIN rows : rows[i].at \in Elapsed
    BY <1>1 DEF Inv, StateOK
  <2>2. ASSUME NEW b \in BOOLEAN, RebuildCapture(b), b \/ provider = "cpa" PROVE WholeIntervals'
    <3>1. rows' = RebuiltRows(rows, Everything, Inferred(rows, Everything, intervals))
      BY <2>2 DEF RebuildCapture, Rebuild
    <3> QED
      BY <2>1, <3>1, WholeNext
  <2>3. ASSUME NEW t \in Elapsed, CollectionConnected(t) \/ CollectionDisconnected(t)
        PROVE  WholeIntervals'
    <3>1. PICK spans : RebuildWith(rows, spans)
      BY <2>3 DEF CollectionConnected, CollectionDisconnected
    <3>2. rows' = RebuiltRows(rows, Everything, Inferred(rows, Everything, spans))
      BY <3>1 DEF RebuildWith
    <3> QED
      BY <2>1, <3>2, WholeNext
  <2>4. ASSUME NEW t \in Elapsed, NEW w \in Windows[provider],
               OpeningSample(t, w) \/ CollectionDisconnectedWithSample(t, w)
        PROVE  WholeIntervals'
    <3> DEFINE rs == Insert(rows, NewRow(t, w))
    <3>1. PICK spans : RebuildWith(rs, spans)
      BY <2>4 DEF OpeningSample, CollectionDisconnectedWithSample
    <3>2. t \in Free /\ OfficialStart(w) <= t
      BY <2>4 DEF OpeningSample, CollectionDisconnectedWithSample, Disconnect
    <3>3. RowsOK(rs) /\ (\A i \in DOMAIN rs : rs[i].at \in Elapsed)
      BY <2>1, <3>2, InsertedInTime
    <3>4. rows' = RebuiltRows(rs, Everything, Inferred(rs, Everything, spans))
      BY <3>1 DEF RebuildWith
    <3> HIDE DEF rs
    <3> QED
      BY <2>1, <3>3, <3>4, WholeNext
  <2> QED
    BY <1>1, <2>2, <2>3, <2>4 DEF WholeReplay, CollectionEvent
<1> QED
  BY <1>1, Invariance, PTL DEF Spec

-----------------------------------------------------------------------------
(* The inference one observation at a time.                                *)
(*                                                                         *)
(* While readings come as an upstream gives them, nothing is ever given up *)
(* (WhileUnused neither confirms a candidate nor restores a segment), and  *)
(* what the loop decides about an observation depends on those before it   *)
(* only.  A derivation is what is known after an observation: the open     *)
(* segment, the last time in the segment before it, the end of the active  *)
(* manual interval, and whether the observation was excluded.              *)

Derivation ==
    {d \in [cur : Segment \cup {NoSegment}, prior : Nat, until : Nat, out : BOOLEAN] :
        IF d.cur = NoSegment THEN d.until = 0 ELSE ToSet(d.cur.members) # {}}
Nothing == [cur |-> NoSegment, prior |-> 0, until |-> 0, out |-> FALSE]

InManual(d, o) == d.until # 0 /\ o.at <= d.until

Begins(d, o) ==
    /\ ~InManual(d, o)
    /\ \/ o.manual # 0
       \/ d.cur = NoSegment
       \/ ~WaitingForFirstUse(d.cur) /\ ResetAdvanced(o.resets, d.cur.resets)

SegmentFrom(o) == IF o.manual # 0 THEN ManualSegment(o) ELSE OfficialSegment(o)

Online(d, o) ==
    IF Begins(d, o)
      THEN [cur |-> SegmentFrom(o), until |-> o.manual, out |-> FALSE,
            prior |-> IF d.cur = NoSegment THEN 0 ELSE Last(d.cur.members).at]
    ELSE IF InManual(d, o)
      THEN [cur |-> JoinMovingReset(d.cur, o), until |-> d.until, out |-> FALSE, prior |-> d.prior]
    ELSE IF WaitingForFirstUse(d.cur)
      THEN [cur |-> JoinMovingReset(d.cur, o), until |-> 0, out |-> FALSE, prior |-> d.prior]
    ELSE IF o.used >= Last(d.cur.members).used
      THEN [cur |-> Join(d.cur, o), until |-> 0, out |-> FALSE, prior |-> d.prior]
    ELSE [cur |-> d.cur, until |-> 0, out |-> TRUE, prior |-> d.prior]

\* The derivations after each of the first n elements of s, of which those at the
\* indexes in kept count.
Trace(s, kept, n, st) ==
    /\ st \in [0 .. n -> Derivation]
    /\ st[0] = Nothing
    /\ \A j \in 1 .. n : st[j] = IF j \in kept THEN Online(st[j - 1], s[j]) ELSE st[j - 1]

\* Readings as an upstream gives them: see Timely.
Steady(S) ==
    /\ S \subseteq Fact
    /\ \A o \in S : 0 < o.at /\ 0 < OfficialStart(o) /\ OfficialStart(o) <= o.at
    /\ \A o, p \in S : o.at < p.at => SameReset(p.resets, o.resets) \/ OfficialStart(p) > o.at
    /\ \A o, p, q \in S :
          SameReset(o.resets, p.resets) /\ SameReset(p.resets, q.resets) => SameReset(o.resets, q.resets)

KeptOf(s, kept) == {s[k] : k \in kept}

LEMMA ResetFacts ==
    ASSUME NEW a \in Nat, NEW b \in Nat
    PROVE  /\ SameReset(a, b) <=> (a - b <= Jitter /\ b - a <= Jitter)
           /\ SameReset(a, b) <=> SameReset(b, a)
           /\ SameReset(a, a)
           /\ ResetAdvanced(a, b) <=> a - b > Jitter
           /\ ResetAdvanced(a, b) => ~SameReset(a, b)
<1>1. Jitter \in Nat
  BY WindowAssumption
<1> QED
  BY <1>1 DEF SameReset, ResetAdvanced

\* A later reading is of the same window or of one that ends later,
LEMMA LaterWindow ==
    ASSUME NEW S, Steady(S), NEW o \in S, NEW p \in S, o.at < p.at
    PROVE  SameReset(p.resets, o.resets) \/ ResetAdvanced(p.resets, o.resets)
<1>1. /\ o.resets \in Nat /\ p.resets \in Nat /\ o.at \in Nat /\ p.at \in Nat
      /\ OfficialStart(o) <= o.at
  BY DEF Steady, Fact
<1>2. Window \in Nat /\ Jitter \in Nat
  BY WindowAssumption
<1>3. CASE OfficialStart(p) > o.at
  <2>1. p.resets > o.resets
    BY <1>1, <1>2, <1>3 DEF OfficialStart
  <2> QED
    BY <1>1, <1>2, <2>1, ResetFacts
<1> QED
  BY <1>3 DEF Steady

\* and once another window was read, the old one does not come back.
LEMMA NeverBack ==
    ASSUME NEW S, Steady(S), NEW o \in S, NEW p \in S, NEW q \in S, o.at < p.at, p.at < q.at,
           ~SameReset(p.resets, o.resets)
    PROVE  ~SameReset(q.resets, o.resets)
<1>1. /\ o.resets \in Nat /\ p.resets \in Nat /\ q.resets \in Nat /\ Jitter \in Nat
      /\ o.at \in Nat /\ p.at \in Nat /\ q.at \in Nat
  BY WindowAssumption DEF Steady, Fact
<1>2. SUFFICES ASSUME SameReset(q.resets, o.resets) PROVE FALSE
  OBVIOUS
<1>3. ~SameReset(q.resets, p.resets)
  <2>1. SUFFICES ASSUME SameReset(q.resets, p.resets) PROVE FALSE
    OBVIOUS
  <2>2. SameReset(p.resets, q.resets)
    BY <1>1, <2>1, ResetFacts
  <2> QED
    BY <1>2, <2>2 DEF Steady
<1>4. ResetAdvanced(p.resets, o.resets) /\ ResetAdvanced(q.resets, p.resets)
  BY <1>3, LaterWindow
<1>5. p.resets - o.resets > Jitter /\ q.resets - p.resets > Jitter /\ q.resets - o.resets <= Jitter
  BY <1>1, <1>2, <1>4, ResetFacts
<1> QED
  BY <1>1, <1>5

\* A reading of a later window than one before it is of a later window than all
\* that were read up to then.
LEMMA NewWindow ==
    ASSUME NEW S, Steady(S), NEW o \in S, NEW p \in S, NEW q \in S, o = p \/ o.at < p.at, p.at < q.at,
           ~SameReset(q.resets, p.resets)
    PROVE  /\ ~SameReset(q.resets, o.resets) /\ OfficialStart(q) > o.at
           /\ ResetAdvanced(q.resets, o.resets)
<1>1. o.resets \in Nat /\ p.resets \in Nat /\ q.resets \in Nat /\ o.at \in Nat /\ p.at \in Nat /\ q.at \in Nat
  BY DEF Steady, Fact
<1>2. o.at < q.at
  BY <1>1
<1>3. ~SameReset(q.resets, o.resets)
  <2>1. CASE SameReset(p.resets, o.resets)
    <3>1. SUFFICES ASSUME SameReset(q.resets, o.resets) PROVE FALSE
      OBVIOUS
    <3>2. SameReset(o.resets, p.resets)
      BY <1>1, <2>1, ResetFacts
    <3> QED
      BY <3>1, <3>2 DEF Steady
  <2>2. CASE ~SameReset(p.resets, o.resets)
    <3>1. SameReset(o.resets, o.resets)
      BY <1>1, ResetFacts
    <3>2. o.at < p.at
      BY <2>2, <3>1
    <3> QED
      BY <2>2, <3>2, NeverBack
  <2> QED
    BY <2>1, <2>2
<1> QED
  BY <1>2, <1>3, LaterWindow DEF Steady


LEMMA LastMember ==
    ASSUME NEW ms \in Seq(Fact), ToSet(ms) # {}
    PROVE  Last(ms) \in ToSet(ms) /\ Last(ms) \in Fact
<1>1. Len(ms) \in Nat /\ DOMAIN ms = 1 .. Len(ms)
  BY LenProperties
<1>2. DOMAIN ms # {}
  BY DEF ToSet
<1>3. Len(ms) \in DOMAIN ms
  BY <1>1, <1>2
<1> QED
  BY <1>1, <1>3, ElementOfSeq DEF Last, ToSet

LEMMA SegmentFromIs ==
    ASSUME NEW o \in Fact, OfficialStart(o) <= o.at
    PROVE  LET g == SegmentFrom(o)
           IN /\ g \in Segment /\ g # NoSegment /\ g.first = o.at /\ g.start <= o.at
              /\ g.resets = o.resets /\ g.members = <<o>>
              /\ ToSet(g.members) = {o} /\ Last(g.members) = o /\ MemberTimes(g) = {o.at}
              /\ g.start = o.at \/ (o.manual = 0 /\ g.start = OfficialStart(o))
              /\ g.reason \in TentativeReasons => o.manual = 0
<1> DEFINE g == SegmentFrom(o)
<1>1. /\ <<o>> \in Seq(Fact) /\ ToSet(<<o>>) = {o} /\ Last(<<o>>) = o
  BY DEF ToSet, Last
<1>2. CASE o.manual # 0
  <2>1. g = ObservedBaseline(o, "manual_override") /\ "manual_override" \in Reasons
    BY <1>2 DEF SegmentFrom, ManualSegment, Reasons
  <2>2. g = [reason |-> "manual_override", start |-> o.at, first |-> o.at, resets |-> o.resets,
             members |-> <<o>>]
    BY <2>1 DEF ObservedBaseline
  <2>3. g \in Segment /\ g.start <= o.at /\ g.first = o.at
    BY <2>1, ObservedBaselineOK
  <2> HIDE DEF g
  <2>4. g.reason \notin TentativeReasons
    BY <2>2 DEF TentativeReasons
  <2> QED
    BY <1>1, <1>2, <2>2, <2>3, <2>4, NoSegmentIsNone DEF MemberTimes, g
<1>3. CASE o.manual = 0
  <2>1. g = OfficialSegment(o)
    BY <1>3 DEF SegmentFrom
  <2>2. g \in Segment /\ g.start <= o.at /\ g.first = o.at /\ ToSet(g.members) = {o}
    BY <2>1, OfficialSegmentOK
  <2>3. g.resets = o.resets /\ g.members = <<o>> /\ (g.start = o.at \/ g.start = OfficialStart(o))
    BY <2>1 DEF OfficialSegment, ObservedBaseline
  <2> HIDE DEF g
  <2> QED
    BY <1>1, <1>3, <2>2, <2>3, NoSegmentIsNone DEF MemberTimes, g
<1> QED
  BY <1>2, <1>3

\* An observation that begins a segment.
LEMMA OnlineBegins ==
    ASSUME NEW d \in Derivation, NEW o \in Fact, OfficialStart(o) <= o.at, Begins(d, o)
    PROVE  LET n == Online(d, o)
           IN /\ n \in Derivation /\ n.cur = SegmentFrom(o) /\ n.until = o.manual /\ n.out = FALSE
              /\ n.prior = IF d.cur = NoSegment THEN 0 ELSE Last(d.cur.members).at
<1> DEFINE n == Online(d, o)
           prior == IF d.cur = NoSegment THEN 0 ELSE Last(d.cur.members).at
           g == SegmentFrom(o)
<1>1. n = [cur |-> g, until |-> o.manual, out |-> FALSE, prior |-> prior]
  BY DEF Online
<1>2. g \in Segment /\ g # NoSegment /\ ToSet(g.members) # {}
  BY SegmentFromIs
<1>3. prior \in Nat
  <2>1. CASE d.cur = NoSegment
    BY <2>1
  <2>2. CASE d.cur # NoSegment
    <3>1. d.cur \in Segment /\ ToSet(d.cur.members) # {}
      BY <2>2 DEF Derivation
    <3>2. Last(d.cur.members) \in Fact
      BY <3>1, LastMember DEF Segment
    <3> QED
      BY <2>2, <3>2 DEF Fact
  <2> QED
    BY <2>1, <2>2
<1>4. o.manual \in Nat /\ FALSE \in BOOLEAN
  BY DEF Fact
<1> HIDE DEF n, prior, g
<1>5. n \in [cur : Segment \cup {NoSegment}, prior : Nat, until : Nat, out : BOOLEAN]
  BY <1>1, <1>2, <1>3, <1>4
<1>6. n \in Derivation
  BY <1>1, <1>2, <1>5 DEF Derivation
<1> QED
  BY <1>1, <1>6 DEF n, prior, g

\* An observation that does not: it joins the segment, or is excluded because the
\* segment's last percentage is higher.
LEMMA OnlineGoesOn ==
    ASSUME NEW d \in Derivation, NEW o \in Fact, ~Begins(d, o)
    PROVE  LET n == Online(d, o)
           IN /\ n \in Derivation /\ d.cur # NoSegment /\ d.cur \in Segment
              /\ n.cur # NoSegment /\ n.cur \in Segment
              /\ n.prior = d.prior /\ n.cur.start = d.cur.start /\ n.cur.first = d.cur.first
              /\ n.until \in {0, d.until} /\ n.cur.reason = d.cur.reason
              /\ n.out => /\ n.cur = d.cur /\ o.used < Last(d.cur.members).used
                          /\ ~ResetAdvanced(o.resets, d.cur.resets) /\ n.until = 0
              /\ ~n.out =>
                    /\ n.cur.members = Append(d.cur.members, o) /\ Last(n.cur.members) = o
                    /\ MemberTimes(n.cur) = MemberTimes(d.cur) \cup {o.at}
                    /\ \/ n.cur.resets = o.resets
                       \/ n.cur.resets = d.cur.resets /\ ~ResetAdvanced(o.resets, d.cur.resets)
<1> DEFINE n == Online(d, o)   c == d.cur   u == d.until
<1>1. c # NoSegment
  <2>1. SUFFICES ASSUME c = NoSegment PROVE FALSE
    OBVIOUS
  <2>2. d.until = 0
    BY <2>1 DEF Derivation
  <2> QED
    BY <2>1, <2>2 DEF Begins, InManual
<1>2. /\ c \in Segment /\ ToSet(c.members) # {} /\ u \in Nat /\ d.prior \in Nat
      /\ c.members \in Seq(Fact)
  BY <1>1 DEF Derivation, Segment
<1>3. Last(c.members) \in Fact /\ o.used \in Nat /\ Last(c.members).used \in Nat
  BY <1>2, LastMember DEF Fact
<1>4. /\ Last(Append(c.members, o)) = o
      /\ ToSet(Append(c.members, o)) = ToSet(c.members) \cup {o}
  BY <1>2, Appended
<1>5. ASSUME NEW g \in {Join(c, o), JoinMovingReset(c, o)}
      PROVE  /\ g \in Segment /\ g # NoSegment /\ g.start = c.start /\ g.first = c.first
             /\ g.members = Append(c.members, o) /\ g.reason = c.reason
             /\ Last(g.members) = o
             /\ MemberTimes(g) = MemberTimes(c) \cup {o.at} /\ ToSet(g.members) # {}
  <2>1. /\ g \in Segment /\ g.start = c.start /\ g.first = c.first
        /\ g.members = Append(c.members, o) /\ g.reason = c.reason
    BY <1>2, JoinOK
  <2> HIDE DEF c
  <2>2. ToSet(g.members) # {} /\ MemberTimes(g) = MemberTimes(c) \cup {o.at}
    BY <1>4, <2>1 DEF MemberTimes
  <2> QED
    BY <1>4, <2>1, <2>2, NoSegmentIsNone
<1>6. Join(c, o).resets = c.resets /\ JoinMovingReset(c, o).resets = o.resets
  BY <1>2 DEF Join, JoinMovingReset, Segment
<1>7. ASSUME NEW g \in Segment, g # NoSegment, ToSet(g.members) # {}, NEW m \in {0, u},
             NEW b \in BOOLEAN, n = [cur |-> g, until |-> m, out |-> b, prior |-> d.prior]
      PROVE  n \in Derivation
  <2>1. m \in Nat
    BY <1>2
  <2> HIDE DEF n
  <2>2. n \in [cur : Segment \cup {NoSegment}, prior : Nat, until : Nat, out : BOOLEAN]
    BY <1>2, <1>7, <2>1
  <2> QED
    BY <1>7, <2>2 DEF Derivation
<1>8. CASE InManual(d, o)
  <2> DEFINE g == JoinMovingReset(c, o)
  <2>1. n = [cur |-> g, until |-> u, out |-> FALSE, prior |-> d.prior]
    BY <1>8 DEF Online
  <2>2. g \in {Join(c, o), JoinMovingReset(c, o)}
    OBVIOUS
  <2> HIDE DEF n, g, c, u
  <2>3. n \in Derivation
    BY <1>5, <1>7, <2>1, <2>2
  <2> QED
    BY <1>1, <1>2, <1>5, <1>6, <2>1, <2>2, <2>3 DEF n, g, c, u
<1>9. CASE ~InManual(d, o) /\ WaitingForFirstUse(c)
  <2> DEFINE g == JoinMovingReset(c, o)
  <2>1. n = [cur |-> g, until |-> 0, out |-> FALSE, prior |-> d.prior]
    BY <1>9 DEF Online
  <2>2. g \in {Join(c, o), JoinMovingReset(c, o)}
    OBVIOUS
  <2> HIDE DEF n, g, c, u
  <2>3. n \in Derivation
    BY <1>5, <1>7, <2>1, <2>2
  <2> QED
    BY <1>1, <1>2, <1>5, <1>6, <2>1, <2>2, <2>3 DEF n, g, c, u
<1>10. CASE ~InManual(d, o) /\ ~WaitingForFirstUse(c)
  <2>0. ~ResetAdvanced(o.resets, c.resets)
    BY <1>1, <1>10 DEF Begins
  <2>1. CASE o.used >= Last(c.members).used
    <3> DEFINE g == Join(c, o)
    <3>1. n = [cur |-> g, until |-> 0, out |-> FALSE, prior |-> d.prior]
      BY <1>10, <2>1 DEF Online
    <3>2. g \in {Join(c, o), JoinMovingReset(c, o)}
      OBVIOUS
    <3> HIDE DEF n, g, c, u
    <3>3. n \in Derivation
      BY <1>5, <1>7, <3>1, <3>2
    <3> QED
      BY <1>1, <1>2, <1>5, <1>6, <2>0, <3>1, <3>2, <3>3 DEF n, g, c, u
  <2>2. CASE ~(o.used >= Last(c.members).used)
    <3>1. n = [cur |-> c, until |-> 0, out |-> TRUE, prior |-> d.prior]
      BY <1>10, <2>2 DEF Online
    <3>2. o.used < Last(c.members).used
      BY <1>3, <2>2
    <3> HIDE DEF n, c, u
    <3>3. n \in Derivation
      BY <1>1, <1>2, <1>7, <3>1
    <3> QED
      BY <1>1, <1>2, <2>0, <3>1, <3>2, <3>3 DEF n, c, u
  <2> QED
    BY <2>1, <2>2
<1> QED
  BY <1>8, <1>9, <1>10

LEMMA OnlineTyped ==
    ASSUME NEW d \in Derivation, NEW o \in Fact, OfficialStart(o) <= o.at
    PROVE  Online(d, o) \in Derivation /\ Online(d, o).cur # NoSegment
<1>1. CASE Begins(d, o)
  BY <1>1, OnlineBegins, SegmentFromIs
<1>2. CASE ~Begins(d, o)
  BY <1>2, OnlineGoesOn
<1> QED
  BY <1>1, <1>2


LEMMA TraceExists ==
    ASSUME NEW s \in Seq(Fact), Begun(s), NEW kept, NEW n \in 0 .. Len(s)
    PROVE  \E st : Trace(s, kept, n, st)
<1> DEFINE F == [c \in (1 .. n) \X Derivation |->
                   IF c[1] \in kept THEN Online(c[2], s[c[1]]) ELSE c[2]]
           S == [k \in 0 .. n |-> Derivation]
<1>0. n \in Nat /\ \A k \in 1 .. n : k \in DOMAIN s /\ k - 1 \in 0 .. n /\ k \in 0 .. n /\ k # 0
  BY LenProperties
<1>1. Nothing \in Derivation
  <2>1. Nothing = [cur |-> NoSegment, prior |-> 0, until |-> 0, out |-> FALSE]
    BY DEF Nothing
  <2>2. Nothing \in [cur : Segment \cup {NoSegment}, prior : Nat, until : Nat, out : BOOLEAN]
    BY <2>1
  <2> QED
    BY <2>1, <2>2 DEF Derivation
<1>2. ASSUME NEW k \in 1 .. n, NEW w \in S[k - 1]
      PROVE  /\ F[<<k, w>>] = IF k \in kept THEN Online(w, s[k]) ELSE w
             /\ F[<<k, w>>] \in S[k]
  <2>1. w \in Derivation /\ S[k] = Derivation
    BY <1>0
  <2>2. F[<<k, w>>] = IF k \in kept THEN Online(w, s[k]) ELSE w
    BY <2>1
  <2>3. s[k] \in Fact /\ OfficialStart(s[k]) <= s[k].at
    BY <1>0, ElementOfSeq DEF Begun
  <2> HIDE DEF F, S
  <2> QED
    BY <2>1, <2>2, <2>3, OnlineTyped
<1>3. Nothing \in S[0]
  BY <1>0, <1>1
<1>4. PICK h : Runs(h, n, Nothing, F, S)
  <2> HIDE DEF F, S
  <2> QED
    BY <1>0, <1>2, <1>3, RecursionExists
<1>5. /\ h = [k \in 0 .. n |-> IF k = 0 THEN Nothing ELSE F[<<k, h[k - 1]>>]]
      /\ \A k \in 0 .. n : h[k] \in S[k]
  BY <1>4 DEF Runs
<1>6. \A k \in 0 .. n : h[k] \in Derivation
  BY <1>5
<1>7. h[0] = Nothing
  BY <1>0, <1>5
<1>8. ASSUME NEW k \in 1 .. n
      PROVE  h[k] = IF k \in kept THEN Online(h[k - 1], s[k]) ELSE h[k - 1]
  <2>1. h[k] = F[<<k, h[k - 1]>>] /\ h[k - 1] \in S[k - 1]
    <3> HIDE DEF F, S
    <3> QED
      BY <1>0, <1>5
  <2> HIDE DEF F, S
  <2> QED
    BY <1>2, <2>1
<1>9. h \in [0 .. n -> Derivation]
  <2>1. h = [k \in 0 .. n |-> h[k]]
    <3> HIDE DEF F, S
    <3> QED
      BY <1>5
  <2> QED
    BY <1>6, <2>1
<1>10. Trace(s, kept, n, h)
  <2> HIDE DEF F, S
  <2> QED
    BY <1>7, <1>8, <1>9 DEF Trace
<1> QED
  BY <1>10

\* Two traces agree as long as the observations that count do.
Alike(s, kept, t, held, k) ==
    \A j \in 1 .. k : (j \in kept <=> j \in held) /\ (j \in kept => s[j] = t[j])

LEMMA TracesAgree ==
    ASSUME NEW s, NEW kept, NEW n \in Nat, NEW st, Trace(s, kept, n, st),
           NEW t, NEW held, NEW m \in Nat, NEW sv, Trace(t, held, m, sv),
           NEW k \in Nat, k <= n, k <= m, Alike(s, kept, t, held, k)
    PROVE  \A j \in 0 .. k : sv[j] = st[j]
<1> DEFINE S == [j \in 0 .. k |-> {st[j]}]
<1>1. sv[0] \in S[0]
  BY DEF Trace
<1>2. ASSUME NEW j \in 1 .. k, sv[j - 1] \in S[j - 1] PROVE sv[j] \in S[j]
  <2>1. j \in 1 .. n /\ j \in 1 .. m /\ j - 1 \in 0 .. k /\ j \in 0 .. k
    OBVIOUS
  <2>2. sv[j - 1] = st[j - 1]
    BY <1>2, <2>1
  <2>3. sv[j] = st[j]
    BY <2>1, <2>2 DEF Trace, Alike
  <2> QED
    BY <2>1, <2>3
<1>3. \A j \in 0 .. k : sv[j] \in S[j]
  <2> HIDE DEF S
  <2> QED
    BY <1>1, <1>2, RecursionKeeps
<1> QED
  BY <1>3

\* What is open after the j-th: a segment that began at f, before whose start all
\* others were read; its last member is l, and what was read since is excluded; its
\* reset is that of a.
HeldBy(s, kept, st, j, f, l, a) ==
    /\ f <= l /\ l <= j /\ a <= j
    /\ Begins(st[f - 1], s[f])
    /\ st[j].cur # NoSegment
    /\ st[j].cur.first = s[f].at
    /\ st[j].cur.start <= s[f].at /\ st[j].cur.start > 0
    /\ \A i \in kept : i < f => s[i].at < st[j].cur.start
    /\ Last(st[j].cur.members) = s[l] /\ ~st[l].out
    /\ st[j].cur.resets = s[a].resets
    /\ \A i \in kept : l <= i /\ i <= j => SameReset(s[i].resets, s[a].resets)
    /\ \A i \in kept : l < i /\ i <= j => st[i].out /\ s[i].used < s[l].used

TraceOK(s, kept, st, j) ==
    /\ (\A i \in kept : i > j) => st[j] = Nothing
    /\ (\E i \in kept : i <= j) => \E f, l, a \in kept : HeldBy(s, kept, st, j, f, l, a)
    /\ st[j].until = 0 \/ \E i \in kept : i <= j /\ s[i].manual = st[j].until

LEMMA SegmentBegins ==
    ASSUME NEW s \in Seq(Fact), Ascending(s), NEW kept, kept \subseteq DOMAIN s,
           Steady(KeptOf(s, kept)), NEW n \in Nat, NEW st, Trace(s, kept, n, st),
           NEW j \in 1 .. n, j \in kept, TraceOK(s, kept, st, j - 1), Begins(st[j - 1], s[j])
    PROVE  HeldBy(s, kept, st, j, j, j, j)
<1> DEFINE d == st[j - 1]   o == s[j]   g == SegmentFrom(o)
<1>1. st[j] = Online(d, o) /\ d \in Derivation
  <2>1. j - 1 \in 0 .. n
    OBVIOUS
  <2> QED
    BY <2>1 DEF Trace
<1>2. o \in KeptOf(s, kept) /\ \A i \in kept : s[i] \in KeptOf(s, kept) /\ i \in Nat /\ i \in DOMAIN s
  BY LenProperties DEF KeptOf
<1>3. o \in Fact /\ 0 < o.at /\ 0 < OfficialStart(o) /\ OfficialStart(o) <= o.at /\ o.resets \in Nat
      /\ o.at \in Nat
  BY <1>2 DEF Steady, Fact
<1>4. st[j].cur = g /\ st[j].out = FALSE
  <2>1. Begins(d, o)
    OBVIOUS
  <2> HIDE DEF d, o
  <2>2. Online(d, o).cur = g /\ Online(d, o).out = FALSE
    BY <1>1, <1>3, <2>1, OnlineBegins
  <2> QED
    BY <1>1, <2>2
<1>5. /\ g # NoSegment /\ g.first = o.at /\ g.start <= o.at /\ g.resets = o.resets
      /\ Last(g.members) = o /\ (g.start = o.at \/ (o.manual = 0 /\ g.start = OfficialStart(o)))
  BY <1>3, SegmentFromIs
<1>6. ASSUME NEW i \in kept, i < j PROVE s[i].at < g.start
  <2>1. s[i].at < o.at /\ s[i].at \in Nat /\ s[i] \in Fact
    BY <1>2, <1>6 DEF Ascending, Steady, Fact
  <2>2. CASE g.start = o.at
    BY <2>1, <2>2
  <2>3. CASE o.manual = 0 /\ g.start = OfficialStart(o)
    <3>1. i <= j - 1
      BY <1>2, <1>6
    <3>2. PICK f \in kept : \E l, a \in kept : HeldBy(s, kept, st, j - 1, f, l, a)
      BY <3>1 DEF TraceOK
    <3>3. PICK l \in kept : \E a \in kept : HeldBy(s, kept, st, j - 1, f, l, a)
      BY <3>2
    <3>4. PICK a \in kept : HeldBy(s, kept, st, j - 1, f, l, a)
      BY <3>3
    <3>5. /\ d.cur # NoSegment /\ d.cur.resets = s[a].resets /\ l <= j - 1 /\ a <= j - 1
          /\ \A k \in kept : l <= k /\ k <= j - 1 => SameReset(s[k].resets, s[a].resets)
      BY <3>4 DEF HeldBy
    <3>6. ResetAdvanced(o.resets, s[a].resets)
      BY <2>3, <3>5 DEF Begins
    <3>7. /\ s[a].resets \in Nat /\ s[i].resets \in Nat /\ s[l].resets \in Nat /\ s[l] \in Fact
          /\ l \in Nat /\ a \in Nat /\ i \in Nat /\ s[l].at \in Nat
      BY <1>2 DEF Steady, Fact
    <3>8. ~SameReset(o.resets, s[a].resets)
      BY <1>3, <3>6, <3>7, ResetFacts
    <3>9. ASSUME NEW k \in kept, l <= k, k <= j - 1 PROVE ~SameReset(o.resets, s[k].resets)
      <4>1. SameReset(s[k].resets, s[a].resets)
        BY <3>5, <3>9
      <4> QED
        BY <1>2, <3>8, <4>1 DEF Steady
    <3>10. CASE l <= i
      <4>1. ~SameReset(o.resets, s[i].resets)
        BY <3>1, <3>9, <3>10
      <4> QED
        BY <1>2, <2>1, <2>3, <4>1 DEF Steady
    <3>11. CASE i < l
      <4>1. l <= l /\ l < j
        BY <3>5, <3>7
      <4>2. s[i].at < s[l].at /\ s[l].at < o.at
        BY <1>2, <3>11, <4>1 DEF Ascending
      <4>3. ~SameReset(o.resets, s[l].resets)
        BY <3>5, <3>9, <4>1
      <4>4. OfficialStart(o) > s[i].at
        BY <1>2, <4>2, <4>3, NewWindow
      <4> QED
        BY <2>3, <4>4
    <3> QED
      BY <3>7, <3>10, <3>11
  <2> HIDE DEF g
  <2> QED
    BY <1>5, <2>2, <2>3
<1>7. j <= j /\ SameReset(o.resets, o.resets)
  <2>1. SameReset(o.resets, o.resets)
    <3> HIDE DEF o
    <3> QED
      BY <1>3, ResetFacts
  <2> QED
    BY <2>1
<1>8. \A i \in kept : (j <= i /\ i <= j => i = j) /\ ~(j < i /\ i <= j)
  BY <1>2
<1>9. g.start > 0
  BY <1>3, <1>5
<1> HIDE DEF g
<1> QED
  BY <1>4, <1>5, <1>6, <1>7, <1>8, <1>9 DEF HeldBy


LEMMA SegmentGoesOn ==
    ASSUME NEW s \in Seq(Fact), Ascending(s), NEW kept, kept \subseteq DOMAIN s,
           Steady(KeptOf(s, kept)), NEW n \in Nat, NEW st, Trace(s, kept, n, st),
           NEW j \in 1 .. n, j \in kept, TraceOK(s, kept, st, j - 1), ~Begins(st[j - 1], s[j])
    PROVE  \E f, l, a \in kept : HeldBy(s, kept, st, j, f, l, a)
<1> DEFINE d == st[j - 1]   o == s[j]
<1>1. st[j] = Online(d, o) /\ d \in Derivation
  <2>1. j - 1 \in 0 .. n
    OBVIOUS
  <2> QED
    BY <2>1 DEF Trace
<1>2. /\ o \in KeptOf(s, kept)
      /\ \A i \in kept : s[i] \in KeptOf(s, kept) /\ i \in Nat /\ i \in DOMAIN s
  BY LenProperties DEF KeptOf
<1>3. o \in Fact /\ o.resets \in Nat /\ o.at \in Nat
      /\ \A i \in kept : s[i] \in Fact /\ s[i].resets \in Nat
  BY <1>2 DEF Steady, Fact
<1>4. ~Begins(d, o)
  OBVIOUS
<1> HIDE DEF d, o
<1>5. /\ d.cur # NoSegment /\ st[j].cur # NoSegment
      /\ st[j].cur.start = d.cur.start /\ st[j].cur.first = d.cur.first
      /\ st[j].out => st[j].cur = d.cur /\ o.used < Last(d.cur.members).used
                      /\ ~ResetAdvanced(o.resets, d.cur.resets)
      /\ ~st[j].out => /\ Last(st[j].cur.members) = o
                       /\ \/ st[j].cur.resets = o.resets
                          \/ st[j].cur.resets = d.cur.resets /\ ~ResetAdvanced(o.resets, d.cur.resets)
  BY <1>1, <1>3, <1>4, OnlineGoesOn
<1>6. PICK f, l, a \in kept : HeldBy(s, kept, st, j - 1, f, l, a)
  <2>1. \E i \in kept : i <= j - 1
    <3>1. SUFFICES ASSUME \A i \in kept : ~(i <= j - 1) PROVE FALSE
      OBVIOUS
    <3>2. \A i \in kept : i > j - 1
      BY <1>2, <3>1
    <3> QED
      BY <1>5, <3>2 DEF TraceOK, Nothing, d
  <2> QED
    BY <2>1 DEF TraceOK
<1>7. /\ f <= l /\ l <= j - 1 /\ a <= j - 1
      /\ Begins(st[f - 1], s[f])
      /\ d.cur.first = s[f].at
      /\ d.cur.start <= s[f].at /\ d.cur.start > 0
      /\ \A i \in kept : i < f => s[i].at < d.cur.start
      /\ Last(d.cur.members) = s[l] /\ ~st[l].out
      /\ d.cur.resets = s[a].resets
      /\ \A i \in kept : l <= i /\ i <= j - 1 => SameReset(s[i].resets, s[a].resets)
      /\ \A i \in kept : l < i /\ i <= j - 1 => st[i].out /\ s[i].used < s[l].used
  BY <1>6 DEF HeldBy, d
<1>8. /\ f \in Nat /\ l \in Nat /\ a \in Nat /\ l <= j /\ a <= j /\ f <= j /\ a < j
      /\ j \in Nat /\ \A i \in kept : i <= j => i <= j - 1 \/ i = j
  BY <1>2, <1>7
<1>9. ASSUME ~ResetAdvanced(o.resets, s[a].resets) PROVE SameReset(o.resets, s[a].resets)
  <2>1. s[a].at < o.at
    BY <1>2, <1>8 DEF Ascending, o
  <2> QED
    BY <1>2, <1>9, <2>1, LaterWindow
<1>10. SameReset(o.resets, o.resets)
  BY <1>3, ResetFacts
<1>11. CASE st[j].out
  <2>1. SameReset(o.resets, s[a].resets)
    BY <1>5, <1>7, <1>9, <1>11
  <2>2. \A i \in kept : l <= i /\ i <= j => SameReset(s[i].resets, s[a].resets)
    BY <1>7, <1>8, <2>1 DEF o
  <2>3. \A i \in kept : l < i /\ i <= j => st[i].out /\ s[i].used < s[l].used
    BY <1>5, <1>7, <1>8, <1>11 DEF o
  <2>4. HeldBy(s, kept, st, j, f, l, a)
    BY <1>5, <1>7, <1>8, <1>11, <2>2, <2>3 DEF HeldBy
  <2> QED
    BY <2>4
<1>12. CASE ~st[j].out
  <2>1. \A i \in kept : ~(j < i /\ i <= j) /\ (j <= i /\ i <= j => i = j)
    BY <1>2, <1>8
  <2>1a. j <= j
    BY <1>8
  <2>2. CASE st[j].cur.resets = o.resets
    <3>1. HeldBy(s, kept, st, j, f, j, j)
      BY <1>5, <1>7, <1>8, <1>10, <1>12, <2>1, <2>1a, <2>2 DEF HeldBy, o
    <3> QED
      BY <3>1
  <2>3. CASE st[j].cur.resets = d.cur.resets /\ ~ResetAdvanced(o.resets, d.cur.resets)
    <3>0. SameReset(o.resets, s[a].resets)
      BY <1>7, <1>9, <2>3
    <3>1. HeldBy(s, kept, st, j, f, j, a)
      BY <1>5, <1>7, <1>8, <1>12, <2>1, <2>1a, <2>3, <3>0 DEF HeldBy, o
    <3> QED
      BY <3>1
  <2> QED
    BY <1>5, <1>12, <2>2, <2>3
<1> QED
  BY <1>11, <1>12

LEMMA TraceStep ==
    ASSUME NEW s \in Seq(Fact), Ascending(s), NEW kept, kept \subseteq DOMAIN s,
           Steady(KeptOf(s, kept)), NEW n \in Nat, NEW st, Trace(s, kept, n, st),
           NEW j \in 1 .. n, TraceOK(s, kept, st, j - 1)
    PROVE  TraceOK(s, kept, st, j)
<1>0. /\ \A i \in kept : i \in Nat /\ i \in DOMAIN s
      /\ \A i \in kept : (i <= j <=> (i <= j - 1 \/ i = j)) /\ (i > j - 1 <=> (i > j \/ i = j))
      /\ j \in Nat /\ j - 1 \in 0 .. n
  <2>1. DOMAIN s \subseteq Nat
    BY LenProperties
  <2>2. \A i \in Nat : (i <= j <=> (i <= j - 1 \/ i = j)) /\ (i > j - 1 <=> (i > j \/ i = j))
    OBVIOUS
  <2> QED
    BY <2>1, <2>2
<1>1. CASE j \notin kept
  <2>1. st[j] = st[j - 1]
    BY <1>1 DEF Trace
  <2>2. \A i \in kept : (i <= j <=> i <= j - 1) /\ (i > j => i > j - 1)
    BY <1>0, <1>1
  <2>3. ASSUME NEW f \in kept, NEW l \in kept, NEW a \in kept, HeldBy(s, kept, st, j - 1, f, l, a)
        PROVE  HeldBy(s, kept, st, j, f, l, a)
    BY <2>1, <2>2, <2>3 DEF HeldBy
  <2> QED
    BY <2>1, <2>2, <2>3 DEF TraceOK
<1>2. CASE j \in kept
  <2>1. \E f, l, a \in kept : HeldBy(s, kept, st, j, f, l, a)
    <3>1. CASE Begins(st[j - 1], s[j])
      BY <1>2, <3>1, SegmentBegins
    <3>2. CASE ~Begins(st[j - 1], s[j])
      BY <1>2, <3>2, SegmentGoesOn
    <3> QED
      BY <3>1, <3>2
  <2>2. st[j].until = 0 \/ \E i \in kept : i <= j /\ s[i].manual = st[j].until
    <3> DEFINE d == st[j - 1]   o == s[j]
    <3>1. st[j] = Online(d, o) /\ d \in Derivation
      BY <1>0, <1>2 DEF Trace
    <3>2. o \in Fact /\ OfficialStart(o) <= o.at
      BY <1>2 DEF Steady, KeptOf
    <3>3. st[j].until = o.manual \/ st[j].until \in {0, d.until}
      <4> HIDE DEF d, o
      <4>1. CASE Begins(d, o)
        BY <3>1, <3>2, <4>1, OnlineBegins
      <4>2. CASE ~Begins(d, o)
        BY <3>1, <3>2, <4>2, OnlineGoesOn
      <4> QED
        BY <4>1, <4>2
    <3>4. j <= j
      BY <1>0
    <3> QED
      BY <1>0, <1>2, <3>3, <3>4 DEF TraceOK
  <2>3. ~(\A i \in kept : i > j)
    BY <1>0, <1>2
  <2> QED
    BY <2>1, <2>2, <2>3 DEF TraceOK
<1> QED
  BY <1>1, <1>2

LEMMA TraceKeeps ==
    ASSUME NEW s \in Seq(Fact), Ascending(s), NEW kept, kept \subseteq DOMAIN s,
           Steady(KeptOf(s, kept)), NEW n \in Nat, NEW st, Trace(s, kept, n, st)
    PROVE  \A j \in 0 .. n : TraceOK(s, kept, st, j)
<1> DEFINE S == [j \in 0 .. n |-> {d \in Derivation : TraceOK(s, kept, st, j)}]
<1>1. \A j \in 0 .. n : st[j] \in Derivation
  BY DEF Trace
<1>2. TraceOK(s, kept, st, 0)
  <2>1. \A i \in kept : i \in Nat \ {0}
    BY LenProperties
  <2>2. \A i \in kept : ~(i <= 0)
    BY <2>1
  <2>3. st[0] = Nothing
    BY DEF Trace
  <2> QED
    BY <2>2, <2>3 DEF TraceOK, Nothing
<1>3. st[0] \in S[0]
  BY <1>1, <1>2
<1>4. ASSUME NEW j \in 1 .. n, st[j - 1] \in S[j - 1] PROVE st[j] \in S[j]
  <2>1. j - 1 \in 0 .. n /\ j \in 0 .. n
    OBVIOUS
  <2>2. TraceOK(s, kept, st, j - 1)
    BY <1>4, <2>1
  <2> HIDE DEF S
  <2>3. TraceOK(s, kept, st, j)
    BY <2>2, TraceStep
  <2> QED
    BY <1>1, <2>1, <2>3 DEF S
<1>5. \A j \in 0 .. n : st[j] \in S[j]
  <2> HIDE DEF S
  <2> QED
    BY <1>3, <1>4, RecursionKeeps
<1> QED
  BY <1>5


-----------------------------------------------------------------------------
(* The loop of infer_segments decides as the derivations do *)

EarlierTime(segs, k) == IF k = 1 THEN 0 ELSE Last(segs[k - 1].members).at

\* How an observation is found in the segments and the excluded times.
SeenAs(d, o, segs, auto) ==
    IF d.out THEN o.at \in auto
    ELSE \E k \in DOMAIN segs :
            /\ o \in ToSet(segs[k].members)
            /\ segs[k].start = d.cur.start /\ segs[k].first = d.cur.first
            /\ MemberTimes(d.cur) = {t \in MemberTimes(segs[k]) : t <= o.at}
            /\ d.prior = EarlierTime(segs, k)

\* A tentative window is of a later reset than the segment before it.
Onward(w, list) ==
    (w.cur.reason \in TentativeReasons /\ w.segs # <<>>) =>
        \E a, b \in 1 .. w.i - 1 :
            /\ a < b /\ ~SameReset(list[b].resets, list[a].resets)
            /\ list[a].resets = Last(w.segs).resets /\ list[b].resets = w.cur.resets

Agrees(w, list, st) ==
    /\ st[w.i - 1].cur = w.cur /\ st[w.i - 1].until = w.until
    /\ st[w.i - 1].prior = IF w.segs = <<>> THEN 0 ELSE Last(Last(w.segs).members).at
    /\ \A j \in 1 .. w.i - 1 : SeenAs(st[j], list[j], CloseCurrent(w), w.auto)
    /\ Onward(w, list)

\* The setting of what follows: a list of readings as an upstream gives them, and
\* its trace.
Traced(list, st) ==
    /\ list \in Seq(Fact) /\ Ascending(list) /\ Steady(ToSet(list))
    /\ Trace(list, DOMAIN list, Len(list), st)

LEMMA TracedIs ==
    ASSUME NEW list, NEW st, Traced(list, st)
    PROVE  /\ Len(list) \in Nat /\ DOMAIN list = 1 .. Len(list) /\ Begun(list)
           /\ \A j \in 1 .. Len(list) :
                 /\ list[j] \in ToSet(list) /\ list[j] \in Fact /\ list[j].resets \in Nat
                 /\ list[j].at \in Nat /\ list[j].used \in Nat /\ OfficialStart(list[j]) <= list[j].at
                 /\ st[j] = Online(st[j - 1], list[j]) /\ st[j - 1] \in Derivation
                 /\ TraceOK(list, DOMAIN list, st, j - 1)
           /\ \A i, j \in 1 .. Len(list) : i < j => list[i].at < list[j].at
<1> DEFINE n == Len(list)   kept == DOMAIN list
<1>1. n \in Nat /\ kept = 1 .. n
  BY LenProperties DEF Traced
<1>2. KeptOf(list, kept) = ToSet(list)
  BY DEF KeptOf, ToSet
<1>3. \A j \in 0 .. n : TraceOK(list, kept, st, j)
  <2>1. kept \subseteq DOMAIN list
    OBVIOUS
  <2> HIDE DEF n, kept
  <2> QED
    BY <1>1, <1>2, <2>1, TraceKeeps DEF Traced, n, kept
<1>4. \A j \in 1 .. n : j - 1 \in 0 .. n /\ j \in kept
  BY <1>1
<1>5. \A j \in kept : list[j] \in ToSet(list)
  BY DEF ToSet
<1>6. \A o \in ToSet(list) : /\ o \in Fact /\ o.resets \in Nat /\ o.at \in Nat /\ o.used \in Nat
                             /\ OfficialStart(o) <= o.at
  BY DEF Traced, Steady, Fact
<1>7. \A j \in 1 .. n : st[j] = Online(st[j - 1], list[j]) /\ st[j - 1] \in Derivation
  BY <1>4 DEF Traced, Trace
<1>8. Begun(list)
  BY <1>5, <1>6 DEF Begun
<1>9. \A i, j \in 1 .. n : i < j => list[i].at < list[j].at
  BY <1>1 DEF Traced, Ascending
<1> QED
  BY <1>1, <1>3, <1>4, <1>5, <1>6, <1>7, <1>8, <1>9

LEMMA ClosedIs ==
    ASSUME NEW list, NEW w, WalkOK(w, list)
    PROVE  /\ w.segs \in Seq(Segment) /\ Len(w.segs) \in Nat /\ DOMAIN w.segs = 1 .. Len(w.segs)
           /\ w.segs = <<>> <=> Len(w.segs) = 0
           /\ w.cur = NoSegment => CloseCurrent(w) = <<>> /\ w.segs = <<>>
           /\ w.cur # NoSegment => /\ w.cur \in Segment /\ CloseCurrent(w) = Append(w.segs, w.cur)
           /\ CloseCurrent(w) \in Seq(Segment)
<1>1. w.segs \in Seq(Segment) /\ w.cur \in Segment \cup {NoSegment} /\ (w.cur = NoSegment => w.segs = <<>>)
  BY DEF WalkOK, WalkState
<1>2. Len(w.segs) \in Nat /\ DOMAIN w.segs = 1 .. Len(w.segs) /\ (w.segs = <<>> <=> Len(w.segs) = 0)
  BY <1>1, LenProperties, EmptySeq
<1>3. CloseCurrent(w) \in Seq(Segment)
  BY DEF WalkOK, Accounted
<1> QED
  BY <1>1, <1>2, <1>3 DEF CloseCurrent

\* A segment begins.
LEMMA AgreesOpen ==
    ASSUME NEW list, NEW st, Traced(list, st), NEW w, WalkOK(w, list), Agrees(w, list, st),
           NEW i, i = w.i, i <= Len(list), Begins(st[i - 1], list[i]),
           NEW n, n.i = i + 1, n.segs = CloseCurrent(w), n.cur = SegmentFrom(list[i]),
           n.until = list[i].manual, n.auto = w.auto
    PROVE  Agrees(n, list, st)
<1> DEFINE o == list[i]   d == st[i - 1]   g == SegmentFrom(o)   all == CloseCurrent(w)
<1>1. i \in Nat /\ i \in 1 .. Len(list) /\ n.i - 1 = i
  BY TracedIs DEF WalkOK, WalkState
<1>2. /\ o \in Fact /\ OfficialStart(o) <= o.at /\ o.at \in Nat
      /\ st[i] = Online(d, o) /\ d \in Derivation
  BY <1>1, TracedIs
<1>3. /\ st[i].cur = g /\ st[i].until = o.manual /\ st[i].out = FALSE
      /\ st[i].prior = IF d.cur = NoSegment THEN 0 ELSE Last(d.cur.members).at
  <2>1. Begins(d, o)
    OBVIOUS
  <2> DEFINE m == Online(d, o)
  <2> HIDE DEF d, o
  <2>2. /\ m.cur = SegmentFrom(o) /\ m.until = o.manual /\ m.out = FALSE
        /\ m.prior = IF d.cur = NoSegment THEN 0 ELSE Last(d.cur.members).at
    BY <1>2, <2>1, OnlineBegins
  <2> QED
    BY <1>2, <2>2
<1>4. /\ g \in Segment /\ g # NoSegment /\ g.resets = o.resets /\ MemberTimes(g) = {o.at}
      /\ ToSet(g.members) = {o} /\ (g.reason \in TentativeReasons => o.manual = 0)
  BY <1>2, SegmentFromIs
<1>5. d.cur = w.cur
  BY DEF Agrees
<1>6. /\ all \in Seq(Segment) /\ Len(all) \in Nat /\ DOMAIN all = 1 .. Len(all)
      /\ w.cur = NoSegment => all = <<>>
      /\ w.cur # NoSegment => all # <<>> /\ Len(all) # 0 /\ Last(all) = w.cur /\ all[Len(all)] = w.cur
  <2>1. all \in Seq(Segment) /\ (w.cur = NoSegment => all = <<>>)
    BY ClosedIs
  <2>2. Len(all) \in Nat /\ DOMAIN all = 1 .. Len(all)
    BY <2>1, LenProperties
  <2>3. ASSUME w.cur # NoSegment
        PROVE  all # <<>> /\ Len(all) # 0 /\ Last(all) = w.cur /\ all[Len(all)] = w.cur
    <3>1. all = Append(w.segs, w.cur) /\ w.cur \in Segment /\ w.segs \in Seq(Segment) /\ Len(w.segs) \in Nat
      BY <2>3, ClosedIs
    <3>2. Len(all) = Len(w.segs) + 1 /\ Last(all) = w.cur /\ all[Len(w.segs) + 1] = w.cur
      <4> HIDE DEF all
      <4> QED
        BY <3>1, Appended
    <3> HIDE DEF all
    <3>3. Len(<<>>) = 0 /\ Len(all) # 0
      BY <3>1, <3>2
    <3> QED
      BY <3>2, <3>3
  <2> HIDE DEF all
  <2> QED
    BY <2>1, <2>2, <2>3
<1>7. CloseCurrent(n) = Append(all, g)
  BY <1>4 DEF CloseCurrent
<1> DEFINE new == Append(all, g)
<1>8. /\ Len(new) = Len(all) + 1 /\ DOMAIN new = DOMAIN all \cup {Len(all) + 1}
      /\ \A k \in DOMAIN all : new[k] = all[k]
      /\ new[Len(all) + 1] = g
  <2> HIDE DEF all, g
  <2> QED
    BY <1>4, <1>6, Appended
<1> HIDE DEF new
<1>9. ASSUME NEW j \in 1 .. i - 1 PROVE SeenAs(st[j], list[j], new, n.auto)
  <2>1. SeenAs(st[j], list[j], all, w.auto)
    BY DEF Agrees
  <2>2. CASE st[j].out
    BY <2>1, <2>2 DEF SeenAs
  <2>3. CASE ~st[j].out
    <3>1. PICK k \in DOMAIN all :
            /\ list[j] \in ToSet(all[k].members)
            /\ all[k].start = st[j].cur.start /\ all[k].first = st[j].cur.first
            /\ MemberTimes(st[j].cur) = {t \in MemberTimes(all[k]) : t <= list[j].at}
            /\ st[j].prior = EarlierTime(all, k)
      BY <2>1, <2>3 DEF SeenAs
    <3> HIDE DEF all, o, d, g
    <3>2. new[k] = all[k] /\ k \in DOMAIN new
      BY <1>8
    <3>3. EarlierTime(new, k) = EarlierTime(all, k)
      <4>1. k = 1 \/ k - 1 \in DOMAIN all
        BY <1>6
      <4> QED
        BY <1>8, <4>1 DEF EarlierTime
    <3> QED
      BY <2>3, <3>1, <3>2, <3>3 DEF SeenAs
  <2> QED
    BY <2>2, <2>3
<1>10. SeenAs(st[i], o, new, n.auto)
  <2> DEFINE k == Len(all) + 1
  <2>1. k \in DOMAIN new /\ new[k] = g
    BY <1>8
  <2>2. o \in ToSet(new[k].members)
    BY <1>4, <2>1
  <2>3. MemberTimes(st[i].cur) = {t \in MemberTimes(new[k]) : t <= o.at}
    <3>1. o.at <= o.at
      BY <1>2
    <3> HIDE DEF g, o, k
    <3> QED
      BY <1>3, <1>4, <2>1, <3>1
  <2>4. st[i].prior = EarlierTime(new, k)
    <3>1. CASE w.cur = NoSegment
      <4>1. all = <<>> /\ k = 1
        BY <1>6, <3>1
      <4> QED
        BY <1>3, <1>5, <3>1, <4>1 DEF EarlierTime
    <3>2. CASE w.cur # NoSegment
      <4>1. k - 1 = Len(all) /\ Len(all) \in DOMAIN all /\ k # 1
        BY <1>6, <3>2
      <4>2. new[k - 1] = w.cur
        BY <1>6, <1>8, <3>2, <4>1
      <4> QED
        BY <1>3, <1>5, <3>2, <4>1, <4>2 DEF EarlierTime
    <3> QED
      BY <3>1, <3>2
  <2> HIDE DEF k
  <2> QED
    BY <1>3, <2>1, <2>2, <2>3, <2>4 DEF SeenAs
<1>11. \A j \in 1 .. n.i - 1 : SeenAs(st[j], list[j], CloseCurrent(n), n.auto)
  <2>1. \A j \in 1 .. n.i - 1 : j \in 1 .. i - 1 \/ j = i
    BY <1>1
  <2> QED
    BY <1>7, <1>9, <1>10, <2>1 DEF new
<1>12. st[n.i - 1].prior = IF n.segs = <<>> THEN 0 ELSE Last(Last(n.segs).members).at
  BY <1>1, <1>3, <1>5, <1>6
<1>13. Onward(n, list)
  <2> SUFFICES ASSUME g.reason \in TentativeReasons, all # <<>>
               PROVE  \E a, b \in 1 .. n.i - 1 :
                        /\ a < b /\ ~SameReset(list[b].resets, list[a].resets)
                        /\ list[a].resets = Last(all).resets /\ list[b].resets = g.resets
    BY DEF Onward
  <2>1. w.cur # NoSegment /\ Last(all) = w.cur /\ o.manual = 0
    BY <1>4, <1>6
  <2>2. ResetAdvanced(o.resets, w.cur.resets)
    BY <1>5, <2>1 DEF Begins
  <2>3. \E k \in DOMAIN list : k <= i - 1
    <3>1. TraceOK(list, DOMAIN list, st, i - 1) /\ DOMAIN list \subseteq Nat
      BY <1>1, TracedIs
    <3>2. SUFFICES ASSUME \A k \in DOMAIN list : ~(k <= i - 1) PROVE FALSE
      OBVIOUS
    <3>3. \A k \in DOMAIN list : k > i - 1
      BY <1>1, <3>1, <3>2
    <3>4. d = Nothing
      BY <3>1, <3>3 DEF TraceOK
    <3> QED
      BY <1>5, <2>1, <3>4 DEF Nothing
  <2>4. \E f, l, a \in DOMAIN list : HeldBy(list, DOMAIN list, st, i - 1, f, l, a)
    BY <1>1, <2>3, TracedIs DEF TraceOK
  <2>5. PICK a \in DOMAIN list : a <= i - 1 /\ d.cur.resets = list[a].resets
    BY <2>4 DEF HeldBy
  <2>6. a \in 1 .. n.i - 1 /\ i \in 1 .. n.i - 1 /\ a < i
    BY <1>1, <2>5, TracedIs
  <2>7. list[a].resets \in Nat /\ o.resets \in Nat
    BY <1>1, <2>5, TracedIs
  <2>8. ~SameReset(list[i].resets, list[a].resets)
    BY <1>5, <2>2, <2>5, <2>7, ResetFacts
  <2> QED
    BY <1>4, <1>5, <2>1, <2>5, <2>6, <2>8
<1> QED
  BY <1>1, <1>3, <1>11, <1>12, <1>13 DEF Agrees


\* The segment goes on.
LEMMA AgreesJoin ==
    ASSUME NEW list, NEW st, Traced(list, st), NEW w, WalkOK(w, list), Agrees(w, list, st),
           NEW i, i = w.i, i <= Len(list), ~Begins(st[i - 1], list[i]), ~st[i].out,
           NEW n, WalkOK(n, list), n.i = i + 1, n.segs = w.segs, n.cur = st[i].cur,
           n.until = st[i].until, n.auto = w.auto
    PROVE  Agrees(n, list, st)
<1> DEFINE o == list[i]   d == st[i - 1]
<1>1. /\ i \in Nat /\ i \in 1 .. Len(list) /\ n.i - 1 = i
      /\ \A j \in 1 .. i - 1 : j \in 1 .. Len(list) /\ j < i
  BY TracedIs DEF WalkOK, WalkState
<1>2. /\ o \in Fact /\ o.at \in Nat /\ st[i] = Online(d, o) /\ d \in Derivation
  BY <1>1, TracedIs
<1>3. /\ w.cur = d.cur /\ w.cur # NoSegment /\ n.cur # NoSegment /\ n.cur \in Segment
      /\ st[i].prior = d.prior /\ n.cur.start = w.cur.start /\ n.cur.first = w.cur.first
      /\ n.cur.reason = w.cur.reason
      /\ n.cur.members = Append(w.cur.members, o)
      /\ MemberTimes(n.cur) = MemberTimes(w.cur) \cup {o.at}
      /\ n.cur.resets = o.resets \/ n.cur.resets = w.cur.resets
  <2>1. ~Begins(d, o) /\ w.cur = d.cur /\ ~st[i].out /\ n.cur = st[i].cur
    BY DEF Agrees
  <2> DEFINE x == Online(d, o)
  <2> HIDE DEF d, o
  <2>2. /\ d.cur # NoSegment /\ x.cur # NoSegment /\ x.cur \in Segment
        /\ x.prior = d.prior /\ x.cur.start = d.cur.start /\ x.cur.first = d.cur.first
        /\ x.cur.reason = d.cur.reason
        /\ ~x.out =>
              /\ x.cur.members = Append(d.cur.members, o)
              /\ MemberTimes(x.cur) = MemberTimes(d.cur) \cup {o.at}
              /\ x.cur.resets = o.resets \/ x.cur.resets = d.cur.resets
    BY <1>2, <2>1, OnlineGoesOn
  <2> HIDE DEF x
  <2>3. st[i] = x
    BY <1>2 DEF x
  <2> QED
    BY <2>1, <2>2, <2>3
<1> DEFINE all == CloseCurrent(w)   new == CloseCurrent(n)   m == Len(w.segs)
<1>4. /\ w.segs \in Seq(Segment) /\ m \in Nat /\ w.cur \in Segment
      /\ all = Append(w.segs, w.cur) /\ new = Append(w.segs, n.cur)
      /\ DOMAIN w.segs = 1 .. m /\ (w.segs = <<>> <=> m = 0)
  BY <1>3, ClosedIs
<1>5. /\ DOMAIN all = 1 .. m + 1 /\ DOMAIN new = 1 .. m + 1
      /\ all[m + 1] = w.cur /\ new[m + 1] = n.cur
      /\ \A k \in 1 .. m : all[k] = w.segs[k] /\ new[k] = w.segs[k]
  <2>0. ASSUME NEW g \in Segment
        PROVE  /\ DOMAIN Append(w.segs, g) = DOMAIN w.segs \cup {m + 1}
               /\ \A k \in DOMAIN w.segs : Append(w.segs, g)[k] = w.segs[k]
               /\ Append(w.segs, g)[m + 1] = g
    BY <1>4, Appended
  <2> HIDE DEF m
  <2>1. /\ DOMAIN all = DOMAIN w.segs \cup {m + 1}
        /\ \A k \in DOMAIN w.segs : all[k] = w.segs[k]
        /\ all[m + 1] = w.cur
        /\ DOMAIN new = DOMAIN w.segs \cup {m + 1}
        /\ \A k \in DOMAIN w.segs : new[k] = w.segs[k]
        /\ new[m + 1] = n.cur
    <3> HIDE DEF all, new
    <3> QED
      BY <1>3, <1>4, <2>0
  <2>2. 1 .. m + 1 = (1 .. m) \cup {m + 1}
    BY <1>4
  <2> QED
    BY <1>4, <2>1, <2>2
<1>6. \A k \in 1 .. m + 1 : k = m + 1 \/ k \in 1 .. m
  BY <1>4
<1> HIDE DEF all, new
<1>7. ASSUME NEW k \in 1 .. m + 1 PROVE EarlierTime(new, k) = EarlierTime(all, k)
  <2>1. k = 1 \/ k - 1 \in 1 .. m
    BY <1>4
  <2>2. CASE k = 1
    BY <2>2 DEF EarlierTime
  <2>3. CASE k # 1
    <3>1. k - 1 \in 1 .. m
      BY <2>1, <2>3
    <3>2. new[k - 1] = all[k - 1]
      BY <1>5, <3>1
    <3> HIDE DEF m
    <3> QED
      BY <2>3, <3>2 DEF EarlierTime
  <2> QED
    BY <2>2, <2>3
<1>8. ToSet(n.cur.members) = ToSet(w.cur.members) \cup {o}
  <2>1. w.cur.members \in Seq(Fact) /\ o \in Fact /\ n.cur.members = Append(w.cur.members, o)
    BY <1>2, <1>3, <1>4 DEF Segment
  <2> HIDE DEF o
  <2> QED
    BY <2>1, Appended
<1>9. ASSUME NEW j \in 1 .. i - 1 PROVE SeenAs(st[j], list[j], new, n.auto)
  <2>1. SeenAs(st[j], list[j], all, w.auto)
    BY DEF Agrees, all
  <2>2. CASE st[j].out
    BY <2>1, <2>2 DEF SeenAs
  <2>3. CASE ~st[j].out
    <3>1. PICK k \in DOMAIN all :
            /\ list[j] \in ToSet(all[k].members)
            /\ all[k].start = st[j].cur.start /\ all[k].first = st[j].cur.first
            /\ MemberTimes(st[j].cur) = {t \in MemberTimes(all[k]) : t <= list[j].at}
            /\ st[j].prior = EarlierTime(all, k)
      BY <2>1, <2>3 DEF SeenAs
    <3>2. EarlierTime(new, k) = EarlierTime(all, k) /\ k \in DOMAIN new
      BY <1>5, <1>7
    <3>3. CASE k \in 1 .. m
      <4>1. new[k] = all[k]
        BY <1>5, <3>3
      <4> QED
        BY <2>3, <3>1, <3>2, <4>1 DEF SeenAs
    <3>4. CASE k = m + 1
      <4>1. all[k] = w.cur /\ new[k] = n.cur
        BY <1>5, <3>4
      <4>2. list[j] \in ToSet(new[k].members)
        BY <1>8, <3>1, <4>1
      <4>3. ~(o.at <= list[j].at)
        <5>1. list[j].at < list[i].at /\ list[j].at \in Nat
          BY <1>1, TracedIs
        <5> QED
          BY <1>2, <5>1
      <4>4. {t \in MemberTimes(new[k]) : t <= list[j].at} = {t \in MemberTimes(all[k]) : t <= list[j].at}
        <5> HIDE DEF o
        <5> QED
          BY <1>3, <4>1, <4>3
      <4>5. new[k].start = all[k].start /\ new[k].first = all[k].first
        BY <1>3, <4>1
      <4> QED
        BY <2>3, <3>1, <3>2, <4>2, <4>4, <4>5 DEF SeenAs
    <3> QED
      BY <1>5, <1>6, <3>3, <3>4
  <2> QED
    BY <2>2, <2>3
<1>10. SeenAs(st[i], o, new, n.auto)
  <2> DEFINE k == m + 1
  <2>1. k \in DOMAIN new /\ new[k] = n.cur
    BY <1>4, <1>5
  <2>2. o \in ToSet(new[k].members)
    BY <1>8, <2>1
  <2>3. \A t \in MemberTimes(n.cur) : t <= o.at
    <3>1. ToSet(new[k].members) \subseteq Seen(list, n.i - 1)
      BY <2>1 DEF WalkOK, Accounted, new
    <3>2. \A x \in Seen(list, i) : x.at <= o.at
      <4>1. ASSUME NEW h \in 1 .. i PROVE list[h].at <= o.at
        <5>1. CASE h = i
          BY <1>2, <5>1
        <5>2. CASE h # i
          <6>1. h \in 1 .. Len(list) /\ h < i
            BY <1>1, <5>2
          <6>2. list[h].at < list[i].at /\ list[h].at \in Nat
            BY <1>1, <6>1, TracedIs
          <6> QED
            BY <1>2, <6>2
        <5> QED
          BY <5>1, <5>2
      <4> QED
        BY <4>1 DEF Seen
    <3> QED
      BY <1>1, <2>1, <3>1, <3>2 DEF MemberTimes
  <2>4. st[i].prior = EarlierTime(new, k)
    <3>1. d.prior = IF w.segs = <<>> THEN 0 ELSE Last(Last(w.segs).members).at
      BY DEF Agrees
    <3>2. CASE m = 0
      <4>1. k = 1 /\ w.segs = <<>>
        BY <1>4, <3>2
      <4> HIDE DEF k, m
      <4> QED
        BY <1>3, <3>1, <4>1 DEF EarlierTime
    <3>3. CASE m # 0
      <4>1. k # 1 /\ k - 1 = m /\ m \in 1 .. m
        BY <1>4, <3>3
      <4>2. new[k - 1] = Last(w.segs)
        BY <1>5, <4>1 DEF Last
      <4> HIDE DEF k, m
      <4> QED
        BY <1>3, <1>4, <3>1, <3>3, <4>1, <4>2 DEF EarlierTime
    <3> QED
      BY <3>2, <3>3
  <2> HIDE DEF k
  <2>5. MemberTimes(st[i].cur) = {t \in MemberTimes(new[k]) : t <= o.at}
    BY <2>1, <2>3
  <2>6. new[k].start = st[i].cur.start /\ new[k].first = st[i].cur.first
    BY <2>1
  <2> QED
    BY <2>1, <2>2, <2>4, <2>5, <2>6 DEF SeenAs
<1>11. \A j \in 1 .. n.i - 1 : SeenAs(st[j], list[j], CloseCurrent(n), n.auto)
  <2>1. \A j \in 1 .. n.i - 1 : j \in 1 .. i - 1 \/ j = i
    BY <1>1
  <2> QED
    BY <1>9, <1>10, <2>1 DEF new
<1>12. Onward(n, list)
  <2> SUFFICES ASSUME n.cur.reason \in TentativeReasons, w.segs # <<>>
               PROVE  \E a, b \in 1 .. n.i - 1 :
                        /\ a < b /\ ~SameReset(list[b].resets, list[a].resets)
                        /\ list[a].resets = Last(w.segs).resets /\ list[b].resets = n.cur.resets
    BY DEF Onward
  <2>1. PICK a \in 1 .. i - 1, b \in 1 .. i - 1 :
           /\ a < b /\ ~SameReset(list[b].resets, list[a].resets)
           /\ list[a].resets = Last(w.segs).resets /\ list[b].resets = w.cur.resets
    BY <1>3 DEF Agrees, Onward
  <2>2. a \in 1 .. n.i - 1 /\ b \in 1 .. n.i - 1 /\ i \in 1 .. n.i - 1 /\ a < i /\ b < i
    BY <1>1
  <2>3. CASE n.cur.resets = w.cur.resets
    BY <2>1, <2>2, <2>3
  <2>4. CASE n.cur.resets = o.resets
    <3>1. list[a].at < list[b].at /\ list[b].at < list[i].at
      BY <1>1, <2>1, TracedIs
    <3>2. list[a] \in ToSet(list) /\ list[b] \in ToSet(list) /\ list[i] \in ToSet(list)
      BY <1>1, TracedIs
    <3>3. ~SameReset(list[i].resets, list[a].resets)
      BY <2>1, <3>1, <3>2, NeverBack DEF Traced
    <3> QED
      BY <2>1, <2>2, <2>4, <3>3
  <2> QED
    BY <1>3, <2>3, <2>4
<1>13. st[n.i - 1].prior = IF n.segs = <<>> THEN 0 ELSE Last(Last(n.segs).members).at
  BY <1>1, <1>3 DEF Agrees
<1> QED
  BY <1>1, <1>11, <1>12, <1>13 DEF Agrees

\* A low run: lower percentages, of the same reset, without a manual start.
IsLow(list, cur, i, k) ==
    \A j \in i + 1 .. k - 1 :
        /\ list[j].manual = 0 /\ SameReset(list[j].resets, cur.resets)
        /\ ~(list[j].used >= Last(cur.members).used)

LEMMA LowRun ==
    ASSUME NEW list, NEW st, Traced(list, st), NEW i \in 1 .. Len(list),
           ~Begins(st[i - 1], list[i]), st[i].out,
           NEW k \in i + 1 .. Len(list) + 1, IsLow(list, st[i - 1].cur, i, k)
    PROVE  \A j \in i .. k - 1 :
              st[j].out /\ st[j].cur = st[i - 1].cur /\ st[j].until = 0 /\ st[j].prior = st[i - 1].prior
<1> DEFINE d == st[i - 1]   o == list[i]   low == [cur |-> d.cur, until |-> 0, out |-> TRUE, prior |-> d.prior]
           n == Len(list)
           S == [j \in 0 .. n |-> IF j \in i .. k - 1 THEN {low} ELSE {st[j]}]
<1>1. /\ n \in Nat /\ i \in Nat /\ k \in Nat /\ i <= n /\ k <= n + 1 /\ 1 <= i /\ i < k
      /\ \A j \in 1 .. n : /\ st[j] = Online(st[j - 1], list[j]) /\ st[j - 1] \in Derivation
                           /\ list[j] \in Fact /\ list[j].resets \in Nat
  BY TracedIs
<1>2. ~Begins(d, o) /\ st[i] = Online(d, o) /\ d \in Derivation /\ o \in Fact /\ st[i].out = TRUE
  <2>1. Online(d, o) \in Derivation
    BY <1>1, OnlineGoesOn
  <2> QED
    BY <1>1, <2>1 DEF Derivation
<1>3. /\ d.cur # NoSegment /\ d.cur \in Segment /\ ~InManual(d, o) /\ ~WaitingForFirstUse(d.cur)
      /\ st[i] = low
  <2> HIDE DEF d, o
  <2>1. d.cur # NoSegment /\ d.cur \in Segment
    BY <1>2, OnlineGoesOn
  <2>2. ~InManual(d, o) /\ ~WaitingForFirstUse(d.cur) /\ st[i] = low
    BY <1>2 DEF Online
  <2> QED
    BY <2>1, <2>2
<1>4. d.cur.resets \in Nat
  BY <1>3 DEF Segment
<1>5. ASSUME NEW j \in 1 .. n, st[j - 1] \in S[j - 1] PROVE st[j] \in S[j]
  <2>1. j - 1 \in 0 .. n /\ j \in 0 .. n
    BY <1>1
  <2>2. CASE j \notin i .. k - 1
    BY <2>1, <2>2
  <2>3. CASE j = i
    BY <1>1, <1>3, <2>1, <2>3
  <2>4. CASE j \in i + 1 .. k - 1
    <3>1. j - 1 \in i .. k - 1 /\ j \in i .. k - 1
      BY <1>1, <2>4
    <3>2. st[j - 1] = low
      BY <1>5, <2>1, <3>1
    <3> DEFINE x == list[j]
    <3>3. /\ x.manual = 0 /\ SameReset(x.resets, d.cur.resets) /\ ~(x.used >= Last(d.cur.members).used)
          /\ x.resets \in Nat /\ st[j] = Online(low, x)
      BY <1>1, <2>4, <3>2 DEF IsLow
    <3>4. ~ResetAdvanced(x.resets, d.cur.resets)
      <4> HIDE DEF d, x
      <4> QED
        BY <1>4, <3>3, ResetFacts
    <3>5. low.cur = d.cur /\ low.until = 0 /\ low.prior = d.prior
      OBVIOUS
    <3> HIDE DEF low, d, x
    <3>6. ~InManual(low, x)
      BY <3>5 DEF InManual
    <3>7. ~Begins(low, x)
      BY <1>3, <3>3, <3>4, <3>5 DEF Begins
    <3>8. Online(low, x) = [cur |-> low.cur, until |-> 0, out |-> TRUE, prior |-> low.prior]
      BY <1>3, <3>3, <3>5, <3>6, <3>7 DEF Online
    <3>9. st[j] = low
      BY <3>3, <3>5, <3>8 DEF low
    <3> QED
      BY <2>1, <3>1, <3>9
  <2>5. j \notin i .. k - 1 \/ j = i \/ j \in i + 1 .. k - 1
    BY <1>1
  <2> QED
    BY <2>2, <2>3, <2>4, <2>5
<1>6. st[0] \in S[0]
  BY <1>1
<1>7. \A j \in 0 .. n : st[j] \in S[j]
  <2> HIDE DEF S, n
  <2> QED
    BY <1>1, <1>5, <1>6, RecursionKeeps
<1>8. \A j \in i .. k - 1 : j \in 0 .. n
  BY <1>1
<1> SUFFICES ASSUME NEW j \in i .. k - 1
             PROVE  st[j].out /\ st[j].cur = d.cur /\ st[j].until = 0 /\ st[j].prior = d.prior
  OBVIOUS
<1>9. st[j] = low
  BY <1>7, <1>8
<1> HIDE DEF d
<1> QED
  BY <1>9

\* A low run is excluded, and the segment stays open.
LEMMA AgreesSkip ==
    ASSUME NEW list, NEW st, Traced(list, st), NEW w, WalkOK(w, list), Agrees(w, list, st),
           NEW i, i = w.i, i <= Len(list), ~Begins(st[i - 1], list[i]), st[i].out,
           NEW k \in i + 1 .. Len(list) + 1,
           IsLow(list, w.cur, i, k),
           NEW n, n.i = k, n.segs = w.segs, n.cur = w.cur, n.until = 0,
           n.auto = w.auto \cup TimesOf(list, i, k - 1)
    PROVE  Agrees(n, list, st)
<1>1. /\ i \in Nat /\ i \in 1 .. Len(list) /\ k \in Nat /\ i < k
      /\ n.i - 1 = k - 1 /\ k - 1 \in i .. k - 1
      /\ \A j \in 1 .. k - 1 : j \in 1 .. i - 1 \/ j \in i .. k - 1
      /\ \A j \in 1 .. i - 1 : j \in 1 .. n.i - 1
  BY TracedIs DEF WalkOK, WalkState
<1>2. w.cur = st[i - 1].cur
  BY DEF Agrees
<1>3. \A j \in i .. k - 1 :
         st[j].out /\ st[j].cur = w.cur /\ st[j].until = 0 /\ st[j].prior = st[i - 1].prior
  <2>1. IsLow(list, st[i - 1].cur, i, k)
    BY <1>2
  <2>3. \A j \in i .. k - 1 :
           st[j].out /\ st[j].cur = st[i - 1].cur /\ st[j].until = 0 /\ st[j].prior = st[i - 1].prior
    <3>1. Traced(list, st) /\ i \in 1 .. Len(list) /\ ~Begins(st[i - 1], list[i]) /\ st[i].out
      BY <1>1
    <3>2. k \in i + 1 .. Len(list) + 1
      OBVIOUS
    <3> QED
      BY ONLY <2>1, <3>1, <3>2, LowRun
  <2> QED
    BY <1>2, <2>3
<1>4. CloseCurrent(n) = CloseCurrent(w)
  BY DEF CloseCurrent
<1>5. ASSUME NEW j \in 1 .. k - 1 PROVE SeenAs(st[j], list[j], CloseCurrent(n), n.auto)
  <2>1. CASE j \in 1 .. i - 1
    <3>1. SeenAs(st[j], list[j], CloseCurrent(w), w.auto)
      BY <2>1 DEF Agrees
    <3> QED
      BY <1>4, <3>1 DEF SeenAs
  <2>2. CASE j \in i .. k - 1
    <3>1. list[j].at \in TimesOf(list, i, k - 1)
      BY <2>2 DEF TimesOf
    <3> QED
      BY <1>3, <2>2, <3>1 DEF SeenAs
  <2> QED
    BY <1>1, <2>1, <2>2
<1>6. st[n.i - 1].prior = IF n.segs = <<>> THEN 0 ELSE Last(Last(n.segs).members).at
  <2>1. st[n.i - 1].prior = st[i - 1].prior
    BY <1>1, <1>3
  <2> QED
    BY <2>1 DEF Agrees
<1>7. Onward(n, list)
  <2>1. Onward(w, list)
    BY DEF Agrees
  <2> QED
    BY <1>1, <2>1 DEF Onward
<1> QED
  BY <1>1, <1>3, <1>5, <1>6, <1>7 DEF Agrees

\* An iteration without baselines, by what it does next.
LEMMA IterateIs ==
    ASSUME NEW w \in WalkState, NEW list, NEW i, i = w.i, NEW o, o = list[i]
    PROVE  LET n == Iterate(w, list, {})
               cur == w.cur
               inManual == w.until # 0 /\ o.at <= w.until
               Grown(g) == n.i = i + 1 /\ n.segs = w.segs /\ n.cur = g /\ n.auto = w.auto
               Opened(g) == n.i = i + 1 /\ n.segs = CloseCurrent(w) /\ n.cur = g /\ n.auto = w.auto
               v == [w EXCEPT !.until = 0]
           IN /\ inManual => Grown(JoinMovingReset(cur, o)) /\ n.until = w.until
              /\ ~inManual /\ o.manual # 0 => Opened(ManualSegment(o)) /\ n.until = o.manual
              /\ ~inManual /\ o.manual = 0 /\ cur # NoSegment /\ WaitingForFirstUse(cur) =>
                    n = WhileUnused(v, list)
              /\ ~inManual /\ o.manual = 0 /\ (cur = NoSegment \/ ~WaitingForFirstUse(cur)) =>
                    IF cur = NoSegment \/ ResetAdvanced(o.resets, cur.resets)
                      THEN Opened(OfficialSegment(o)) /\ n.until = 0
                    ELSE IF o.used >= Last(cur.members).used
                      THEN Grown(Join(cur, o)) /\ n.until = 0
                    ELSE n = SkipLowRun(v, list)
<1> DEFINE n == Iterate(w, list, {})
           inManual == w.until # 0 /\ o.at <= w.until
           v == [w EXCEPT !.until = 0]
<1>1. /\ v.i = i /\ v.segs = w.segs /\ v.cur = w.cur /\ v.auto = w.auto /\ v.until = 0
      /\ v \in WalkState /\ CloseCurrent(v) = CloseCurrent(w)
  BY DEF WalkState, CloseCurrent
<1>2. ASSUME NEW x \in WalkState, NEW g
      PROVE  /\ LET c == Continue(x, g)
                IN c.i = x.i + 1 /\ c.segs = x.segs /\ c.cur = g /\ c.auto = x.auto /\ c.until = x.until
             /\ LET c == Open(x, g)
                IN c.i = x.i + 1 /\ c.segs = CloseCurrent(x) /\ c.cur = g /\ c.auto = x.auto /\ c.until = x.until
             /\ \A m : LET c == [Open(x, g) EXCEPT !.until = m]
                       IN c.i = x.i + 1 /\ c.segs = CloseCurrent(x) /\ c.cur = g /\ c.auto = x.auto /\ c.until = m
  <2> DEFINE all == CloseCurrent(x)
  <2>1. Continue(x, g) = [x EXCEPT !.cur = g, !.i = @ + 1] /\ Open(x, g) = [x EXCEPT !.segs = all, !.cur = g, !.i = @ + 1]
    BY DEF Continue, Open
  <2> HIDE DEF all
  <2> QED
    BY <2>1 DEF WalkState, all
<1>3. ASSUME inManual PROVE n = Continue(w, JoinMovingReset(w.cur, o))
  BY <1>3 DEF Iterate
<1>4. ASSUME ~inManual, o.manual # 0 PROVE n = [Open(w, ManualSegment(o)) EXCEPT !.until = o.manual]
  BY <1>4 DEF Iterate
<1>5. ASSUME ~inManual, o.manual = 0
      PROVE  n = IF v.cur # NoSegment /\ WaitingForFirstUse(v.cur)
                   THEN WhileUnused(v, list)
                 ELSE IF v.cur = NoSegment \/ ResetAdvanced(o.resets, v.cur.resets)
                   THEN Open(v, OfficialSegment(o))
                 ELSE IF o.used >= Last(v.cur.members).used
                   THEN Continue(v, Join(v.cur, o))
                 ELSE SkipLowRun(v, list)
  BY <1>5 DEF Iterate
<1> HIDE DEF n, v, inManual
<1> DEFINE cur == w.cur
           Grown(g) == n.i = i + 1 /\ n.segs = w.segs /\ n.cur = g /\ n.auto = w.auto
           Opened(g) == n.i = i + 1 /\ n.segs = CloseCurrent(w) /\ n.cur = g /\ n.auto = w.auto
<1>6. ASSUME inManual PROVE Grown(JoinMovingReset(cur, o)) /\ n.until = w.until
  <2> DEFINE g == JoinMovingReset(cur, o)   c == Continue(w, g)
  <2>1. c.i = w.i + 1 /\ c.segs = w.segs /\ c.cur = g /\ c.auto = w.auto /\ c.until = w.until
    <3> HIDE DEF g
    <3> QED
      BY <1>2
  <2>2. n = c
    BY <1>3, <1>6
  <2> HIDE DEF g, c
  <2>3. Grown(g) /\ n.until = w.until
    BY <2>1, <2>2
  <2> QED
    BY <2>3 DEF g
<1>7. ASSUME ~inManual, o.manual # 0 PROVE Opened(ManualSegment(o)) /\ n.until = o.manual
  <2> DEFINE g == ManualSegment(o)   m == o.manual   c == [Open(w, g) EXCEPT !.until = m]
  <2>1. c.i = w.i + 1 /\ c.segs = CloseCurrent(w) /\ c.cur = g /\ c.auto = w.auto /\ c.until = m
    <3> HIDE DEF g, m
    <3> QED
      BY <1>2
  <2>2. n = c
    BY <1>4, <1>7
  <2> HIDE DEF g, c, m
  <2>3. Opened(g) /\ n.until = m
    BY <2>1, <2>2
  <2> QED
    BY <2>3 DEF g, m
<1>8. ~inManual /\ o.manual = 0 /\ cur # NoSegment /\ WaitingForFirstUse(cur) => n = WhileUnused(v, list)
  BY <1>1, <1>5
<1>9. ASSUME ~inManual, o.manual = 0, cur = NoSegment \/ ~WaitingForFirstUse(cur)
      PROVE  IF cur = NoSegment \/ ResetAdvanced(o.resets, cur.resets)
               THEN Opened(OfficialSegment(o)) /\ n.until = 0
             ELSE IF o.used >= Last(cur.members).used
               THEN Grown(Join(cur, o)) /\ n.until = 0
             ELSE n = SkipLowRun(v, list)
  <2>1. n = IF cur = NoSegment \/ ResetAdvanced(o.resets, cur.resets)
              THEN Open(v, OfficialSegment(o))
            ELSE IF o.used >= Last(cur.members).used
              THEN Continue(v, Join(cur, o))
            ELSE SkipLowRun(v, list)
    BY <1>1, <1>5, <1>9
  <2>2. CASE cur = NoSegment \/ ResetAdvanced(o.resets, cur.resets)
    BY <1>1, <1>2, <2>1, <2>2
  <2>3. CASE ~(cur = NoSegment \/ ResetAdvanced(o.resets, cur.resets)) /\ o.used >= Last(cur.members).used
    BY <1>1, <1>2, <2>1, <2>3
  <2> QED
    BY <2>1, <2>2, <2>3
<1> QED
  BY <1>6, <1>7, <1>8, <1>9 DEF n, v, inManual

\* Nothing is given up before its first use.
LEMMA NothingGivenUp ==
    ASSUME NEW list, NEW st, Traced(list, st), NEW w, WalkOK(w, list), Agrees(w, list, st),
           w.i <= Len(list), w.cur # NoSegment,
           NEW v \in WalkState, v.i = w.i, v.cur = w.cur, v.segs = w.segs
    PROVE  WhileUnused(v, list) = Continue(v, JoinMovingReset(w.cur, list[w.i]))
<1> DEFINE i == w.i   o == list[i]   n == Len(list)   k == CandidateConfirmedAt(v, list)
           stops == {j \in i .. n : list[j].manual # 0 \/ SameReset(list[j].resets, w.cur.resets)}
<1>1. /\ n \in Nat /\ i \in Nat /\ i \in 1 .. n /\ i >= 1 /\ i <= n /\ DOMAIN list = 1 .. n
      /\ \A j \in 1 .. n : /\ list[j] \in ToSet(list) /\ list[j] \in Fact /\ list[j].resets \in Nat
                           /\ list[j].at \in Nat
      /\ \A a, b \in 1 .. n : a < b => list[a].at < list[b].at
      /\ Steady(ToSet(list)) /\ list \in Seq(Fact)
  BY TracedIs DEF WalkOK, WalkState, Traced
<1>2. st[i - 1].cur = w.cur /\ Onward(w, list)
  BY DEF Agrees
<1>3. \E f, l, a \in DOMAIN list : HeldBy(list, DOMAIN list, st, i - 1, f, l, a)
  <2>1. TraceOK(list, DOMAIN list, st, i - 1)
    BY <1>1, TracedIs
  <2>2. \E j \in DOMAIN list : j <= i - 1
    <3>1. SUFFICES ASSUME \A j \in DOMAIN list : ~(j <= i - 1) PROVE FALSE
      OBVIOUS
    <3>2. \A j \in DOMAIN list : j > i - 1
      BY <1>1, <3>1
    <3> QED
      BY <1>2, <2>1, <3>2 DEF TraceOK, Nothing
  <2> QED
    BY <2>1, <2>2 DEF TraceOK
<1>4. PICK a \in DOMAIN list : a <= i - 1 /\ st[i - 1].cur.resets = list[a].resets
  BY <1>3 DEF HeldBy
<1>5. a \in 1 .. n /\ a \in Nat /\ a < i /\ w.cur.resets = list[a].resets
  BY <1>1, <1>2, <1>4
<1>6. k = 0
  <2> SUFFICES ASSUME k # 0 PROVE FALSE
    OBVIOUS
  <2>1. /\ k = ScanTo(list, stops) /\ k <= n /\ ~SameReset(o.resets, w.cur.resets)
        /\ list[k].manual = 0
    BY DEF CandidateConfirmedAt
  <2>2. stops \subseteq i .. n
    OBVIOUS
  <2>3. ScanTo(list, stops) \in stops \cup {n + 1}
    <3>1. i \in Nat /\ i <= Len(list) + 1 /\ list \in Seq(Fact) /\ stops \subseteq i .. Len(list)
      BY <1>1, <2>2
    <3> HIDE DEF stops, i
    <3> QED
      BY <3>1, ScanStops
  <2> HIDE DEF k
  <2>4. k \in stops
    BY <1>1, <2>1, <2>3
  <2>5. k \in i .. n /\ SameReset(list[k].resets, w.cur.resets)
    BY <2>1, <2>4
  <2>6. k # i /\ k \in 1 .. n /\ i < k
    BY <1>1, <2>1, <2>5
  <2>7. list[a].at < list[i].at /\ list[i].at < list[k].at
    BY <1>1, <1>5, <2>6
  <2>8. ~SameReset(list[i].resets, list[a].resets) /\ SameReset(list[k].resets, list[a].resets)
    BY <1>5, <2>1, <2>5
  <2> QED
    BY <1>1, <1>5, <2>6, <2>7, <2>8, NeverBack
<1>7. ~PreviousRestored(v, o)
  <2> SUFFICES ASSUME PreviousRestored(v, o) PROVE FALSE
    OBVIOUS
  <2>1. /\ w.cur.reason \in TentativeReasons /\ w.segs # <<>>
        /\ SameReset(list[i].resets, Last(w.segs).resets)
    BY DEF PreviousRestored
  <2>2. PICK x \in 1 .. w.i - 1, y \in 1 .. w.i - 1 :
           /\ x < y /\ ~SameReset(list[y].resets, list[x].resets)
           /\ list[x].resets = Last(w.segs).resets
    BY <1>2, <2>1 DEF Onward
  <2>3. x \in 1 .. n /\ y \in 1 .. n /\ y < i
    BY <1>1
  <2>4. list[x].at < list[y].at /\ list[y].at < list[i].at
    BY <1>1, <2>2, <2>3
  <2>5. ~SameReset(list[i].resets, list[x].resets)
    BY <1>1, <2>2, <2>3, <2>4, NeverBack
  <2> QED
    BY <2>1, <2>2, <2>5
<1> QED
  BY <1>6, <1>7 DEF WhileUnused

\* Every iteration decides as the derivations do.
LEMMA IterateAgrees ==
    ASSUME NEW list, NEW st, Traced(list, st), NEW w, WalkOK(w, list), IntervalsWalked(w, list),
           Agrees(w, list, st), w.i <= Len(list)
    PROVE  Agrees(Iterate(w, list, {}), list, st)
<1> DEFINE i == w.i   o == list[i]   d == st[i - 1]   n == Iterate(w, list, {})
           inManual == w.until # 0 /\ o.at <= w.until
           v == [w EXCEPT !.until = 0]
           cur == w.cur
<1>1. /\ i \in Nat /\ i \in 1 .. Len(list) /\ i <= Len(list) /\ Len(list) \in Nat /\ w \in WalkState
      /\ o \in Fact /\ OfficialStart(o) <= o.at /\ st[i] = Online(d, o) /\ d \in Derivation
      /\ list \in Seq(Fact) /\ Ascending(list) /\ Begun(list)
  BY TracedIs DEF WalkOK, WalkState, Traced
<1>2. d.cur = cur /\ d.until = w.until
  BY DEF Agrees
<1>3. InManual(d, o) <=> inManual
  BY <1>2 DEF InManual
<1>4. WalkOK(n, list)
  BY <1>1, IterateKeeps DEF Passed
<1>5. v \in WalkState /\ v.i = w.i /\ v.cur = w.cur /\ v.segs = w.segs /\ v.auto = w.auto /\ v.until = 0
  BY <1>1 DEF WalkState
<1>6. st[i] \in [cur : Segment \cup {NoSegment}, prior : Nat, until : Nat, out : BOOLEAN]
  <2>1. Online(d, o) \in Derivation
    <3> HIDE DEF d, o
    <3> QED
      BY <1>1, OnlineTyped
  <2> QED
    BY <1>1, <2>1 DEF Derivation
<1> DEFINE Grown(g) == n.i = i + 1 /\ n.segs = w.segs /\ n.cur = g /\ n.auto = w.auto
           Opened(g) == n.i = i + 1 /\ n.segs = CloseCurrent(w) /\ n.cur = g /\ n.auto = w.auto
<1>7. /\ inManual => Grown(JoinMovingReset(cur, o)) /\ n.until = w.until
      /\ ~inManual /\ o.manual # 0 => Opened(ManualSegment(o)) /\ n.until = o.manual
      /\ ~inManual /\ o.manual = 0 /\ cur # NoSegment /\ WaitingForFirstUse(cur) =>
            n = WhileUnused(v, list)
      /\ ~inManual /\ o.manual = 0 /\ (cur = NoSegment \/ ~WaitingForFirstUse(cur)) =>
            IF cur = NoSegment \/ ResetAdvanced(o.resets, cur.resets)
              THEN Opened(OfficialSegment(o)) /\ n.until = 0
            ELSE IF o.used >= Last(cur.members).used
              THEN Grown(Join(cur, o)) /\ n.until = 0
            ELSE n = SkipLowRun(v, list)
  BY <1>1, IterateIs
<1> SUFFICES Agrees(n, list, st)
  OBVIOUS
<1> HIDE DEF n, v
<1>8. ASSUME Begins(d, o), Opened(SegmentFrom(o)), n.until = o.manual PROVE Agrees(n, list, st)
  <2>1. /\ i = w.i /\ i <= Len(list) /\ Begins(st[i - 1], list[i]) /\ n.i = i + 1
        /\ n.segs = CloseCurrent(w) /\ n.cur = SegmentFrom(list[i])
        /\ n.until = list[i].manual /\ n.auto = w.auto
    BY <1>1, <1>8
  <2> HIDE DEF i, o, d
  <2> QED
    BY <2>1, AgreesOpen
<1>9. ASSUME ~Begins(d, o), NEW g, st[i].cur = g, st[i].until = n.until, ~st[i].out, Grown(g)
      PROVE  Agrees(n, list, st)
  <2>1. /\ i = w.i /\ i <= Len(list) /\ ~Begins(st[i - 1], list[i]) /\ n.i = i + 1
        /\ n.segs = w.segs /\ n.cur = st[i].cur /\ ~st[i].out
        /\ n.until = st[i].until /\ n.auto = w.auto
    BY <1>1, <1>9
  <2> HIDE DEF i, o, d
  <2> QED
    BY <1>4, <2>1, AgreesJoin
<1>10. CASE inManual
  <2>1. ~Begins(d, o)
    BY <1>3, <1>10 DEF Begins
  <2>2. st[i] = [cur |-> JoinMovingReset(cur, o), until |-> w.until, out |-> FALSE, prior |-> d.prior]
    BY <1>1, <1>2, <1>3, <1>10, <2>1 DEF Online
  <2> DEFINE g == JoinMovingReset(cur, o)
  <2>3. Grown(g) /\ n.until = w.until
    BY <1>7, <1>10
  <2>4. st[i].cur = g /\ st[i].until = n.until /\ ~st[i].out
    BY <2>2, <2>3
  <2> HIDE DEF g, d, o, i
  <2> QED
    BY <1>9, <2>1, <2>3, <2>4
<1>11. CASE ~inManual /\ o.manual # 0
  <2>1. Begins(d, o)
    BY <1>3, <1>11 DEF Begins
  <2>2. SegmentFrom(o) = ManualSegment(o)
    BY <1>11 DEF SegmentFrom
  <2>3. Opened(SegmentFrom(o)) /\ n.until = o.manual
    BY <1>7, <1>11, <2>2
  <2> HIDE DEF d, o, i
  <2> QED
    BY <1>8, <2>1, <2>3
<1>12. CASE ~inManual /\ o.manual = 0 /\ cur # NoSegment /\ WaitingForFirstUse(cur)
  <2>1. ~Begins(d, o)
    BY <1>2, <1>12 DEF Begins
  <2>2. st[i] = [cur |-> JoinMovingReset(cur, o), until |-> 0, out |-> FALSE, prior |-> d.prior]
    BY <1>1, <1>2, <1>3, <1>12, <2>1 DEF Online
  <2>3. n = Continue(v, JoinMovingReset(cur, o))
    BY <1>1, <1>5, <1>7, <1>12, NothingGivenUp
  <2> DEFINE g == JoinMovingReset(cur, o)
  <2> HIDE DEF g
  <2>4. Grown(g) /\ n.until = 0
    <3>1. n = [v EXCEPT !.cur = g, !.i = @ + 1]
      BY <2>3 DEF Continue, g
    <3> QED
      BY <1>5, <3>1 DEF WalkState
  <2>5. st[i].cur = g /\ st[i].until = n.until /\ ~st[i].out
    BY <2>2, <2>4 DEF g
  <2> HIDE DEF d, o, i
  <2> QED
    BY <1>9, <2>1, <2>4, <2>5
<1>13. CASE ~inManual /\ o.manual = 0 /\ (cur = NoSegment \/ ~WaitingForFirstUse(cur))
  <2>1. CASE cur = NoSegment \/ ResetAdvanced(o.resets, cur.resets)
    <3>1. Begins(d, o)
      BY <1>2, <1>3, <1>13, <2>1 DEF Begins
    <3>2. SegmentFrom(o) = OfficialSegment(o)
      BY <1>13 DEF SegmentFrom
    <3>3. Opened(SegmentFrom(o)) /\ n.until = o.manual
      BY <1>7, <1>13, <2>1, <3>2
    <3> HIDE DEF d, o, i
    <3> QED
      BY <1>8, <3>1, <3>3
  <2>2. CASE ~(cur = NoSegment \/ ResetAdvanced(o.resets, cur.resets)) /\ o.used >= Last(cur.members).used
    <3>1. ~Begins(d, o)
      BY <1>2, <1>13, <2>2 DEF Begins
    <3>2. st[i] = [cur |-> Join(cur, o), until |-> 0, out |-> FALSE, prior |-> d.prior]
      BY <1>1, <1>2, <1>3, <1>13, <2>2, <3>1 DEF Online
    <3>3. Grown(Join(cur, o)) /\ n.until = 0
      BY <1>7, <1>13, <2>2
    <3> DEFINE g == Join(cur, o)
    <3>4. st[i].cur = g /\ st[i].until = n.until /\ ~st[i].out /\ Grown(g)
      BY <3>2, <3>3
    <3> HIDE DEF g, d, o, i
    <3> QED
      BY <1>9, <3>1, <3>4
  <2>3. CASE ~(cur = NoSegment \/ ResetAdvanced(o.resets, cur.resets)) /\ ~(o.used >= Last(cur.members).used)
    <3>1. ~Begins(d, o)
      BY <1>2, <1>13, <2>3 DEF Begins
    <3>2. st[i] = [cur |-> cur, until |-> 0, out |-> TRUE, prior |-> d.prior]
      BY <1>1, <1>2, <1>3, <1>13, <2>3, <3>1 DEF Online
    <3>3. n = SkipLowRun(v, list)
      BY <1>7, <1>13, <2>3
    <3> DEFINE high == Last(cur.members).used
               stops == {j \in i + 1 .. Len(list) :
                            \/ list[j].manual # 0
                            \/ ~SameReset(list[j].resets, cur.resets)
                            \/ list[j].used >= high}
               k == ScanTo(list, stops)
    <3>4. n = SkipTo(v, list, k)
      <4>1. SkipLowRun(v, list) = SkipTo(v, list, k)
        BY <1>5 DEF SkipLowRun
      <4> QED
        BY <3>3, <4>1
    <3>5. /\ k \in i + 1 .. Len(list) + 1
          /\ \A j \in stops : k <= j
      <4>1. stops \subseteq i + 1 .. Len(list) /\ i + 1 \in Nat /\ i + 1 <= Len(list) + 1
        BY <1>1
      <4> HIDE DEF stops
      <4> QED
        BY <1>1, <4>1, ScanStops
    <3> HIDE DEF k
    <3>6. ASSUME NEW j \in i + 1 .. k - 1
          PROVE  /\ list[j].manual = 0 /\ SameReset(list[j].resets, cur.resets)
                 /\ ~(list[j].used >= high)
      <4>1. j \in i + 1 .. Len(list) /\ ~(k <= j)
        BY <1>1, <3>5
      <4>2. j \notin stops
        BY <3>5, <4>1
      <4> QED
        BY <4>1, <4>2
    <3>7. IsLow(list, cur, i, k)
      BY <3>6 DEF IsLow
    <3>8. n.i = k /\ n.segs = w.segs /\ n.cur = w.cur /\ n.until = 0
          /\ n.auto = w.auto \cup TimesOf(list, i, k - 1)
      <4> DEFINE T == TimesOf(list, i, k - 1)
      <4>1. n = [v EXCEPT !.auto = @ \cup T, !.i = k]
        BY <1>5, <3>4 DEF SkipTo
      <4> HIDE DEF T
      <4>2. n.i = k /\ n.segs = v.segs /\ n.cur = v.cur /\ n.until = v.until /\ n.auto = v.auto \cup T
        BY <1>5, <4>1 DEF WalkState
      <4> QED
        BY <1>5, <4>2 DEF T
    <3>9. st[i].out
      BY <3>2
    <3> HIDE DEF high, stops
    <3>10. /\ i = w.i /\ i <= Len(list) /\ ~Begins(st[i - 1], list[i]) /\ IsLow(list, w.cur, i, k)
           /\ k \in i + 1 .. Len(list) + 1
      BY <1>1, <3>1, <3>5, <3>7
    <3>11. Traced(list, st) /\ WalkOK(w, list) /\ Agrees(w, list, st)
      OBVIOUS
    <3> HIDE DEF i, o, d, cur, inManual
    <3> QED
      BY ONLY <3>8, <3>9, <3>10, <3>11, AgreesSkip
  <2> QED
    BY <2>1, <2>2, <2>3
<1> QED
  BY <1>10, <1>11, <1>12, <1>13

\* While readings come as an upstream gives them, infer_segments decides about an
\* observation by those before it alone: what it returns for all of them is what
\* the derivations say one by one, so a later reading changes neither whether an
\* earlier one counts nor where its segment starts.
THEOREM InferenceIsOnline ==
    ASSUME NEW list, NEW st, Traced(list, st)
    PROVE  LET result == InferFrom(list, {})
           IN \A j \in DOMAIN list : SeenAs(st[j], list[j], result.segs, result.auto)
<1> DEFINE n == Len(list)
           S == [k \in 0 .. n |-> {w \in WalkState : After(w, k, list) /\ Agrees(w, list, st)}]
           done == AfterLoop(list, {})
<1>0. /\ n \in Nat /\ DOMAIN list = 1 .. n
      /\ list \in Seq(Fact) /\ Ascending(list) /\ Begun(list) /\ st[0] = Nothing
  BY TracedIs DEF Traced, Trace
<1>1. LoopStart \in S[0]
  <2>1. /\ LoopStart.i = 1 /\ LoopStart.segs = <<>> /\ LoopStart.until = 0 /\ LoopStart.auto = {}
        /\ LoopStart.cur = NoSegment /\ LoopStart \in WalkState
    BY EmptySeq DEF LoopStart, WalkState
  <2>2. Nothing.cur = NoSegment /\ Nothing.until = 0 /\ Nothing.prior = 0
    BY DEF Nothing
  <2>3. Onward(LoopStart, list)
    BY <2>1 DEF Onward, NoSegment, TentativeReasons
  <2>4. LoopStart.i - 1 = 0 /\ 1 .. LoopStart.i - 1 = {}
    BY <2>1
  <2>5. Agrees(LoopStart, list, st)
    BY <1>0, <2>1, <2>2, <2>3, <2>4 DEF Agrees
  <2>6. After(LoopStart, 0, list)
    <3>1. CloseCurrent(LoopStart) = <<>> /\ Seen(list, 0) = {}
      BY <2>1 DEF CloseCurrent, Seen
    <3>2. <<>> \in Seq(Segment) /\ DOMAIN <<>> = {}
      BY EmptySeq
    <3>3. Accounted(<<>>, {}, {})
      BY <3>2 DEF Accounted, InOrder
    <3>4. 1 - 1 = 0 /\ 1 \in 1 .. n + 1 /\ 1 >= 0 + 1
      BY <1>0
    <3>5. WalkOK(LoopStart, list)
      BY <2>1, <3>1, <3>3, <3>4 DEF WalkOK
    <3>6. IntervalsWalked(LoopStart, list)
      BY <2>1 DEF IntervalsWalked, IntervalsKept
    <3> QED
      BY <2>1, <3>4, <3>5, <3>6 DEF After
  <2>7. 0 \in 0 .. n
    BY <1>0
  <2> QED
    BY <2>1, <2>5, <2>6, <2>7
<1>2. ASSUME NEW k \in 1 .. n, NEW w \in S[k - 1]
      PROVE  Step(w, list, {}) \in S[k]
  <2>1. k - 1 \in 0 .. n /\ k \in 0 .. n
    BY <1>0
  <2>2. w \in WalkState /\ After(w, k - 1, list) /\ Agrees(w, list, st)
    BY <1>2, <2>1
  <2>3. After(Step(w, list, {}), k, list)
    BY <1>0, <2>2, StepKeeps
  <2>4. Step(w, list, {}) \in WalkState
    BY <2>3 DEF After, WalkOK
  <2>5. Agrees(Step(w, list, {}), list, st)
    <3>1. CASE w.i > n
      BY <2>2, <3>1 DEF Step
    <3>2. CASE ~(w.i > n)
      <4>1. w.i <= n /\ WalkOK(w, list) /\ IntervalsWalked(w, list)
        BY <1>0, <2>2, <3>2 DEF After, WalkState
      <4>2. Agrees(Iterate(w, list, {}), list, st)
        BY <2>2, <4>1, IterateAgrees
      <4> QED
        BY <3>2, <4>2 DEF Step
    <3> QED
      BY <3>1, <3>2
  <2> QED
    BY <2>1, <2>3, <2>4, <2>5
<1>3. \A k \in 0 .. n : S[k] \subseteq WalkState
  OBVIOUS
<1>4. S[n] = {w \in WalkState : After(w, n, list) /\ Agrees(w, list, st)}
  BY <1>0
<1>5. done \in S[n]
  <2> HIDE DEF S
  <2> QED
    BY <1>0, <1>1, <1>2, <1>3, LoopInduction
<1>6. After(done, n, list) /\ Agrees(done, list, st)
  BY <1>4, <1>5
<1>7. done.i - 1 = n
  <2> HIDE DEF done
  <2> QED
    BY <1>0, <1>6 DEF After, WalkOK
<1>8. InferFrom(list, {}).segs = CloseCurrent(done) /\ InferFrom(list, {}).auto = done.auto
  BY DEF InferFrom
<1> HIDE DEF done
<1> QED
  BY <1>0, <1>6, <1>7, <1>8 DEF Agrees

-----------------------------------------------------------------------------
(* A replay of the rows, row by row *)

FactsOf(rs) == [i \in DOMAIN rs |-> Facts(rs[i])]
KeptFrom(rs, from) == {i \in DOMAIN rs : rs[i].at >= from /\ rs[i].excl # "manual"}
SteadyRows(rs) == Steady(ToSet(FactsOf(rs)))
RowTrace(rs, from, st) == Trace(FactsOf(rs), KeptFrom(rs, from), Len(rs), st)

LEMMA FactsOfIs ==
    ASSUME NEW rs, RowsOK(rs)
    PROVE  /\ Len(rs) \in Nat /\ DOMAIN rs = 1 .. Len(rs)
           /\ FactsOf(rs) \in Seq(Fact) /\ Len(FactsOf(rs)) = Len(rs) /\ DOMAIN FactsOf(rs) = DOMAIN rs
           /\ Ascending(FactsOf(rs)) /\ Begun(FactsOf(rs))
           /\ \A i \in DOMAIN rs :
                 /\ rs[i] \in Row /\ FactsOf(rs)[i] \in Fact /\ FactsOf(rs)[i] \in ToSet(FactsOf(rs))
                 /\ FactsOf(rs)[i].at = rs[i].at /\ FactsOf(rs)[i].used = rs[i].used
                 /\ FactsOf(rs)[i].resets = rs[i].resets /\ FactsOf(rs)[i].manual = rs[i].manual
                 /\ rs[i].at \in Nat /\ rs[i].used \in Nat /\ rs[i].resets \in Nat /\ rs[i].manual \in Nat
                 /\ rs[i].start \in Int /\ rs[i].prior \in Nat
<1> DEFINE facts == FactsOf(rs)
<1>1. /\ Len(rs) \in Nat /\ DOMAIN rs = 1 .. Len(rs) /\ rs \in Seq(Row)
      /\ \A i \in DOMAIN rs : rs[i] \in Row
  BY LenProperties, ElementOfSeq DEF RowsOK
<1>2. \A i \in DOMAIN rs : /\ facts[i] = Facts(rs[i]) /\ facts[i] \in Fact
                           /\ facts[i].at = rs[i].at /\ OfficialStart(facts[i]) <= facts[i].at
  BY <1>1, RowFacts DEF RowsOK, FactsOf
<1>3. facts \in [1 .. Len(rs) -> Fact]
  BY <1>1, <1>2 DEF FactsOf
<1>4. facts \in Seq(Fact) /\ Len(facts) = Len(rs) /\ DOMAIN facts = DOMAIN rs
  <2> HIDE DEF facts
  <2> QED
    BY <1>1, <1>3, FunctionIsSeq
<1>5. Ascending(facts) /\ Begun(facts)
  <2> HIDE DEF facts
  <2> QED
    BY <1>2, <1>4 DEF Ascending, RowsOK, Begun
<1>6. \A i \in DOMAIN rs : /\ rs[i].at \in Nat /\ rs[i].used \in Nat /\ rs[i].resets \in Nat
                           /\ rs[i].manual \in Nat /\ rs[i].start \in Int /\ rs[i].prior \in Nat
  BY <1>1 DEF Row
<1>7. \A i \in DOMAIN rs : /\ facts[i] \in ToSet(facts) /\ facts[i].used = rs[i].used
                           /\ facts[i].resets = rs[i].resets /\ facts[i].manual = rs[i].manual
  <2>1. \A i \in DOMAIN rs : facts[i] \in ToSet(facts)
    BY <1>4 DEF ToSet
  <2>2. \A r : Facts(r).used = r.used /\ Facts(r).resets = r.resets /\ Facts(r).manual = r.manual
    BY DEF Facts
  <2> HIDE DEF facts
  <2> QED
    BY <1>2, <2>1, <2>2
<1> QED
  BY <1>1, <1>2, <1>4, <1>5, <1>6, <1>7

LEMMA SteadyPart ==
    ASSUME NEW S, Steady(S), NEW T, T \subseteq S
    PROVE  Steady(T)
BY DEF Steady

\* The trace of a replay exists, and is as a trace is.
LEMMA RowTraceIs ==
    ASSUME NEW rs, RowsOK(rs), SteadyRows(rs), NEW from
    PROVE  /\ \E st : RowTrace(rs, from, st)
           /\ KeptFrom(rs, from) \subseteq DOMAIN FactsOf(rs)
           /\ Steady(KeptOf(FactsOf(rs), KeptFrom(rs, from)))
           /\ \A st : RowTrace(rs, from, st) =>
                 \A j \in 0 .. Len(rs) : st[j] \in Derivation /\ TraceOK(FactsOf(rs), KeptFrom(rs, from), st, j)
<1> DEFINE s == FactsOf(rs)   kept == KeptFrom(rs, from)
<1>1. /\ Len(rs) \in Nat /\ s \in Seq(Fact) /\ Len(s) = Len(rs) /\ Ascending(s) /\ Begun(s)
      /\ DOMAIN s = DOMAIN rs
  BY FactsOfIs
<1>2. kept \subseteq DOMAIN s
  BY <1>1 DEF KeptFrom
<1>3. Steady(KeptOf(s, kept))
  <2>1. KeptOf(s, kept) \subseteq ToSet(s)
    BY <1>2 DEF KeptOf, ToSet
  <2> QED
    BY <2>1, SteadyPart DEF SteadyRows
<1> HIDE DEF s, kept
<1>4. \E st : Trace(s, kept, Len(rs), st)
  <2>1. Len(rs) \in 0 .. Len(s)
    BY <1>1
  <2> QED
    BY <1>1, <2>1, TraceExists
<1>5. ASSUME NEW st, Trace(s, kept, Len(rs), st)
      PROVE  \A j \in 0 .. Len(rs) : st[j] \in Derivation /\ TraceOK(s, kept, st, j)
  <2>1. \A j \in 0 .. Len(rs) : TraceOK(s, kept, st, j)
    BY <1>1, <1>2, <1>3, <1>5, TraceKeeps
  <2>2. \A j \in 0 .. Len(rs) : st[j] \in Derivation
    BY <1>5 DEF Trace
  <2> QED
    BY <2>1, <2>2
<1> QED
  BY <1>2, <1>3, <1>4, <1>5 DEF s, kept, RowTrace

\* The trace of a part is that of the whole at the elements that count.
LEMMA PartTrace ==
    ASSUME NEW s, NEW kept, NEW n \in Nat, NEW st, Trace(s, kept, n, st),
           NEW list, NEW sv, Traced(list, sv), NEW c, Counted(list, s, kept, n, c)
    PROVE  \A k \in 0 .. n : st[k] = sv[c[k]]
<1> DEFINE S == [k \in 0 .. n |-> {sv[c[k]]}]
<1>1. /\ Len(list) \in Nat
      /\ \A j \in 1 .. Len(list) : sv[j] = Online(sv[j - 1], list[j])
  BY TracedIs
<1>2. st[0] \in S[0]
  <2>1. st[0] = Nothing /\ sv[0] = Nothing /\ c[0] = 0 /\ 0 \in 0 .. n
    BY DEF Traced, Trace, Counted
  <2> QED
    BY <2>1
<1>3. ASSUME NEW k \in 1 .. n, st[k - 1] \in S[k - 1] PROVE st[k] \in S[k]
  <2>1. k - 1 \in 0 .. n /\ k \in 0 .. n
    OBVIOUS
  <2>2. st[k - 1] = sv[c[k - 1]]
    BY <1>3, <2>1
  <2>3. /\ st[k] = IF k \in kept THEN Online(st[k - 1], s[k]) ELSE st[k - 1]
        /\ c[k] \in Nat /\ c[k - 1] \in Nat /\ c[k] <= Len(list)
        /\ IF k \in kept THEN c[k] = c[k - 1] + 1 /\ list[c[k]] = s[k] ELSE c[k] = c[k - 1]
    BY <2>1 DEF Trace, Counted
  <2>4. st[k] = sv[c[k]]
    <3>1. CASE k \notin kept
      BY <2>2, <2>3, <3>1
    <3>2. CASE k \in kept
      <4>1. c[k] \in 1 .. Len(list) /\ c[k] - 1 = c[k - 1]
        BY <1>1, <2>3, <3>2
      <4>2. sv[c[k]] = Online(sv[c[k - 1]], s[k])
        BY <1>1, <2>3, <3>2, <4>1
      <4> QED
        BY <2>2, <2>3, <3>2, <4>2
    <3> QED
      BY <3>1, <3>2
  <2> QED
    BY <2>1, <2>4
<1>4. \A k \in 0 .. n : st[k] \in S[k]
  <2> HIDE DEF S
  <2> QED
    BY <1>2, <1>3, RecursionKeeps
<1> QED
  BY <1>4

\* What a replay finds of a row is what the derivations say.
LEMMA ReplayIsOnline ==
    ASSUME NEW rs, RowsOK(rs), SteadyRows(rs), NEW from, provider = "sub2api", NEW spans,
           NEW st, RowTrace(rs, from, st)
    PROVE  LET result == Inferred(rs, from, spans)
           IN /\ InferenceOK(result, ToReplay(rs, from), FALSE, spans)
              /\ \A j \in KeptFrom(rs, from) : SeenAs(st[j], FactsOf(rs)[j], result.segs, result.auto)
<1> DEFINE s == FactsOf(rs)   kept == KeptFrom(rs, from)   list == ToReplay(rs, from)
           result == Inferred(rs, from, spans)
<1>1. /\ Len(rs) \in Nat /\ s \in Seq(Fact) /\ Len(s) = Len(rs) /\ Ascending(s) /\ Begun(s)
      /\ DOMAIN s = DOMAIN rs /\ DOMAIN rs = 1 .. Len(rs)
  BY FactsOfIs
<1>2. list = Subsequence(s, kept)
  BY DEF ToReplay, FactsOf, KeptFrom
<1>3. list \in Seq(Fact) /\ Ascending(list) /\ Begun(list)
  BY ToReplayIs
<1>4. result = InferSegments(list, ToReplay(rs, Everything), FALSE, spans) /\ result = InferFrom(list, {})
  BY DEF Inferred, InferSegments
<1> HIDE DEF list, result
<1>5. InferenceOK(result, list, FALSE, spans)
  <2>1. InferenceOK(InferSegments(list, ToReplay(rs, Everything), FALSE, spans), list, FALSE, spans)
    BY <1>3, InferSegmentsAccounts
  <2> QED
    BY <1>4, <2>1
<1>6. kept \subseteq DOMAIN s
  BY <1>1 DEF KeptFrom
<1> HIDE DEF s, kept
<1>7. /\ ToSet(list) = {s[k] : k \in (1 .. Len(s)) \cap kept}
      /\ \E c : Counted(list, s, kept, Len(s), c)
  BY <1>1, <1>2, SubsequenceIs DEF PartOf
<1>8. PICK c : Counted(list, s, kept, Len(rs), c)
  BY <1>1, <1>7
<1>9. Steady(ToSet(list))
  <2>1. ToSet(list) \subseteq ToSet(s)
    BY <1>1, <1>7 DEF ToSet
  <2> QED
    BY <2>1, SteadyPart DEF SteadyRows, s
<1>10. PICK sv : Trace(list, DOMAIN list, Len(list), sv)
  <2>1. Len(list) \in 0 .. Len(list)
    BY <1>3, LenProperties
  <2> QED
    BY <1>3, <2>1, TraceExists
<1>11. Traced(list, sv)
  BY <1>3, <1>9, <1>10 DEF Traced
<1>12. \A k \in 0 .. Len(rs) : st[k] = sv[c[k]]
  <2>1. Trace(s, kept, Len(rs), st)
    BY DEF RowTrace, s, kept
  <2> QED
    BY <1>1, <1>8, <1>11, <2>1, PartTrace
<1>13. \A j \in DOMAIN list : SeenAs(sv[j], list[j], result.segs, result.auto)
  BY <1>4, <1>11, InferenceIsOnline
<1>14. ASSUME NEW j \in kept PROVE SeenAs(st[j], s[j], result.segs, result.auto)
  <2>1. j \in 1 .. Len(rs) /\ j \in 0 .. Len(rs) /\ j - 1 \in 0 .. Len(rs)
    BY <1>1, <1>6
  <2>2. /\ c[j] = c[j - 1] + 1 /\ list[c[j]] = s[j] /\ c[j] \in Nat /\ c[j - 1] \in Nat
        /\ c[j] <= Len(list) /\ st[j] = sv[c[j]]
    BY <1>8, <1>12, <2>1 DEF Counted
  <2>3. c[j] \in DOMAIN list
    BY <1>3, <2>2, LenProperties
  <2> QED
    BY <1>13, <2>2, <2>3
<1> QED
  BY <1>5, <1>14 DEF s, kept, list, result

\* The time of the last row that counts before a time.
EarlierIncluded(rs, from) ==
    LET before == LastOf({i \in DOMAIN rs : rs[i].at < from /\ Included(rs, i)})
    IN IF before = 0 THEN 0 ELSE rs[before].at

\* A row as a derivation says; P is the prior of the first segment.
Derived(r, d, P) ==
    IF d.out THEN r.excl = "automatic" /\ r.start = 0 /\ r.mates = {} /\ r.prior = 0
    ELSE /\ r.excl = "none" /\ r.start = d.cur.start /\ r.mates # {}
         /\ Causal(r) = MemberTimes(d.cur) /\ r.prior = StartOr(d.prior, P)

LEMMA RebuiltReads ==
    ASSUME NEW rs, RowsOK(rs), \A i \in DOMAIN rs : rs[i].at > 0, NEW from \in Int,
           NEW result, NEW spans, InferenceOK(result, ToReplay(rs, from), FALSE, spans),
           NEW j \in KeptFrom(rs, from), NEW d \in Derivation,
           SeenAs(d, FactsOf(rs)[j], result.segs, result.auto)
    PROVE  Derived(RebuiltRows(rs, from, result)[j], d, EarlierIncluded(rs, from))
<1> DEFINE list == ToReplay(rs, from)   segs == result.segs   o == FactsOf(rs)[j]
           P == EarlierIncluded(rs, from)
           before == LastOf({i \in DOMAIN rs : rs[i].at < from /\ Included(rs, i)})
           PriorOf(k) == IF k > 1 THEN Last(segs[k - 1].members).at
                         ELSE IF before = 0 THEN 0 ELSE rs[before].at
           SegmentOf(r) == {k \in DOMAIN segs : r.at \in MemberTimes(segs[k])}
           Chosen(r) == CHOOSE n \in SegmentOf(r) : TRUE
           new == RebuiltRows(rs, from, result)
<1>1. /\ j \in DOMAIN rs /\ rs[j].at >= from /\ rs[j].excl # "manual"
      /\ rs[j] \in Row /\ o.at = rs[j].at /\ rs[j].at \in Nat /\ o \in Fact
  BY FactsOfIs DEF KeptFrom
<1>2. new[j] = IF rs[j].at \in result.auto
                 THEN [rs[j] EXCEPT !.excl = "automatic", !.start = 0, !.mates = {}, !.prior = 0]
               ELSE [rs[j] EXCEPT !.excl = "none", !.start = segs[Chosen(rs[j])].start,
                                  !.mates = MemberTimes(segs[Chosen(rs[j])]),
                                  !.prior = PriorOf(Chosen(rs[j]))]
  <2>1. ~(rs[j].at < from \/ rs[j].excl = "manual")
    BY <1>1
  <2> QED
    BY <1>1, <2>1 DEF RebuiltRows
<1>3. PriorOf(1) = P
  BY DEF EarlierIncluded
<1>4. /\ segs \in Seq(Segment)
      /\ \A k \in DOMAIN segs : SegmentOK(segs[k]) /\ ToSet(segs[k].members) \subseteq ToSet(list)
      /\ InOrder(segs)
      /\ \A k \in DOMAIN segs : \A m \in ToSet(segs[k].members) : m.at \notin result.auto
  BY DEF InferenceOK, Accounted
<1>5. \A m \in ToSet(list) : m \in Fact /\ m.at \in Nat /\ m.at > 0
  <2>1. ToSet(list) = {Facts(rs[i]) : i \in {n \in DOMAIN rs : rs[n].at >= from /\ rs[n].excl # "manual"}}
    BY ToReplayIs
  <2>2. \A i \in DOMAIN rs : Facts(rs[i]) \in Fact /\ Facts(rs[i]).at = rs[i].at /\ rs[i].at \in Nat
    BY FactsOfIs, RowFacts
  <2> HIDE DEF list
  <2> QED
    BY <2>1, <2>2
<1> HIDE DEF new, list, segs, o, P
<1>6. CASE d.out
  <2>1. rs[j].at \in result.auto
    BY <1>1, <1>6 DEF SeenAs, o
  <2>2. new[j] = [rs[j] EXCEPT !.excl = "automatic", !.start = 0, !.mates = {}, !.prior = 0]
    BY <1>2, <2>1
  <2>3. new[j].excl = "automatic" /\ new[j].start = 0 /\ new[j].mates = {} /\ new[j].prior = 0
    BY <1>1, <2>2 DEF Row
  <2> QED
    BY <1>6, <2>3 DEF Derived, new
<1>7. CASE ~d.out
  <2>1. PICK k \in DOMAIN segs : /\ o \in ToSet(segs[k].members)
                                 /\ segs[k].start = d.cur.start /\ segs[k].first = d.cur.first
                                 /\ MemberTimes(d.cur) = {t \in MemberTimes(segs[k]) : t <= o.at}
                                 /\ d.prior = EarlierTime(segs, k)
    BY <1>7 DEF SeenAs, segs, o
  <2>2. rs[j].at \notin result.auto
    BY <1>1, <1>4, <2>1
  <2>3. k \in SegmentOf(rs[j])
    BY <1>1, <2>1 DEF MemberTimes
  <2>4. \A n \in SegmentOf(rs[j]) : n = k
    <3>1. \A n \in DOMAIN segs : ToSet(segs[n].members) \subseteq Fact
      BY <1>4, <1>5
    <3>2. \A n \in SegmentOf(rs[j]) : LastOf({i \in DOMAIN segs : segs[i].first <= rs[j].at}) = n
      BY <1>4, <3>1, SegmentAt
    <3> HIDE DEF SegmentOf
    <3> QED
      BY <2>3, <3>2
  <2>5. Chosen(rs[j]) = k
    <3> HIDE DEF SegmentOf
    <3> QED
      BY <2>3, <2>4
  <2>6. new[j] = [rs[j] EXCEPT !.excl = "none", !.start = segs[k].start,
                               !.mates = MemberTimes(segs[k]), !.prior = PriorOf(k)]
    BY <1>2, <2>2, <2>5
  <2>7. PriorOf(k) = StartOr(d.prior, P)
    <3>1. k \in Nat \ {0}
      BY <1>4, LenProperties
    <3>2. CASE k = 1
      <4>1. d.prior = 0
        BY <2>1, <3>2 DEF EarlierTime
      <4> QED
        BY <1>3, <3>2, <4>1 DEF StartOr
    <3>3. CASE k # 1
      <4>1. k > 1 /\ k - 1 \in DOMAIN segs
        BY <1>4, <3>1, <3>3, LenProperties
      <4> DEFINE ms == segs[k - 1].members
      <4>2. ms \in Seq(Fact) /\ ToSet(ms) # {} /\ ToSet(ms) \subseteq ToSet(list)
        BY <1>4, <4>1 DEF SegmentOK, Segment
      <4> HIDE DEF ms
      <4>3. Last(ms) \in ToSet(ms)
        BY <4>2, LastMember
      <4>4. Last(ms).at > 0 /\ Last(ms).at \in Nat
        BY <1>5, <4>2, <4>3
      <4>5. d.prior = Last(ms).at
        BY <2>1, <3>3 DEF EarlierTime, ms
      <4>6. PriorOf(k) = Last(ms).at
        BY <4>1 DEF ms
      <4>7. d.prior # 0
        BY <4>4, <4>5
      <4> QED
        BY <4>5, <4>6, <4>7 DEF StartOr
    <3> QED
      BY <3>2, <3>3
  <2> HIDE DEF PriorOf
  <2>8. /\ new[j].excl = "none" /\ new[j].start = d.cur.start /\ new[j].mates = MemberTimes(segs[k])
        /\ new[j].prior = StartOr(d.prior, P) /\ new[j].at = rs[j].at
    BY <1>1, <2>1, <2>6, <2>7 DEF Row
  <2>9. Causal(new[j]) = MemberTimes(d.cur) /\ new[j].mates # {}
    <3>1. rs[j].at \in MemberTimes(segs[k])
      BY <2>3
    <3> QED
      BY <1>1, <2>1, <2>8, <3>1 DEF Causal
  <2> QED
    BY <1>7, <2>8, <2>9 DEF Derived, new, P
<1> QED
  BY <1>6, <1>7 DEF Derivation

\* What a replay leaves as it was.
LEMMA RebuiltKeeps ==
    ASSUME NEW rs, NEW from, NEW result, NEW i \in DOMAIN rs,
           rs[i].at < from \/ rs[i].excl = "manual"
    PROVE  RebuiltRows(rs, from, result)[i] = rs[i]
BY DEF RebuiltRows

\* A replay derives every row from the time on, and leaves the others.
LEMMA ReplayDerives ==
    ASSUME NEW rs, RowsOK(rs), SteadyRows(rs), NEW from \in Int, provider = "sub2api", NEW spans,
           NEW st, RowTrace(rs, from, st)
    PROVE  LET new == RebuiltRows(rs, from, Inferred(rs, from, spans))
           IN /\ RowsOK(new) /\ DOMAIN new = DOMAIN rs /\ Len(new) = Len(rs)
              /\ \A i \in DOMAIN rs :
                    /\ new[i].at = rs[i].at /\ new[i].used = rs[i].used
                    /\ new[i].resets = rs[i].resets /\ new[i].manual = rs[i].manual
                    /\ i \notin KeptFrom(rs, from) => new[i] = rs[i]
                    /\ i \in KeptFrom(rs, from) => Derived(new[i], st[i], EarlierIncluded(rs, from))
<1> DEFINE result == Inferred(rs, from, spans)   new == RebuiltRows(rs, from, result)
<1>1. /\ InferenceOK(result, ToReplay(rs, from), FALSE, spans)
      /\ \A j \in KeptFrom(rs, from) : SeenAs(st[j], FactsOf(rs)[j], result.segs, result.auto)
  BY ReplayIsOnline
<1>2. \A i \in DOMAIN rs : rs[i].at > 0 /\ rs[i] \in Row /\ rs[i].at \in Nat
  BY FactsOfIs DEF SteadyRows, Steady
<1> HIDE DEF result
<1>3. Replayed(new, rs, from, result, FALSE, spans)
  BY <1>1, RowsReplayed
<1>4. ASSUME NEW i \in DOMAIN rs
      PROVE  new[i].used = rs[i].used /\ new[i].resets = rs[i].resets
  <2>1. new[i] = IF rs[i].at < from \/ rs[i].excl = "manual" THEN rs[i] ELSE new[i]
    BY RebuiltKeeps
  <2>2. \E a, b, c, e : new[i] = rs[i] \/ new[i] = [rs[i] EXCEPT !.excl = a, !.start = b, !.mates = c, !.prior = e]
    BY DEF RebuiltRows
  <2> HIDE DEF new
  <2>3. PICK a, b, c, e : new[i] = rs[i] \/ new[i] = [rs[i] EXCEPT !.excl = a, !.start = b, !.mates = c, !.prior = e]
    BY <2>2
  <2> QED
    BY <1>2, <2>3 DEF Row
<1>5. ASSUME NEW i \in DOMAIN rs, i \notin KeptFrom(rs, from) PROVE new[i] = rs[i]
  <2>1. rs[i].at < from \/ rs[i].excl = "manual"
    BY <1>2, <1>5 DEF KeptFrom
  <2> QED
    BY <2>1, RebuiltKeeps
<1>6. ASSUME NEW i \in KeptFrom(rs, from) PROVE Derived(new[i], st[i], EarlierIncluded(rs, from))
  <2>1. st[i] \in Derivation
    <3>1. i \in 0 .. Len(rs)
      BY FactsOfIs DEF KeptFrom
    <3> QED
      BY <3>1, RowTraceIs
  <2> QED
    BY <1>1, <1>2, <2>1, RebuiltReads
<1> HIDE DEF new
<1> QED
  BY <1>3, <1>4, <1>5, <1>6 DEF Replayed, new, result

-----------------------------------------------------------------------------
(* Every automatic exclusion has a cause *)

HasCause(rs, i) ==
    LET p == PreviousIncluded(rs, i)
    IN p # 0 /\ rs[p].used > rs[i].used /\ SameReset(rs[p].resets, rs[i].resets)

LEMMA SteadyGrows ==
    ASSUME NEW S, Steady(S), NEW n \in Fact, 0 < n.at, 0 < OfficialStart(n), OfficialStart(n) <= n.at,
           \A o \in S : o.at < n.at,
           \A o \in S : SameReset(n.resets, o.resets) \/ OfficialStart(n) > o.at,
           \A o, p \in S : SameReset(n.resets, o.resets) =>
              (SameReset(n.resets, p.resets) <=> SameReset(o.resets, p.resets))
    PROVE  Steady(S \cup {n})
<1> DEFINE T == S \cup {n}
<1>1. /\ \A o \in T : o \in Fact /\ o.resets \in Nat /\ o.at \in Nat
      /\ \A o \in T : 0 < o.at /\ 0 < OfficialStart(o) /\ OfficialStart(o) <= o.at
  BY DEF Steady, Fact
<1>2. \A o, p \in T : /\ SameReset(o.resets, p.resets) <=> SameReset(p.resets, o.resets)
                      /\ SameReset(o.resets, o.resets)
  BY <1>1, ResetFacts
<1>3. ASSUME NEW o \in T, NEW p \in T, o.at < p.at
      PROVE  SameReset(p.resets, o.resets) \/ OfficialStart(p) > o.at
  <2>1. CASE o \in S /\ p \in S
    BY <1>3, <2>1 DEF Steady
  <2>2. CASE o \in S /\ p = n
    BY <2>2
  <2>3. CASE o = n
    <3>1. p = n \/ p.at < n.at
      OBVIOUS
    <3>2. o.at \in Nat /\ p.at \in Nat
      BY <1>1
    <3> QED
      BY <1>3, <2>3, <3>1, <3>2
  <2> QED
    BY <2>1, <2>2, <2>3
<1>4. ASSUME NEW o \in T, NEW p \in T, NEW q \in T,
             SameReset(o.resets, p.resets), SameReset(p.resets, q.resets)
      PROVE  SameReset(o.resets, q.resets)
  <2>1. CASE o \in S /\ p \in S /\ q \in S
    BY <1>4, <2>1 DEF Steady
  <2>2. CASE o = n /\ p \in S /\ q \in S
    BY <1>4, <2>2
  <2>3. CASE o \in S /\ p = n /\ q \in S
    <3>1. SameReset(n.resets, o.resets) /\ SameReset(n.resets, q.resets)
      BY <1>2, <1>4, <2>3
    <3> QED
      BY <2>3, <3>1
  <2>4. CASE o \in S /\ p \in S /\ q = n
    <3>1. SameReset(n.resets, p.resets) /\ SameReset(p.resets, o.resets)
      BY <1>2, <1>4, <2>4
    <3>2. SameReset(n.resets, o.resets)
      BY <2>4, <3>1
    <3> QED
      BY <1>2, <2>4, <3>2
  <2>5. CASE p = q \/ o = p \/ o = q
    BY <1>2, <1>4, <2>5
  <2> QED
    BY <2>1, <2>2, <2>3, <2>4, <2>5
<1>5. T \subseteq Fact
  BY <1>1
<1> HIDE DEF T
<1>6. Steady(T)
  BY <1>1, <1>3, <1>4, <1>5 DEF Steady
<1> QED
  BY <1>6 DEF T

\* A capture that is timely leaves the readings steady.
LEMMA CaptureSteady ==
    ASSUME StateOK, SteadyRows(rows), NEW w \in Windows[provider], TimeLeft,
           Timely(w), OfficialStart(w) <= Now,
           clock' = clock + 1, provider' = provider, rows' = Append(rows, NewRow(Now, w))
    PROVE  SteadyRows(rows')
<1> DEFINE r == NewRow(Now, w)   n == Len(rows) + 1
<1>1. /\ Now \in Nat /\ \A i \in DOMAIN rows : rows[i].at < Now
  BY NowIsNew
<1>2. Now > 0
  <2>1. Times[provider] \in Seq(Nat \ {0})
    BY TimesAssumption DEF StateOK
  <2>2. clock + 1 \in 1 .. Len(Times[provider])
    <3>1. Len(Times[provider]) \in Nat
      BY <2>1, LenProperties
    <3> QED
      BY <3>1 DEF StateOK, TimeLeft
  <2>3. Now \in Nat \ {0}
    BY <2>1, <2>2, ElementOfSeq DEF Now
  <2> QED
    BY <2>3
<1>3. /\ w \in [used : Nat, resets : Nat] /\ w.resets > Window
  BY WindowsAssumption DEF StateOK
<1>4. /\ r \in Row /\ r.at = Now /\ r.resets = w.resets
  <2>1. r \in Row
    BY <1>1, NewRowOK DEF StateOK
  <2> QED
    BY <2>1 DEF NewRow
<1> HIDE DEF r
<1>5. /\ DOMAIN rows' = DOMAIN rows \cup {n}
      /\ \A i \in DOMAIN rows : rows'[i] = rows[i]
      /\ rows'[n] = r
  BY <1>4, RowTyped, Appended DEF r
<1>6. ToSet(FactsOf(rows')) = ToSet(FactsOf(rows)) \cup {Facts(r)}
  <2>1. /\ DOMAIN FactsOf(rows') = DOMAIN rows \cup {n} /\ DOMAIN FactsOf(rows) = DOMAIN rows
        /\ \A i \in DOMAIN rows : FactsOf(rows')[i] = FactsOf(rows)[i]
        /\ FactsOf(rows')[n] = Facts(r)
    BY <1>5 DEF FactsOf
  <2> QED
    BY <2>1 DEF ToSet
<1>7. \A o \in ToSet(FactsOf(rows)) : \E i \in DOMAIN rows : /\ o.at = rows[i].at /\ o.resets = rows[i].resets
                                                            /\ rows[i] \in ToSet(rows)
  <2>1. \A o \in ToSet(FactsOf(rows)) : \E i \in DOMAIN rows : o = FactsOf(rows)[i]
    BY FactsOfIs DEF ToSet, StateOK
  <2>2. \A i \in DOMAIN rows : /\ FactsOf(rows)[i].at = rows[i].at /\ FactsOf(rows)[i].resets = rows[i].resets
                               /\ rows[i] \in ToSet(rows)
    BY FactsOfIs DEF ToSet, StateOK
  <2> QED
    BY <2>1, <2>2
<1> DEFINE S == ToSet(FactsOf(rows))   o == Facts(r)
<1>8. /\ o \in Fact /\ o.at = Now /\ o.resets = w.resets
      /\ OfficialStart(o) = w.resets - Window
  BY <1>4, RowFacts DEF Facts, OfficialStart
<1>9. /\ \A x \in S : x.at < o.at
      /\ \A x \in S : SameReset(o.resets, x.resets) \/ OfficialStart(o) > x.at
      /\ \A x, y \in S : SameReset(o.resets, x.resets) =>
            (SameReset(o.resets, y.resets) <=> SameReset(x.resets, y.resets))
  <2> HIDE DEF S, o
  <2>1. OfficialStart(w) = w.resets - Window
    BY DEF OfficialStart
  <2>2. \A x \in S : x.at < o.at /\ (SameReset(o.resets, x.resets) \/ OfficialStart(o) > x.at)
    BY <1>1, <1>7, <1>8, <2>1 DEF Timely, S
  <2>3. \A x, y \in S : SameReset(o.resets, x.resets) =>
           (SameReset(o.resets, y.resets) <=> SameReset(x.resets, y.resets))
    <3> SUFFICES ASSUME NEW x \in S, NEW y \in S
                 PROVE  SameReset(o.resets, x.resets) =>
                           (SameReset(o.resets, y.resets) <=> SameReset(x.resets, y.resets))
      OBVIOUS
    <3>1. PICK i \in DOMAIN rows : x.resets = rows[i].resets /\ rows[i] \in ToSet(rows)
      BY <1>7 DEF S
    <3>2. PICK j \in DOMAIN rows : y.resets = rows[j].resets /\ rows[j] \in ToSet(rows)
      BY <1>7 DEF S
    <3> QED
      BY <1>8, <3>1, <3>2 DEF Timely
  <2> QED
    BY <2>2, <2>3
<1>10. 0 < o.at /\ 0 < OfficialStart(o) /\ OfficialStart(o) <= o.at
  <2>1. Window \in Nat /\ w.resets \in Nat
    BY <1>3, WindowAssumption
  <2> QED
    BY <1>2, <1>3, <1>8, <2>1 DEF OfficialStart
<1>11. Steady(S \cup {o})
  <2>1. Steady(S)
    BY DEF SteadyRows
  <2> HIDE DEF S, o
  <2> QED
    BY <1>8, <1>9, <1>10, <2>1, SteadyGrows
<1> QED
  BY <1>6, <1>11 DEF SteadyRows

\* A change of exclusions, marks and derivations leaves them steady.
LEMMA SameReadings ==
    ASSUME NEW rs, RowsOK(rs), SteadyRows(rs), NEW new, RowsOK(new), DOMAIN new = DOMAIN rs,
           \A i \in DOMAIN rs : new[i].at = rs[i].at /\ new[i].resets = rs[i].resets
    PROVE  SteadyRows(new)
<1> DEFINE S == ToSet(FactsOf(rs))   T == ToSet(FactsOf(new))
<1>1. \A x \in T : x \in Fact /\ \E y \in S : x.at = y.at /\ x.resets = y.resets
  <2>1. \A x \in T : \E i \in DOMAIN new : x = FactsOf(new)[i]
    BY FactsOfIs DEF ToSet
  <2>2. \A i \in DOMAIN new : /\ FactsOf(new)[i] \in Fact /\ FactsOf(rs)[i] \in S
                              /\ FactsOf(new)[i].at = FactsOf(rs)[i].at
                              /\ FactsOf(new)[i].resets = FactsOf(rs)[i].resets
    BY FactsOfIs
  <2> HIDE DEF S, T
  <2> QED
    BY <2>1, <2>2
<1>2. Steady(S)
  BY DEF SteadyRows
<1> HIDE DEF S, T
<1>3. Steady(T)
  <2>1. \A o \in T : 0 < o.at /\ 0 < OfficialStart(o) /\ OfficialStart(o) <= o.at
    BY <1>1, <1>2 DEF Steady, OfficialStart
  <2>2. \A o, p \in T : o.at < p.at => SameReset(p.resets, o.resets) \/ OfficialStart(p) > o.at
    BY <1>1, <1>2 DEF Steady, OfficialStart
  <2>3. \A o, p, q \in T :
          SameReset(o.resets, p.resets) /\ SameReset(p.resets, q.resets) => SameReset(o.resets, q.resets)
    BY <1>1, <1>2 DEF Steady
  <2> QED
    BY <1>1, <2>1, <2>2, <2>3 DEF Steady
<1> QED
  BY <1>3 DEF SteadyRows, T

LEMMA PreviousSame ==
    ASSUME NEW a, NEW b, NEW i, \A k \in 1 .. i - 1 : a[k].excl = b[k].excl
    PROVE  PreviousIncluded(a, i) = PreviousIncluded(b, i)
<1>1. {j \in 1 .. i - 1 : Included(a, j)} = {j \in 1 .. i - 1 : Included(b, j)}
  BY DEF Included
<1> QED
  BY <1>1 DEF PreviousIncluded

\* What a replay excludes has a cause.
LEMMA ReplayHasCause ==
    ASSUME NEW rs, RowsOK(rs), SteadyRows(rs), NEW from \in Int, provider = "sub2api", NEW spans,
           NEW i \in KeptFrom(rs, from),
           RebuiltRows(rs, from, Inferred(rs, from, spans))[i].excl = "automatic"
    PROVE  HasCause(RebuiltRows(rs, from, Inferred(rs, from, spans)), i)
<1> DEFINE new == RebuiltRows(rs, from, Inferred(rs, from, spans))
           s == FactsOf(rs)   kept == KeptFrom(rs, from)
<1>1. PICK st : RowTrace(rs, from, st)
  BY RowTraceIs
<1>2. /\ DOMAIN new = DOMAIN rs /\ RowsOK(new)
      /\ \A j \in DOMAIN rs :
            /\ new[j].at = rs[j].at /\ new[j].used = rs[j].used /\ new[j].resets = rs[j].resets
            /\ j \notin kept => new[j] = rs[j]
            /\ j \in kept => Derived(new[j], st[j], EarlierIncluded(rs, from))
  BY <1>1, ReplayDerives
<1>3. /\ Len(rs) \in Nat /\ DOMAIN rs = 1 .. Len(rs)
      /\ \A j \in DOMAIN rs : /\ s[j].used = rs[j].used /\ s[j].resets = rs[j].resets /\ s[j].at = rs[j].at
                              /\ rs[j].used \in Nat /\ rs[j].resets \in Nat /\ rs[j].at \in Nat
                              /\ s[j] \in ToSet(s)
      /\ Ascending(rs)
  BY FactsOfIs DEF RowsOK
<1>4. kept \subseteq DOMAIN rs /\ \A j \in kept : rs[j].at >= from
  BY DEF KeptFrom
<1>5. TraceOK(s, kept, st, i)
  <2>1. i \in 0 .. Len(rs)
    BY <1>3, <1>4
  <2> QED
    BY <1>1, <2>1, RowTraceIs
<1>5a. \A j \in DOMAIN rs : j \in kept <=> (rs[j].at >= from /\ rs[j].excl # "manual")
  BY DEF KeptFrom
<1> HIDE DEF new, s, kept
<1>6. st[i].out
  BY <1>2, <1>4 DEF Derived, new, kept
<1>7. PICK f \in kept, l \in kept, a \in kept : HeldBy(s, kept, st, i, f, l, a)
  <2>1. i \in Nat /\ i \in kept /\ i <= i
    BY <1>3, <1>4 DEF kept
  <2> QED
    BY <1>5, <2>1 DEF TraceOK
<1>8. /\ l <= i /\ ~st[l].out
      /\ \A j \in kept : l <= j /\ j <= i => SameReset(s[j].resets, s[a].resets)
      /\ \A j \in kept : l < j /\ j <= i => st[j].out /\ s[j].used < s[l].used
  BY <1>7 DEF HeldBy
<1>9. l \in Nat /\ i \in Nat /\ l # i /\ l < i /\ l \in 1 .. i - 1 /\ i \in kept
  BY <1>3, <1>4, <1>6, <1>8 DEF kept
<1>10. Included(new, l)
  BY <1>2, <1>4, <1>8 DEF Derived, Included
<1>11. ASSUME NEW j \in 1 .. i - 1, Included(new, j) PROVE j <= l
  <2> SUFFICES ASSUME l < j PROVE FALSE
    BY <1>9
  <2>1. j \in DOMAIN rs /\ j \in Nat /\ j <= i
    BY <1>3, <1>4, <1>9
  <2>2. rs[l].at < rs[j].at
    BY <1>3, <1>4, <2>1 DEF Ascending
  <2>3. rs[j].at >= from
    BY <1>3, <1>4, <2>1, <2>2
  <2>4. CASE j \in kept
    <3>1. st[j].out
      BY <1>8, <2>1, <2>4
    <3> QED
      BY <1>2, <1>11, <2>1, <2>4, <3>1 DEF Derived, Included
  <2>5. CASE j \notin kept
    BY <1>2, <1>5a, <1>11, <2>1, <2>3, <2>5 DEF Included
  <2> QED
    BY <2>4, <2>5
<1>12. PreviousIncluded(new, i) = l
  <2> DEFINE S == {j \in 1 .. i - 1 : Included(new, j)}
  <2>1. l \in S /\ (\A j \in S : j <= l) /\ S \subseteq 1 .. i - 1 /\ i - 1 \in Nat
    BY <1>9, <1>10, <1>11
  <2> HIDE DEF S
  <2>2. LastOf(S) \in S /\ l <= LastOf(S)
    BY <2>1, LastOfIs
  <2>3. LastOf(S) <= l /\ LastOf(S) \in Nat
    <3>1. LastOf(S) \in 1 .. i - 1
      BY <2>1, <2>2
    <3>2. LastOf(S) \in Nat
      BY <2>1, <3>1
    <3> QED
      BY <2>1, <2>2, <3>2
  <2>4. LastOf(S) = l
    BY <1>9, <2>2, <2>3
  <2> QED
    BY <2>4 DEF PreviousIncluded, S
<1>13. SameReset(rs[l].resets, rs[i].resets)
  <2>1. SameReset(s[l].resets, s[a].resets) /\ SameReset(s[i].resets, s[a].resets)
    BY <1>8, <1>9
  <2>2. SameReset(s[a].resets, s[i].resets)
    BY <1>3, <1>4, <1>9, <2>1, ResetFacts
  <2>3. SameReset(s[l].resets, s[i].resets)
    BY <1>3, <1>4, <1>9, <2>1, <2>2 DEF SteadyRows, Steady, s
  <2> QED
    BY <1>3, <1>4, <1>9, <2>3
<1>14. rs[l].used > rs[i].used
  <2>1. s[i].used < s[l].used
    BY <1>8, <1>9
  <2> QED
    BY <1>3, <1>4, <1>9, <2>1
<1>15. HasCause(new, i)
  BY <1>2, <1>4, <1>9, <1>12, <1>13, <1>14 DEF HasCause
<1> QED
  BY <1>15 DEF new

CauseInv ==
    provider = "sub2api" /\ timely =>
        /\ SteadyRows(rows)
        /\ \A i \in DOMAIN rows : rows[i].excl = "automatic" => HasCause(rows, i)

LEMMA CauseStays ==
    ASSUME StateOK, NEW new, NEW i \in DOMAIN rows, HasCause(rows, i), \A k \in 1 .. i : new[k] = rows[k]
    PROVE  HasCause(new, i)
<1> DEFINE p == PreviousIncluded(rows, i)
<1>1. i \in Nat \ {0}
  BY RowTyped
<1>2. PreviousIncluded(new, i) = p
  <2>1. \A k \in 1 .. i - 1 : k \in 1 .. i
    BY <1>1
  <2> QED
    BY <2>1, PreviousSame
<1>3. p \in 1 .. i - 1
  <2> DEFINE S == {j \in 1 .. i - 1 : Included(rows, j)}
  <2>1. S \subseteq 1 .. i - 1 /\ i - 1 \in Nat
    BY <1>1
  <2>2. p = LastOf(S) /\ p # 0
    BY DEF HasCause, PreviousIncluded
  <2> HIDE DEF S, p
  <2>3. LastOf(S) \in S \cup {0}
    BY <2>1, LastOfIs
  <2> QED
    BY <2>1, <2>2, <2>3
<1>4. p \in 1 .. i /\ i \in 1 .. i
  <2> HIDE DEF p
  <2> QED
    BY <1>1, <1>3
<1> HIDE DEF p
<1>5. new[p] = rows[p] /\ new[i] = rows[i]
  BY <1>4
<1> QED
  BY <1>2, <1>5 DEF HasCause, p

LEMMA ReplayKeepsCause ==
    ASSUME StateOK, CauseInv, NEW rs, NEW from \in Int, ChangeFrom(rs, from), Rebuild(rs, from),
           provider' = provider, timely' = timely
    PROVE  CauseInv'
<1> SUFFICES ASSUME provider = "sub2api", timely
             PROVE  /\ SteadyRows(rows')
                    /\ \A i \in DOMAIN rows' : rows'[i].excl = "automatic" => HasCause(rows', i)
  BY DEF CauseInv
<1>1. SteadyRows(rows) /\ RowsOK(rows)
  BY DEF CauseInv, StateOK
<1>2. /\ RowsOK(rs) /\ DOMAIN rs = DOMAIN rows
      /\ \A i \in DOMAIN rows : rs[i].at = rows[i].at /\ rs[i].resets = rows[i].resets
      /\ \A i \in DOMAIN rows : rs[i].at < from => rs[i] = rows[i]
  BY DEF ChangeFrom
<1>3. SteadyRows(rs)
  BY <1>1, <1>2, SameReadings
<1>4. rows' = RebuiltRows(rs, from, Inferred(rs, from, intervals))
  BY DEF Rebuild
<1>5. PICK st : RowTrace(rs, from, st)
  BY <1>2, <1>3, RowTraceIs
<1>6. /\ RowsOK(rows') /\ DOMAIN rows' = DOMAIN rs
      /\ \A i \in DOMAIN rs :
            /\ rows'[i].at = rs[i].at /\ rows'[i].resets = rs[i].resets
            /\ i \notin KeptFrom(rs, from) => rows'[i] = rs[i]
  BY <1>2, <1>3, <1>4, <1>5, ReplayDerives
<1>7. SteadyRows(rows')
  BY <1>2, <1>3, <1>6, SameReadings
<1>8. ASSUME NEW i \in DOMAIN rows, rows'[i].excl = "automatic" PROVE HasCause(rows', i)
  <2>1. CASE i \in KeptFrom(rs, from)
    BY <1>2, <1>3, <1>4, <1>8, <2>1, ReplayHasCause
  <2>2. CASE i \notin KeptFrom(rs, from)
    <3>1. rows'[i] = rs[i] /\ rs[i].excl # "manual"
      BY <1>2, <1>6, <1>8, <2>2
    <3>2. rs[i].at < from /\ rs[i].at \in Nat /\ i \in Nat /\ DOMAIN rows = 1 .. Len(rows)
      BY <1>2, <2>2, <3>1, RowTyped DEF KeptFrom
    <3>3. ASSUME NEW k \in 1 .. i PROVE rows'[k] = rows[k]
      <4>1. k \in DOMAIN rows /\ k \in Nat /\ k <= i
        BY <3>2
      <4>2. rs[k].at <= rs[i].at /\ rs[k].at \in Nat
        <5>1. k = i \/ k < i
          BY <3>2, <4>1
        <5>2. rs[k].at \in Nat
          BY <1>2, <4>1, RowTyped
        <5> QED
          BY <1>2, <3>2, <4>1, <5>1, <5>2 DEF RowsOK, Ascending
      <4>3. rs[k].at < from /\ ~(rs[k].at >= from)
        BY <3>2, <4>2
      <4> QED
        BY <1>2, <1>6, <4>1, <4>3 DEF KeptFrom
    <3>4. rows'[i] = rows[i]
      BY <1>2, <3>1, <3>2
    <3>5. HasCause(rows, i)
      BY <1>8, <3>4 DEF CauseInv
    <3> QED
      BY <3>3, <3>5, CauseStays
  <2> QED
    BY <2>1, <2>2
<1> QED
  BY <1>2, <1>6, <1>7, <1>8

\* The replays, whoever asks for them.
LEMMA CommandReplays ==
    ASSUME StateOK,
           \/ RebuildCurrentInterval
           \/ \E i \in DOMAIN rows : Exclude(i)
           \/ \E i \in DOMAIN rows : Restore(i)
           \/ \E i, e \in DOMAIN rows : SetManualStart(i, e)
           \/ \E i \in DOMAIN rows : ClearManualStart(i)
    PROVE  /\ Command
           /\ \E rs : \E from \in Int : ChangeFrom(rs, from) /\ Rebuild(rs, from)
<1>1. CASE RebuildCurrentInterval
  <2> DEFINE i == Len(rows)   from == RemovalAnchor(i)
  <2>1. Command /\ rows # <<>> /\ Rebuild(rows, from)
    BY <1>1 DEF RebuildCurrentInterval, RebuildFor
  <2>2. i \in DOMAIN rows
    BY <2>1, RowTyped, EmptySeq
  <2>3. from \in Int
    BY <2>2, RemovalAnchorBefore DEF Before
  <2> HIDE DEF from
  <2> QED
    BY <2>1, <2>3, Unchanged
<1>2. ASSUME NEW i \in DOMAIN rows, Exclude(i)
      PROVE  Command /\ \E rs : \E from \in Int : ChangeFrom(rs, from) /\ Rebuild(rs, from)
  <2> DEFINE rs == MarkRow(i, "manual", rows[i].manual)   from == RemovalAnchor(i)
  <2>1. Command /\ RebuildFor(i, rs, from) /\ ChangeFrom(rs, from) /\ from \in Int
    BY <1>2, ExcludeIs
  <2> HIDE DEF rs, from
  <2> QED
    BY <2>1 DEF RebuildFor
<1>3. ASSUME NEW i \in DOMAIN rows, Restore(i)
      PROVE  Command /\ \E rs : \E from \in Int : ChangeFrom(rs, from) /\ Rebuild(rs, from)
  <2> DEFINE confirmed == ConfirmsRollback(i) /\ rows[i].manual = 0
             rs == MarkRow(i, "none", IF confirmed THEN rows[i].at ELSE rows[i].manual)
             from == IF confirmed THEN rows[i].at ELSE Anchor(rows, i)
  <2>1. Command /\ RebuildFor(i, rs, from) /\ ChangeFrom(rs, from) /\ from \in Int
    BY <1>3, RestoreIs
  <2> HIDE DEF rs, from
  <2> QED
    BY <2>1 DEF RebuildFor
<1>4. ASSUME NEW i \in DOMAIN rows, NEW e \in DOMAIN rows, SetManualStart(i, e)
      PROVE  Command /\ \E rs : \E from \in Int : ChangeFrom(rs, from) /\ Rebuild(rs, from)
  <2> DEFINE rs == MarkInterval(i, e)   from == rows[i].at
  <2>1. Command /\ Rebuild(rs, from) /\ ChangeFrom(rs, from) /\ from \in Int
    BY <1>4, SetManualStartIs
  <2> HIDE DEF rs, from
  <2> QED
    BY <2>1
<1>5. ASSUME NEW i \in DOMAIN rows, ClearManualStart(i)
      PROVE  Command /\ \E rs : \E from \in Int : ChangeFrom(rs, from) /\ Rebuild(rs, from)
  <2> DEFINE rs == MarkRow(i, rows[i].excl, 0)   from == MergeAnchor(rows, i)
  <2>1. Command /\ Rebuild(rs, from) /\ ChangeFrom(rs, from) /\ from \in Int
    BY <1>5, ClearManualStartIs
  <2> HIDE DEF rs, from
  <2> QED
    BY <2>1
<1> QED
  BY <1>1, <1>2, <1>3, <1>4, <1>5

LEMMA OwnReplays ==
    ASSUME StateOK, (\E b \in BOOLEAN : RebuildCapture(b)) \/ (Restart /\ Underived # {})
    PROVE  \E from \in Int : ChangeFrom(rows, from) /\ Rebuild(rows, from)
<1>0. RowsOK(rows) /\ DOMAIN rows \subseteq Nat
  BY RowTyped DEF StateOK
<1>1. ASSUME NEW b \in BOOLEAN, RebuildCapture(b)
      PROVE  \E from \in Int : ChangeFrom(rows, from) /\ Rebuild(rows, from)
  <2> DEFINE from == IF b \/ provider = "cpa" THEN Everything ELSE Anchor(rows, captured)
  <2>1. captured \in DOMAIN rows /\ Rebuild(rows, from)
    BY <1>1, RowTyped DEF RebuildCapture, StateOK
  <2>2. from \in Int
    BY <1>0, <2>1, AnchorsBefore DEF Before, Everything
  <2> HIDE DEF from
  <2> QED
    BY <2>1, <2>2, Unchanged
<1>2. ASSUME Restart, Underived # {}
      PROVE  \E from \in Int : ChangeFrom(rows, from) /\ Rebuild(rows, from)
  <2> DEFINE i == CHOOSE k \in Underived : \A j \in Underived : k <= j
             from == IF rows[i].manual = 0 THEN MergeAnchor(rows, i) ELSE Anchor(rows, i)
  <2>1. Underived \subseteq DOMAIN rows
    BY DEF Underived
  <2>2. i \in Underived
    <3>1. \E k \in Underived : \A j \in Underived : k <= j
      BY <1>0, <1>2, <2>1, LeastNumber
    <3> QED
      BY <3>1
  <2>3. Rebuild(rows, from)
    BY <1>2 DEF Restart
  <2> HIDE DEF i
  <2>4. from \in Int
    BY <1>0, <2>1, <2>2, AnchorsBefore DEF Before
  <2> HIDE DEF from
  <2> QED
    BY <2>3, <2>4, Unchanged
<1> QED
  BY <1>1, <1>2

LEMMA CaptureKeepsCause ==
    ASSUME StateOK, CauseInv, NEW w \in Windows[provider], Capture(w)
    PROVE  CauseInv'
<1> DEFINE r == NewRow(Now, w)   n == Len(rows) + 1
<1>1. /\ rows' = Append(rows, r) /\ TimeLeft /\ OfficialStart(w) <= Now /\ provider' = provider
      /\ clock' = clock + 1 /\ timely' = (timely /\ Timely(w))
  BY DEF Capture
<1> SUFFICES ASSUME provider = "sub2api", timely, Timely(w)
             PROVE  /\ SteadyRows(rows')
                    /\ \A i \in DOMAIN rows' : rows'[i].excl = "automatic" => HasCause(rows', i)
  BY <1>1 DEF CauseInv
<1>2. SteadyRows(rows')
  BY <1>1, CaptureSteady DEF CauseInv
<1>3. Now \in Nat /\ r \in Row /\ r.excl = "none"
  <2>1. Now \in Nat
    BY <1>1, NowIsNew
  <2> QED
    BY <1>1, <2>1, NewRowOK DEF StateOK
<1> HIDE DEF r
<1>4. /\ DOMAIN rows' = DOMAIN rows \cup {n}
      /\ \A i \in DOMAIN rows : rows'[i] = rows[i]
      /\ rows'[n] = r
  BY <1>1, <1>3, RowTyped, Appended
<1>5. ASSUME NEW i \in DOMAIN rows, rows'[i].excl = "automatic" PROVE HasCause(rows', i)
  <2>1. \A k \in 1 .. i : rows'[k] = rows[k]
    <3>1. \A k \in 1 .. i : k \in DOMAIN rows
      BY RowTyped
    <3> QED
      BY <1>4, <3>1
  <2>2. HasCause(rows, i)
    BY <1>4, <1>5 DEF CauseInv
  <2> QED
    BY <2>1, <2>2, CauseStays
<1> QED
  BY <1>2, <1>3, <1>4, <1>5

LEMMA InitCause == Init => CauseInv
<1> SUFFICES ASSUME Init PROVE CauseInv
  OBVIOUS
<1>1. rows = <<>> /\ DOMAIN rows = {}
  BY EmptySeq DEF Init
<1>2. ToSet(FactsOf(rows)) = {}
  BY <1>1 DEF ToSet, FactsOf
<1>3. SteadyRows(rows)
  BY <1>2 DEF SteadyRows, Steady
<1> QED
  BY <1>1, <1>3 DEF CauseInv

LEMMA NextCause == Inv /\ CauseInv /\ [Next]_vars => CauseInv'
<1> SUFFICES ASSUME Inv, CauseInv, [Next]_vars PROVE CauseInv'
  OBVIOUS
<1>0. StateOK
  BY DEF Inv
<1>1. ASSUME rows' = rows, provider' = provider, timely' = timely PROVE CauseInv'
  <2>1. \A i : HasCause(rows, i) => HasCause(rows', i)
    BY <1>1 DEF HasCause
  <2>2. SteadyRows(rows) => SteadyRows(rows')
    BY <1>1
  <2> QED
    BY <1>1, <2>1, <2>2 DEF CauseInv
<1>2. ASSUME NEW rs, NEW from \in Int, ChangeFrom(rs, from), Rebuild(rs, from),
             provider' = provider, timely' = timely
      PROVE  CauseInv'
  BY <1>0, <1>2, ReplayKeepsCause
<1>3. CASE CaptureLocal \/ Pass \/ RebuildFails \/ Crash \/ UNCHANGED vars
  BY <1>1, <1>3 DEF CaptureLocal, Pass, RebuildFails, Crash, vars, premises
<1>4. CASE CollectionEvent
  <2>1. provider = "cpa" /\ provider' = provider
    BY <1>4 DEF CollectionEvent, CollectionConnected, CollectionDisconnected, OpeningSample,
                CollectionDisconnectedWithSample, Disconnect, RebuildWith
  <2> QED
    BY <2>1 DEF CauseInv
<1>5. CASE \E w \in Windows[provider] : Capture(w)
  BY <1>0, <1>5, CaptureKeepsCause
<1>6. CASE \E b \in BOOLEAN : RebuildCapture(b)
  <2>1. provider' = provider /\ timely' = timely
    BY <1>6 DEF RebuildCapture, premises
  <2> QED
    BY <1>0, <1>2, <1>6, <2>1, OwnReplays
<1>7. CASE Restart
  <2>1. provider' = provider /\ timely' = timely
    BY <1>7 DEF Restart, premises
  <2>2. CASE Underived = {}
    BY <1>1, <1>7, <2>1, <2>2 DEF Restart
  <2>3. CASE Underived # {}
    BY <1>0, <1>2, <1>7, <2>1, <2>3, OwnReplays
  <2> QED
    BY <2>2, <2>3
<1>8. CASE \/ RebuildCurrentInterval
           \/ \E i \in DOMAIN rows : Exclude(i)
           \/ \E i \in DOMAIN rows : Restore(i)
           \/ \E i, e \in DOMAIN rows : SetManualStart(i, e)
           \/ \E i \in DOMAIN rows : ClearManualStart(i)
  <2>1. Command /\ \E rs : \E from \in Int : ChangeFrom(rs, from) /\ Rebuild(rs, from)
    BY <1>0, <1>8, CommandReplays
  <2>2. provider' = provider /\ timely' = timely
    BY <2>1 DEF Command
  <2> QED
    BY <1>2, <2>1, <2>2
<1> QED
  BY <1>3, <1>4, <1>5, <1>6, <1>7, <1>8 DEF Next

\* A row of a Sub2API account is excluded automatically only while the row kept
\* before it is higher in the same official window, wherever the replays began
\* and whichever of them failed: no anchor leaves an exclusion behind whose cause
\* a command has taken away.
THEOREM NoExclusionWithoutCause == Spec => []ExclusionsHaveACause
<1>1. CauseInv => ExclusionsHaveACause
  BY DEF CauseInv, ExclusionsHaveACause, Regular, HasCause
<1> QED
  BY <1>1, InitCause, NextCause, Invariance, PTL DEF Spec

-----------------------------------------------------------------------------
(* A replay from where a segment begins is one of the whole account *)

FullTrace(rs, st) == RowTrace(rs, Everything, st)

\* The first row that is replayed begins a segment of the whole account.
Opens(rs, from, st, b) ==
    /\ b \in KeptFrom(rs, from) /\ \A i \in KeptFrom(rs, from) : b <= i
    /\ Begins(st[b - 1], FactsOf(rs)[b])
Cut(rs, from, st) == KeptFrom(rs, from) = {} \/ \E b : Opens(rs, from, st, b)

\* Every row that does not wait is as the derivations of the whole account say.
Followed(rs, st) ==
    /\ FullTrace(rs, st)
    /\ \A i \in KeptFrom(rs, Everything) :
          (rs[i].excl = "none" /\ rs[i].mates = {}) \/ Derived(rs[i], st[i], 0)

LEMMA KeptIs ==
    ASSUME NEW rs, RowsOK(rs), NEW from \in Int
    PROVE  /\ KeptFrom(rs, Everything) = {i \in DOMAIN rs : rs[i].excl # "manual"}
           /\ \A i \in DOMAIN rs : i \in KeptFrom(rs, from) <=> (i \in KeptFrom(rs, Everything) /\ ~(rs[i].at < from))
           /\ KeptFrom(rs, from) \subseteq DOMAIN rs /\ KeptFrom(rs, Everything) \subseteq DOMAIN rs
           /\ DOMAIN rs \subseteq Nat
           /\ \A i \in DOMAIN rs : rs[i].at \in Nat
<1>1. DOMAIN rs = 1 .. Len(rs) /\ Len(rs) \in Nat /\ \A i \in DOMAIN rs : rs[i].at \in Nat
  BY FactsOfIs
<1> QED
  BY <1>1 DEF KeptFrom, Everything

LEMMA OnlineSame ==
    ASSUME NEW d \in Derivation, NEW e \in Derivation, NEW o \in Fact, NEW Q,
           d.cur = e.cur, d.until = e.until, d.cur # NoSegment, Last(d.cur.members).at # 0,
           e.prior = StartOr(d.prior, Q)
    PROVE  /\ Online(d, o).cur = Online(e, o).cur /\ Online(d, o).until = Online(e, o).until
           /\ Online(d, o).out = Online(e, o).out
           /\ Online(e, o).prior = StartOr(Online(d, o).prior, Q)
<1>1. Begins(d, o) <=> Begins(e, o)
  BY DEF Begins, InManual
<1>2. InManual(d, o) <=> InManual(e, o)
  BY DEF InManual
<1>3. CASE Begins(d, o)
  <2>1. /\ Online(d, o) = [cur |-> SegmentFrom(o), until |-> o.manual, out |-> FALSE,
                           prior |-> Last(d.cur.members).at]
        /\ Online(e, o) = [cur |-> SegmentFrom(o), until |-> o.manual, out |-> FALSE,
                           prior |-> Last(d.cur.members).at]
    BY <1>1, <1>3 DEF Online
  <2> QED
    BY <2>1 DEF StartOr
<1>4. CASE ~Begins(d, o)
  <2>1. /\ Online(d, o).cur = Online(e, o).cur /\ Online(d, o).until = Online(e, o).until
        /\ Online(d, o).out = Online(e, o).out
        /\ Online(d, o).prior = d.prior /\ Online(e, o).prior = e.prior
    BY <1>1, <1>2, <1>4 DEF Online
  <2> QED
    BY <2>1
<1> QED
  BY <1>3, <1>4

LEMMA SuffixAgrees ==
    ASSUME NEW rs, RowsOK(rs), SteadyRows(rs), NEW from \in Int, NEW st, FullTrace(rs, st),
           NEW sf, RowTrace(rs, from, sf), NEW b, Opens(rs, from, st, b)
    PROVE  \A j \in b .. Len(rs) :
              /\ sf[j].cur = st[j].cur /\ sf[j].until = st[j].until /\ sf[j].out = st[j].out
              /\ st[j].prior = StartOr(sf[j].prior, st[b].prior)
<1> DEFINE n == Len(rs)   s == FactsOf(rs)   kept == KeptFrom(rs, from)   all == KeptFrom(rs, Everything)
           Q == st[b].prior
           Same(d, e) == /\ d.cur = e.cur /\ d.until = e.until /\ d.out = e.out
                         /\ e.prior = StartOr(d.prior, Q)
           S == [k \in 0 .. n |-> {d \in Derivation : IF k < b THEN d = Nothing ELSE Same(d, st[k])}]
<1>1. /\ n \in Nat /\ DOMAIN rs = 1 .. n /\ Ascending(rs)
      /\ \A j \in DOMAIN rs : /\ s[j] \in Fact /\ s[j].at = rs[j].at /\ s[j] \in ToSet(s)
                              /\ OfficialStart(s[j]) <= s[j].at /\ s[j].at > 0
  <2>1. \A o \in ToSet(s) : OfficialStart(o) <= o.at /\ o.at > 0
    BY DEF SteadyRows, Steady
  <2> QED
    BY <2>1, FactsOfIs DEF RowsOK
<1>2. /\ kept \subseteq DOMAIN rs /\ all \subseteq DOMAIN rs
      /\ \A i \in DOMAIN rs : i \in kept <=> (i \in all /\ ~(rs[i].at < from))
      /\ \A i \in DOMAIN rs : rs[i].at \in Nat
  BY KeptIs
<1>3. /\ b \in kept /\ (\A i \in kept : b <= i) /\ Begins(st[b - 1], s[b])
      /\ b \in 1 .. n /\ b \in all
  BY <1>1, <1>2 DEF Opens
<1>4. /\ \A j \in 0 .. n : st[j] \in Derivation /\ TraceOK(s, all, st, j)
      /\ \A j \in 0 .. n : sf[j] \in Derivation
  BY RowTraceIs DEF FullTrace
<1>5. /\ sf[0] = Nothing
      /\ \A j \in 1 .. n : sf[j] = IF j \in kept THEN Online(sf[j - 1], s[j]) ELSE sf[j - 1]
      /\ \A j \in 1 .. n : st[j] = IF j \in all THEN Online(st[j - 1], s[j]) ELSE st[j - 1]
  BY DEF FullTrace, RowTrace, Trace
<1> HIDE DEF s, kept, all, n
<1>6. sf[0] \in S[0]
  <2>1. 0 \in 0 .. n /\ 0 < b
    BY <1>1, <1>3
  <2> QED
    BY <1>4, <1>5, <2>1
<1>7. ASSUME NEW k \in 1 .. n, sf[k - 1] \in S[k - 1] PROVE sf[k] \in S[k]
  <2>1. k - 1 \in 0 .. n /\ k \in 0 .. n /\ k \in DOMAIN rs
    BY <1>1
  <2>2. IF k - 1 < b THEN sf[k - 1] = Nothing ELSE Same(sf[k - 1], st[k - 1])
    BY <1>7, <2>1
  <2> HIDE DEF Same
  <2>3. IF k < b THEN sf[k] = Nothing ELSE Same(sf[k], st[k])
    <3>1. CASE k < b
      <4>1. k \notin kept /\ k - 1 < b
        BY <1>1, <1>3, <3>1
      <4> QED
        BY <1>5, <2>2, <3>1, <4>1
    <3>2. CASE k = b
      <4>1. sf[k - 1] = Nothing
        BY <1>3, <2>2, <3>2
      <4>2. Nothing \in Derivation /\ Begins(Nothing, s[k])
        <5>1. Nothing \in Derivation
          BY <1>4, <2>1, <4>1
        <5> QED
          BY <5>1 DEF Begins, InManual, Nothing
      <4>3. sf[k] = Online(Nothing, s[k]) /\ st[k] = Online(st[k - 1], s[k])
        BY <1>3, <1>5, <3>2, <4>1
      <4> DEFINE o == s[k]   d == st[k - 1]   m == Online(Nothing, o)   e == Online(d, o)
      <4>3a. /\ o \in Fact /\ OfficialStart(o) <= o.at /\ d \in Derivation
             /\ Begins(d, o) /\ Begins(Nothing, o) /\ Nothing \in Derivation /\ Nothing.cur = NoSegment
        BY <1>1, <1>3, <1>4, <2>1, <3>2, <4>2 DEF Nothing
      <4>3b. sf[k] = m /\ st[k] = e
        BY <4>3
      <4> HIDE DEF o, d
      <4>3c. m.cur = SegmentFrom(o) /\ m.until = o.manual /\ m.out = FALSE /\ m.prior = 0
        BY <4>3a, OnlineBegins
      <4>3d. e.cur = SegmentFrom(o) /\ e.until = o.manual /\ e.out = FALSE
        BY <4>3a, OnlineBegins
      <4> HIDE DEF m, e
      <4>4. /\ sf[k].cur = SegmentFrom(o) /\ sf[k].until = o.manual /\ sf[k].out = FALSE
            /\ sf[k].prior = 0
        BY <4>3b, <4>3c
      <4>5. st[k].cur = SegmentFrom(o) /\ st[k].until = o.manual /\ st[k].out = FALSE
        BY <4>3b, <4>3d
      <4>6. Same(sf[k], st[k])
        BY <3>2, <4>4, <4>5 DEF Same, StartOr
      <4>7. ~(k < b)
        BY <1>3, <3>2
      <4> QED
        BY <4>6, <4>7
    <3>3. CASE k > b
      <4>1. ~(k - 1 < b) /\ ~(k < b) /\ b <= k - 1
        BY <1>3, <3>3
      <4>2. Same(sf[k - 1], st[k - 1])
        BY <2>2, <4>1
      <4>3. k \in kept <=> k \in all
        <5>1. rs[b].at < rs[k].at
          BY <1>1, <1>3, <2>1, <3>3 DEF Ascending
        <5>2. rs[b].at \in Nat /\ rs[k].at \in Nat /\ ~(rs[b].at < from)
          BY <1>1, <1>2, <1>3, <2>1
        <5>3. ~(rs[k].at < from)
          BY <5>1, <5>2
        <5> QED
          BY <1>2, <2>1, <5>3
      <4>4. CASE k \notin kept
        <5>1. sf[k] = sf[k - 1] /\ st[k] = st[k - 1]
          BY <1>5, <4>3, <4>4
        <5> QED
          BY <4>1, <4>2, <5>1
      <4>5. CASE k \in kept
        <5>1. sf[k] = Online(sf[k - 1], s[k]) /\ st[k] = Online(st[k - 1], s[k])
          BY <1>5, <4>3, <4>5
        <5>2. PICK f \in all, l \in all, a \in all : HeldBy(s, all, st, k - 1, f, l, a)
          BY <1>3, <1>4, <2>1, <4>1 DEF TraceOK
        <5>3. st[k - 1].cur # NoSegment /\ Last(st[k - 1].cur.members).at # 0
          <6>1. st[k - 1].cur # NoSegment /\ Last(st[k - 1].cur.members) = s[l]
            BY <5>2 DEF HeldBy
          <6>2. s[l].at \in Nat /\ s[l].at > 0
            BY <1>1, <1>2
          <6> QED
            BY <6>1, <6>2
        <5> DEFINE d == sf[k - 1]   e == st[k - 1]   o == s[k]
        <5>4. /\ d \in Derivation /\ e \in Derivation /\ o \in Fact
              /\ d.cur = e.cur /\ d.until = e.until /\ d.cur # NoSegment
              /\ Last(d.cur.members).at # 0 /\ e.prior = StartOr(d.prior, Q)
          BY <1>1, <1>4, <2>1, <4>2, <5>3 DEF Same
        <5> HIDE DEF d, e, o, Q
        <5>5. Same(Online(d, o), Online(e, o))
          BY <5>4, OnlineSame DEF Same
        <5> QED
          BY <4>1, <5>1, <5>5 DEF d, e, o
      <4> QED
        BY <4>4, <4>5
    <3> QED
      BY <1>3, <3>1, <3>2, <3>3
  <2> QED
    BY <1>4, <2>1, <2>3
<1>8. \A k \in 0 .. n : sf[k] \in S[k]
  <2> HIDE DEF S
  <2> QED
    BY <1>1, <1>6, <1>7, RecursionKeeps
<1>9. ASSUME NEW j \in b .. n PROVE Same(sf[j], st[j])
  <2>1. j \in 0 .. n /\ ~(j < b)
    BY <1>1, <1>3
  <2> QED
    BY <1>8, <2>1
<1> QED
  BY <1>9 DEF n

LEMMA LastOfGreatest ==
    ASSUME NEW n \in Nat, NEW S, S \subseteq 1 .. n, NEW l \in S, \A j \in S : j <= l
    PROVE  LastOf(S) = l
<1>1. LastOf(S) \in S /\ l <= LastOf(S)
  BY LastOfIs
<1>2. LastOf(S) \in 1 .. n /\ l \in 1 .. n
  BY <1>1
<1>3. LastOf(S) \in Nat /\ l \in Nat
  BY <1>2
<1> QED
  BY <1>1, <1>3

\* The row that is the prior of the first segment replayed.
LEMMA EarlierIs ==
    ASSUME NEW rs, RowsOK(rs), SteadyRows(rs), NEW from \in Int, NEW st, FullTrace(rs, st),
           NEW b, Opens(rs, from, st, b),
           \A i \in KeptFrom(rs, Everything) : rs[i].at < from => Derived(rs[i], st[i], 0)
    PROVE  EarlierIncluded(rs, from) = st[b].prior
<1> DEFINE n == Len(rs)   s == FactsOf(rs)   all == KeptFrom(rs, Everything)
           S == {i \in DOMAIN rs : rs[i].at < from /\ Included(rs, i)}
           d == st[b - 1]   o == s[b]
<1>1. /\ n \in Nat /\ DOMAIN rs = 1 .. n /\ Ascending(rs)
      /\ \A j \in DOMAIN rs : /\ s[j] \in Fact /\ s[j].at = rs[j].at /\ s[j] \in ToSet(s)
                              /\ OfficialStart(s[j]) <= s[j].at
  <2>1. \A x \in ToSet(s) : OfficialStart(x) <= x.at
    BY DEF SteadyRows, Steady
  <2> QED
    BY <2>1, FactsOfIs DEF RowsOK
<1>2. /\ all = {i \in DOMAIN rs : rs[i].excl # "manual"}
      /\ \A i \in DOMAIN rs : i \in KeptFrom(rs, from) <=> (i \in all /\ ~(rs[i].at < from))
      /\ \A i \in DOMAIN rs : rs[i].at \in Nat
  BY KeptIs
<1>3. /\ b \in all /\ ~(rs[b].at < from) /\ b \in DOMAIN rs /\ b \in 1 .. n /\ b - 1 \in 0 .. n
      /\ \A i \in all : i < b => rs[i].at < from
      /\ Begins(d, o)
  <2>1. b \in DOMAIN rs
    BY DEF Opens, KeptFrom
  <2>2. \A i \in all : i < b => ~(b <= i)
    BY <1>1, <1>2, <2>1
  <2> QED
    BY <1>1, <1>2, <2>1, <2>2 DEF Opens
<1>4. \A i \in S : i \in all /\ i <= b - 1
  <2> SUFFICES ASSUME NEW i \in S PROVE i \in all /\ i <= b - 1
    OBVIOUS
  <2>1. i \in all
    BY <1>2 DEF Included
  <2>2. ~(b <= i)
    <3> SUFFICES ASSUME b <= i PROVE FALSE
      OBVIOUS
    <3>1. b = i \/ b < i
      BY <1>1, <1>3
    <3>2. rs[b].at <= rs[i].at
      BY <1>1, <1>2, <1>3, <3>1 DEF Ascending
    <3> QED
      BY <1>2, <1>3, <3>2
  <2> QED
    BY <1>1, <1>3, <2>1, <2>2
<1>5. /\ d \in Derivation /\ TraceOK(s, all, st, b - 1) /\ st[b] = Online(d, o)
  <2>1. d \in Derivation /\ TraceOK(s, all, st, b - 1)
    BY <1>3, RowTraceIs DEF FullTrace
  <2>2. st[b] = Online(d, o)
    BY <1>3 DEF FullTrace, RowTrace, Trace
  <2> QED
    BY <2>1, <2>2
<1>6. S \subseteq 1 .. n
  BY <1>1
<1>7. EarlierIncluded(rs, from) = IF LastOf(S) = 0 THEN 0 ELSE rs[LastOf(S)].at
  BY DEF EarlierIncluded
<1>8. st[b].prior = IF d.cur = NoSegment THEN 0 ELSE Last(d.cur.members).at
  <2>1. o \in Fact /\ OfficialStart(o) <= o.at
    BY <1>1, <1>3
  <2> DEFINE e == Online(d, o)
  <2> HIDE DEF d, o
  <2>2. e.prior = IF d.cur = NoSegment THEN 0 ELSE Last(d.cur.members).at
    BY <1>3, <1>5, <2>1, OnlineBegins
  <2> HIDE DEF e
  <2>3. st[b] = e
    BY <1>5 DEF e
  <2> QED
    BY <2>2, <2>3
<1> HIDE DEF S, s, all, n, o
<1>9. CASE \A i \in all : i > b - 1
  <2>1. d = Nothing
    BY <1>5, <1>9 DEF TraceOK
  <2>2. S = {}
    <3> SUFFICES ASSUME NEW i \in S PROVE FALSE
      OBVIOUS
    <3>1. i \in all /\ i <= b - 1 /\ i > b - 1 /\ i \in 1 .. n
      BY <1>4, <1>6, <1>9
    <3> QED
      BY <1>1, <1>3, <3>1
  <2>3. LastOf(S) = 0
    BY <2>2 DEF LastOf
  <2>4. d.cur = NoSegment
    BY <2>1 DEF Nothing
  <2> QED
    BY <1>7, <1>8, <2>3, <2>4
<1>10. CASE \E i \in all : i <= b - 1
  <2>1. PICK f \in all, l \in all, a \in all : HeldBy(s, all, st, b - 1, f, l, a)
    BY <1>5, <1>10 DEF TraceOK
  <2>2. /\ l <= b - 1 /\ d.cur # NoSegment /\ Last(d.cur.members) = s[l] /\ ~st[l].out
        /\ \A i \in all : l < i /\ i <= b - 1 => st[i].out
    BY <2>1 DEF HeldBy
  <2>3. l \in DOMAIN rs /\ l < b /\ rs[l].at < from /\ l \in Nat
    BY <1>1, <1>2, <1>3, <2>2 DEF all
  <2>4. rs[l].excl = "none"
    BY <2>2, <2>3 DEF Derived, all
  <2>5. l \in S
    BY <2>3, <2>4 DEF S, Included
  <2>6. ASSUME NEW j \in S PROVE j <= l
    <3> SUFFICES ASSUME l < j PROVE FALSE
      BY <1>1, <1>6, <2>3
    <3>1. j \in all /\ j <= b - 1 /\ rs[j].at < from /\ rs[j].excl = "none"
      BY <1>4 DEF S, Included
    <3>2. st[j].out
      BY <2>2, <3>1
    <3> QED
      BY <3>1, <3>2 DEF Derived, all
  <2>7. LastOf(S) = l
    BY <1>1, <1>6, <2>5, <2>6, LastOfGreatest
  <2>8. EarlierIncluded(rs, from) = rs[l].at
    <3>1. l # 0
      BY <1>1, <2>3
    <3> QED
      BY <1>7, <2>7, <3>1
  <2>9. st[b].prior = s[l].at
    BY <1>8, <2>2
  <2> QED
    BY <1>1, <2>3, <2>8, <2>9
<1>11. \A i \in all : i > b - 1 \/ i <= b - 1
  BY <1>1, <1>2, <1>3
<1> QED
  BY <1>9, <1>10, <1>11

\* Before the time a replay begins, nothing changes.
LEMMA PrefixSame ==
    ASSUME StateOK, NEW rs, NEW from \in Int, ChangeFrom(rs, from),
           NEW so, FullTrace(rows, so), NEW st, FullTrace(rs, st),
           NEW i \in 0 .. Len(rs), \A j \in 1 .. i : rs[j].at < from
    PROVE  st[i] = so[i]
<1>1. RowsOK(rs) /\ DOMAIN rs = DOMAIN rows /\ Len(rs) = Len(rows) /\ RowsOK(rows)
  BY DEF ChangeFrom, StateOK
<1>2. Len(rs) \in Nat /\ DOMAIN rs = 1 .. Len(rs)
  BY <1>1, FactsOfIs
<1> DEFINE s == FactsOf(rows)   t == FactsOf(rs)
           kept == KeptFrom(rows, Everything)   held == KeptFrom(rs, Everything)
<1>3. ASSUME NEW j \in 1 .. i PROVE (j \in kept <=> j \in held) /\ s[j] = t[j]
  <2>1. j \in DOMAIN rs
    BY <1>2
  <2>2. rs[j] = rows[j]
    BY <1>1, <2>1 DEF ChangeFrom
  <2> QED
    BY <1>1, <2>1, <2>2 DEF KeptFrom, FactsOf
<1>4. Trace(s, kept, Len(rs), so) /\ Trace(t, held, Len(rs), st)
  BY <1>1 DEF FullTrace, RowTrace
<1> HIDE DEF s, t, kept, held
<1>5. \A j \in 0 .. i : st[j] = so[j]
  <2>1. i \in Nat /\ i <= Len(rs)
    BY <1>2
  <2>2. Alike(s, kept, t, held, i)
    BY <1>3 DEF Alike
  <2> DEFINE n == Len(rs)
  <2>3. n \in Nat /\ Trace(s, kept, n, so) /\ Trace(t, held, n, st) /\ i <= n
    BY <1>2, <1>4, <2>1
  <2> HIDE DEF n
  <2> QED
    BY ONLY <2>1, <2>2, <2>3, TracesAgree
<1>6. i \in 0 .. i
  BY <1>2
<1> QED
  BY <1>5, <1>6

\* A replay from a time at which the inference begins a segment makes the rows of
\* a Sub2API account those of a replay of the whole: rebuild_account needs nothing
\* of before but the last time that counts there.
THEOREM CutReplay ==
    ASSUME StateOK, SteadyRows(rows), provider = "sub2api", NEW so, Followed(rows, so),
           NEW rs, NEW from \in Int, ChangeFrom(rs, from), Waiting(rs, from) = {},
           NEW st, FullTrace(rs, st), Cut(rs, from, st), NEW spans
    PROVE  LET new == RebuiltRows(rs, from, Inferred(rs, from, spans))
           IN \A i \in KeptFrom(rs, Everything) : Derived(new[i], st[i], 0)
<1> DEFINE new == RebuiltRows(rs, from, Inferred(rs, from, spans))
           all == KeptFrom(rs, Everything)   kept == KeptFrom(rs, from)
<1>1. /\ RowsOK(rs) /\ DOMAIN rs = DOMAIN rows /\ Len(rs) = Len(rows) /\ RowsOK(rows)
      /\ Ascending(rs)
  BY DEF ChangeFrom, StateOK, RowsOK
<1>2. SteadyRows(rs)
  BY <1>1, SameReadings DEF ChangeFrom
<1>3. /\ all = {i \in DOMAIN rs : rs[i].excl # "manual"}
      /\ KeptFrom(rows, Everything) = {i \in DOMAIN rows : rows[i].excl # "manual"}
      /\ \A i \in DOMAIN rs : i \in kept <=> (i \in all /\ ~(rs[i].at < from))
      /\ \A i \in DOMAIN rs : rs[i].at \in Nat
      /\ Len(rs) \in Nat /\ DOMAIN rs = 1 .. Len(rs)
  BY <1>1, KeptIs, FactsOfIs
<1>4. PICK sf : RowTrace(rs, from, sf)
  BY <1>1, <1>2, RowTraceIs
<1>5. \A i \in DOMAIN rs : /\ i \notin kept => new[i] = rs[i]
                           /\ i \in kept => Derived(new[i], sf[i], EarlierIncluded(rs, from))
  BY <1>1, <1>2, <1>4, ReplayDerives
<1> HIDE DEF new, all, kept
<1>6. ASSUME NEW i \in all, rs[i].at < from PROVE Derived(rs[i], st[i], 0)
  <2>1. i \in DOMAIN rs
    BY <1>3
  <2>2. rs[i] = rows[i]
    BY <1>1, <1>6, <2>1 DEF ChangeFrom
  <2>3. i \in KeptFrom(rows, Everything)
    BY <1>1, <1>3, <2>1, <2>2
  <2>4. Derived(rows[i], so[i], 0)
    <3>1. i \notin Waiting(rs, from)
      OBVIOUS
    <3> QED
      BY <1>6, <2>1, <2>2, <2>3, <3>1 DEF Followed, Waiting
  <2>5. st[i] = so[i]
    <3>1. \A j \in 1 .. i : rs[j].at < from
      <4> SUFFICES ASSUME NEW j \in 1 .. i PROVE rs[j].at < from
        OBVIOUS
      <4>1. j \in DOMAIN rs /\ (j = i \/ j < i)
        BY <1>3, <2>1
      <4>2. rs[j].at <= rs[i].at
        BY <1>1, <1>3, <2>1, <4>1 DEF Ascending
      <4> QED
        BY <1>3, <1>6, <2>1, <4>1, <4>2
    <3>2. i \in 0 .. Len(rs)
      BY <1>3, <2>1
    <3> QED
      BY <3>1, <3>2, PrefixSame DEF Followed
  <2> QED
    BY <2>2, <2>4, <2>5
<1>7. ASSUME NEW i \in all PROVE Derived(new[i], st[i], 0)
  <2>0. i \in DOMAIN rs
    BY <1>3
  <2>1. CASE i \notin kept
    <3>1. rs[i].at < from
      BY <1>3, <2>0, <2>1
    <3> QED
      BY <1>5, <1>6, <2>0, <2>1, <3>1
  <2>2. CASE i \in kept
    <3>1. PICK b : Opens(rs, from, st, b)
      BY <2>2 DEF Cut, kept
    <3>2. i \in b .. Len(rs)
      <4>1. b <= i /\ b \in DOMAIN rs
        BY <2>2, <3>1 DEF Opens, kept, KeptFrom
      <4> QED
        BY <1>3, <2>0, <4>1
    <3>3. /\ sf[i].cur = st[i].cur /\ sf[i].out = st[i].out
          /\ st[i].prior = StartOr(sf[i].prior, st[b].prior)
      BY <1>1, <1>2, <1>4, <3>1, <3>2, SuffixAgrees
    <3>4. EarlierIncluded(rs, from) = st[b].prior
      BY <1>1, <1>2, <1>6, <3>1, EarlierIs DEF all
    <3>5. Derived(new[i], sf[i], st[b].prior)
      BY <1>5, <2>0, <2>2, <3>4
    <3>6. StartOr(st[i].prior, 0) = st[i].prior
      BY DEF StartOr
    <3> QED
      BY <3>3, <3>5, <3>6 DEF Derived
  <2> QED
    BY <2>1, <2>2
<1> QED
  BY <1>7 DEF new, all

-----------------------------------------------------------------------------
(* Where a segment of the whole account begins *)

\* Nothing that counts is before the time.
LEMMA NothingBefore ==
    ASSUME NEW rs, RowsOK(rs), SteadyRows(rs), NEW from \in Int, NEW st, FullTrace(rs, st),
           \A i \in KeptFrom(rs, Everything) : ~(rs[i].at < from)
    PROVE  Cut(rs, from, st)
<1> DEFINE s == FactsOf(rs)   all == KeptFrom(rs, Everything)
<1> SUFFICES ASSUME KeptFrom(rs, from) # {} PROVE \E b : Opens(rs, from, st, b)
  BY DEF Cut
<1>1. /\ KeptFrom(rs, from) = all /\ all \subseteq DOMAIN rs /\ all \subseteq Nat
      /\ DOMAIN rs = 1 .. Len(rs) /\ Len(rs) \in Nat
  BY KeptIs, FactsOfIs
<1> HIDE DEF all
<1>2. PICK b \in all : \A i \in all : b <= i
  BY <1>1, LeastNumber
<1>3. b \in 1 .. Len(rs) /\ b - 1 \in 0 .. Len(rs) /\ b \in Nat
  BY <1>1
<1>4. TraceOK(s, all, st, b - 1)
  BY <1>3, RowTraceIs DEF FullTrace, all
<1>5. \A i \in all : i > b - 1
  BY <1>1, <1>2, <1>3
<1>6. st[b - 1] = Nothing
  BY <1>4, <1>5 DEF TraceOK
<1>7. Begins(st[b - 1], s[b])
  BY <1>6 DEF Begins, InManual, Nothing
<1> QED
  BY <1>1, <1>2, <1>7 DEF Opens

\* The start of a row that counts.
LEMMA StartOpens ==
    ASSUME NEW rs, RowsOK(rs), SteadyRows(rs), NEW st, Followed(rs, st),
           NEW x \in DOMAIN rs, rs[x].excl = "none", rs[x].mates # {}
    PROVE  /\ rs[x].start > 0 /\ rs[x].start \in Int
           /\ \E f \in 1 .. x : Opens(rs, rs[x].start, st, f)
<1> DEFINE s == FactsOf(rs)   all == KeptFrom(rs, Everything)   t == rs[x].start
<1>1. /\ DOMAIN rs = 1 .. Len(rs) /\ Len(rs) \in Nat /\ t \in Int
      /\ \A i \in DOMAIN rs : s[i].at = rs[i].at /\ rs[i].at \in Nat
  BY FactsOfIs
<1>2. /\ all = {i \in DOMAIN rs : rs[i].excl # "manual"}
      /\ \A i \in DOMAIN rs : i \in KeptFrom(rs, t) <=> (i \in all /\ ~(rs[i].at < t))
      /\ KeptFrom(rs, t) \subseteq DOMAIN rs
  BY <1>1, KeptIs
<1>3. x \in all /\ x \in 0 .. Len(rs) /\ x <= x
  BY <1>1, <1>2
<1>4. TraceOK(s, all, st, x)
  BY <1>3, RowTraceIs DEF Followed, FullTrace
<1>5. Derived(rs[x], st[x], 0)
  BY <1>3 DEF Followed
<1>6. t = st[x].cur.start
  BY <1>5 DEF Derived
<1> HIDE DEF s, all, t
<1>7. PICK f \in all, l \in all, a \in all : HeldBy(s, all, st, x, f, l, a)
  BY <1>3, <1>4 DEF TraceOK
<1>8. /\ f <= l /\ l <= x /\ Begins(st[f - 1], s[f])
      /\ t <= s[f].at /\ t > 0
      /\ \A i \in all : i < f => s[i].at < t
  BY <1>6, <1>7 DEF HeldBy
<1>9. f \in DOMAIN rs /\ l \in DOMAIN rs /\ f \in 1 .. x
  BY <1>1, <1>2, <1>8
<1>10. f \in KeptFrom(rs, t)
  BY <1>1, <1>2, <1>8, <1>9
<1>11. ASSUME NEW i \in KeptFrom(rs, t) PROVE f <= i
  <2>1. i \in all /\ i \in DOMAIN rs /\ ~(rs[i].at < t)
    BY <1>2
  <2>2. ~(i < f)
    BY <1>1, <1>8, <2>1
  <2> QED
    BY <1>1, <1>9, <2>1, <2>2
<1>12. Opens(rs, t, st, f)
  BY <1>8, <1>10, <1>11 DEF Opens, s
<1> QED
  BY <1>1, <1>8, <1>9, <1>12 DEF t

Rests(kept, m, k) == \A j \in m + 1 .. k : j \notin kept

\* Where nothing counts, the derivation stays.
LEMMA TraceRests ==
    ASSUME NEW s, NEW kept, NEW n \in Nat, NEW st, Trace(s, kept, n, st),
           NEW m \in 0 .. n, NEW k \in m .. n, Rests(kept, m, k)
    PROVE  st[k] = st[m]
<1> DEFINE S == [j \in 0 .. k |-> IF j < m THEN {st[j]} ELSE {st[m]}]
<1>1. st[0] \in S[0]
  BY DEF S
<1>2. ASSUME NEW j \in 1 .. k, st[j - 1] \in S[j - 1] PROVE st[j] \in S[j]
  <2>1. j \in 0 .. k /\ j - 1 \in 0 .. k /\ j \in 1 .. n
    OBVIOUS
  <2>2. CASE j <= m
    <3>1. S[j] = {st[j]}
      BY <2>1, <2>2
    <3> QED
      BY <3>1
  <2>3. CASE j > m
    <3>1. j \in m + 1 .. k /\ ~(j - 1 < m) /\ ~(j < m)
      BY <2>3
    <3>2. st[j - 1] = st[m]
      BY <1>2, <2>1, <3>1
    <3>3. st[j] = st[j - 1]
      BY <2>1, <3>1 DEF Trace, Rests
    <3> QED
      BY <2>1, <3>1, <3>2, <3>3
  <2> QED
    BY <2>2, <2>3
<1>3. \A j \in 0 .. k : st[j] \in S[j]
  <2>1. k \in Nat
    OBVIOUS
  <2> HIDE DEF S
  <2> QED
    BY <1>1, <1>2, <2>1, RecursionKeeps
<1>4. k \in 0 .. k /\ ~(k < m)
  OBVIOUS
<1> QED
  BY <1>3, <1>4

\* What was open before the first row that is replayed did not change.
LEMMA OpenBefore ==
    ASSUME StateOK, NEW rs, NEW from \in Int, ChangeFrom(rs, from),
           NEW so, FullTrace(rows, so), NEW st, FullTrace(rs, st),
           NEW f \in DOMAIN rows, \A i \in KeptFrom(rows, from) : f <= i, ~(rows[f].at < from),
           NEW b \in DOMAIN rs, \A i \in KeptFrom(rs, from) : b <= i, ~(rs[b].at < from)
    PROVE  st[b - 1] = so[f - 1]
<1>1. /\ RowsOK(rs) /\ DOMAIN rs = DOMAIN rows /\ Len(rs) = Len(rows) /\ RowsOK(rows)
      /\ Ascending(rs)
      /\ \A i \in DOMAIN rows : rs[i].at = rows[i].at
  BY DEF ChangeFrom, StateOK, RowsOK
<1>2. Len(rs) \in Nat /\ DOMAIN rs = 1 .. Len(rs) /\ \A i \in DOMAIN rs : rs[i].at \in Nat
  BY <1>1, FactsOfIs
<1> DEFINE n == Len(rs)
           E == {i \in DOMAIN rs : rs[i].at < from}   m == LastOf(E)
           s == FactsOf(rows)   t == FactsOf(rs)
           kept == KeptFrom(rows, Everything)   held == KeptFrom(rs, Everything)
<1>3. /\ \A i \in DOMAIN rs : i \in KeptFrom(rs, from) <=> (i \in held /\ ~(rs[i].at < from))
      /\ \A i \in DOMAIN rs : i \in KeptFrom(rows, from) <=> (i \in kept /\ ~(rs[i].at < from))
  BY <1>1, KeptIs
<1>4. Trace(s, kept, n, so) /\ Trace(t, held, n, st)
  BY <1>1 DEF FullTrace, RowTrace
<1>5. m \in E \cup {0} /\ \A i \in E : i <= m
  <2>1. E \subseteq 1 .. n
    BY <1>2
  <2> HIDE DEF E
  <2> QED
    BY <1>2, <2>1, LastOfIs
<1>6. m \in 0 .. n
  BY <1>2, <1>5
<1> HIDE DEF m
<1>7. \A i \in DOMAIN rs : i <= m <=> rs[i].at < from
  <2> SUFFICES ASSUME NEW i \in DOMAIN rs, i <= m PROVE rs[i].at < from
    BY <1>5
  <2>1. m \in DOMAIN rs /\ rs[m].at < from
    BY <1>2, <1>5
  <2>2. i = m \/ i < m
    BY <1>2, <1>6
  <2>3. rs[i].at <= rs[m].at
    BY <1>1, <1>2, <2>1, <2>2 DEF Ascending
  <2> QED
    BY <1>2, <2>1, <2>3
<1> HIDE DEF E, kept, held, s, t, n
<1>8. st[m] = so[m]
  <2>1. \A j \in 1 .. m : rs[j].at < from
    BY <1>2, <1>6, <1>7 DEF n
  <2> QED
    BY <1>6, <2>1, PrefixSame DEF n
<1>9. st[b - 1] = st[m]
  <2>1. b - 1 \in m .. n
    BY <1>2, <1>6, <1>7 DEF n
  <2>2. Rests(held, m, b - 1)
    <3> SUFFICES ASSUME NEW j \in m + 1 .. b - 1, j \in held PROVE FALSE
      BY DEF Rests
    <3>1. j \in DOMAIN rs /\ ~(j <= m) /\ ~(b <= j)
      BY <1>2, <1>6, <2>1 DEF n
    <3> QED
      BY <1>3, <1>7, <3>1
  <2>3. n \in Nat
    BY <1>2 DEF n
  <2> QED
    BY <1>4, <1>6, <2>1, <2>2, <2>3, TraceRests
<1>10. so[f - 1] = so[m]
  <2>1. f - 1 \in m .. n
    BY <1>1, <1>2, <1>6, <1>7 DEF n
  <2>2. Rests(kept, m, f - 1)
    <3> SUFFICES ASSUME NEW j \in m + 1 .. f - 1, j \in kept PROVE FALSE
      BY DEF Rests
    <3>0. f \in 1 .. n /\ f \in Nat
      BY <1>1, <1>2 DEF n
    <3>1. j \in DOMAIN rs /\ ~(j <= m) /\ ~(f <= j)
      BY <1>2, <1>6, <2>1, <3>0 DEF n
    <3> QED
      BY <1>3, <1>7, <3>1
  <2>3. n \in Nat
    BY <1>2 DEF n
  <2> QED
    BY <1>4, <1>6, <2>1, <2>2, <2>3, TraceRests
<1> QED
  BY <1>8, <1>9, <1>10

\* A segment that begins before the rows that changed still does.
LEMMA OpensMoves ==
    ASSUME StateOK, NEW rs, NEW from \in Int, ChangeFrom(rs, from),
           NEW so, FullTrace(rows, so), NEW st, FullTrace(rs, st),
           NEW f, Opens(rows, from, so, f), rs[f] = rows[f],
           KeptFrom(rs, from) \subseteq KeptFrom(rows, from)
    PROVE  Cut(rs, from, st)
<1>1. /\ RowsOK(rs) /\ DOMAIN rs = DOMAIN rows /\ RowsOK(rows)
  BY DEF ChangeFrom, StateOK
<1>2. /\ f \in KeptFrom(rows, from) /\ \A i \in KeptFrom(rows, from) : f <= i
      /\ Begins(so[f - 1], FactsOf(rows)[f])
  BY DEF Opens
<1>3. f \in DOMAIN rows /\ ~(rows[f].at < from) /\ f \in KeptFrom(rs, from)
  <2>1. f \in DOMAIN rows /\ rows[f].at \in Nat
    BY <1>1, <1>2, KeptIs
  <2> QED
    BY <1>1, <1>2, <2>1 DEF KeptFrom
<1>4. \A i \in KeptFrom(rs, from) : f <= i
  BY <1>2
<1>5. st[f - 1] = so[f - 1]
  BY <1>1, <1>2, <1>3, <1>4, OpenBefore
<1>6. FactsOf(rs)[f] = FactsOf(rows)[f]
  BY <1>1, <1>3 DEF FactsOf
<1>7. Opens(rs, from, st, f)
  BY <1>2, <1>3, <1>4, <1>5, <1>6 DEF Opens
<1> QED
  BY <1>7 DEF Cut

\* What is open has the reset of a row before, and an end that a row is marked with.
LEMMA OpenReset ==
    ASSUME NEW rs, RowsOK(rs), SteadyRows(rs), NEW st, FullTrace(rs, st), NEW j \in 1 .. Len(rs)
    PROVE  /\ st[j - 1] \in Derivation
           /\ st[j - 1].cur = NoSegment \/ \E a \in KeptFrom(rs, Everything) :
                 a \in DOMAIN rs /\ a < j /\ st[j - 1].cur.resets = FactsOf(rs)[a].resets
           /\ st[j - 1].until = 0 \/ \E k \in DOMAIN rs : k < j /\ rs[k].manual = st[j - 1].until
<1> DEFINE s == FactsOf(rs)   all == KeptFrom(rs, Everything)   d == st[j - 1]
<1>1. /\ DOMAIN rs = 1 .. Len(rs) /\ Len(rs) \in Nat
      /\ \A i \in DOMAIN rs : s[i].manual = rs[i].manual
  BY FactsOfIs
<1>2. all \subseteq DOMAIN rs
  BY KeptIs
<1>3. j - 1 \in 0 .. Len(rs)
  BY <1>1
<1>4. d \in Derivation /\ TraceOK(s, all, st, j - 1)
  BY <1>3, RowTraceIs DEF FullTrace
<1> HIDE DEF s, all, d
<1>5. \A i \in all : i \in DOMAIN rs /\ i \in Nat /\ (i <= j - 1 <=> i < j) /\ (i <= j - 1 \/ i > j - 1)
  BY <1>1, <1>2
<1>6. d.until = 0 \/ \E k \in DOMAIN rs : k < j /\ rs[k].manual = d.until
  BY <1>1, <1>4, <1>5 DEF TraceOK, d
<1>7. d.cur = NoSegment \/ \E a \in all : a \in DOMAIN rs /\ a < j /\ d.cur.resets = s[a].resets
  <2>1. CASE \A i \in all : i > j - 1
    <3>1. d = Nothing
      BY <1>4, <2>1 DEF TraceOK, d
    <3> QED
      BY <3>1 DEF Nothing
  <2>2. CASE \E i \in all : i <= j - 1
    <3>1. PICK f \in all, l \in all, a \in all : HeldBy(s, all, st, j - 1, f, l, a)
      BY <1>4, <2>2 DEF TraceOK
    <3>2. a <= j - 1 /\ d.cur.resets = s[a].resets
      BY <3>1 DEF HeldBy, d
    <3> QED
      BY <1>5, <3>2
  <2> QED
    BY <1>5, <2>1, <2>2
<1> QED
  BY <1>4, <1>6, <1>7 DEF d, s, all

\* When the row that begins a segment goes, the next one begins it.
LEMMA OpenerGoes ==
    ASSUME StateOK, SteadyRows(rows), NEW rs, NEW from \in Int, ChangeFrom(rs, from),
           NEW so, FullTrace(rows, so), NEW st, FullTrace(rs, st),
           NEW f, Opens(rows, from, so, f), rows[f].manual = 0,
           KeptFrom(rs, from) = KeptFrom(rows, from) \ {f},
           \A i \in DOMAIN rows \ {f} : rs[i] = rows[i]
    PROVE  Cut(rs, from, st)
<1> SUFFICES ASSUME KeptFrom(rs, from) # {} PROVE Cut(rs, from, st)
  BY DEF Cut
<1> DEFINE s == FactsOf(rows)   d == so[f - 1]
<1>1. /\ RowsOK(rs) /\ DOMAIN rs = DOMAIN rows /\ RowsOK(rows)
      /\ DOMAIN rows = 1 .. Len(rows) /\ Len(rows) \in Nat
      /\ Ascending(rows)
  BY RowTyped DEF ChangeFrom, StateOK, RowsOK
<1>2. /\ f \in KeptFrom(rows, from) /\ (\A i \in KeptFrom(rows, from) : f <= i)
      /\ Begins(d, s[f])
  BY DEF Opens
<1>3. /\ \A i \in DOMAIN rows : /\ s[i] \in Fact /\ s[i] \in ToSet(s) /\ s[i].at = rows[i].at
                                /\ s[i].manual = rows[i].manual
                                /\ s[i].resets \in Nat /\ s[i].at \in Nat /\ rows[i].at \in Nat
      /\ KeptFrom(rows, from) \subseteq DOMAIN rows
  <2>1. /\ \A i \in DOMAIN rows : /\ s[i] \in Fact /\ s[i] \in ToSet(s) /\ s[i].at = rows[i].at
                                  /\ s[i].manual = rows[i].manual /\ s[i].resets = rows[i].resets
                                  /\ rows[i].resets \in Nat /\ rows[i].at \in Nat
    BY <1>1, FactsOfIs
  <2>2. KeptFrom(rows, from) \subseteq DOMAIN rows
    BY <1>1, KeptIs
  <2> HIDE DEF s
  <2> QED
    BY <2>1, <2>2
<1>4. PICK b \in KeptFrom(rs, from) : \A i \in KeptFrom(rs, from) : b <= i
  <2> DEFINE K == KeptFrom(rs, from)
  <2>1. K # {} /\ K \subseteq Nat
    BY <1>1, <1>3
  <2> HIDE DEF K
  <2>2. \E b \in K : \A i \in K : b <= i
    BY <2>1, LeastNumber
  <2> QED
    BY <2>2 DEF K
<1>5. /\ b \in DOMAIN rows /\ b # f /\ b \in KeptFrom(rows, from) /\ f \in DOMAIN rows
      /\ f <= b
  BY <1>2, <1>3, <1>4
<1>6. f < b /\ f \in 1 .. Len(rows)
  BY <1>1, <1>5
<1>7. s[f].at < s[b].at
  <2>1. rows[f].at < rows[b].at
    BY <1>1, <1>5, <1>6 DEF Ascending
  <2> QED
    BY <1>3, <1>5, <2>1
<1>8. ~(rows[f].at < from) /\ ~(rs[b].at < from)
  <2>1. rows[f].at >= from /\ rs[b].at >= from /\ rs[b].at = rows[b].at
    BY <1>1, <1>2, <1>4, <1>5 DEF KeptFrom
  <2> QED
    BY <1>3, <1>5, <2>1
<1>9. st[b - 1] = d
  BY <1>1, <1>2, <1>4, <1>5, <1>8, OpenBefore
<1>10. FactsOf(rs)[b] = s[b]
  BY <1>1, <1>5 DEF FactsOf
<1>11. Steady(ToSet(s))
  BY DEF SteadyRows
<1>12. /\ d \in Derivation
       /\ d.cur = NoSegment \/ \E a \in KeptFrom(rows, Everything) :
             a \in DOMAIN rows /\ a < f /\ d.cur.resets = s[a].resets
  BY <1>1, <1>6, OpenReset
<1> HIDE DEF s, d
<1>13. Begins(d, s[b])
  <2>1. d.until \in Nat /\ s[f].manual = 0
    BY <1>3, <1>5, <1>12 DEF Derivation
  <2>2. ~InManual(d, s[b])
    BY <1>2, <1>3, <1>5, <1>7, <2>1 DEF Begins, InManual
  <2>3. CASE d.cur = NoSegment
    BY <2>2, <2>3 DEF Begins
  <2>4. CASE d.cur # NoSegment
    <3>1. ~WaitingForFirstUse(d.cur) /\ ResetAdvanced(s[f].resets, d.cur.resets)
      BY <1>2, <2>1, <2>4 DEF Begins
    <3>2. PICK a \in DOMAIN rows : a < f /\ d.cur.resets = s[a].resets
      BY <1>12, <2>4
    <3>3. s[a].at < s[f].at
      <4>1. rows[a].at < rows[f].at
        BY <1>1, <1>5, <3>2 DEF Ascending
      <4> QED
        BY <1>3, <1>5, <3>2, <4>1
    <3>4. ~SameReset(s[f].resets, s[a].resets)
      BY <1>3, <1>5, <3>1, <3>2, ResetFacts
    <3>5. ~SameReset(s[b].resets, s[a].resets)
      BY <1>3, <1>5, <1>7, <1>11, <3>2, <3>3, <3>4, NeverBack
    <3>6. s[a].at < s[b].at
      BY <1>3, <1>5, <1>7, <3>2, <3>3
    <3>7. ResetAdvanced(s[b].resets, s[a].resets)
      BY <1>3, <1>5, <1>11, <3>2, <3>5, <3>6, LaterWindow
    <3> QED
      BY <2>2, <3>1, <3>2, <3>7 DEF Begins
  <2> QED
    BY <2>3, <2>4
<1>14. Opens(rs, from, st, b)
  BY <1>4, <1>9, <1>10, <1>13 DEF Opens
<1> QED
  BY <1>14 DEF Cut

\* A row that is marked begins a segment, unless it is inside a manual interval.
LEMMA MarkedCut ==
    ASSUME NEW rs, RowsOK(rs), SteadyRows(rs), NEW st, FullTrace(rs, st),
           NEW i \in DOMAIN rs, rs[i].excl # "manual", rs[i].manual # 0,
           \A k \in DOMAIN rs : k < i => ~(rs[k].manual >= rs[i].at)
    PROVE  Cut(rs, rs[i].at, st)
<1> DEFINE s == FactsOf(rs)   d == st[i - 1]
<1>1. /\ DOMAIN rs = 1 .. Len(rs) /\ Len(rs) \in Nat /\ Ascending(rs)
      /\ \A k \in DOMAIN rs : rs[k].at \in Nat /\ rs[k].manual \in Nat
      /\ s[i].at = rs[i].at /\ s[i].manual = rs[i].manual
  BY FactsOfIs DEF RowsOK
<1>2. i \in KeptFrom(rs, rs[i].at)
  BY <1>1 DEF KeptFrom
<1>3. ASSUME NEW k \in KeptFrom(rs, rs[i].at) PROVE i <= k
  <2>1. k \in DOMAIN rs /\ rs[k].at >= rs[i].at
    BY DEF KeptFrom
  <2>2. ~(rs[k].at < rs[i].at)
    BY <1>1, <2>1
  <2>3. ~(k < i)
    BY <1>1, <2>1, <2>2 DEF Ascending
  <2> QED
    BY <1>1, <2>1, <2>3
<1>4. /\ d \in Derivation
      /\ d.until = 0 \/ \E k \in DOMAIN rs : k < i /\ rs[k].manual = d.until
  <2>1. i \in 1 .. Len(rs)
    BY <1>1
  <2> QED
    BY <2>1, OpenReset
<1> HIDE DEF s, d
<1>5. ~InManual(d, s[i])
  BY <1>1, <1>4 DEF InManual
<1>6. Begins(d, s[i])
  BY <1>1, <1>5 DEF Begins
<1>7. Opens(rs, rs[i].at, st, i)
  BY <1>2, <1>3, <1>6 DEF Opens, s, d
<1> QED
  BY <1>7 DEF Cut

\* A time at which the inference begins a segment of the whole account.
LEMMA BeginsSegmentCuts ==
    ASSUME provider = "sub2api", NEW rs, RowsOK(rs), SteadyRows(rs), NEW from \in Int,
           NEW st, FullTrace(rs, st), BeginsSegment(rs, from)
    PROVE  Cut(rs, from, st)
<1> SUFFICES ASSUME KeptFrom(rs, from) # {} PROVE Cut(rs, from, st)
  BY DEF Cut
<1> DEFINE s == FactsOf(rs)   all == KeptFrom(rs, Everything)   kept == KeptFrom(rs, from)
           list == ToReplay(rs, from)   result == Inferred(rs, Everything, intervals)
           segs == result.segs
<1>1. /\ Len(rs) \in Nat /\ s \in Seq(Fact) /\ Len(s) = Len(rs) /\ Ascending(s)
      /\ DOMAIN s = DOMAIN rs /\ DOMAIN rs = 1 .. Len(rs)
      /\ \A i \in DOMAIN rs : s[i].at = rs[i].at /\ rs[i].at \in Nat /\ s[i] \in Fact
  BY FactsOfIs
<1>2. kept \subseteq all /\ all \subseteq DOMAIN rs /\ kept \subseteq DOMAIN rs /\ DOMAIN rs \subseteq Nat
  BY KeptIs
<1>3. PICK b \in kept : \A i \in kept : b <= i
  <2>1. kept # {} /\ kept \subseteq Nat
    BY <1>2
  <2> HIDE DEF kept
  <2> QED
    BY <2>1, LeastNumber
<1>4. list # <<>> /\ list[1] = s[b]
  <2>1. list = Subsequence(s, kept)
    BY DEF ToReplay, FactsOf, KeptFrom
  <2> HIDE DEF s, kept, list
  <2>2. PartOf(list, s, kept, Fact, Len(s))
    BY <1>1, <2>1, SubsequenceIs
  <2>3. PICK c : Counted(list, s, kept, Len(rs), c)
    BY <1>1, <2>2 DEF PartOf
  <2>4. b \in 1 .. Len(rs) /\ b \in Nat
    BY <1>1, <1>2
  <2> DEFINE S == [k \in 0 .. b - 1 |-> {0}]
  <2>5. c[0] \in S[0]
    BY <2>3, <2>4 DEF Counted
  <2>6. ASSUME NEW k \in 1 .. b - 1, c[k - 1] \in S[k - 1] PROVE c[k] \in S[k]
    <3>1. k \in 1 .. Len(rs) /\ k - 1 \in 0 .. b - 1 /\ k \in 0 .. b - 1 /\ ~(b <= k)
      BY <1>1, <2>4
    <3>2. k \notin kept
      BY <1>3, <3>1
    <3>3. c[k] = c[k - 1]
      BY <2>3, <3>1, <3>2 DEF Counted
    <3> QED
      BY <2>6, <3>1, <3>3
  <2>7. \A k \in 0 .. b - 1 : c[k] \in S[k]
    <3>1. b - 1 \in Nat
      BY <2>4
    <3> HIDE DEF S
    <3> QED
      BY <2>5, <2>6, <3>1, RecursionKeeps
  <2>8. c[b - 1] = 0
    <3>1. b - 1 \in 0 .. b - 1
      BY <2>4
    <3> QED
      BY <2>7, <3>1
  <2>9. c[b] = c[b - 1] + 1 /\ list[c[b]] = s[b] /\ c[b] <= Len(list)
    <3>1. b \in 0 .. Len(rs)
      BY <2>4
    <3> QED
      BY <1>3, <2>3, <2>4, <3>1 DEF Counted
  <2>10. c[b] = 1
    BY <2>8, <2>9
  <2>11. list # <<>>
    BY <2>9, <2>10
  <2> QED
    BY <2>9, <2>10, <2>11
<1>5. /\ InferenceOK(result, ToReplay(rs, Everything), FALSE, intervals)
      /\ \A j \in all : SeenAs(st[j], s[j], segs, result.auto)
  BY ReplayIsOnline DEF FullTrace
<1>6. PICK g \in ToSet(segs) : g.first = rs[b].at
  BY <1>1, <1>2, <1>4 DEF BeginsSegment
<1>7. PICK e \in DOMAIN segs : g = segs[e]
  BY DEF ToSet
<1>8. /\ segs \in Seq(Segment) /\ InOrder(segs)
      /\ \A k \in DOMAIN segs : /\ SegmentOK(segs[k])
                                /\ ToSet(segs[k].members) \subseteq ToSet(ToReplay(rs, Everything))
                                /\ \A m \in ToSet(segs[k].members) : m.at \notin result.auto
  BY <1>5 DEF InferenceOK, Accounted
<1>9. \A m \in ToSet(ToReplay(rs, Everything)) : m \in Fact /\ \E j \in all : m = s[j]
  <2>1. ToSet(ToReplay(rs, Everything)) = {Facts(rs[i]) : i \in all}
    BY ToReplayIs DEF KeptFrom
  <2>2. \A i \in all : Facts(rs[i]) = s[i]
    BY <1>2 DEF FactsOf
  <2> QED
    BY <1>1, <1>2, <2>1, <2>2
<1> HIDE DEF s, all, kept, list, result, segs
<1>10. PICK m \in ToSet(segs[e].members) : m \in ToSet(ToReplay(rs, Everything))
  BY <1>7, <1>8 DEF SegmentOK
<1>11. PICK j \in all : m = s[j]
  BY <1>9, <1>10
<1>12. st[j].cur.first = rs[b].at
  <2>1. SeenAs(st[j], m, segs, result.auto) /\ m.at \notin result.auto
    BY <1>5, <1>7, <1>8, <1>10, <1>11
  <2>2. PICK k \in DOMAIN segs : m \in ToSet(segs[k].members) /\ segs[k].first = st[j].cur.first
    BY <2>1 DEF SeenAs
  <2>3. \A n \in DOMAIN segs : ToSet(segs[n].members) \subseteq Fact
    BY <1>8, <1>9
  <2>4. m.at \in MemberTimes(segs[k]) /\ m.at \in MemberTimes(segs[e])
    BY <1>10, <2>2 DEF MemberTimes
  <2>5. ASSUME NEW n \in DOMAIN segs, m.at \in MemberTimes(segs[n])
        PROVE  LastOf({i \in DOMAIN segs : segs[i].first <= m.at}) = n
    BY <1>8, <2>3, <2>5, SegmentAt
  <2>6. k = e
    BY <2>2, <2>4, <2>5
  <2> QED
    BY <1>6, <1>7, <2>2, <2>6
<1>13. j \in 0 .. Len(rs) /\ j \in all /\ j <= j
  BY <1>1, <1>2
<1>14. TraceOK(s, all, st, j)
  BY <1>13, RowTraceIs DEF FullTrace, s, all
<1>15. PICK f \in all, l \in all, a \in all : HeldBy(s, all, st, j, f, l, a)
  BY <1>13, <1>14 DEF TraceOK
<1>16. Begins(st[f - 1], s[f]) /\ st[j].cur.first = s[f].at
  BY <1>15 DEF HeldBy
<1>17. f = b
  <2>1. f \in DOMAIN rs /\ b \in DOMAIN rs /\ s[f].at = s[b].at /\ s[b].at \in Nat
    BY <1>1, <1>2, <1>3, <1>12, <1>16
  <2>2. ~(f < b) /\ ~(b < f)
    BY <1>1, <2>1 DEF Ascending
  <2> QED
    BY <1>2, <2>1, <2>2
<1>18. Opens(rs, from, st, b)
  BY <1>3, <1>16, <1>17 DEF Opens, s, kept
<1> QED
  BY <1>18 DEF Cut

-----------------------------------------------------------------------------
(* The rows follow the derivations of the whole account *)

CutBy(rs, from) == \A st : FullTrace(rs, st) => Cut(rs, from, st)

Marked(rs, times) == \A i \in DOMAIN rs : rs[i].manual = 0 \/ rs[i].manual \in times
DerivedTimes == {rows[k].at : k \in DOMAIN rows \ Underived}

Follows ==
    /\ SteadyRows(rows)
    /\ \E st : Followed(rows, st)
    /\ \A u \in Underived : u = Len(rows) /\ rows[u].start = 0 /\ rows[u].manual = 0
    /\ captured # 0 => captured \in Underived
    /\ Marked(rows, DerivedTimes)

\* The premise: a Sub2API account whose readings came as expected, none of whose
\* replays failed, and of which no command trusted a start that had moved.
Orderly == provider = "sub2api" /\ failures = 0 /\ timely /\ anchored
FollowInv == Orderly => Follows

LEMMA ReplayFollows ==
    ASSUME StateOK, Follows, provider = "sub2api", NEW rs, NEW from \in Int, ChangeFrom(rs, from),
           Rebuild(rs, from), Waiting(rs, from) = {}, CutBy(rs, from),
           Marked(rs, TimesIn(rows)), captured' = 0
    PROVE  Follows'
<1> DEFINE all == KeptFrom(rs, Everything)   s == FactsOf(rs)
<1>1. SteadyRows(rows) /\ RowsOK(rows)
  BY DEF Follows, StateOK
<1>2. /\ RowsOK(rs) /\ DOMAIN rs = DOMAIN rows /\ Len(rs) = Len(rows)
      /\ \A i \in DOMAIN rows : rs[i].at = rows[i].at /\ rs[i].resets = rows[i].resets
  BY DEF ChangeFrom
<1>3. SteadyRows(rs)
  BY <1>1, <1>2, SameReadings
<1>4. rows' = RebuiltRows(rs, from, Inferred(rs, from, intervals))
  BY DEF Rebuild
<1>5. PICK st : FullTrace(rs, st)
  BY <1>2, <1>3, RowTraceIs DEF FullTrace
<1>6. PICK sf : RowTrace(rs, from, sf)
  BY <1>2, <1>3, RowTraceIs
<1>7. /\ RowsOK(rows') /\ DOMAIN rows' = DOMAIN rs /\ Len(rows') = Len(rs)
      /\ \A i \in DOMAIN rs : /\ rows'[i].at = rs[i].at /\ rows'[i].used = rs[i].used
                              /\ rows'[i].resets = rs[i].resets /\ rows'[i].manual = rs[i].manual
                              /\ i \notin KeptFrom(rs, from) => rows'[i] = rs[i]
  BY <1>2, <1>3, <1>4, <1>6, ReplayDerives
<1>8. Cut(rs, from, st)
  BY <1>5 DEF CutBy
<1>9. PICK so : Followed(rows, so)
  BY DEF Follows
<1>10. \A i \in all : Derived(rows'[i], st[i], 0)
  BY <1>1, <1>4, <1>5, <1>8, <1>9, CutReplay
<1>11. SteadyRows(rows')
  BY <1>2, <1>3, <1>7, SameReadings
<1>12. /\ KeptFrom(rs, Everything) = {i \in DOMAIN rs : rs[i].excl # "manual"}
       /\ KeptFrom(rows', Everything) = {i \in DOMAIN rows' : rows'[i].excl # "manual"}
       /\ KeptFrom(rs, from) \subseteq all
  BY <1>2, <1>7, KeptIs
<1>13. \A i \in DOMAIN rs : rows'[i].excl # "manual" <=> i \in all
  <2>1. \A i \in all : rows'[i].excl # "manual"
    BY <1>10 DEF Derived
  <2>2. \A i \in DOMAIN rs : i \notin all => rows'[i] = rs[i] /\ rs[i].excl = "manual"
    BY <1>7, <1>12
  <2> QED
    BY <2>1, <2>2
<1>14. KeptFrom(rows', Everything) = all
  BY <1>7, <1>12, <1>13
<1>15. FactsOf(rows') = s
  <2>1. \A i \in DOMAIN rs : Facts(rows'[i]) = Facts(rs[i])
    BY <1>7 DEF Facts
  <2> QED
    BY <1>7, <2>1 DEF FactsOf
<1>16. FullTrace(rows', st)
  BY <1>5, <1>7, <1>14, <1>15 DEF FullTrace, RowTrace
<1>17. Followed(rows', st)
  BY <1>10, <1>14, <1>16 DEF Followed
<1>18. Underived' = {}
  <2>1. Underived' = {i \in DOMAIN rows' : rows'[i].excl = "none" /\ rows'[i].mates = {}}
    BY DEF Underived
  <2>2. ASSUME NEW i \in DOMAIN rows', rows'[i].excl = "none", rows'[i].mates = {} PROVE FALSE
    <3>1. i \in all
      BY <1>7, <1>13, <2>2
    <3> QED
      BY <1>10, <2>2, <3>1 DEF Derived
  <2> QED
    BY <2>1, <2>2
<1>19. Marked(rows', DerivedTimes')
  <2>1. DerivedTimes' = {rows'[k].at : k \in DOMAIN rows'}
    BY <1>18 DEF DerivedTimes
  <2>2. TimesIn(rows) = {rows[k].at : k \in DOMAIN rows}
    BY DEF TimesIn, ToSet
  <2>3. DerivedTimes' = TimesIn(rows)
    BY <1>2, <1>7, <2>1, <2>2
  <2> QED
    BY <1>2, <1>7, <2>3 DEF Marked
<1> QED
  BY <1>11, <1>17, <1>18, <1>19 DEF Follows

\* The start of a row that counts, for a change after it.
LEMMA StartCut ==
    ASSUME StateOK, SteadyRows(rows), NEW so, Followed(rows, so),
           NEW p \in DOMAIN rows, Included(rows, p), p \notin Underived
    PROVE  /\ rows[p].start > 0 /\ rows[p].start \in Int
           /\ \A rs : (/\ ChangeFrom(rs, rows[p].start)
                       /\ \A k \in DOMAIN rows : k <= p => rs[k] = rows[k]
                       /\ \A k \in DOMAIN rows : rs[k].excl # "manual" => rows[k].excl # "manual")
                 => CutBy(rs, rows[p].start)
<1> DEFINE from == rows[p].start
<1>1. RowsOK(rows) /\ rows[p].excl = "none" /\ rows[p].mates # {}
  BY DEF StateOK, Included, Underived
<1>2. /\ from > 0 /\ from \in Int
      /\ \E f \in 1 .. p : Opens(rows, from, so, f)
  BY <1>1, StartOpens
<1>3. PICK f \in 1 .. p : Opens(rows, from, so, f)
  BY <1>2
<1>4. f \in DOMAIN rows /\ f <= p
  BY RowTyped
<1> HIDE DEF from
<1>5. ASSUME NEW rs, ChangeFrom(rs, from), \A k \in DOMAIN rows : k <= p => rs[k] = rows[k],
             \A k \in DOMAIN rows : rs[k].excl # "manual" => rows[k].excl # "manual"
      PROVE  CutBy(rs, from)
  <2>1. KeptFrom(rs, from) \subseteq KeptFrom(rows, from)
    BY <1>5 DEF KeptFrom, ChangeFrom
  <2>2. rs[f] = rows[f]
    BY <1>4, <1>5
  <2>3. FullTrace(rows, so)
    BY DEF Followed
  <2>4. ASSUME NEW st, FullTrace(rs, st) PROVE Cut(rs, from, st)
    BY <1>2, <1>3, <1>5, <2>1, <2>2, <2>3, <2>4, OpensMoves
  <2> QED
    BY <2>4 DEF CutBy
<1> QED
  BY <1>2, <1>5 DEF from

\* Before a row that no included row precedes, none counts.
LEMMA FirstKept ==
    ASSUME StateOK, SteadyRows(rows), NEW so, Followed(rows, so),
           NEW n \in DOMAIN rows, PreviousIncluded(rows, n) = 0,
           NEW i \in KeptFrom(rows, Everything)
    PROVE  i \in DOMAIN rows /\ n <= i
<1> DEFINE s == FactsOf(rows)   all == KeptFrom(rows, Everything)
<1>1. /\ RowsOK(rows) /\ DOMAIN rows = 1 .. Len(rows) /\ Len(rows) \in Nat
      /\ all \subseteq DOMAIN rows /\ all = {k \in DOMAIN rows : rows[k].excl # "manual"}
  BY RowTyped, KeptIs DEF StateOK
<1>2. PICK b \in all : \A k \in all : b <= k
  <2>1. all # {} /\ all \subseteq Nat
    BY <1>1
  <2> HIDE DEF all
  <2> QED
    BY <2>1, LeastNumber
<1>3. b \in 0 .. Len(rows) /\ b <= b /\ b \in DOMAIN rows
  BY <1>1
<1>4. TraceOK(s, all, so, b)
  BY <1>1, <1>3, RowTraceIs DEF Followed, FullTrace
<1> HIDE DEF s, all
<1>5. PICK f \in all, l \in all, a \in all : HeldBy(s, all, so, b, f, l, a)
  BY <1>3, <1>4 DEF TraceOK
<1>6. l = b /\ ~so[b].out
  <2>1. l <= b /\ ~so[l].out
    BY <1>5 DEF HeldBy
  <2>2. b <= l /\ l \in Nat /\ b \in Nat
    BY <1>1, <1>2
  <2> QED
    BY <2>1, <2>2
<1>7. Included(rows, b)
  <2>1. (rows[b].excl = "none" /\ rows[b].mates = {}) \/ Derived(rows[b], so[b], 0)
    BY DEF Followed, all
  <2> QED
    BY <1>6, <2>1 DEF Derived, Included
<1>8. ~(b < n)
  <2> SUFFICES ASSUME b < n PROVE FALSE
    OBVIOUS
  <2> DEFINE S == {j \in 1 .. n - 1 : Included(rows, j)}
  <2>1. b \in S /\ S \subseteq 1 .. n - 1 /\ n - 1 \in Nat
    BY <1>1, <1>3, <1>7
  <2>2. LastOf(S) = 0
    BY DEF PreviousIncluded
  <2> HIDE DEF S
  <2>3. LastOf(S) \in S
    BY <2>1, LastOfIs
  <2> QED
    BY <2>1, <2>2, <2>3
<1>9. i \in all /\ i \in Nat /\ b \in Nat /\ n \in Nat /\ b <= i
  BY <1>1, <1>2, <1>3 DEF all
<1> QED
  BY <1>1, <1>8, <1>9

LEMMA PreviousHere ==
    ASSUME NEW rs, RowsOK(rs), NEW i \in DOMAIN rs, PreviousIncluded(rs, i) # 0
    PROVE  LET p == PreviousIncluded(rs, i)
           IN /\ p \in DOMAIN rs /\ p < i /\ Included(rs, p)
              /\ \A k \in DOMAIN rs : p < k /\ k < i => ~Included(rs, k)
<1> DEFINE S == {j \in 1 .. i - 1 : Included(rs, j)}   p == PreviousIncluded(rs, i)
<1>1. DOMAIN rs = 1 .. Len(rs) /\ Len(rs) \in Nat
  BY FactsOfIs
<1>2. S \subseteq 1 .. i - 1 /\ i - 1 \in Nat
  BY <1>1
<1>3. p = LastOf(S) /\ p # 0
  BY DEF PreviousIncluded
<1> HIDE DEF S, p
<1>4. p \in S /\ \A j \in S : j <= p
  BY <1>2, <1>3, LastOfIs
<1>5. p \in 1 .. i - 1 /\ Included(rs, p)
  BY <1>4 DEF S
<1>6. p \in DOMAIN rs /\ p < i
  BY <1>1, <1>5
<1>7. ASSUME NEW k \in DOMAIN rs, p < k, k < i, Included(rs, k) PROVE FALSE
  <2>1. k \in S
    BY <1>1, <1>7 DEF S
  <2> QED
    BY <1>1, <1>4, <1>6, <1>7, <2>1
<1> QED
  BY <1>5, <1>6, <1>7 DEF p

\* Where the row before begins its segment, or a window in which nothing counts.
LEMMA MergeCut ==
    ASSUME StateOK, SteadyRows(rows), NEW so, Followed(rows, so),
           NEW i \in DOMAIN rows, \A u \in Underived : i <= u,
           NEW rs, ChangeFrom(rs, MergeAnchor(rows, i)),
           \A k \in DOMAIN rows : k < i => rs[k] = rows[k],
           \A k \in DOMAIN rows : rs[k].excl # "manual" => rows[k].excl # "manual"
    PROVE  CutBy(rs, MergeAnchor(rows, i))
<1> DEFINE p == PreviousIncluded(rows, i)   from == MergeAnchor(rows, i)
<1>0. /\ RowsOK(rows) /\ DOMAIN rows = 1 .. Len(rows) /\ Len(rows) \in Nat /\ Ascending(rows)
      /\ \A k \in DOMAIN rows : rows[k].at \in Nat
  BY RowTyped DEF StateOK, RowsOK
<1>1. RowsOK(rs) /\ DOMAIN rs = DOMAIN rows /\ (\A k \in DOMAIN rows : rs[k].at = rows[k].at /\ rs[k].resets = rows[k].resets)
  BY DEF ChangeFrom
<1>2. SteadyRows(rs)
  BY <1>0, <1>1, SameReadings
<1>3. CASE p = 0
  <2>1. from = OfficialStart(rows[i])
    BY <1>3 DEF MergeAnchor
  <2>2. from \in Int /\ from <= rows[i].at
    BY <1>0, <2>1, StartsBefore DEF Before
  <2> HIDE DEF from
  <2>3. ASSUME NEW k \in KeptFrom(rs, Everything) PROVE ~(rs[k].at < from)
    <3>1. k \in KeptFrom(rows, Everything)
      <4>1. k \in DOMAIN rs /\ rs[k].excl # "manual"
        BY <1>1, KeptIs
      <4> QED
        BY <1>0, <1>1, <4>1, KeptIs
    <3>2. k \in DOMAIN rows /\ i <= k
      BY <1>3, <3>1, FirstKept
    <3>3. i = k \/ i < k
      BY <1>0, <3>2
    <3>4. rows[i].at <= rows[k].at
      BY <1>0, <3>2, <3>3 DEF Ascending
    <3> QED
      BY <1>0, <1>1, <2>2, <3>2, <3>4
  <2>4. ASSUME NEW st, FullTrace(rs, st) PROVE Cut(rs, from, st)
    BY <1>1, <1>2, <2>2, <2>3, <2>4, NothingBefore
  <2> QED
    BY <2>4 DEF CutBy, from
<1>4. CASE p # 0
  <2>1. p \in DOMAIN rows /\ p < i /\ Included(rows, p)
    BY <1>4, <1>0, PreviousHere
  <2>2. p \notin Underived
    BY <1>0, <2>1
  <2> HIDE DEF p
  <2>3. /\ rows[p].start > 0 /\ rows[p].start \in Int
        /\ \A x : (/\ ChangeFrom(x, rows[p].start)
                   /\ \A k \in DOMAIN rows : k <= p => x[k] = rows[k]
                   /\ \A k \in DOMAIN rows : x[k].excl # "manual" => rows[k].excl # "manual")
              => CutBy(x, rows[p].start)
    BY <2>1, <2>2, StartCut
  <2>4. from = rows[p].start
    BY <1>4, <2>3 DEF MergeAnchor, SegmentStart, StartOr, p
  <2>5. \A k \in DOMAIN rows : k <= p => rs[k] = rows[k]
    BY <1>0, <2>1
  <2> HIDE DEF from
  <2>6. ChangeFrom(rs, from)
    BY DEF from
  <2>7. CutBy(rs, from)
    BY <2>3, <2>4, <2>5, <2>6
  <2> QED
    BY <2>7 DEF from
<1> QED
  BY <1>3, <1>4

-----------------------------------------------------------------------------
(* Each anchor is where a segment begins *)

LEMMA PreviousSegmentHere ==
    ASSUME NEW rs, RowsOK(rs), NEW i \in DOMAIN rs, PreviousSegmentIncluded(rs, i) # 0
    PROVE  LET q == PreviousSegmentIncluded(rs, i)
           IN q \in DOMAIN rs /\ q < i /\ Included(rs, q)
<1> DEFINE S == {j \in 1 .. i - 1 : /\ Included(rs, j)
                                    /\ \/ rs[i].start = 0
                                       \/ rs[j].start # rs[i].start}
           q == PreviousSegmentIncluded(rs, i)
<1>1. DOMAIN rs = 1 .. Len(rs) /\ Len(rs) \in Nat
  BY FactsOfIs
<1>2. S \subseteq 1 .. i - 1 /\ i - 1 \in Nat
  BY <1>1
<1>3. q = LastOf(S) /\ q # 0
  BY DEF PreviousSegmentIncluded
<1> HIDE DEF S, q
<1>4. q \in S
  BY <1>2, <1>3, LastOfIs
<1>5. q \in 1 .. i - 1 /\ Included(rs, q)
  BY <1>4 DEF S
<1>6. q \in DOMAIN rs /\ q < i
  BY <1>1, <1>5
<1> QED
  BY <1>5, <1>6 DEF q

\* A row that waits for its derivation, as a capture leaves it.
WaitingRow(n) ==
    /\ n = Len(rows) /\ n \in Underived
    /\ \A u \in Underived : u = n
    /\ rows[n].start = 0 /\ rows[n].manual = 0

\* The last row that counts before a row that waits, and what is open there.
LEMMA OpenAtCapture ==
    ASSUME StateOK, SteadyRows(rows), NEW so, Followed(rows, so),
           NEW n, WaitingRow(n), PreviousIncluded(rows, n) # 0
    PROVE  LET p == PreviousIncluded(rows, n)   all == KeptFrom(rows, Everything)
           IN \E f \in all, a \in all : HeldBy(FactsOf(rows), all, so, n - 1, f, p, a)
<1> DEFINE s == FactsOf(rows)   all == KeptFrom(rows, Everything)   p == PreviousIncluded(rows, n)
<1>1. /\ RowsOK(rows) /\ DOMAIN rows = 1 .. Len(rows) /\ Len(rows) \in Nat
      /\ all \subseteq DOMAIN rows /\ all = {k \in DOMAIN rows : rows[k].excl # "manual"}
  BY RowTyped, KeptIs DEF StateOK
<1>2. n \in DOMAIN rows /\ n = Len(rows) /\ \A u \in Underived : u = n
  BY DEF WaitingRow, Underived
<1>3. /\ p \in DOMAIN rows /\ p < n /\ Included(rows, p)
      /\ \A k \in DOMAIN rows : p < k /\ k < n => ~Included(rows, k)
  BY <1>1, <1>2, PreviousHere
<1> HIDE DEF p
<1>4. p \in all /\ p <= n - 1 /\ n - 1 \in 0 .. Len(rows)
  BY <1>1, <1>2, <1>3 DEF Included
<1>5. TraceOK(s, all, so, n - 1)
  BY <1>1, <1>4, RowTraceIs DEF Followed, FullTrace
<1>6. \A k \in all : k < n => Derived(rows[k], so[k], 0)
  <2> SUFFICES ASSUME NEW k \in all, k < n PROVE Derived(rows[k], so[k], 0)
    OBVIOUS
  <2>1. k \notin Underived /\ k \in DOMAIN rows
    BY <1>1, <1>2
  <2> QED
    BY <2>1 DEF Followed, Underived
<1> HIDE DEF s, all
<1>7. PICK f \in all, l \in all, a \in all : HeldBy(s, all, so, n - 1, f, l, a)
  BY <1>4, <1>5 DEF TraceOK
<1>8. /\ l <= n - 1 /\ ~so[l].out
      /\ \A i \in all : l < i /\ i <= n - 1 => so[i].out
  BY <1>7 DEF HeldBy
<1>9. l \in DOMAIN rows /\ l < n /\ l \in Nat /\ p \in Nat /\ n \in Nat
  BY <1>1, <1>2, <1>3, <1>8
<1>10. Included(rows, l)
  BY <1>6, <1>8, <1>9 DEF Derived, Included
<1>11. ~(p < l)
  BY <1>3, <1>9, <1>10
<1>12. ~(l < p)
  <2> SUFFICES ASSUME l < p PROVE FALSE
    OBVIOUS
  <2>1. so[p].out
    BY <1>4, <1>8
  <2>2. Derived(rows[p], so[p], 0)
    BY <1>3, <1>4, <1>6
  <2> QED
    BY <1>3, <2>1, <2>2 DEF Derived, Included
<1>13. l = p
  BY <1>9, <1>11, <1>12
<1> QED
  BY <1>7, <1>13 DEF s, all, p

\* A row of a later window than the last row that counts begins a segment.
LEMMA NewWindowCut ==
    ASSUME StateOK, SteadyRows(rows), NEW so, Followed(rows, so), Marked(rows, DerivedTimes),
           NEW n, WaitingRow(n), PreviousIncluded(rows, n) # 0,
           rows[PreviousIncluded(rows, n)].used # 0,
           ~SameReset(rows[PreviousIncluded(rows, n)].resets, rows[n].resets)
    PROVE  CutBy(rows, OfficialStart(rows[n]))
<1> DEFINE s == FactsOf(rows)   all == KeptFrom(rows, Everything)   p == PreviousIncluded(rows, n)
           d == so[n - 1]   from == OfficialStart(rows[n])
<1>1. /\ RowsOK(rows) /\ DOMAIN rows = 1 .. Len(rows) /\ Len(rows) \in Nat /\ Ascending(rows)
      /\ all \subseteq DOMAIN rows /\ all = {k \in DOMAIN rows : rows[k].excl # "manual"}
      /\ \A k \in DOMAIN rows : k \in KeptFrom(rows, from) <=> (k \in all /\ ~(rows[k].at < from))
      /\ KeptFrom(rows, from) \subseteq DOMAIN rows
      /\ from \in Int /\ from <= rows[n].at
  <2>1. RowsOK(rows) /\ n \in DOMAIN rows
    BY DEF StateOK, WaitingRow, Underived
  <2>2. from \in Int /\ from <= rows[n].at
    BY <2>1, StartsBefore DEF Before
  <2> HIDE DEF from
  <2> QED
    BY <2>1, <2>2, RowTyped, KeptIs DEF RowsOK
<1>2. /\ n \in DOMAIN rows /\ n = Len(rows) /\ n \in 1 .. Len(rows) /\ rows[n].manual = 0
      /\ rows[n].excl = "none" /\ \A k \in DOMAIN rows : k \notin Underived => k < n
  BY <1>1 DEF WaitingRow, Underived
<1>3. /\ \A k \in DOMAIN rows : /\ s[k].at = rows[k].at /\ s[k].used = rows[k].used
                                /\ s[k].resets = rows[k].resets /\ s[k].manual = rows[k].manual
                                /\ rows[k].at \in Nat /\ rows[k].used \in Nat /\ rows[k].resets \in Nat
                                /\ s[k] \in ToSet(s) /\ s[k] \in Fact
                                /\ rows[k].manual \in Nat
      /\ Steady(ToSet(s))
  BY <1>1, FactsOfIs DEF SteadyRows
<1>4. p \in DOMAIN rows /\ p < n /\ p \in all /\ rows[p].used # 0 /\ ~SameReset(rows[p].resets, rows[n].resets)
  <2>1. p \in DOMAIN rows /\ p < n /\ Included(rows, p)
    BY <1>1, <1>2, PreviousHere
  <2> QED
    BY <1>1, <2>1 DEF Included
<1>5. PICK f \in all, a \in all : HeldBy(s, all, so, n - 1, f, p, a)
  BY OpenAtCapture
<1> HIDE DEF p
<1>6. /\ a <= n - 1 /\ d.cur # NoSegment /\ Last(d.cur.members) = s[p] /\ d.cur.resets = s[a].resets
      /\ \A i \in all : p <= i /\ i <= n - 1 => SameReset(s[i].resets, s[a].resets)
  BY <1>5 DEF HeldBy
<1>7. /\ a \in DOMAIN rows /\ a < n
      /\ \A i \in all : i \in DOMAIN rows /\ (i < n => i <= n - 1)
  BY <1>1, <1>2, <1>6
<1>8. /\ d \in Derivation
      /\ d.until = 0 \/ \E k \in DOMAIN rows : k < n /\ rows[k].manual = d.until
  <2>1. FullTrace(rows, so)
    BY DEF Followed
  <2> QED
    BY <1>1, <1>2, <2>1, OpenReset
<1>9. \A i \in DOMAIN rows : i < n => rows[i].at < rows[n].at
  BY <1>1, <1>2 DEF Ascending
<1>9a. OfficialStart(s[n]) = from
  BY <1>2, <1>3 DEF OfficialStart
<1> HIDE DEF s, all, d, from
<1>10. /\ \A i, j \in DOMAIN rows : SameReset(s[i].resets, s[j].resets) <=> SameReset(s[j].resets, s[i].resets)
       /\ \A i, j, k \in DOMAIN rows :
             SameReset(s[i].resets, s[j].resets) /\ SameReset(s[j].resets, s[k].resets)
                => SameReset(s[i].resets, s[k].resets)
  <2>1. \A i, j \in DOMAIN rows : SameReset(s[i].resets, s[j].resets) <=> SameReset(s[j].resets, s[i].resets)
    BY <1>3, ResetFacts
  <2> QED
    BY <1>3, <2>1 DEF Steady
<1>11. ~SameReset(s[p].resets, s[n].resets) /\ ~SameReset(s[n].resets, s[p].resets)
  BY <1>2, <1>3, <1>4, <1>10
<1>12. SameReset(s[p].resets, s[a].resets)
  <2>1. p <= p /\ p <= n - 1
    BY <1>1, <1>4, <1>7
  <2> QED
    BY <1>4, <1>6, <2>1
<1>13. ASSUME NEW i \in all, i < n PROVE rows[i].at < from
  <2>1. i \in DOMAIN rows /\ s[i].at < s[n].at /\ s[p].at < s[n].at
    BY <1>2, <1>3, <1>4, <1>7, <1>9, <1>13
  <2>2. CASE i < p
    <3>1. s[i].at < s[p].at
      BY <1>1, <1>3, <1>4, <2>1, <2>2 DEF Ascending
    <3>2. OfficialStart(s[n]) > s[i].at
      BY <1>2, <1>3, <1>4, <1>11, <2>1, <3>1, NewWindow
    <3>3. from > rows[i].at
      BY <1>3, <1>9a, <2>1, <3>2
    <3> QED
      BY <1>1, <1>3, <2>1, <3>3
  <2>3. CASE ~(i < p)
    <3>1. p <= i /\ i <= n - 1
      BY <1>1, <1>4, <1>7, <1>13, <2>1, <2>3
    <3>2. SameReset(s[i].resets, s[a].resets)
      BY <1>6, <3>1
    <3>3. SameReset(s[i].resets, s[p].resets)
      BY <1>4, <1>7, <1>10, <1>12, <2>1, <3>2
    <3>4. ~SameReset(s[n].resets, s[i].resets)
      BY <1>2, <1>4, <1>10, <1>11, <2>1, <3>3
    <3>5. OfficialStart(s[n]) > s[i].at
      BY <1>2, <1>3, <2>1, <3>4 DEF Steady
    <3>6. from > rows[i].at
      BY <1>3, <1>9a, <2>1, <3>5
    <3> QED
      BY <1>1, <1>3, <2>1, <3>6
  <2> QED
    BY <2>2, <2>3
<1>14. ResetAdvanced(s[n].resets, s[a].resets)
  <2>1. ~SameReset(s[n].resets, s[a].resets)
    BY <1>2, <1>4, <1>7, <1>10, <1>11, <1>12
  <2>2. s[a].at < s[n].at
    BY <1>2, <1>3, <1>7, <1>9
  <2> QED
    BY <1>2, <1>3, <1>7, <2>1, <2>2, LaterWindow
<1>15. ~WaitingForFirstUse(d.cur)
  <2> DEFINE ms == d.cur.members
  <2>1. ms \in Seq(Fact) /\ ToSet(ms) # {}
    BY <1>6, <1>8 DEF Derivation, Segment
  <2> HIDE DEF ms
  <2>2. Last(ms) \in ToSet(ms)
    BY <2>1, LastMember
  <2>3. PICK k \in DOMAIN ms : ms[k] = Last(ms)
    BY <2>2 DEF ToSet
  <2>4. ms[k].used # 0
    BY <1>3, <1>4, <1>6, <2>3 DEF ms
  <2> QED
    BY <2>4 DEF WaitingForFirstUse, ms
<1>16. ~InManual(d, s[n])
  <2> SUFFICES ASSUME d.until # 0, s[n].at <= d.until PROVE FALSE
    BY DEF InManual
  <2>1. PICK k \in DOMAIN rows : k < n /\ rows[k].manual = d.until
    BY <1>8
  <2>2. rows[k].manual \in DerivedTimes
    BY <2>1 DEF Marked
  <2>3. PICK j \in DOMAIN rows : j \notin Underived /\ rows[j].at = d.until
    BY <2>1, <2>2 DEF DerivedTimes
  <2>4. rows[j].at < rows[n].at
    BY <1>2, <1>9, <2>3
  <2> QED
    BY <1>2, <1>3, <2>3, <2>4
<1>17. Begins(d, s[n])
  BY <1>6, <1>14, <1>15, <1>16 DEF Begins
<1>18. Opens(rows, from, so, n)
  <2>1. n \in KeptFrom(rows, from)
    BY <1>1, <1>2, <1>3
  <2>2. ASSUME NEW i \in KeptFrom(rows, from) PROVE n <= i
    <3>1. i \in DOMAIN rows /\ i \in all /\ ~(rows[i].at < from)
      BY <1>1
    <3>2. ~(i < n)
      BY <1>13, <3>1
    <3> QED
      BY <1>1, <1>2, <3>1, <3>2
  <2> QED
    BY <1>17, <2>1, <2>2 DEF Opens, s, d
<1>19. ASSUME NEW st, FullTrace(rows, st) PROVE Cut(rows, from, st)
  <2>1. ChangeFrom(rows, from)
    BY Unchanged
  <2>2. FullTrace(rows, so)
    BY DEF Followed
  <2> QED
    BY <1>1, <1>18, <1>19, <2>1, <2>2, OpensMoves
<1> QED
  BY <1>19 DEF CutBy, from

\* Where the replay of a capture begins.
LEMMA CaptureCut ==
    ASSUME StateOK, SteadyRows(rows), NEW so, Followed(rows, so), Marked(rows, DerivedTimes),
           NEW n, WaitingRow(n)
    PROVE  CutBy(rows, Anchor(rows, n))
<1> DEFINE p == PreviousIncluded(rows, n)   q == PreviousSegmentIncluded(rows, p)
           from == Anchor(rows, n)
<1>1. /\ RowsOK(rows) /\ n \in DOMAIN rows /\ rows[n].manual = 0 /\ rows[n].start = 0
      /\ (\A u \in Underived : u = n) /\ DOMAIN rows \subseteq Nat
  BY RowTyped DEF StateOK, WaitingRow, Underived
<1>2. from = IF p # 0 /\ rows[p].used = 0 THEN AnchorAfterUnused(rows, n, p)
             ELSE IF p # 0 /\ SameReset(rows[p].resets, rows[n].resets)
               THEN StartOr(rows[p].start, OfficialStart(rows[n]))
             ELSE OfficialStart(rows[n])
  BY <1>1 DEF Anchor
<1>3. ASSUME NEW x \in DOMAIN rows, Included(rows, x), x < n
      PROVE  /\ rows[x].start > 0 /\ rows[x].start \in Int
             /\ SegmentStart(rows[x]) = rows[x].start
             /\ \A other : StartOr(rows[x].start, other) = rows[x].start
             /\ CutBy(rows, rows[x].start)
  <2>1. x \notin Underived
    BY <1>1, <1>3
  <2>2. /\ rows[x].start > 0 /\ rows[x].start \in Int
        /\ \A rs : (/\ ChangeFrom(rs, rows[x].start)
                    /\ \A k \in DOMAIN rows : k <= x => rs[k] = rows[k]
                    /\ \A k \in DOMAIN rows : rs[k].excl # "manual" => rows[k].excl # "manual")
              => CutBy(rs, rows[x].start)
    BY <1>3, <2>1, StartCut
  <2>3. ChangeFrom(rows, rows[x].start)
    BY Unchanged
  <2>4. CutBy(rows, rows[x].start)
    BY <2>2, <2>3
  <2> QED
    BY <2>2, <2>4 DEF SegmentStart, StartOr
<1>4. CASE p = 0
  <2>1. from = MergeAnchor(rows, n)
    BY <1>2, <1>4 DEF MergeAnchor
  <2>2. ChangeFrom(rows, MergeAnchor(rows, n))
    BY Unchanged
  <2>3. \A u \in Underived : n <= u
    BY <1>1
  <2>4. CutBy(rows, MergeAnchor(rows, n))
    BY <1>1, <2>2, <2>3, MergeCut
  <2> QED
    BY <2>1, <2>4
<1>5. CASE p # 0
  <2>1. p \in DOMAIN rows /\ p < n /\ Included(rows, p)
    BY <1>1, <1>5, PreviousHere
  <2>2. CASE rows[p].used = 0 /\ ~SameReset(rows[p].resets, rows[n].resets) /\ q # 0
    <3>1. q \in DOMAIN rows /\ q < p /\ Included(rows, q)
      BY <1>1, <2>1, <2>2, PreviousSegmentHere
    <3>2. q < n
      BY <1>1, <2>1, <3>1
    <3>3. from = SegmentStart(rows[q])
      BY <1>2, <1>5, <2>2 DEF AnchorAfterUnused
    <3> HIDE DEF p, q, from
    <3>4. SegmentStart(rows[q]) = rows[q].start /\ CutBy(rows, rows[q].start)
      BY <1>3, <3>1, <3>2
    <3>5. CutBy(rows, from)
      BY <3>3, <3>4
    <3> QED
      BY <3>5 DEF from
  <2>3. CASE \/ rows[p].used = 0 /\ ~(~SameReset(rows[p].resets, rows[n].resets) /\ q # 0)
             \/ rows[p].used # 0 /\ SameReset(rows[p].resets, rows[n].resets)
    <3>1. \E other : from = StartOr(rows[p].start, other)
      BY <1>2, <1>5, <2>3 DEF AnchorAfterUnused
    <3> HIDE DEF p, q, from
    <3>2. (\A other : StartOr(rows[p].start, other) = rows[p].start) /\ CutBy(rows, rows[p].start)
      BY <1>3, <2>1
    <3>3. CutBy(rows, from)
      BY <3>1, <3>2
    <3> QED
      BY <3>3 DEF from
  <2>4. CASE rows[p].used # 0 /\ ~SameReset(rows[p].resets, rows[n].resets)
    <3>1. from = OfficialStart(rows[n])
      BY <1>2, <1>5, <2>4
    <3>2. CutBy(rows, OfficialStart(rows[n]))
      BY <1>5, <2>4, NewWindowCut
    <3> QED
      BY <3>1, <3>2
  <2> QED
    BY <2>2, <2>3, <2>4
<1> QED
  BY <1>4, <1>5

LEMMA MarkRowReads ==
    ASSUME StateOK, NEW i \in DOMAIN rows, NEW excl, NEW manual
    PROVE  LET rs == MarkRow(i, excl, manual)
           IN /\ DOMAIN rs = DOMAIN rows
              /\ \A k \in DOMAIN rows \ {i} : rs[k] = rows[k]
              /\ rs[i].excl = excl /\ rs[i].manual = manual
              /\ excl = rows[i].excl /\ manual = rows[i].manual => rs[i] = rows[i]
<1> DEFINE rs == MarkRow(i, excl, manual)
<1>1. rows[i] \in Row
  BY RowTyped
<1>2. rs[i] = [rows[i] EXCEPT !.excl = excl, !.manual = manual]
  BY DEF MarkRow
<1>3. DOMAIN rs = DOMAIN rows /\ \A k \in DOMAIN rows \ {i} : rs[k] = rows[k]
  BY DEF MarkRow
<1> HIDE DEF rs
<1>4. rs[i].excl = excl /\ rs[i].manual = manual
  BY <1>1, <1>2 DEF Row
<1>5. ASSUME excl = rows[i].excl, manual = rows[i].manual PROVE rs[i] = rows[i]
  <2> DEFINE r == rows[i]
  <2>1. r \in Row /\ rs[i] = [r EXCEPT !.excl = r.excl, !.manual = r.manual]
    BY <1>1, <1>2, <1>5
  <2> HIDE DEF r
  <2>2. [r EXCEPT !.excl = r.excl, !.manual = r.manual] = r
    BY <2>1 DEF Row
  <2> QED
    BY <2>1, <2>2 DEF r
<1> QED
  BY <1>3, <1>4, <1>5 DEF rs

LEMMA NothingWaits ==
    ASSUME Inv, Idle, failures = 0
    PROVE  Underived = {}
<1>1. Underived \subseteq {0} /\ Underived \subseteq DOMAIN rows
  BY DEF Inv, OnlyCapturedWaits, Idle, Underived
<1>2. 0 \notin DOMAIN rows
  BY RowTyped DEF Inv
<1> QED
  BY <1>1, <1>2

\* Where the removal of a row begins its replay, and the replay without one.
LEMMA RemovalCut ==
    ASSUME StateOK, SteadyRows(rows), NEW so, Followed(rows, so), Underived = {},
           NEW i \in DOMAIN rows, rows[i].excl # "manual",
           rows[i].excl = "automatic" => HasCause(rows, i),
           NEW rs, rs = rows \/ rs = MarkRow(i, "manual", rows[i].manual),
           ChangeFrom(rs, RemovalAnchor(i))
    PROVE  CutBy(rs, RemovalAnchor(i))
<1> DEFINE from == RemovalAnchor(i)
<1>1. /\ RowsOK(rows) /\ DOMAIN rows = 1 .. Len(rows) /\ Len(rows) \in Nat
      /\ RowsOK(rs) /\ DOMAIN rs = DOMAIN rows
      /\ \A k \in DOMAIN rows : rs[k].at = rows[k].at
  BY RowTyped DEF StateOK, ChangeFrom
<1>2. /\ \A k \in DOMAIN rows \ {i} : rs[k] = rows[k]
      /\ \A k \in DOMAIN rows : rs[k].excl # "manual" => rows[k].excl # "manual"
      /\ rs # rows => rs[i].excl = "manual"
  BY MarkRowReads
<1>3. \A k \in DOMAIN rows : k < i => rs[k] = rows[k]
  BY <1>1, <1>2
<1>4. CASE rows[i].manual # 0
  <2>1. from = MergeAnchor(rows, i)
    BY <1>4 DEF RemovalAnchor
  <2>2. CutBy(rs, MergeAnchor(rows, i))
    BY <1>2, <1>3, <2>1, MergeCut
  <2> QED
    BY <2>1, <2>2
<1>5. CASE rows[i].manual = 0
  <2>1. from = Anchor(rows, i)
    BY <1>5 DEF RemovalAnchor
  <2>2. i \in KeptFrom(rows, Everything)
    BY <1>1, KeptIs
  <2>3. Derived(rows[i], so[i], 0)
    BY <2>2 DEF Followed, Underived
  <2>4. CASE rows[i].excl = "automatic"
    <3> DEFINE p == PreviousIncluded(rows, i)
    <3>1. rows[i].start = 0
      BY <2>3, <2>4 DEF Derived
    <3>2. p # 0 /\ rows[p].used > rows[i].used /\ SameReset(rows[p].resets, rows[i].resets)
      BY <2>4 DEF HasCause
    <3>3. p \in DOMAIN rows /\ p < i /\ Included(rows, p)
      BY <1>1, <3>2, PreviousHere
    <3>4. rows[p].used # 0
      <4>1. rows[i].used \in Nat
        BY <1>1, FactsOfIs
      <4> HIDE DEF p
      <4> QED
        BY <3>2, <4>1
    <3>5. from = StartOr(rows[p].start, OfficialStart(rows[i]))
      BY <1>5, <2>1, <3>1, <3>2, <3>4 DEF Anchor
    <3> HIDE DEF p, from
    <3>6. /\ rows[p].start > 0 /\ rows[p].start \in Int
          /\ \A x : (/\ ChangeFrom(x, rows[p].start)
                     /\ \A k \in DOMAIN rows : k <= p => x[k] = rows[k]
                     /\ \A k \in DOMAIN rows : x[k].excl # "manual" => rows[k].excl # "manual")
                => CutBy(x, rows[p].start)
      BY <3>3, StartCut
    <3>7. from = rows[p].start
      BY <3>5, <3>6 DEF StartOr
    <3>8. \A k \in DOMAIN rows : k <= p => rs[k] = rows[k]
      BY <1>1, <1>3, <3>3
    <3>9. ChangeFrom(rs, from)
      BY DEF from
    <3>10. CutBy(rs, from)
      BY <1>2, <3>6, <3>7, <3>8, <3>9
    <3> QED
      BY <3>10 DEF from
  <2>5. CASE rows[i].excl = "none"
    <3>1. Included(rows, i) /\ i \notin Underived /\ rows[i].mates # {}
      BY <2>3, <2>5 DEF Included, Derived
    <3>2. /\ rows[i].start > 0 /\ rows[i].start \in Int
          /\ \A x : (/\ ChangeFrom(x, rows[i].start)
                     /\ \A k \in DOMAIN rows : k <= i => x[k] = rows[k]
                     /\ \A k \in DOMAIN rows : x[k].excl # "manual" => rows[k].excl # "manual")
                => CutBy(x, rows[i].start)
      BY <3>1, StartCut
    <3>3. from = rows[i].start
      BY <1>5, <2>1, <3>2 DEF Anchor
    <3>4. ChangeFrom(rs, from) /\ from \in Int
      BY <3>2, <3>3
    <3> HIDE DEF from
    <3>5. CASE rs = rows
      BY <3>2, <3>3, <3>4, <3>5 DEF from
    <3>6. CASE rs # rows
      <4>1. PICK f \in 1 .. i : Opens(rows, from, so, f)
        BY <1>1, <2>5, <3>1, <3>3, StartOpens
      <4>2. f \in DOMAIN rows /\ (f < i \/ f = i)
        BY <1>1
      <4>3. KeptFrom(rs, from) = KeptFrom(rows, from) \ {i}
        <5>1. rs[i].excl = "manual"
          BY <1>2, <3>6
        <5> QED
          BY <1>1, <1>2, <5>1 DEF KeptFrom
      <4>4. FullTrace(rows, so)
        BY DEF Followed
      <4>5. ASSUME NEW st, FullTrace(rs, st) PROVE Cut(rs, from, st)
        <5>1. CASE f < i
          <6>1. rs[f] = rows[f] /\ KeptFrom(rs, from) \subseteq KeptFrom(rows, from)
            BY <1>3, <4>2, <4>3, <5>1
          <6> QED
            BY <3>4, <4>1, <4>4, <4>5, <6>1, OpensMoves
        <5>2. CASE f = i
          <6>1. /\ rows[f].manual = 0 /\ KeptFrom(rs, from) = KeptFrom(rows, from) \ {f}
                /\ \A k \in DOMAIN rows \ {f} : rs[k] = rows[k]
            BY <1>2, <1>5, <4>3, <5>2
          <6> QED
            BY <3>4, <4>1, <4>4, <4>5, <6>1, OpenerGoes
        <5> QED
          BY <4>2, <5>1, <5>2
      <4> QED
        BY <4>5 DEF CutBy, from
    <3> QED
      BY <3>5, <3>6
  <2>6. rows[i].excl \in {"none", "automatic"}
    <3>1. rows[i] \in Row
      BY <1>1, FactsOfIs
    <3> QED
      BY <3>1 DEF Row
  <2> QED
    BY <2>4, <2>5, <2>6
<1> QED
  BY <1>4, <1>5

\* Where the restoration of a row that was not excluded by hand begins.
LEMMA RestoreCut ==
    ASSUME StateOK, SteadyRows(rows), NEW so, Followed(rows, so), Underived = {},
           NEW i \in DOMAIN rows, rows[i].excl # "manual", ~InsideInterval(i),
           rows[i].excl = "automatic" => HasCause(rows, i),
           NEW confirmed \in BOOLEAN, confirmed <=> ConfirmsRollback(i) /\ rows[i].manual = 0,
           NEW rs, rs = MarkRow(i, "none", IF confirmed THEN rows[i].at ELSE rows[i].manual),
           NEW from, from = IF confirmed THEN rows[i].at ELSE Anchor(rows, i),
           ChangeFrom(rs, from)
    PROVE  CutBy(rs, from)
<1>1. /\ RowsOK(rows) /\ DOMAIN rows = 1 .. Len(rows) /\ Len(rows) \in Nat
      /\ RowsOK(rs) /\ DOMAIN rs = DOMAIN rows
      /\ \A k \in DOMAIN rows : rs[k].at = rows[k].at /\ rs[k].resets = rows[k].resets
  BY RowTyped DEF StateOK, ChangeFrom
<1>2. /\ \A k \in DOMAIN rows \ {i} : rs[k] = rows[k]
      /\ rs[i].excl = "none" /\ rs[i].manual = IF confirmed THEN rows[i].at ELSE rows[i].manual
      /\ rows[i].excl = "none" /\ rs[i].manual = rows[i].manual => rs[i] = rows[i]
  BY MarkRowReads
<1>3. SteadyRows(rs)
  BY <1>1, SameReadings
<1>4. rows[i].at > 0 /\ rows[i] \in Row
  BY <1>1, FactsOfIs DEF SteadyRows, Steady
<1>5. CASE rs[i].manual # 0
  <2>1. from = rs[i].at
    BY <1>1, <1>2, <1>5 DEF Anchor
  <2>2. \A k \in DOMAIN rs : k < i => ~(rs[k].manual >= rs[i].at)
    BY <1>1, <1>2 DEF InsideInterval
  <2>3. ASSUME NEW st, FullTrace(rs, st) PROVE Cut(rs, rs[i].at, st)
    BY <1>1, <1>2, <1>3, <1>5, <2>2, <2>3, MarkedCut
  <2> QED
    BY <2>1, <2>3 DEF CutBy
<1>6. CASE rs[i].manual = 0
  <2>1. ~confirmed /\ rows[i].manual = 0
    BY <1>2, <1>4, <1>6 DEF Row
  <2>2. rows[i].excl = "none"
    <3> SUFFICES ASSUME rows[i].excl = "automatic" PROVE FALSE
      BY <1>4 DEF Row
    <3>1. ConfirmsRollback(i)
      <4> DEFINE p == PreviousIncluded(rows, i)
      <4>1. p # 0 /\ rows[p].used > rows[i].used /\ SameReset(rows[p].resets, rows[i].resets)
        BY DEF HasCause
      <4>2. rows[p].used \in Nat /\ rows[i].used \in Nat
        <5>1. p \in DOMAIN rows
          BY <1>1, <4>1, PreviousHere
        <5> HIDE DEF p
        <5> QED
          BY <1>1, <5>1, FactsOfIs
      <4>3. rows[i].used < rows[p].used
        <5> HIDE DEF p
        <5> QED
          BY <4>1, <4>2
      <4> QED
        BY <4>1, <4>3 DEF ConfirmsRollback, Included
    <3> QED
      BY <2>1, <3>1
  <2>3. rs[i] = rows[i]
    BY <1>2, <1>6, <2>1, <2>2
  <2>4. \A k \in DOMAIN rows : rs[k] = rows[k]
    BY <1>2, <2>3
  <2>5. /\ rows[i].start > 0 /\ rows[i].start \in Int
        /\ \A x : (/\ ChangeFrom(x, rows[i].start)
                   /\ \A k \in DOMAIN rows : k <= i => x[k] = rows[k]
                   /\ \A k \in DOMAIN rows : x[k].excl # "manual" => rows[k].excl # "manual")
              => CutBy(x, rows[i].start)
    BY <2>2, StartCut DEF Included
  <2>6. from = rows[i].start
    BY <2>1, <2>5 DEF Anchor
  <2> QED
    BY <2>4, <2>5, <2>6
<1> QED
  BY <1>5, <1>6

\* A manual start that no other interval reaches into.
LEMMA ManualStartCut ==
    ASSUME StateOK, SteadyRows(rows), NEW i \in DOMAIN rows, NEW e \in DOMAIN rows, SetManualStart(i, e)
    PROVE  CutBy(MarkInterval(i, e), rows[i].at)
<1> DEFINE rs == MarkInterval(i, e)   from == rows[i].at
           Meets(k) == rows[k].manual # 0 /\ Overlap(rows[k].at, rows[k].manual, rows[i].at, rows[e].at)
<1>1. /\ ChangeFrom(rs, from)
      /\ \A k \in DOMAIN rows \ {i} :
            /\ rs[k] = IF Meets(k) THEN [rows[k] EXCEPT !.manual = 0] ELSE rows[k]
            /\ Meets(k) => rows[i].at <= rows[k].at
      /\ rs[i] = [rows[i] EXCEPT !.manual = rows[e].at, !.excl = "none"]
  BY SetManualStartIs
<1>2. i <= e
  BY DEF SetManualStart
<1> HIDE DEF rs
<1>3. /\ RowsOK(rows) /\ DOMAIN rows = 1 .. Len(rows) /\ Len(rows) \in Nat /\ Ascending(rows)
      /\ RowsOK(rs) /\ DOMAIN rs = DOMAIN rows
      /\ \A k \in DOMAIN rows : rs[k].at = rows[k].at /\ rs[k].resets = rows[k].resets
      /\ \A k \in DOMAIN rows : rows[k] \in Row /\ rows[k].at \in Nat /\ rows[k].manual \in Nat
  BY <1>1, RowTyped DEF StateOK, ChangeFrom, RowsOK, Row
<1>4. SteadyRows(rs)
  BY <1>3, SameReadings
<1>5. \A k \in DOMAIN rows : rows[k].at > 0
  BY <1>3, FactsOfIs DEF SteadyRows, Steady
<1>6. rs[i].excl = "none" /\ rs[i].manual = rows[e].at
  BY <1>1, <1>3 DEF Row
<1>7. ASSUME NEW k \in DOMAIN rows, k < i PROVE ~(rs[k].manual >= rs[i].at)
  <2> SUFFICES ASSUME rs[k].manual >= rows[i].at PROVE FALSE
    BY <1>3
  <2>1. rows[k].at < rows[i].at /\ rows[i].at <= rows[e].at
    <3>1. i = e \/ i < e
      BY <1>2, <1>3
    <3> QED
      BY <1>3, <1>7, <3>1 DEF Ascending
  <2>2. k \in DOMAIN rows \ {i}
    BY <1>3, <1>7
  <2>3. ~Meets(k)
    BY <1>1, <1>3, <2>1, <2>2
  <2>4. rs[k] = rows[k]
    BY <1>1, <2>2, <2>3
  <2>5. rows[k].manual >= rows[i].at /\ rows[k].manual # 0
    BY <1>3, <1>5, <2>4
  <2> QED
    BY <1>3, <2>1, <2>3, <2>5 DEF Overlap
<1>8. ASSUME NEW st, FullTrace(rs, st) PROVE Cut(rs, rs[i].at, st)
  <2>1. rs[i].excl # "manual" /\ rs[i].manual # 0
    BY <1>5, <1>6
  <2>2. i \in DOMAIN rs /\ \A k \in DOMAIN rs : k < i => ~(rs[k].manual >= rs[i].at)
    BY <1>3, <1>7
  <2> QED
    BY <1>3, <1>4, <1>8, <2>1, <2>2, MarkedCut
<1>9. rs[i].at = from
  BY <1>3
<1> QED
  BY <1>8, <1>9 DEF CutBy, rs

-----------------------------------------------------------------------------
(* The steps, while no start has moved *)

LEMMA MarksOfRows ==
    ASSUME StateOK, Marked(rows, DerivedTimes)
    PROVE  Marked(rows, TimesIn(rows))
<1>1. DerivedTimes \subseteq TimesIn(rows)
  BY DEF DerivedTimes, TimesIn, ToSet
<1> QED
  BY <1>1 DEF Marked

\* The replay that a command asks for.
LEMMA CommandFollows ==
    ASSUME Inv, Orderly, Follows, Command, NEW rs, NEW from \in Int, ChangeFrom(rs, from),
           Rebuild(rs, from), CutBy(rs, from), Marked(rs, TimesIn(rows))
    PROVE  Follows'
<1>1. Idle /\ captured' = captured /\ captured = 0
  BY DEF Command, Idle
<1>2. StateOK /\ provider = "sub2api" /\ failures = 0
  BY DEF Inv, Orderly
<1>3. Underived = {}
  BY <1>1, <1>2, NothingWaits
<1>4. Waiting(rs, from) = {}
  BY <1>3 DEF ChangeFrom, Waiting, Underived
<1> QED
  BY <1>1, <1>2, <1>4, ReplayFollows

\* A command that begins its replay where the inference begins a segment.
LEMMA BeginningCut ==
    ASSUME StateOK, SteadyRows(rows), provider = "sub2api", NEW rs, NEW from \in Int,
           ChangeFrom(rs, from), BeginsSegment(rs, from)
    PROVE  CutBy(rs, from)
<1>1. /\ RowsOK(rs) /\ DOMAIN rs = DOMAIN rows /\ RowsOK(rows)
      /\ \A k \in DOMAIN rows : rs[k].at = rows[k].at /\ rs[k].resets = rows[k].resets
  BY DEF ChangeFrom, StateOK
<1>2. SteadyRows(rs)
  BY <1>1, SameReadings
<1>3. ASSUME NEW st, FullTrace(rs, st) PROVE Cut(rs, from, st)
  BY <1>1, <1>2, <1>3, BeginsSegmentCuts
<1> QED
  BY <1>3 DEF CutBy

LEMMA CommandsFollow ==
    ASSUME Inv, CauseInv, FollowInv, Orderly',
           \/ RebuildCurrentInterval
           \/ \E i \in DOMAIN rows : Exclude(i)
           \/ \E i \in DOMAIN rows : Restore(i)
           \/ \E i, e \in DOMAIN rows : SetManualStart(i, e)
           \/ \E i \in DOMAIN rows : ClearManualStart(i)
    PROVE  Follows'
<1>1. Command
  BY CommandReplays DEF Inv
<1>2. /\ Idle /\ provider' = provider /\ timely' = timely /\ failures' = failures
  BY <1>1 DEF Command
<1>3. /\ StateOK /\ provider = "sub2api" /\ timely /\ failures = 0 /\ anchored'
  BY <1>2 DEF Inv, Orderly
<1>4. Underived = {}
  BY <1>2, <1>3, NothingWaits
<1>5. /\ SteadyRows(rows)
      /\ \A i \in DOMAIN rows : rows[i].excl = "automatic" => HasCause(rows, i)
  BY <1>3 DEF CauseInv
<1>6. ASSUME anchored PROVE Orderly /\ Follows /\ Marked(rows, TimesIn(rows)) /\ \E so : Followed(rows, so)
  BY <1>3, <1>6, MarksOfRows DEF Orderly, FollowInv, Follows
<1>7. ASSUME NEW i \in DOMAIN rows, NEW rs, NEW from \in Int, RebuildFor(i, rs, from), ChangeFrom(rs, from),
             ASSUME anchored, rows[i].excl # "manual", ~InsideInterval(i) PROVE CutBy(rs, from),
             ASSUME anchored PROVE Marked(rs, TimesIn(rows))
      PROVE  Follows'
  <2>1. /\ Rebuild(rs, from)
        /\ anchored' = (anchored /\ (\/ rows[i].excl # "manual" /\ ~InsideInterval(i)
                                     \/ BeginsSegment(rs, from)))
    BY <1>7 DEF RebuildFor
  <2>2. anchored
    BY <1>3, <2>1
  <2>3. \/ rows[i].excl # "manual" /\ ~InsideInterval(i)
        \/ BeginsSegment(rs, from)
    BY <1>3, <2>1
  <2>4. CutBy(rs, from)
    BY <1>3, <1>5, <1>7, <2>2, <2>3, BeginningCut
  <2>5. Marked(rs, TimesIn(rows)) /\ Orderly /\ Follows
    BY <1>6, <1>7, <2>2
  <2> QED
    BY <1>1, <1>7, <2>1, <2>4, <2>5, CommandFollows
<1>8. CASE RebuildCurrentInterval
  <2> DEFINE i == Len(rows)   from == RemovalAnchor(i)
  <2>1. rows # <<>> /\ RebuildFor(i, rows, from)
    BY <1>8 DEF RebuildCurrentInterval
  <2>2. i \in DOMAIN rows
    BY <1>3, <2>1, RowTyped, EmptySeq
  <2>3. from \in Int
    BY <1>3, <2>2, RemovalAnchorBefore DEF Before
  <2>4. ChangeFrom(rows, from)
    BY <1>3, Unchanged
  <2> HIDE DEF i
  <2>5. ASSUME anchored, rows[i].excl # "manual", ~InsideInterval(i) PROVE CutBy(rows, from)
    <3>1. PICK so : Followed(rows, so)
      BY <1>6, <2>5
    <3> QED
      BY <1>3, <1>4, <1>5, <2>2, <2>4, <2>5, <3>1, RemovalCut
  <2> HIDE DEF from
  <2> QED
    BY <1>6, <1>7, <2>1, <2>2, <2>3, <2>4, <2>5
<1>9. ASSUME NEW i \in DOMAIN rows, Exclude(i) PROVE Follows'
  <2> DEFINE rs == MarkRow(i, "manual", rows[i].manual)   from == RemovalAnchor(i)
  <2>1. RebuildFor(i, rs, from) /\ ChangeFrom(rs, from) /\ from \in Int
    BY <1>3, <1>9, ExcludeIs
  <2>2. ASSUME anchored, rows[i].excl # "manual", ~InsideInterval(i) PROVE CutBy(rs, from)
    <3>1. PICK so : Followed(rows, so)
      BY <1>6, <2>2
    <3> QED
      BY <1>3, <1>4, <1>5, <2>1, <2>2, <3>1, RemovalCut
  <2>3. ASSUME anchored PROVE Marked(rs, TimesIn(rows))
    <3>1. Marked(rows, TimesIn(rows))
      BY <1>6, <2>3
    <3>2. /\ DOMAIN rs = DOMAIN rows /\ \A k \in DOMAIN rows \ {i} : rs[k] = rows[k]
          /\ rs[i].manual = rows[i].manual
      BY <1>3, MarkRowReads
    <3> HIDE DEF rs
    <3> QED
      BY <3>1, <3>2 DEF Marked
  <2> HIDE DEF rs, from
  <2> QED
    BY <1>7, <2>1, <2>2, <2>3
<1>10. ASSUME NEW i \in DOMAIN rows, Restore(i) PROVE Follows'
  <2> DEFINE confirmed == ConfirmsRollback(i) /\ rows[i].manual = 0
             manual == IF confirmed THEN rows[i].at ELSE rows[i].manual
             rs == MarkRow(i, "none", manual)
             from == IF confirmed THEN rows[i].at ELSE Anchor(rows, i)
  <2>1. RebuildFor(i, rs, from) /\ ChangeFrom(rs, from) /\ from \in Int
    BY <1>3, <1>10, RestoreIs
  <2>2. ASSUME anchored, rows[i].excl # "manual", ~InsideInterval(i) PROVE CutBy(rs, from)
    <3>1. PICK so : Followed(rows, so)
      BY <1>6, <2>2
    <3>2. confirmed \in BOOLEAN
      BY DEF ConfirmsRollback
    <3> QED
      BY <1>3, <1>4, <1>5, <2>1, <2>2, <3>1, <3>2, RestoreCut
  <2>3. ASSUME anchored PROVE Marked(rs, TimesIn(rows))
    <3>1. Marked(rows, TimesIn(rows))
      BY <1>6, <2>3
    <3>2. manual = 0 \/ manual \in TimesIn(rows)
      <4>1. rows[i].at \in TimesIn(rows)
        BY DEF TimesIn, ToSet
      <4> QED
        BY <3>1, <4>1 DEF Marked
    <3>3. /\ DOMAIN rs = DOMAIN rows /\ \A k \in DOMAIN rows \ {i} : rs[k] = rows[k]
          /\ rs[i].manual = manual
      <4> HIDE DEF manual
      <4> QED
        BY <1>3, MarkRowReads
    <3> HIDE DEF rs, manual
    <3> QED
      BY <3>1, <3>2, <3>3 DEF Marked
  <2> HIDE DEF rs, from
  <2> QED
    BY <1>7, <2>1, <2>2, <2>3
<1>11. ASSUME NEW i \in DOMAIN rows, NEW e \in DOMAIN rows, SetManualStart(i, e) PROVE Follows'
  <2> DEFINE rs == MarkInterval(i, e)   from == rows[i].at
             Meets(k) == rows[k].manual # 0 /\ Overlap(rows[k].at, rows[k].manual, rows[i].at, rows[e].at)
  <2>1. /\ Rebuild(rs, from) /\ anchored' = anchored /\ ChangeFrom(rs, from) /\ from \in Int
        /\ \A k \in DOMAIN rows \ {i} :
              /\ rs[k] = IF Meets(k) THEN [rows[k] EXCEPT !.manual = 0] ELSE rows[k]
              /\ Meets(k) => rows[i].at <= rows[k].at
        /\ rs[i] = [rows[i] EXCEPT !.manual = rows[e].at, !.excl = "none"]
    <3>1. StateOK
      BY <1>3
    <3>2. SetManualStart(i, e)
      BY <1>11
    <3> QED
      BY ONLY <3>1, <3>2, SetManualStartIs, <1>11
  <2>2. CutBy(rs, from)
    BY <1>3, <1>5, <1>11, ManualStartCut
  <2>3. anchored /\ Orderly /\ Follows /\ Marked(rows, TimesIn(rows))
    BY <1>3, <1>6, <2>1
  <2> HIDE DEF rs, from, Meets
  <2>4. Marked(rs, TimesIn(rows))
    <3>1. DOMAIN rs = DOMAIN rows /\ \A k \in DOMAIN rows : rows[k] \in Row
      BY <1>3, <2>1, RowTyped DEF ChangeFrom
    <3>2. rs[i].manual = rows[e].at /\ rows[e].at \in TimesIn(rows)
      BY <2>1, <3>1 DEF Row, TimesIn, ToSet
    <3>3. \A k \in DOMAIN rows \ {i} : rs[k].manual = 0 \/ rs[k].manual = rows[k].manual
      BY <2>1, <3>1 DEF Row
    <3> QED
      BY <2>3, <3>1, <3>2, <3>3 DEF Marked
  <2> QED
    BY <1>1, <2>1, <2>2, <2>3, <2>4, CommandFollows
<1>12. ASSUME NEW i \in DOMAIN rows, ClearManualStart(i) PROVE Follows'
  <2> DEFINE rs == MarkRow(i, rows[i].excl, 0)   from == MergeAnchor(rows, i)
  <2>1. Rebuild(rs, from) /\ anchored' = anchored /\ ChangeFrom(rs, from) /\ from \in Int
    BY <1>3, <1>12, ClearManualStartIs
  <2>2. anchored /\ Orderly /\ Follows /\ Marked(rows, TimesIn(rows))
    BY <1>3, <1>6, <2>1
  <2>3. PICK so : Followed(rows, so)
    BY <2>2 DEF Follows
  <2>4. /\ DOMAIN rs = DOMAIN rows /\ \A k \in DOMAIN rows \ {i} : rs[k] = rows[k]
        /\ rs[i].manual = 0 /\ rs[i].excl = rows[i].excl
    BY <1>3, MarkRowReads
  <2> HIDE DEF rs
  <2>5. CutBy(rs, from)
    <3>1. \A k \in DOMAIN rows : k < i => rs[k] = rows[k]
      <4>1. \A k \in DOMAIN rows : k < i => k # i
        BY <1>3, RowTyped
      <4> QED
        BY <2>4, <4>1
    <3>2. \A k \in DOMAIN rows : rs[k].excl # "manual" => rows[k].excl # "manual"
      BY <2>4
    <3>3. \A u \in Underived : i <= u
      BY <1>4
    <3> QED
      BY <1>3, <1>5, <2>1, <2>3, <3>1, <3>2, <3>3, MergeCut
  <2>6. Marked(rs, TimesIn(rows))
    BY <2>2, <2>4 DEF Marked
  <2> HIDE DEF from
  <2> QED
    BY <1>1, <2>1, <2>2, <2>5, <2>6, CommandFollows
<1> QED
  BY <1>8, <1>9, <1>10, <1>11, <1>12

LEMMA RowsStayFollowed ==
    ASSUME Follows, rows' = rows, captured' = captured \/ captured' = 0
    PROVE  Follows'
<1>1. Underived' = Underived /\ DerivedTimes' = DerivedTimes
  BY DEF Underived, DerivedTimes
<1>2. \A st : Followed(rows, st) <=> Followed(rows', st)
  OBVIOUS
<1>3. SteadyRows(rows')
  BY DEF Follows
<1>4. Marked(rows', DerivedTimes')
  BY <1>1 DEF Follows
<1> QED
  BY <1>1, <1>2, <1>3, <1>4 DEF Follows

\* The replays of the program itself.
LEMMA OwnFollow ==
    ASSUME Inv, Orderly, Follows, (\E b \in BOOLEAN : RebuildCapture(b)) \/ Restart
    PROVE  Follows'
<1>1. StateOK /\ RowsOK(rows) /\ provider = "sub2api" /\ failures = 0
  BY DEF Inv, StateOK, Orderly
<1>2. /\ SteadyRows(rows) /\ Marked(rows, DerivedTimes) /\ Marked(rows, TimesIn(rows))
      /\ \A u \in Underived : u = Len(rows) /\ rows[u].start = 0 /\ rows[u].manual = 0
      /\ captured # 0 => captured \in Underived
  BY <1>1, MarksOfRows DEF Follows
<1>3. PICK so : Followed(rows, so)
  BY DEF Follows
<1>4. Underived \subseteq DOMAIN rows /\ DOMAIN rows \subseteq Nat
  BY <1>1, RowTyped DEF Underived
<1>5. ASSUME NEW from, from \in Int, Rebuild(rows, from), CutBy(rows, from), captured' = 0,
             \A u \in Underived : from <= rows[u].at
      PROVE  Follows'
  <2>1. ChangeFrom(rows, from) /\ Waiting(rows, from) = {i \in Underived : rows[i].at < from}
    BY <1>1, Unchanged
  <2>2. \A u \in Underived : rows[u].at \in Nat
    BY <1>1, <1>4, RowTyped
  <2>3. Waiting(rows, from) = {}
    BY <1>5, <2>1, <2>2
  <2> QED
    BY <1>1, <1>2, <1>5, <2>1, <2>3, ReplayFollows
<1>6. ASSUME NEW b \in BOOLEAN, RebuildCapture(b) PROVE Follows'
  <2>1. /\ captured # 0 /\ captured' = 0
        /\ Rebuild(rows, IF b THEN Everything ELSE Anchor(rows, captured))
    BY <1>1, <1>6 DEF RebuildCapture
  <2> DEFINE n == captured
  <2>2. WaitingRow(n) /\ n \in DOMAIN rows
    BY <1>2, <1>4, <2>1 DEF WaitingRow
  <2> HIDE DEF n
  <2>3. CASE b
    <3>1. Everything \in Int /\ \A k \in DOMAIN rows : ~(rows[k].at < Everything) /\ Everything <= rows[k].at
      BY <1>1, RowTyped DEF Everything
    <3>2. \A k \in KeptFrom(rows, Everything) : ~(rows[k].at < Everything)
      BY <1>1, <3>1, KeptIs
    <3>3. ASSUME NEW st, FullTrace(rows, st) PROVE Cut(rows, Everything, st)
      BY <1>1, <1>2, <3>1, <3>2, <3>3, NothingBefore
    <3>4. CutBy(rows, Everything)
      BY <3>3 DEF CutBy
    <3>5. Rebuild(rows, Everything)
      BY <2>1, <2>3
    <3> QED
      BY <1>4, <1>5, <2>1, <3>1, <3>4, <3>5
  <2>4. CASE ~b
    <3> DEFINE from == Anchor(rows, n)
    <3>1. from \in Int /\ from <= rows[n].at
      BY <1>1, <2>2, AnchorsBefore DEF Before
    <3>2. CutBy(rows, from)
      BY <1>1, <1>2, <1>3, <2>2, CaptureCut
    <3>3. Rebuild(rows, from)
      BY <2>1, <2>4 DEF n
    <3> HIDE DEF from
    <3>4. \A u \in Underived : from <= rows[u].at
      BY <2>2, <3>1 DEF WaitingRow
    <3> QED
      BY <1>5, <2>1, <3>1, <3>2, <3>3, <3>4
  <2> QED
    BY <2>3, <2>4
<1>7. CASE Restart /\ Underived # {}
  <2> DEFINE i == CHOOSE k \in Underived : \A j \in Underived : k <= j
             from == MergeAnchor(rows, i)
  <2>1. i \in Underived /\ \A j \in Underived : i <= j
    <3>1. \E k \in Underived : \A j \in Underived : k <= j
      BY <1>4, <1>7, LeastNumber
    <3> QED
      BY <3>1
  <2>2. Rebuild(rows, IF rows[i].manual = 0 THEN MergeAnchor(rows, i) ELSE Anchor(rows, i))
    BY <1>7 DEF Restart
  <2>3. captured' = 0
    BY <1>1, <1>7 DEF Restart, StateOK
  <2> HIDE DEF i
  <2>4. Rebuild(rows, from) /\ i \in DOMAIN rows
    BY <1>2, <1>4, <2>1, <2>2
  <2>5. from \in Int /\ from <= rows[i].at
    BY <1>1, <2>4, AnchorsBefore DEF Before
  <2>6. ChangeFrom(rows, from)
    BY <1>1, Unchanged
  <2>7. CutBy(rows, from)
    BY <1>1, <1>2, <1>3, <2>1, <2>4, <2>6, MergeCut
  <2>8. \A u \in Underived : u = i
    BY <1>2, <2>1
  <2> HIDE DEF from
  <2>9. \A u \in Underived : from <= rows[u].at
    BY <2>5, <2>8
  <2> QED
    BY <1>5, <2>3, <2>4, <2>5, <2>7, <2>9
<1>8. CASE Restart /\ Underived = {}
  <2>1. rows' = rows /\ captured' = captured
    BY <1>8 DEF Restart
  <2> QED
    BY <2>1, RowsStayFollowed
<1> QED
  BY <1>6, <1>7, <1>8

LEMMA CaptureFollows ==
    ASSUME Inv, Inv', Orderly, Follows, NEW w \in Windows[provider], Capture(w), timely'
    PROVE  Follows'
<1> DEFINE r == NewRow(Now, w)   n == Len(rows) + 1
<1>1. /\ Idle /\ rows' = Append(rows, r) /\ TimeLeft /\ OfficialStart(w) <= Now /\ provider' = provider
      /\ clock' = clock + 1 /\ Timely(w) /\ captured' = Len(rows')
  BY DEF Capture
<1>2. StateOK /\ RowsOK(rows) /\ RowsOK(rows') /\ provider = "sub2api" /\ failures = 0
  BY DEF Inv, StateOK, Orderly
<1>3. SteadyRows(rows) /\ SteadyRows(rows')
  <2>1. SteadyRows(rows)
    BY DEF Follows
  <2> QED
    BY <1>1, <1>2, <2>1, CaptureSteady
<1>4. Now \in Nat /\ r \in Row /\ r.excl = "none" /\ r.mates = {} /\ r.start = 0 /\ r.manual = 0
  <2>1. Now \in Nat
    BY <1>1, <1>2, NowIsNew
  <2>2. r \in Row /\ r.excl = "none" /\ r.mates = {}
    BY <1>1, <1>2, <2>1, NewRowOK DEF StateOK
  <2>3. r.start = 0 /\ r.manual = 0
    BY DEF NewRow
  <2> QED
    BY <2>1, <2>2, <2>3
<1> HIDE DEF r
<1>5. /\ Len(rows) \in Nat /\ DOMAIN rows = 1 .. Len(rows) /\ Len(rows') = n
      /\ DOMAIN rows' = DOMAIN rows \cup {n}
      /\ \A i \in DOMAIN rows : rows'[i] = rows[i] /\ i # n
      /\ rows'[n] = r
  <2>1. Len(rows) \in Nat /\ DOMAIN rows = 1 .. Len(rows) /\ rows \in Seq(Row)
    BY <1>2, RowTyped
  <2>2. /\ Len(rows') = n /\ DOMAIN rows' = DOMAIN rows \cup {n}
        /\ \A i \in DOMAIN rows : rows'[i] = rows[i]
        /\ rows'[n] = r
    BY <1>1, <1>4, <2>1, Appended
  <2>3. \A i \in DOMAIN rows : i # n
    BY <2>1
  <2> QED
    BY <2>1, <2>2, <2>3
<1> HIDE DEF n
<1>6. Underived = {}
  BY <1>1, <1>2, NothingWaits
<1>7. Underived' = {n}
  <2>1. Underived' = {i \in DOMAIN rows' : rows'[i].excl = "none" /\ rows'[i].mates = {}}
    BY DEF Underived
  <2>2. \A i \in DOMAIN rows : ~(rows[i].excl = "none" /\ rows[i].mates = {})
    BY <1>6 DEF Underived
  <2> QED
    BY <1>4, <1>5, <2>1, <2>2
<1>8. \A u \in Underived' : u = Len(rows') /\ rows'[u].start = 0 /\ rows'[u].manual = 0
  BY <1>4, <1>5, <1>7
<1>9. captured' # 0 => captured' \in Underived'
  BY <1>1, <1>5, <1>7
<1>10. Marked(rows', DerivedTimes')
  <2>1. DerivedTimes = {rows[k].at : k \in DOMAIN rows}
    BY <1>6 DEF DerivedTimes
  <2>2. DerivedTimes' = {rows'[k].at : k \in DOMAIN rows' \ {n}}
    BY <1>7 DEF DerivedTimes
  <2>3. DerivedTimes \subseteq DerivedTimes'
    BY <1>5, <2>1, <2>2
  <2>4. Marked(rows, DerivedTimes)
    BY DEF Follows
  <2> QED
    BY <1>4, <1>5, <2>3, <2>4 DEF Marked
<1>11. PICK so : Followed(rows, so)
  BY DEF Follows
<1>12. PICK st : FullTrace(rows', st)
  BY <1>2, <1>3, RowTraceIs DEF FullTrace
<1> DEFINE s == FactsOf(rows)   t == FactsOf(rows')
           kept == KeptFrom(rows, Everything)   held == KeptFrom(rows', Everything)
<1>13. \A i \in DOMAIN rows : (i \in kept <=> i \in held) /\ s[i] = t[i]
  BY <1>5 DEF KeptFrom, FactsOf
<1>14. \A j \in DOMAIN rows : st[j] = so[j]
  <2> DEFINE k == Len(rows)   m == Len(rows')
  <2>1. Trace(s, kept, k, so) /\ Trace(t, held, m, st)
    BY <1>11, <1>12 DEF Followed, FullTrace, RowTrace
  <2>2. k \in Nat /\ m \in Nat /\ k <= k /\ k <= m
    BY <1>5 DEF n
  <2>3. Alike(s, kept, t, held, k)
    BY <1>5, <1>13 DEF Alike
  <2>4. DOMAIN rows = 1 .. k
    BY <1>5
  <2> HIDE DEF k, m, s, t, kept, held
  <2>5. \A j \in 0 .. k : st[j] = so[j]
    BY ONLY <2>1, <2>2, <2>3, TracesAgree
  <2> QED
    BY <2>2, <2>4, <2>5
<1>15. Followed(rows', st)
  <2>1. ASSUME NEW i \in held PROVE (rows'[i].excl = "none" /\ rows'[i].mates = {}) \/ Derived(rows'[i], st[i], 0)
    <3>1. i = n \/ i \in DOMAIN rows
      BY <1>5 DEF KeptFrom
    <3>2. CASE i = n
      BY <1>4, <1>5, <3>2
    <3>3. CASE i \in DOMAIN rows
      <4>1. i \in kept /\ rows'[i] = rows[i] /\ st[i] = so[i]
        BY <1>5, <1>13, <1>14, <2>1, <3>3
      <4> QED
        BY <1>11, <4>1 DEF Followed
    <3> QED
      BY <3>1, <3>2, <3>3
  <2> QED
    BY <1>12, <2>1 DEF Followed
<1> QED
  BY <1>3, <1>8, <1>9, <1>10, <1>15 DEF Follows

LEMMA InitFollow == Init => FollowInv
<1> SUFFICES ASSUME Init PROVE Follows
  BY DEF FollowInv
<1>1. rows = <<>> /\ DOMAIN rows = {} /\ captured = 0
  BY EmptySeq DEF Init
<1>2. SteadyRows(rows)
  <2>1. ToSet(FactsOf(rows)) = {}
    BY <1>1 DEF ToSet, FactsOf
  <2> QED
    BY <2>1 DEF SteadyRows, Steady
<1>3. RowsOK(rows)
  <2>1. rows \in Seq(Row)
    BY <1>1, EmptySeq
  <2> QED
    BY <1>1, <2>1 DEF RowsOK, Ascending
<1>4. PICK st : FullTrace(rows, st)
  BY <1>2, <1>3, RowTraceIs DEF FullTrace
<1>5. Followed(rows, st)
  BY <1>1, <1>4 DEF Followed, KeptFrom
<1>6. Underived = {} /\ Marked(rows, DerivedTimes)
  BY <1>1 DEF Underived, Marked
<1> QED
  BY <1>1, <1>2, <1>5, <1>6 DEF Follows

LEMMA NextFollow == Inv /\ Inv' /\ CauseInv /\ FollowInv /\ [Next]_vars => FollowInv'
<1> SUFFICES ASSUME Inv, Inv', CauseInv, FollowInv, [Next]_vars, Orderly' PROVE Follows'
  BY DEF FollowInv
<1>1. CASE CaptureLocal \/ Pass \/ Crash \/ UNCHANGED vars
  <2>1. Orderly /\ rows' = rows /\ (captured' = captured \/ captured' = 0)
    BY <1>1 DEF CaptureLocal, Pass, Crash, vars, premises, bounds, Orderly
  <2> QED
    BY <2>1, RowsStayFollowed DEF FollowInv
<1>2. CASE RebuildFails
  <2>1. failures' = failures + 1 /\ failures \in Nat /\ failures' = 0
    BY <1>2 DEF RebuildFails, Orderly, Inv, StateOK
  <2> QED
    BY <2>1
<1>3. CASE CollectionEvent
  <2>1. provider = "cpa" /\ provider' = provider
    BY <1>3 DEF CollectionEvent, CollectionConnected, CollectionDisconnected, OpeningSample,
                CollectionDisconnectedWithSample, Disconnect, RebuildWith
  <2> QED
    BY <2>1 DEF Orderly
<1>4. ASSUME NEW w \in Windows[provider], Capture(w) PROVE Follows'
  <2>1. Orderly /\ timely'
    BY <1>4 DEF Capture, Orderly, bounds
  <2> QED
    BY <1>4, <2>1, CaptureFollows DEF FollowInv
<1>5. CASE (\E b \in BOOLEAN : RebuildCapture(b)) \/ Restart
  <2>1. Orderly
    BY <1>5 DEF RebuildCapture, Restart, Orderly, premises, bounds
  <2> QED
    BY <1>5, <2>1, OwnFollow DEF FollowInv
<1>6. CASE \/ RebuildCurrentInterval
           \/ \E i \in DOMAIN rows : Exclude(i)
           \/ \E i \in DOMAIN rows : Restore(i)
           \/ \E i, e \in DOMAIN rows : SetManualStart(i, e)
           \/ \E i \in DOMAIN rows : ClearManualStart(i)
  BY <1>6, CommandsFollow
<1> QED
  BY <1>1, <1>2, <1>3, <1>4, <1>5, <1>6 DEF Next

-----------------------------------------------------------------------------
(* The results about replays of a suffix *)

\* Rows that follow the derivations read as those of a replay of the account.
LEMMA DerivedReads ==
    ASSUME NEW r, NEW q, NEW d, Derived(r, d, 0), Derived(q, d, 0)
    PROVE  Reading(r) = Reading(q) /\ r.excl = q.excl /\ r.excl # "manual" /\ r.start = q.start
<1>1. CASE d.out
  <2>1. /\ r.excl = "automatic" /\ r.start = 0 /\ r.mates = {} /\ r.prior = 0
        /\ q.excl = "automatic" /\ q.start = 0 /\ q.mates = {} /\ q.prior = 0
    BY <1>1 DEF Derived
  <2>2. Causal(r) = {} /\ Causal(q) = {}
    BY <2>1 DEF Causal
  <2> QED
    BY <2>1, <2>2 DEF Reading
<1>2. CASE ~d.out
  <2>1. /\ r.excl = "none" /\ q.excl = "none" /\ r.start = q.start
        /\ Causal(r) = Causal(q) /\ r.prior = q.prior
    BY <1>2 DEF Derived
  <2> QED
    BY <2>1 DEF Reading
<1> QED
  BY <1>1, <1>2

LEMMA FollowedReads ==
    ASSUME StateOK, SteadyRows(rows), provider = "sub2api", Underived = {}, NEW st, Followed(rows, st)
    PROVE  LET full == RebuiltRows(rows, Everything, FullResult)
           IN /\ DOMAIN full = DOMAIN rows
              /\ \A i \in DOMAIN rows :
                    /\ Reading(full[i]) = Reading(rows[i])
                    /\ full[i].at = rows[i].at /\ full[i].manual = rows[i].manual
                    /\ full[i].excl = rows[i].excl /\ full[i].start = rows[i].start
<1> DEFINE full == RebuiltRows(rows, Everything, FullResult)   all == KeptFrom(rows, Everything)
<1>1. RowsOK(rows) /\ \A i \in DOMAIN rows : rows[i].at \in Nat
  BY RowTyped DEF StateOK
<1>2. EarlierIncluded(rows, Everything) = 0
  <2>1. {i \in DOMAIN rows : rows[i].at < Everything /\ Included(rows, i)} = {}
    BY <1>1 DEF Everything
  <2> QED
    BY <2>1 DEF EarlierIncluded, LastOf
<1>3. /\ DOMAIN full = DOMAIN rows
      /\ \A i \in DOMAIN rows :
            /\ full[i].at = rows[i].at /\ full[i].manual = rows[i].manual
            /\ i \notin all => full[i] = rows[i]
            /\ i \in all => Derived(full[i], st[i], 0)
  <2> DEFINE from == Everything   P == EarlierIncluded(rows, from)
             new == RebuiltRows(rows, from, Inferred(rows, from, intervals))
  <2>1. from \in Int /\ RowTrace(rows, from, st)
    BY DEF Followed, FullTrace, Everything
  <2>2. /\ DOMAIN new = DOMAIN rows
        /\ \A i \in DOMAIN rows :
              /\ new[i].at = rows[i].at /\ new[i].manual = rows[i].manual
              /\ i \notin KeptFrom(rows, from) => new[i] = rows[i]
              /\ i \in KeptFrom(rows, from) => Derived(new[i], st[i], P)
    <3>1. RowsOK(rows) /\ SteadyRows(rows) /\ provider = "sub2api"
      BY <1>1
    <3> HIDE DEF from
    <3> QED
      BY ONLY <2>1, <3>1, ReplayDerives
  <2>3. new = full /\ P = 0 /\ KeptFrom(rows, from) = all
    BY <1>2 DEF FullResult
  <2> HIDE DEF new, full, P, from, all
  <2> QED
    BY <2>2, <2>3
<1> HIDE DEF full
<1>4. ASSUME NEW i \in all PROVE Derived(rows[i], st[i], 0)
  <2>1. ~(rows[i].excl = "none" /\ rows[i].mates = {})
    BY DEF Underived, KeptFrom
  <2> QED
    BY <2>1 DEF Followed
<1>5. ASSUME NEW i \in DOMAIN rows
      PROVE  Reading(full[i]) = Reading(rows[i]) /\ full[i].excl = rows[i].excl /\ full[i].start = rows[i].start
  <2>1. CASE i \in all
    BY <1>3, <1>4, <2>1, DerivedReads
  <2>2. CASE i \notin all
    BY <1>3, <2>2
  <2> QED
    BY <2>1, <2>2
<1> QED
  BY <1>3, <1>5 DEF full

\* Whatever captures, commands and restarts came before, the derived rows of a
\* Sub2API account are those of a replay of the whole account: no anchor of
\* _replay_anchor, of a command or of a start-up is too late for a later row.
THEOREM SuffixReplaySuffices == Spec => []SuffixReplayIsFullReplay
<1>1. Inv /\ FollowInv => SuffixReplayIsFullReplay
  <2> SUFFICES ASSUME Inv, FollowInv, provider = "sub2api", failures = 0, Settled, timely, anchored
               PROVE  Readings(rows) = Readings(RebuiltRows(rows, Everything, FullResult))
    BY DEF SuffixReplayIsFullReplay, RowsAreAFullReplay
  <2>1. Follows /\ StateOK /\ Underived = {}
    BY DEF FollowInv, Orderly, Inv, Settled
  <2>2. PICK st : Followed(rows, st)
    BY <2>1 DEF Follows
  <2> DEFINE full == RebuiltRows(rows, Everything, FullResult)
  <2>3. DOMAIN full = DOMAIN rows /\ \A i \in DOMAIN rows : Reading(full[i]) = Reading(rows[i])
    BY <2>1, <2>2, FollowedReads DEF Follows
  <2> HIDE DEF full
  <2>4. Readings(rows) = Readings(full)
    BY <2>3 DEF Readings
  <2> QED
    BY <2>4 DEF full
<1> QED
  BY <1>1, Invariance, InitCause, NextCause, InitFollow, NextFollow, PTL DEF Spec

\* An automatic exclusion takes no row that an administrator marked.
LEMMA MarkedIsKept ==
    ASSUME NEW d, NEW o, Online(d, o).out
    PROVE  o.manual = 0
BY DEF Online, Begins

\* Later captures, exclusions and other intervals do not take a row of a Sub2API
\* account out of its manual interval, whose start is never excluded as a
\* transient anomaly.
THEOREM ManualIntervalsStayWhole == Spec => [](provider = "sub2api" => ManualIntervalsAreWhole)
<1>1. ASSUME Inv, FollowInv, provider = "sub2api", Regular, anchored
      PROVE  /\ WholeIntervals
             /\ \A i \in DOMAIN rows : ~(rows[i].manual # 0 /\ rows[i].excl = "automatic")
  <2>1. Follows /\ StateOK /\ RowsOK(rows) /\ SteadyRows(rows) /\ Underived = {}
    BY <1>1 DEF FollowInv, Orderly, Inv, Settled, Regular, Follows, StateOK
  <2>2. PICK st : Followed(rows, st)
    BY <2>1 DEF Follows
  <2> DEFINE history == ToReplay(rows, Everything)   cpa == provider = "cpa"
             full == RebuiltRows(rows, Everything, InferSegments(history, history, cpa, intervals))
  <2>3. full = RebuiltRows(rows, Everything, FullResult)
    BY DEF FullResult, Inferred
  <2>4. \A i \in DOMAIN rows : rows[i].at > 0
    BY <2>1, FactsOfIs DEF SteadyRows, Steady
  <2>5. Whole(full)
    <3>1. cpa \in BOOLEAN
      OBVIOUS
    <3> HIDE DEF cpa
    <3>2. Whole(RebuiltRows(rows, Everything, InferSegments(ToReplay(rows, Everything), history, cpa, intervals)))
      BY <2>1, <2>4, <3>1, WholeAfterFullReplay
    <3> QED
      BY <3>2
  <2>6. /\ DOMAIN full = DOMAIN rows
        /\ \A i \in DOMAIN rows :
              /\ full[i].at = rows[i].at /\ full[i].manual = rows[i].manual
              /\ full[i].excl = rows[i].excl /\ full[i].start = rows[i].start
    BY <1>1, <2>1, <2>2, <2>3, FollowedReads
  <2> HIDE DEF full
  <2>7. WholeIntervals
    BY <2>5, <2>6 DEF Whole, WholeIntervals, IncludedRows, InsideInterval, Included
  <2>8. ASSUME NEW i \in DOMAIN rows, rows[i].manual # 0, rows[i].excl = "automatic" PROVE FALSE
    <3> DEFINE s == FactsOf(rows)   all == KeptFrom(rows, Everything)
    <3>1. /\ i \in all /\ i \in 1 .. Len(rows) /\ s[i].manual = rows[i].manual
      BY <2>1, <2>8, KeptIs, FactsOfIs
    <3>2. Derived(rows[i], st[i], 0)
      BY <2>2, <2>8, <3>1 DEF Followed
    <3>3. st[i] = Online(st[i - 1], s[i])
      BY <2>2, <3>1 DEF Followed, FullTrace, RowTrace, Trace
    <3>4. st[i].out
      BY <2>8, <3>2 DEF Derived
    <3>5. s[i].manual = 0
      <4> DEFINE o == s[i]   d == st[i - 1]
      <4>1. Online(d, o).out
        BY <3>3, <3>4
      <4> HIDE DEF o, d
      <4>2. o.manual = 0
        BY <4>1, MarkedIsKept
      <4> QED
        BY <4>2 DEF o
    <3> QED
      BY <2>8, <3>1, <3>5
  <2> QED
    BY <2>7, <2>8
<1>2. Inv /\ FollowInv => (provider = "sub2api" => ManualIntervalsAreWhole)
  BY <1>1 DEF ManualIntervalsAreWhole, Regular
<1> QED
  BY <1>2, Invariance, InitCause, NextCause, InitFollow, NextFollow, PTL DEF Spec

=============================================================================
