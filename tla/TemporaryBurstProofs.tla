------------------------- MODULE TemporaryBurstProofs -------------------------
(***************************************************************************)
(* The burst mode's properties, proved for all accounts, people, shares,   *)
(* windows and bounds.                                                     *)
(*                                                                         *)
(* Settling is a loop over the cycles that wait, and a start is one over   *)
(* the accounts.  The invariant is therefore stated of rows (Sound), the   *)
(* state of the loop, and the folds are shown to keep whatever each of     *)
(* their steps keeps (ReconcileKeeps, AllReconciledKeeps, AllOpenedKeeps). *)
(***************************************************************************)
EXTENDS TemporaryBurst, FoldTheorems, SequenceTheorems, TLAPS

-----------------------------------------------------------------------------
(* The inductive invariant *)

MemberMap == UNION {[P -> Member] : P \in SUBSET Person}
CreditMap == UNION {[P -> Int] : P \in SUBSET Person}
Edit == [person : Person, user : User, after : Int]

SessionRow == [url : Url, expires : Times, ended : BOOLEAN, terminated : BOOLEAN,
               carryover : BOOLEAN]
CycleRow == [session : Nat, account : Account, resets : Times, burst : BOOLEAN,
             members : MemberMap, edits : Seq(Edit),
             settled : {"no", "plain", "cancelled", "carried"},
             credits : CreditMap \cup {NoCredits}, into : Nat, trimmed : BOOLEAN]
RowSet == [sessions : Seq(SessionRow), cycles : Seq(CycleRow)]

Evidence == UNION {[K -> Nat] : K \in SUBSET (Person \X User)}

Typed ==
    /\ now \in Nat /\ connection \in Url
    /\ user \in [Person -> User] /\ pooled \subseteq Person
    /\ seen \in [Account -> [Times -> Reading \cup {NoReading}]]
    /\ Rows \in RowSet
    /\ withdrawn \subseteq Account

\* The fields of a cycle that go together.
Shaped(st) ==
    \A i \in DOMAIN st.cycles :
        LET c == st.cycles[i]
        IN /\ c.session \in DOMAIN st.sessions
           /\ DOMAIN c.members # {}
           /\ c.settled = "carried" => c.into > c.resets /\ c.credits # NoCredits
           /\ c.settled # "carried" => c.into = 0 /\ c.credits = NoCredits

\* A session goes through the windows of an account one after the other: all its
\* cycles but the last are settled, and no window has two.
InTurn(cs) ==
    \A i, j \in DOMAIN cs :
        i # j /\ cs[i].session = cs[j].session /\ cs[i].account = cs[j].account =>
            /\ cs[i].resets # cs[j].resets
            /\ cs[i].resets < cs[j].resets => cs[i].settled # "no"

\* A session that has not ended is the last, and all it has are cycles of the
\* round that wait; cycles of a round that wait are the last session's.
Rounds(st) ==
    /\ \A k \in DOMAIN st.sessions : ~st.sessions[k].ended =>
        /\ k = Len(st.sessions)
        /\ ~st.sessions[k].terminated
        /\ \A i \in DOMAIN st.cycles : st.cycles[i].session = k =>
              st.cycles[i].burst /\ st.cycles[i].settled = "no"
        /\ \E i \in DOMAIN st.cycles : st.cycles[i].session = k
    /\ \A i \in DOMAIN st.cycles : st.cycles[i].burst /\ st.cycles[i].settled = "no" =>
        /\ st.cycles[i].session = Len(st.sessions)
        /\ ~st.sessions[Len(st.sessions)].terminated

Openings(c) == [p \in DOMAIN c.members |-> c.members[p].opening]
Balanced(cs) == \A i \in DOMAIN cs : ~cs[i].trimmed => SumFunction(Openings(cs[i])) = 0

CancelledIn(cs, a, r) ==
    \E j \in DOMAIN cs : cs[j].account = a /\ cs[j].resets = r /\ cs[j].settled = "cancelled"
CrowdedIn(cs, a, r) ==
    \E i, j \in DOMAIN cs : /\ i # j
                            /\ cs[i].account = a /\ cs[i].into = r
                            /\ cs[j].account = a /\ cs[j].into = r

\* Cycle i carries to the account's next window, and nothing interferes.
Carries(cs, W, i) ==
    /\ cs[i].settled = "carried"
    /\ cs[i].account \notin W
    /\ ~CancelledIn(cs, cs[i].account, cs[i].into)
    /\ ~CrowdedIn(cs, cs[i].account, cs[i].into)

\* The cycle has the credit.
Has(c, p, credit) == ~c.trimmed => p \in DOMAIN c.members /\ c.members[p].opening = credit

Arrived(cs, W) ==
    \A i \in DOMAIN cs : Carries(cs, W, i) =>
        \A p \in DOMAIN cs[i].credits : cs[i].credits[p] # 0 =>
            LET d == NewestFor(cs, cs[i].account, cs[i].into)
            IN d # 0 /\ Has(cs[d], p, cs[i].credits[p])

\* A cycle is settled, unless it is cancelled, when a later window is known.
Behind(cs, W, last) ==
    \A i \in DOMAIN cs :
        cs[i].settled \in {"plain", "carried"} /\ cs[i].account \notin W =>
            cs[i].resets < last[cs[i].account]

LastWindow == [a \in Account |-> IF Windows(a) = {} THEN 0 ELSE Latest(a)]

Sound(st, W, last) ==
    /\ Shaped(st)
    /\ InTurn(st.cycles)
    /\ Rounds(st)
    /\ Balanced(st.cycles)
    /\ Arrived(st.cycles, W)
    /\ Behind(st.cycles, W, last)

IInv == Typed /\ Sound(Rows, withdrawn, LastWindow)

-----------------------------------------------------------------------------
(* The folds *)

LEMMA Constants ==
    /\ IsFiniteSet(Account) /\ Account \subseteq Nat
    /\ IsFiniteSet(Person) /\ Person \subseteq Nat
    /\ Times \subseteq Nat /\ \A r \in Times : r >= 1 /\ r <= MaxTime + Window
    /\ MaxTime + Window \in Nat
    /\ \A a \in Account : a >= 1 /\ a <= Cardinality(Account)
    /\ Cardinality(Account) \in Nat
<1>1. Cardinality(Account) \in Nat /\ Cardinality(Person) \in Nat
    BY BurstAssumption, FS_CardinalityType
<1>2. MaxTime \in Nat /\ Window \in Nat
    BY BurstAssumption
<1> QED
    BY <1>1, <1>2, BurstAssumption DEF Times

\* Some cycle is the last of any that there are.
LEMMA LastExists ==
    ASSUME NEW cs \in Seq(CycleRow), NEW A \in SUBSET DOMAIN cs, A # {}
    PROVE  LastOf(cs, A) \in A
<1> DEFINE Resets == {t \in Times : \E i \in A : cs[i].resets = t}
<1>1. \A i \in A : cs[i].resets \in Times
  <2>1. \A i \in A : cs[i] \in CycleRow
    OBVIOUS
  <2> QED
    BY <2>1 DEF CycleRow
<1>2. Resets # {} /\ Resets \subseteq 0 .. (MaxTime + Window)
  <2>1. Resets # {}
    BY <1>1
  <2>2. \A t \in Times : t \in 0 .. (MaxTime + Window)
    BY Constants
  <2> QED
    BY <2>1, <2>2
<1>3. PICK t \in Resets : \A s \in Resets : s <= t
  <2>1. MaxTime + Window \in Nat
    BY Constants
  <2> HIDE DEF Resets
  <2> QED
    BY <1>2, <2>1, GreatestNumber
<1> DEFINE B == {i \in A : cs[i].resets = t}
<1>4. B # {} /\ B \subseteq 0 .. Len(cs) /\ Len(cs) \in Nat
    BY <1>3
<1>5. PICK i \in B : \A j \in B : j <= i
  <2> HIDE DEF B
  <2> QED
    BY <1>4, GreatestNumber
<1>6. ASSUME NEW j \in A
      PROVE  cs[j].resets < cs[i].resets \/ (cs[j].resets = cs[i].resets /\ j <= i)
  <2>1. cs[j].resets \in Resets /\ cs[j].resets \in Nat /\ cs[i].resets = t /\ t \in Nat
    BY <1>1, <1>3, <1>5, Constants
  <2>2. cs[j].resets <= t
    BY <1>3, <2>1
  <2>3. CASE cs[j].resets = t
    BY <1>5, <2>1, <2>3
  <2>4. CASE cs[j].resets # t
    <3> DEFINE s == cs[j].resets
    <3> HIDE DEF s, B, Resets
    <3>1. s < t
        BY <2>1, <2>2, <2>4 DEF s
    <3>2. cs[i].resets = t /\ cs[j].resets = s
        BY <2>1 DEF s
    <3> QED
        BY <3>1, <3>2
  <2> QED
    BY <2>3, <2>4
<1>7. i \in A
    BY <1>5
<1> QED
    BY <1>6, <1>7 DEF LastOf

\* Settling keeps what the settlement of one cycle keeps, if it leaves the others
\* that wait alone.
LEMMA ReconcileKeeps ==
    ASSUME NEW st \in RowSet, NEW a, NEW readings, NEW r, NEW K, st \in K,
           \A x \in K : \A i \in Pending(st.cycles, a, r) :
              i \in DOMAIN x.cycles /\ x.cycles[i] = st.cycles[i] =>
                LET y == SettleCycle(x, i, readings, r)
                IN /\ y \in K
                   /\ DOMAIN x.cycles \subseteq DOMAIN y.cycles
                   /\ \A j \in DOMAIN x.cycles \ {i} : y.cycles[j] = x.cycles[j]
    PROVE  Reconcile(st, a, readings, r) \in K
<1> DEFINE S == Pending(st.cycles, a, r)
           Op(i, x) == SettleCycle(x, i, readings, r)
           Choice(A) == LastOf(st.cycles, A)
           Folds(g) == g = [A \in SUBSET S |-> IF A = {} THEN st
                                               ELSE Op(Choice(A), g[A \ {Choice(A)}])]
           fold == CHOOSE g : Folds(g)
           c == [A \in (SUBSET S) \ {{}} |-> Choice(A)]
           F == [ix \in S \X K |-> IF Op(ix[1], ix[2]) \in K THEN Op(ix[1], ix[2]) ELSE st]
           Waits(x, A) == \A j \in S \ A : j \in DOMAIN x.cycles /\ x.cycles[j] = st.cycles[j]
           Good(g) == {A \in SUBSET S : g[A] \in K /\ Waits(g[A], A)}
<1>1. st.cycles \in Seq(CycleRow) /\ S \subseteq DOMAIN st.cycles /\ S \subseteq 1 .. Len(st.cycles)
      /\ Len(st.cycles) \in Nat
    BY DEF RowSet, Pending
<1>2. IsFiniteSet(S)
    BY <1>1, FS_Interval, FS_Subset
<1>3. ASSUME NEW A \in (SUBSET S) \ {{}}
      PROVE  Choice(A) \in A /\ Choice(A) \in S /\ c[A] = Choice(A) /\ A \ {Choice(A)} \in SUBSET S
    BY <1>1, LastExists
<1>4. c \in LastChoices(S)
    BY <1>3 DEF LastChoices
<1>5. F \in [S \X K -> K]
    OBVIOUS
<1>6. Reconcile(st, a, readings, r) = fold[S]
    BY DEF Reconcile, MapThenFoldSet
<1>7. ASSUME NEW x \in K, NEW i \in S, i \in DOMAIN x.cycles, x.cycles[i] = st.cycles[i]
      PROVE  /\ Op(i, x) \in K /\ DOMAIN x.cycles \subseteq DOMAIN Op(i, x).cycles
             /\ \A j \in DOMAIN x.cycles \ {i} : Op(i, x).cycles[j] = x.cycles[j]
    BY <1>7
<1> HIDE DEF Op, Choice, S
<1>8. ASSUME NEW g, g[{}] = st, NEW A \in (SUBSET S) \ {{}}, A \ {c[A]} \in Good(g),
             g[A] = Op(Choice(A), g[A \ {Choice(A)}])
      PROVE  A \in Good(g)
  <2> DEFINE i == Choice(A)
             x == g[A \ {i}]
  <2>1. i \in A /\ i \in S /\ x \in K /\ Waits(x, A \ {i})
    BY <1>3, <1>8
  <2>2. i \in DOMAIN x.cycles /\ x.cycles[i] = st.cycles[i]
    BY <2>1
  <2> HIDE DEF x, i
  <2>3. /\ Op(i, x) \in K /\ DOMAIN x.cycles \subseteq DOMAIN Op(i, x).cycles
        /\ \A j \in DOMAIN x.cycles \ {i} : Op(i, x).cycles[j] = x.cycles[j]
    BY <1>7, <2>1, <2>2
  <2>4. Waits(Op(i, x), A)
    BY <2>1, <2>3
  <2> QED
    BY <1>8, <2>3, <2>4 DEF i, x
<1>9. ASSUME NEW g, g[{}] = st PROVE {} \in Good(g)
  <2>1. Waits(st, {})
    BY <1>1
  <2> QED
    BY <2>1, <1>9
<1>10. \E g : Folds(g)
  <2>1. PICK g \in [SUBSET S -> K] : IsFold(g, S, c, F, st)
    <3> HIDE DEF c, F
    <3> QED
        BY <1>2, <1>4, <1>5, FoldExists
  <2>2. ASSUME NEW A \in (SUBSET S) \ {{}}, A \ {c[A]} \in Good(g)
        PROVE  g[A] = Op(Choice(A), g[A \ {Choice(A)}])
    <3> DEFINE i == Choice(A)
               x == g[A \ {i}]
    <3>1. i \in A /\ i \in S /\ x \in K /\ Waits(x, A \ {i}) /\ c[A] = i
        BY <1>3, <2>2
    <3>2. g[A] = F[<<i, x>>]
        BY <2>1, <3>1 DEF IsFold
    <3>3. i \in DOMAIN x.cycles /\ x.cycles[i] = st.cycles[i]
        BY <3>1
    <3> HIDE DEF x, i
    <3>4. Op(i, x) \in K
        BY <1>7, <3>1, <3>3
    <3>5. F[<<i, x>>] = Op(i, x)
        BY <3>1, <3>4
    <3> QED
        BY <3>2, <3>5 DEF i, x
  <2>3. g[{}] = st
    BY <2>1 DEF IsFold
  <2>4. \A A \in SUBSET S : A \in Good(g)
    <3>1. {} \in Good(g)
        BY <1>9, <2>3
    <3>2. ASSUME NEW A \in (SUBSET S) \ {{}}, A \ {c[A]} \in Good(g) PROVE A \in Good(g)
      <4>1. g[A] = Op(Choice(A), g[A \ {Choice(A)}])
        BY <2>2, <3>2
      <4> HIDE DEF Good
      <4> QED
        BY <1>8, <2>3, <3>2, <4>1
    <3> HIDE DEF Good, c
    <3> QED
        BY <1>2, <1>4, <3>1, <3>2, FoldStays
  <2>5. ASSUME NEW A \in SUBSET S
        PROVE  g[A] = IF A = {} THEN st ELSE Op(Choice(A), g[A \ {Choice(A)}])
    <3>1. CASE A = {}
        BY <2>3, <3>1
    <3>2. CASE A # {}
        BY <1>3, <2>2, <2>4, <3>2
    <3> QED
        BY <3>1, <3>2
  <2>6. Folds(g)
    BY <2>1, <2>5
  <2> QED
    BY <2>6
<1>11. Folds(fold)
    BY <1>10
<1>12. \A A \in SUBSET S : fold[A] = IF A = {} THEN st ELSE Op(Choice(A), fold[A \ {Choice(A)}])
    BY <1>11
<1> HIDE DEF fold
<1>13. \A A \in SUBSET S : A \in Good(fold)
  <2>1. fold[{}] = st
    BY <1>12
  <2>2. {} \in Good(fold)
    BY <1>9, <2>1
  <2>3. ASSUME NEW A \in (SUBSET S) \ {{}}, A \ {c[A]} \in Good(fold) PROVE A \in Good(fold)
    <3>1. fold[A] = Op(Choice(A), fold[A \ {Choice(A)}])
        BY <1>12, <2>3
    <3> HIDE DEF Good
    <3> QED
        BY <1>8, <2>1, <2>3, <3>1
  <2> HIDE DEF Good, c
  <2> QED
    BY <1>2, <1>4, <2>2, <2>3, FoldStays
<1>14. fold[S] \in K
    BY <1>13
<1> QED
    BY <1>6, <1>14

AllReconciled ==
    FoldLeft(LAMBDA rows, a : Reconcile(rows, a, seen[a], Latest(a)), Rows, Accounts)

AllOpened(cs, k) == FoldLeft(LAMBDA x, a : OpenCycle(x, a, k), cs, Accounts)

\* The order of the accounts.
LEMMA AccountOrder ==
    /\ DOMAIN Accounts = Account /\ \A a \in Account : Accounts[a] = a
    /\ \A A \in (SUBSET Account) \ {{}} : Max(A) \in A /\ Max(A) \in Account
    /\ [A \in (SUBSET Account) \ {{}} |-> Max(A)] \in LastChoices(Account)
<1>1. ASSUME NEW A \in (SUBSET Account) \ {{}} PROVE Max(A) \in A
  <2>1. A \subseteq 0 .. Cardinality(Account) /\ Cardinality(Account) \in Nat
    BY Constants
  <2>2. PICK x \in A : \A y \in A : y <= x
    BY <2>1, GreatestNumber
  <2>3. \A y \in A : x >= y
    BY <2>1, <2>2
  <2> QED
    BY <2>3 DEF Max
<1> QED
    BY <1>1 DEF Accounts, LastChoices

LEMMA AllReconciledKeeps ==
    ASSUME NEW K, Rows \in K,
           \A x \in K : \A a \in Account : Reconcile(x, a, seen[a], Latest(a)) \in K
    PROVE  AllReconciled \in K
<1> DEFINE Op(a, x) == Reconcile(x, a, seen[a], Latest(a))
           Folds(g) == g = [A \in SUBSET Account |->
                              IF A = {} THEN Rows ELSE Op(Accounts[Max(A)], g[A \ {Max(A)}])]
           fold == CHOOSE g : Folds(g)
           c == [A \in (SUBSET Account) \ {{}} |-> Max(A)]
           F == [ax \in Account \X K |-> Op(ax[1], ax[2])]
           Good == {A \in SUBSET Account : fold[A] \in K}
<1>1. \A A \in (SUBSET Account) \ {{}} :
          Max(A) \in Account /\ Accounts[Max(A)] = Max(A) /\ A \ {Max(A)} \in SUBSET Account
          /\ c[A] = Max(A)
    BY AccountOrder
<1>2. IsFiniteSet(Account) /\ c \in LastChoices(Account)
    BY AccountOrder, Constants
<1>3. F \in [Account \X K -> K]
    OBVIOUS
<1>4. \A x \in K : \A a \in Account : Op(a, x) \in K
    OBVIOUS
<1>5. AllReconciled = fold[Account]
    BY AccountOrder DEF AllReconciled, FoldLeft, MapThenFoldSet
<1> HIDE DEF Op
<1>6. \E g : Folds(g)
  <2>1. PICK g \in [SUBSET Account -> K] : IsFold(g, Account, c, F, Rows)
    <3> HIDE DEF c, F
    <3> QED
        BY <1>2, <1>3, FoldExists
  <2>2. ASSUME NEW A \in SUBSET Account
        PROVE  g[A] = IF A = {} THEN Rows ELSE Op(Accounts[Max(A)], g[A \ {Max(A)}])
    <3>1. CASE A = {}
        BY <2>1, <3>1 DEF IsFold
    <3>2. CASE A # {}
      <4>1. g[A] = F[<<Max(A), g[A \ {Max(A)}]>>]
        BY <1>1, <2>1, <3>2 DEF IsFold
      <4>2. Max(A) \in Account /\ g[A \ {Max(A)}] \in K
        BY <1>1, <2>1, <3>2
      <4> QED
        BY <1>1, <3>2, <4>1, <4>2
    <3> QED
        BY <3>1, <3>2
  <2>3. Folds(g)
    BY <2>1, <2>2
  <2> QED
    BY <2>3
<1>7. Folds(fold)
    BY <1>6
<1>8. \A A \in SUBSET Account :
          fold[A] = IF A = {} THEN Rows ELSE Op(Accounts[Max(A)], fold[A \ {Max(A)}])
    BY <1>7
<1> HIDE DEF fold
<1>9. \A A \in SUBSET Account : A \in Good
  <2>1. {} \in Good
    BY <1>8
  <2>2. ASSUME NEW A \in (SUBSET Account) \ {{}}, A \ {c[A]} \in Good PROVE A \in Good
    <3>1. fold[A] = Op(Max(A), fold[A \ {Max(A)}]) /\ Max(A) \in Account
        BY <1>1, <1>8, <2>2
    <3>2. fold[A \ {Max(A)}] \in K
        BY <1>1, <2>2
    <3> QED
        BY <1>4, <3>1, <3>2
  <2> HIDE DEF Good, c
  <2> QED
    BY <1>2, <2>1, <2>2, FoldStays
<1> QED
    BY <1>5, <1>9

\* K[A] is for the rows after the accounts of A, from the least on.
LEMMA AllOpenedKeeps ==
    ASSUME NEW cs, NEW k, NEW V, NEW K \in [SUBSET Account -> SUBSET V], cs \in K[{}],
           \A A \in SUBSET Account : \A a \in Account \ A : \A x \in K[A] :
              OpenCycle(x, a, k) \in K[A \cup {a}]
    PROVE  AllOpened(cs, k) \in K[Account]
<1> DEFINE Op(a, x) == OpenCycle(x, a, k)
           Folds(g) == g = [A \in SUBSET Account |->
                              IF A = {} THEN cs ELSE Op(Accounts[Max(A)], g[A \ {Max(A)}])]
           fold == CHOOSE g : Folds(g)
           c == [A \in (SUBSET Account) \ {{}} |-> Max(A)]
           F == [ax \in Account \X V |-> IF Op(ax[1], ax[2]) \in V THEN Op(ax[1], ax[2]) ELSE cs]
           Good(g) == {A \in SUBSET Account : g[A] \in K[A]}
<1>1. \A A \in (SUBSET Account) \ {{}} :
          /\ Max(A) \in A /\ Max(A) \in Account /\ Accounts[Max(A)] = Max(A) /\ c[A] = Max(A)
          /\ A \ {Max(A)} \in SUBSET Account /\ (A \ {Max(A)}) \cup {Max(A)} = A
    BY AccountOrder
<1>2. IsFiniteSet(Account) /\ c \in LastChoices(Account)
    BY AccountOrder, Constants
<1>3. cs \in V /\ {} \in SUBSET Account /\ Account \in SUBSET Account
    OBVIOUS
<1>4. F \in [Account \X V -> V]
    BY <1>3
<1>5. \A A \in SUBSET Account : \A a \in Account \ A : \A x \in K[A] : Op(a, x) \in K[A \cup {a}]
    OBVIOUS
<1>6. AllOpened(cs, k) = fold[Account]
    BY AccountOrder DEF AllOpened, FoldLeft, MapThenFoldSet
<1> HIDE DEF Op
<1>7. ASSUME NEW A \in (SUBSET Account) \ {{}}, NEW g, A \ {c[A]} \in Good(g)
      PROVE  Op(Max(A), g[A \ {Max(A)}]) \in K[A]
  <2> DEFINE a == Max(A)
             B == A \ {a}
  <2>1. B \in SUBSET Account /\ a \in Account \ B /\ g[B] \in K[B] /\ B \cup {a} = A
    BY <1>1, <1>7
  <2> HIDE DEF a, B
  <2>2. Op(a, g[B]) \in K[A]
    BY <1>5, <2>1
  <2> QED
    BY <2>2 DEF a, B
<1>8. \E g : Folds(g)
  <2>1. PICK g \in [SUBSET Account -> V] : IsFold(g, Account, c, F, cs)
    <3> HIDE DEF c, F
    <3> QED
        BY <1>2, <1>3, <1>4, FoldExists
  <2>2. ASSUME NEW A \in (SUBSET Account) \ {{}}, A \ {c[A]} \in Good(g)
        PROVE  g[A] = Op(Max(A), g[A \ {Max(A)}]) /\ g[A] \in K[A]
    <3>1. g[A] = F[<<Max(A), g[A \ {Max(A)}]>>]
        BY <1>1, <2>1, <2>2 DEF IsFold
    <3>2. Max(A) \in Account /\ g[A \ {Max(A)}] \in V
        BY <1>1, <2>1, <2>2
    <3>3. Op(Max(A), g[A \ {Max(A)}]) \in K[A]
        BY <1>7, <2>2
    <3>4. Op(Max(A), g[A \ {Max(A)}]) \in V
        BY <2>2, <3>3
    <3> QED
        BY <3>1, <3>2, <3>3, <3>4
  <2>3. g[{}] = cs
    BY <2>1, <1>3 DEF IsFold
  <2>4. \A A \in SUBSET Account : A \in Good(g)
    <3>1. {} \in Good(g)
        BY <2>3
    <3>2. ASSUME NEW A \in (SUBSET Account) \ {{}}, A \ {c[A]} \in Good(g) PROVE A \in Good(g)
        BY <2>2, <3>2
    <3> DEFINE G == Good(g)
    <3>3. {} \in G /\ \A A \in (SUBSET Account) \ {{}} : A \ {c[A]} \in G => A \in G
        BY <3>1, <3>2
    <3> HIDE DEF G, c
    <3>4. \A A \in SUBSET Account : A \in G
        BY ONLY <1>2, <3>3, FoldStays, ZenonT(90)
    <3> QED
        BY <3>4 DEF G
  <2>5. ASSUME NEW A \in SUBSET Account
        PROVE  g[A] = IF A = {} THEN cs ELSE Op(Accounts[Max(A)], g[A \ {Max(A)}])
    <3>1. CASE A = {}
        BY <2>3, <3>1
    <3>2. CASE A # {}
      <4>1. A \ {c[A]} \in Good(g)
        BY <1>1, <2>4, <3>2
      <4> QED
        BY <1>1, <2>2, <3>2, <4>1
    <3> QED
        BY <3>1, <3>2
  <2>6. Folds(g)
    BY <2>1, <2>5
  <2> QED
    BY <2>6
<1>9. Folds(fold)
    BY <1>8
<1>10. \A A \in SUBSET Account :
          fold[A] = IF A = {} THEN cs ELSE Op(Accounts[Max(A)], fold[A \ {Max(A)}])
    BY <1>9
<1> HIDE DEF fold
<1>11. \A A \in SUBSET Account : A \in Good(fold)
  <2>1. {} \in Good(fold)
    BY <1>10
  <2>2. ASSUME NEW A \in (SUBSET Account) \ {{}}, A \ {c[A]} \in Good(fold) PROVE A \in Good(fold)
    <3>1. fold[A] = Op(Max(A), fold[A \ {Max(A)}])
        BY <1>1, <1>10, <2>2
    <3>2. Op(Max(A), fold[A \ {Max(A)}]) \in K[A]
        BY <1>7, <2>2
    <3> QED
        BY <3>1, <3>2
  <2> DEFINE G == Good(fold)
  <2>3. {} \in G /\ \A A \in (SUBSET Account) \ {{}} : A \ {c[A]} \in G => A \in G
    BY <2>1, <2>2
  <2> HIDE DEF G, c
  <2>4. \A A \in SUBSET Account : A \in G
    BY <1>2, <2>3, FoldStays
  <2> QED
    BY <2>4 DEF G
<1> QED
    BY <1>6, <1>11

-----------------------------------------------------------------------------
(* What is lent and what is borrowed *)

LEMMA PeopleFinite ==
    ASSUME NEW P \in SUBSET Person
    PROVE  IsFiniteSet(P) /\ P \subseteq Nat
BY Constants, FS_Subset

LEMMA LastPerson ==
    ASSUME NEW P \in SUBSET Person, P # {}
    PROVE  \E p \in P : \A q \in P : q <= p
<1>1. Cardinality(Person) \in Nat
    BY BurstAssumption, FS_CardinalityType
<1>2. P \subseteq 0 .. Cardinality(Person)
    BY <1>1, BurstAssumption
<1> QED
    BY <1>1, <1>2, GreatestNumber

LEMMA Multiplied == \A m, n \in Nat : m * n \in Nat
OBVIOUS

LEMMA Divided == \A m \in Nat : \A n \in Nat \ {0} : m \div n \in Nat
OBVIOUS

\* What is apportioned comes to the total.
LEMMA ApportionedInFull ==
    ASSUME NEW P \in SUBSET Person, NEW w \in [P -> Nat], NEW total \in Nat,
           total <= SumFunction(w)
    PROVE  /\ Apportion(total, w) \in [P -> Int]
           /\ SumFunctionOnSet(Apportion(total, w), P) = total
<1> DEFINE active == {p \in P : w[p] > 0}
           all == SumFunction(w)
           Part(p) == (total * w[p]) \div all
           parts == [q \in active |-> Part(q)]
           x == Apportion(total, w)
<1>1. DOMAIN w = P /\ IsFiniteSet(P) /\ all = SumFunctionOnSet(w, P)
    BY PeopleFinite DEF SumFunction
<1>2. x = [p \in P |-> IF total <= 0 \/ p \notin active THEN 0
                       ELSE IF \A q \in active : q <= p
                         THEN total - SumFunctionOnSet(parts, active \ {p})
                       ELSE Part(p)]
    BY <1>1 DEF Apportion
<1>3. all \in Nat /\ \A p \in P : w[p] <= all
    BY <1>1, SumOfNaturals
<1>4. CASE total = 0
  <2>1. x = [p \in P |-> 0]
    BY <1>2, <1>4
  <2>2. SumFunctionOnSet(x, P) = SumFunctionOnSet(x, {})
    <3> HIDE DEF x
    <3>1. \A p \in P : x[p] \in Int /\ x[p] = 0
        BY <2>1
    <3> QED
        BY <1>1, <3>1, SumOfPart
  <2>3. SumFunctionOnSet(x, {}) = 0
    BY SumEmpty
  <2> HIDE DEF x
  <2>4. x \in [P -> Int]
    BY <2>1
  <2>5. SumFunctionOnSet(x, P) = total
    BY <1>4, <2>2, <2>3
  <2> QED
    BY <2>4, <2>5 DEF x
<1>5. CASE total # 0
  <2>1. active # {}
    <3> SUFFICES ASSUME active = {} PROVE FALSE
        OBVIOUS
    <3>1. \A p \in P : w[p] \in Int /\ w[p] = 0
        OBVIOUS
    <3>2. SumFunctionOnSet(w, P) = SumFunctionOnSet(w, {})
        BY <1>1, <3>1, SumOfPart
    <3>3. all = 0
        BY <1>1, <3>2, SumEmpty
    <3> HIDE DEF all
    <3>4. total <= all
        BY DEF all
    <3> QED
        BY <1>5, <3>3, <3>4
  <2>2. PICK l \in active : \A q \in active : q <= l
    <3> HIDE DEF active
    <3>1. active \in SUBSET Person
        BY DEF active
    <3> QED
        BY <2>1, <3>1, LastPerson
  <2>3. all \in Nat \ {0}
    <3>1. w[l] <= all /\ w[l] > 0 /\ w[l] \in Nat
        BY <1>3, <2>2
    <3> HIDE DEF all
    <3> QED
        BY <1>3, <3>1
  <2>4. \A p \in active : Part(p) \in Nat
    <3> TAKE p \in active
    <3>1. w[p] \in Nat
        OBVIOUS
    <3>2. total * w[p] \in Nat
        BY <3>1, Multiplied
    <3> HIDE DEF all
    <3> QED
        BY <2>3, <3>2, Divided
  <2> HIDE DEF all, Part
  <2>5. active \in SUBSET P /\ IsFiniteSet(active) /\ IsFiniteSet(active \ {l})
        /\ active \ {l} \in SUBSET active
    BY <1>1, FS_Subset
  <2>6. \A p \in active : parts[p] = Part(p) /\ parts[p] \in Int
    BY <2>4
  <2> HIDE DEF parts
  <2>7. SumFunctionOnSet(parts, active \ {l}) \in Int
    BY <2>5, <2>6, SumTyped
  <2>8. x[l] = total - SumFunctionOnSet(parts, active \ {l})
    BY <1>2, <1>5, <2>2
  <2>9. ASSUME NEW p \in active \ {l} PROVE x[p] = parts[p]
    <3>1. ~(\A q \in active : q <= p)
      <4>1. l \in Nat /\ p \in Nat /\ p <= l
        BY <2>2, PeopleFinite
      <4>2. ~(l <= p)
        BY <4>1
      <4> QED
        BY <4>2
    <3>2. total \in Nat /\ ~(total <= 0)
        BY <1>5
    <3> QED
        BY <1>2, <2>6, <3>1, <3>2
  <2>10. \A p \in P \ active : x[p] = 0
    BY <1>2
  <2>11. x = [p \in P |-> x[p]]
    BY <1>2
  <2> HIDE DEF x, active
  <2>12. \A p \in P : x[p] \in Int
    <3>1. \A p \in active : x[p] \in Int
        BY <2>6, <2>7, <2>8, <2>9
    <3> QED
        BY <2>10, <3>1
  <2>13. SumFunctionOnSet(x, P) = SumFunctionOnSet(x, active)
    BY <1>1, <2>5, <2>10, <2>12, SumOfPart
  <2>14. SumFunctionOnSet(x, active) = x[l] + SumFunctionOnSet(x, active \ {l})
    <3>1. \A p \in active : x[p] \in Int
        BY <2>5, <2>12
    <3> QED
        BY <2>2, <2>5, <3>1, SumRemove
  <2>15. SumFunctionOnSet(x, active \ {l}) = SumFunctionOnSet(parts, active \ {l})
    <3>1. \A p \in active \ {l} : x[p] \in Int /\ x[p] = parts[p]
        BY <2>5, <2>9, <2>12
    <3> QED
        BY <2>5, <3>1, SumAgrees
  <2>16. SumFunctionOnSet(x, P) = total
    BY <2>7, <2>8, <2>13, <2>14, <2>15
  <2>17. x \in [P -> Int]
    BY <2>11, <2>12
  <2> QED
    BY <2>16, <2>17 DEF x
<1> QED
    BY <1>4, <1>5

\* Credits and debts cancel out.
LEMMA SettlementBalances ==
    ASSUME NEW P \in SUBSET Person, NEW rights \in [P -> Int], NEW used \in [P -> Int]
    PROVE  /\ Settlement(rights, used) \in [P -> Int]
           /\ SumFunctionOnSet(Settlement(rights, used), P) = 0
<1> DEFINE unused == [p \in P |-> AtLeastZero(rights[p] - used[p])]
           excess == [p \in P |-> AtLeastZero(used[p] - rights[p])]
           borrowed == LeastOf(SumFunction(unused), SumFunction(excess))
           credits == Apportion(borrowed, unused)
           debts == Apportion(borrowed, excess)
           x == Settlement(rights, used)
<1>1. x = [p \in P |-> credits[p] - debts[p]]
    BY DEF Settlement
<1>2. unused \in [P -> Nat] /\ excess \in [P -> Nat]
    BY DEF AtLeastZero
<1>3. IsFiniteSet(P)
    BY PeopleFinite
<1> HIDE DEF unused, excess
<1>4. SumFunction(unused) \in Nat /\ SumFunction(excess) \in Nat
  <2>1. SumFunctionOnSet(unused, P) \in Nat /\ SumFunctionOnSet(excess, P) \in Nat
    BY <1>2, <1>3, SumOfNaturals
  <2>2. DOMAIN unused = P /\ DOMAIN excess = P
    BY <1>2
  <2> QED
    BY <2>1, <2>2 DEF SumFunction
<1>5. borrowed \in Nat /\ borrowed <= SumFunction(unused) /\ borrowed <= SumFunction(excess)
    BY <1>4 DEF LeastOf
<1> HIDE DEF borrowed
<1>6. credits \in [P -> Int] /\ SumFunctionOnSet(credits, P) = borrowed
    BY <1>2, <1>5, ApportionedInFull
<1>7. debts \in [P -> Int] /\ SumFunctionOnSet(debts, P) = borrowed
    BY <1>2, <1>5, ApportionedInFull
<1> HIDE DEF credits, debts, x
<1>8. x \in [P -> Int]
    BY <1>1, <1>6, <1>7
<1>9. SumFunctionOnSet(x, P) = SumFunctionOnSet(credits, P) - SumFunctionOnSet(debts, P)
  <2>1. \A p \in P : credits[p] \in Int /\ debts[p] \in Int /\ x[p] = credits[p] - debts[p]
    BY <1>1, <1>6, <1>7
  <2> QED
    BY <1>3, <2>1, SumOfDifference
<1>10. SumFunctionOnSet(x, P) = 0
    BY <1>5, <1>6, <1>7, <1>9
<1> QED
    BY <1>8, <1>10 DEF x

\* Two sums over people that differ in zeros only.
LEMMA SameSum ==
    ASSUME NEW P \in SUBSET Person, NEW Q \in SUBSET Person, NEW f \in [P -> Int], NEW h \in [Q -> Int],
           \A p \in P \cap Q : f[p] = h[p],
           \A p \in P \ Q : f[p] = 0, \A p \in Q \ P : h[p] = 0
    PROVE  SumFunctionOnSet(f, P) = SumFunctionOnSet(h, Q)
<1>1. IsFiniteSet(P) /\ IsFiniteSet(Q) /\ IsFiniteSet(P \cap Q)
    BY PeopleFinite, FS_Subset
<1>2. P \cap Q \in SUBSET P /\ P \cap Q \in SUBSET Q /\ P \ (P \cap Q) = P \ Q /\ Q \ (P \cap Q) = Q \ P
    OBVIOUS
<1>3. SumFunctionOnSet(f, P) = SumFunctionOnSet(f, P \cap Q)
  <2>1. \A p \in P \ (P \cap Q) : f[p] = 0
    BY <1>2
  <2> QED
    BY <1>1, <1>2, <2>1, SumOfPart
<1>4. SumFunctionOnSet(h, Q) = SumFunctionOnSet(h, P \cap Q)
  <2>1. \A p \in Q \ (P \cap Q) : h[p] = 0
    BY <1>2
  <2> QED
    BY <1>1, <1>2, <2>1, SumOfPart
<1>5. SumFunctionOnSet(f, P \cap Q) = SumFunctionOnSet(h, P \cap Q)
  <2>1. \A p \in P \cap Q : f[p] \in Int /\ f[p] = h[p]
    OBVIOUS
  <2> QED
    BY <1>1, <2>1, SumAgrees
<1> QED
    BY <1>3, <1>4, <1>5

-----------------------------------------------------------------------------
(* Cycles, and what they come to *)

LEMMA CycleFields ==
    ASSUME NEW c \in CycleRow
    PROVE  /\ c.session \in Nat /\ c.account \in Account /\ c.resets \in Times /\ c.resets \in Nat
           /\ c.burst \in BOOLEAN /\ c.trimmed \in BOOLEAN /\ c.into \in Nat
           /\ c.edits \in Seq(Edit) /\ c.settled \in {"no", "plain", "cancelled", "carried"}
           /\ c.credits \in CreditMap \cup {NoCredits}
           /\ DOMAIN c.members \subseteq Person /\ c.members \in [DOMAIN c.members -> Member]
           /\ \A p \in DOMAIN c.members : c.members[p].user \in User /\ c.members[p].share \in Nat
                                          /\ c.members[p].opening \in Int
<1>1. c.members \in MemberMap /\ c.resets \in Times
    BY DEF CycleRow
<1>2. PICK P \in SUBSET Person : c.members \in [P -> Member]
    BY <1>1 DEF MemberMap
<1>3. DOMAIN c.members = P /\ \A p \in P : c.members[p] \in Member
    BY <1>2
<1>4. c.resets \in Nat
    BY <1>1, Constants
<1> QED
    BY <1>2, <1>3, <1>4 DEF CycleRow, Member

LEMMA AdjustmentTyped ==
    ASSUME NEW c \in CycleRow, NEW p \in DOMAIN c.members
    PROVE  Adjustment(c, p) \in Int
<1> DEFINE of == {k \in DOMAIN c.edits : /\ c.edits[k].person = p
                                         /\ c.edits[k].user = c.members[p].user}
<1>1. c.members[p].opening \in Int /\ c.edits \in Seq(Edit)
    BY CycleFields
<1>2. CASE of = {}
    BY <1>1, <1>2 DEF Adjustment
<1>3. CASE of # {}
  <2>1. of \subseteq 0 .. Len(c.edits) /\ Len(c.edits) \in Nat
    BY <1>1
  <2>2. \E k \in of : \A j \in of : j <= k
    <3> HIDE DEF of
    <3> QED
        BY <1>3, <2>1, GreatestNumber
  <2> DEFINE k == CHOOSE k \in of : \A j \in of : j <= k
  <2>3. k \in of
    BY <2>2
  <2>4. c.edits[k] \in Edit
    <3> HIDE DEF k
    <3> QED
        BY <1>1, <2>3
  <2>5. Adjustment(c, p) = c.edits[k].after
    BY <1>3 DEF Adjustment
  <2> QED
    BY <2>4, <2>5 DEF Edit
<1> QED
    BY <1>2, <1>3

LEMMA CreditsCancel ==
    ASSUME NEW c \in CycleRow, NEW used \in Evidence,
           \A p \in DOMAIN c.members : <<p, c.members[p].user>> \in DOMAIN used
    PROVE  /\ Credits(c, used) \in [DOMAIN c.members -> Int]
           /\ SumFunctionOnSet(Credits(c, used), DOMAIN c.members) = 0
<1> DEFINE P == DOMAIN c.members
           rights == [p \in P |-> c.members[p].share + Adjustment(c, p)]
           usage == [p \in P |-> used[<<p, c.members[p].user>>]]
<1>1. P \in SUBSET Person /\ \A p \in P : c.members[p].share \in Nat
    BY CycleFields
<1>2. rights \in [P -> Int]
    BY <1>1, AdjustmentTyped
<1>3. usage \in [P -> Int]
  <2>1. PICK E \in SUBSET (Person \X User) : used \in [E -> Nat]
    BY DEF Evidence
  <2> QED
    BY <2>1
<1>4. Credits(c, used) = Settlement(rights, usage)
    BY DEF Credits
<1> HIDE DEF rights, usage, P
<1>5. Settlement(rights, usage) \in [P -> Int] /\ SumFunctionOnSet(Settlement(rights, usage), P) = 0
    BY <1>1, <1>2, <1>3, SettlementBalances
<1> QED
    BY <1>4, <1>5 DEF P

LEMMA NewMembers ==
    ASSUME Typed, NEW P \in SUBSET Person, NEW credits, credits \in [P -> Int]
    PROVE  /\ Members(credits) \in MemberMap /\ DOMAIN Members(credits) = pooled
           /\ \A p \in pooled : Members(credits)[p].user = user[p]
           /\ \A p \in pooled \cap P : Members(credits)[p].opening = credits[p]
           /\ (\A p \in P : credits[p] # 0 => p \in pooled) =>
                SumFunction([p \in pooled |-> Members(credits)[p].opening])
                    = SumFunctionOnSet(credits, P)
<1> DEFINE m == Members(credits)
           openings == [p \in pooled |-> m[p].opening]
<1>1. m = [p \in pooled |-> [user |-> user[p], share |-> Share[p],
                             opening |-> IF p \in P THEN credits[p] ELSE 0]]
    BY DEF Members
<1>2. pooled \in SUBSET Person /\ \A p \in pooled : user[p] \in User /\ Share[p] \in Nat
    BY BurstAssumption DEF Typed
<1>3. m \in [pooled -> Member]
    BY <1>1, <1>2 DEF Member
<1>4. \A p \in pooled : /\ m[p].user = user[p]
                        /\ m[p].opening = (IF p \in P THEN credits[p] ELSE 0)
                        /\ m[p].opening \in Int
    BY <1>1
<1> HIDE DEF m
<1>5. ASSUME \A p \in P : credits[p] # 0 => p \in pooled
      PROVE  SumFunction(openings) = SumFunctionOnSet(credits, P)
  <2>1. openings \in [pooled -> Int]
    BY <1>4
  <2>2. /\ \A p \in pooled \cap P : openings[p] = credits[p]
        /\ \A p \in pooled \ P : openings[p] = 0
        /\ \A p \in P \ pooled : credits[p] = 0
    BY <1>4, <1>5
  <2>3. DOMAIN openings = pooled
    OBVIOUS
  <2> HIDE DEF openings
  <2>4. SumFunctionOnSet(openings, pooled) = SumFunctionOnSet(credits, P)
    BY <1>2, <2>1, <2>2, SameSum
  <2> QED
    BY <2>3, <2>4 DEF SumFunction
<1>6. m \in MemberMap
    BY <1>2, <1>3 DEF MemberMap
<1> QED
    BY <1>1, <1>4, <1>5, <1>6 DEF m

LEMMA FreshMembers ==
    ASSUME Typed
    PROVE  /\ Members(NoCredits) \in MemberMap /\ DOMAIN Members(NoCredits) = pooled
           /\ SumFunction([p \in pooled |-> Members(NoCredits)[p].opening]) = 0
<1>1. NoCredits \in [{} -> Int] /\ {} \in SUBSET Person
    BY DEF NoCredits
<1>2. SumFunctionOnSet(NoCredits, {}) = 0
    BY SumEmpty
<1> HIDE DEF NoCredits
<1> QED
    BY <1>1, <1>2, NewMembers

-----------------------------------------------------------------------------
(* What the settlement of one cycle writes *)

Carried(c, credits, r) == [c EXCEPT !.settled = "carried", !.credits = credits, !.into = r]
NextCycle(c, credits, r) == NewCycle(c.session, c.account, r, FALSE, Members(credits))

\* Both sides of each transfer are there, and they cancel out.
Transfer(c, credits) ==
    /\ credits \in [DOMAIN c.members -> Int]
    /\ SumFunctionOnSet(credits, DOMAIN c.members) = 0
    /\ \A p \in DOMAIN c.members : credits[p] # 0 => p \in pooled

Ended(st, c) == IF c.burst THEN [st.sessions EXCEPT ![c.session].ended = TRUE] ELSE st.sessions

\* Nothing is written, or the cycle is closed, or it carries and the next one opens.
SettlesAs(st, i, r, y) ==
    LET c == st.cycles[i]
    IN /\ y = [sessions |-> Ended(st, c), cycles |-> y.cycles]
       /\ \/ y.cycles = st.cycles
          \/ y.cycles = [st.cycles EXCEPT ![i] = Close(c, "plain")]
          \/ \E credits : Transfer(c, credits) /\
               LET closed == [st.cycles EXCEPT ![i] = Carried(c, credits, r)]
               IN \/ /\ y.cycles = closed
                     /\ \/ \A p \in DOMAIN credits : credits[p] = 0
                        \/ \E j \in DOMAIN closed :
                             /\ closed[j].session = c.session
                             /\ closed[j].account = c.account /\ closed[j].resets = r
                  \/ /\ y.cycles = Append(closed, NextCycle(c, credits, r))
                     /\ \E p \in DOMAIN c.members : credits[p] # 0

LEMMA SettleIs ==
    ASSUME Typed, NEW st \in RowSet, NEW i \in DOMAIN st.cycles,
           NEW readings \in [Times -> Reading \cup {NoReading}], NEW r
    PROVE  SettlesAs(st, i, r, SettleCycle(st, i, readings, r))
<1> DEFINE c == st.cycles[i]
           s == st.sessions[c.session]
           y == SettleCycle(st, i, readings, r)
           evidence == readings[c.resets]
           credits == Credits(c, evidence.used)
           closed == [st.cycles EXCEPT ![i] = Carried(c, credits, r)]
           Evident == /\ evidence # NoReading
                      /\ \A p \in DOMAIN c.members :
                            <<p, c.members[p].user>> \in DOMAIN evidence.used
           None == \A p \in DOMAIN credits : credits[p] = 0
           Twins == \E j \in DOMAIN closed : /\ closed[j].session = c.session
                                             /\ closed[j].account = c.account /\ closed[j].resets = r
<1>1. c \in CycleRow
    BY DEF RowSet
<1>2. y = [sessions |-> Ended(st, c),
           cycles |-> IF ~s.carryover THEN [st.cycles EXCEPT ![i] = Close(c, "plain")]
                      ELSE IF s.url # connection \/ ~Evident THEN st.cycles
                      ELSE IF SideMissing(c, credits) \/ TooLate(c, r) THEN st.cycles
                      ELSE IF None \/ Twins THEN closed
                      ELSE Append(closed, NextCycle(c, credits, r))]
    BY DEF SettleCycle, Ended, Carried, NextCycle
<1>3. ASSUME Evident, ~SideMissing(c, credits) PROVE Transfer(c, credits)
  <2>1. evidence \in Reading
    BY <1>1, <1>3, CycleFields
  <2>2. evidence.used \in Evidence
    BY <2>1 DEF Reading, Evidence
  <2>3. /\ credits \in [DOMAIN c.members -> Int]
        /\ SumFunctionOnSet(credits, DOMAIN c.members) = 0
    BY <1>1, <1>3, <2>2, CreditsCancel
  <2>4. \A p \in DOMAIN c.members : credits[p] # 0 => p \in pooled
    BY <1>3 DEF SideMissing
  <2> QED
    BY <2>3, <2>4 DEF Transfer
<1> HIDE DEF credits, c, y, evidence, s
<1>4. y = [sessions |-> Ended(st, c), cycles |-> y.cycles]
    BY <1>2
<1>5. \/ y.cycles = st.cycles
      \/ y.cycles = [st.cycles EXCEPT ![i] = Close(c, "plain")]
      \/ Evident /\ ~SideMissing(c, credits) /\ (None \/ Twins) /\ y.cycles = closed
      \/ Evident /\ ~SideMissing(c, credits) /\ ~None /\ y.cycles = Append(closed, NextCycle(c, credits, r))
    BY <1>2
<1>6. Transfer(c, credits) /\ ~None => \E p \in DOMAIN c.members : credits[p] # 0
    BY DEF Transfer
<1> HIDE DEF Evident, Twins, closed, None
<1>7. CASE y.cycles = st.cycles
    BY <1>4, <1>7 DEF SettlesAs, c, y
<1>8. CASE y.cycles = [st.cycles EXCEPT ![i] = Close(c, "plain")]
    BY <1>4, <1>8 DEF SettlesAs, c, y
<1>9. CASE Evident /\ ~SideMissing(c, credits) /\ (None \/ Twins) /\ y.cycles = closed
  <2>1. Transfer(c, credits) /\ y.cycles = closed /\ (None \/ Twins)
    BY <1>3, <1>9
  <2> QED
    BY <1>4, <2>1 DEF SettlesAs, c, y, closed, None, Twins
<1>10. CASE Evident /\ ~SideMissing(c, credits) /\ ~None
            /\ y.cycles = Append(closed, NextCycle(c, credits, r))
  <2>1. Transfer(c, credits) /\ y.cycles = Append(closed, NextCycle(c, credits, r))
        /\ \E p \in DOMAIN c.members : credits[p] # 0
    BY <1>3, <1>6, <1>10
  <2> QED
    BY <1>4, <2>1 DEF SettlesAs, c, y, closed
<1> QED
    BY <1>5, <1>7, <1>8, <1>9, <1>10

-----------------------------------------------------------------------------
(* Lists of cycles *)

LEMMA RowReplaced ==
    ASSUME NEW cs \in Seq(CycleRow), NEW i \in DOMAIN cs, NEW d \in CycleRow
    PROVE  LET cs2 == [cs EXCEPT ![i] = d]
           IN /\ cs2 \in Seq(CycleRow) /\ Len(cs2) = Len(cs) /\ DOMAIN cs2 = DOMAIN cs
              /\ cs2[i] = d /\ \A j \in DOMAIN cs \ {i} : cs2[j] = cs[j]
<1> DEFINE cs2 == [cs EXCEPT ![i] = d]
<1>1. cs2 \in Seq(CycleRow) /\ Len(cs2) = Len(cs)
    BY ExceptSeq
<1> QED
    BY <1>1

\* cs2 is cs with one more cycle.
Added(cs, cs2, d) ==
    /\ cs \in Seq(CycleRow) /\ cs2 \in Seq(CycleRow) /\ d \in CycleRow
    /\ Len(cs) \in Nat /\ Len(cs2) = Len(cs) + 1
    /\ DOMAIN cs = 1 .. Len(cs) /\ DOMAIN cs2 = 1 .. Len(cs) + 1
    /\ cs2[Len(cs) + 1] = d /\ \A j \in DOMAIN cs : j \in DOMAIN cs2 /\ cs2[j] = cs[j]

LEMMA RowAdded ==
    ASSUME NEW cs \in Seq(CycleRow), NEW d \in CycleRow
    PROVE  Added(cs, Append(cs, d), d)
BY AppendProperties DEF Added

\* Of those in the window, the newest.
InWindow(cs, a, r) == {i \in DOMAIN cs : cs[i].account = a /\ cs[i].resets = r}

NewestOf(S) == IF S = {} THEN 0 ELSE CHOOSE i \in S : \A j \in S : j <= i

LEMMA NewestBy == \A cs, a, r : NewestFor(cs, a, r) = NewestOf(InWindow(cs, a, r))
BY DEF NewestFor, InWindow, NewestOf

LEMMA NewestIs ==
    ASSUME NEW cs \in Seq(CycleRow), NEW a, NEW r
    PROVE  /\ InWindow(cs, a, r) = {} => NewestFor(cs, a, r) = 0
           /\ InWindow(cs, a, r) # {} => /\ NewestFor(cs, a, r) \in InWindow(cs, a, r)
                                         /\ \A j \in InWindow(cs, a, r) : j <= NewestFor(cs, a, r)
           /\ NewestFor(cs, a, r) # 0 => NewestFor(cs, a, r) \in InWindow(cs, a, r)
<1> DEFINE S == InWindow(cs, a, r)
<1>1. S \subseteq 0 .. Len(cs) /\ Len(cs) \in Nat
    BY DEF InWindow
<1>2. NewestFor(cs, a, r) = IF S = {} THEN 0 ELSE CHOOSE i \in S : \A j \in S : j <= i
    BY DEF NewestFor, InWindow
<1> HIDE DEF S
<1>3. S # {} => \E i \in S : \A j \in S : j <= i
    BY <1>1, GreatestNumber
<1> QED
    BY <1>2, <1>3 DEF S

LEMMA NewestUnique ==
    ASSUME NEW cs \in Seq(CycleRow), NEW a, NEW r, NEW n \in InWindow(cs, a, r),
           \A j \in InWindow(cs, a, r) : j <= n
    PROVE  NewestFor(cs, a, r) = n
<1>1. NewestFor(cs, a, r) \in InWindow(cs, a, r)
      /\ \A j \in InWindow(cs, a, r) : j <= NewestFor(cs, a, r)
    BY NewestIs
<1>2. n \in Nat /\ NewestFor(cs, a, r) \in Nat
    BY <1>1 DEF InWindow
<1>3. n <= NewestFor(cs, a, r) /\ NewestFor(cs, a, r) <= n
    BY <1>1
<1> QED
    BY <1>2, <1>3

LEMMA NewestAdded ==
    ASSUME NEW cs, NEW cs2, NEW d, Added(cs, cs2, d), NEW a, NEW r
    PROVE  NewestFor(cs2, a, r) = IF a = d.account /\ r = d.resets THEN Len(cs) + 1
                                  ELSE NewestFor(cs, a, r)
<1> DEFINE n == Len(cs) + 1
<1>1. cs \in Seq(CycleRow) /\ cs2 \in Seq(CycleRow) /\ Len(cs) \in Nat
    BY DEF Added
<1>2. CASE a = d.account /\ r = d.resets
  <2>1. n \in InWindow(cs2, a, r)
    BY <1>1, <1>2 DEF Added, InWindow
  <2>2. \A j \in InWindow(cs2, a, r) : j <= n
    BY <1>1 DEF Added, InWindow
  <2> QED
    BY <1>1, <1>2, <2>1, <2>2, NewestUnique
<1>3. CASE ~(a = d.account /\ r = d.resets)
  <2>1. InWindow(cs2, a, r) = InWindow(cs, a, r)
    <3>1. n \notin InWindow(cs2, a, r)
        BY <1>3 DEF Added, InWindow
    <3>2. \A j \in DOMAIN cs2 : j # n => j \in DOMAIN cs /\ cs2[j] = cs[j]
        BY <1>1 DEF Added
    <3>3. \A j \in DOMAIN cs : j \in DOMAIN cs2 /\ cs2[j] = cs[j]
        BY DEF Added
    <3> QED
        BY <3>1, <3>2, <3>3 DEF InWindow
  <2>2. NewestFor(cs2, a, r) = NewestFor(cs, a, r)
    BY <2>1, NewestBy
  <2> QED
    BY <1>3, <2>2
<1> QED
    BY <1>2, <1>3

-----------------------------------------------------------------------------
(* How a list of cycles may develop *)

Settled(c) == c.settled # "no"

\* What is settled stays; what waits stays in its window, and keeps its credits
\* or counts as trimmed.
Develops(c, d) ==
    /\ d.account = c.account /\ d.resets = c.resets
    /\ Settled(c) => d = c
    /\ \A p, v : v # 0 /\ Has(c, p, v) => Has(d, p, v)

Developed(cs, cs2) ==
    /\ cs \in Seq(CycleRow) /\ cs2 \in Seq(CycleRow)
    /\ Len(cs2) = Len(cs) /\ DOMAIN cs2 = DOMAIN cs
    /\ \A i \in DOMAIN cs : Develops(cs[i], cs2[i])

\* Only what carries goes into a window.
IntoNext(cs) ==
    \A i \in DOMAIN cs : /\ cs[i].settled = "carried" => cs[i].into > cs[i].resets
                         /\ cs[i].settled # "carried" => cs[i].into = 0

ArrivedAt(cs, i) ==
    \A p \in DOMAIN cs[i].credits : cs[i].credits[p] # 0 =>
        LET d == NewestFor(cs, cs[i].account, cs[i].into)
        IN d # 0 /\ Has(cs[d], p, cs[i].credits[p])

LEMMA ArrivedIs == \A cs, W : Arrived(cs, W) <=> \A i \in DOMAIN cs : Carries(cs, W, i) => ArrivedAt(cs, i)
BY DEF Arrived, ArrivedAt

LEMMA StillArrived ==
    ASSUME NEW cs, NEW cs2, Developed(cs, cs2), IntoNext(cs), NEW W, Arrived(cs, W),
           NEW i \in DOMAIN cs, cs[i].settled = "carried", Carries(cs2, W, i)
    PROVE  ArrivedAt(cs2, i)
<1>1. cs2[i] = cs[i]
    BY DEF Developed, Develops, Settled
<1>2. cs[i].into > cs[i].resets /\ cs[i].resets \in Nat /\ cs[i].into \in Nat /\ cs[i].into # 0
  <2>1. cs[i] \in CycleRow
    BY DEF Developed
  <2>2. cs[i].into > cs[i].resets /\ cs[i].resets \in Nat /\ cs[i].into \in Nat
    BY <2>1, CycleFields DEF IntoNext
  <2> QED
    BY <2>2
<1>3. \A j \in DOMAIN cs : cs[j].into = cs[i].into => cs2[j] = cs[j]
    BY <1>2 DEF IntoNext, Developed, Develops, Settled
<1>4. Carries(cs, W, i)
  <2> DEFINE a == cs[i].account
             r == cs[i].into
  <2>1. ~CancelledIn(cs, a, r)
    <3> SUFFICES ASSUME NEW j \in DOMAIN cs, cs[j].account = a, cs[j].resets = r,
                        cs[j].settled = "cancelled"
                 PROVE  CancelledIn(cs2, a, r)
        BY <1>1 DEF Carries, CancelledIn
    <3>1. cs2[j] = cs[j] /\ j \in DOMAIN cs2
        BY DEF Developed, Develops, Settled
    <3> QED
        BY <3>1 DEF CancelledIn
  <2>2. ~CrowdedIn(cs, a, r)
    <3> SUFFICES ASSUME NEW j \in DOMAIN cs, NEW l \in DOMAIN cs, j # l,
                        cs[j].account = a, cs[j].into = r, cs[l].account = a, cs[l].into = r
                 PROVE  CrowdedIn(cs2, a, r)
        BY <1>1 DEF Carries, CrowdedIn
    <3>1. cs2[j] = cs[j] /\ cs2[l] = cs[l] /\ j \in DOMAIN cs2 /\ l \in DOMAIN cs2
        BY <1>3 DEF Developed
    <3> QED
        BY <3>1 DEF CrowdedIn
  <2> QED
    BY <1>1, <2>1, <2>2 DEF Carries
<1>5. ArrivedAt(cs, i)
    BY <1>4, ArrivedIs
<1>6. \A a, r : NewestFor(cs2, a, r) = NewestFor(cs, a, r)
  <2> TAKE a, r
  <2>1. InWindow(cs2, a, r) = InWindow(cs, a, r)
    BY DEF InWindow, Developed, Develops
  <2> QED
    BY <2>1, NewestBy
<1>7. \A d \in DOMAIN cs : \A p, v : v # 0 /\ Has(cs[d], p, v) => Has(cs2[d], p, v)
    BY DEF Developed, Develops
<1>8. \A a, r : NewestFor(cs, a, r) # 0 => NewestFor(cs, a, r) \in DOMAIN cs
  <2>1. cs \in Seq(CycleRow)
    BY DEF Developed
  <2> QED
    BY <2>1, NewestIs DEF InWindow
<1> SUFFICES ASSUME NEW p \in DOMAIN cs2[i].credits, cs2[i].credits[p] # 0
             PROVE  LET d == NewestFor(cs2, cs2[i].account, cs2[i].into)
                    IN d # 0 /\ Has(cs2[d], p, cs2[i].credits[p])
    BY DEF ArrivedAt
<1> DEFINE d == NewestFor(cs, cs[i].account, cs[i].into)
<1>9. d # 0 /\ Has(cs[d], p, cs[i].credits[p])
    BY <1>1, <1>5 DEF ArrivedAt
<1>10. d \in DOMAIN cs
    BY <1>8, <1>9
<1>11. Has(cs2[d], p, cs[i].credits[p])
    BY <1>1, <1>7, <1>9, <1>10
<1> QED
    BY <1>1, <1>6, <1>9, <1>11

\* A new cycle takes no credits from windows other than its own.
LEMMA ArrivedWithAnother ==
    ASSUME NEW cs, NEW cs2, NEW d, Added(cs, cs2, d), d.settled = "no", d.into = 0,
           NEW W, NEW i \in DOMAIN cs, Carries(cs2, W, i)
    PROVE  /\ cs2[i] = cs[i] /\ Carries(cs, W, i)
           /\ /\ ArrivedAt(cs, i)
              /\ cs[i].account = d.account /\ cs[i].into = d.resets =>
                    \A p \in DOMAIN cs[i].credits :
                        cs[i].credits[p] # 0 => Has(d, p, cs[i].credits[p])
              => ArrivedAt(cs2, i)
<1>1. cs2[i] = cs[i] /\ \A j \in DOMAIN cs : j \in DOMAIN cs2 /\ cs2[j] = cs[j]
    BY DEF Added
<1>2. Carries(cs, W, i)
    BY <1>1 DEF Carries, CancelledIn, CrowdedIn
<1>3. cs2[Len(cs) + 1] = d /\ Len(cs) \in Nat /\ cs \in Seq(CycleRow)
    BY DEF Added
<1> DEFINE a == cs[i].account
           r == cs[i].into
<1>4. ASSUME ArrivedAt(cs, i),
             a = d.account /\ r = d.resets =>
                \A p \in DOMAIN cs[i].credits : cs[i].credits[p] # 0 => Has(d, p, cs[i].credits[p])
      PROVE  ArrivedAt(cs2, i)
  <2> SUFFICES ASSUME NEW p \in DOMAIN cs[i].credits, cs[i].credits[p] # 0
               PROVE  NewestFor(cs2, a, r) # 0 /\ Has(cs2[NewestFor(cs2, a, r)], p, cs[i].credits[p])
    BY <1>1 DEF ArrivedAt
  <2>1. CASE a = d.account /\ r = d.resets
    BY <1>3, <1>4, <2>1, NewestAdded
  <2>2. CASE ~(a = d.account /\ r = d.resets)
    <3> DEFINE n == NewestFor(cs, a, r)
    <3>1. NewestFor(cs2, a, r) = n
        BY <2>2, NewestAdded
    <3>2. n # 0 /\ Has(cs[n], p, cs[i].credits[p])
        BY <1>4 DEF ArrivedAt
    <3>3. n \in DOMAIN cs
        BY <1>3, <3>2, NewestIs DEF InWindow
    <3> QED
        BY <1>1, <3>1, <3>2, <3>3
  <2> QED
    BY <2>1, <2>2
<1> QED
    BY <1>1, <1>2, <1>4

-----------------------------------------------------------------------------
(* The settlement of one cycle *)

LEMMA ClosedRow ==
    ASSUME NEW c \in CycleRow, NEW how \in {"plain", "cancelled"}
    PROVE  LET d == Close(c, how)
           IN /\ d \in CycleRow /\ d.settled = how
              /\ d.session = c.session /\ d.account = c.account /\ d.resets = c.resets
              /\ d.members = c.members /\ d.trimmed = c.trimmed /\ d.burst = c.burst
              /\ d.into = c.into /\ d.credits = c.credits
BY DEF Close, CycleRow

LEMMA CarriedRow ==
    ASSUME NEW c \in CycleRow, NEW credits, Transfer(c, credits), NEW r \in Times
    PROVE  LET d == Carried(c, credits, r)
           IN /\ d \in CycleRow /\ d.settled = "carried"
              /\ d.session = c.session /\ d.account = c.account /\ d.resets = c.resets
              /\ d.members = c.members /\ d.trimmed = c.trimmed /\ d.burst = c.burst
              /\ d.into = r /\ d.credits = credits
<1>1. credits \in CreditMap
  <2>1. DOMAIN c.members \in SUBSET Person
    BY CycleFields
  <2> QED
    BY <2>1 DEF Transfer, CreditMap
<1>2. r \in Nat
    BY Constants
<1> QED
    BY <1>1, <1>2 DEF Carried, CycleRow

LEMMA NextRow ==
    ASSUME Typed, NEW c \in CycleRow, NEW credits, Transfer(c, credits), NEW r \in Times,
           \E p \in DOMAIN c.members : credits[p] # 0
    PROVE  LET d == NextCycle(c, credits, r)
           IN /\ d \in CycleRow /\ d.settled = "no" /\ d.into = 0 /\ d.credits = NoCredits
              /\ d.session = c.session /\ d.account = c.account /\ d.resets = r
              /\ ~d.burst /\ ~d.trimmed /\ DOMAIN d.members # {}
              /\ SumFunction(Openings(d)) = 0
              /\ \A p \in DOMAIN credits : credits[p] # 0 => Has(d, p, credits[p])
<1> DEFINE d == NextCycle(c, credits, r)
           m == Members(credits)
           P == DOMAIN c.members
<1>1. P \in SUBSET Person /\ credits \in [P -> Int] /\ SumFunctionOnSet(credits, P) = 0
      /\ \A p \in P : credits[p] # 0 => p \in pooled
    BY CycleFields DEF Transfer
<1>2. /\ m \in MemberMap /\ DOMAIN m = pooled
      /\ \A p \in pooled \cap P : m[p].opening = credits[p]
      /\ SumFunction([p \in pooled |-> m[p].opening]) = SumFunctionOnSet(credits, P)
  <2> HIDE DEF P
  <2> QED
    BY <1>1, NewMembers
<1> HIDE DEF m
<1>3. d = [session |-> c.session, account |-> c.account, resets |-> r, burst |-> FALSE,
           members |-> m, edits |-> <<>>, settled |-> "no", credits |-> NoCredits,
           into |-> 0, trimmed |-> FALSE]
    BY DEF NextCycle, NewCycle, m
<1>4. c.session \in Nat /\ c.account \in Account
    BY CycleFields
<1> HIDE DEF d
<1>5. d \in CycleRow
    BY <1>2, <1>3, <1>4 DEF CycleRow
<1>6. d.members = m /\ ~d.trimmed
    BY <1>3
<1>7. SumFunction(Openings(d)) = 0
  <2>1. Openings(d) = [p \in pooled |-> m[p].opening]
    BY <1>2, <1>6 DEF Openings
  <2> QED
    BY <1>1, <1>2, <2>1
<1>8. DOMAIN d.members # {}
    BY <1>1, <1>2, <1>6
<1>9. \A p \in DOMAIN credits : credits[p] # 0 => Has(d, p, credits[p])
    BY <1>1, <1>2, <1>6 DEF Has
<1>10. /\ d.settled = "no" /\ d.into = 0 /\ d.credits = NoCredits /\ ~d.burst
       /\ d.session = c.session /\ d.account = c.account /\ d.resets = r
    BY <1>3
<1> QED
    BY <1>5, <1>6, <1>7, <1>8, <1>9, <1>10 DEF d

\* The cycle is settled; all else of it stays.
LEMMA CycleSettled ==
    ASSUME NEW cs \in Seq(CycleRow), NEW i \in DOMAIN cs, NEW d \in CycleRow, cs[i].settled = "no",
           d.session = cs[i].session, d.account = cs[i].account, d.resets = cs[i].resets,
           d.members = cs[i].members, d.trimmed = cs[i].trimmed, d.settled # "no"
    PROVE  LET cs2 == [cs EXCEPT ![i] = d]
           IN /\ Developed(cs, cs2)
              /\ InTurn(cs) => InTurn(cs2)
              /\ Balanced(cs) => Balanced(cs2)
<1> DEFINE cs2 == [cs EXCEPT ![i] = d]
<1>1. /\ cs2 \in Seq(CycleRow) /\ Len(cs2) = Len(cs) /\ DOMAIN cs2 = DOMAIN cs
      /\ cs2[i] = d /\ \A j \in DOMAIN cs \ {i} : cs2[j] = cs[j]
    BY RowReplaced
<1> HIDE DEF cs2
<1>2. Developed(cs, cs2)
  <2>1. \A j \in DOMAIN cs : Develops(cs[j], cs2[j])
    BY <1>1 DEF Develops, Settled, Has
  <2> QED
    BY <1>1, <2>1 DEF Developed
<1>3. ASSUME InTurn(cs) PROVE InTurn(cs2)
  <2>1. \A j \in DOMAIN cs2 : /\ cs2[j].session = cs[j].session /\ cs2[j].account = cs[j].account
                              /\ cs2[j].resets = cs[j].resets
                              /\ cs[j].settled # "no" => cs2[j].settled # "no"
    BY <1>1
  <2> QED
    BY <1>1, <1>3, <2>1 DEF InTurn
<1>4. ASSUME Balanced(cs) PROVE Balanced(cs2)
  <2>1. \A j \in DOMAIN cs2 : cs2[j].trimmed = cs[j].trimmed /\ Openings(cs2[j]) = Openings(cs[j])
    BY <1>1 DEF Openings
  <2> QED
    BY <1>1, <1>4, <2>1 DEF Balanced
<1> QED
    BY <1>2, <1>3, <1>4 DEF cs2

LEMMA EndedRows ==
    ASSUME NEW st \in RowSet, Shaped(st), Rounds(st), NEW i \in DOMAIN st.cycles
    PROVE  LET ss == Ended(st, st.cycles[i])
           IN /\ ss \in Seq(SessionRow) /\ Len(ss) = Len(st.sessions)
              /\ DOMAIN ss = DOMAIN st.sessions
              /\ \A k \in DOMAIN ss : /\ ss[k].terminated = st.sessions[k].terminated
                                      /\ ~ss[k].ended => ~st.sessions[k].ended
              /\ st.cycles[i].settled = "no" => ss[st.cycles[i].session].ended
<1> DEFINE c == st.cycles[i]
           ss == Ended(st, c)
           e == [st.sessions[c.session] EXCEPT !.ended = TRUE]
<1>1. st.sessions \in Seq(SessionRow) /\ c.session \in DOMAIN st.sessions
    BY DEF RowSet, Shaped
<1>2. st.sessions[c.session] \in SessionRow
    BY <1>1
<1>3. e \in SessionRow /\ e.ended /\ e.terminated = st.sessions[c.session].terminated
    BY <1>2 DEF SessionRow
<1>4. ss = IF c.burst THEN [st.sessions EXCEPT ![c.session] = e] ELSE st.sessions
    BY DEF Ended
<1>5. c.settled = "no" /\ ~c.burst => st.sessions[c.session].ended
    BY <1>1 DEF Rounds
<1> HIDE DEF ss, e, c
<1>6. CASE c.burst
  <2>1. ss \in Seq(SessionRow) /\ Len(ss) = Len(st.sessions)
    BY <1>1, <1>3, <1>4, <1>6, ExceptSeq
  <2>2. DOMAIN ss = DOMAIN st.sessions /\ ss[c.session] = e
        /\ \A k \in DOMAIN ss \ {c.session} : ss[k] = st.sessions[k]
    BY <1>1, <1>4, <1>6
  <2> QED
    BY <1>3, <2>1, <2>2 DEF c, ss
<1>7. CASE ~c.burst
    BY <1>1, <1>4, <1>5, <1>7 DEF c, ss
<1> QED
    BY <1>6, <1>7

\* Rounds are kept when a session without a round in force goes on.
LEMMA RoundsSettled ==
    ASSUME NEW st, Rounds(st), NEW i \in DOMAIN st.cycles, NEW ss \in Seq(SessionRow), NEW cs2,
           Len(ss) = Len(st.sessions), DOMAIN ss = DOMAIN st.sessions,
           st.cycles[i].session \in DOMAIN ss,
           \A k \in DOMAIN ss : /\ ss[k].terminated = st.sessions[k].terminated
                                /\ ~ss[k].ended => ~st.sessions[k].ended,
           ss[st.cycles[i].session].ended,
           \A j \in DOMAIN st.cycles : /\ j \in DOMAIN cs2 /\ cs2[j].session = st.cycles[j].session
                                       /\ j # i => cs2[j] = st.cycles[j],
           cs2[i].settled # "no" \/ cs2[i] = st.cycles[i],
           \A j \in DOMAIN cs2 : j \notin DOMAIN st.cycles =>
              cs2[j].session = st.cycles[i].session /\ ~cs2[j].burst
    PROVE  Rounds([sessions |-> ss, cycles |-> cs2])
<1> DEFINE y == [sessions |-> ss, cycles |-> cs2]
<1>1. y.sessions = ss /\ y.cycles = cs2
    OBVIOUS
<1>2. ASSUME NEW k \in DOMAIN ss, ~ss[k].ended
      PROVE  /\ k = Len(ss) /\ ~ss[k].terminated
             /\ \A j \in DOMAIN cs2 : cs2[j].session = k => cs2[j].burst /\ cs2[j].settled = "no"
             /\ \E j \in DOMAIN cs2 : cs2[j].session = k
  <2>1. /\ k = Len(st.sessions) /\ ~st.sessions[k].terminated
        /\ \A j \in DOMAIN st.cycles : st.cycles[j].session = k =>
              st.cycles[j].burst /\ st.cycles[j].settled = "no"
        /\ \E j \in DOMAIN st.cycles : st.cycles[j].session = k
    BY <1>2 DEF Rounds
  <2>2. k # st.cycles[i].session
    BY <1>2
  <2>3. \E j \in DOMAIN cs2 : cs2[j].session = k
    BY <2>1
  <2>4. \A j \in DOMAIN cs2 : cs2[j].session = k => cs2[j].burst /\ cs2[j].settled = "no"
    BY <2>1, <2>2
  <2> QED
    BY <2>1, <2>3, <2>4
<1>3. ASSUME NEW j \in DOMAIN cs2, cs2[j].burst, cs2[j].settled = "no"
      PROVE  cs2[j].session = Len(ss) /\ ~ss[Len(ss)].terminated
  <2>1. j \in DOMAIN st.cycles /\ cs2[j] = st.cycles[j]
    BY <1>3
  <2>2. j \in DOMAIN st.cycles /\ st.cycles[j].burst /\ st.cycles[j].settled = "no"
    BY <1>3, <2>1
  <2>3. st.cycles[j].session = Len(st.sessions) /\ ~st.sessions[Len(st.sessions)].terminated
    BY <2>2 DEF Rounds
  <2>4. Len(ss) \in DOMAIN ss
    OBVIOUS
  <2> QED
    BY <2>1, <2>3, <2>4
<1> HIDE DEF y
<1>4. Rounds(y)
    BY <1>1, <1>2, <1>3 DEF Rounds
<1> QED
    BY <1>4 DEF y

\* A session whose cycle waits goes on with the next window.
LEMMA TurnTaken ==
    ASSUME NEW cs \in Seq(CycleRow), InTurn(cs), NEW i \in DOMAIN cs, cs[i].settled = "no",
           NEW r \in Times, r > cs[i].resets
    PROVE  /\ \A j \in DOMAIN cs : ~( /\ cs[j].session = cs[i].session
                                      /\ cs[j].account = cs[i].account /\ cs[j].resets = r )
           /\ \A d \in CycleRow, e \in CycleRow : \A cs2 :
                 ( /\ e.session = cs[i].session /\ e.account = cs[i].account
                   /\ e.resets = cs[i].resets /\ e.settled # "no"
                   /\ d.session = cs[i].session /\ d.account = cs[i].account /\ d.resets = r
                   /\ Added([cs EXCEPT ![i] = e], cs2, d)
                   /\ InTurn([cs EXCEPT ![i] = e]) ) => InTurn(cs2)
<1>1. ASSUME NEW j \in DOMAIN cs, cs[j].session = cs[i].session, cs[j].account = cs[i].account, j # i
      PROVE  cs[j].resets < r /\ cs[j].settled # "no" /\ cs[j].resets # r
  <2>1. cs[j].resets \in Nat /\ cs[i].resets \in Nat /\ r \in Nat
    <3>1. cs[j] \in CycleRow /\ cs[i] \in CycleRow
        OBVIOUS
    <3> QED
        BY <3>1, CycleFields, Constants
  <2>2. cs[i].resets # cs[j].resets /\ ~(cs[i].resets < cs[j].resets)
        /\ (cs[j].resets < cs[i].resets => cs[j].settled # "no")
    BY <1>1 DEF InTurn
  <2> DEFINE x == cs[j].resets
             z == cs[i].resets
  <2>3. r > z
    OBVIOUS
  <2>4. x < z
    <3> HIDE DEF x, z
    <3>1. x \in Nat /\ z \in Nat /\ x # z /\ ~(z < x)
        BY <2>1, <2>2 DEF x, z
    <3> QED
        BY <3>1
  <2>5. x < r /\ x # r
    <3> HIDE DEF x, z
    <3>1. x \in Nat /\ z \in Nat /\ r \in Nat
        BY <2>1 DEF x, z
    <3> QED
        BY <2>3, <2>4, <3>1
  <2> QED
    BY <2>2, <2>4, <2>5
<1>2. cs[i].resets # r
  <2>1. cs[i].resets \in Nat /\ r \in Nat
    <3>1. cs[i] \in CycleRow
        OBVIOUS
    <3> QED
        BY <3>1, CycleFields, Constants
  <2> QED
    BY <2>1
<1>3. \A j \in DOMAIN cs : ~( /\ cs[j].session = cs[i].session
                              /\ cs[j].account = cs[i].account /\ cs[j].resets = r )
    BY <1>1, <1>2
<1>4. ASSUME NEW d \in CycleRow, NEW e \in CycleRow, NEW cs2,
             e.session = cs[i].session, e.account = cs[i].account,
             e.resets = cs[i].resets, e.settled # "no",
             d.session = cs[i].session, d.account = cs[i].account, d.resets = r,
             Added([cs EXCEPT ![i] = e], cs2, d), InTurn([cs EXCEPT ![i] = e])
      PROVE  InTurn(cs2)
  <2> DEFINE closed == [cs EXCEPT ![i] = e]
             n == Len(closed) + 1
  <2>1. DOMAIN closed = DOMAIN cs /\ closed[i] = e /\ \A j \in DOMAIN cs \ {i} : closed[j] = cs[j]
    BY RowReplaced
  <2> HIDE DEF closed
  <2>2. /\ DOMAIN closed = 1 .. Len(closed) /\ Len(closed) \in Nat /\ DOMAIN cs2 = 1 .. n
        /\ cs2[n] = d /\ \A j \in DOMAIN closed : j \in DOMAIN cs2 /\ cs2[j] = closed[j]
    BY <1>4 DEF Added, closed
  <2>3. InTurn(closed)
    BY <1>4 DEF closed
  <2>4. ASSUME NEW j \in DOMAIN closed, closed[j].session = d.session, closed[j].account = d.account
        PROVE  closed[j].resets # d.resets /\ closed[j].settled # "no" /\ closed[j].resets < d.resets
               /\ ~(d.resets < closed[j].resets)
    <3>1. closed[j].resets # d.resets /\ closed[j].settled # "no" /\ closed[j].resets < d.resets
        BY <1>1, <1>2, <1>4, <2>1, <2>4
    <3>2. closed[j].resets \in Nat /\ d.resets \in Nat
      <4>1. closed[j] \in CycleRow
        BY <2>1
      <4> QED
        BY <4>1, CycleFields
    <3> DEFINE x == closed[j].resets
               z == d.resets
    <3>3. ~(z < x)
      <4>1. x < z /\ x \in Nat /\ z \in Nat
        BY <3>1, <3>2
      <4> HIDE DEF x, z
      <4> QED
        BY <4>1
    <3> QED
        BY <3>1, <3>3
  <2>5. \A j \in DOMAIN cs2 : j = n \/ (j \in DOMAIN closed /\ cs2[j] = closed[j])
    BY <2>2
  <2> HIDE DEF n
  <2>6. ASSUME NEW j \in DOMAIN cs2, NEW l \in DOMAIN cs2, j # l, cs2[j].session = cs2[l].session,
               cs2[j].account = cs2[l].account
        PROVE  cs2[j].resets # cs2[l].resets /\ (cs2[j].resets < cs2[l].resets => cs2[j].settled # "no")
    <3>1. CASE j = n
        BY <2>2, <2>4, <2>5, <2>6, <3>1
    <3>2. CASE l = n
        BY <2>2, <2>4, <2>5, <2>6, <3>2
    <3>3. CASE j # n /\ l # n
      <4>1. j \in DOMAIN closed /\ l \in DOMAIN closed /\ cs2[j] = closed[j] /\ cs2[l] = closed[l]
        BY <2>5, <3>3
      <4> QED
        BY <2>3, <2>6, <4>1 DEF InTurn
    <3> QED
        BY <3>1, <3>2, <3>3
  <2> QED
    BY <2>6 DEF InTurn
<1> QED
    BY <1>3, <1>4

\* A cycle that is settled without carrying anything over, or carries nothing.
LEMMA SettlesSoundly ==
    ASSUME NEW st \in RowSet, NEW W, NEW last, Sound(st, W, last),
           NEW i \in DOMAIN st.cycles, st.cycles[i].settled = "no",
           last[st.cycles[i].account] > st.cycles[i].resets,
           NEW d \in CycleRow,
           d.session = st.cycles[i].session, d.account = st.cycles[i].account,
           d.resets = st.cycles[i].resets, d.members = st.cycles[i].members,
           d.trimmed = st.cycles[i].trimmed, d.settled \in {"plain", "carried"},
           d.settled = "plain" => d.into = 0 /\ d.credits = NoCredits,
           d.settled = "carried" => d.into > d.resets /\ d.credits # NoCredits
    PROVE  LET cs2 == [st.cycles EXCEPT ![i] = d]
               y == [sessions |-> Ended(st, st.cycles[i]), cycles |-> cs2]
           IN /\ y \in RowSet
              /\ Shaped(y) /\ InTurn(cs2) /\ Rounds(y) /\ Balanced(cs2) /\ Behind(cs2, W, last)
              /\ \A j \in DOMAIN cs2 \ {i} : Carries(cs2, W, j) => ArrivedAt(cs2, j)
<1> DEFINE cs == st.cycles
           ss == Ended(st, cs[i])
           cs2 == [cs EXCEPT ![i] = d]
           y == [sessions |-> ss, cycles |-> cs2]
<1>1. cs \in Seq(CycleRow)
    BY DEF RowSet
<1>2. /\ cs2 \in Seq(CycleRow) /\ Len(cs2) = Len(cs) /\ DOMAIN cs2 = DOMAIN cs
      /\ cs2[i] = d /\ \A j \in DOMAIN cs \ {i} : cs2[j] = cs[j]
    BY <1>1, RowReplaced
<1>3. Developed(cs, cs2) /\ InTurn(cs2) /\ Balanced(cs2)
    BY <1>1, CycleSettled DEF Sound
<1>4. /\ ss \in Seq(SessionRow) /\ Len(ss) = Len(st.sessions) /\ DOMAIN ss = DOMAIN st.sessions
      /\ \A k \in DOMAIN ss : /\ ss[k].terminated = st.sessions[k].terminated
                              /\ ~ss[k].ended => ~st.sessions[k].ended
      /\ ss[cs[i].session].ended
    BY EndedRows DEF Sound
<1> HIDE DEF cs2, ss
<1>5. y \in RowSet /\ y.sessions = ss /\ y.cycles = cs2
    BY <1>2, <1>4 DEF RowSet
<1>6. cs[i].session \in DOMAIN st.sessions
    BY DEF Sound, Shaped
<1>7. Rounds(y)
    BY <1>2, <1>4, <1>6, RoundsSettled DEF Sound
<1> HIDE DEF y
<1>8. Shaped(y)
  <2>1. Shaped(st)
    BY DEF Sound
  <2>2. ASSUME NEW j \in DOMAIN cs2
        PROVE  /\ cs2[j].session \in DOMAIN ss /\ DOMAIN cs2[j].members # {}
               /\ cs2[j].settled = "carried" => cs2[j].into > cs2[j].resets /\ cs2[j].credits # NoCredits
               /\ cs2[j].settled # "carried" => cs2[j].into = 0 /\ cs2[j].credits = NoCredits
    <3>1. CASE j = i
        BY <1>2, <1>4, <2>1, <3>1 DEF Shaped
    <3>2. CASE j # i
      <4>1. j \in DOMAIN cs /\ cs2[j] = cs[j]
        BY <1>2, <3>2
      <4>2. /\ cs[j].session \in DOMAIN st.sessions /\ DOMAIN cs[j].members # {}
            /\ cs[j].settled = "carried" => cs[j].into > cs[j].resets /\ cs[j].credits # NoCredits
            /\ cs[j].settled # "carried" => cs[j].into = 0 /\ cs[j].credits = NoCredits
        BY <2>1, <4>1 DEF Shaped
      <4> QED
        BY <1>4, <4>1, <4>2
    <3> QED
        BY <3>1, <3>2
  <2> QED
    BY <1>5, <2>2 DEF Shaped
<1>9. Behind(cs2, W, last)
  <2>1. Behind(cs, W, last)
    BY DEF Sound
  <2>2. d.resets < last[d.account]
    OBVIOUS
  <2> QED
    BY <1>2, <2>1, <2>2 DEF Behind
<1>10. ASSUME NEW j \in DOMAIN cs2 \ {i}, Carries(cs2, W, j) PROVE ArrivedAt(cs2, j)
  <2>1. j \in DOMAIN cs /\ cs[j].settled = "carried"
    BY <1>2, <1>10 DEF Carries
  <2>2. IntoNext(cs) /\ Arrived(cs, W)
    BY DEF Sound, Shaped, IntoNext
  <2> QED
    BY <1>3, <1>10, <2>1, <2>2, StillArrived
<1> QED
    BY <1>3, <1>5, <1>7, <1>8, <1>9, <1>10 DEF y, cs2, ss

\* What one cycle's settlement keeps.
SettledWell(st, W, last, i, y) ==
    /\ y \in RowSet /\ Sound(y, W, last)
    /\ Len(y.sessions) = Len(st.sessions)
    /\ DOMAIN st.cycles \subseteq DOMAIN y.cycles
    /\ \A j \in DOMAIN st.cycles \ {i} : y.cycles[j] = st.cycles[j]

LEMMA SoundFrom ==
    ASSUME NEW y, NEW W, NEW last, Shaped(y), InTurn(y.cycles), Rounds(y), Balanced(y.cycles),
           Behind(y.cycles, W, last), \A j \in DOMAIN y.cycles : Carries(y.cycles, W, j) => ArrivedAt(y.cycles, j)
    PROVE  Sound(y, W, last)
BY ArrivedIs DEF Sound

\* The next cycle has what the settled one carries, and it is the newest there.
LEMMA AppendsSoundly ==
    ASSUME NEW st, NEW W, NEW last, st \in RowSet,
           Shaped(st), InTurn(st.cycles), Rounds(st), Balanced(st.cycles), Behind(st.cycles, W, last),
           NEW i \in DOMAIN st.cycles, st.cycles[i].settled = "carried",
           st.sessions[st.cycles[i].session].ended,
           \A j \in DOMAIN st.cycles \ {i} : Carries(st.cycles, W, j) => ArrivedAt(st.cycles, j),
           NEW d \in CycleRow, d.settled = "no", d.into = 0, d.credits = NoCredits,
           d.session = st.cycles[i].session, d.account = st.cycles[i].account,
           d.resets = st.cycles[i].into, ~d.burst, DOMAIN d.members # {},
           SumFunction(Openings(d)) = 0,
           \A p \in DOMAIN st.cycles[i].credits :
              st.cycles[i].credits[p] # 0 => Has(d, p, st.cycles[i].credits[p]),
           NEW cs2, Added(st.cycles, cs2, d), InTurn(cs2)
    PROVE  LET y == [sessions |-> st.sessions, cycles |-> cs2]
           IN y \in RowSet /\ Sound(y, W, last)
<1> DEFINE cs == st.cycles
           ss == st.sessions
           n == Len(cs) + 1
           y == [sessions |-> ss, cycles |-> cs2]
<1>1. cs \in Seq(CycleRow) /\ ss \in Seq(SessionRow) /\ cs2 \in Seq(CycleRow)
    BY DEF RowSet, Added
<1>2. /\ Len(cs) \in Nat /\ DOMAIN cs = 1 .. Len(cs) /\ DOMAIN cs2 = 1 .. n /\ cs2[n] = d
      /\ \A j \in DOMAIN cs : j \in DOMAIN cs2 /\ cs2[j] = cs[j]
    BY DEF Added
<1>3. n \notin DOMAIN cs /\ \A j \in DOMAIN cs2 : j = n \/ (j \in DOMAIN cs /\ cs2[j] = cs[j])
    BY <1>2, SMTT(30)
<1>4. y \in RowSet /\ y.sessions = ss /\ y.cycles = cs2
    BY <1>1 DEF RowSet
<1> HIDE DEF y, n
<1>5. Shaped(y)
  <2>1. ASSUME NEW j \in DOMAIN cs2
        PROVE  /\ cs2[j].session \in DOMAIN ss /\ DOMAIN cs2[j].members # {}
               /\ cs2[j].settled = "carried" => cs2[j].into > cs2[j].resets /\ cs2[j].credits # NoCredits
               /\ cs2[j].settled # "carried" => cs2[j].into = 0 /\ cs2[j].credits = NoCredits
    <3>1. CASE j = n
      <4>1. d.session \in DOMAIN ss
        BY DEF Shaped
      <4> QED
        BY <1>2, <3>1, <4>1
    <3>2. CASE j \in DOMAIN cs /\ cs2[j] = cs[j]
        BY <3>2 DEF Shaped
    <3> QED
        BY <1>3, <3>1, <3>2
  <2> QED
    BY <1>4, <2>1 DEF Shaped
<1>6. Rounds(y)
  <2>1. ASSUME NEW k \in DOMAIN ss, ~ss[k].ended
        PROVE  /\ k = Len(ss) /\ ~ss[k].terminated
               /\ \A j \in DOMAIN cs2 : cs2[j].session = k => cs2[j].burst /\ cs2[j].settled = "no"
               /\ \E j \in DOMAIN cs2 : cs2[j].session = k
    <3>1. /\ k = Len(ss) /\ ~ss[k].terminated
          /\ \A j \in DOMAIN cs : cs[j].session = k => cs[j].burst /\ cs[j].settled = "no"
          /\ \E j \in DOMAIN cs : cs[j].session = k
        BY <2>1 DEF Rounds
    <3>2. d.session # k
        BY <2>1
    <3>3. \E j \in DOMAIN cs2 : cs2[j].session = k
        BY <1>2, <3>1
    <3>4. \A j \in DOMAIN cs2 : cs2[j].session = k => cs2[j].burst /\ cs2[j].settled = "no"
        BY <1>2, <1>3, <3>1, <3>2
    <3> QED
        BY <3>1, <3>3, <3>4
  <2>2. ASSUME NEW j \in DOMAIN cs2, cs2[j].burst, cs2[j].settled = "no"
        PROVE  cs2[j].session = Len(ss) /\ ~ss[Len(ss)].terminated
    <3>1. j \in DOMAIN cs /\ cs2[j] = cs[j]
        BY <1>2, <1>3, <2>2
    <3> QED
        BY <2>2, <3>1 DEF Rounds
  <2> QED
    BY <1>4, <2>1, <2>2 DEF Rounds
<1>7. Balanced(cs2)
    BY <1>2, <1>3 DEF Balanced
<1>8. Behind(cs2, W, last)
  <2> SUFFICES ASSUME NEW j \in DOMAIN cs2, cs2[j].settled \in {"plain", "carried"}, cs2[j].account \notin W
               PROVE  cs2[j].resets < last[cs2[j].account]
    BY DEF Behind
  <2>1. j \in DOMAIN cs /\ cs2[j] = cs[j]
    BY <1>2, <1>3
  <2> QED
    BY <2>1 DEF Behind
<1>9. ASSUME NEW j \in DOMAIN cs2, Carries(cs2, W, j) PROVE ArrivedAt(cs2, j)
  <2>1. j \in DOMAIN cs /\ cs2[j] = cs[j] /\ cs[j].settled = "carried"
    BY <1>2, <1>3, <1>9 DEF Carries
  <2>2. CASE j = i
    <3> SUFFICES ASSUME NEW p \in DOMAIN cs2[i].credits, cs2[i].credits[p] # 0
                 PROVE  LET e == NewestFor(cs2, cs2[i].account, cs2[i].into)
                        IN e # 0 /\ Has(cs2[e], p, cs2[i].credits[p])
        BY <2>2 DEF ArrivedAt
    <3>1. NewestFor(cs2, cs2[i].account, cs2[i].into) = n
        BY <2>1, <2>2, NewestAdded DEF n
    <3>2. Has(d, p, cs2[i].credits[p])
        BY <2>1, <2>2
    <3>3. n # 0
        BY <1>2 DEF n
    <3> QED
        BY <1>2, <3>1, <3>2, <3>3
  <2>3. CASE j # i
    <3>1. Carries(cs, W, j)
        BY <1>9, <2>1, ArrivedWithAnother
    <3>2. ArrivedAt(cs, j)
        BY <2>1, <2>3, <3>1
    <3>3. ~(cs[j].account = d.account /\ cs[j].into = d.resets)
      <4> SUFFICES ASSUME cs[j].account = d.account, cs[j].into = d.resets PROVE FALSE
        OBVIOUS
      <4>1. cs2[i] = cs[i] /\ i \in DOMAIN cs2
        BY <1>2
      <4>2. CrowdedIn(cs2, cs2[j].account, cs2[j].into)
        BY <2>1, <2>3, <4>1 DEF CrowdedIn
      <4> QED
        BY <1>9, <4>2 DEF Carries
    <3> QED
        BY <1>9, <2>1, <3>2, <3>3, ArrivedWithAnother
  <2> QED
    BY <2>2, <2>3
<1>10. Sound(y, W, last)
    BY <1>4, <1>5, <1>6, <1>7, <1>8, <1>9, SoundFrom
<1> QED
    BY <1>4, <1>10 DEF y

LEMMA SettleKeeps ==
    ASSUME Typed, NEW st \in RowSet, NEW W, NEW last, Sound(st, W, last),
           NEW i \in DOMAIN st.cycles, st.cycles[i].settled = "no",
           NEW r \in Times, r > st.cycles[i].resets, last[st.cycles[i].account] = r,
           NEW readings \in [Times -> Reading \cup {NoReading}]
    PROVE  SettledWell(st, W, last, i, SettleCycle(st, i, readings, r))
<1> DEFINE cs == st.cycles
           c == cs[i]
           ss == Ended(st, c)
           y == SettleCycle(st, i, readings, r)
           plain == Close(c, "plain")
<1>1. c \in CycleRow /\ cs \in Seq(CycleRow) /\ r \in Nat
    BY Constants DEF RowSet
<1>2. Shaped(st) /\ InTurn(cs) /\ Rounds(st) /\ c.into = 0 /\ c.credits = NoCredits
    BY DEF Sound, Shaped
<1>3. /\ ss \in Seq(SessionRow) /\ Len(ss) = Len(st.sessions) /\ DOMAIN ss = DOMAIN st.sessions
      /\ \A k \in DOMAIN ss : /\ ss[k].terminated = st.sessions[k].terminated
                              /\ ~ss[k].ended => ~st.sessions[k].ended
      /\ ss[c.session].ended
    BY <1>2, EndedRows
<1>4. /\ y = [sessions |-> ss, cycles |-> y.cycles]
      /\ \/ y.cycles = cs
         \/ y.cycles = [cs EXCEPT ![i] = plain]
         \/ \E credits : Transfer(c, credits) /\
              LET closed == [cs EXCEPT ![i] = Carried(c, credits, r)]
              IN \/ /\ y.cycles = closed
                    /\ \/ \A p \in DOMAIN credits : credits[p] = 0
                       \/ \E j \in DOMAIN closed :
                            /\ closed[j].session = c.session
                            /\ closed[j].account = c.account /\ closed[j].resets = r
                 \/ /\ y.cycles = Append(closed, NextCycle(c, credits, r))
                    /\ \E p \in DOMAIN c.members : credits[p] # 0
  <2>1. SettlesAs(st, i, r, y)
    BY SettleIs
  <2> HIDE DEF y
  <2> QED
    BY <2>1 DEF SettlesAs
<1> HIDE DEF y, ss
<1>5. CASE y.cycles = cs
  <2>1. c.session \in DOMAIN ss
    BY <1>2, <1>3 DEF Shaped
  <2>2. Rounds([sessions |-> ss, cycles |-> cs])
    BY <1>2, <1>3, <2>1, RoundsSettled
  <2>3. y = [sessions |-> ss, cycles |-> cs] /\ y.sessions = ss /\ y \in RowSet
    BY <1>1, <1>3, <1>4, <1>5 DEF RowSet
  <2>4. Shaped(y)
    BY <1>2, <1>3, <1>5, <2>3 DEF Shaped
  <2>5. Rounds(y)
    BY <2>2, <2>3
  <2>6. Sound(y, W, last)
    BY <1>5, <2>4, <2>5 DEF Sound
  <2> QED
    BY <1>3, <1>5, <2>3, <2>6 DEF SettledWell, y
<1>6. CASE y.cycles = [cs EXCEPT ![i] = plain]
  <2> DEFINE cs2 == [cs EXCEPT ![i] = plain]
  <2>1. /\ plain \in CycleRow /\ plain.settled = "plain"
        /\ plain.session = c.session /\ plain.account = c.account /\ plain.resets = c.resets
        /\ plain.members = c.members /\ plain.trimmed = c.trimmed
        /\ plain.into = 0 /\ plain.credits = NoCredits
    BY <1>1, <1>2, ClosedRow
  <2>2. /\ DOMAIN cs2 = DOMAIN cs /\ cs2[i] = plain /\ \A j \in DOMAIN cs \ {i} : cs2[j] = cs[j]
    BY <1>1, <2>1, RowReplaced
  <2> HIDE DEF plain
  <2>3. y = [sessions |-> ss, cycles |-> cs2] /\ y.cycles = cs2
    BY <1>4, <1>6
  <2>4. /\ y \in RowSet
        /\ Shaped(y) /\ InTurn(cs2) /\ Rounds(y) /\ Balanced(cs2) /\ Behind(cs2, W, last)
        /\ \A j \in DOMAIN cs2 \ {i} : Carries(cs2, W, j) => ArrivedAt(cs2, j)
    BY <2>1, <2>3, SettlesSoundly DEF ss
  <2> HIDE DEF cs2
  <2>5. ~Carries(cs2, W, i)
    BY <2>1, <2>2 DEF Carries
  <2>6. Sound(y, W, last)
    BY <2>3, <2>4, <2>5, SoundFrom
  <2> QED
    BY <1>3, <2>2, <2>3, <2>4, <2>6 DEF SettledWell, y
<1>7. ASSUME NEW credits, Transfer(c, credits),
             LET closed == [cs EXCEPT ![i] = Carried(c, credits, r)]
             IN \/ /\ y.cycles = closed
                   /\ \/ \A p \in DOMAIN credits : credits[p] = 0
                      \/ \E j \in DOMAIN closed :
                           /\ closed[j].session = c.session
                           /\ closed[j].account = c.account /\ closed[j].resets = r
                \/ /\ y.cycles = Append(closed, NextCycle(c, credits, r))
                   /\ \E p \in DOMAIN c.members : credits[p] # 0
      PROVE  SettledWell(st, W, last, i, y)
  <2> DEFINE e == Carried(c, credits, r)
             closed == [cs EXCEPT ![i] = e]
             z == [sessions |-> ss, cycles |-> closed]
  <2>1. /\ e \in CycleRow /\ e.settled = "carried"
        /\ e.session = c.session /\ e.account = c.account /\ e.resets = c.resets
        /\ e.members = c.members /\ e.trimmed = c.trimmed
        /\ e.into = r /\ e.credits = credits
    BY <1>1, <1>7, CarriedRow
  <2>2. e.into > e.resets /\ e.credits # NoCredits
    <3>1. DOMAIN credits = DOMAIN c.members /\ DOMAIN c.members # {}
        BY <1>2, <1>7 DEF Transfer, Shaped
    <3>2. DOMAIN NoCredits = {}
        BY DEF NoCredits
    <3> QED
        BY <2>1, <3>1, <3>2
  <2>3. /\ closed \in Seq(CycleRow) /\ Len(closed) = Len(cs) /\ DOMAIN closed = DOMAIN cs
        /\ closed[i] = e /\ \A j \in DOMAIN cs \ {i} : closed[j] = cs[j]
    BY <1>1, <2>1, RowReplaced
  <2>4. /\ z \in RowSet
        /\ Shaped(z) /\ InTurn(closed) /\ Rounds(z) /\ Balanced(closed) /\ Behind(closed, W, last)
        /\ \A j \in DOMAIN closed \ {i} : Carries(closed, W, j) => ArrivedAt(closed, j)
    <3> HIDE DEF e
    <3> QED
        BY <2>1, <2>2, SettlesSoundly DEF ss
  <2>5. z.sessions = ss /\ z.cycles = closed
    OBVIOUS
  <2>6. /\ \A j \in DOMAIN cs : ~( /\ cs[j].session = c.session
                                   /\ cs[j].account = c.account /\ cs[j].resets = r )
        /\ \A d \in CycleRow, e2 \in CycleRow : \A cs2 :
              ( /\ e2.session = cs[i].session /\ e2.account = cs[i].account
                /\ e2.resets = cs[i].resets /\ e2.settled # "no"
                /\ d.session = cs[i].session /\ d.account = cs[i].account /\ d.resets = r
                /\ Added([cs EXCEPT ![i] = e2], cs2, d)
                /\ InTurn([cs EXCEPT ![i] = e2]) ) => InTurn(cs2)
    BY <1>1, <1>2, TurnTaken
  <2>7. ~ \E j \in DOMAIN closed : /\ closed[j].session = c.session
                                   /\ closed[j].account = c.account /\ closed[j].resets = r
    <3> SUFFICES ASSUME NEW j \in DOMAIN closed, closed[j].session = c.session,
                        closed[j].account = c.account, closed[j].resets = r
                 PROVE  FALSE
        OBVIOUS
    <3>1. CASE j = i
        BY <2>1, <2>2, <2>3, <2>6, <3>1
    <3>2. CASE j # i
        BY <2>3, <2>6, <3>2
    <3> QED
        BY <3>1, <3>2
  <2> DEFINE d == NextCycle(c, credits, r)
  <2> HIDE DEF e, z, d, closed
  <2>8. \/ y.cycles = closed /\ \A p \in DOMAIN credits : credits[p] = 0
        \/ y.cycles = Append(closed, d) /\ \E p \in DOMAIN c.members : credits[p] # 0
    BY <1>7, <2>7 DEF closed, e, d
  <2>9. CASE y.cycles = closed /\ \A p \in DOMAIN credits : credits[p] = 0
    <3>1. y = z
        BY <1>4, <2>9 DEF z
    <3>2. ArrivedAt(closed, i)
        BY <2>1, <2>3, <2>9 DEF ArrivedAt
    <3>3. Sound(y, W, last)
        BY <2>4, <2>5, <3>1, <3>2, SoundFrom
    <3> QED
        BY <1>3, <2>3, <2>4, <2>5, <2>9, <3>1, <3>3 DEF SettledWell, y
  <2>10. CASE y.cycles = Append(closed, d) /\ \E p \in DOMAIN c.members : credits[p] # 0
    <3> DEFINE cs2 == Append(closed, d)
    <3>1. /\ d \in CycleRow /\ d.settled = "no" /\ d.into = 0 /\ d.credits = NoCredits
          /\ d.session = c.session /\ d.account = c.account /\ d.resets = r
          /\ ~d.burst /\ ~d.trimmed /\ DOMAIN d.members # {}
          /\ SumFunction(Openings(d)) = 0
          /\ \A p \in DOMAIN credits : credits[p] # 0 => Has(d, p, credits[p])
        BY <1>1, <1>7, <2>10, NextRow DEF d
    <3>2. Added(closed, cs2, d)
        BY <2>3, <3>1, RowAdded
    <3> HIDE DEF cs2
    <3>3. InTurn(cs2)
        BY <2>1, <2>4, <2>6, <3>1, <3>2 DEF closed
    <3>4. y = [sessions |-> ss, cycles |-> cs2] /\ y.cycles = cs2
        BY <1>4, <2>10 DEF cs2
    <3>5. y \in RowSet /\ Sound(y, W, last)
      <4>1. z.sessions[z.cycles[i].session].ended
        BY <1>3, <2>1, <2>3, <2>5
      <4>2. i \in DOMAIN z.cycles /\ z.cycles[i].settled = "carried"
        BY <2>1, <2>3, <2>5
      <4>3. /\ d.session = z.cycles[i].session /\ d.account = z.cycles[i].account
            /\ d.resets = z.cycles[i].into
        BY <2>1, <2>3, <2>5, <3>1
      <4>4. \A p \in DOMAIN z.cycles[i].credits :
               z.cycles[i].credits[p] # 0 => Has(d, p, z.cycles[i].credits[p])
        BY <2>1, <2>3, <2>5, <3>1
      <4>5. LET y2 == [sessions |-> z.sessions, cycles |-> cs2]
            IN y2 \in RowSet /\ Sound(y2, W, last)
        BY <2>4, <2>5, <3>1, <3>2, <3>3, <4>1, <4>2, <4>3, <4>4, AppendsSoundly
      <4> QED
        BY <2>5, <3>4, <4>5
    <3>6. DOMAIN cs \subseteq DOMAIN cs2 /\ \A j \in DOMAIN cs \ {i} : cs2[j] = cs[j]
        BY <2>3, <3>2 DEF Added
    <3> QED
        BY <1>3, <3>4, <3>5, <3>6 DEF SettledWell, y
  <2> QED
    BY <2>8, <2>9, <2>10
<1> QED
    BY <1>4, <1>5, <1>6, <1>7 DEF y

\* No session is lost, and what was settled is as it was.
KeepsSettled(st, y) ==
    \A j \in DOMAIN st.cycles :
        j \in DOMAIN y.cycles /\ (st.cycles[j].settled # "no" => y.cycles[j] = st.cycles[j])

Follows(st, y) == Len(y.sessions) = Len(st.sessions) /\ KeepsSettled(st, y)

FollowingSoundly(st, W, last) == {y \in RowSet : Sound(y, W, last) /\ Follows(st, y)}

\* Settling an account keeps the invariant of the rows.
LEMMA ReconcileSound ==
    ASSUME Typed, NEW W, NEW last, NEW base, NEW st \in FollowingSoundly(base, W, last),
           NEW a, NEW r \in Times, last[a] = r, NEW readings \in [Times -> Reading \cup {NoReading}]
    PROVE  Reconcile(st, a, readings, r) \in FollowingSoundly(base, W, last)
<1> DEFINE K == FollowingSoundly(base, W, last)
<1>1. st \in RowSet
    BY DEF FollowingSoundly
<1>2. ASSUME NEW x \in K, NEW i \in Pending(st.cycles, a, r),
             i \in DOMAIN x.cycles, x.cycles[i] = st.cycles[i]
      PROVE  LET y == SettleCycle(x, i, readings, r)
             IN /\ y \in K
                /\ DOMAIN x.cycles \subseteq DOMAIN y.cycles
                /\ \A j \in DOMAIN x.cycles \ {i} : y.cycles[j] = x.cycles[j]
  <2> DEFINE y == SettleCycle(x, i, readings, r)
  <2>1. x \in RowSet /\ Sound(x, W, last) /\ Follows(base, x)
    BY DEF FollowingSoundly
  <2>2. x.cycles[i].settled = "no" /\ r > x.cycles[i].resets /\ last[x.cycles[i].account] = r
    BY <1>2 DEF Pending
  <2>3. SettledWell(x, W, last, i, y)
    BY <1>2, <2>1, <2>2, SettleKeeps
  <2> HIDE DEF y
  <2>4. Follows(base, y)
    BY <2>1, <2>2, <2>3 DEF Follows, KeepsSettled, SettledWell
  <2> QED
    BY <2>3, <2>4 DEF SettledWell, FollowingSoundly, y
<1>3. \A x \in K : \A i \in Pending(st.cycles, a, r) :
              i \in DOMAIN x.cycles /\ x.cycles[i] = st.cycles[i] =>
                LET y == SettleCycle(x, i, readings, r)
                IN /\ y \in K
                   /\ DOMAIN x.cycles \subseteq DOMAIN y.cycles
                   /\ \A j \in DOMAIN x.cycles \ {i} : y.cycles[j] = x.cycles[j]
    BY <1>2
<1> HIDE DEF K
<1>4. st \in K
    BY DEF K
<1>5. Reconcile(st, a, readings, r) \in K
    BY <1>1, <1>3, <1>4, ReconcileKeeps
<1> QED
    BY <1>5 DEF K

LEMMA WindowsKnown ==
    ASSUME Typed, NEW a \in Account
    PROVE  /\ Windows(a) \subseteq Times /\ seen[a] \in [Times -> Reading \cup {NoReading}]
           /\ Windows(a) # {} => /\ Latest(a) \in Windows(a) /\ Latest(a) \in Times
                                 /\ \A q \in Windows(a) : q <= Latest(a)
                                 /\ LastWindow[a] = Latest(a)
           /\ Windows(a) = {} => LastWindow[a] = 0
<1>1. Windows(a) \subseteq Times /\ seen[a] \in [Times -> Reading \cup {NoReading}]
    BY DEF Typed, Windows
<1>2. Windows(a) # {} => \E r \in Windows(a) : \A q \in Windows(a) : q <= r
  <2>1. \A t \in Times : t \in 0 .. (MaxTime + Window)
    BY Constants
  <2>2. Windows(a) \subseteq 0 .. (MaxTime + Window) /\ MaxTime + Window \in Nat
    BY <1>1, <2>1, Constants
  <2> QED
    BY <2>2, GreatestNumber
<1>3. Windows(a) # {} => Latest(a) \in Windows(a) /\ \A q \in Windows(a) : q <= Latest(a)
    BY <1>2 DEF Latest
<1> QED
    BY <1>1, <1>3 DEF LastWindow

LEMMA AllReconciledSound ==
    ASSUME IInv, \A a \in Account : Windows(a) # {}
    PROVE  AllReconciled \in FollowingSoundly(Rows, withdrawn, LastWindow)
<1> DEFINE K == FollowingSoundly(Rows, withdrawn, LastWindow)
<1>1. Rows \in K
    BY DEF IInv, Typed, FollowingSoundly, Follows, KeepsSettled
<1>2. ASSUME NEW x \in K, NEW a \in Account PROVE Reconcile(x, a, seen[a], Latest(a)) \in K
  <2>1. seen[a] \in [Times -> Reading \cup {NoReading}] /\ Latest(a) \in Times
        /\ LastWindow[a] = Latest(a)
    BY WindowsKnown DEF IInv
  <2> QED
    BY <2>1, ReconcileSound DEF IInv
<1> HIDE DEF K
<1>3. AllReconciled \in K
    BY <1>1, <1>2, AllReconciledKeeps
<1> QED
    BY <1>3 DEF K

-----------------------------------------------------------------------------
(* The cycles of a new round *)

\* A cycle taken into the round keeps its credits, or counts as trimmed.
LEMMA ReboundRow ==
    ASSUME Typed, pooled # {}, NEW c \in CycleRow, c.settled = "no", NEW k \in Nat
    PROVE  LET d == Rebound(c, k)
           IN /\ d \in CycleRow /\ Develops(c, d) /\ DOMAIN d.members # {}
              /\ d.session = k /\ d.burst /\ d.settled = "no" /\ d.into = c.into /\ d.credits = c.credits
              /\ (~c.trimmed => SumFunction(Openings(c)) = 0) =>
                    (~d.trimmed => SumFunction(Openings(d)) = 0)
<1> DEFINE Stays(p) == p \in DOMAIN c.members /\ c.members[p].user = user[p]
           m == [p \in pooled |-> [user |-> user[p], share |-> Share[p],
                                   opening |-> IF Stays(p) THEN c.members[p].opening ELSE 0]]
           trims == c.trimmed \/ \E p \in DOMAIN c.members :
                        c.members[p].opening # 0 /\ ~(p \in pooled /\ Stays(p))
           d == Rebound(c, k)
           P == DOMAIN c.members
<1>1. P \in SUBSET Person /\ \A p \in P : c.members[p].opening \in Int
    BY CycleFields
<1>2. pooled \in SUBSET Person /\ \A p \in pooled : user[p] \in User /\ Share[p] \in Nat
    BY BurstAssumption DEF Typed
<1>3. d = [c EXCEPT !.session = k, !.burst = TRUE, !.members = m, !.trimmed = trims]
    BY DEF Rebound
<1>4. m \in [pooled -> Member]
    BY <1>1, <1>2 DEF Member
<1>5. \A p \in pooled : /\ m[p].opening = (IF Stays(p) THEN c.members[p].opening ELSE 0)
                        /\ m[p].opening \in Int
    BY <1>1
<1> DEFINE goes == \E p \in P : c.members[p].opening # 0 /\ ~(p \in pooled /\ Stays(p))
<1>6. trims = (c.trimmed \/ goes) /\ trims \in BOOLEAN
    BY CycleFields
<1> HIDE DEF m, trims, d
<1>7. m \in MemberMap
    BY <1>2, <1>4 DEF MemberMap
<1>8. /\ d \in CycleRow /\ d.session = k /\ d.burst /\ d.settled = "no" /\ d.into = c.into
      /\ d.credits = c.credits /\ d.account = c.account /\ d.resets = c.resets
      /\ d.members = m /\ d.trimmed = trims
    BY <1>3, <1>6, <1>7 DEF CycleRow
<1>9. DOMAIN d.members = pooled
    BY <1>4, <1>8
<1>10. Develops(c, d)
  <2>1. ASSUME NEW p, NEW v, v # 0, Has(c, p, v), ~d.trimmed
        PROVE  p \in DOMAIN d.members /\ d.members[p].opening = v
    <3>1. p \in P /\ c.members[p].opening = v
        BY <1>6, <1>8, <2>1 DEF Has
    <3>2. p \in pooled /\ Stays(p)
        BY <1>6, <1>8, <2>1, <3>1
    <3> QED
        BY <1>5, <1>8, <1>9, <3>1, <3>2
  <2>2. \A p, v : v # 0 /\ Has(c, p, v) => Has(d, p, v)
    BY <2>1 DEF Has
  <2> QED
    BY <1>8, <2>2 DEF Develops, Settled
<1>11. ASSUME ~c.trimmed => SumFunction(Openings(c)) = 0, ~d.trimmed
       PROVE  SumFunction(Openings(d)) = 0
  <2> DEFINE f == Openings(c)
             h == Openings(d)
  <2>1. ~c.trimmed /\ ~goes
    BY <1>6, <1>8, <1>11
  <2>2. f \in [P -> Int] /\ DOMAIN f = P /\ \A p \in P : f[p] = c.members[p].opening
    BY <1>1 DEF Openings
  <2>3. h \in [pooled -> Int] /\ DOMAIN h = pooled /\ \A p \in pooled : h[p] = m[p].opening
    BY <1>5, <1>8, <1>9 DEF Openings
  <2>4. /\ \A p \in P \cap pooled : f[p] = h[p]
        /\ \A p \in P \ pooled : f[p] = 0
        /\ \A p \in pooled \ P : h[p] = 0
    BY <1>5, <2>1, <2>2, <2>3
  <2> HIDE DEF f, h
  <2>5. SumFunctionOnSet(f, P) = SumFunctionOnSet(h, pooled)
    BY <1>1, <1>2, <2>2, <2>3, <2>4, SameSum
  <2>6. SumFunction(f) = 0
    BY <1>11, <2>1 DEF f
  <2> QED
    BY <2>2, <2>3, <2>5, <2>6 DEF SumFunction, h
<1> QED
    BY <1>8, <1>9, <1>10, <1>11 DEF d

LEMMA FreshRow ==
    ASSUME Typed, pooled # {}, NEW k \in Nat, NEW a \in Account, NEW r \in Times
    PROVE  LET d == NewCycle(k, a, r, TRUE, Members(NoCredits))
           IN /\ d \in CycleRow /\ d.settled = "no" /\ d.into = 0 /\ d.credits = NoCredits
              /\ d.session = k /\ d.account = a /\ d.resets = r /\ d.burst
              /\ DOMAIN d.members # {} /\ SumFunction(Openings(d)) = 0
<1> DEFINE m == Members(NoCredits)
           d == NewCycle(k, a, r, TRUE, m)
<1>1. m \in MemberMap /\ DOMAIN m = pooled /\ SumFunction([p \in pooled |-> m[p].opening]) = 0
    BY FreshMembers
<1> HIDE DEF m
<1>2. d = [session |-> k, account |-> a, resets |-> r, burst |-> TRUE, members |-> m,
           edits |-> <<>>, settled |-> "no", credits |-> NoCredits, into |-> 0, trimmed |-> FALSE]
    BY DEF NewCycle
<1> HIDE DEF d
<1>3. d \in CycleRow
    BY <1>1, <1>2 DEF CycleRow
<1>4. Openings(d) = [p \in pooled |-> m[p].opening]
    BY <1>1, <1>2 DEF Openings
<1>5. /\ d.settled = "no" /\ d.into = 0 /\ d.credits = NoCredits
      /\ d.session = k /\ d.account = a /\ d.resets = r /\ d.burst /\ d.members = m
    BY <1>2
<1> QED
    BY <1>1, <1>3, <1>4, <1>5 DEF d, m

\* The cycles when those of the accounts of A are open; the round is the last session's.
OpenedSo(ss, W, last, base, A) ==
    {x \in Seq(CycleRow) :
       /\ Shaped([sessions |-> ss, cycles |-> x])
       /\ InTurn(x) /\ Balanced(x) /\ Arrived(x, W) /\ Behind(x, W, last)
       /\ \A j \in DOMAIN base : j \in DOMAIN x /\ (base[j].settled # "no" => x[j] = base[j])
       /\ \A j \in DOMAIN x :
            /\ x[j].session = Len(ss) => x[j].burst /\ x[j].settled = "no" /\ x[j].account \in A
            /\ x[j].burst /\ x[j].settled = "no" => x[j].session = Len(ss)
       /\ \A a \in A : \E j \in DOMAIN x : x[j].session = Len(ss) /\ x[j].account = a}

LEMMA OpensExisting ==
    ASSUME NEW ss, Len(ss) \in DOMAIN ss, NEW W, NEW last, NEW base, NEW A, NEW a, a \notin A,
           NEW x \in OpenedSo(ss, W, last, base, A),
           NEW i \in DOMAIN x, x[i].settled = "no", x[i].account = a,
           NEW d \in CycleRow, Develops(x[i], d), DOMAIN d.members # {},
           d.session = Len(ss), d.burst, d.settled = "no", d.into = x[i].into, d.credits = x[i].credits,
           (~x[i].trimmed => SumFunction(Openings(x[i])) = 0) =>
                (~d.trimmed => SumFunction(Openings(d)) = 0)
    PROVE  [x EXCEPT ![i] = d] \in OpenedSo(ss, W, last, base, A \cup {a})
<1> DEFINE x2 == [x EXCEPT ![i] = d]
           k == Len(ss)
           st == [sessions |-> ss, cycles |-> x]
           y == [sessions |-> ss, cycles |-> x2]
<1>1. /\ x \in Seq(CycleRow) /\ Shaped(st) /\ InTurn(x) /\ Balanced(x) /\ Arrived(x, W) /\ Behind(x, W, last)
      /\ \A j \in DOMAIN base : j \in DOMAIN x /\ (base[j].settled # "no" => x[j] = base[j])
      /\ \A j \in DOMAIN x :
            /\ x[j].session = k => x[j].burst /\ x[j].settled = "no" /\ x[j].account \in A
            /\ x[j].burst /\ x[j].settled = "no" => x[j].session = k
      /\ \A b \in A : \E j \in DOMAIN x : x[j].session = k /\ x[j].account = b
    BY DEF OpenedSo
<1>2. /\ x2 \in Seq(CycleRow) /\ Len(x2) = Len(x) /\ DOMAIN x2 = DOMAIN x
      /\ x2[i] = d /\ \A j \in DOMAIN x \ {i} : x2[j] = x[j]
    BY <1>1, RowReplaced
<1>3. d.account = a /\ d.resets = x[i].resets
    BY DEF Develops
<1> HIDE DEF x2
<1>4. st.sessions = ss /\ st.cycles = x /\ y.sessions = ss /\ y.cycles = x2
    OBVIOUS
<1> HIDE DEF st, y, k
<1>5. Developed(x, x2)
  <2>1. \A j \in DOMAIN x : Develops(x[j], x2[j])
    BY <1>2 DEF Develops
  <2> QED
    BY <1>1, <1>2, <2>1 DEF Developed
<1>6. \A j \in DOMAIN x : /\ DOMAIN x[j].members # {} /\ x[j].session \in DOMAIN ss
                          /\ x[j].settled = "carried" => x[j].into > x[j].resets /\ x[j].credits # NoCredits
                          /\ x[j].settled # "carried" => x[j].into = 0 /\ x[j].credits = NoCredits
    BY <1>1, <1>4 DEF Shaped
<1>7. Shaped(y)
  <2>1. ASSUME NEW j \in DOMAIN x2
        PROVE  /\ DOMAIN x2[j].members # {} /\ x2[j].session \in DOMAIN ss
               /\ x2[j].settled = "carried" => x2[j].into > x2[j].resets /\ x2[j].credits # NoCredits
               /\ x2[j].settled # "carried" => x2[j].into = 0 /\ x2[j].credits = NoCredits
    <3>1. CASE j = i
        BY <1>2, <1>6, <3>1
    <3>2. CASE j # i
      <4>1. j \in DOMAIN x /\ x2[j] = x[j]
        BY <1>2, <3>2
      <4> QED
        BY <1>6, <4>1
    <3> QED
        BY <3>1, <3>2
  <2> QED
    BY <1>4, <2>1 DEF Shaped
<1>8. InTurn(x2)
  <2> SUFFICES ASSUME NEW j \in DOMAIN x2, NEW l \in DOMAIN x2, j # l,
                      x2[j].session = x2[l].session, x2[j].account = x2[l].account
               PROVE  x2[j].resets # x2[l].resets /\ (x2[j].resets < x2[l].resets => x2[j].settled # "no")
    BY DEF InTurn
  <2>1. \A m \in DOMAIN x : ~(x[m].session = k /\ x[m].account = a)
    BY <1>1
  <2>2. j # i
    <3> SUFFICES ASSUME j = i PROVE FALSE
        OBVIOUS
    <3>1. l \in DOMAIN x /\ x[l].session = k /\ x[l].account = a
        BY <1>2, <1>3 DEF k
    <3> QED
        BY <2>1, <3>1
  <2>3. l # i
    <3> SUFFICES ASSUME l = i PROVE FALSE
        OBVIOUS
    <3>1. j \in DOMAIN x /\ x[j].session = k /\ x[j].account = a
        BY <1>2, <1>3 DEF k
    <3> QED
        BY <2>1, <3>1
  <2>4. x2[j] = x[j] /\ x2[l] = x[l] /\ j \in DOMAIN x /\ l \in DOMAIN x
    BY <1>2, <2>2, <2>3
  <2> QED
    BY <1>1, <2>4 DEF InTurn
<1>9. Balanced(x2)
  <2>1. ASSUME NEW j \in DOMAIN x2, ~x2[j].trimmed PROVE SumFunction(Openings(x2[j])) = 0
    <3>1. CASE j = i
        BY <1>1, <1>2, <2>1, <3>1 DEF Balanced
    <3>2. CASE j # i
        BY <1>1, <1>2, <2>1, <3>2 DEF Balanced
    <3> QED
        BY <3>1, <3>2
  <2> QED
    BY <2>1 DEF Balanced
<1>10. Arrived(x2, W)
  <2>1. IntoNext(x)
    BY <1>6 DEF IntoNext
  <2>2. ASSUME NEW j \in DOMAIN x2, Carries(x2, W, j) PROVE ArrivedAt(x2, j)
    <3>1. j \in DOMAIN x /\ x[j].settled = "carried"
        BY <1>2, <2>2 DEF Carries
    <3> QED
        BY <1>1, <1>5, <2>1, <2>2, <3>1, StillArrived
  <2> QED
    BY <2>2, ArrivedIs
<1>11. Behind(x2, W, last)
  <2> SUFFICES ASSUME NEW j \in DOMAIN x2, x2[j].settled \in {"plain", "carried"}, x2[j].account \notin W
               PROVE  x2[j].resets < last[x2[j].account]
    BY DEF Behind
  <2>1. j \in DOMAIN x /\ x2[j] = x[j]
    BY <1>2
  <2> QED
    BY <1>1, <2>1 DEF Behind
<1>12. \A j \in DOMAIN base : j \in DOMAIN x2 /\ (base[j].settled # "no" => x2[j] = base[j])
    BY <1>1, <1>2
<1>13. \A j \in DOMAIN x2 :
            /\ x2[j].session = k => x2[j].burst /\ x2[j].settled = "no" /\ x2[j].account \in A \cup {a}
            /\ x2[j].burst /\ x2[j].settled = "no" => x2[j].session = k
  <2> TAKE j \in DOMAIN x2
  <2>1. CASE j = i
    BY <1>2, <1>3, <2>1 DEF k
  <2>2. CASE j # i
    BY <1>1, <1>2, <2>2
  <2> QED
    BY <2>1, <2>2
<1>14. \A b \in A \cup {a} : \E j \in DOMAIN x2 : x2[j].session = k /\ x2[j].account = b
  <2> TAKE b \in A \cup {a}
  <2>1. CASE b = a
    BY <1>2, <1>3, <2>1 DEF k
  <2>2. CASE b \in A
    <3>1. PICK j \in DOMAIN x : x[j].session = k /\ x[j].account = b
        BY <1>1, <2>2
    <3>2. j # i
        BY <2>2, <3>1
    <3> QED
        BY <1>2, <3>1, <3>2
  <2> QED
    BY <2>1, <2>2
<1>15. x2 \in OpenedSo(ss, W, last, base, A \cup {a})
    BY <1>2, <1>7, <1>8, <1>9, <1>10, <1>11, <1>12, <1>13, <1>14 DEF OpenedSo, y, k
<1> QED
    BY <1>15 DEF x2

\* A new cycle hides nothing in force: what its window had is settled, and so was
\* cancelled, or belongs to a reset that was taken back.
LEMMA OpensNew ==
    ASSUME NEW ss, Len(ss) \in DOMAIN ss, NEW W, NEW last, NEW base, NEW A, NEW a, a \notin A,
           NEW x \in OpenedSo(ss, W, last, base, A),
           NEW d \in CycleRow, d.settled = "no", d.into = 0, d.credits = NoCredits,
           d.session = Len(ss), d.burst, d.account = a, d.resets = last[a], DOMAIN d.members # {},
           SumFunction(Openings(d)) = 0,
           NewestFor(x, a, last[a]) # 0 => x[NewestFor(x, a, last[a])].settled # "no",
           NEW x2, Added(x, x2, d)
    PROVE  x2 \in OpenedSo(ss, W, last, base, A \cup {a})
<1> DEFINE k == Len(ss)
           n == Len(x) + 1
           r == last[a]
           st == [sessions |-> ss, cycles |-> x]
           y == [sessions |-> ss, cycles |-> x2]
<1>1. /\ x \in Seq(CycleRow) /\ Shaped(st) /\ InTurn(x) /\ Balanced(x) /\ Arrived(x, W) /\ Behind(x, W, last)
      /\ \A j \in DOMAIN base : j \in DOMAIN x /\ (base[j].settled # "no" => x[j] = base[j])
      /\ \A j \in DOMAIN x :
            /\ x[j].session = k => x[j].burst /\ x[j].settled = "no" /\ x[j].account \in A
            /\ x[j].burst /\ x[j].settled = "no" => x[j].session = k
      /\ \A b \in A : \E j \in DOMAIN x : x[j].session = k /\ x[j].account = b
    BY DEF OpenedSo
<1>2. /\ x2 \in Seq(CycleRow) /\ Len(x) \in Nat /\ DOMAIN x = 1 .. Len(x) /\ DOMAIN x2 = 1 .. n
      /\ x2[n] = d /\ \A j \in DOMAIN x : j \in DOMAIN x2 /\ x2[j] = x[j]
    BY DEF Added
<1>3. n \in DOMAIN x2 /\ n \notin DOMAIN x /\ \A j \in DOMAIN x2 : j = n \/ (j \in DOMAIN x /\ x2[j] = x[j])
    BY <1>2
<1>4. st.sessions = ss /\ st.cycles = x /\ y.sessions = ss /\ y.cycles = x2
    OBVIOUS
<1> HIDE DEF st, y, k, n
<1>5. \A j \in DOMAIN x : /\ DOMAIN x[j].members # {} /\ x[j].session \in DOMAIN ss
                          /\ x[j].settled = "carried" => x[j].into > x[j].resets /\ x[j].credits # NoCredits
                          /\ x[j].settled # "carried" => x[j].into = 0 /\ x[j].credits = NoCredits
    BY <1>1, <1>4 DEF Shaped
<1>6. Shaped(y)
  <2>1. ASSUME NEW j \in DOMAIN x2
        PROVE  /\ DOMAIN x2[j].members # {} /\ x2[j].session \in DOMAIN ss
               /\ x2[j].settled = "carried" => x2[j].into > x2[j].resets /\ x2[j].credits # NoCredits
               /\ x2[j].settled # "carried" => x2[j].into = 0 /\ x2[j].credits = NoCredits
    <3>1. CASE j = n
        BY <1>2, <3>1
    <3>2. CASE j \in DOMAIN x /\ x2[j] = x[j]
        BY <1>5, <3>2
    <3> QED
        BY <1>3, <3>1, <3>2
  <2> QED
    BY <1>4, <2>1 DEF Shaped
<1>7. InTurn(x2)
  <2> SUFFICES ASSUME NEW j \in DOMAIN x2, NEW l \in DOMAIN x2, j # l,
                      x2[j].session = x2[l].session, x2[j].account = x2[l].account
               PROVE  x2[j].resets # x2[l].resets /\ (x2[j].resets < x2[l].resets => x2[j].settled # "no")
    BY DEF InTurn
  <2>1. \A m \in DOMAIN x : ~(x[m].session = k /\ x[m].account = a)
    BY <1>1
  <2>2. j # n
    <3> SUFFICES ASSUME j = n PROVE FALSE
        OBVIOUS
    <3>1. l \in DOMAIN x /\ x[l].session = k /\ x[l].account = a
        BY <1>2, <1>3 DEF k
    <3> QED
        BY <2>1, <3>1
  <2>3. l # n
    <3> SUFFICES ASSUME l = n PROVE FALSE
        OBVIOUS
    <3>1. j \in DOMAIN x /\ x[j].session = k /\ x[j].account = a
        BY <1>2, <1>3 DEF k
    <3> QED
        BY <2>1, <3>1
  <2>4. x2[j] = x[j] /\ x2[l] = x[l] /\ j \in DOMAIN x /\ l \in DOMAIN x
    BY <1>3, <2>2, <2>3
  <2> QED
    BY <1>1, <2>4 DEF InTurn
<1>8. Balanced(x2)
    BY <1>1, <1>2, <1>3 DEF Balanced
<1>9. Behind(x2, W, last)
  <2> SUFFICES ASSUME NEW j \in DOMAIN x2, x2[j].settled \in {"plain", "carried"}, x2[j].account \notin W
               PROVE  x2[j].resets < last[x2[j].account]
    BY DEF Behind
  <2>1. j \in DOMAIN x /\ x2[j] = x[j]
    BY <1>2, <1>3
  <2> QED
    BY <1>1, <2>1 DEF Behind
<1>10. Arrived(x2, W)
  <2>1. ASSUME NEW j \in DOMAIN x2, Carries(x2, W, j) PROVE ArrivedAt(x2, j)
    <3>1. j \in DOMAIN x /\ x2[j] = x[j] /\ x[j].settled = "carried"
        BY <1>2, <1>3, <2>1 DEF Carries
    <3>2. Carries(x, W, j) /\ ArrivedAt(x, j)
        BY <1>1, <2>1, <3>1, ArrivedWithAnother, ArrivedIs
    <3>3. ASSUME x[j].account = a, x[j].into = r, NEW p \in DOMAIN x[j].credits, x[j].credits[p] # 0
          PROVE  FALSE
      <4> DEFINE i == NewestFor(x, a, r)
      <4>1. i # 0
        BY <3>2, <3>3 DEF ArrivedAt
      <4>2. i \in DOMAIN x /\ x[i].account = a /\ x[i].resets = r /\ x[i].settled # "no"
        <5>1. i \in InWindow(x, a, r)
            BY <1>1, <4>1, NewestIs
        <5> QED
            BY <4>1, <5>1 DEF InWindow
      <4> HIDE DEF i
      <4>3. x[i].settled \in {"plain", "cancelled", "carried"} /\ x[i].resets \in Nat
        <5>1. x[i] \in CycleRow
            BY <1>1, <4>2
        <5> QED
            BY <4>2, <5>1, CycleFields
      <4>4. CASE x[i].settled = "cancelled"
        <5>1. CancelledIn(x2, a, r)
            BY <1>2, <4>2, <4>4 DEF CancelledIn
        <5> QED
            BY <2>1, <3>1, <3>3, <5>1 DEF Carries
      <4>5. CASE x[i].settled # "cancelled"
        <5>1. a \notin W
            BY <3>2, <3>3 DEF Carries
        <5>2. x[i].resets < last[x[i].account]
            BY <1>1, <4>2, <4>3, <4>5, <5>1 DEF Behind
        <5> DEFINE z == x[i].resets
        <5>3. z < z /\ z \in Nat
            BY <4>2, <4>3, <5>2
        <5> HIDE DEF z
        <5> QED
            BY <5>3
      <4> QED
        BY <4>4, <4>5
    <3> QED
        BY <2>1, <3>1, <3>2, <3>3, ArrivedWithAnother
  <2> QED
    BY <2>1, ArrivedIs
<1>11. \A j \in DOMAIN base : j \in DOMAIN x2 /\ (base[j].settled # "no" => x2[j] = base[j])
    BY <1>1, <1>2
<1>12. \A j \in DOMAIN x2 :
            /\ x2[j].session = k => x2[j].burst /\ x2[j].settled = "no" /\ x2[j].account \in A \cup {a}
            /\ x2[j].burst /\ x2[j].settled = "no" => x2[j].session = k
  <2> TAKE j \in DOMAIN x2
  <2>1. CASE j = n
    BY <1>2, <2>1 DEF k
  <2>2. CASE j \in DOMAIN x /\ x2[j] = x[j]
    BY <1>1, <2>2
  <2> QED
    BY <1>3, <2>1, <2>2
<1>13. \A b \in A \cup {a} : \E j \in DOMAIN x2 : x2[j].session = k /\ x2[j].account = b
  <2> TAKE b \in A \cup {a}
  <2>1. CASE b = a
    BY <1>2, <1>3, <2>1 DEF k
  <2>2. CASE b \in A
    <3>1. PICK j \in DOMAIN x : x[j].session = k /\ x[j].account = b
        BY <1>1, <2>2
    <3> QED
        BY <1>2, <3>1
  <2> QED
    BY <2>1, <2>2
<1> QED
    BY <1>2, <1>6, <1>7, <1>8, <1>9, <1>10, <1>11, <1>12, <1>13 DEF OpenedSo, y, k

LEMMA OpenKeeps ==
    ASSUME Typed, pooled # {}, NEW ss, Len(ss) \in DOMAIN ss, Len(ss) \in Nat, NEW W, NEW base,
           NEW A \in SUBSET Account, NEW a \in Account \ A, Windows(a) # {},
           NEW x \in OpenedSo(ss, W, LastWindow, base, A)
    PROVE  OpenCycle(x, a, Len(ss)) \in OpenedSo(ss, W, LastWindow, base, A \cup {a})
<1> DEFINE k == Len(ss)
           r == Latest(a)
           i == NewestFor(x, a, r)
           d == NewCycle(k, a, r, TRUE, Members(NoCredits))
<1>1. x \in Seq(CycleRow) /\ Balanced(x) /\ r \in Times /\ LastWindow[a] = r /\ a \in Account /\ a \notin A
    BY WindowsKnown DEF OpenedSo
<1>2. i # 0 => i \in DOMAIN x /\ x[i].account = a /\ x[i] \in CycleRow
  <2>1. i # 0 => i \in InWindow(x, a, r)
    BY <1>1, NewestIs
  <2> QED
    BY <1>1, <2>1 DEF InWindow
<1>3. OpenCycle(x, a, k) = IF i # 0 /\ x[i].settled = "no" THEN [x EXCEPT ![i] = Rebound(x[i], k)]
                           ELSE Append(x, d)
    BY DEF OpenCycle
<1> HIDE DEF i, d, r, k
<1>4. CASE i # 0 /\ x[i].settled = "no"
  <2> DEFINE e == Rebound(x[i], k)
  <2>1. /\ e \in CycleRow /\ Develops(x[i], e) /\ DOMAIN e.members # {}
        /\ e.session = k /\ e.burst /\ e.settled = "no" /\ e.into = x[i].into /\ e.credits = x[i].credits
        /\ (~x[i].trimmed => SumFunction(Openings(x[i])) = 0) =>
              (~e.trimmed => SumFunction(Openings(e)) = 0)
    BY <1>2, <1>4, ReboundRow DEF k
  <2> HIDE DEF e
  <2>2. [x EXCEPT ![i] = e] \in OpenedSo(ss, W, LastWindow, base, A \cup {a})
    BY <1>1, <1>2, <1>4, <2>1, OpensExisting DEF k
  <2> QED
    BY <1>3, <1>4, <2>2 DEF e, k
<1>5. CASE ~(i # 0 /\ x[i].settled = "no")
  <2> DEFINE x2 == Append(x, d)
  <2>1. /\ d \in CycleRow /\ d.settled = "no" /\ d.into = 0 /\ d.credits = NoCredits
        /\ d.session = k /\ d.account = a /\ d.resets = r /\ d.burst
        /\ DOMAIN d.members # {} /\ SumFunction(Openings(d)) = 0
    <3>1. k \in Nat /\ a \in Account /\ r \in Times
        BY <1>1 DEF k
    <3> QED
        BY <3>1, FreshRow DEF d
  <2>2. Added(x, x2, d)
    BY <1>1, <2>1, RowAdded
  <2>3. NewestFor(x, a, LastWindow[a]) # 0 => x[NewestFor(x, a, LastWindow[a])].settled # "no"
    BY <1>1, <1>5 DEF i
  <2> HIDE DEF x2
  <2>4. x2 \in OpenedSo(ss, W, LastWindow, base, A \cup {a})
    BY <1>1, <2>1, <2>2, <2>3, OpensNew DEF k
  <2> QED
    BY <1>3, <1>5, <2>4 DEF x2, k
<1> QED
    BY <1>4, <1>5

LEMMA AllOpenedSo ==
    ASSUME Typed, pooled # {}, NEW ss, Len(ss) \in DOMAIN ss, Len(ss) \in Nat, NEW W, NEW base,
           \A a \in Account : Windows(a) # {},
           NEW cs \in OpenedSo(ss, W, LastWindow, base, {})
    PROVE  AllOpened(cs, Len(ss)) \in OpenedSo(ss, W, LastWindow, base, Account)
<1> DEFINE V == Seq(CycleRow)
           K == [A \in SUBSET Account |-> OpenedSo(ss, W, LastWindow, base, A)]
           k == Len(ss)
<1>1. K \in [SUBSET Account -> SUBSET V]
    BY DEF OpenedSo
<1>2. \A A \in SUBSET Account : K[A] = OpenedSo(ss, W, LastWindow, base, A)
    OBVIOUS
<1>3. {} \in SUBSET Account /\ Account \in SUBSET Account
    OBVIOUS
<1> HIDE DEF K
<1>4. cs \in K[{}]
    BY <1>2, <1>3
<1>5. ASSUME NEW A \in SUBSET Account, NEW a \in Account \ A, NEW x \in K[A]
      PROVE  OpenCycle(x, a, k) \in K[A \cup {a}]
  <2>1. x \in OpenedSo(ss, W, LastWindow, base, A)
    BY <1>2
  <2>2. OpenCycle(x, a, k) \in OpenedSo(ss, W, LastWindow, base, A \cup {a})
    BY <2>1, OpenKeeps
  <2>3. A \cup {a} \in SUBSET Account
    OBVIOUS
  <2> QED
    BY <1>2, <2>2, <2>3
<1> HIDE DEF V, k
<1>6. AllOpened(cs, k) \in K[Account]
    BY <1>1, <1>4, <1>5, AllOpenedKeeps
<1> QED
    BY <1>2, <1>3, <1>6 DEF k

-----------------------------------------------------------------------------
(* The actions *)

LEMMA InitTyped ==
    ASSUME Init
    PROVE  IInv
<1>1. cycles = <<>> /\ sessions = <<>> /\ DOMAIN cycles = {} /\ DOMAIN sessions = {}
    BY DEF Init
<1>2. Rows \in RowSet /\ Rows.cycles = cycles /\ Rows.sessions = sessions
    BY <1>1 DEF Rows, RowSet
<1>3. Typed
    BY <1>2, BurstAssumption DEF Init, Typed
<1>4. Sound(Rows, withdrawn, LastWindow)
    BY <1>1, <1>2 DEF Sound, Shaped, InTurn, Rounds, Balanced, Arrived, Behind
<1> QED
    BY <1>3, <1>4 DEF IInv

\* The invariant of rows does not mind more windows, or more resets taken back.
LEMMA SoundLater ==
    ASSUME NEW st, NEW W, NEW last, Sound(st, W, last), NEW W2, W \subseteq W2, NEW last2,
           Behind(st.cycles, W2, last2)
    PROVE  Sound(st, W2, last2)
<1>1. \A i \in DOMAIN st.cycles : Carries(st.cycles, W2, i) => Carries(st.cycles, W, i)
    BY DEF Carries
<1>2. Arrived(st.cycles, W2)
    BY <1>1, ArrivedIs DEF Sound
<1> QED
    BY <1>2 DEF Sound

\* Rows with cycles that were cancelled or edited, and nothing else.
LEMMA DevelopedSound ==
    ASSUME NEW st \in RowSet, NEW W, NEW last, Sound(st, W, last),
           NEW ss \in Seq(SessionRow), DOMAIN ss = DOMAIN st.sessions,
           NEW cs2, Developed(st.cycles, cs2),
           \A j \in DOMAIN st.cycles :
              /\ cs2[j].session = st.cycles[j].session /\ cs2[j].members = st.cycles[j].members
              /\ cs2[j].trimmed = st.cycles[j].trimmed
              /\ cs2[j].into = st.cycles[j].into /\ cs2[j].credits = st.cycles[j].credits
              /\ cs2[j].settled = st.cycles[j].settled \/ cs2[j].settled = "cancelled"
    PROVE  LET y == [sessions |-> ss, cycles |-> cs2]
           IN y \in RowSet /\ (Rounds(y) => Sound(y, W, last))
<1> DEFINE cs == st.cycles
           y == [sessions |-> ss, cycles |-> cs2]
<1>1. cs2 \in Seq(CycleRow) /\ DOMAIN cs2 = DOMAIN cs
    BY DEF Developed
<1>2. \A j \in DOMAIN cs : /\ cs2[j].account = cs[j].account /\ cs2[j].resets = cs[j].resets
                           /\ cs[j].settled # "no" => cs2[j] = cs[j]
    BY DEF Developed, Develops, Settled
<1>3. y \in RowSet /\ y.sessions = ss /\ y.cycles = cs2
    BY <1>1 DEF RowSet
<1> HIDE DEF y
<1>4. Shaped(y)
  <2>1. ASSUME NEW j \in DOMAIN cs2
        PROVE  /\ DOMAIN cs2[j].members # {} /\ cs2[j].session \in DOMAIN ss
               /\ cs2[j].settled = "carried" => cs2[j].into > cs2[j].resets /\ cs2[j].credits # NoCredits
               /\ cs2[j].settled # "carried" => cs2[j].into = 0 /\ cs2[j].credits = NoCredits
    <3>1. /\ DOMAIN cs[j].members # {} /\ cs[j].session \in DOMAIN st.sessions
          /\ cs[j].settled = "carried" => cs[j].into > cs[j].resets /\ cs[j].credits # NoCredits
          /\ cs[j].settled # "carried" => cs[j].into = 0 /\ cs[j].credits = NoCredits
        BY <1>1 DEF Sound, Shaped
    <3>2. CASE cs[j].settled # "no"
        BY <1>1, <1>2, <3>1, <3>2
    <3>3. CASE cs[j].settled = "no"
        BY <1>1, <3>1, <3>3
    <3> QED
        BY <3>2, <3>3
  <2> QED
    BY <1>3, <2>1 DEF Shaped
<1>5. InTurn(cs2)
  <2>1. InTurn(cs)
    BY DEF Sound
  <2>2. \A j \in DOMAIN cs2 : cs[j].settled # "no" => cs2[j].settled # "no"
    BY <1>1, <1>2
  <2>3. \A j \in DOMAIN cs2 : /\ cs2[j].session = cs[j].session /\ cs2[j].account = cs[j].account
                              /\ cs2[j].resets = cs[j].resets
    BY <1>1, <1>2
  <2> QED
    BY <1>1, <2>1, <2>2, <2>3 DEF InTurn
<1>6. Balanced(cs2)
  <2>1. \A j \in DOMAIN cs2 : cs2[j].trimmed = cs[j].trimmed /\ Openings(cs2[j]) = Openings(cs[j])
    BY <1>1 DEF Openings
  <2> QED
    BY <1>1, <2>1 DEF Balanced, Sound
<1>7. \A j \in DOMAIN cs2 : Carries(cs2, W, j) => ArrivedAt(cs2, j)
  <2>1. IntoNext(cs) /\ Arrived(cs, W)
    BY DEF Sound, Shaped, IntoNext
  <2>2. ASSUME NEW j \in DOMAIN cs2, Carries(cs2, W, j) PROVE ArrivedAt(cs2, j)
    <3>1. j \in DOMAIN cs /\ cs[j].settled = "carried"
      <4>1. cs2[j].settled = "carried"
        BY <2>2 DEF Carries
      <4> QED
        BY <1>1, <4>1
    <3> QED
        BY <2>1, <2>2, <3>1, StillArrived
  <2> QED
    BY <2>2
<1>8. Behind(cs2, W, last)
  <2> SUFFICES ASSUME NEW j \in DOMAIN cs2, cs2[j].settled \in {"plain", "carried"}, cs2[j].account \notin W
               PROVE  cs2[j].resets < last[cs2[j].account]
    BY DEF Behind
  <2>1. j \in DOMAIN cs /\ cs[j].settled \in {"plain", "carried"}
    BY <1>1
  <2>2. cs2[j].account = cs[j].account /\ cs2[j].resets = cs[j].resets
    BY <1>2, <2>1
  <2> QED
    BY <2>1, <2>2 DEF Behind, Sound
<1>9. Rounds(y) => Sound(y, W, last)
    BY <1>3, <1>4, <1>5, <1>6, <1>7, <1>8, SoundFrom
<1> QED
    BY <1>3, <1>9 DEF y

\* The account's known windows after a sample of the one that resets at r.
LEMMA SampledWindows ==
    ASSUME Typed, NEW a \in Account, NEW r \in Times, \A q \in Windows(a) : q <= r,
           NEW x \in Reading, seen' = [seen EXCEPT ![a] = [seen[a] EXCEPT ![r] = x]]
    PROVE  LastWindow' = [LastWindow EXCEPT ![a] = r]
<1>1. x # NoReading
    BY BurstAssumption
<1>2. seen'[a] = [seen[a] EXCEPT ![r] = x] /\ \A b \in Account : b # a => seen'[b] = seen[b]
    BY DEF Typed
<1>3. Windows(a)' = Windows(a) \cup {r}
  <2>1. seen[a] \in [Times -> Reading \cup {NoReading}]
    BY DEF Typed
  <2>2. seen'[a][r] = x /\ \A q \in Times : q # r => seen'[a][q] = seen[a][q]
    BY <1>2, <2>1
  <2>3. Windows(a)' = {q \in Times : seen'[a][q] # NoReading}
    BY DEF Windows, Times
  <2> QED
    BY <1>1, <2>2, <2>3 DEF Windows
<1>4. Latest(a)' = r
  <2>1. r \in Nat /\ \A q \in Windows(a)' : q <= r /\ q \in Nat
    BY <1>3, Constants DEF Windows
  <2>2. r \in Windows(a)' /\ \A t \in Windows(a)' : (\A q \in Windows(a)' : q <= t) => t = r
    <3>1. ASSUME NEW t \in Windows(a)', \A q \in Windows(a)' : q <= t PROVE t = r
      <4>1. r <= t /\ t <= r /\ t \in Nat
        BY <1>3, <2>1, <3>1
      <4> QED
        BY <2>1, <4>1
    <3> QED
        BY <1>3, <3>1
  <2>3. Latest(a)' = CHOOSE t \in Windows(a)' : \A q \in Windows(a)' : q <= t
    BY DEF Latest
  <2> QED
    BY <2>1, <2>2, <2>3
<1>5. ASSUME NEW b \in Account, b # a PROVE LastWindow'[b] = LastWindow[b]
  <2>1. Windows(b)' = Windows(b)
    BY <1>2, <1>5 DEF Windows, Times
  <2>2. Latest(b)' = Latest(b)
    BY <2>1 DEF Latest
  <2> QED
    BY <2>1, <2>2 DEF LastWindow
<1>6. LastWindow'[a] = r
    BY <1>3, <1>4 DEF LastWindow
<1>7. DOMAIN LastWindow' = Account /\ DOMAIN LastWindow = Account
      /\ LastWindow' = [b \in Account |-> LastWindow'[b]]
    BY DEF LastWindow
<1> QED
    BY <1>5, <1>6, <1>7

\* Nothing of the rows, the readings or the withdrawn accounts changes.
LEMMA Untouched ==
    ASSUME IInv, Typed', UNCHANGED <<seen, sessions, cycles, withdrawn>>
    PROVE  IInv' /\ KeepsSettled(Rows, Rows')
<1>1. Rows' = Rows /\ withdrawn' = withdrawn /\ LastWindow' = LastWindow
    BY DEF Rows, LastWindow, Windows, Latest
<1>2. Sound(Rows, withdrawn, LastWindow)'
    BY <1>1 DEF IInv
<1>3. KeepsSettled(Rows, Rows')
    BY <1>1 DEF KeepsSettled
<1> QED
    BY <1>2, <1>3 DEF IInv

\* Windows learnt after cycles were settled are later ones.
LEMMA BehindLater ==
    ASSUME Typed, NEW cs \in Seq(CycleRow), NEW W, Behind(cs, W, LastWindow),
           NEW a \in Account, NEW r \in Times, \A q \in Windows(a) : q <= r
    PROVE  Behind(cs, W, [LastWindow EXCEPT ![a] = r])
<1> SUFFICES ASSUME NEW i \in DOMAIN cs, cs[i].settled \in {"plain", "carried"}, cs[i].account \notin W
             PROVE  cs[i].resets < [LastWindow EXCEPT ![a] = r][cs[i].account]
    BY DEF Behind
<1>1. cs[i].resets < LastWindow[cs[i].account]
    BY DEF Behind
<1>2. cs[i].account \in Account /\ cs[i].resets \in Nat
  <2>1. cs[i] \in CycleRow
    OBVIOUS
  <2> QED
    BY <2>1, CycleFields
<1>3. CASE cs[i].account # a
    BY <1>1, <1>2, <1>3 DEF LastWindow
<1>4. CASE cs[i].account = a
  <2>1. LastWindow[a] \in Nat /\ LastWindow[a] <= r /\ r \in Nat
    <3>1. r \in Nat /\ r >= 0
        BY Constants
    <3>2. CASE Windows(a) = {}
        BY <3>1, <3>2, WindowsKnown
    <3>3. CASE Windows(a) # {}
        BY <3>1, <3>3, WindowsKnown, Constants
    <3> QED
        BY <3>2, <3>3
  <2> DEFINE x == cs[i].resets
             z == LastWindow[a]
  <2>2. x < z /\ x \in Nat
    BY <1>1, <1>2, <1>4
  <2>3. [LastWindow EXCEPT ![a] = r][a] = r
    BY DEF LastWindow
  <2>4. x < r
    <3> HIDE DEF x, z
    <3>1. z \in Nat /\ z <= r /\ r \in Nat
        BY <2>1 DEF z
    <3> QED
        BY <2>2, <3>1
  <2> QED
    BY <1>4, <2>3, <2>4
<1> QED
    BY <1>3, <1>4

LEMMA SampleKeeps ==
    ASSUME IInv, NEW a \in Account, NEW r \in Times, NEW usage \in Usage, Sample(a, r, usage)
    PROVE  IInv' /\ KeepsSettled(Rows, Rows')
<1> DEFINE evidence == [k \in {<<p, user[p]>> : p \in pooled} |-> usage[k[1]]]
           before == IF seen[a][r] = NoReading THEN <<>> ELSE seen[a][r].used
           known == [k \in DOMAIN evidence \cup DOMAIN before |->
                       IF k \in DOMAIN evidence THEN evidence[k] ELSE before[k]]
           x == [used |-> known, latest |-> DOMAIN evidence]
           readings == [seen[a] EXCEPT ![r] = x]
           after == Reconcile(Rows, a, readings, r)
           last == [LastWindow EXCEPT ![a] = r]
<1>1. /\ \A q \in Windows(a) : q <= r
      /\ seen' = [seen EXCEPT ![a] = readings]
      /\ sessions' = after.sessions /\ cycles' = after.cycles
      /\ UNCHANGED <<connection, now, user, pooled, withdrawn>>
    BY DEF Sample, people
<1>2. Typed
    BY DEF IInv
<1>3. x \in Reading
  <2>1. evidence \in [{<<p, user[p]>> : p \in pooled} -> Nat] /\ DOMAIN evidence \subseteq Person \X User
    <3>1. usage \in [Person -> Nat]
        BY BurstAssumption
    <3>2. pooled \subseteq Person /\ user \in [Person -> User]
        BY <1>2 DEF Typed
    <3> QED
        BY <3>1, <3>2
  <2>2. before \in Evidence
    <3>1. seen[a][r] \in Reading \cup {NoReading}
        BY <1>2 DEF Typed
    <3>2. CASE seen[a][r] # NoReading
        BY <3>1, <3>2 DEF Reading, Evidence
    <3>3. CASE seen[a][r] = NoReading
      <4>1. <<>> \in [{} -> Nat] /\ {} \in SUBSET (Person \X User)
        OBVIOUS
      <4> QED
        BY <3>3, <4>1 DEF Evidence
    <3> QED
        BY <3>2, <3>3
  <2>3. PICK K \in SUBSET (Person \X User) : before \in [K -> Nat]
    BY <2>2 DEF Evidence
  <2> HIDE DEF evidence, before
  <2>4. known \in Evidence
    <3> DEFINE D == DOMAIN evidence \cup K
    <3>1. D \in SUBSET (Person \X User) /\ D = DOMAIN evidence \cup DOMAIN before
        BY <2>1, <2>3
    <3>2. known \in [D -> Nat]
        BY <2>1, <2>3
    <3> QED
        BY <3>1, <3>2 DEF Evidence
  <2> HIDE DEF known
  <2> QED
    BY <2>1, <2>4 DEF Reading, Evidence
<1> HIDE DEF x
<1>4. readings \in [Times -> Reading \cup {NoReading}]
  <2>1. seen[a] \in [Times -> Reading \cup {NoReading}]
    BY <1>2 DEF Typed
  <2> QED
    BY <1>3, <2>1
<1>5. LastWindow' = last
    BY <1>1, <1>2, <1>3, SampledWindows
<1>6. Rows \in RowSet /\ Sound(Rows, withdrawn, last)
  <2>1. Rows \in RowSet /\ Sound(Rows, withdrawn, LastWindow) /\ Rows.cycles \in Seq(CycleRow)
    BY DEF IInv, Typed, RowSet
  <2>2. Behind(Rows.cycles, withdrawn, last)
    BY <1>1, <1>2, <2>1, BehindLater DEF Sound
  <2> QED
    BY <2>1, <2>2, SoundLater
<1>7. Rows \in FollowingSoundly(Rows, withdrawn, last)
    BY <1>6 DEF FollowingSoundly, Follows, KeepsSettled
<1>8. last[a] = r
    BY DEF LastWindow
<1> HIDE DEF readings, last
<1>9. after \in FollowingSoundly(Rows, withdrawn, last)
    BY <1>2, <1>4, <1>7, <1>8, ReconcileSound
<1> HIDE DEF after
<1>10. after \in RowSet /\ Sound(after, withdrawn, last) /\ Follows(Rows, after)
    BY <1>9 DEF FollowingSoundly
<1>11. Rows' = after
  <2>1. after = [sessions |-> after.sessions, cycles |-> after.cycles]
    BY <1>10 DEF RowSet
  <2> QED
    BY <1>1, <2>1 DEF Rows
<1>12. Typed'
  <2>1. seen' \in [Account -> [Times -> Reading \cup {NoReading}]]
    BY <1>1, <1>2, <1>4 DEF Typed
  <2> QED
    BY <1>1, <1>2, <1>10, <1>11, <2>1 DEF Typed, Times, Reading, RowSet, SessionRow, CycleRow,
       MemberMap, Member, CreditMap, Edit, NoCredits
<1>13. Sound(Rows, withdrawn, LastWindow)'
    BY <1>1, <1>5, <1>10, <1>11
<1> QED
    BY <1>10, <1>11, <1>12, <1>13 DEF IInv, Follows

LEMMA StartKeeps ==
    ASSUME IInv, NEW carryover \in BOOLEAN, StartSession(carryover)
    PROVE  IInv' /\ KeepsSettled(Rows, Rows')
<1> DEFINE after == AllReconciled
           k == Len(sessions) + 1
           resets == {Latest(a) : a \in Account}
           expires == CHOOSE r \in resets : \A q \in resets : r <= q
           new == [url |-> connection, expires |-> expires,
                   ended |-> FALSE, terminated |-> FALSE, carryover |-> carryover]
           ss == Append(after.sessions, new)
           cs == AllOpened(after.cycles, k)
<1>1. /\ Account # {} /\ pooled # {}
      /\ \A a \in Account : Windows(a) # {}
      /\ NoneWaiting(after.cycles)
      /\ sessions' = ss /\ cycles' = cs
      /\ UNCHANGED <<now, connection, user, pooled, seen, withdrawn>>
    BY DEF StartSession, AllReconciled, AllOpened, people
<1>2. Typed
    BY DEF IInv
<1>3. after \in FollowingSoundly(Rows, withdrawn, LastWindow)
    BY <1>1, AllReconciledSound
<1> HIDE DEF after
<1>4. after \in RowSet /\ Sound(after, withdrawn, LastWindow) /\ Follows(Rows, after)
    BY <1>3 DEF FollowingSoundly
<1>5. /\ after.sessions \in Seq(SessionRow) /\ after.cycles \in Seq(CycleRow)
      /\ Len(after.sessions) = Len(sessions) /\ Len(sessions) \in Nat
  <2>1. sessions \in Seq(SessionRow)
    BY <1>2 DEF Typed, RowSet, Rows
  <2> QED
    BY <1>4, <2>1 DEF RowSet, Follows, Rows
<1>6. new \in SessionRow
  <2>1. \A a \in Account : Latest(a) \in Times
    BY <1>1, <1>2, WindowsKnown
  <2>2. resets \subseteq Times /\ resets \subseteq Nat /\ resets # {}
    BY <1>1, <2>1, Constants
  <2> HIDE DEF resets
  <2>3. \E r \in resets : \A q \in resets : r <= q
    BY <2>2, LeastNumber
  <2>4. expires \in resets
    BY <2>3
  <2> HIDE DEF expires
  <2>5. expires \in Times /\ connection \in Url
    BY <1>2, <2>2, <2>4 DEF Typed
  <2> QED
    BY <2>5 DEF SessionRow
<1>7. ~new.ended /\ ~new.terminated
    OBVIOUS
<1> HIDE DEF new
<1>8. /\ ss \in Seq(SessionRow) /\ Len(ss) = k /\ DOMAIN ss = 1 .. k /\ k \in Nat /\ k \in DOMAIN ss
      /\ ss[k] = new /\ DOMAIN after.sessions = 1 .. (k - 1)
      /\ \A n \in DOMAIN after.sessions : n \in DOMAIN ss /\ ss[n] = after.sessions[n]
    BY <1>5, <1>6, AppendProperties
<1>9. \A n \in DOMAIN after.sessions : after.sessions[n].ended
  <2> SUFFICES ASSUME NEW n \in DOMAIN after.sessions, ~after.sessions[n].ended PROVE FALSE
    OBVIOUS
  <2>1. PICK i \in DOMAIN after.cycles : after.cycles[i].session = n
    BY <1>4 DEF Sound, Rounds
  <2>2. after.cycles[i].burst /\ after.cycles[i].settled = "no"
    BY <1>4, <2>1 DEF Sound, Rounds
  <2> QED
    BY <1>1, <2>2 DEF NoneWaiting
<1> HIDE DEF ss
<1>10. after.cycles \in OpenedSo(ss, withdrawn, LastWindow, cycles, {})
  <2> DEFINE x == after.cycles
             st == [sessions |-> ss, cycles |-> x]
  <2>1. st.sessions = ss /\ st.cycles = x
    OBVIOUS
  <2> HIDE DEF st
  <2>2. \A j \in DOMAIN x : x[j].session \in DOMAIN after.sessions
    BY <1>4 DEF Sound, Shaped
  <2>3. Shaped(st)
    <3>1. \A j \in DOMAIN x : x[j].session \in DOMAIN ss
        BY <1>8, <2>2
    <3> QED
        BY <1>4, <2>1, <3>1 DEF Sound, Shaped
  <2>4. InTurn(x) /\ Balanced(x) /\ Arrived(x, withdrawn) /\ Behind(x, withdrawn, LastWindow)
    BY <1>4 DEF Sound
  <2>5. \A j \in DOMAIN x : x[j].session # k /\ ~(x[j].burst /\ x[j].settled = "no")
    <3>1. \A n \in 1 .. (k - 1) : n # k
        BY <1>8
    <3> QED
        BY <1>1, <1>8, <2>2, <3>1 DEF NoneWaiting
  <2>6. \A j \in DOMAIN cycles : j \in DOMAIN x /\ (cycles[j].settled # "no" => x[j] = cycles[j])
    BY <1>4 DEF Follows, KeepsSettled, Rows
  <2> QED
    BY <1>5, <1>8, <2>3, <2>4, <2>5, <2>6 DEF OpenedSo, st
<1>11. cs \in OpenedSo(ss, withdrawn, LastWindow, cycles, Account)
  <2>1. AllOpened(after.cycles, Len(ss)) \in OpenedSo(ss, withdrawn, LastWindow, cycles, Account)
    BY <1>1, <1>2, <1>8, <1>10, AllOpenedSo
  <2> QED
    BY <1>8, <2>1
<1> HIDE DEF cs
<1> DEFINE y == [sessions |-> ss, cycles |-> cs]
<1>12. /\ cs \in Seq(CycleRow) /\ Shaped(y) /\ InTurn(cs) /\ Balanced(cs)
       /\ Arrived(cs, withdrawn) /\ Behind(cs, withdrawn, LastWindow)
       /\ \A j \in DOMAIN cycles : j \in DOMAIN cs /\ (cycles[j].settled # "no" => cs[j] = cycles[j])
       /\ \A j \in DOMAIN cs : /\ cs[j].session = k => cs[j].burst /\ cs[j].settled = "no"
                               /\ cs[j].burst /\ cs[j].settled = "no" => cs[j].session = k
       /\ \A a \in Account : \E j \in DOMAIN cs : cs[j].session = k /\ cs[j].account = a
    BY <1>8, <1>11 DEF OpenedSo
<1>13. y.sessions = ss /\ y.cycles = cs /\ y \in RowSet
    BY <1>8, <1>12 DEF RowSet
<1>14. Rows' = y
    BY <1>1 DEF Rows
<1> HIDE DEF y
<1>15. Rounds(y)
  <2>1. ASSUME NEW n \in DOMAIN ss, ~ss[n].ended
        PROVE  /\ n = Len(ss) /\ ~ss[n].terminated
               /\ \A j \in DOMAIN cs : cs[j].session = n => cs[j].burst /\ cs[j].settled = "no"
               /\ \E j \in DOMAIN cs : cs[j].session = n
    <3>1. n = k
        BY <1>8, <1>9, <2>1
    <3>2. \E j \in DOMAIN cs : cs[j].session = k
        BY <1>1, <1>12
    <3> QED
        BY <1>7, <1>8, <1>12, <3>1, <3>2
  <2>2. ASSUME NEW j \in DOMAIN cs, cs[j].burst, cs[j].settled = "no"
        PROVE  cs[j].session = Len(ss) /\ ~ss[Len(ss)].terminated
    BY <1>7, <1>8, <1>12, <2>2
  <2> QED
    BY <1>13, <2>1, <2>2 DEF Rounds
<1>16. Sound(y, withdrawn, LastWindow)
    BY <1>12, <1>13, <1>15 DEF Sound, y
<1>17. LastWindow' = LastWindow
    BY <1>1 DEF LastWindow, Windows, Latest
<1>18. Typed'
    BY <1>1, <1>2, <1>13, <1>14 DEF Typed, Times, Reading, RowSet, SessionRow, CycleRow,
       MemberMap, Member, CreditMap, Edit, NoCredits
<1>19. Sound(Rows, withdrawn, LastWindow)'
    BY <1>1, <1>14, <1>16, <1>17
<1>20. KeepsSettled(Rows, Rows')
    BY <1>12, <1>13, <1>14 DEF KeepsSettled, Rows
<1> QED
    BY <1>18, <1>19, <1>20 DEF IInv

LEMMA StopKeeps ==
    ASSUME IInv, StopSession
    PROVE  IInv' /\ KeepsSettled(Rows, Rows')
<1> DEFINE k == Len(sessions)
           Waits(c) == c.session = k /\ c.settled = "no"
           stopped == [sessions[k] EXCEPT !.ended = TRUE, !.terminated = TRUE]
           ss == [sessions EXCEPT ![k].ended = TRUE, ![k].terminated = TRUE]
           cs2 == [i \in DOMAIN cycles |->
                     IF Waits(cycles[i]) THEN Close(cycles[i], "cancelled") ELSE cycles[i]]
           y == [sessions |-> ss, cycles |-> cs2]
<1>1. /\ k > 0 /\ sessions' = ss /\ cycles' = cs2
      /\ UNCHANGED <<now, connection, user, pooled, seen, withdrawn>>
    BY DEF StopSession, people
<1>2. Typed /\ Sound(Rows, withdrawn, LastWindow)
    BY DEF IInv
<1>3. /\ sessions \in Seq(SessionRow) /\ cycles \in Seq(CycleRow) /\ Rows \in RowSet
      /\ Rows.sessions = sessions /\ Rows.cycles = cycles /\ k \in DOMAIN sessions
    BY <1>1, <1>2 DEF Typed, RowSet, Rows
<1>4. /\ ss \in Seq(SessionRow) /\ Len(ss) = k /\ DOMAIN ss = DOMAIN sessions /\ ss[k].ended
      /\ \A n \in DOMAIN sessions : n # k => ss[n] = sessions[n]
  <2>1. sessions[k] \in SessionRow
    BY <1>3
  <2>2. stopped \in SessionRow /\ stopped.ended
    BY <2>1 DEF SessionRow
  <2>3. ss = [sessions EXCEPT ![k] = stopped]
    BY <1>3
  <2> HIDE DEF stopped, ss
  <2>4. ss \in Seq(SessionRow) /\ Len(ss) = k
    BY <1>3, <2>2, <2>3, ExceptSeq
  <2> QED
    BY <1>3, <2>2, <2>3, <2>4
<1> HIDE DEF ss
<1>5. ASSUME NEW i \in DOMAIN cycles
      PROVE  /\ cs2[i] \in CycleRow /\ Develops(cycles[i], cs2[i])
             /\ cs2[i].session = cycles[i].session /\ cs2[i].members = cycles[i].members
             /\ cs2[i].trimmed = cycles[i].trimmed /\ cs2[i].burst = cycles[i].burst
             /\ cs2[i].into = cycles[i].into /\ cs2[i].credits = cycles[i].credits
             /\ cs2[i].settled = IF Waits(cycles[i]) THEN "cancelled" ELSE cycles[i].settled
  <2>1. cycles[i] \in CycleRow
    BY <1>3
  <2> DEFINE c == cycles[i]
             d == Close(c, "cancelled")
  <2>2. CASE Waits(c)
    <3>1. /\ d \in CycleRow /\ d.settled = "cancelled"
          /\ d.session = c.session /\ d.account = c.account /\ d.resets = c.resets
          /\ d.members = c.members /\ d.trimmed = c.trimmed /\ d.burst = c.burst
          /\ d.into = c.into /\ d.credits = c.credits
        BY <2>1, ClosedRow
    <3>2. cs2[i] = d
        BY <2>2
    <3> HIDE DEF d, cs2
    <3>3. Develops(c, d)
        BY <2>2, <3>1 DEF Develops, Settled, Has
    <3> QED
        BY <2>2, <3>1, <3>2, <3>3
  <2>3. CASE ~Waits(c)
    <3>1. cs2[i] = c
        BY <2>3
    <3> HIDE DEF cs2
    <3>2. Develops(c, c)
        BY DEF Develops
    <3> QED
        BY <2>1, <2>3, <3>1, <3>2
  <2> QED
    BY <2>2, <2>3
<1>6. cs2 \in Seq(CycleRow) /\ DOMAIN cs2 = DOMAIN cycles /\ Len(cs2) = Len(cycles)
  <2>1. cs2 \in [1 .. Len(cycles) -> CycleRow] /\ Len(cycles) \in Nat /\ DOMAIN cycles = 1 .. Len(cycles)
    BY <1>3, <1>5
  <2> HIDE DEF cs2
  <2>2. cs2 \in Seq(CycleRow)
    BY <2>1, IsASeq
  <2> QED
    BY <2>1, <2>2
<1> HIDE DEF cs2, Waits
<1>7. Developed(Rows.cycles, cs2)
    BY <1>3, <1>5, <1>6 DEF Developed
<1>8. /\ y \in RowSet /\ y.sessions = ss /\ y.cycles = cs2
      /\ Rounds(y) => Sound(y, withdrawn, LastWindow)
  <2>1. \A j \in DOMAIN Rows.cycles :
              /\ cs2[j].session = Rows.cycles[j].session /\ cs2[j].members = Rows.cycles[j].members
              /\ cs2[j].trimmed = Rows.cycles[j].trimmed
              /\ cs2[j].into = Rows.cycles[j].into /\ cs2[j].credits = Rows.cycles[j].credits
              /\ cs2[j].settled = Rows.cycles[j].settled \/ cs2[j].settled = "cancelled"
    BY <1>3, <1>5
  <2>2. DOMAIN ss = DOMAIN Rows.sessions
    BY <1>3, <1>4
  <2> QED
    BY <1>2, <1>3, <1>4, <1>7, <2>1, <2>2, DevelopedSound
<1> HIDE DEF y
<1>9. Rounds(y)
  <2>1. Rounds(Rows)
    BY <1>2 DEF Sound
  <2>2. \A n \in DOMAIN ss : ss[n].ended
    BY <1>3, <1>4, <2>1 DEF Rounds
  <2>3. ASSUME NEW j \in DOMAIN cs2, cs2[j].burst, cs2[j].settled = "no" PROVE FALSE
    <3>1. cycles[j].burst /\ cycles[j].settled = "no" /\ ~Waits(cycles[j]) /\ j \in DOMAIN cycles
        BY <1>5, <1>6, <2>3
    <3>2. cycles[j].session = k
        BY <1>3, <2>1, <3>1 DEF Rounds
    <3> QED
        BY <3>1, <3>2 DEF Waits
  <2> QED
    BY <1>8, <2>2, <2>3 DEF Rounds
<1>10. Rows' = y
    BY <1>1 DEF Rows, y
<1>11. LastWindow' = LastWindow
    BY <1>1 DEF LastWindow, Windows, Latest
<1>12. Typed'
    BY <1>1, <1>2, <1>8, <1>10 DEF Typed, Times, Reading, RowSet, SessionRow, CycleRow,
       MemberMap, Member, CreditMap, Edit, NoCredits
<1>13. Sound(Rows, withdrawn, LastWindow)'
    BY <1>1, <1>8, <1>9, <1>10, <1>11
<1>14. KeepsSettled(Rows, Rows')
    BY <1>3, <1>5, <1>6, <1>8, <1>10 DEF KeepsSettled, Develops, Settled
<1> QED
    BY <1>12, <1>13, <1>14 DEF IInv

LEMMA EditKeeps ==
    ASSUME IInv, NEW a \in Account, NEW p \in Person, NEW value \in Adjustments, EditCredit(a, p, value)
    PROVE  IInv' /\ KeepsSettled(Rows, Rows')
<1> DEFINE i == Editable(a, p)
           c == cycles[i]
           e == [person |-> p, user |-> user[p], after |-> value]
           d == [c EXCEPT !.edits = Append(c.edits, e)]
           cs2 == [cycles EXCEPT ![i] = d]
           y == [sessions |-> sessions, cycles |-> cs2]
<1>1. /\ i # 0 /\ cycles' = [cycles EXCEPT ![i].edits = Append(@, e)]
      /\ UNCHANGED <<now, connection, user, pooled, seen, sessions, withdrawn>>
    BY DEF EditCredit, people
<1>2. Typed /\ Sound(Rows, withdrawn, LastWindow)
    BY DEF IInv
<1>3. /\ sessions \in Seq(SessionRow) /\ cycles \in Seq(CycleRow) /\ Rows \in RowSet
      /\ Rows.sessions = sessions /\ Rows.cycles = cycles
    BY <1>2 DEF Typed, RowSet, Rows
<1>4. i \in DOMAIN cycles /\ c.settled = "no"
  <2> DEFINE n == NewestFor(cycles, a, Latest(a))
  <2>1. i = n /\ n # 0 /\ cycles[n].settled = "no"
    BY <1>1 DEF Editable
  <2>2. n \in InWindow(cycles, a, Latest(a))
    BY <1>3, <2>1, NewestIs
  <2> HIDE DEF n
  <2> QED
    BY <2>1, <2>2 DEF InWindow
<1>5. e \in Edit
    BY <1>2, BurstAssumption DEF Typed, Edit
<1> HIDE DEF i, e
<1>6. c \in CycleRow
    BY <1>3, <1>4
<1>7. /\ d \in CycleRow /\ d.session = c.session /\ d.account = c.account /\ d.resets = c.resets
      /\ d.members = c.members /\ d.trimmed = c.trimmed /\ d.into = c.into /\ d.credits = c.credits
      /\ d.settled = c.settled /\ d.burst = c.burst
  <2>1. Append(c.edits, e) \in Seq(Edit)
    BY <1>5, <1>6, CycleFields, AppendProperties
  <2> QED
    BY <1>6, <2>1 DEF CycleRow
<1>8. cycles' = cs2
    BY <1>1, <1>3, <1>4
<1> HIDE DEF d
<1>9. /\ cs2 \in Seq(CycleRow) /\ Len(cs2) = Len(cycles) /\ DOMAIN cs2 = DOMAIN cycles
      /\ cs2[i] = d /\ \A j \in DOMAIN cycles \ {i} : cs2[j] = cycles[j]
    BY <1>3, <1>4, <1>7, RowReplaced
<1> HIDE DEF cs2
<1>10. \A j \in DOMAIN cycles :
              /\ cs2[j].session = cycles[j].session /\ cs2[j].members = cycles[j].members
              /\ cs2[j].trimmed = cycles[j].trimmed /\ cs2[j].burst = cycles[j].burst
              /\ cs2[j].into = cycles[j].into /\ cs2[j].credits = cycles[j].credits
              /\ cs2[j].settled = cycles[j].settled
  <2> TAKE j \in DOMAIN cycles
  <2>1. CASE j = i
    BY <1>7, <1>9, <2>1
  <2>2. CASE j # i
    BY <1>9, <2>2
  <2> QED
    BY <2>1, <2>2
<1>11. Developed(cycles, cs2)
  <2>1. ASSUME NEW j \in DOMAIN cycles PROVE Develops(cycles[j], cs2[j])
    <3>1. CASE j = i
        BY <1>4, <1>7, <1>9, <3>1 DEF Develops, Settled, Has
    <3>2. CASE j # i
        BY <1>9, <3>2 DEF Develops
    <3> QED
        BY <3>1, <3>2
  <2> QED
    BY <1>3, <1>9, <2>1 DEF Developed
<1>12. /\ y \in RowSet /\ y.sessions = sessions /\ y.cycles = cs2
       /\ Rounds(y) => Sound(y, withdrawn, LastWindow)
  <2>1. \A j \in DOMAIN Rows.cycles :
              /\ cs2[j].session = Rows.cycles[j].session /\ cs2[j].members = Rows.cycles[j].members
              /\ cs2[j].trimmed = Rows.cycles[j].trimmed
              /\ cs2[j].into = Rows.cycles[j].into /\ cs2[j].credits = Rows.cycles[j].credits
              /\ cs2[j].settled = Rows.cycles[j].settled \/ cs2[j].settled = "cancelled"
    BY <1>3, <1>10
  <2>2. Developed(Rows.cycles, cs2) /\ DOMAIN sessions = DOMAIN Rows.sessions
    BY <1>3, <1>11
  <2> QED
    BY <1>2, <1>3, <2>1, <2>2, DevelopedSound
<1> HIDE DEF y
<1>13. Rounds(y)
  <2>1. Rounds(Rows)
    BY <1>2 DEF Sound
  <2> QED
    BY <1>3, <1>9, <1>10, <1>12, <2>1, SMTT(30) DEF Rounds
<1>14. Rows' = y
    BY <1>1, <1>8 DEF Rows, y
<1>15. LastWindow' = LastWindow
    BY <1>1 DEF LastWindow, Windows, Latest
<1>16. Typed'
    BY <1>1, <1>2, <1>12, <1>14 DEF Typed, Times, Reading, RowSet, SessionRow, CycleRow,
       MemberMap, Member, CreditMap, Edit, NoCredits
<1>17. Sound(Rows, withdrawn, LastWindow)'
    BY <1>1, <1>12, <1>13, <1>14, <1>15
<1>18. KeepsSettled(Rows, Rows')
    BY <1>3, <1>4, <1>9, <1>12, <1>14 DEF KeepsSettled
<1> QED
    BY <1>16, <1>17, <1>18 DEF IInv

LEMMA ExcludeKeeps ==
    ASSUME IInv, NEW a \in Account, ExcludeLatest(a)
    PROVE  IInv' /\ KeepsSettled(Rows, Rows')
<1>1. /\ Windows(a) # {}
      /\ seen' = [seen EXCEPT ![a][Latest(a)] = NoReading]
      /\ UNCHANGED <<now, connection, user, pooled, sessions, cycles>>
    BY DEF ExcludeLatest, people
<1>2. /\ withdrawn \subseteq withdrawn'
      /\ withdrawn' \subseteq withdrawn \cup {a}
      /\ a \notin withdrawn' => \A i \in DOMAIN cycles :
            cycles[i].account = a /\ cycles[i].settled # "no" => ~(cycles[i].resets < Latest(a))
    BY DEF ExcludeLatest
<1>3. Typed /\ Sound(Rows, withdrawn, LastWindow)
    BY DEF IInv
<1>4. cycles \in Seq(CycleRow) /\ Rows.cycles = cycles /\ Rows' = Rows
    BY <1>1, <1>3 DEF Typed, RowSet, Rows
<1>5. Latest(a) \in Times /\ LastWindow[a] = Latest(a)
    BY <1>1, <1>3, WindowsKnown
<1>6. seen' \in [Account -> [Times -> Reading \cup {NoReading}]]
      /\ \A b \in Account : b # a => seen'[b] = seen[b]
    BY <1>1, <1>3, <1>5 DEF Typed
<1>7. ASSUME NEW b \in Account, b # a PROVE LastWindow'[b] = LastWindow[b]
  <2>1. Windows(b)' = Windows(b)
    BY <1>6, <1>7 DEF Windows, Times
  <2>2. Latest(b)' = Latest(b)
    BY <2>1 DEF Latest
  <2> QED
    BY <2>1, <2>2 DEF LastWindow
<1>8. Behind(cycles, withdrawn', LastWindow')
  <2> SUFFICES ASSUME NEW i \in DOMAIN cycles, cycles[i].settled \in {"plain", "carried"},
                      cycles[i].account \notin withdrawn'
               PROVE  cycles[i].resets < LastWindow'[cycles[i].account]
    BY DEF Behind
  <2>1. cycles[i].account \in Account
    <3>1. cycles[i] \in CycleRow
        BY <1>4
    <3> QED
        BY <3>1, CycleFields
  <2>2. cycles[i].resets < LastWindow[cycles[i].account]
    BY <1>2, <1>3, <1>4 DEF Sound, Behind
  <2>3. cycles[i].account # a
    BY <1>2, <1>5, <2>2
  <2> QED
    BY <1>7, <2>1, <2>2, <2>3
<1>9. Sound(Rows, withdrawn', LastWindow')
    BY <1>2, <1>3, <1>4, <1>8, SoundLater
<1>10. Sound(Rows, withdrawn, LastWindow)'
    BY <1>4, <1>9
<1>11. Typed'
    BY <1>1, <1>2, <1>3, <1>4, <1>6 DEF Typed, Times, Reading, RowSet, SessionRow, CycleRow,
       MemberMap, Member, CreditMap, Edit, NoCredits
<1>12. KeepsSettled(Rows, Rows')
    BY <1>4 DEF KeepsSettled
<1> QED
    BY <1>10, <1>11, <1>12 DEF IInv

\* Every step keeps the invariant, and the cycles that are settled.
LEMMA StepKeeps ==
    ASSUME IInv, [Next]_vars
    PROVE  IInv' /\ KeepsSettled(Rows, Rows')
<1>1. Typed
    BY DEF IInv
<1>2. CASE Tick
  <2>1. now' \in Nat /\ UNCHANGED <<connection, user, pooled, seen, sessions, cycles, withdrawn>>
    BY <1>1, <1>2 DEF Tick, people, Typed
  <2>2. Rows' = Rows
    BY <2>1 DEF Rows
  <2>3. Typed'
    BY <1>1, <2>1, <2>2 DEF Typed
  <2> QED
    BY <2>1, <2>3, Untouched
<1>3. ASSUME NEW a \in Account, NEW r \in Times, NEW usage \in Usage, Sample(a, r, usage)
      PROVE  IInv' /\ KeepsSettled(Rows, Rows')
    BY <1>3, SampleKeeps
<1>4. ASSUME NEW carryover \in BOOLEAN, StartSession(carryover)
      PROVE  IInv' /\ KeepsSettled(Rows, Rows')
    BY <1>4, StartKeeps
<1>5. CASE StopSession
    BY <1>5, StopKeeps
<1>6. ASSUME NEW a \in Account, NEW p \in Person, NEW v \in Adjustments, EditCredit(a, p, v)
      PROVE  IInv' /\ KeepsSettled(Rows, Rows')
    BY <1>6, EditKeeps
<1>7. ASSUME NEW p \in Person, TogglePerson(p) PROVE IInv' /\ KeepsSettled(Rows, Rows')
  <2>1. pooled' \subseteq Person /\ UNCHANGED <<now, connection, user, seen, sessions, cycles, withdrawn>>
    BY <1>1, <1>7 DEF TogglePerson, Typed
  <2>2. Rows' = Rows
    BY <2>1 DEF Rows
  <2>3. Typed'
    BY <1>1, <2>1, <2>2 DEF Typed
  <2> QED
    BY <2>1, <2>3, Untouched
<1>8. ASSUME NEW p \in Person, NEW u \in User, BindPerson(p, u) PROVE IInv' /\ KeepsSettled(Rows, Rows')
  <2>1. user' \in [Person -> User] /\ UNCHANGED <<now, connection, pooled, seen, sessions, cycles, withdrawn>>
    BY <1>1, <1>8 DEF BindPerson, Typed
  <2>2. Rows' = Rows
    BY <2>1 DEF Rows
  <2>3. Typed'
    BY <1>1, <2>1, <2>2 DEF Typed
  <2> QED
    BY <2>1, <2>3, Untouched
<1>9. ASSUME NEW u \in Url, ChangeConnection(u) PROVE IInv' /\ KeepsSettled(Rows, Rows')
  <2>1. connection' \in Url /\ UNCHANGED <<now, user, pooled, seen, sessions, cycles, withdrawn>>
    BY <1>1, <1>9 DEF ChangeConnection, people, Typed
  <2>2. Rows' = Rows
    BY <2>1 DEF Rows
  <2>3. Typed'
    BY <1>1, <2>1, <2>2 DEF Typed
  <2> QED
    BY <2>1, <2>3, Untouched
<1>10. ASSUME NEW a \in Account, ExcludeLatest(a) PROVE IInv' /\ KeepsSettled(Rows, Rows')
    BY <1>10, ExcludeKeeps
<1>11. CASE UNCHANGED vars
  <2>1. UNCHANGED <<now, connection, user, pooled, seen, sessions, cycles, withdrawn>>
    BY <1>11 DEF vars, people
  <2>2. Rows' = Rows
    BY <2>1 DEF Rows
  <2>3. Typed'
    BY <1>1, <2>1, <2>2 DEF Typed
  <2> QED
    BY <2>1, <2>3, Untouched
<1> QED
    BY <1>2, <1>3, <1>4, <1>5, <1>6, <1>7, <1>8, <1>9, <1>10, <1>11 DEF Next

-----------------------------------------------------------------------------
(* The theorems *)

\* Types hold and rows are sound at all times: sessions take an account's windows
\* in turn, one round is in force or waits, and what settlements carried is where
\* it belongs.
THEOREM InductiveInvariant == Spec => []IInv
<1>1. Init => IInv
    BY InitTyped
<1>2. IInv /\ [Next]_vars => IInv'
    BY StepKeeps
<1> QED
    BY <1>1, <1>2, PTL DEF Spec

\* Cycles have their types, a session has one cycle per window of an account (the
\* get_or_create of _settle_cycle never meets another), and only a cycle that
\* carries has credits.
THEOREM TypeCorrect == Spec => []TypeOK
<1>1. ASSUME IInv PROVE TypeOK
  <2>1. /\ connection \in Url /\ user \in [Person -> User] /\ pooled \subseteq Person
        /\ cycles \in Seq(CycleRow) /\ Rows.cycles = cycles /\ Rows.sessions = sessions
        /\ Shaped(Rows) /\ InTurn(cycles)
    BY <1>1 DEF IInv, Typed, RowSet, Rows, Sound
  <2>2. ASSUME NEW i \in DOMAIN cycles
        PROVE  LET c == cycles[i]
               IN /\ c.session \in DOMAIN sessions /\ c.account \in Account /\ c.resets \in Times
                  /\ DOMAIN c.members \subseteq Person
                  /\ \A p \in DOMAIN c.members : c.members[p] \in Member
                  /\ c.settled \in {"no", "plain", "cancelled", "carried"}
                  /\ c.into > c.resets <=> c.settled = "carried"
                  /\ c.settled = "carried" <=> c.credits # NoCredits
                  /\ \A j \in DOMAIN cycles \ {i} :
                       <<cycles[j].session, cycles[j].account, cycles[j].resets>>
                          # <<c.session, c.account, c.resets>>
    <3> DEFINE c == cycles[i]
    <3>1. c \in CycleRow
        BY <2>1
    <3>2. /\ c.session \in DOMAIN sessions
          /\ c.settled = "carried" => c.into > c.resets /\ c.credits # NoCredits
          /\ c.settled # "carried" => c.into = 0 /\ c.credits = NoCredits
        BY <2>1 DEF Shaped
    <3>3. /\ c.account \in Account /\ c.resets \in Times /\ c.resets \in Nat
          /\ c.settled \in {"no", "plain", "cancelled", "carried"}
          /\ DOMAIN c.members \subseteq Person /\ \A p \in DOMAIN c.members : c.members[p] \in Member
        BY <3>1, CycleFields
    <3>4. c.settled # "carried" => ~(c.into > c.resets)
      <4>1. c.resets \in Nat /\ (c.settled # "carried" => c.into = 0)
        BY <3>2, <3>3
      <4> DEFINE x == c.resets
                 z == c.into
      <4>2. x \in Nat /\ z = 0 => ~(z > x)
        <5> HIDE DEF x, z
        <5> QED
            OBVIOUS
      <4> QED
        BY <4>1, <4>2
    <3>5. ASSUME NEW j \in DOMAIN cycles \ {i}
          PROVE  <<cycles[j].session, cycles[j].account, cycles[j].resets>>
                    # <<c.session, c.account, c.resets>>
        BY <2>1 DEF InTurn
    <3> HIDE DEF c
    <3>6. /\ c.into > c.resets <=> c.settled = "carried"
          /\ c.settled = "carried" <=> c.credits # NoCredits
        BY <3>2, <3>4
    <3> QED
        BY <3>2, <3>3, <3>5, <3>6 DEF c
  <2> QED
    BY <2>1, <2>2 DEF TypeOK
<1> QED
    BY <1>1, InductiveInvariant, PTL

\* One round at a time is in force or waits for its windows, it is the last one,
\* and while it is in force none of its cycles is settled.
THEOREM OneRoundAtATime == Spec => []OneRound
<1>1. ASSUME IInv PROVE OneRound
  <2>1. Rounds(Rows) /\ Rows.cycles = cycles /\ Rows.sessions = sessions
    BY <1>1 DEF IInv, Sound, Rows
  <2>2. \A k \in DOMAIN sessions : Active(k) => ~sessions[k].ended
    BY DEF Active
  <2> QED
    BY <2>1, <2>2 DEF OneRound, Rounds
<1> QED
    BY <1>1, InductiveInvariant, PTL

\* Credits and debts of a cycle cancel out, whatever the shares, the usage and the
\* rounding of settle_percentages, until who has them leaves or is rebound.
THEOREM TransfersCancelOut == Spec => []TransfersBalance
<1>1. ASSUME IInv PROVE TransfersBalance
  <2>1. Balanced(cycles)
    BY <1>1 DEF IInv, Sound, Rows
  <2> QED
    BY <2>1 DEF Balanced, Openings, TransfersBalance
<1> QED
    BY <1>1, InductiveInvariant, PTL

\* What a settlement carries into a window is in the newest cycle of the window,
\* also after later rounds took it over, for as long as nothing interferes.
THEOREM CreditsArrive == Spec => []CarriedIsInForce
<1>1. ASSUME IInv PROVE CarriedIsInForce
  <2>1. Arrived(cycles, withdrawn)
    BY <1>1 DEF IInv, Sound, Rows
  <2>2. ASSUME NEW i \in DOMAIN cycles, cycles[i].settled = "carried", cycles[i].account \notin withdrawn,
               ~Cancelled(cycles[i].account, cycles[i].into),
               ~Crowded(cycles[i].account, cycles[i].into)
        PROVE  ArrivedAt(cycles, i)
    <3>1. Carries(cycles, withdrawn, i)
        BY <2>2 DEF Carries, Cancelled, CancelledIn, Crowded, CrowdedIn
    <3> QED
        BY <2>1, <3>1, ArrivedIs
  <2> QED
    BY <2>2 DEF ArrivedAt, Has, CarriedIsInForce
<1> QED
    BY <1>1, InductiveInvariant, PTL

\* A settled cycle never changes again, by settlements, rounds, edits or a stop.
THEOREM LedgersFinal == Spec => LedgersAreFinal
<1>1. IInv /\ [Next]_vars => [\A i \in DOMAIN cycles : cycles[i].settled # "no" => cycles'[i] = cycles[i]]_vars
  <2> SUFFICES ASSUME IInv, [Next]_vars
               PROVE  \A i \in DOMAIN cycles : cycles[i].settled # "no" => cycles'[i] = cycles[i]
    OBVIOUS
  <2>1. KeepsSettled(Rows, Rows')
    BY StepKeeps
  <2>2. Rows.cycles = cycles /\ Rows'.cycles = cycles'
    BY DEF Rows
  <2> QED
    BY <2>1, <2>2 DEF KeepsSettled
<1> QED
    BY <1>1, InductiveInvariant, PTL DEF Spec, LedgersAreFinal

=============================================================================
