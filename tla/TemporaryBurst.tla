--------------------------- MODULE TemporaryBurst ---------------------------
(***************************************************************************)
(* The temporary burst mode: temporary_burst.py over TemporaryBurstSession *)
(* and TemporaryBurstCycle, with the samples that settle its cycles, the   *)
(* edits of carried credits and the changes of people and connection that  *)
(* meet it.                                                                *)
(*                                                                         *)
(* A session opens a burst cycle on the current window of every account.   *)
(* When a sample shows that a window was reset, its cycle is settled: what *)
(* was borrowed is credited to the lenders and charged to the borrowers in *)
(* a new cycle on the next window, if the session carries over.            *)
(*                                                                         *)
(* Every action runs under the lease of its account or of account 0 and in *)
(* one transaction, so it is one step (module FactLease).  Sessions and    *)
(* cycles are sequences: an index is the primary key.  Percentages count   *)
(* in steps of PRECISION, and times within the reset tolerance are equal.  *)
(***************************************************************************)
EXTENDS Integers, Sequences, FiniteSets, SequencesExt, Folds

CONSTANTS Account, Person, \* 1..n each: their primary keys order them
          User,            \* upstream users people are bound to
          Bound,           \* the user of each person, to begin with
          Share,           \* the contract share of each person while in the pool
          Url,
          Usage,           \* what people may have used of a window
          Adjustments,     \* the values an administrator may set
          Window,          \* the length of a window
          NoReading,       \* no included sample of the window
          MaxTime,         \* bound: the clock
          MaxSamples,      \* bound: samples
          MaxSessions,     \* bound: sessions
          MaxChanges,      \* bound: changes of people, connection and evidence
          MaxEdits         \* bound: saved edits

\* What is known of a window: usage by person and user, and whom its latest sample has.
Reading == [used : UNION {[K -> Nat] : K \in SUBSET (Person \X User)},
            latest : SUBSET (Person \X User)]

ASSUME BurstAssumption ==
    /\ IsFiniteSet(Account) /\ Account = 1..Cardinality(Account)
    /\ IsFiniteSet(Person) /\ Person = 1..Cardinality(Person)
    /\ Bound \in [Person -> User]
    /\ Share \in [Person -> Nat \ {0}]
    /\ Usage \subseteq [Person -> Nat]
    /\ Adjustments \subseteq Int
    /\ Window \in Nat \ {0}
    /\ NoReading \notin Reading
    /\ MaxTime \in Nat /\ MaxSamples \in Nat /\ MaxSessions \in Nat
    /\ MaxChanges \in Nat /\ MaxEdits \in Nat

VARIABLES now,        \* the clock
          connection, \* sub2api_base_url
          user,       \* the user each person is bound to
          pooled,     \* the enabled people with a share in the pool
          seen,       \* seen[a][r]: included readings of the window that resets at r
          sessions,   \* TemporaryBurstSession
          cycles,     \* TemporaryBurstCycle
          withdrawn,  \* accounts whose reset was taken back after it was settled
          samples, changes, edits

people == <<user, pooled>>
vars == <<now, connection, people, seen, sessions, cycles, withdrawn, samples, changes, edits>>

Times == 1..(MaxTime + Window)

-----------------------------------------------------------------------------
(* What a window's borrowing comes to. *)

LeastOf(x, y) == IF x < y THEN x ELSE y
AtLeastZero(x) == IF x < 0 THEN 0 ELSE x

\* _apportion: rounded down, and the last one with a weight gets what remains.
Apportion(total, weights) ==
    LET active == {p \in DOMAIN weights : weights[p] > 0}
        all == SumFunction(weights)
        Part(p) == (total * weights[p]) \div all
    IN [p \in DOMAIN weights |->
          IF total <= 0 \/ p \notin active THEN 0
          ELSE IF \A q \in active : q <= p
            THEN total - SumFunctionOnSet([q \in active |-> Part(q)], active \ {p})
          ELSE Part(p)]

\* settle_percentages
Settlement(rights, used) ==
    LET unused == [p \in DOMAIN rights |-> AtLeastZero(rights[p] - used[p])]
        excess == [p \in DOMAIN rights |-> AtLeastZero(used[p] - rights[p])]
        borrowed == LeastOf(SumFunction(unused), SumFunction(excess))
        credits == Apportion(borrowed, unused)
        debts == Apportion(borrowed, excess)
    IN [p \in DOMAIN rights |-> credits[p] - debts[p]]

-----------------------------------------------------------------------------
(* Lookups. *)

Windows(a) == {r \in Times : seen[a][r] # NoReading}

\* _latest
Latest(a) == CHOOSE r \in Windows(a) : \A q \in Windows(a) : q <= r

\* cycle_for: the newest of the window's cycles, or 0.
NewestFor(cs, a, r) ==
    LET S == {i \in DOMAIN cs : cs[i].account = a /\ cs[i].resets = r}
    IN IF S = {} THEN 0 ELSE CHOOSE i \in S : \A j \in S : j <= i

\* active_session
Active(k) == /\ ~sessions[k].ended
             /\ sessions[k].expires > now
             /\ sessions[k].url = connection

\* member_adjustment: the last edit of the person, or the opening value.
Adjustment(c, p) ==
    LET of == {k \in DOMAIN c.edits : /\ c.edits[k].person = p
                                      /\ c.edits[k].user = c.members[p].user}
    IN IF of = {} THEN c.members[p].opening
       ELSE c.edits[CHOOSE k \in of : \A j \in of : j <= k].after

\* _members
Members(credits) ==
    [p \in pooled |-> [user |-> user[p], share |-> Share[p],
                       opening |-> IF p \in DOMAIN credits THEN credits[p] ELSE 0]]

NoCredits == <<>>

NewCycle(k, a, r, burst, members) ==
    [session |-> k, account |-> a, resets |-> r, burst |-> burst, members |-> members,
     edits |-> <<>>, settled |-> "no", credits |-> NoCredits, into |-> 0, trimmed |-> FALSE]

-----------------------------------------------------------------------------
(* reconcile_account *)

\* What the cycle's people are owed, or owe, by the evidence of its window.
Credits(c, evidence) ==
    Settlement([p \in DOMAIN c.members |-> c.members[p].share + Adjustment(c, p)],
               [p \in DOMAIN c.members |-> evidence[<<p, c.members[p].user>>]])

Close(c, how) == [c EXCEPT !.settled = how]

\* Slip: those who left are passed over.
SlipAnyoneMoves(c, credits) == FALSE

\* One side of a transfer has left the pool or is bound to another user.
SideMissing(c, credits) ==
    \E p \in DOMAIN c.members :
        credits[p] # 0 /\ ~(p \in pooled /\ user[p] = c.members[p].user)

\* The reset came more than one window later.
TooLate(c, r) == r - c.resets > Window

\* Cycle i of the rows st, when account a's reading resets at r.
SettleCycle(st, i, readings, r) ==
    LET c == st.cycles[i]
        s == st.sessions[c.session]
        evidence == readings[c.resets]
        Ended == IF c.burst THEN [st.sessions EXCEPT ![c.session].ended = TRUE] ELSE st.sessions
        Evident == /\ evidence # NoReading
                   /\ \A p \in DOMAIN c.members :
                        <<p, c.members[p].user>> \in DOMAIN evidence.used
        credits == Credits(c, evidence.used)
        Twin(d) == d.session = c.session /\ d.account = c.account /\ d.resets = r
        Carried ==
            LET closed == [st.cycles EXCEPT ![i] = [c EXCEPT !.settled = "carried",
                                                             !.credits = credits, !.into = r]]
            IN IF (\A p \in DOMAIN credits : credits[p] = 0) \/ (\E j \in DOMAIN closed : Twin(closed[j]))
                 THEN closed
               ELSE Append(closed, NewCycle(c.session, c.account, r, FALSE, Members(credits)))
    IN [sessions |-> Ended,
        cycles |->
          IF ~s.carryover THEN [st.cycles EXCEPT ![i] = Close(c, "plain")]
          ELSE IF s.url # connection \/ ~Evident THEN st.cycles
          ELSE IF SideMissing(c, credits) \/ TooLate(c, r) THEN st.cycles
          ELSE Carried]

\* Slip: a reading of the cycle's own window settles it.
SlipPendingTooSoon(cs, a, r) ==
    {i \in DOMAIN cs : cs[i].account = a /\ cs[i].settled = "no" /\ r >= cs[i].resets}

\* The account's cycles that are not settled and whose window is over.
Pending(cs, a, r) ==
    {i \in DOMAIN cs : cs[i].account = a /\ cs[i].settled = "no" /\ r > cs[i].resets}

\* The last of some cycles by reset and key.
LastOf(cs, S) ==
    CHOOSE i \in S : \A j \in S :
        \/ cs[j].resets < cs[i].resets
        \/ cs[j].resets = cs[i].resets /\ j <= i

Reconcile(st, a, readings, r) ==
    MapThenFoldSet(LAMBDA i, rows : SettleCycle(rows, i, readings, r), st,
                   LAMBDA i : i, LAMBDA S : LastOf(st.cycles, S), Pending(st.cycles, a, r))

Rows == [sessions |-> sessions, cycles |-> cycles]

-----------------------------------------------------------------------------
Init ==
    /\ now = 0
    /\ connection \in Url
    /\ user = Bound
    /\ pooled = Person
    /\ seen = [a \in Account |-> [r \in Times |-> NoReading]]
    /\ sessions = <<>> /\ cycles = <<>>
    /\ withdrawn = {}
    /\ samples = 0 /\ changes = 0 /\ edits = 0

Tick ==
    /\ now < MaxTime
    /\ now' = now + 1
    /\ UNCHANGED <<connection, people, seen, sessions, cycles, withdrawn, samples, changes, edits>>

\* _rebuild_capture: the reading is derived, and pending cycles are reconciled.
\* The window may be the same, a later one, or one reset early.
Sample(a, r, usage) ==
    LET evidence == [k \in {<<p, user[p]>> : p \in pooled} |-> usage[k[1]]]
        before == IF seen[a][r] = NoReading THEN <<>> ELSE seen[a][r].used
        known == [k \in DOMAIN evidence \cup DOMAIN before |->
                    IF k \in DOMAIN evidence THEN evidence[k] ELSE before[k]]
        readings == [seen[a] EXCEPT ![r] = [used |-> known,
                                            latest |-> DOMAIN evidence]]
        after == Reconcile(Rows, a, readings, r)
    IN /\ samples < MaxSamples
       /\ now < r /\ r <= now + Window
       /\ \A q \in Windows(a) : q <= r
       /\ samples' = samples + 1
       /\ seen' = [seen EXCEPT ![a] = readings]
       /\ sessions' = after.sessions /\ cycles' = after.cycles
       /\ UNCHANGED <<now, connection, people, withdrawn, changes, edits>>

\* start_session, with an existing cycle of the window taken into the round.
\* Who has left, or is bound to another user, is dropped with their credit; then
\* the cycle counts as trimmed here.
Rebound(c, k) ==
    LET Stays(p) == p \in DOMAIN c.members /\ c.members[p].user = user[p]
    IN [c EXCEPT !.session = k, !.burst = TRUE,
                 !.members = [p \in pooled |->
                    [user |-> user[p], share |-> Share[p],
                     opening |-> IF Stays(p) THEN c.members[p].opening ELSE 0]],
                 !.trimmed = @ \/ \E p \in DOMAIN c.members :
                    c.members[p].opening # 0 /\ ~(p \in pooled /\ Stays(p))]

\* Slip: the credits already in force in the window are not taken over.
SlipOpenAfresh(cs, a, k) == Append(cs, NewCycle(k, a, Latest(a), TRUE, Members(NoCredits)))

\* Slip: a settled cycle of the window is opened again.
SlipReopen(cs, a, k) ==
    LET i == NewestFor(cs, a, Latest(a))
    IN IF i # 0 THEN [cs EXCEPT ![i] = [Rebound(cs[i], k) EXCEPT !.settled = "no"]]
       ELSE Append(cs, NewCycle(k, a, Latest(a), TRUE, Members(NoCredits)))

OpenCycle(cs, a, k) ==
    LET i == NewestFor(cs, a, Latest(a))
    IN IF i # 0 /\ cs[i].settled = "no" THEN [cs EXCEPT ![i] = Rebound(@, k)]
       ELSE Append(cs, NewCycle(k, a, Latest(a), TRUE, Members(NoCredits)))

\* Slip: a new round may start while another waits for its windows.
SlipNobodyWaits(cs) == TRUE
NoneWaiting(cs) == \A i \in DOMAIN cs : ~(cs[i].burst /\ cs[i].settled = "no")

Accounts == [a \in Account |-> a]

StartSession(carryover) ==
    LET after == FoldLeft(LAMBDA rows, a : Reconcile(rows, a, seen[a], Latest(a)), Rows, Accounts)
        k == Len(sessions) + 1
        resets == {Latest(a) : a \in Account}
    IN /\ k <= MaxSessions
       /\ ~\E j \in DOMAIN sessions : Active(j)
       /\ Account # {} /\ pooled # {}
       /\ \A a \in Account :
            /\ Windows(a) # {}
            /\ Latest(a) > now
            /\ {<<p, user[p]>> : p \in pooled} \subseteq seen[a][Latest(a)].latest
       /\ NoneWaiting(after.cycles)
       /\ sessions' = Append(after.sessions,
                         [url |-> connection, expires |-> CHOOSE r \in resets : \A q \in resets : r <= q,
                          ended |-> FALSE, terminated |-> FALSE, carryover |-> carryover])
       /\ cycles' = FoldLeft(LAMBDA cs, a : OpenCycle(cs, a, k), after.cycles, Accounts)
       /\ UNCHANGED <<now, connection, people, seen, withdrawn, samples, changes, edits>>

\* stop_session: the latest session, while anything of it is under way.
StopSession ==
    LET k == Len(sessions)
        Waits(c) == c.session = k /\ c.settled = "no"
    IN /\ k > 0
       /\ ~sessions[k].terminated
       /\ \/ \E j \in DOMAIN sessions : Active(j)
          \/ \E i \in DOMAIN cycles : Waits(cycles[i]) /\ cycles[i].burst
       /\ sessions' = [sessions EXCEPT ![k].ended = TRUE, ![k].terminated = TRUE]
       /\ cycles' = [i \in DOMAIN cycles |->
                       IF Waits(cycles[i]) THEN Close(cycles[i], "cancelled") ELSE cycles[i]]
       /\ UNCHANGED <<now, connection, people, seen, withdrawn, samples, changes, edits>>

\* current_carry_rows: the person's credit in force on the account, if any.
Editable(a, p) ==
    IF Windows(a) = {} THEN 0
    ELSE LET i == NewestFor(cycles, a, Latest(a))
         IN IF /\ i # 0 /\ Latest(a) > now
               /\ cycles[i].settled = "no"
               /\ sessions[cycles[i].session].url = connection
               /\ p \in DOMAIN cycles[i].members \cap pooled
               /\ cycles[i].members[p].user = user[p]
               /\ Adjustment(cycles[i], p) # 0
              THEN i ELSE 0

\* apply_carry_edits: an administrator sets another value.  Saves that were
\* prepared from an older revision of the cycle are refused and change nothing.
EditCredit(a, p, value) ==
    LET i == Editable(a, p)
    IN /\ edits < MaxEdits
       /\ i # 0 /\ Adjustment(cycles[i], p) # value
       /\ cycles' = [cycles EXCEPT ![i].edits =
                        Append(@, [person |-> p, user |-> user[p], after |-> value])]
       /\ edits' = edits + 1
       /\ UNCHANGED <<now, connection, people, seen, sessions, withdrawn, samples, changes>>

Change == changes < MaxChanges /\ changes' = changes + 1

\* A person is disabled or leaves the pool, or comes back.
TogglePerson(p) ==
    /\ Change
    /\ pooled' = IF p \in pooled THEN pooled \ {p} ELSE pooled \cup {p}
    /\ UNCHANGED <<now, connection, user, seen, sessions, cycles, withdrawn, samples, edits>>

\* A person is bound to another user.
BindPerson(p, u) ==
    /\ Change
    /\ \A q \in Person : user[q] # u
    /\ user' = [user EXCEPT ![p] = u]
    /\ UNCHANGED <<now, connection, pooled, seen, sessions, cycles, withdrawn, samples, edits>>

\* SettingsView.patch with another address.
ChangeConnection(u) ==
    /\ Change
    /\ u # connection
    /\ connection' = u
    /\ UNCHANGED <<now, people, seen, sessions, cycles, withdrawn, samples, edits>>

\* A command excludes the readings of the account's latest window.
ExcludeLatest(a) ==
    /\ Change
    /\ Windows(a) # {}
    /\ seen' = [seen EXCEPT ![a][Latest(a)] = NoReading]
    /\ withdrawn' = IF \E i \in DOMAIN cycles : /\ cycles[i].account = a
                                                /\ cycles[i].settled # "no"
                                                /\ cycles[i].resets < Latest(a)
                     THEN withdrawn \cup {a} ELSE withdrawn
    /\ UNCHANGED <<now, connection, people, sessions, cycles, samples, edits>>

Next ==
    \/ Tick
    \/ \E a \in Account, r \in Times, usage \in Usage : Sample(a, r, usage)
    \/ \E carryover \in BOOLEAN : StartSession(carryover)
    \/ StopSession
    \/ \E a \in Account, p \in Person, v \in Adjustments : EditCredit(a, p, v)
    \/ \E p \in Person : TogglePerson(p)
    \/ \E p \in Person, u \in User : BindPerson(p, u)
    \/ \E u \in Url : ChangeConnection(u)
    \/ \E a \in Account : ExcludeLatest(a)

Spec == Init /\ [][Next]_vars

-----------------------------------------------------------------------------
Member == [user : User, share : Nat, opening : Int]

\* Types; a session has one cycle per window of an account, and only a cycle
\* that carries has credits.
TypeOK ==
    /\ connection \in Url /\ user \in [Person -> User] /\ pooled \subseteq Person
    /\ \A i \in DOMAIN cycles :
         LET c == cycles[i]
         IN /\ c.session \in DOMAIN sessions /\ c.account \in Account /\ c.resets \in Times
            /\ DOMAIN c.members \subseteq Person
            /\ \A p \in DOMAIN c.members : c.members[p] \in Member
            /\ c.settled \in {"no", "plain", "cancelled", "carried"}
            /\ c.into > c.resets <=> c.settled = "carried"
            /\ c.settled = "carried" <=> c.credits # NoCredits
            /\ \A j \in DOMAIN cycles \ {i} :
                 <<cycles[j].session, cycles[j].account, cycles[j].resets>>
                    # <<c.session, c.account, c.resets>>

\* One round at a time is in force or waits for its windows, and it is the
\* latest, which StopSession can end (docs/temporary-burst.md:34); while it is
\* in force, every account is still in the window the round began with.
OneRound ==
    /\ \A i \in DOMAIN cycles :
         cycles[i].burst /\ cycles[i].settled = "no" =>
             cycles[i].session = Len(sessions) /\ ~sessions[Len(sessions)].terminated
    /\ \A k \in DOMAIN sessions : Active(k) =>
         /\ k = Len(sessions)
         /\ \A i \in DOMAIN cycles :
              cycles[i].session = k => cycles[i].burst /\ cycles[i].settled = "no"

\* Credits and debts of a cycle cancel out until an administrator edits them
\* (docs/temporary-burst.md:95).
TransfersBalance ==
    \A i \in DOMAIN cycles :
        LET c == cycles[i]
        IN ~c.trimmed => SumFunction([p \in DOMAIN c.members |-> c.members[p].opening]) = 0

\* The window's credits were given up, or several settlements meet in it.
Cancelled(a, r) ==
    \E j \in DOMAIN cycles : /\ cycles[j].account = a /\ cycles[j].resets = r
                             /\ cycles[j].settled = "cancelled"
Crowded(a, r) ==
    \E i, j \in DOMAIN cycles : /\ i # j
                                /\ cycles[i].account = a /\ cycles[i].into = r
                                /\ cycles[j].account = a /\ cycles[j].into = r

\* What a settlement carries into a window is in force there: the newest cycle
\* of the window has it (docs/temporary-burst.md:85), unless the round was
\* terminated, the window's cycle was trimmed, the reset was taken back by an
\* exclusion, or settlements that waited meet in the window.
CarriedIsInForce ==
    \A i \in DOMAIN cycles :
        LET c == cycles[i]
            d == NewestFor(cycles, c.account, c.into)
        IN ( /\ c.settled = "carried"
             /\ c.account \notin withdrawn
             /\ ~Cancelled(c.account, c.into) /\ ~Crowded(c.account, c.into) ) =>
             \A p \in {q \in DOMAIN c.credits : c.credits[q] # 0} :
                 /\ d # 0
                 /\ ~cycles[d].trimmed =>
                      /\ p \in DOMAIN cycles[d].members
                      /\ cycles[d].members[p].opening = c.credits[p]

\* A settled cycle never changes again.
LedgersAreFinal ==
    [][\A i \in DOMAIN cycles : cycles[i].settled # "no" => cycles'[i] = cycles[i]]_vars
=============================================================================
