------------------------- MODULE PaymentLedgerProofs -------------------------
(***************************************************************************)
(* What holds of the payments ledger for every set of payments, orders and *)
(* instances: its type invariant with one pass for a session, that it      *)
(* implements PaymentBook, and that an active entitlement stays.           *)
(*                                                                         *)
(* The inductive invariant is Inv.  It is a conjunction of facts about the *)
(* rows (RowsOK), the student (StudentOK), the applications and each       *)
(* instance's own place (Placed), each an operator of the values it speaks  *)
(* of, so that what a step does to the rows is reasoned about once for all *)
(* the actions that do it.                                                 *)
(***************************************************************************)
EXTENDS PaymentLedger, FiniteSetTheorems, WellFoundedInduction, TLAPS

Statuses == {"none", "Completed", "Duplicate", "Review", "Refunded", "Denied"}

RowSet == [st : Statuses, session : Sessions, ent : Grants,
           lease : Crons \cup {NoOne}, aged : BOOLEAN]

\* How many of the rows r are or have been the pass of a session; every pass
\* moves the end of the student's sessions on by one at most.
Held(r) == Cardinality({p \in Payments : r[p].session # 0})

\* A row that is not there is empty, one that is there is of a captured
\* payment; only a pass, or what was one, has a session.
RowOK(r, cap, p) ==
  /\ r[p].st # "none" => p \in cap
  /\ r[p].st = "none" => r[p] = NoRow
  /\ r[p].st \in {"Duplicate", "Review"} => r[p].session = 0
  /\ r[p].st = "Completed" => r[p].session > 0
  /\ r[p].session <= LastYear + Held(r)

OnePass(r) ==
  \A p, q \in Payments :
    p # q /\ r[p].st = "Completed" /\ r[q].st = "Completed" => r[p].session # r[q].session

RowsOK(r, cap) ==
  /\ cap \subseteq Payments
  /\ r \in [Payments -> RowSet]
  /\ \A p \in Payments : RowOK(r, cap, p)
  /\ OnePass(r)

StudentOK(s, r) ==
  /\ s \in [until : Sessions, status : {"active", "blocked"}, released : BOOLEAN]
  /\ s.until <= LastYear + Held(r)

AppsOK(a, cap) ==
  /\ a \in [Payments -> {"none", "submitted", "approved", "rejected"}]
  /\ \A p \in Payments : a[p] # "none" => p \in cap

-----------------------------------------------------------------------------
(* Where an instance can be, and what it knows of its payment there.       *)

Work == {"check", "read", "review", "insert", "duplicate", "submit", "send",
         "mark", "write", "apply", "grant"}
ServerPlaces == Work \cup {"idle", "approve", "cancel", "void", "note"}
CronPlaces == Work \cup {"idle", "pick", "claim"}

\* Places an instance reaches only with a payment that has a row.
Entered == {"submit", "send", "mark", "write", "apply", "grant", "claim",
            "cancel", "void", "note"}

\* Instance e may be at pc with job j.
Placed(e, pc, j, cap, r) ==
  /\ j \in Jobs
  /\ e \in Servers => pc \in ServerPlaces
  /\ e \in Crons => pc \in CronPlaces /\ j.ent # "unconsumed"
  /\ pc \notin {"idle", "pick"} => j.p \in cap
  /\ pc \in Entered => r[j.p].st # "none"
  /\ pc = "review" => j.p \in Unclear
  /\ pc = "insert" => j.year \in 1..(LastYear + Held(r) + 1)
  /\ pc \in {"grant", "approve"} => j.year <= LastYear + Held(r)

\* What the cron job has still to do: entitlements are of rows.
Listed(phase, todo, r) ==
  /\ phase \in {"none", "orders", "grants"}
  /\ todo \subseteq Payments
  /\ phase = "grants" => \A p \in todo : r[p].st # "none"

Places == [pc : ServerPlaces \cup CronPlaces, at : Jobs,
           phase : {"none", "orders", "grants"}, todo : SUBSET Payments]

WorksOK(x, cap, r) ==
  /\ x \in [Instances -> Places]
  /\ \A e \in Instances : /\ Placed(e, x[e].pc, x[e].at, cap, r)
                          /\ Listed(x[e].phase, x[e].todo, r)

(* The inductive invariant: the rows, the student, the applications and    *)
(* the instances are consistent with each other, the gateway has been      *)
(* answered only about captures, and the counters are within their bounds. *)
Inv ==
  /\ RowsOK(row, captured)
  /\ StudentOK(student, row)
  /\ AppsOK(app, captured)
  /\ WorksOK(exec, captured, row)
  /\ open \subseteq Payments
  /\ acked \subseteq captured
  /\ stale \in 0..Len(Orders)
  /\ faults \in 0..MaxFaults /\ desks \in 0..MaxDesks
-----------------------------------------------------------------------------
(* Sizes and bounds.                                                       *)

\* There are finitely many payments, because there is a list of them.
LEMMA PaymentsFinite == IsFiniteSet(Payments) /\ Cardinality(Payments) \in Nat
<1> DEFINE n == Len(Orders)
           f == [i \in 1..n |-> Orders[i]]
<1>1. n \in Nat /\ DOMAIN Orders = 1..n
  BY OrdersAssumption
<1>2. Payments = {Orders[i] : i \in 1..n}
  BY <1>1, OrdersAssumption DEF ToSet
<1>3. IsFiniteSet(1..n)
  BY <1>1, FS_Interval
<1>4. IsFiniteSet(Payments)
  <2>1. f \in Surjection(1..n, Payments)
    BY <1>2 DEF Surjection
  <2> QED
    BY <2>1, <1>3, FS_Surjection
<1> QED
  BY <1>4, FS_CardinalityType

\* A set of natural numbers up to n that is not empty has a greatest element.
LEMMA Greatest ==
  ASSUME NEW n \in Nat, NEW S, S \subseteq 0..n, S # {}
  PROVE  \E m \in S : \A k \in S : k <= m
<1> DEFINE T == {n - k : k \in S}
           R == OpToRel(<, Nat)
<1>1. T \subseteq Nat /\ T # {}
  <2>1. ASSUME NEW k \in S  PROVE n - k \in Nat
    <3>1. k \in 0..n
      OBVIOUS
    <3> QED
      BY <3>1
  <2> HIDE DEF R
  <2> QED
    BY <2>1
<1>2. PICK t \in T : \A u \in T : ~ (<<u, t>> \in R)
  <2> HIDE DEF T, R
  <2> QED
    BY <1>1, NatLessThanWellFounded, WFMin DEF R
<1>3. \A u \in T : ~ (u < t)
  BY <1>2, <1>1 DEF OpToRel
<1>4. PICK m \in S : t = n - m
  BY <1>2
<1>5. ASSUME NEW k \in S  PROVE k <= m
  <2>1. n - k \in T /\ ~ (n - k < n - m)
    BY <1>3, <1>4
  <2>2. k \in Nat /\ m \in Nat
    OBVIOUS
  <2> QED
    BY <2>1, <2>2
<1> QED
  BY <1>5

LEMMA HeldFinite ==
  ASSUME NEW r
  PROVE  /\ IsFiniteSet({p \in Payments : r[p].session # 0})
         /\ Held(r) \in Nat /\ Held(r) <= Cardinality(Payments)
BY PaymentsFinite, FS_Subset, FS_CardinalityType DEF Held

LEMMA Numbers ==
  /\ LastYear \in Nat /\ LastYear > 0
  /\ Sessions \subseteq Nat
  /\ \A r : \A y \in Nat : y <= LastYear + Held(r) + 1 => y \in Sessions
  /\ 0 \in Sessions
<1>1. LastYear \in Nat /\ LastYear > 0 /\ Cardinality(Payments) \in Nat
  BY BoundsAssumption, PaymentsFinite
<1>2. ASSUME NEW r, NEW y \in Nat, y <= LastYear + Held(r) + 1  PROVE y \in Sessions
  <2>1. Held(r) \in Nat /\ Held(r) <= Cardinality(Payments)
    BY HeldFinite
  <2> QED
    BY <1>1, <1>2, <2>1 DEF Sessions
<1>3. Sessions \subseteq Nat /\ 0 \in Sessions
  BY <1>1 DEF Sessions
<1> QED
  BY <1>1, <1>2, <1>3

LEMMA Roles ==
  /\ Instances = Servers \cup Crons /\ Servers \cap Crons = {}
  /\ NoOne \notin Payments /\ NoOne \notin Servers /\ NoOne \notin Crons
  /\ Unclear \subseteq Payments
BY RolesAssumption, NoOneAssumption DEF Instances
-----------------------------------------------------------------------------
(* What can be done to the rows.                                           *)

\* Nothing a row was is forgotten: rows that are there stay, and no session
\* is taken back.
Grown(r, s) ==
  /\ \A p \in Payments : r[p].st # "none" => s[p].st # "none"
  /\ Held(r) <= Held(s)

Elsewhere(r, s, p) ==
  /\ s \in [Payments -> RowSet]
  /\ \A q \in Payments \ {p} : s[q] = r[q]

\* The captures of the gateway grow.
LEMMA RowsCaptured ==
  ASSUME NEW r, NEW cap, NEW more, RowsOK(r, cap),
         cap \subseteq more, more \subseteq Payments
  PROVE  RowsOK(r, more) /\ Grown(r, r)
<1>1. Held(r) \in Nat
  BY HeldFinite
<1>2. Grown(r, r)
  BY <1>1 DEF Grown
<1>3. \A p \in Payments : RowOK(r, more, p)
  BY DEF RowsOK, RowOK
<1> QED
  BY <1>2, <1>3 DEF RowsOK

\* The entitlement or the lease of a row changes.
LEMMA RowsTouched ==
  ASSUME NEW r, NEW s, NEW cap, NEW p \in Payments, RowsOK(r, cap),
         Elsewhere(r, s, p), s[p].st = r[p].st, s[p].session = r[p].session,
         r[p].st # "none"
  PROVE  RowsOK(s, cap) /\ Grown(r, s)
<1>1. \A q \in Payments : s[q].st = r[q].st /\ s[q].session = r[q].session
  BY DEF Elsewhere
<1>2. {q \in Payments : s[q].session # 0} = {q \in Payments : r[q].session # 0}
  BY <1>1
<1>3. Held(s) = Held(r) /\ Held(r) \in Nat
  BY <1>2, HeldFinite DEF Held
<1>4. Grown(r, s)
  BY <1>1, <1>3 DEF Grown
<1>5. ASSUME NEW q \in Payments  PROVE RowOK(s, cap, q)
  <2>1. RowOK(r, cap, q)
    BY DEF RowsOK
  <2> QED
    BY <2>1, <1>1, <1>3 DEF RowOK, Elsewhere
<1>6. OnePass(s)
  BY <1>1 DEF RowsOK, OnePass
<1> QED
  BY <1>4, <1>5, <1>6 DEF RowsOK, Elsewhere

\* A capture is entered as no pass, or a row becomes one that is no pass.
LEMMA RowsJudged ==
  ASSUME NEW r, NEW s, NEW cap, NEW p \in cap, RowsOK(r, cap),
         Elsewhere(r, s, p), s[p].session = r[p].session,
         s[p].st \in {"Duplicate", "Review", "Refunded", "Denied"},
         s[p].st \in {"Duplicate", "Review"} => r[p].st = "none"
  PROVE  RowsOK(s, cap) /\ Grown(r, s)
<1>0. p \in Payments /\ RowOK(r, cap, p)
  BY DEF RowsOK
<1>1. \A q \in Payments : s[q].session = r[q].session
  BY DEF Elsewhere
<1>2. {q \in Payments : s[q].session # 0} = {q \in Payments : r[q].session # 0}
  BY <1>1
<1>3. Held(s) = Held(r) /\ Held(r) \in Nat
  BY <1>2, HeldFinite DEF Held
<1>4. Grown(r, s)
  BY <1>0, <1>3 DEF Grown, Elsewhere
<1>5. ASSUME NEW q \in Payments  PROVE RowOK(s, cap, q)
  <2>1. RowOK(r, cap, q)
    BY DEF RowsOK
  <2>2. CASE q # p
    BY <2>1, <2>2, <1>3 DEF RowOK, Elsewhere
  <2>3. CASE q = p
    BY <2>1, <2>3, <1>3 DEF RowOK, NoRow
  <2> QED
    BY <2>2, <2>3
<1>6. OnePass(s)
  BY <1>0 DEF RowsOK, OnePass, Elsewhere
<1> QED
  BY <1>4, <1>5, <1>6 DEF RowsOK, Elsewhere

\* A capture becomes the pass of a session, one that no other pass is for.
LEMMA RowsPassed ==
  ASSUME NEW r, NEW s, NEW cap, NEW p \in cap, NEW y \in Nat, RowsOK(r, cap),
         Elsewhere(r, s, p), r[p].session = 0, s[p].st = "Completed",
         s[p].session = y, y > 0, y <= LastYear + Held(r) + 1,
         \A q \in Payments \ {p} : ~(r[q].st = "Completed" /\ r[q].session = y)
  PROVE  RowsOK(s, cap) /\ Grown(r, s) /\ y <= LastYear + Held(s)
<1> DEFINE H == {q \in Payments : r[q].session # 0}
<1>0. p \in Payments /\ RowOK(r, cap, p)
  BY DEF RowsOK
<1>1. {q \in Payments : s[q].session # 0} = H \cup {p}
  BY <1>0 DEF Elsewhere
<1>2. p \notin H /\ IsFiniteSet(H)
  BY HeldFinite
<1>3. Held(s) = Held(r) + 1 /\ Held(r) \in Nat /\ LastYear \in Nat
  <2>1. Cardinality(H \cup {p}) = Cardinality(H) + 1
    <3> HIDE DEF H
    <3> QED BY <1>2, FS_AddElement
  <2> QED
    BY <2>1, <1>1, HeldFinite, Numbers DEF Held
<1>4. Grown(r, s)
  BY <1>0, <1>3 DEF Grown, Elsewhere
<1>5. ASSUME NEW q \in Payments  PROVE RowOK(s, cap, q)
  <2>1. RowOK(r, cap, q) /\ r[q].session \in Nat
    BY Numbers DEF RowsOK, RowSet
  <2>2. CASE q # p
    BY <2>1, <2>2, <1>3 DEF RowOK, Elsewhere
  <2>3. CASE q = p
    BY <2>1, <2>3, <1>3 DEF RowOK
  <2> QED
    BY <2>2, <2>3
<1>6. OnePass(s)
  BY <1>0 DEF RowsOK, OnePass, Elsewhere
<1> QED
  BY <1>3, <1>4, <1>5, <1>6 DEF RowsOK, Elsewhere
-----------------------------------------------------------------------------
(* What can be done to the other variables.                                *)

LEMMA StudentStays ==
  ASSUME NEW s, NEW r, NEW r2, StudentOK(s, r), Grown(r, r2)
  PROVE  StudentOK(s, r2)
<1>1. Held(r) \in Nat /\ Held(r2) \in Nat /\ LastYear \in Nat /\ s.until \in Nat
  BY HeldFinite, Numbers DEF StudentOK
<1> QED
  BY <1>1 DEF StudentOK, Grown

\* An instance may stay where it is while the others go on.
LEMMA PlacedStays ==
  ASSUME NEW e \in Instances, NEW pc, NEW j, NEW cap, NEW more, NEW r, NEW r2,
         Placed(e, pc, j, cap, r), cap \subseteq more, more \subseteq Payments, Grown(r, r2)
  PROVE  Placed(e, pc, j, more, r2)
<1>1. /\ Held(r) \in Nat /\ Held(r2) \in Nat /\ Held(r) <= Held(r2)
      /\ LastYear \in Nat /\ j.year \in Nat
  BY HeldFinite, Numbers DEF Placed, Jobs, Grown
<1>2. pc \in Entered => r2[j.p].st # "none"
  BY Roles DEF Placed, Grown, Entered
<1>3. pc = "insert" => j.year \in 1..(LastYear + Held(r2) + 1)
  BY <1>1 DEF Placed
<1>4. pc \in {"grant", "approve"} => j.year <= LastYear + Held(r2)
  BY <1>1 DEF Placed
<1> QED
  BY <1>2, <1>3, <1>4 DEF Placed

LEMMA ListedStays ==
  ASSUME NEW phase, NEW todo, NEW r, NEW r2, Listed(phase, todo, r), Grown(r, r2)
  PROVE  Listed(phase, todo, r2)
BY DEF Listed, Grown

\* No instance moves, or one of them does to a place where it may be.
LEMMA WorksStay ==
  ASSUME NEW x, NEW cap, NEW more, NEW r, NEW r2, WorksOK(x, cap, r),
         cap \subseteq more, more \subseteq Payments, Grown(r, r2)
  PROVE  WorksOK(x, more, r2)
BY PlacedStays, ListedStays DEF WorksOK

LEMMA WorksMove ==
  ASSUME NEW x, NEW cap, NEW more, NEW r, NEW r2, WorksOK(x, cap, r),
         cap \subseteq more, more \subseteq Payments, Grown(r, r2),
         NEW e \in Instances, NEW y \in [Instances -> Places],
         \A f \in Instances \ {e} : y[f] = x[f],
         Placed(e, y[e].pc, y[e].at, more, r2), Listed(y[e].phase, y[e].todo, r2)
  PROVE  WorksOK(y, more, r2)
<1>1. WorksOK(x, more, r2)
  BY WorksStay
<1> QED
  BY <1>1 DEF WorksOK

\* Instance e goes from its place in x to pc with job j.
Moved(x, y, e, pc, j) ==
  /\ y \in [Instances -> Places]
  /\ \A f \in Instances \ {e} : y[f] = x[f]
  /\ y[e].pc = pc /\ y[e].at = j /\ y[e].phase = x[e].phase /\ y[e].todo = x[e].todo

LEMMA WorksGo ==
  ASSUME NEW x, NEW cap, NEW more, NEW r, NEW r2, WorksOK(x, cap, r),
         cap \subseteq more, more \subseteq Payments, Grown(r, r2),
         NEW e \in Instances, NEW pc, NEW j, Placed(e, pc, j, more, r2),
         NEW y, Moved(x, y, e, pc, j)
  PROVE  WorksOK(y, more, r2)
<1>1. Listed(x[e].phase, x[e].todo, r2)
  BY ListedStays DEF WorksOK
<1>2. Placed(e, y[e].pc, y[e].at, more, r2) /\ Listed(y[e].phase, y[e].todo, r2)
  BY <1>1 DEF Moved
<1>3. y \in [Instances -> Places] /\ \A f \in Instances \ {e} : y[f] = x[f]
  BY DEF Moved
<1> QED
  BY <1>2, <1>3, WorksMove

\* What Go does.
LEMMA GoMoves ==
  ASSUME exec \in [Instances -> Places], NEW e \in Instances, NEW STATE pc, NEW STATE j,
         pc \in ServerPlaces \cup CronPlaces, j \in Jobs, Go(e, pc, j)
  PROVE  Moved(exec, exec', e, pc, j)
<1>1. exec' = [exec EXCEPT ![e].pc = pc, ![e].at = j]
  BY DEF Go
<1>2. exec' \in [Instances -> Places]
  <2>1. ASSUME NEW m \in Places, NEW w, w = [m EXCEPT !.pc = pc, !.at = j]
        PROVE  w \in Places
    BY <2>1 DEF Places
  <2>2. exec' = [exec EXCEPT ![e] = [exec[e] EXCEPT !.pc = pc, !.at = j]] /\ exec[e] \in Places
    BY <1>1
  <2> QED
    BY <2>1, <2>2
<1>3. \A f \in Instances \ {e} : exec'[f] = exec[f]
  BY <1>1
<1>4. /\ exec'[e].pc = pc /\ exec'[e].at = j /\ exec'[e].phase = exec[e].phase
      /\ exec'[e].todo = exec[e].todo
  BY <1>1 DEF Places
<1> QED
  BY <1>2, <1>3, <1>4 DEF Moved

LEMMA NothingToDo ==
  ASSUME NEW e \in Instances, NEW cap, NEW r
  PROVE  /\ Placed(e, "idle", NoJob, cap, r) /\ Listed("none", {}, r)
         /\ e \in Crons => Placed(e, "pick", NoJob, cap, r)
BY Roles, Numbers DEF Placed, Listed, NoJob, Jobs, Grants, ServerPlaces, CronPlaces, Work,
   Entered

LEMMA WorksIdle ==
  ASSUME NEW x, NEW cap, NEW more, NEW r, NEW r2, WorksOK(x, cap, r),
         cap \subseteq more, more \subseteq Payments, Grown(r, r2),
         NEW e \in Instances, NEW y, y = [x EXCEPT ![e] = Idle]
  PROVE  WorksOK(y, more, r2)
<1>1. /\ Placed(e, "idle", NoJob, more, r2) /\ Listed("none", {}, r2)
      /\ NoJob \in Jobs
  BY NothingToDo DEF Placed
<1>2. /\ Idle.pc = "idle" /\ Idle.at = NoJob /\ Idle.phase = "none" /\ Idle.todo = {}
      /\ Idle \in Places
  BY <1>1 DEF Idle, Places, ServerPlaces
<1>3. x \in [Instances -> Places]
  BY DEF WorksOK
<1>4. y \in [Instances -> Places] /\ y[e] = Idle /\ \A f \in Instances \ {e} : y[f] = x[f]
  BY <1>2, <1>3
<1>5. Placed(e, y[e].pc, y[e].at, more, r2) /\ Listed(y[e].phase, y[e].todo, r2)
  BY <1>1, <1>2, <1>4
<1> QED
  BY <1>4, <1>5, WorksMove
-----------------------------------------------------------------------------
(* Every step keeps the invariant.                                         *)

LEMMA Assembled ==
  ASSUME RowsOK(row', captured'), StudentOK(student', row'), AppsOK(app', captured'),
         WorksOK(exec', captured', row'), open' \subseteq Payments,
         acked' \subseteq captured', stale' \in 0..Len(Orders),
         faults' \in 0..MaxFaults, desks' \in 0..MaxDesks
  PROVE  Inv'
BY DEF Inv

\* Where instance e is now.
LEMMA Here ==
  ASSUME Inv, NEW e \in Instances
  PROVE  /\ Placed(e, exec[e].pc, exec[e].at, captured, row)
         /\ Listed(exec[e].phase, exec[e].todo, row)
         /\ exec[e].at \in Jobs /\ exec[e] \in Places
         /\ exec \in [Instances -> Places]
         /\ exec[e].pc \notin {"idle", "pick"} => P(e) \in captured /\ P(e) \in Payments
         /\ exec[e].pc \in Entered => row[P(e)].st # "none"
BY DEF Inv, WorksOK, Placed, RowsOK, P

LEMMA Counted ==
  ASSUME Inv
  PROVE  /\ Fault \/ NoFault \/ faults' = faults => faults' \in 0..MaxFaults
         /\ Decision \/ desks' = desks => desks' \in 0..MaxDesks
BY BoundsAssumption DEF Inv, Fault, NoFault, Decision

\* A step that changes no row, application or student.
LEMMA Quiet ==
  ASSUME Inv, UNCHANGED <<captured, open, row, app, student, stale>>,
         WorksOK(exec', captured, row), acked' \subseteq captured,
         Fault \/ NoFault \/ faults' = faults, Decision \/ desks' = desks
  PROVE  Inv'
<1>1. faults' \in 0..MaxFaults /\ desks' \in 0..MaxDesks
  BY Counted
<1>2. /\ RowsOK(row', captured') /\ StudentOK(student', row') /\ AppsOK(app', captured')
      /\ WorksOK(exec', captured', row') /\ open' \subseteq Payments
      /\ acked' \subseteq captured' /\ stale' \in 0..Len(Orders)
  BY DEF Inv
<1> QED
  BY <1>1, <1>2, Assembled

LEMMA Unmoved ==
  ASSUME Inv
  PROVE  /\ RowsOK(row, captured) /\ Grown(row, row) /\ captured \subseteq Payments
         /\ WorksOK(exec, captured, row) /\ acked \subseteq captured
BY RowsCaptured DEF Inv, RowsOK

\* The job of e is over.
LEMMA Returned ==
  ASSUME Inv, NEW e \in Instances, exec[e].pc \notin {"idle", "pick"}, captured' = captured,
         RowsOK(row', captured), Grown(row, row'),
         Return(e, TRUE) \/ Return(e, FALSE) \/ Return(e, exec[e].at.ok)
  PROVE  WorksOK(exec', captured', row') /\ acked' \subseteq captured'
<1>1. captured \subseteq Payments /\ WorksOK(exec, captured, row) /\ acked \subseteq captured
  BY Unmoved
<1>2. P(e) \in captured
  BY Here
<1>3. acked' \subseteq captured'
  BY <1>1, <1>2 DEF Return
<1>4. CASE e \in Crons
  <2>1. Go(e, "pick", NoJob)
    BY <1>4 DEF Return
  <2>2. Placed(e, "pick", NoJob, captured', row')
    BY <1>4, NothingToDo
  <2>3. Moved(exec, exec', e, "pick", NoJob)
    BY <2>1, <2>2, <1>4, Here, GoMoves DEF Placed
  <2> QED
    BY <1>1, <1>3, <2>2, <2>3, WorksGo
<1>5. CASE e \notin Crons
  <2>1. exec' = [exec EXCEPT ![e] = Idle]
    BY <1>5 DEF Return
  <2> QED
    BY <1>1, <1>3, <2>1, WorksIdle
<1> QED
  BY <1>4, <1>5

\* The job of e goes on.
LEMMA Gone ==
  ASSUME Inv, NEW e \in Instances, captured' = captured,
         RowsOK(row', captured), Grown(row, row'), NEW STATE pc, NEW STATE j, Go(e, pc, j),
         Placed(e, pc, j, captured, row')
  PROVE  WorksOK(exec', captured', row')
<1>1. captured \subseteq Payments /\ WorksOK(exec, captured, row)
  BY Unmoved
<1>2. Moved(exec, exec', e, pc, j)
  BY Here, Roles, GoMoves DEF Placed
<1> QED
  BY <1>1, <1>2, WorksGo

LEMMA Marked ==
  ASSUME Inv, NEW e \in Instances, captured' = captured,
         RowsOK(row', captured), Grown(row, row'),
         P(e) \in captured, row[P(e)].st # "none",
         NEW ent \in {"active", "failed"}, NEW ok \in BOOLEAN, Mark(e, ent, ok)
  PROVE  WorksOK(exec', captured', row')
<1> DEFINE j == [exec[e].at EXCEPT !.ent = ent, !.ok = ok]
<1>1. exec[e].at \in Jobs /\ P(e) \in Payments
  BY Here, Unmoved
<1>2. j \in Jobs /\ j.p = P(e) /\ j.ent = ent
  BY <1>1 DEF P, Grants, Jobs
<1>3. Go(e, "mark", j)
  BY DEF Mark
<1>4. row'[P(e)].st # "none"
  BY <1>1 DEF Grown
<1>5. Placed(e, "mark", j, captured, row')
  <2> HIDE DEF j
  <2> QED
    BY <1>2, <1>4 DEF Placed, ServerPlaces, CronPlaces, Work
<1> QED
  BY <1>3, <1>5, Gone

\* The gateway and time.
LEMMA CapturesKeeps ==
  ASSUME Inv, NEW p \in Payments, Captures(p)
  PROVE  Inv'
<1>1. /\ captured' = captured \cup {p} /\ captured \subseteq captured' /\ captured' \subseteq Payments
      /\ UNCHANGED <<stale, open, row, app, student, acked, exec, faults, desks>>
  BY Unmoved DEF Captures
<1>2. RowsOK(row', captured') /\ Grown(row, row)
  BY <1>1, RowsCaptured DEF Inv
<1>3. WorksOK(exec', captured', row')
  BY <1>1, <1>2, WorksStay DEF Inv
<1>4. AppsOK(app', captured')
  BY <1>1 DEF Inv, AppsOK
<1> QED
  BY <1>1, <1>2, <1>3, <1>4, Assembled DEF Inv

\* A step that changes rows only, or rows and one instance.
LEMMA RowStep ==
  ASSUME Inv, UNCHANGED <<captured, app, student, stale>>, open' \subseteq Payments,
         RowsOK(row', captured), Grown(row, row'),
         WorksOK(exec', captured', row'), acked' \subseteq captured',
         Fault \/ NoFault \/ faults' = faults, Decision \/ desks' = desks
  PROVE  Inv'
<1>1. faults' \in 0..MaxFaults /\ desks' \in 0..MaxDesks
  BY Counted
<1>2. StudentOK(student', row')
  BY StudentStays DEF Inv
<1>3. /\ RowsOK(row', captured') /\ AppsOK(app', captured') /\ stale' \in 0..Len(Orders)
  BY DEF Inv
<1> QED
  BY <1>1, <1>2, <1>3, Assembled

LEMMA RowTyped ==
  ASSUME Inv, NEW p \in Payments
  PROVE  /\ row[p] \in RowSet /\ row \in [Payments -> RowSet]
         /\ RowOK(row, captured, p)
BY DEF Inv, RowsOK

LEMMA LeaseAgesKeeps ==
  ASSUME Inv, NEW p \in Payments, LeaseAges(p)
  PROVE  Inv'
<1>1. /\ row[p].lease # NoOne /\ row' = [row EXCEPT ![p].aged = TRUE]
      /\ UNCHANGED <<captured, stale, open, app, student, acked, exec, faults, desks>>
  BY DEF LeaseAges
<1>2. row[p].st # "none"
  BY <1>1, RowTyped DEF RowOK, NoRow
<1>3. Elsewhere(row, row', p) /\ row'[p].st = row[p].st /\ row'[p].session = row[p].session
  BY <1>1, RowTyped DEF Elsewhere, RowSet
<1>4. RowsOK(row', captured) /\ Grown(row, row')
  BY <1>2, <1>3, RowsTouched, Unmoved
<1>5. WorksOK(exec', captured', row') /\ acked' \subseteq captured' /\ open' \subseteq Payments
  BY <1>1, <1>4, WorksStay, Unmoved DEF Inv
<1> QED
  BY <1>1, <1>4, <1>5, RowStep

\* Captures brought by the gateway, the client or the cron job.
LEMMA FreshJob ==
  ASSUME NEW p \in Payments, NEW j, j = [NoJob EXCEPT !.p = p]
  PROVE  j \in Jobs /\ j.p = p /\ j.ent = "none" /\ j.ok = FALSE
BY Numbers DEF Jobs, NoJob, Grants

LEMMA DeliverKeeps ==
  ASSUME Inv, NEW e \in Instances, NEW p \in Payments, Deliver(e, p)
  PROVE  Inv'
<1> DEFINE j == [NoJob EXCEPT !.p = p]
<1>1. /\ p \in captured /\ Go(e, "check", j)
      /\ UNCHANGED <<captured, stale, open, row, app, student, acked, faults, desks>>
  BY DEF Deliver
<1>2. j \in Jobs /\ j.p = p /\ j.ent = "none"
  BY FreshJob
<1> HIDE DEF j
<1>3. Placed(e, "check", j, captured, row')
  BY <1>1, <1>2 DEF Placed, ServerPlaces, CronPlaces, Work, Entered
<1>4. WorksOK(exec', captured', row')
  BY <1>1, <1>3, Unmoved, Gone
<1> QED
  BY <1>1, <1>4, Unmoved, Quiet

\* Then(e, pc): the job stays the same.
LEMMA Thence ==
  ASSUME Inv, NEW e \in Instances, captured' = captured,
         RowsOK(row', captured), Grown(row, row'),
         exec[e].pc \notin {"idle", "pick"},
         NEW pc \in Work \cup {"void"}, Then(e, pc), pc = "void" => e \in Servers,
         pc \in Entered => row[P(e)].st # "none",
         pc = "review" => P(e) \in Unclear, pc \notin {"insert", "grant"}
  PROVE  WorksOK(exec', captured', row')
<1>1. /\ exec[e].at \in Jobs /\ P(e) \in captured /\ P(e) \in Payments
      /\ Placed(e, exec[e].pc, exec[e].at, captured, row)
  BY Here
<1>2. Go(e, pc, exec[e].at)
  BY DEF Then
<1>3. pc \in Entered => row'[P(e)].st # "none"
  BY <1>1 DEF Grown
<1>4. e \in Crons => exec[e].at.ent # "unconsumed"
  BY <1>1 DEF Placed
<1>5. Placed(e, pc, exec[e].at, captured, row')
  <2>1. e \in Crons => pc \in CronPlaces
    BY Roles DEF CronPlaces
  <2>2. e \in Servers => pc \in ServerPlaces
    BY DEF ServerPlaces
  <2>3. pc \notin {"insert", "grant", "approve"}
    BY DEF Work
  <2> QED
    BY <1>1, <1>3, <1>4, <2>1, <2>2, <2>3 DEF Placed, P
<1> QED
  BY <1>2, <1>5, Gone

LEMMA CheckKeeps ==
  ASSUME Inv, NEW e \in Instances, Check(e)
  PROVE  Inv'
<1>1. /\ exec[e].pc = "check"
      /\ UNCHANGED <<captured, stale, open, row, app, student, faults, desks>>
  BY DEF Check, At
<1>2. P(e) \in captured /\ exec[e].at \in Jobs
  BY <1>1, Here
<1>3. WorksOK(exec', captured', row') /\ acked' \subseteq captured'
  <2>1. CASE Return(e, TRUE)
    BY <1>1, <2>1, Unmoved, Returned
  <2>2. CASE row[P(e)].st = "Completed" /\ Mark(e, "active", TRUE) /\ UNCHANGED acked
    BY <1>1, <1>2, <2>2, Unmoved, Marked
  <2>3. CASE /\ row[P(e)].st = "Completed"
             /\ Go(e, "send", [exec[e].at EXCEPT !.heal = TRUE]) /\ UNCHANGED acked
    <3> DEFINE j == [exec[e].at EXCEPT !.heal = TRUE]
    <3>1. j \in Jobs /\ j.p = P(e) /\ j.ent = exec[e].at.ent
      BY <1>2 DEF Jobs, P
    <3>2. Go(e, "send", j)
      BY <2>3
    <3> HIDE DEF j
    <3>3. Placed(e, "send", j, captured, row')
      BY <1>1, <1>2, <2>3, <3>1, Here DEF Placed, ServerPlaces, CronPlaces, Work
    <3> QED
      BY <1>1, <2>3, <3>2, <3>3, Unmoved, Gone
  <2>4. CASE Then(e, "read") /\ UNCHANGED acked
    BY <1>1, <2>4, Unmoved, Thence DEF Work, Entered
  <2> QED
    BY <2>1, <2>2, <2>3, <2>4 DEF Check
<1> QED
  BY <1>1, <1>3, Quiet

LEMMA ReadKeeps ==
  ASSUME Inv, NEW e \in Instances, Read(e)
  PROVE  Inv'
<1> DEFINE y == student.until + 1
<1>1. /\ exec[e].pc = "read"
      /\ UNCHANGED <<captured, stale, open, row, app, student, faults, desks>>
  BY DEF Read, At
<1>2. P(e) \in captured /\ exec[e].at \in Jobs
  BY <1>1, Here
<1>3. y \in Nat /\ y > 0 /\ y <= LastYear + Held(row) + 1 /\ y \in Sessions
  <2>1. Held(row) \in Nat /\ LastYear \in Nat /\ Sessions \subseteq Nat
    BY HeldFinite, Numbers
  <2>2. student.until \in Nat /\ student.until <= LastYear + Held(row)
    BY <2>1 DEF Inv, StudentOK
  <2>3. y \in Nat /\ y > 0 /\ y <= LastYear + Held(row) + 1
    BY <2>1, <2>2
  <2> HIDE DEF y
  <2> QED
    BY <2>3, Numbers
<1>4. WorksOK(exec', captured', row') /\ acked' \subseteq captured'
  <2>1. CASE Return(e, TRUE)
    BY <1>1, <2>1, Unmoved, Returned
  <2>2. CASE P(e) \in Unclear /\ Then(e, "review") /\ UNCHANGED acked
    BY <1>1, <2>2, Unmoved, Thence DEF Work, Entered
  <2>3. ASSUME NEW pc \in {"duplicate", "insert"}, UNCHANGED acked,
               Go(e, pc, [exec[e].at EXCEPT !.year = y])
        PROVE  WorksOK(exec', captured', row') /\ acked' \subseteq captured'
    <3> DEFINE j == [exec[e].at EXCEPT !.year = y]
    <3>1. j \in Jobs /\ j.p = P(e) /\ j.ent = exec[e].at.ent /\ j.year = y
      BY <1>2, <1>3 DEF Jobs, P
    <3>2. Go(e, pc, j)
      BY <2>3
    <3>3. Held(row) \in Nat /\ LastYear \in Nat
      BY HeldFinite, Numbers
    <3> HIDE DEF j
    <3>4. Placed(e, pc, j, captured, row')
      <4>1. pc = "insert" => j.year \in 1..(LastYear + Held(row') + 1)
        BY <1>1, <1>3, <3>1, <3>3
      <4> HIDE DEF y
      <4> QED
        BY <1>1, <1>2, <3>1, <4>1, Here DEF Placed, ServerPlaces, CronPlaces, Work, Entered
    <3> QED
      BY <1>1, <2>3, <3>2, <3>4, Unmoved, Gone
  <2>4. \/ P(e) \in Unclear /\ Then(e, "review") /\ UNCHANGED acked
        \/ Return(e, TRUE)
        \/ /\ Go(e, IF SessionTaken(P(e), y) THEN "duplicate" ELSE "insert",
                    [exec[e].at EXCEPT !.year = y])
           /\ UNCHANGED acked
    BY DEF Read
  <2> QED
    BY <2>1, <2>2, <2>3, <2>4
<1> QED
  BY <1>1, <1>4, Quiet

\* A row that is there stays as it is, one that is not is entered.
LEMMA Recorded ==
  ASSUME Inv, NEW p \in captured, NEW st \in {"Duplicate", "Review"},
         Record(p, st) \/ UNCHANGED row
  PROVE  RowsOK(row', captured) /\ Grown(row, row')
<1>0. p \in Payments
  BY Unmoved
<1>1. CASE UNCHANGED row \/ row[p].st # "none"
  BY <1>1, Unmoved DEF Record
<1>2. CASE row[p].st = "none" /\ Record(p, st)
  <2>1. row' = [row EXCEPT ![p].st = st]
    BY <1>2 DEF Record
  <2>2. Elsewhere(row, row', p) /\ row'[p].st = st /\ row'[p].session = row[p].session
    BY <1>0, <2>1, RowTyped DEF Elsewhere, RowSet, Statuses
  <2> QED
    BY <1>2, <2>2, Unmoved, RowsJudged
<1> QED
  BY <1>1, <1>2

LEMMA StoreReviewKeeps ==
  ASSUME Inv, NEW e \in Instances, StoreReview(e)
  PROVE  Inv'
<1>1. /\ exec[e].pc = "review" /\ (Record(P(e), "Review") \/ UNCHANGED row)
      /\ Return(e, TRUE) /\ (Fault \/ NoFault)
      /\ UNCHANGED <<captured, stale, open, app, student, desks>>
  BY DEF StoreReview, At
<1>2. P(e) \in captured
  BY <1>1, Here
<1>3. RowsOK(row', captured) /\ Grown(row, row')
  BY <1>1, <1>2, Recorded
<1>4. WorksOK(exec', captured', row') /\ acked' \subseteq captured'
  BY <1>1, <1>3, Returned
<1> QED
  BY <1>1, <1>3, <1>4, RowStep DEF Inv

LEMMA StoreDuplicateKeeps ==
  ASSUME Inv, NEW e \in Instances, StoreDuplicate(e)
  PROVE  Inv'
<1>1. /\ exec[e].pc = "duplicate" /\ (Record(P(e), "Duplicate") \/ UNCHANGED row)
      /\ (Return(e, TRUE) \/ Return(e, FALSE)) /\ (Fault \/ NoFault)
      /\ UNCHANGED <<captured, stale, open, app, student, desks>>
  BY DEF StoreDuplicate, At
<1>2. P(e) \in captured
  BY <1>1, Here
<1>3. RowsOK(row', captured) /\ Grown(row, row')
  BY <1>1, <1>2, Recorded
<1>4. WorksOK(exec', captured', row') /\ acked' \subseteq captured'
  BY <1>1, <1>3, Returned
<1> QED
  BY <1>1, <1>3, <1>4, RowStep DEF Inv

LEMMA InsertKeeps ==
  ASSUME Inv, NEW e \in Instances, Insert(e)
  PROVE  Inv'
<1> DEFINE p == P(e)
           y == exec[e].at.year
<1>1. exec[e].pc = "insert" /\ UNCHANGED <<captured, stale, app, student, desks>>
  BY DEF Insert, At
<1>2. /\ p \in captured /\ p \in Payments /\ exec[e].at \in Jobs
      /\ y \in 1..(LastYear + Held(row) + 1)
  BY <1>1, Here DEF Placed, P
<1>3. CASE UNCHANGED <<row, open>> /\ (Fault \/ NoFault)
           /\ (Return(e, TRUE) \/ Return(e, FALSE) \/ (Then(e, "duplicate") /\ UNCHANGED acked))
  <2>1. WorksOK(exec', captured', row') /\ acked' \subseteq captured'
    <3>1. CASE Return(e, TRUE) \/ Return(e, FALSE)
      BY <1>1, <1>3, <3>1, Unmoved, Returned
    <3>2. CASE Then(e, "duplicate") /\ UNCHANGED acked
      BY <1>1, <1>3, <3>2, Unmoved, Thence DEF Work, Entered
    <3> QED
      BY <1>3, <3>1, <3>2
  <2> QED
    BY <1>1, <1>3, <2>1, Quiet
<1>4. CASE /\ row[p].st = "none" /\ ~SessionTaken(p, y)
           /\ row' = [row EXCEPT ![p] = [NoRow EXCEPT !.st = "Completed",
                                          !.session = y, !.ent = "pending"]]
           /\ open' = open \ {p}
           /\ Then(e, "submit") /\ NoFault /\ UNCHANGED acked
  <2>1. LastYear \in Nat /\ Held(row) \in Nat /\ y \in Sessions /\ y \in Nat /\ y > 0
        /\ y <= LastYear + Held(row) + 1
    <3>1. LastYear \in Nat /\ Held(row) \in Nat
      BY HeldFinite, Numbers
    <3>2. y \in Nat /\ y > 0 /\ y <= LastYear + Held(row) + 1
      BY <1>2, <3>1
    <3> QED
      BY <3>1, <3>2, Numbers
  <2>2. row[p].session = 0
    BY <1>4, <1>2, RowTyped DEF RowOK, NoRow
  <2> DEFINE x == [NoRow EXCEPT !.st = "Completed", !.session = y, !.ent = "pending"]
  <2>3. x \in RowSet /\ x.st = "Completed" /\ x.session = y
    BY <2>1 DEF RowSet, NoRow, Statuses, Grants
  <2>4. row' = [row EXCEPT ![p] = x]
    BY <1>4
  <2> HIDE DEF x, p, y
  <2>5. Elsewhere(row, row', p) /\ row'[p] = x
    BY <2>3, <2>4, <1>2, RowTyped DEF Elsewhere
  <2>6. \A q \in Payments \ {p} : ~(row[q].st = "Completed" /\ row[q].session = y)
    BY <1>4 DEF SessionTaken, HasPass
  <2>7. RowsOK(row', captured) /\ Grown(row, row')
    BY <1>2, <2>1, <2>2, <2>3, <2>5, <2>6, RowsPassed, Unmoved
  <2>8. WorksOK(exec', captured', row')
    <3>1. Placed(e, "submit", exec[e].at, captured, row')
      BY <1>1, <1>2, <2>3, <2>5, Here DEF Placed, ServerPlaces, CronPlaces, Work, p, P
    <3>2. Go(e, "submit", exec[e].at)
      BY <1>4 DEF Then
    <3> QED
      BY <1>1, <2>7, <3>1, <3>2, Gone
  <2>9. acked' \subseteq captured' /\ open' \subseteq Payments
    BY <1>1, <1>4 DEF Inv
  <2> QED
    BY <1>1, <1>4, <2>7, <2>8, <2>9, RowStep
<1> QED
  BY <1>3, <1>4 DEF Insert

LEMMA SubmitKeeps ==
  ASSUME Inv, NEW e \in Instances, Submit(e)
  PROVE  Inv'
<1>1. /\ exec[e].pc = "submit" /\ (Fault \/ NoFault)
      /\ UNCHANGED <<captured, stale, open, row, app, student, desks>>
  BY DEF Submit, At
<1>2. P(e) \in captured /\ row[P(e)].st # "none"
  BY <1>1, Here DEF Entered
<1>3. WorksOK(exec', captured', row') /\ acked' \subseteq captured'
  <2>1. CASE Mark(e, "active", TRUE) /\ UNCHANGED acked
    BY <1>1, <1>2, <2>1, Unmoved, Marked
  <2>2. CASE Then(e, "send") /\ UNCHANGED acked
    BY <1>1, <1>2, <2>2, Unmoved, Thence DEF Work
  <2>3. CASE Return(e, FALSE)
    BY <1>1, <2>3, Unmoved, Returned
  <2> QED
    BY <2>1, <2>2, <2>3 DEF Submit
<1> QED
  BY <1>1, <1>3, Quiet

\* A step that changes applications and one instance.
LEMMA AppStep ==
  ASSUME Inv, UNCHANGED <<captured, open, row, student, stale>>, acked' \subseteq captured',
         AppsOK(app', captured), WorksOK(exec', captured', row'),
         Fault \/ NoFault \/ faults' = faults, Decision \/ desks' = desks
  PROVE  Inv'
<1>1. faults' \in 0..MaxFaults /\ desks' \in 0..MaxDesks
  BY Counted
<1>2. /\ RowsOK(row', captured') /\ StudentOK(student', row') /\ open' \subseteq Payments
      /\ acked' \subseteq captured' /\ stale' \in 0..Len(Orders) /\ AppsOK(app', captured')
  BY DEF Inv
<1> QED
  BY <1>1, <1>2, Assembled

LEMMA SendKeeps ==
  ASSUME Inv, NEW e \in Instances, Send(e)
  PROVE  Inv'
<1>1. /\ exec[e].pc = "send" /\ (Fault \/ NoFault)
      /\ UNCHANGED <<captured, stale, open, row, student, desks>>
      /\ app' = [app EXCEPT ![P(e)] = "submitted"] \/ UNCHANGED app
  BY DEF Send, At
<1>2. P(e) \in captured /\ row[P(e)].st # "none" /\ P(e) \in Payments
  BY <1>1, Here DEF Entered
<1>3. AppsOK(app', captured)
  BY <1>1, <1>2 DEF Inv, AppsOK
<1>4. WorksOK(exec', captured', row') /\ acked' \subseteq captured'
  <2>1. CASE (Mark(e, "failed", TRUE) \/ Mark(e, "active", TRUE) \/ Mark(e, "failed", FALSE))
             /\ UNCHANGED acked
    BY <1>1, <1>2, <2>1, Unmoved, Marked
  <2>2. CASE Return(e, FALSE)
    BY <1>1, <2>2, Unmoved, Returned
  <2> QED
    BY <2>1, <2>2 DEF Send
<1> QED
  BY <1>1, <1>3, <1>4, AppStep

LEMMA MetaReadKeeps ==
  ASSUME Inv, NEW e \in Instances, MetaRead(e)
  PROVE  Inv'
<1>1. /\ exec[e].pc = "mark"
      /\ UNCHANGED <<captured, stale, open, row, app, student, faults, desks>>
  BY DEF MetaRead, At
<1>2. P(e) \in captured /\ row[P(e)].st # "none" /\ P(e) \in Payments /\ exec[e].at \in Jobs
  BY <1>1, Here DEF Entered
<1>3. WorksOK(exec', captured', row') /\ acked' \subseteq captured'
  <2>1. CASE Return(e, exec[e].at.ok)
    BY <1>1, <2>1, Unmoved, Returned
  <2>2. CASE Go(e, "write", [exec[e].at EXCEPT !.seen = row[P(e)].lease]) /\ UNCHANGED acked
    <3> DEFINE j == [exec[e].at EXCEPT !.seen = row[P(e)].lease]
    <3>1. row[P(e)].lease \in Crons \cup {NoOne}
      BY <1>2, RowTyped DEF RowSet
    <3>2. j \in Jobs /\ j.p = P(e) /\ j.ent = exec[e].at.ent
      BY <1>2, <3>1 DEF Jobs, P
    <3>3. Go(e, "write", j)
      BY <2>2
    <3> HIDE DEF j
    <3>4. Placed(e, "write", j, captured, row')
      BY <1>1, <1>2, <3>2, Here DEF Placed, ServerPlaces, CronPlaces, Work
    <3> QED
      BY <1>1, <2>2, <3>3, <3>4, Unmoved, Gone
  <2> QED
    BY <2>1, <2>2 DEF MetaRead
<1> QED
  BY <1>1, <1>3, Quiet

\* What updatePaymentMetadata and a notice write: never the status of a row.
LEMMA WrittenTouches ==
  ASSUME Inv, NEW e \in Instances, exec[e].pc \in {"write", "note"}
  PROVE  /\ Elsewhere(row, Written(e), P(e))
         /\ Written(e)[P(e)].st = row[P(e)].st
         /\ Written(e)[P(e)].session = row[P(e)].session
         /\ Written(e)[P(e)].ent = exec[e].at.ent
         /\ row[P(e)].st # "none" /\ P(e) \in Payments
<1>1. /\ exec[e].at \in Jobs /\ P(e) \in Payments /\ row[P(e)].st # "none"
  BY Here DEF Entered
<1> DEFINE p == P(e)
           j == exec[e].at
<1>2. j.ent \in Grants /\ j.seen \in Crons \cup {NoOne} /\ j.owns \in BOOLEAN
  BY <1>1 DEF Jobs
<1>3. PICK l : l = IF j.owns THEN NoOne ELSE j.seen
  OBVIOUS
<1>4. PICK a \in BOOLEAN : a = (j.seen # NoOne /\ ~j.owns /\ row[p].aged)
  BY <1>1, <1>2, RowTyped DEF RowSet
<1>5. Written(e) = [row EXCEPT ![p].ent = j.ent, ![p].lease = l, ![p].aged = a]
  BY <1>1, <1>3, <1>4, RowTyped DEF Written, P
<1>6. l \in Crons \cup {NoOne}
  BY <1>2, <1>3
<1>7. ASSUME NEW x \in RowSet, NEW z, z = [x EXCEPT !.ent = j.ent, !.lease = l, !.aged = a]
      PROVE  z \in RowSet /\ z.st = x.st /\ z.session = x.session /\ z.ent = j.ent
  BY <1>2, <1>6, <1>7 DEF RowSet
<1>8. PICK z : z = [row[p] EXCEPT !.ent = j.ent, !.lease = l, !.aged = a]
  OBVIOUS
<1>9. Written(e) = [row EXCEPT ![p] = z]
  BY <1>1, <1>5, <1>8, RowTyped
<1>10. z \in RowSet /\ z.st = row[p].st /\ z.session = row[p].session /\ z.ent = j.ent
  BY <1>1, <1>7, <1>8, RowTyped
<1> HIDE DEF p, j
<1>11. /\ Elsewhere(row, Written(e), p) /\ Written(e)[p] = z
  BY <1>1, <1>9, <1>10, RowTyped DEF Elsewhere, p
<1> QED
  BY <1>1, <1>10, <1>11 DEF p, j

LEMMA MetaWriteKeeps ==
  ASSUME Inv, NEW e \in Instances, MetaWrite(e)
  PROVE  Inv'
<1>1. /\ exec[e].pc = "write" /\ (Fault \/ NoFault)
      /\ UNCHANGED <<captured, stale, open, app, student, desks>>
      /\ row' = Written(e) \/ row' = row
      /\ Return(e, exec[e].at.ok)
  BY DEF MetaWrite, At
<1>2. RowsOK(row', captured) /\ Grown(row, row')
  <2>1. CASE row' = row
    BY <2>1, Unmoved
  <2>2. CASE row' = Written(e)
    BY <1>1, <2>2, WrittenTouches, RowsTouched, Unmoved
  <2> QED
    BY <1>1, <2>1, <2>2
<1>3. WorksOK(exec', captured', row') /\ acked' \subseteq captured'
  BY <1>1, <1>2, Returned
<1> QED
  BY <1>1, <1>2, <1>3, RowStep DEF Inv
-----------------------------------------------------------------------------
(* The cron job keeps the invariant.                                       *)

LEMMA Phased ==
  ASSUME Inv, NEW e \in Instances, UNCHANGED <<captured, row>>,
         NEW pc \in {"pick", "idle"}, pc = "pick" => e \in Crons,
         NEW STATE phase, NEW STATE todo, Phase(e, pc, phase, todo),
         Listed(phase, todo, row)
  PROVE  WorksOK(exec', captured', row')
<1>1. exec' = [exec EXCEPT ![e] = [Idle EXCEPT !.pc = pc, !.phase = phase, !.todo = todo]]
  BY DEF Phase
<1>2. PICK w : w = [Idle EXCEPT !.pc = pc, !.phase = phase, !.todo = todo]
  OBVIOUS
<1>3. w.pc = pc /\ w.at = NoJob /\ w.phase = phase /\ w.todo = todo
  BY <1>2 DEF Idle
<1>4. Placed(e, pc, NoJob, captured, row) /\ NoJob \in Jobs
  BY NothingToDo DEF Placed
<1>5. w \in Places
  <2>1. phase \in {"none", "orders", "grants"} /\ todo \in SUBSET Payments
    BY DEF Listed
  <2>2. pc \in ServerPlaces \cup CronPlaces
    BY DEF ServerPlaces, CronPlaces
  <2> QED
    BY <1>2, <1>4, <2>1, <2>2 DEF Places, Idle
<1>6. exec \in [Instances -> Places]
  BY Here
<1>7. exec' \in [Instances -> Places] /\ exec'[e] = w
  BY <1>1, <1>2, <1>5, <1>6
<1>8. \A f \in Instances \ {e} : exec'[f] = exec[f]
  BY <1>1, <1>6
<1>9. Placed(e, exec'[e].pc, exec'[e].at, captured, row) /\ Listed(exec'[e].phase, exec'[e].todo, row)
  BY <1>3, <1>4, <1>7
<1> QED
  BY <1>7, <1>8, <1>9, WorksMove, Unmoved

LEMMA OrdersListed ==
  ASSUME NEW old \in 0..Len(Orders)
  PROVE  RecentOrders(old) \cup StaleOrders(old) \subseteq Payments
<1>1. \A i \in 1..Len(Orders) : Orders[i] \in Payments
  BY OrdersAssumption
<1>2. Len(Orders) \in Nat
  BY OrdersAssumption
<1>3. RecentOrders(old) \subseteq Payments
  BY <1>1, <1>2 DEF RecentOrders, PendingOrders
<1>4. PendingOrders(1, old) \subseteq 1..Len(Orders)
  BY <1>2 DEF PendingOrders
<1>5. StaleOrders(old) \subseteq {Orders[i] : i \in PendingOrders(1, old)}
  BY DEF StaleOrders
<1> QED
  BY <1>1, <1>3, <1>4, <1>5

LEMMA CronBeginsKeeps ==
  ASSUME Inv, NEW e \in Instances, CronBegins(e)
  PROVE  Inv'
<1>1. /\ e \in Crons /\ UNCHANGED <<captured, open, row, app, student, acked, faults, desks>>
  BY DEF CronBegins
<1>2. PICK old \in {stale} \cup {n \in stale + 1..Len(Orders) : Orders[n] \in open} :
        /\ stale' = old
        /\ Phase(e, "pick", "orders", RecentOrders(old) \cup StaleOrders(old))
  BY DEF CronBegins
<1>3. old \in 0..Len(Orders)
  BY <1>2, OrdersAssumption DEF Inv
<1>4. Listed("orders", RecentOrders(old) \cup StaleOrders(old), row)
  BY <1>3, OrdersListed DEF Listed
<1>5. WorksOK(exec', captured', row')
  BY <1>1, <1>2, <1>4, Phased
<1> QED
  BY <1>1, <1>2, <1>3, <1>5, Assembled DEF Inv

LEMMA CronGoesOnKeeps ==
  ASSUME Inv, NEW e \in Instances, CronGoesOn(e)
  PROVE  Inv'
<1>1. /\ e \in Crons
      /\ UNCHANGED <<captured, stale, open, row, app, student, acked, faults, desks>>
      /\ Phase(e, "pick", "grants", Incomplete) \/ Phase(e, "idle", "none", {})
  BY DEF CronGoesOn
<1>2. Listed("grants", Incomplete, row) /\ Listed("none", {}, row)
  BY DEF Listed, Incomplete
<1>3. WorksOK(exec', captured', row')
  <2>1. CASE Phase(e, "pick", "grants", Incomplete)
    BY <1>1, <1>2, <2>1, Phased
  <2>2. CASE Phase(e, "idle", "none", {})
    BY <1>1, <1>2, <2>2, Phased
  <2> QED
    BY <1>1, <2>1, <2>2
<1> QED
  BY <1>1, <1>3, Unmoved, Quiet

LEMMA CronPicksKeeps ==
  ASSUME Inv, NEW e \in Instances, NEW p \in Payments, CronPicks(e, p)
  PROVE  Inv'
<1> DEFINE j == [NoJob EXCEPT !.p = p]
           pc == IF exec[e].phase = "grants" THEN "claim"
                 ELSE IF p \in captured THEN "check" ELSE "pick"
           left == exec[e].todo \ {p}
<1>1. /\ exec[e].pc = "pick" /\ p \in exec[e].todo
      /\ exec' = [exec EXCEPT ![e].todo = left, ![e].at = j, ![e].pc = pc]
      /\ UNCHANGED <<captured, stale, open, row, app, student, acked, faults, desks>>
  BY DEF CronPicks, At
<1>2. j \in Jobs /\ j.p = p /\ j.ent = "none"
  BY FreshJob
<1>3. /\ exec \in [Instances -> Places] /\ exec[e] \in Places
      /\ Placed(e, exec[e].pc, exec[e].at, captured, row)
      /\ Listed(exec[e].phase, exec[e].todo, row)
  BY Here
<1>4. e \in Crons
  BY <1>1, <1>3, Roles DEF Placed, ServerPlaces, Work
<1>5. Listed(exec[e].phase, left, row)
  BY <1>3 DEF Listed
<1>6. pc \in {"claim", "check", "pick"} /\ pc \in ServerPlaces \cup CronPlaces
  BY DEF CronPlaces, Work
<1>7. pc = "claim" => row[p].st # "none" /\ p \in captured
  BY <1>1, <1>3, RowTyped DEF Listed, RowOK
<1>8. pc = "check" => p \in captured
  OBVIOUS
<1> HIDE DEF j, pc, left
<1>9. Placed(e, pc, j, captured, row)
  BY <1>2, <1>4, <1>6, <1>7, <1>8, Roles DEF Placed, CronPlaces, Work, Entered
<1>10. ASSUME NEW m \in Places, NEW w, w = [m EXCEPT !.todo = left, !.at = j, !.pc = pc],
              left \subseteq Payments
       PROVE  /\ w \in Places /\ w.phase = m.phase
              /\ w.todo = left /\ w.at = j /\ w.pc = pc
  BY <1>2, <1>6, <1>10 DEF Places
<1>11. PICK w : w = [exec[e] EXCEPT !.todo = left, !.at = j, !.pc = pc]
  OBVIOUS
<1>12. exec' = [exec EXCEPT ![e] = w]
  BY <1>1, <1>3, <1>11
<1>13. /\ w \in Places /\ w.phase = exec[e].phase
       /\ w.todo = left /\ w.at = j /\ w.pc = pc
  BY <1>3, <1>5, <1>10, <1>11 DEF Listed
<1>14. /\ exec' \in [Instances -> Places] /\ exec'[e] = w
       /\ \A f \in Instances \ {e} : exec'[f] = exec[f]
  BY <1>3, <1>12, <1>13
<1>15. /\ Placed(e, exec'[e].pc, exec'[e].at, captured, row)
       /\ Listed(exec'[e].phase, exec'[e].todo, row)
  BY <1>5, <1>9, <1>13, <1>14
<1>16. WorksOK(exec', captured', row')
  BY <1>1, <1>14, <1>15, WorksMove, Unmoved
<1> QED
  BY <1>1, <1>16, Unmoved, Quiet

LEMMA ClaimKeeps ==
  ASSUME Inv, NEW e \in Instances, Claim(e)
  PROVE  Inv'
<1>1. /\ exec[e].pc = "claim" /\ (Fault \/ NoFault)
      /\ UNCHANGED <<captured, stale, open, app, student, desks>>
  BY DEF Claim, At
<1>2. /\ P(e) \in captured /\ row[P(e)].st # "none" /\ P(e) \in Payments
      /\ exec[e].at \in Jobs
      /\ Placed(e, exec[e].pc, exec[e].at, captured, row)
  BY <1>1, Here DEF Entered
<1>3. e \in Crons
  BY <1>1, <1>2, Roles DEF Placed, ServerPlaces, Work
<1>4. RowsOK(row', captured) /\ Grown(row, row')
  <2>1. CASE UNCHANGED row
    BY <2>1, Unmoved
  <2>2. CASE row' = [row EXCEPT ![P(e)].ent = "recovering", ![P(e)].lease = e,
                               ![P(e)].aged = FALSE]
    <3> DEFINE p == P(e)
    <3>1. ASSUME NEW x \in RowSet, NEW z,
                 z = [x EXCEPT !.ent = "recovering", !.lease = e, !.aged = FALSE]
          PROVE  z \in RowSet /\ z.st = x.st /\ z.session = x.session
      BY <1>3, <3>1 DEF RowSet, Grants
    <3>2. PICK z : z = [row[p] EXCEPT !.ent = "recovering", !.lease = e, !.aged = FALSE]
      OBVIOUS
    <3>3. row' = [row EXCEPT ![p] = z]
      BY <1>2, <2>2, <3>2, RowTyped
    <3>4. z \in RowSet /\ z.st = row[p].st /\ z.session = row[p].session
      BY <1>2, <3>1, <3>2, RowTyped
    <3> HIDE DEF p
    <3>5. Elsewhere(row, row', p) /\ row'[p] = z
      BY <1>2, <3>3, <3>4, RowTyped DEF Elsewhere, p
    <3> QED
      BY <1>2, <3>4, <3>5, RowsTouched, Unmoved DEF p
  <2> QED
    BY <2>1, <2>2 DEF Claim
<1>5. WorksOK(exec', captured', row') /\ acked' \subseteq captured'
  <2>1. CASE Return(e, TRUE) \/ Return(e, FALSE)
    BY <1>1, <1>4, <2>1, Returned
  <2>2. CASE Go(e, "apply", [exec[e].at EXCEPT !.owns = TRUE]) /\ UNCHANGED acked
    <3> DEFINE j == [exec[e].at EXCEPT !.owns = TRUE]
    <3>1. j \in Jobs /\ j.p = P(e) /\ j.ent = exec[e].at.ent
      BY <1>2 DEF Jobs, P
    <3>2. Go(e, "apply", j)
      BY <2>2
    <3>3. row'[P(e)].st # "none"
      BY <1>2, <1>4 DEF Grown
    <3> HIDE DEF j
    <3>4. Placed(e, "apply", j, captured, row')
      BY <1>1, <1>2, <3>1, <3>3 DEF Placed, ServerPlaces, CronPlaces, Work
    <3> QED
      BY <1>1, <1>4, <2>2, <3>2, <3>4, Gone, Unmoved
  <2> QED
    BY <2>1, <2>2 DEF Claim
<1> QED
  BY <1>1, <1>4, <1>5, RowStep DEF Inv

LEMMA ApplyKeeps ==
  ASSUME Inv, NEW e \in Instances, Apply(e)
  PROVE  Inv'
<1>1. /\ exec[e].pc = "apply"
      /\ UNCHANGED <<captured, stale, open, row, app, student, acked, faults, desks>>
  BY DEF Apply, At
<1>2. /\ P(e) \in captured /\ row[P(e)].st # "none" /\ P(e) \in Payments
      /\ exec[e].at \in Jobs
      /\ Placed(e, exec[e].pc, exec[e].at, captured, row)
  BY <1>1, Here DEF Entered
<1> DEFINE y == row[P(e)].session
           m == IF student.until > y THEN student.until ELSE y
           j == [exec[e].at EXCEPT !.year = m]
<1>3. WorksOK(exec', captured', row')
  <2>1. CASE Mark(e, "failed", FALSE)
    BY <1>1, <1>2, <2>1, Unmoved, Marked
  <2>2. CASE Go(e, "grant", j)
    <3>1. m \in Sessions /\ m <= LastYear + Held(row)
      BY <1>2, RowTyped DEF Inv, StudentOK, RowSet, RowOK
    <3> HIDE DEF m
    <3>2. j \in Jobs /\ j.p = P(e) /\ j.ent = exec[e].at.ent /\ j.year = m
      BY <1>2, <3>1 DEF Jobs, P
    <3> HIDE DEF j
    <3>3. Placed(e, "grant", j, captured, row')
      BY <1>1, <1>2, <3>1, <3>2 DEF Placed, ServerPlaces, CronPlaces, Work
    <3> QED
      BY <1>1, <2>2, <3>3, Gone, Unmoved
  <2> QED
    BY <2>1, <2>2 DEF Apply
<1> QED
  BY <1>1, <1>3, Unmoved, Quiet

\* A step that changes the student, and perhaps the applications, beside e.
LEMMA StudentStep ==
  ASSUME Inv, UNCHANGED <<captured, open, row, stale>>, acked' \subseteq captured',
         StudentOK(student', row), AppsOK(app', captured), WorksOK(exec', captured', row'),
         Fault \/ NoFault \/ faults' = faults, Decision \/ desks' = desks
  PROVE  Inv'
<1>1. faults' \in 0..MaxFaults /\ desks' \in 0..MaxDesks
  BY Counted
<1>2. /\ RowsOK(row', captured') /\ StudentOK(student', row') /\ open' \subseteq Payments
      /\ acked' \subseteq captured' /\ stale' \in 0..Len(Orders) /\ AppsOK(app', captured')
  BY DEF Inv
<1> QED
  BY <1>1, <1>2, Assembled

LEMMA GrantKeeps ==
  ASSUME Inv, NEW e \in Instances, Grant(e)
  PROVE  Inv'
<1>1. /\ exec[e].pc = "grant" /\ (Fault \/ NoFault)
      /\ UNCHANGED <<captured, stale, open, row, app, acked, desks>>
      /\ Mark(e, "active", FALSE) \/ Mark(e, "failed", FALSE)
      /\ \/ UNCHANGED student
         \/ student' = [student EXCEPT !.until = exec[e].at.year, !.status = "active"]
  BY DEF Grant, At
<1>2. /\ P(e) \in captured /\ row[P(e)].st # "none" /\ exec[e].at \in Jobs
      /\ exec[e].at.year <= LastYear + Held(row) /\ exec[e].at.year \in Sessions
  BY <1>1, Here DEF Entered, Placed, Jobs
<1>3. StudentOK(student', row)
  BY <1>1, <1>2 DEF Inv, StudentOK
<1>4. WorksOK(exec', captured', row')
  BY <1>1, <1>2, Unmoved, Marked
<1> QED
  BY <1>1, <1>3, <1>4, Unmoved, StudentStep DEF Inv
-----------------------------------------------------------------------------
(* Staff, finance and refund notices keep the invariant.                   *)

LEMMA OpenApprovalKeeps ==
  ASSUME Inv, NEW e \in Instances, NEW p \in Payments, OpenApproval(e, p)
  PROVE  Inv'
<1> DEFINE y == student.until + 1
           j == [NoJob EXCEPT !.p = p, !.year = y, !.heal = student.released]
<1>1. /\ Decision /\ e \in Servers /\ app[p] = "submitted" /\ student.until < LastYear
      /\ Go(e, "approve", j)
      /\ UNCHANGED <<captured, stale, open, row, app, student, acked, faults>>
  BY DEF OpenApproval, Desk
<1>2. p \in captured
  BY <1>1 DEF Inv, AppsOK
<1>3. y \in Nat /\ y <= LastYear + Held(row) /\ y \in Sessions /\ student.released \in BOOLEAN
  <2>1. Held(row) \in Nat /\ LastYear \in Nat /\ Sessions \subseteq Nat
    BY HeldFinite, Numbers
  <2>2. student.until \in Nat /\ student.released \in BOOLEAN
    BY <2>1 DEF Inv, StudentOK
  <2>3. y \in Nat /\ y <= LastYear + Held(row) /\ y <= LastYear + Held(row) + 1
    BY <1>1, <2>1, <2>2
  <2> HIDE DEF y
  <2> QED
    BY <2>2, <2>3, Numbers
<1> HIDE DEF y
<1>4. j \in Jobs /\ j.p = p /\ j.year = y
  BY <1>3 DEF Jobs, NoJob, Grants
<1> HIDE DEF j
<1>5. Placed(e, "approve", j, captured, row')
  BY <1>1, <1>2, <1>3, <1>4, Roles DEF Placed, ServerPlaces, Entered
<1>6. WorksOK(exec', captured', row')
  BY <1>1, <1>5, Unmoved, Gone
<1> QED
  BY <1>1, <1>6, Unmoved, Quiet

LEMMA ApproveKeeps ==
  ASSUME Inv, NEW e \in Instances, Approve(e)
  PROVE  Inv'
<1>1. /\ exec[e].pc = "approve"
      /\ UNCHANGED <<captured, stale, open, row, faults, desks>>
      /\ app' = [app EXCEPT ![P(e)] = "approved"]
      /\ student' = [until |-> exec[e].at.year, status |-> "active",
                     released |-> student.released /\ ~exec[e].at.heal]
  BY DEF Approve, At
<1>2. /\ P(e) \in captured /\ exec[e].at \in Jobs
      /\ exec[e].at.year <= LastYear + Held(row) /\ exec[e].at.year \in Sessions
      /\ exec[e].at.heal \in BOOLEAN
  BY <1>1, Here DEF Placed, Jobs
<1>3. StudentOK(student', row)
  BY <1>1, <1>2 DEF Inv, StudentOK
<1>4. AppsOK(app', captured)
  BY <1>1, <1>2 DEF Inv, AppsOK
<1>5. WorksOK(exec', captured', row') /\ acked' \subseteq captured'
  <2>1. CASE row[P(e)].st = "Completed" /\ Mark(e, "active", FALSE) /\ UNCHANGED acked
    BY <1>1, <1>2, <2>1, Unmoved, Marked
  <2>2. CASE Return(e, FALSE)
    BY <1>1, <2>2, Unmoved, Returned
  <2> QED
    BY <2>1, <2>2 DEF Approve
<1> QED
  BY <1>1, <1>3, <1>4, <1>5, StudentStep

LEMMA RejectKeeps ==
  ASSUME Inv, NEW e \in Instances, NEW p \in Payments, Reject(e, p)
  PROVE  Inv'
<1> DEFINE j == [NoJob EXCEPT !.p = p, !.ent = "unconsumed"]
<1>1. /\ Decision /\ e \in Servers /\ app[p] = "submitted"
      /\ app' = [app EXCEPT ![p] = "none"]
      /\ IF row[p].st = "Completed" THEN Go(e, "mark", j) ELSE UNCHANGED exec
      /\ UNCHANGED <<captured, stale, open, row, student, acked, faults>>
  BY DEF Reject, Desk
<1>2. p \in captured
  BY <1>1 DEF Inv, AppsOK
<1>3. AppsOK(app', captured)
  BY <1>1 DEF Inv, AppsOK
<1>4. j \in Jobs /\ j.p = p
  BY Numbers DEF Jobs, NoJob, Grants
<1> HIDE DEF j
<1>5. WorksOK(exec', captured', row')
  <2>1. CASE row[p].st = "Completed"
    <3>1. Placed(e, "mark", j, captured, row')
      BY <1>1, <1>2, <1>4, <2>1, Roles DEF Placed, ServerPlaces, Work
    <3> QED
      BY <1>1, <2>1, <3>1, Unmoved, Gone
  <2>2. CASE row[p].st # "Completed"
    BY <1>1, <2>2, Unmoved
  <2> QED
    BY <2>1, <2>2
<1> QED
  BY <1>1, <1>3, <1>5, Unmoved, AppStep

LEMMA ReconcileKeeps ==
  ASSUME Inv, NEW e \in Instances, NEW p \in Payments, Reconcile(e, p)
  PROVE  Inv'
<1> DEFINE y == student.until + 1
           j == [NoJob EXCEPT !.p = p]
<1>1. /\ Decision /\ e \in Servers /\ row[p].st = "Review" /\ ~SessionTaken(p, y)
      /\ row' = [row EXCEPT ![p].st = "Completed", ![p].session = y]
      /\ Go(e, "apply", j)
      /\ UNCHANGED <<captured, stale, open, app, student, acked, faults>>
  BY DEF Reconcile, Desk
<1>2. row[p].session = 0 /\ p \in captured
  BY <1>1, RowTyped DEF RowOK
<1>3. y \in Nat /\ y > 0 /\ y <= LastYear + Held(row) + 1 /\ y \in Sessions
  <2>1. Held(row) \in Nat /\ LastYear \in Nat /\ Sessions \subseteq Nat
    BY HeldFinite, Numbers
  <2>2. student.until \in Nat /\ student.until <= LastYear + Held(row)
    BY <2>1 DEF Inv, StudentOK
  <2>3. y \in Nat /\ y > 0 /\ y <= LastYear + Held(row) + 1
    BY <2>1, <2>2
  <2> HIDE DEF y
  <2> QED
    BY <2>3, Numbers
<1>4. j \in Jobs /\ j.p = p /\ j.ent = "none"
  BY FreshJob
<1> HIDE DEF y, j
<1>5. Elsewhere(row, row', p) /\ row'[p].st = "Completed" /\ row'[p].session = y
  BY <1>1, <1>3, RowTyped DEF Elsewhere, RowSet, Statuses
<1>6. \A q \in Payments \ {p} : ~(row[q].st = "Completed" /\ row[q].session = y)
  BY <1>1 DEF SessionTaken, HasPass
<1>7. RowsOK(row', captured) /\ Grown(row, row')
  BY <1>2, <1>3, <1>5, <1>6, RowsPassed, Unmoved
<1>8. Placed(e, "apply", j, captured, row')
  BY <1>1, <1>2, <1>4, <1>5, Roles DEF Placed, ServerPlaces, Work
<1>9. WorksOK(exec', captured', row')
  BY <1>1, <1>7, <1>8, Gone
<1> QED
  BY <1>1, <1>7, <1>9, RowStep DEF Inv

\* The pass a refund leaves is one the student holds.
LEMMA AfterRefundOK ==
  ASSUME Inv, NEW p \in Payments
  PROVE  StudentOK(AfterRefund(p), row)
<1>1. StudentOK(student, row)
  BY DEF Inv
<1>2. CASE row[p].st # "Completed"
  BY <1>1, <1>2 DEF AfterRefund
<1>3. CASE row[p].st = "Completed" /\ Others(p) = {}
  BY <1>1, <1>3 DEF AfterRefund, StudentOK
<1>4. CASE row[p].st = "Completed" /\ Others(p) # {}
  <2> DEFINE S == {row[q].session : q \in Others(p)}
             n == LastYear + Held(row)
             Q(y) == /\ \E q \in Others(p) : row[q].session = y
                     /\ \A q \in Others(p) : row[q].session <= y
             c == CHOOSE y \in Sessions : Q(y)
  <2>0. Held(row) \in Nat /\ LastYear \in Nat /\ Sessions \subseteq Nat
    BY HeldFinite, Numbers
  <2>1. n \in Nat /\ Sessions \subseteq Nat
    BY <2>0
  <2>2. \A q \in Others(p) : row[q].session \in Sessions /\ row[q].session <= n
    BY RowTyped DEF Others, RowSet, RowOK
  <2>3. S \subseteq 0..n /\ S # {}
    <3>1. ASSUME NEW q \in Others(p)  PROVE row[q].session \in 0..n
      <4>1. row[q].session \in Nat /\ row[q].session <= n
        BY <2>1, <2>2
      <4> HIDE DEF n
      <4> QED
        BY <2>1, <4>1
    <3> QED
      BY <1>4, <3>1
  <2>4. PICK m \in S : \A k \in S : k <= m
    <3> HIDE DEF S, n
    <3> QED
      BY <2>1, <2>3, Greatest
  <2>5. m \in Sessions /\ Q(m)
    BY <2>2, <2>4
  <2>6. c \in Sessions /\ Q(c)
    <3> HIDE DEF Q
    <3> QED
      BY <2>5
  <2>7. c <= n
    BY <2>2, <2>6
  <2>8. AfterRefund(p) = [student EXCEPT !.status = "active", !.until = c]
    BY <1>4 DEF AfterRefund
  <2> HIDE DEF c
  <2> QED
    BY <1>1, <2>6, <2>7, <2>8 DEF StudentOK
<1> QED
  BY <1>2, <1>3, <1>4

LEMMA RefundKeeps ==
  ASSUME Inv, NEW e \in Instances, NEW p \in Payments, Refund(e, p)
  PROVE  Inv'
<1> DEFINE j == [NoJob EXCEPT !.p = p]
<1>1. /\ Decision /\ e \in Servers /\ row[p].st \in {"Completed", "Duplicate", "Review"}
      /\ row' = [row EXCEPT ![p].st = "Refunded"] /\ student' = AfterRefund(p)
      /\ Go(e, "cancel", j)
      /\ UNCHANGED <<captured, stale, open, app, acked, faults>>
  BY DEF Refund, Desk
<1>2. p \in captured /\ j \in Jobs /\ j.p = p
  BY <1>1, RowTyped, FreshJob DEF RowOK
<1> HIDE DEF j
<1>3. Elsewhere(row, row', p) /\ row'[p].st = "Refunded" /\ row'[p].session = row[p].session
  BY <1>1, RowTyped DEF Elsewhere, RowSet, Statuses
<1>4. RowsOK(row', captured) /\ Grown(row, row')
  BY <1>2, <1>3, RowsJudged, Unmoved
<1>5. StudentOK(student', row')
  BY <1>1, <1>4, AfterRefundOK, StudentStays
<1>6. Placed(e, "cancel", j, captured, row')
  BY <1>1, <1>2, <1>3, Roles DEF Placed, ServerPlaces
<1>7. WorksOK(exec', captured', row')
  BY <1>1, <1>4, <1>6, Gone
<1>8. faults' \in 0..MaxFaults /\ desks' \in 0..MaxDesks
  BY <1>1, Counted
<1> QED
  BY <1>1, <1>4, <1>5, <1>7, <1>8, Assembled DEF Inv

LEMMA CancelKeeps ==
  ASSUME Inv, NEW e \in Instances, Cancel(e)
  PROVE  Inv'
<1>1. /\ exec[e].pc = "cancel"
      /\ UNCHANGED <<captured, stale, open, row, app, student, faults, desks>>
  BY DEF Cancel, At
<1>2. /\ row[P(e)].st # "none" /\ e \in Servers
  BY <1>1, Here, Roles DEF Entered, Placed, CronPlaces, Work
<1>3. WorksOK(exec', captured', row') /\ acked' \subseteq captured'
  <2>1. CASE Then(e, "void") /\ UNCHANGED acked
    BY <1>1, <1>2, <2>1, Unmoved, Thence
  <2>2. CASE Return(e, FALSE)
    BY <1>1, <2>2, Unmoved, Returned
  <2> QED
    BY <2>1, <2>2 DEF Cancel
<1> QED
  BY <1>1, <1>3, Quiet

LEMMA VoidKeeps ==
  ASSUME Inv, NEW e \in Instances, Void(e)
  PROVE  Inv'
<1>1. /\ exec[e].pc = "void" /\ Return(e, FALSE)
      /\ UNCHANGED <<captured, stale, open, row, student, faults, desks>>
      /\ app' = [app EXCEPT ![P(e)] = IF @ = "none" THEN @ ELSE "rejected"]
  BY DEF Void, At
<1>2. P(e) \in captured
  BY <1>1, Here
<1>3. AppsOK(app', captured)
  BY <1>1, <1>2 DEF Inv, AppsOK
<1>4. WorksOK(exec', captured', row') /\ acked' \subseteq captured'
  BY <1>1, Unmoved, Returned
<1> QED
  BY <1>1, <1>3, <1>4, AppStep

LEMMA DenyKeeps ==
  ASSUME Inv, NEW p \in Payments, Deny(p)
  PROVE  Inv'
<1>1. /\ Decision /\ row[p].st \in {"Duplicate", "Review"}
      /\ row' = [row EXCEPT ![p].st = "Denied"]
      /\ UNCHANGED <<captured, stale, open, app, student, acked, exec, faults>>
  BY DEF Deny
<1>2. p \in captured
  BY <1>1, RowTyped DEF RowOK
<1>3. Elsewhere(row, row', p) /\ row'[p].st = "Denied" /\ row'[p].session = row[p].session
  BY <1>1, RowTyped DEF Elsewhere, RowSet, Statuses
<1>4. RowsOK(row', captured) /\ Grown(row, row')
  BY <1>2, <1>3, RowsJudged, Unmoved
<1>5. WorksOK(exec', captured', row')
  BY <1>1, <1>4, WorksStay, Unmoved
<1> QED
  BY <1>1, <1>4, <1>5, RowStep DEF Inv

LEMMA NoticeReadsKeeps ==
  ASSUME Inv, NEW e \in Instances, NEW p \in Payments, NoticeReads(e, p)
  PROVE  Inv'
<1> DEFINE j == [NoJob EXCEPT !.p = p, !.ent = row[p].ent, !.seen = row[p].lease]
<1>1. /\ Decision /\ e \in Servers /\ row[p].st # "none" /\ Go(e, "note", j)
      /\ UNCHANGED <<captured, stale, open, row, app, student, acked, faults>>
  BY DEF NoticeReads, Desk
<1>2. p \in captured /\ row[p].ent \in Grants /\ row[p].lease \in Crons \cup {NoOne}
  BY <1>1, RowTyped DEF RowOK, RowSet
<1>3. j \in Jobs /\ j.p = p
  BY <1>2, Numbers DEF Jobs, NoJob
<1> HIDE DEF j
<1>4. Placed(e, "note", j, captured, row')
  BY <1>1, <1>2, <1>3, Roles DEF Placed, ServerPlaces
<1>5. WorksOK(exec', captured', row')
  BY <1>1, <1>4, Unmoved, Gone
<1> QED
  BY <1>1, <1>5, Unmoved, Quiet

LEMMA NoticeWritesKeeps ==
  ASSUME Inv, NEW e \in Instances, NoticeWrites(e)
  PROVE  Inv'
<1>1. /\ exec[e].pc = "note" /\ row' = Written(e) /\ Return(e, FALSE)
      /\ UNCHANGED <<captured, stale, open, app, student, faults, desks>>
  BY DEF NoticeWrites, At
<1>2. RowsOK(row', captured) /\ Grown(row, row')
  BY <1>1, WrittenTouches, RowsTouched, Unmoved
<1>3. WorksOK(exec', captured', row') /\ acked' \subseteq captured'
  BY <1>1, <1>2, Returned
<1> QED
  BY <1>1, <1>2, <1>3, RowStep DEF Inv

LEMMA CrashKeeps ==
  ASSUME Inv, NEW e \in Instances, Crash(e)
  PROVE  Inv'
<1>1. /\ Fault /\ exec' = [exec EXCEPT ![e] = Idle]
      /\ UNCHANGED <<captured, stale, open, row, app, student, acked, desks>>
  BY DEF Crash
<1>2. WorksOK(exec', captured', row')
  BY <1>1, Unmoved, WorksIdle
<1> QED
  BY <1>1, <1>2, Unmoved, Quiet
-----------------------------------------------------------------------------
LEMMA InitInv == Init => Inv
<1> SUFFICES ASSUME Init  PROVE Inv
  OBVIOUS
<1>1. /\ captured = {} /\ stale = 0 /\ open = Payments /\ acked = {}
      /\ row = [p \in Payments |-> NoRow] /\ app = [p \in Payments |-> "none"]
      /\ student = [until |-> 0, status |-> "active", released |-> FALSE]
      /\ exec = [e \in Instances |-> Idle] /\ faults = 0 /\ desks = 0
  BY DEF Init
<1>2. LastYear \in Nat /\ Held(row) \in Nat /\ 0 \in Sessions
  BY HeldFinite, Numbers
<1>3. RowsOK(row, captured)
  <2>1. NoRow \in RowSet /\ NoRow.st = "none" /\ NoRow.session = 0
    BY <1>2 DEF NoRow, RowSet, Statuses, Grants
  <2> QED
    BY <1>1, <1>2, <2>1 DEF RowsOK, RowOK, OnePass
<1>4. StudentOK(student, row)
  BY <1>1, <1>2 DEF StudentOK
<1>5. AppsOK(app, captured)
  BY <1>1 DEF AppsOK
<1>6. WorksOK(exec, captured, row)
  <2>1. ASSUME NEW e \in Instances
        PROVE  /\ Placed(e, "idle", NoJob, captured, row) /\ Listed("none", {}, row)
               /\ NoJob \in Jobs
    BY NothingToDo DEF Placed
  <2>2. /\ Idle.pc = "idle" /\ Idle.at = NoJob /\ Idle.phase = "none" /\ Idle.todo = {}
    BY DEF Idle
  <2>3. Instances # {} => Idle \in Places
    BY <2>1 DEF Idle, Places, ServerPlaces
  <2> QED
    BY <1>1, <2>1, <2>2, <2>3 DEF WorksOK
<1>7. stale \in 0..Len(Orders) /\ faults \in 0..MaxFaults /\ desks \in 0..MaxDesks
  BY <1>1, BoundsAssumption, OrdersAssumption
<1> QED
  BY <1>1, <1>3, <1>4, <1>5, <1>6, <1>7 DEF Inv

LEMMA StepInv == Inv /\ [Next]_vars => Inv'
<1> SUFFICES ASSUME Inv, [Next]_vars  PROVE Inv'
  OBVIOUS
<1>1. CASE UNCHANGED vars
  BY <1>1 DEF vars, Inv
<1>2. ASSUME NEW p \in Payments, Captures(p) \/ LeaseAges(p) \/ Deny(p)  PROVE Inv'
  BY <1>2, CapturesKeeps, LeaseAgesKeeps, DenyKeeps
<1>3. ASSUME NEW e \in Instances, CaptureStep(e)  PROVE Inv'
  BY <1>3, CheckKeeps, ReadKeeps, StoreReviewKeeps, InsertKeeps, StoreDuplicateKeeps,
     SubmitKeeps, SendKeeps, MetaReadKeeps, MetaWriteKeeps DEF CaptureStep
<1>4. ASSUME NEW e \in Instances, SweepStep(e)  PROVE Inv'
  BY <1>4, CronBeginsKeeps, CronGoesOnKeeps, CronPicksKeeps, ClaimKeeps, ApplyKeeps,
     GrantKeeps DEF SweepStep
<1>5. ASSUME NEW e \in Instances, DeskStep(e)  PROVE Inv'
  BY <1>5, ApproveKeeps, CancelKeeps, VoidKeeps, NoticeWritesKeeps, OpenApprovalKeeps,
     RejectKeeps, ReconcileKeeps, RefundKeeps, NoticeReadsKeeps DEF DeskStep
<1>6. ASSUME NEW e \in Instances, Crash(e) \/ \E p \in Payments : Deliver(e, p)  PROVE Inv'
  BY <1>6, CrashKeeps, DeliverKeeps
<1> QED
  BY <1>1, <1>2, <1>3, <1>4, <1>5, <1>6 DEF Next

(* The ledger is always what Inv says.                                     *)
THEOREM LedgerInvariant == Spec => []Inv
BY InitInv, StepInv, PTL DEF Spec

LEMMA InvTypeOK == Inv => TypeOK
<1> SUFFICES ASSUME Inv  PROVE TypeOK
  OBVIOUS
<1>1. row \in [Payments -> [st : {"none", "Completed", "Duplicate", "Review",
                                  "Refunded", "Denied"},
                            session : Sessions, ent : Grants,
                            lease : Crons \cup {NoOne}, aged : BOOLEAN]]
  BY DEF Inv, RowsOK, RowSet, Statuses
<1>2. \A p \in Payments : row[p].st # "none" => p \in captured
  BY RowTyped DEF RowOK
<1>3. \A p, q \in Payments : p # q => ~(HasPass(q, row[p].session) /\ row[p].st = "Completed")
  BY DEF Inv, RowsOK, OnePass, HasPass
<1>4. \A e \in Instances : exec[e].at \in Jobs
  BY Here
<1> QED
  BY <1>1, <1>2, <1>3, <1>4 DEF Inv, RowsOK, StudentOK, AppsOK, TypeOK

(* Every variable keeps its range and a student holds one pass for a       *)
(* session, whatever the number of payments, instances and faults: the     *)
(* pre-insert check and the partial unique index leave no interleaving in  *)
(* which two captures become the pass of one session.                      *)
THEOREM LedgerTypeOK == Spec => []TypeOK
BY LedgerInvariant, InvTypeOK, PTL
-----------------------------------------------------------------------------
(* The ledger implements the book, step by step.                           *)

BookStep == Book!BookNext \/ UNCHANGED Book!bookVars

\* What the book shows of the rows r.
Shown(r) == [p \in Payments |-> [st |-> r[p].st, session |-> r[p].session]]

\* Instance e answers the gateway about its payment, or does not.
Answers(e) == acked' = acked \/ acked' = acked \cup {P(e)}

LEMMA ReturnAnswers ==
  ASSUME NEW e \in Instances, NEW STATE ok, Return(e, ok)
  PROVE  Answers(e) /\ (~ok => acked' = acked)
BY DEF Return, Answers

\* Nothing the book shows changes, and only a payment that is in the book, or
\* one with no session to be found, is answered.
LEMMA BookTells ==
  ASSUME Inv, NEW p \in Payments,
         \A q \in Payments : row'[q].st = row[q].st /\ row'[q].session = row[q].session,
         acked' = acked \/ acked' = acked \cup {p},
         acked' = acked \/ row[p].st # "none" \/ p \in Unclear
  PROVE  BookStep
<1>1. CASE acked' = acked
  BY <1>1 DEF BookStep, Book!bookVars
<1>2. CASE acked' = acked \cup {p} /\ (row[p].st # "none" \/ p \in Unclear)
  <2>1. Book!Tell(p)
    BY <1>2 DEF Book!Tell, Book!Absent
  <2> QED
    BY <2>1 DEF BookStep, Book!BookNext
<1> QED
  BY <1>1, <1>2

\* One row changes, and no two rows are the pass of one session after that.
LEMMA BookPuts ==
  ASSUME Inv, Inv', NEW p \in Payments, Elsewhere(row, row', p),
         NEW z, z = [st |-> row'[p].st, session |-> row'[p].session]
  PROVE  /\ \A q \in Payments \ {p} :
              z.st = "Completed" => ~(row[q].st = "Completed" /\ row[q].session = z.session)
         /\ Shown(row') = [Shown(row) EXCEPT ![p] = z]
<1>1. OnePass(row')
  BY DEF Inv, RowsOK
<1>2. \A q \in Payments \ {p} :
        row'[p].st = "Completed" => ~(row[q].st = "Completed" /\ row[q].session = row'[p].session)
  BY <1>1 DEF OnePass, Elsewhere
<1>3. Shown(row') = [Shown(row) EXCEPT ![p] = z]
  BY DEF Elsewhere, Shown
<1> QED
  BY <1>2, <1>3

LEMMA BookEnters ==
  ASSUME Inv, Inv', NEW p \in Payments, Elsewhere(row, row', p), row[p].st = "none",
         row'[p].st \in {"Completed", "Duplicate", "Review"},
         acked' = acked \/ acked' = acked \cup {p}
  PROVE  BookStep
<1>1. PICK z : z = [st |-> row'[p].st, session |-> row'[p].session]
  OBVIOUS
<1>2. /\ row'[p].session \in Sessions
      /\ row'[p].st \in {"Duplicate", "Review"} => row'[p].session = 0
  BY DEF Inv, RowsOK, RowOK, RowSet
<1>3. z \in Book!Entries /\ z.st \in {"Completed", "Duplicate", "Review"}
  BY <1>1, <1>2 DEF Book!Entries
<1>4. Shown(row)[p] = Book!Absent
  BY RowTyped DEF RowOK, NoRow, Book!Absent, Shown
<1>5. Book!Put(p, z)
  BY <1>1, BookPuts DEF Book!Put, Book!HasPass, Shown
<1>6. Book!Enter(p)
  BY <1>3, <1>4, <1>5 DEF Book!Enter, Shown
<1> QED
  BY <1>6 DEF BookStep, Book!BookNext

LEMMA CheckBook ==
  ASSUME Inv, NEW e \in Instances, Check(e)
  PROVE  BookStep
<1>1. exec[e].pc = "check" /\ UNCHANGED row
  BY DEF Check, At
<1>2. P(e) \in Payments
  BY <1>1, Here
<1>3. Answers(e) /\ (acked' = acked \/ row[P(e)].st # "none")
  BY ReturnAnswers DEF Check, Answers
<1> QED
  BY <1>1, <1>2, <1>3, BookTells DEF Answers

LEMMA ReadBook ==
  ASSUME Inv, NEW e \in Instances, Read(e)
  PROVE  BookStep
<1>1. exec[e].pc = "read" /\ UNCHANGED row
  BY DEF Read, At
<1>2. P(e) \in Payments
  BY <1>1, Here
<1>3. Answers(e) /\ (acked' = acked \/ row[P(e)].st # "none")
  BY ReturnAnswers DEF Read, Answers, HasPass
<1> QED
  BY <1>1, <1>2, <1>3, BookTells DEF Answers

LEMMA RecordBook ==
  ASSUME Inv, Inv', NEW p \in captured, NEW st \in {"Duplicate", "Review"}, Record(p, st),
         acked' = acked \/ acked' = acked \cup {p}
  PROVE  BookStep
<1>0. p \in Payments
  BY Unmoved
<1>1. CASE row[p].st # "none"
  <2>1. UNCHANGED row
    BY <1>1 DEF Record
  <2> QED
    BY <1>0, <1>1, <2>1, BookTells
<1>2. CASE row[p].st = "none"
  <2>1. row' = [row EXCEPT ![p].st = st]
    BY <1>2 DEF Record
  <2>2. Elsewhere(row, row', p) /\ row'[p].st = st
    BY <1>0, <2>1, RowTyped DEF Elsewhere, RowSet, Statuses
  <2> QED
    BY <1>0, <1>2, <2>2, BookEnters
<1> QED
  BY <1>1, <1>2

LEMMA StoreReviewBook ==
  ASSUME Inv, Inv', NEW e \in Instances, StoreReview(e)
  PROVE  BookStep
<1>1. exec[e].pc = "review" /\ Answers(e)
  BY ReturnAnswers DEF StoreReview, At
<1>2. P(e) \in captured /\ P(e) \in Payments /\ P(e) \in Unclear
  BY <1>1, Here DEF Placed, P
<1>3. CASE Record(P(e), "Review")
  BY <1>1, <1>2, <1>3, RecordBook DEF Answers
<1>4. CASE UNCHANGED row
  BY <1>1, <1>2, <1>4, BookTells DEF Answers
<1> QED
  BY <1>3, <1>4 DEF StoreReview

LEMMA StoreDuplicateBook ==
  ASSUME Inv, Inv', NEW e \in Instances, StoreDuplicate(e)
  PROVE  BookStep
<1>1. exec[e].pc = "duplicate"
  BY DEF StoreDuplicate, At
<1>2. P(e) \in captured /\ P(e) \in Payments
  BY <1>1, Here
<1>3. CASE Record(P(e), "Duplicate") /\ Return(e, TRUE)
  BY <1>2, <1>3, ReturnAnswers, RecordBook DEF Answers
<1>4. CASE UNCHANGED row /\ Return(e, FALSE)
  <2>1. acked' = acked
    BY <1>4, ReturnAnswers
  <2> QED
    BY <1>2, <1>4, <2>1, BookTells
<1> QED
  BY <1>3, <1>4 DEF StoreDuplicate

LEMMA InsertBook ==
  ASSUME Inv, Inv', NEW e \in Instances, Insert(e)
  PROVE  BookStep
<1> DEFINE p == P(e)
           y == exec[e].at.year
<1>1. exec[e].pc = "insert"
  BY DEF Insert, At
<1>2. p \in captured /\ p \in Payments
  BY <1>1, Here
<1>3. CASE /\ row[p].st = "none"
           /\ row' = [row EXCEPT ![p] = [NoRow EXCEPT !.st = "Completed",
                                          !.session = y, !.ent = "pending"]]
           /\ UNCHANGED acked
  <2> DEFINE x == [NoRow EXCEPT !.st = "Completed", !.session = y, !.ent = "pending"]
  <2>1. x.st = "Completed"
    BY DEF NoRow
  <2>2. row' \in [Payments -> RowSet]
    BY DEF Inv, RowsOK
  <2>3. row' = [row EXCEPT ![p] = x]
    BY <1>3
  <2> HIDE DEF x, p
  <2>4. Elsewhere(row, row', p) /\ row'[p].st = "Completed"
    BY <1>2, <2>1, <2>2, <2>3, RowTyped DEF Elsewhere
  <2> QED
    BY <1>2, <1>3, <2>4, BookEnters
<1>4. CASE UNCHANGED row /\ ((row[p].st # "none" /\ Return(e, TRUE)) \/ acked' = acked)
  BY <1>2, <1>4, ReturnAnswers, BookTells DEF Answers
<1>5. CASE UNCHANGED row /\ Return(e, FALSE)
  <2>1. acked' = acked
    BY <1>5, ReturnAnswers
  <2> QED
    BY <1>2, <1>5, <2>1, BookTells
<1> QED
  BY <1>3, <1>4, <1>5 DEF Insert

LEMMA MetaBook ==
  ASSUME Inv, NEW e \in Instances, MetaRead(e) \/ MetaWrite(e)
  PROVE  BookStep
<1>1. exec[e].pc \in {"mark", "write"} /\ Answers(e)
  BY ReturnAnswers DEF MetaRead, MetaWrite, At, Answers
<1>2. P(e) \in Payments /\ row[P(e)].st # "none"
  BY <1>1, Here DEF Entered
<1>3. \A q \in Payments : row'[q].st = row[q].st /\ row'[q].session = row[q].session
  <2>1. CASE row' = row
    BY <2>1
  <2>2. CASE row' = Written(e) /\ exec[e].pc = "write"
    BY <2>2, WrittenTouches DEF Elsewhere
  <2> QED
    BY <2>1, <2>2 DEF MetaRead, MetaWrite, At
<1> QED
  BY <1>1, <1>2, <1>3, BookTells DEF Answers

\* The answer stays what it was and the book shows what it did.
LEMMA BookStutters ==
  ASSUME acked' = acked,
         \A q \in Payments : row'[q].st = row[q].st /\ row'[q].session = row[q].session
  PROVE  BookStep
BY DEF BookStep, Book!bookVars

LEMMA ClaimBook ==
  ASSUME Inv, NEW e \in Instances, Claim(e)
  PROVE  BookStep
<1>1. \/ UNCHANGED row
      \/ row' = [row EXCEPT ![P(e)].ent = "recovering", ![P(e)].lease = e, ![P(e)].aged = FALSE]
  BY DEF Claim
<1>2. \A q \in Payments : row'[q].st = row[q].st /\ row'[q].session = row[q].session
  <2>1. row \in [Payments -> RowSet]
    BY DEF Inv, RowsOK
  <2> QED
    BY <1>1, <2>1 DEF RowSet
<1>3. Return(e, TRUE) \/ Return(e, FALSE) \/ UNCHANGED acked
  BY DEF Claim
<1>4. exec[e].pc = "claim"
  BY DEF Claim, At
<1>5. Answers(e) /\ P(e) \in Payments /\ row[P(e)].st # "none"
  BY <1>3, <1>4, ReturnAnswers, Here DEF Answers, Entered
<1> QED
  BY <1>2, <1>5, BookTells DEF Answers

LEMMA SilentBook ==
  ASSUME Inv, NEW e \in Instances,
         Submit(e) \/ Send(e) \/ SweepStep(e) \/ Approve(e) \/ Cancel(e) \/ Void(e)
  PROVE  BookStep
<1>1. CASE Claim(e)
  BY <1>1, ClaimBook
<1>2. CASE ~Claim(e)
  <2>1. row' = row
    BY <1>2 DEF Submit, Send, SweepStep, CronBegins, CronGoesOn, Apply, Grant, CronPicks,
       Approve, Cancel, Void
  <2>2. UNCHANGED acked \/ Return(e, FALSE)
    BY <1>2 DEF Submit, Send, SweepStep, CronBegins, CronGoesOn, Apply, Grant, CronPicks,
       Approve, Cancel, Void
  <2>3. acked' = acked
    BY <2>2, ReturnAnswers
  <2> QED
    BY <2>1, <2>3, BookStutters
<1> QED
  BY <1>1, <1>2

LEMMA DeskBook ==
  ASSUME Inv, Inv', NEW e \in Instances, NEW p \in Payments,
         OpenApproval(e, p) \/ Reject(e, p) \/ Reconcile(e, p) \/ Refund(e, p)
         \/ NoticeReads(e, p) \/ NoticeWrites(e)
  PROVE  BookStep
<1>1. CASE OpenApproval(e, p) \/ Reject(e, p) \/ NoticeReads(e, p)
  BY <1>1, BookStutters DEF OpenApproval, Reject, NoticeReads
<1>2. CASE NoticeWrites(e)
  <2>1. exec[e].pc = "note" /\ row' = Written(e) /\ acked' = acked
    BY <1>2, ReturnAnswers DEF NoticeWrites, At
  <2>2. \A q \in Payments : row'[q].st = row[q].st /\ row'[q].session = row[q].session
    BY <2>1, WrittenTouches DEF Elsewhere
  <2> QED
    BY <2>1, <2>2, BookStutters
<1>3. CASE Reconcile(e, p)
  <2>1. /\ row[p].st = "Review" /\ UNCHANGED acked
        /\ row' = [row EXCEPT ![p].st = "Completed", ![p].session = student.until + 1]
    BY <1>3 DEF Reconcile
  <2>2. row' \in [Payments -> RowSet] /\ RowOK(row', captured', p)
    BY DEF Inv, RowsOK
  <2>3. Elsewhere(row, row', p) /\ row'[p].st = "Completed"
    BY <2>1, <2>2, RowTyped DEF Elsewhere, RowSet
  <2>4. PICK y \in Sessions \ {0} : y = row'[p].session
    <3>1. row'[p].session \in Sessions
      BY <2>2 DEF RowSet
    <3>2. row'[p].session # 0
      BY <2>2, <2>3 DEF RowOK
    <3> QED
      BY <3>1, <3>2
  <2>5. Book!Put(p, [st |-> "Completed", session |-> y])
    <3>1. PICK z : z = [st |-> row'[p].st, session |-> row'[p].session]
      OBVIOUS
    <3>2. Book!Put(p, z)
      BY <2>3, <3>1, BookPuts DEF Book!Put, Book!HasPass, Shown
    <3>3. z = [st |-> "Completed", session |-> y]
      BY <2>3, <2>4, <3>1
    <3> QED
      BY <3>2, <3>3
  <2>6. Book!Reconcile(p)
    BY <2>1, <2>4, <2>5 DEF Book!Reconcile
  <2> QED
    BY <2>6 DEF BookStep, Book!BookNext
<1>4. CASE Refund(e, p)
  <2>1. /\ row[p].st \in {"Completed", "Duplicate", "Review"} /\ UNCHANGED acked
        /\ row' = [row EXCEPT ![p].st = "Refunded"]
    BY <1>4 DEF Refund
  <2>2. row' \in [Payments -> RowSet]
    BY DEF Inv, RowsOK
  <2>3. /\ Elsewhere(row, row', p) /\ row'[p].st = "Refunded"
        /\ row'[p].session = row[p].session
    BY <2>1, <2>2, RowTyped DEF Elsewhere, RowSet
  <2>4. PICK z : z = [st |-> row'[p].st, session |-> row'[p].session]
    OBVIOUS
  <2>5. z = [Shown(row)[p] EXCEPT !.st = "Refunded"]
    BY <2>3, <2>4 DEF Shown
  <2>6. Book!Put(p, z)
    BY <2>3, <2>4, BookPuts DEF Book!Put, Book!HasPass, Shown
  <2>7. Book!PayBack(p)
    BY <2>1, <2>5, <2>6 DEF Book!PayBack, Book!Put, Shown
  <2> QED
    BY <2>7 DEF BookStep, Book!BookNext
<1> QED
  BY <1>1, <1>2, <1>3, <1>4

LEMMA DenyBook ==
  ASSUME Inv, Inv', NEW p \in Payments, Deny(p)
  PROVE  BookStep
<1>1. /\ row[p].st \in {"Duplicate", "Review"} /\ UNCHANGED acked
      /\ row' = [row EXCEPT ![p].st = "Denied"]
  BY DEF Deny
<1>2. row' \in [Payments -> RowSet]
  BY DEF Inv, RowsOK
<1>3. /\ Elsewhere(row, row', p) /\ row'[p].st = "Denied"
      /\ row'[p].session = row[p].session
  BY <1>1, <1>2, RowTyped DEF Elsewhere, RowSet
<1>4. PICK z : z = [st |-> row'[p].st, session |-> row'[p].session]
  OBVIOUS
<1>5. z = [Shown(row)[p] EXCEPT !.st = "Denied"]
  BY <1>3, <1>4 DEF Shown
<1>6. Book!Put(p, z)
  BY <1>3, <1>4, BookPuts DEF Book!Put, Book!HasPass, Shown
<1>7. Book!Keep(p)
  BY <1>1, <1>5, <1>6 DEF Book!Keep, Book!Put, Shown
<1> QED
  BY <1>7 DEF BookStep, Book!BookNext

LEMMA EveryStepBook == Inv /\ Inv' /\ [Next]_vars => BookStep
<1> SUFFICES ASSUME Inv, Inv', [Next]_vars  PROVE BookStep
  OBVIOUS
<1>1. CASE UNCHANGED vars
  BY <1>1, BookStutters DEF vars
<1>2. ASSUME NEW p \in Payments, Captures(p) \/ LeaseAges(p)  PROVE BookStep
  BY <1>2, RowTyped, BookStutters DEF Captures, LeaseAges, RowSet
<1>3. ASSUME NEW e \in Instances, CaptureStep(e)  PROVE BookStep
  BY <1>3, CheckBook, ReadBook, StoreReviewBook, InsertBook, StoreDuplicateBook,
     SilentBook, MetaBook DEF CaptureStep
<1>4. ASSUME NEW e \in Instances, DeskStep(e)  PROVE BookStep
  <2>1. CASE Approve(e) \/ Cancel(e) \/ Void(e)
    BY <2>1, SilentBook
  <2>2. CASE NoticeWrites(e)
    <3>1. P(e) \in Payments
      BY <2>2, Here DEF NoticeWrites, At
    <3> QED
      BY <2>2, <3>1, DeskBook
  <2> QED
    BY <1>4, <2>1, <2>2, DeskBook DEF DeskStep
<1>5. ASSUME NEW e \in Instances, Crash(e) \/ \E p \in Payments : Deliver(e, p)
      PROVE  BookStep
  BY <1>5, BookStutters DEF Crash, Deliver
<1> QED
  BY <1>1, <1>2, <1>3, <1>4, <1>5, DenyBook, SilentBook DEF Next

(* processCapturedPayment, the recovery sweep and the staff actions        *)
(* together implement PaymentBook: a capture is entered once, never as the *)
(* second pass of a session, moves only to the outcomes the ledger allows, *)
(* and is acknowledged to the gateway only when it is entered.             *)
THEOREM LedgerImplementsBook == Spec => ImplementsBook
<1>1. Init => Book!BookInit
  BY DEF Init, Book!BookInit, Book!Absent, NoRow
<1>2. Inv /\ Inv' /\ [Next]_vars => [Book!BookNext]_Book!bookVars
  BY EveryStepBook DEF BookStep
<1> QED
  BY <1>1, <1>2, LedgerInvariant, PTL DEF Spec, ImplementsBook, Book!BookSpec
-----------------------------------------------------------------------------
(* Who may end an active entitlement.                                      *)

\* Instance e is about to end the entitlement of p as it may.
MayEnd(e, p) ==
  /\ exec'[e] # exec[e] /\ P(e) = p
  /\ At(e, "note") \/ (At(e, "write") /\ exec[e].at.ent = "unconsumed")

ActiveKept ==
  \A p \in Payments :
    row[p].ent = "active" /\ row'[p].ent # "active" => \E e \in Servers : MayEnd(e, p)

LEMMA ReturnLeaves ==
  ASSUME Inv, NEW e \in Servers, exec[e].pc # "idle", NEW STATE ok, Return(e, ok)
  PROVE  exec'[e] # exec[e]
<1>1. exec' = [exec EXCEPT ![e] = Idle]
  BY Roles DEF Return
<1>2. exec'[e] = Idle
  BY <1>1, Here, Roles
<1> QED
  BY <1>2 DEF Idle

LEMMA WriteActive ==
  ASSUME Inv, NEW e \in Instances, MetaWrite(e) \/ NoticeWrites(e)
  PROVE  ActiveKept
<1>1. /\ exec[e].pc \in {"write", "note"}
      /\ row' = row \/ row' = Written(e)
      /\ row' = Written(e) /\ exec[e].pc = "write" =>
           row' = row \/ ~Refused(e)
      /\ Return(e, exec[e].at.ok) \/ Return(e, FALSE)
  BY DEF MetaWrite, NoticeWrites, At
<1>2. CASE row' = row
  BY <1>2 DEF ActiveKept
<1>3. CASE row' = Written(e) /\ row' # row
  <2> SUFFICES ASSUME NEW p \in Payments, row[p].ent = "active", row'[p].ent # "active"
               PROVE  \E f \in Servers : MayEnd(f, p)
    BY DEF ActiveKept
  <2>1. p = P(e) /\ row'[p].ent = exec[e].at.ent
    BY <1>1, <1>3, WrittenTouches DEF Elsewhere
  <2>2. exec[e].pc = "write" => exec[e].at.ent = "unconsumed"
    BY <1>1, <1>3, <2>1 DEF Refused, P
  <2>3. e \in Servers
    <3>1. Placed(e, exec[e].pc, exec[e].at, captured, row)
      BY Here
    <3> QED
      BY <1>1, <2>2, <3>1, Roles DEF Placed, CronPlaces, Work
  <2>4. exec'[e] # exec[e]
    BY <1>1, <2>3, ReturnLeaves
  <2> QED
    BY <1>1, <2>1, <2>2, <2>3, <2>4 DEF MayEnd, At
<1> QED
  BY <1>1, <1>2, <1>3

\* The other writes of a row leave an active entitlement as it is.
LEMMA RowActive ==
  ASSUME Inv, NEW e \in Instances, NEW p \in Payments,
         LeaseAges(p) \/ StoreReview(e) \/ Insert(e) \/ StoreDuplicate(e) \/ Claim(e)
         \/ Reconcile(e, p) \/ Refund(e, p) \/ Deny(p)
  PROVE  ActiveKept
<1>0. row \in [Payments -> RowSet] /\ \A q \in Payments : row[q].st = "none" => row[q] = NoRow
  BY DEF Inv, RowsOK, RowOK
<1>1. CASE StoreReview(e) \/ StoreDuplicate(e)
  <2>1. UNCHANGED row \/ Record(P(e), "Review") \/ Record(P(e), "Duplicate")
    BY <1>1 DEF StoreReview, StoreDuplicate
  <2>2. ASSUME NEW st, Record(P(e), st), NEW q \in Payments
        PROVE  row'[q].ent = row[q].ent
    <3>1. row' = [row EXCEPT ![P(e)].st = st] \/ row' = row
      BY <2>2 DEF Record
    <3> QED
      BY <1>0, <3>1 DEF RowSet
  <2> QED
    BY <2>1, <2>2 DEF ActiveKept
<1>2. CASE Insert(e)
  <2>1. \/ UNCHANGED row
        \/ /\ row[P(e)].st = "none"
           /\ \A q \in Payments \ {P(e)} : row'[q] = row[q]
    BY <1>0, <1>2 DEF Insert
  <2>2. NoRow.ent # "active"
    BY DEF NoRow
  <2> QED
    BY <1>0, <2>1, <2>2 DEF ActiveKept
<1>3. CASE Claim(e)
  <2>1. \/ UNCHANGED row
        \/ /\ row[P(e)].ent # "active"
           /\ \A q \in Payments \ {P(e)} : row'[q] = row[q]
    BY <1>0, <1>3 DEF Claim
  <2> QED
    BY <2>1 DEF ActiveKept
<1>4. CASE LeaseAges(p)
  BY <1>0, <1>4 DEF LeaseAges, RowSet, ActiveKept
<1>5. CASE Reconcile(e, p)
  BY <1>0, <1>5 DEF Reconcile, RowSet, ActiveKept
<1>6. CASE Refund(e, p) \/ Deny(p)
  BY <1>0, <1>6 DEF Refund, Deny, RowSet, ActiveKept
<1> QED
  BY <1>1, <1>2, <1>3, <1>4, <1>5, <1>6

LEMMA UnwrittenActive ==
  ASSUME UNCHANGED row
  PROVE  ActiveKept
BY DEF ActiveKept

LEMMA EveryStepActive == Inv /\ [Next]_vars => ActiveKept
<1> SUFFICES ASSUME Inv, [Next]_vars  PROVE ActiveKept
  OBVIOUS
<1>1. CASE UNCHANGED vars
  BY <1>1, UnwrittenActive DEF vars
<1>2. ASSUME NEW e \in Instances, NEW p \in Payments,
             \/ Captures(p) \/ Deliver(e, p) \/ Crash(e) \/ OpenApproval(e, p)
             \/ Reject(e, p) \/ NoticeReads(e, p) \/ CronPicks(e, p)
      PROVE  ActiveKept
  BY <1>2, UnwrittenActive DEF Captures, Deliver, Crash, OpenApproval, Reject, NoticeReads,
     CronPicks
<1>3. ASSUME NEW e \in Instances,
             \/ Check(e) \/ Read(e) \/ Submit(e) \/ Send(e) \/ MetaRead(e) \/ CronBegins(e)
             \/ CronGoesOn(e) \/ Apply(e) \/ Grant(e) \/ Approve(e) \/ Cancel(e) \/ Void(e)
             \/ Crash(e)
      PROVE  ActiveKept
  BY <1>3, UnwrittenActive DEF Check, Read, Submit, Send, MetaRead, CronBegins, CronGoesOn,
     Apply, Grant, Approve, Cancel, Void, Crash
<1>4. CASE Payments = {}
  BY <1>4 DEF ActiveKept
<1>5. CASE Payments # {}
  <2>1. ASSUME NEW e \in Instances, CaptureStep(e) \/ SweepStep(e) \/ DeskStep(e)
        PROVE  ActiveKept
    BY <1>2, <1>3, <1>5, <2>1, RowActive, WriteActive DEF CaptureStep, SweepStep, DeskStep
  <2>2. ASSUME NEW p \in Payments, Captures(p)  PROVE ActiveKept
    BY <2>2, UnwrittenActive DEF Captures
  <2>3. ASSUME NEW p \in Payments, LeaseAges(p) \/ Deny(p)  PROVE ActiveKept
    <3>0. row \in [Payments -> RowSet]
      BY DEF Inv, RowsOK
    <3> QED
      BY <2>3, <3>0 DEF LeaseAges, Deny, RowSet, ActiveKept
  <2> QED
    BY <1>1, <1>2, <1>3, <2>1, <2>2, <2>3 DEF Next
<1> QED
  BY <1>4, <1>5

(* An active entitlement is never downgraded by a capture handler or a     *)
(* recovery sweep that worked on an older reading, however the steps of    *)
(* any number of them interleave (updatePaymentMetadata, CRITICAL          *)
(* INVARIANT).                                                             *)
THEOREM LedgerActiveStays == Spec => ActiveStays
<1>1. Inv /\ [Next]_vars => [ActiveKept]_vars
  BY EveryStepActive
<1>2. Inv /\ [Next]_vars =>
        [\A p \in Payments :
           row[p].ent = "active" /\ row'[p].ent # "active" =>
             \E e \in Servers :
               /\ exec'[e] # exec[e] /\ P(e) = p
               /\ At(e, "note") \/ (At(e, "write") /\ exec[e].at.ent = "unconsumed")]_vars
  BY <1>1 DEF ActiveKept, MayEnd
<1> QED
  BY <1>2, LedgerInvariant, PTL DEF Spec, ActiveStays
=============================================================================
