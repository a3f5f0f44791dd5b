---------------------------- MODULE PaymentLedger ----------------------------
(***************************************************************************)
(* Online renewals of one student: the payments ledger, the entitlement    *)
(* kept in its metadata, the renewal applications and the student's pass.  *)
(* Three kinds of work run on several server instances without a common    *)
(* lock: captures brought by the webhook, by the client or by the          *)
(* reconciliation cron job (processCapturedPayment), the entitlement       *)
(* sweep of that job (recoverPaymentEntitlement), and staff decisions.     *)
(* Each database statement is one step; an instance may stop between any   *)
(* two of them.  What the gateway answers about an order is the list the   *)
(* job and its tests take it for (an array of payments).                   *)
(*                                                                         *)
(* Sessions are numbered from the end of the student's pass at the start,  *)
(* every renewal is for one year and the pass stays current, so a renewal  *)
(* is for the session after the end of the pass.                           *)
(***************************************************************************)
EXTENDS Integers, Sequences, FiniteSets, SequencesExt

CONSTANTS Payments,    \* captures at the gateway, one for each order
          Orders,      \* the orders, oldest first; their rows are Pending
          Unclear,     \* captures whose session a handler may fail to find
          Servers,     \* instances that serve webhooks, clients and staff
          Crons,       \* instances that run the reconciliation job
          StaleLimit,  \* rows getStalePendingOrders returns (50 in the code)
          LastYear,    \* bound: no approval goes past this session
          MaxFaults,   \* bound on crashes and failed statements
          MaxDesks,    \* bound on staff decisions and refund notices
          MaxTrouble,  \* bound on faults, decisions and notices together
          NoOne        \* no payment, no lease

ASSUME BoundsAssumption ==
  {StaleLimit, LastYear, MaxFaults, MaxDesks, MaxTrouble} \subseteq Nat /\ LastYear > 0
ASSUME OrdersAssumption == Orders \in Seq(Payments) /\ ToSet(Orders) = Payments
ASSUME RolesAssumption == Unclear \subseteq Payments /\ Servers \cap Crons = {}
ASSUME NoOneAssumption == NoOne \notin Payments \cup Servers \cup Crons

VARIABLES
  captured,  \* payments the gateway has captured
  stale,     \* how many of Orders are older than 48 hours
  open,      \* payments whose order row is still Pending
  row,       \* row[p] : the ledger row of the capture, its entitlement, lease
  app,       \* app[p] : the renewal application online_p
  student,   \* end of the pass, status, whether the seat was given back
  acked,     \* captures answered with 200: the gateway stops sending them
  exec,      \* exec[e] : what instance e is doing
  faults, desks

vars == <<captured, stale, open, row, app, student, acked, exec, faults, desks>>
-----------------------------------------------------------------------------
Instances == Servers \cup Crons
Sessions  == 0..(LastYear + Cardinality(Payments) + 1)
Grants    == {"none", "pending", "failed", "recovering", "active", "unconsumed"}

NoRow == [st |-> "none", session |-> 0, ent |-> "none", lease |-> NoOne,
          aged |-> FALSE]

NoJob == [p |-> NoOne, year |-> 0, ent |-> "none", owns |-> FALSE,
          seen |-> NoOne, heal |-> FALSE, ok |-> FALSE]

Idle == [pc |-> "idle", at |-> NoJob, phase |-> "none", todo |-> {}]

Init ==
  /\ captured = {}
  /\ stale = 0
  /\ open = Payments
  /\ row = [p \in Payments |-> NoRow]
  /\ app = [p \in Payments |-> "none"]
  /\ student = [until |-> 0, status |-> "active", released |-> FALSE]
  /\ acked = {}
  /\ exec = [e \in Instances |-> Idle]
  /\ faults = 0
  /\ desks = 0

P(e) == exec[e].at.p
At(e, pc) == exec[e].pc = pc

\* Instance e goes on at pc with job; other instances are as they were.
Go(e, pc, job) == exec' = [exec EXCEPT ![e].pc = pc, ![e].at = job]
Then(e, pc) == Go(e, pc, exec[e].at)

\* The metadata update of the end of most paths: read the row, then write it.
Mark(e, ent, ok) == Go(e, "mark", [exec[e].at EXCEPT !.ent = ent, !.ok = ok])

\* The job is over: a webhook or client gets its answer, the cron job takes
\* its next row.
Return(e, ok) ==
  /\ IF e \in Crons THEN Go(e, "pick", NoJob)
     ELSE exec' = [exec EXCEPT ![e] = Idle]
  /\ acked' = IF e \in Servers /\ ok THEN acked \cup {P(e)} ELSE acked

HasPass(p, y) == row[p].st = "Completed" /\ row[p].session = y
\* As if nothing kept a session to one pass (mutant).
SessionNeverTaken(p, y) == FALSE
SessionTaken(p, y) == \E q \in Payments \ {p} : HasPass(q, y)

Bounded == faults + desks < MaxTrouble

\* A statement that fails or throws is one fault.
Fault == Bounded /\ faults < MaxFaults /\ faults' = faults + 1
NoFault == faults' = faults

-----------------------------------------------------------------------------
(* The gateway and time.                                                   *)

Captures(p) ==
  /\ p \notin captured
  /\ captured' = captured \cup {p}
  /\ UNCHANGED <<stale, open, row, app, student, acked, exec, faults, desks>>

LeaseAges(p) ==
  /\ row[p].lease # NoOne /\ ~row[p].aged
  /\ row' = [row EXCEPT ![p].aged = TRUE]
  /\ UNCHANGED <<captured, stale, open, app, student, acked, exec, faults, desks>>

-----------------------------------------------------------------------------
(* processCapturedPayment.                                                 *)

\* payment.captured, verify-payment or the recover route, any number of times.
Deliver(e, p) ==
  /\ e \in Servers /\ At(e, "idle") /\ p \in captured
  /\ Go(e, "check", [NoJob EXCEPT !.p = p])
  /\ UNCHANGED <<captured, stale, open, row, app, student, acked, faults, desks>>

\* isPaymentProcessed and the state found: nothing to do, a note to make, a
\* renewal application to restore, or a capture to process.
Check(e) ==
  LET p == P(e)  r == row[p]
  IN /\ At(e, "check")
     /\ \/ /\ r.st \in {"Duplicate", "Review"}
           /\ Return(e, TRUE)
        \/ /\ r.st = "Completed" /\ r.ent = "active"
           /\ Return(e, TRUE)
        \/ /\ r.st = "Completed" /\ r.ent # "active" /\ app[p] # "none"
           /\ Mark(e, "active", TRUE)
           /\ UNCHANGED acked
        \/ /\ r.st = "Completed" /\ r.ent # "active" /\ app[p] = "none"
           /\ Go(e, "send", [exec[e].at EXCEPT !.heal = TRUE])
           /\ UNCHANGED acked
        \/ /\ r.st \notin {"Duplicate", "Review", "Completed"}
           /\ Then(e, "read")
           /\ UNCHANGED acked
     /\ UNCHANGED <<captured, stale, open, row, app, student, faults, desks>>

\* The student row decides which session the renewal is for, then the
\* pre-insert check of createPayment looks for the pass of that session.
Read(e) ==
  LET p == P(e)  y == student.until + 1
  IN /\ At(e, "read")
     /\ \/ p \in Unclear /\ Then(e, "review") /\ UNCHANGED acked
        \/ HasPass(p, y) /\ Return(e, TRUE)
        \/ /\ ~HasPass(p, y)
           /\ Go(e, IF SessionTaken(p, y) THEN "duplicate" ELSE "insert",
                 [exec[e].at EXCEPT !.year = y])
           /\ UNCHANGED acked
     /\ UNCHANGED <<captured, stale, open, row, app, student, faults, desks>>

Record(p, st) == row' = IF row[p].st = "none" THEN [row EXCEPT ![p].st = st] ELSE row

\* Captured_Pending_Review; the result of the insert is not looked at.
StoreReview(e) ==
  /\ At(e, "review")
  /\ \/ NoFault /\ Record(P(e), "Review")
     \/ Fault /\ UNCHANGED row
  /\ Return(e, TRUE)
  /\ UNCHANGED <<captured, stale, open, app, student, desks>>

\* The Pending row becomes the Completed one, unless the payment has a row
\* already or the index of one pass per session refuses.
Insert(e) ==
  LET p == P(e)  y == exec[e].at.year
  IN /\ At(e, "insert")
     /\ \/ /\ row[p].st # "none"
           /\ Return(e, TRUE) /\ NoFault
           /\ UNCHANGED <<row, open>>
        \/ /\ row[p].st = "none" /\ SessionTaken(p, y)
           /\ Then(e, "duplicate") /\ NoFault
           /\ UNCHANGED <<row, open, acked>>
        \/ /\ row[p].st = "none" /\ ~SessionTaken(p, y)
           /\ row' = [row EXCEPT ![p] = [NoRow EXCEPT !.st = "Completed",
                                          !.session = y, !.ent = "pending"]]
           /\ open' = open \ {p}
           /\ Then(e, "submit") /\ NoFault
           /\ UNCHANGED acked
        \/ Fault /\ Return(e, FALSE) /\ UNCHANGED <<row, open>>
     /\ UNCHANGED <<captured, stale, app, student, desks>>

\* As a handler would that did not look at the result (mutant).
AckAnyway(e) ==
  /\ At(e, "duplicate")
  /\ \/ NoFault /\ Record(P(e), "Duplicate")
     \/ Fault /\ UNCHANGED row
  /\ Return(e, TRUE)
  /\ UNCHANGED <<captured, stale, open, app, student, desks>>

\* Duplicate_Pending_Refund: only a stored row stops the gateway.
StoreDuplicate(e) ==
  /\ At(e, "duplicate")
  /\ \/ NoFault /\ Record(P(e), "Duplicate") /\ Return(e, TRUE)
     \/ Fault /\ UNCHANGED row /\ Return(e, FALSE)
  /\ UNCHANGED <<captured, stale, open, app, student, desks>>

Submit(e) ==
  /\ At(e, "submit")
  /\ \/ NoFault /\ app[P(e)] # "none" /\ Mark(e, "active", TRUE) /\ UNCHANGED acked
     \/ NoFault /\ app[P(e)] = "none" /\ Then(e, "send") /\ UNCHANGED acked
     \/ Fault /\ Return(e, FALSE)
  /\ UNCHANGED <<captured, stale, open, row, app, student, desks>>

\* submitFinal: refused while another renewal of the student is in progress,
\* else the application is put in, whatever became of it meanwhile.
Send(e) ==
  LET p == P(e)
      inProgress == \E q \in Payments \ {p} : app[q] = "submitted"
  IN /\ At(e, "send")
     /\ \/ /\ inProgress /\ NoFault
           /\ Mark(e, "failed", TRUE) /\ UNCHANGED <<app, acked>>
        \/ /\ ~inProgress /\ NoFault
           /\ app' = [app EXCEPT ![p] = "submitted"]
           /\ Mark(e, "active", TRUE) /\ UNCHANGED acked
        \/ /\ Fault /\ exec[e].at.heal
           /\ Mark(e, "failed", FALSE) /\ UNCHANGED <<app, acked>>
        \/ /\ Fault /\ ~exec[e].at.heal
           /\ Return(e, FALSE) /\ UNCHANGED app
     /\ UNCHANGED <<captured, stale, open, row, student, desks>>

-----------------------------------------------------------------------------
(* updatePaymentMetadata: the row is read and judged, then written back    *)
(* whole, under the conditions of the UPDATE.                              *)

Refused(e) ==
  LET j == exec[e].at
  IN \/ row[j.p].ent = "active" /\ j.ent \notin {"active", "unconsumed"}
     \/ j.owns /\ row[j.p].lease # e

MetaRead(e) ==
  /\ At(e, "mark")
  /\ \/ Refused(e) /\ Return(e, exec[e].at.ok)
     \/ /\ ~Refused(e)
        /\ Go(e, "write", [exec[e].at EXCEPT !.seen = row[P(e)].lease])
        /\ UNCHANGED acked
  /\ UNCHANGED <<captured, stale, open, row, app, student, faults, desks>>

Written(e) ==
  LET j == exec[e].at
  IN [row EXCEPT ![j.p].ent = j.ent,
                 ![j.p].lease = IF j.owns THEN NoOne ELSE j.seen,
                 ![j.p].aged = j.seen # NoOne /\ ~j.owns /\ @]

\* As if the UPDATE had no condition (mutant).
WriteUnguarded(e) ==
  /\ At(e, "write")
  /\ \/ NoFault /\ row' = Written(e)
     \/ Fault /\ UNCHANGED row
  /\ Return(e, exec[e].at.ok)
  /\ UNCHANGED <<captured, stale, open, app, student, desks>>

MetaWrite(e) ==
  /\ At(e, "write")
  /\ \/ NoFault /\ row' = IF Refused(e) THEN row ELSE Written(e)
     \/ Fault /\ UNCHANGED row
  /\ Return(e, exec[e].at.ok)
  /\ UNCHANGED <<captured, stale, open, app, student, desks>>

-----------------------------------------------------------------------------
(* The reconciliation cron job: the recent and the stale orders, which are *)
(* two lists of one kind, then the entitlements.                           *)

\* Those of the orders lo..hi that are still Pending.
PendingOrders(lo, hi) == {i \in lo..hi : Orders[i] \in open}

RecentOrders(old) == {Orders[i] : i \in PendingOrders(old + 1, Len(Orders))}

\* Oldest first, and no more than the limit.
StaleOrders(old) ==
  {Orders[i] : i \in {k \in PendingOrders(1, old) :
                       Cardinality(PendingOrders(1, k)) <= StaleLimit}}

Incomplete ==
  {p \in Payments : /\ row[p].st = "Completed"
                    /\ \/ row[p].ent \in {"none", "pending", "failed"}
                       \/ row[p].ent = "recovering" /\ row[p].aged}

Phase(e, pc, phase, todo) ==
  exec' = [exec EXCEPT ![e] = [Idle EXCEPT !.pc = pc, !.phase = phase, !.todo = todo]]

\* A run of the job begins: some orders have passed the 48 hours since the
\* last one (of those no longer Pending nobody can tell), and both lists of
\* orders are read.
CronBegins(e) ==
  /\ e \in Crons /\ At(e, "idle")
  /\ \E old \in {stale} \cup {n \in stale + 1..Len(Orders) : Orders[n] \in open} :
       /\ stale' = old
       /\ Phase(e, "pick", "orders", RecentOrders(old) \cup StaleOrders(old))
  /\ UNCHANGED <<captured, open, row, app, student, acked, faults, desks>>

CronGoesOn(e) ==
  /\ e \in Crons /\ At(e, "pick") /\ exec[e].todo = {}
  /\ IF exec[e].phase = "orders" THEN Phase(e, "pick", "grants", Incomplete)
     ELSE Phase(e, "idle", "none", {})
  /\ UNCHANGED <<captured, stale, open, row, app, student, acked, faults, desks>>

\* An order goes to processCapturedPayment when the gateway has captured it,
\* a payment of the last phase to recoverPaymentEntitlement.
CronPicks(e, p) ==
  /\ At(e, "pick") /\ p \in exec[e].todo
  /\ exec' = [exec EXCEPT
       ![e].todo = @ \ {p},
       ![e].at = [NoJob EXCEPT !.p = p],
       ![e].pc = IF exec[e].phase = "grants" THEN "claim"
                 ELSE IF p \in captured THEN "check" ELSE "pick"]
  /\ UNCHANGED <<captured, stale, open, row, app, student, acked, faults, desks>>

\* claimPaymentForEntitlementRecovery: its read decides nothing the WHERE of
\* its UPDATE does not.  The status of the payment is not looked at again.
Claim(e) ==
  LET p == P(e)
      free == row[p].ent # "active" /\ (row[p].ent = "recovering" => row[p].aged)
  IN /\ At(e, "claim")
     /\ \/ /\ free /\ NoFault
           /\ row' = [row EXCEPT ![p].ent = "recovering", ![p].lease = e, ![p].aged = FALSE]
           /\ Go(e, "apply", [exec[e].at EXCEPT !.owns = TRUE])
           /\ UNCHANGED acked
        \/ ~free /\ NoFault /\ Return(e, TRUE) /\ UNCHANGED row
        \/ Fault /\ Return(e, FALSE) /\ UNCHANGED row
     /\ UNCHANGED <<captured, stale, open, app, student, desks>>

\* applyPaymentValidity: a student whose seat was given back is refused, and
\* an older payment does not shorten the pass that was read.
Apply(e) ==
  LET y == row[P(e)].session
  IN /\ At(e, "apply")
     /\ \/ student.released /\ Mark(e, "failed", FALSE)
        \/ /\ ~student.released
           /\ Go(e, "grant", [exec[e].at EXCEPT
                !.year = IF student.until > y THEN student.until ELSE y])
     /\ UNCHANGED <<captured, stale, open, row, app, student, acked, faults, desks>>

Grant(e) ==
  /\ At(e, "grant")
  /\ \/ /\ NoFault
        /\ student' = [student EXCEPT !.until = exec[e].at.year, !.status = "active"]
        /\ Mark(e, "active", FALSE)
     \/ Fault /\ Mark(e, "failed", FALSE) /\ UNCHANGED student
  /\ UNCHANGED <<captured, stale, open, row, app, acked, desks>>

-----------------------------------------------------------------------------
(* Staff, finance and refund notices.                                      *)

Decision == Bounded /\ desks < MaxDesks /\ desks' = desks + 1
Desk(e) == Decision /\ e \in Servers /\ At(e, "idle")

\* No other approval holds the lock of the application.
Unlocked(p) == \A e \in Servers : ~(At(e, "approve") /\ P(e) = p)

\* approve: the application is locked, then the student row is read; its
\* session end, not the one of the payment, is what the approval extends.
OpenApproval(e, p) ==
  /\ Desk(e) /\ app[p] = "submitted" /\ Unlocked(p)
  /\ student.until < LastYear
  /\ Go(e, "approve", [NoJob EXCEPT !.p = p, !.year = student.until + 1,
                                    !.heal = student.released])
  /\ UNCHANGED <<captured, stale, open, row, app, student, acked, faults>>

\* finalize_application_approval, or approve_renewal_with_seat for a student
\* who was read without a seat; the row of the application must be there.
Approve(e) ==
  LET p == P(e)  seat == exec[e].at.heal
  IN /\ At(e, "approve") /\ app[p] # "none"
     /\ student' = [until |-> exec[e].at.year, status |-> "active",
                    released |-> student.released /\ ~seat]
     /\ app' = [app EXCEPT ![p] = "approved"]
     /\ IF row[p].st = "Completed" THEN Mark(e, "active", FALSE) /\ UNCHANGED acked
        ELSE Return(e, FALSE)
     /\ UNCHANGED <<captured, stale, open, row, faults, desks>>

\* reject deletes the application, then marks the payment as not consumed.
Reject(e, p) ==
  /\ Desk(e) /\ app[p] = "submitted" /\ Unlocked(p)
  /\ app' = [app EXCEPT ![p] = "none"]
  /\ IF row[p].st = "Completed"
     THEN Go(e, "mark", [NoJob EXCEPT !.p = p, !.ent = "unconsumed"])
     ELSE UNCHANGED exec
  /\ UNCHANGED <<captured, stale, open, row, student, acked, faults>>

\* reconcileUnresolvedCapture: review becomes the pass of the session staff
\* chose (the student's next one), then its validity is applied.
Reconcile(e, p) ==
  LET y == student.until + 1
  IN /\ Desk(e) /\ row[p].st = "Review" /\ ~SessionTaken(p, y)
     /\ row' = [row EXCEPT ![p].st = "Completed", ![p].session = y]
     /\ Go(e, "apply", [NoJob EXCEPT !.p = p])
     /\ UNCHANGED <<captured, stale, open, app, student, acked, faults>>

\* The passes the student holds besides p.
Others(p) == {q \in Payments \ {p} : row[q].st = "Completed"}

\* process_payment_refund_atomic for the whole amount: without another pass
\* the student is blocked and loses the seat, else gets that pass.
AfterRefund(p) ==
  IF row[p].st # "Completed" THEN student
  ELSE IF Others(p) = {}
       THEN [student EXCEPT !.status = "blocked", !.released = TRUE]
       ELSE [student EXCEPT !.status = "active",
               !.until = CHOOSE y \in Sessions :
                           /\ \E q \in Others(p) : row[q].session = y
                           /\ \A q \in Others(p) : row[q].session <= y]

Refund(e, p) ==
  /\ Desk(e) /\ row[p].st \in {"Completed", "Duplicate", "Review"}
  /\ row' = [row EXCEPT ![p].st = "Refunded"]
  /\ student' = AfterRefund(p)
  /\ Go(e, "cancel", [NoJob EXCEPT !.p = p])
  /\ UNCHANGED <<captured, stale, open, app, acked, faults>>

\* confirmManualRefundRecord looks for a linked application and then rejects
\* it by its id alone.
Cancel(e) ==
  /\ At(e, "cancel")
  /\ \/ app[P(e)] = "submitted" /\ Then(e, "void") /\ UNCHANGED acked
     \/ app[P(e)] # "submitted" /\ Return(e, FALSE)
  /\ UNCHANGED <<captured, stale, open, row, app, student, faults, desks>>

Void(e) ==
  /\ At(e, "void")
  /\ app' = [app EXCEPT ![P(e)] = IF @ = "none" THEN @ ELSE "rejected"]
  /\ Return(e, FALSE)
  /\ UNCHANGED <<captured, stale, open, row, student, faults, desks>>

Deny(p) ==
  /\ Decision
  /\ row[p].st \in {"Duplicate", "Review"}
  /\ row' = [row EXCEPT ![p].st = "Denied"]
  /\ UNCHANGED <<captured, stale, open, app, student, acked, exec, faults>>

\* refund.created and refund.failed write the metadata they read back, with
\* no entitlement of their own and so without the guard of the UPDATE.
NoticeReads(e, p) ==
  /\ Desk(e) /\ row[p].st # "none"
  /\ Go(e, "note", [NoJob EXCEPT !.p = p, !.ent = row[p].ent, !.seen = row[p].lease])
  /\ UNCHANGED <<captured, stale, open, row, app, student, acked, faults>>

NoticeWrites(e) ==
  /\ At(e, "note")
  /\ row' = Written(e)
  /\ Return(e, FALSE)
  /\ UNCHANGED <<captured, stale, open, app, student, faults, desks>>

Crash(e) ==
  /\ Fault /\ ~At(e, "idle")
  /\ exec' = [exec EXCEPT ![e] = Idle]
  /\ UNCHANGED <<captured, stale, open, row, app, student, acked, desks>>

-----------------------------------------------------------------------------
CaptureStep(e) ==
  \/ Check(e) \/ Read(e) \/ StoreReview(e) \/ Insert(e)
  \/ StoreDuplicate(e) \/ Submit(e) \/ Send(e) \/ MetaRead(e) \/ MetaWrite(e)

SweepStep(e) ==
  \/ CronBegins(e) \/ CronGoesOn(e) \/ Claim(e) \/ Apply(e) \/ Grant(e)
  \/ \E p \in Payments : CronPicks(e, p)

DeskStep(e) ==
  \/ Approve(e) \/ Cancel(e) \/ Void(e) \/ NoticeWrites(e)
  \/ \E p \in Payments : \/ OpenApproval(e, p) \/ Reject(e, p) \/ Reconcile(e, p)
                         \/ Refund(e, p) \/ NoticeReads(e, p)

Next ==
  \/ \E p \in Payments : Captures(p) \/ LeaseAges(p) \/ Deny(p)
  \/ \E e \in Instances :
       \/ CaptureStep(e) \/ SweepStep(e) \/ DeskStep(e) \/ Crash(e)
       \/ \E p \in Payments : Deliver(e, p)

Spec == Init /\ [][Next]_vars

\* The job is scheduled for ever and an instance that runs goes on; clients
\* and webhooks may give up.
CronSpec == Spec /\ \A e \in Crons : WF_vars(CaptureStep(e) \/ SweepStep(e))

-----------------------------------------------------------------------------
Jobs == [p : Payments \cup {NoOne}, year : Sessions, ent : Grants,
         owns : BOOLEAN, seen : Crons \cup {NoOne}, heal : BOOLEAN, ok : BOOLEAN]

(* Every variable keeps its range, a payment that is being worked on has   *)
(* been captured or is in the ledger, and the student holds at most one    *)
(* Completed payment for a session (idx_payments_one_completed_per_session).*)
TypeOK ==
  /\ captured \subseteq Payments /\ open \subseteq Payments /\ acked \subseteq captured
  /\ stale \in 0..Len(Orders)
  /\ row \in [Payments -> [st : {"none", "Completed", "Duplicate", "Review",
                                 "Refunded", "Denied"},
                           session : Sessions, ent : Grants,
                           lease : Crons \cup {NoOne}, aged : BOOLEAN]]
  /\ app \in [Payments -> {"none", "submitted", "approved", "rejected"}]
  /\ student \in [until : Sessions, status : {"active", "blocked"}, released : BOOLEAN]
  /\ \A e \in Instances : exec[e].at \in Jobs
  /\ \A p \in Payments : row[p].st # "none" => p \in captured
  /\ \A p, q \in Payments : p # q => ~(HasPass(q, row[p].session) /\ row[p].st = "Completed")
  /\ faults \in 0..MaxFaults /\ desks \in 0..MaxDesks

(* processCapturedPayment and the review of captures implement the book: a *)
(* capture is entered once, never as the second pass of a session, moves   *)
(* only to the outcomes the ledger's trigger allows, and is acknowledged   *)
(* to the gateway only when it is entered (FAIL-CLOSED GUARANTEE).         *)
Book == INSTANCE PaymentBook WITH
          Years <- Sessions \ {0},
          Lenient <- Unclear,
          book <- [p \in Payments |-> [st |-> row[p].st, session |-> row[p].session]],
          told <- acked

ImplementsBook == Book!BookSpec

(* An entitlement that is active is never downgraded by a capture handler  *)
(* or a recovery sweep that worked on an older reading (updatePayment-     *)
(* Metadata, CRITICAL INVARIANT); only a rejection and the unguarded write *)
(* of a refund notice may do it.                                           *)
ActiveStays ==
  [][\A p \in Payments :
       row[p].ent = "active" /\ row'[p].ent # "active" =>
         \E e \in Servers :
           /\ exec'[e] # exec[e] /\ P(e) = p
           /\ At(e, "note") \/ (At(e, "write") /\ exec[e].at.ent = "unconsumed")]_vars

(* Money captured for an order reaches the ledger even if the client and   *)
(* the webhook give up, because the cron job looks at every Pending order  *)
(* (payment-reconciliation, guarantees 2 and 3).  The stale sweep takes    *)
(* the oldest rows first and never retires an abandoned one.               *)
CapturesAreRecorded ==
  \A p \in Payments : p \in captured ~> row[p].st # "none"
=============================================================================
