----------------------------- MODULE Admissions -----------------------------
(***************************************************************************)
(* How applications for the coming session become students with seats.     *)
(* Before the session begins an approval only verifies them; afterwards    *)
(* the daily cron job, or an administrator for all of them or for one,     *)
(* activates what is verified: on the bus asked for, on another bus of the *)
(* same stop, or not at all, and then the application waits for a seat.    *)
(* Approvals and rejections go on at the same time.  They share one        *)
(* processing lock per application, which a verification asked for by      *)
(* itself does not look at, and a request may die at any await.            *)
(*                                                                         *)
(* A lock's lease (five minutes) outlives the request that took it, so it  *)
(* is seen to expire only when its holder is gone.  Abstracted: one shift; *)
(* applications name a route, a bus, a stop and a shift, and all are for   *)
(* the same session; the order of the alternatives; payments and notices;  *)
(* compensations that fail themselves, which are in SeatLedger.  Any other *)
(* statement whose failure ends the request is a death of the request.     *)
(***************************************************************************)
EXTENDS Integers, FiniteSets

CONSTANTS
  Apps,        \* applications, each of another applicant
  Buses,
  Staff,       \* requests, each of another administrator or moderator
  Crons,       \* instances that run the cron job
  Capacity,    \* buses.capacity
  Asked,       \* the bus each application asks for
  Nobody,      \* an application that nobody is processing
  MaxTrouble   \* how many statements fail, or requests die, in a behaviour

Workers == Staff \cup Crons

ASSUME AdmissionsAssumption ==
  /\ Capacity \in [Buses -> Nat \ {0}]
  /\ Asked \in [Apps -> Buses]
  /\ Nobody \notin Workers
  /\ MaxTrouble \in Nat

VARIABLES
  app,       \* applications.state, or what became of a row that is gone
  lock,      \* applications.processing_lock
  load,      \* the counters of buses
  student,   \* student_profiles
  begun,     \* the session the applications are for has begun
  blocking,  \* the soft block of the last session's students
  marked,    \* the marker activation_<year>
  job,       \* what each worker is doing
  trouble    \* failures so far

rows == <<app, lock, load, student>>
calendar == <<begun, blocking, marked>>
vars == <<rows, calendar, job, trouble>>
-----------------------------------------------------------------------------
Live == {"submitted", "verified_upcoming", "pending_seat_allocation"}
Activable == {"verified_upcoming", "pending_seat_allocation"}
Approvable == {"submitted", "pending_seat_allocation"}

Absent == [held |-> FALSE]
Student == {Absent} \cup [bus : Buses, held : BOOLEAN]

\* A worker is idle, about to write the marker, going through the applications
\* of a run (between two, or at work on one), or serves a request of staff.
Idle == [pc |-> "idle"]
Marking == [pc |-> "mark"]
RunPcs == {"look", "seat", "consume", "wait", "release", "skip"}
StaffPcs == {"openVerify", "openQueue", "verify", "verified", "queue",
             "activate", "finalize", "unmark", "giveBack", "unlock", "deny"}
Between ==
  [pc : {"next"}, by : {"cron", "all", "one"}, todo : SUBSET Apps, app : {"none"},
   bus : Buses \cup {"none"}, rest : SUBSET Buses, missed : BOOLEAN, current : BOOLEAN]
AtWork ==
  [pc : RunPcs, by : {"cron", "all", "one"}, todo : SUBSET Apps, app : Apps,
   bus : Buses, rest : SUBSET Buses, missed : BOOLEAN, current : BOOLEAN]
Serving == [pc : StaffPcs, app : Apps, bus : Buses]
Jobs == {Idle, Marking} \cup Between \cup AtWork \cup Serving

Init ==
  /\ app = [a \in Apps |-> "submitted"]
  /\ lock = [a \in Apps |-> Nobody]
  /\ load = [b \in Buses |-> 0]
  /\ student = [a \in Apps |-> Absent]
  /\ begun = FALSE /\ blocking = "due" /\ marked = FALSE
  /\ job = [w \in Workers |-> Idle]
  /\ trouble = 0

Become(w, j) == job' = [job EXCEPT ![w] = j]
Goto(w, pc) == Become(w, [job[w] EXCEPT !.pc = pc])

Trouble == trouble < MaxTrouble /\ trouble' = trouble + 1

\* The lock is not looked at (mutant).
ClaimableAnyhow(a, states) == app[a] \in states
Claimable(a, states) == app[a] \in states /\ lock[a] = Nobody

Lock(a, w) == lock' = [lock EXCEPT ![a] = w]

\* A write to a row that is gone changes nothing.
Write(a, state) ==
  app' = IF app[a] \in Live THEN [app EXCEPT ![a] = state] ELSE app

-----------------------------------------------------------------------------
(* identity_activate_student_with_capacity.                                *)

\* seat_released_at is not looked at (mutant).
EverHeldSeat(a, b) == student[a] # Absent /\ student[a].bus = b
HoldsSeat(a, b) == student[a].held /\ student[a].bus = b

\* Off by one (mutant).
OverFull(b) == load[b] > Capacity[b]
Full(b) == load[b] >= Capacity[b]

\* bus_decrement_capacity: GREATEST(0, ...).
OneLess(b) == [load EXCEPT ![b] = IF @ > 0 THEN @ - 1 ELSE 0]

FreeBuses == {b \in Buses : ~Full(b)}

\* The upsert leaves seat_released_at as it was (mutant).
SeatKeepsRelease(a, b) ==
  /\ load' = IF HoldsSeat(a, b) THEN load ELSE [load EXCEPT ![b] = @ + 1]
  /\ student' = [student EXCEPT ![a] =
       [bus |-> b, held |-> student[a] = Absent \/ student[a].held]]

SeatGiven(a, b) ==
  /\ load' = IF HoldsSeat(a, b) THEN load ELSE [load EXCEPT ![b] = @ + 1]
  /\ student' = [student EXCEPT ![a] = [bus |-> b, held |-> TRUE]]

Refused(a, b) == ~HoldsSeat(a, b) /\ Full(b)

-----------------------------------------------------------------------------
(* A run of the session activation: "cron", "all" or "one".                *)

\* The marker alone stops the job (mutant).
MarkerAlone(list) == ~marked
NotDoneYet(list) == marked => list # {}

Begin(w, by, list) ==
  Become(w, [pc |-> "next", by |-> by, todo |-> list, app |-> "none", bus |-> "none",
             rest |-> FreeBuses, missed |-> FALSE, current |-> begun])

\* Students of the last session still hold their seats: not today.  Without
\* such students the missing marker is written on the way.
CronRun(k) ==
  LET list == {a \in Apps : app[a] = "verified_upcoming"}
  IN /\ job[k] = Idle /\ begun /\ blocking # "due"
     /\ NotDoneYet(list)
     /\ Begin(k, "cron", list)
     /\ blocking' = "marked"
     /\ UNCHANGED <<rows, begun, marked, trouble>>

RunForAll(s) ==
  /\ job[s] = Idle
  /\ Begin(s, "all", {a \in Apps : app[a] = "verified_upcoming"})
  /\ UNCHANGED <<rows, calendar, trouble>>

RunForOne(s, a) ==
  /\ job[s] = Idle /\ app[a] \in Activable
  /\ Begin(s, "one", {a})
  /\ UNCHANGED <<rows, calendar, trouble>>

Advance(w, missed) ==
  Become(w, [job[w] EXCEPT !.pc = "next", !.todo = @ \ {job[w].app},
                           !.app = "none", !.missed = @ \/ missed])

\* claim_application_for_activation; an application somebody else is
\* processing is passed over.
ClaimNext(w, a) ==
  /\ job[w].pc = "next" /\ a \in job[w].todo
  /\ \/ /\ Claimable(a, Activable) /\ Lock(a, w)
        /\ Become(w, [job[w] EXCEPT !.pc = "look", !.app = a, !.bus = Asked[a]])
     \/ /\ ~Claimable(a, Activable)
        /\ Become(w, [job[w] EXCEPT !.todo = @ \ {a}])
        /\ UNCHANGED lock
  /\ UNCHANGED <<app, load, student, calendar, trouble>>

\* Before every attempt the application is read again.
Look(w) ==
  /\ job[w].pc = "look"
  /\ Goto(w, IF app[job[w].app] \in Activable THEN "seat" ELSE "skip")
  /\ UNCHANGED <<rows, calendar, trouble>>

TakeSeat(w) ==
  LET a == job[w].app
  IN /\ job[w].pc = "seat"
     /\ ~Refused(a, job[w].bus)
     /\ SeatGiven(a, job[w].bus)
     /\ Goto(w, "consume")
     /\ UNCHANGED <<app, lock, calendar, trouble>>

\* The buses left to try: what had a free seat when the run began, or when
\* the bus asked for turned out to be full and one application is tried.
Left(w) ==
  (IF job[w].by = "one" /\ job[w].bus = Asked[job[w].app] THEN FreeBuses ELSE job[w].rest)
    \ {job[w].bus, Asked[job[w].app]}

TryElsewhere(w) ==
  /\ job[w].pc = "seat"
  /\ Refused(job[w].app, job[w].bus)
  /\ \/ /\ Left(w) = {} /\ Goto(w, "wait")
     \/ \E b \in Left(w) :
          Become(w, [job[w] EXCEPT !.pc = "look", !.bus = b, !.rest = Left(w)])
  /\ UNCHANGED <<rows, calendar, trouble>>

\* The row is deleted, whatever has become of it.
Consume(w) ==
  /\ job[w].pc = "consume"
  /\ Write(job[w].app, "activated")
  /\ lock' = [lock EXCEPT ![job[w].app] = Nobody]
  /\ Advance(w, FALSE)
  /\ UNCHANGED <<load, student, calendar, trouble>>

Wait(w) ==
  /\ job[w].pc = "wait"
  /\ Write(job[w].app, "pending_seat_allocation")
  /\ Goto(w, "release")
  /\ UNCHANGED <<lock, load, student, calendar, trouble>>

\* release_application_activation_claim: one's own lock only.
Release(w) ==
  LET a == job[w].app
  IN /\ job[w].pc \in {"skip", "release"}
     /\ lock' = IF lock[a] = w THEN [lock EXCEPT ![a] = Nobody] ELSE lock
     /\ Advance(w, job[w].pc = "release")
     /\ UNCHANGED <<app, load, student, calendar, trouble>>

\* An error on the bus asked for fails the application; one on another bus
\* is swallowed, and the application is sent to wait.  The seat may have been
\* taken, and the row deleted, although the answer was lost.
RunErr(w) ==
  LET a == job[w].app
  IN /\ Trouble
     /\ \/ job[w].pc \in {"look", "seat", "consume"} /\ UNCHANGED rows
        \/ /\ job[w].pc = "seat" /\ ~Refused(a, job[w].bus)
           /\ SeatGiven(a, job[w].bus)
           /\ UNCHANGED <<app, lock>>
        \/ /\ job[w].pc = "consume" /\ Write(a, "activated")
           /\ UNCHANGED <<lock, load, student>>
     /\ Goto(w, IF job[w].bus = Asked[a] THEN "release" ELSE "wait")
     /\ UNCHANGED calendar

WaitErr(w) ==
  /\ Trouble /\ job[w].pc = "wait"
  /\ Goto(w, "release")
  /\ UNCHANGED <<rows, calendar>>

\* A claim that fails passes for one that was refused; the lock may be taken.
ClaimErr(w, a) ==
  /\ Trouble /\ job[w].pc = "next" /\ a \in job[w].todo
  /\ Become(w, [job[w] EXCEPT !.todo = @ \ {a}])
  /\ \/ UNCHANGED lock
     \/ Claimable(a, Activable) /\ Lock(a, w)
  /\ UNCHANGED <<app, load, student, calendar>>

\* A release that fails leaves the lock to its lease.
ReleaseErr(w) ==
  /\ Trouble /\ job[w].pc \in {"skip", "release"}
  /\ Advance(w, job[w].pc = "release")
  /\ UNCHANGED <<rows, calendar>>

\* A run over all applications of the session looks what it has left over ...
Finish(w) ==
  LET over == job[w].by # "one" /\ job[w].current /\ ~job[w].missed
                /\ \A a \in Apps : app[a] # "verified_upcoming"
  IN /\ job[w].pc = "next" /\ job[w].todo = {}
     /\ Become(w, IF over THEN Marking ELSE Idle)
     /\ UNCHANGED <<rows, calendar, trouble>>

\* ... and writes the marker.
Mark(w) ==
  /\ job[w].pc = "mark"
  /\ marked' = TRUE
  /\ Become(w, Idle)
  /\ UNCHANGED <<rows, begun, blocking, trouble>>

-----------------------------------------------------------------------------
(* Approval and rejection.                                                 *)

Serve(s, a, pc, b) == Become(s, [pc |-> pc, app |-> a, bus |-> b])

\* approve_application.  What is submitted for a session to come is only
\* verified; otherwise the approver names a bus, or sends it to wait.
Approve(s, a) ==
  /\ job[s] = Idle
  /\ Claimable(a, Approvable) /\ Lock(a, s)
  /\ IF ~begun /\ app[a] = "submitted" THEN Serve(s, a, "openVerify", Asked[a])
     ELSE \/ Serve(s, a, "openQueue", Asked[a])
          \/ \E b \in Buses : Serve(s, a, "activate", b)
  /\ UNCHANGED <<app, load, student, calendar, trouble>>

\* release_application_lock, whoever holds it; a failure is swallowed.
Open(s) ==
  /\ job[s].pc \in {"openVerify", "openQueue"}
  /\ \/ Lock(job[s].app, Nobody) /\ UNCHANGED trouble
     \/ Trouble /\ UNCHANGED lock
  /\ Goto(s, IF job[s].pc = "openVerify" THEN "verify" ELSE "queue")
  /\ UNCHANGED <<app, load, student, calendar>>

\* The route verify-upcoming calls verifyUpcoming straight away: without the
\* lock, and whether or not the session has begun.
VerifyUpcoming(s, a) ==
  /\ job[s] = Idle
  /\ Serve(s, a, "verify", Asked[a])
  /\ UNCHANGED <<rows, calendar, trouble>>

\* verifyUpcoming reads the application, and then writes to it.
Verify(s) ==
  /\ job[s].pc = "verify"
  /\ IF app[job[s].app] = "submitted" THEN Goto(s, "verified") ELSE Become(s, Idle)
  /\ UNCHANGED <<rows, calendar, trouble>>

Verified(s) ==
  /\ job[s].pc = "verified"
  /\ Write(job[s].app, "verified_upcoming")
  /\ Become(s, Idle)
  /\ UNCHANGED <<lock, load, student, calendar, trouble>>

\* queueForSeat: the state, and the lock with it.
Queue(s) ==
  /\ job[s].pc = "queue"
  /\ Write(job[s].app, "pending_seat_allocation")
  /\ Lock(job[s].app, Nobody)
  /\ Become(s, Idle)
  /\ UNCHANGED <<load, student, calendar, trouble>>

Activate(s) ==
  LET a == job[s].app
      b == job[s].bus
  IN /\ job[s].pc = "activate"
     /\ \/ Refused(a, b) /\ Goto(s, "unlock") /\ UNCHANGED <<load, student>>
        \/ ~Refused(a, b) /\ SeatGiven(a, b) /\ Goto(s, "finalize")
     /\ UNCHANGED <<app, lock, calendar, trouble>>

\* finalize_application_approval: one's own application, or one that is gone.
Finalize(s) ==
  LET a == job[s].app
  IN /\ job[s].pc = "finalize"
     /\ \/ /\ lock[a] = s /\ Write(a, "activated")
           /\ Lock(a, Nobody) /\ Become(s, Idle)
        \/ /\ lock[a] # s /\ app[a] \notin Live
           /\ UNCHANGED <<app, lock>> /\ Become(s, Idle)
        \/ /\ lock[a] # s /\ app[a] \in Live
           /\ UNCHANGED <<app, lock>> /\ Goto(s, "unmark")
     /\ UNCHANGED <<load, student, calendar, trouble>>

\* A statement fails; the finalization may have been done all the same.
ApprovalErr(s) ==
  LET a == job[s].app
  IN /\ Trouble
     /\ \/ job[s].pc = "activate" /\ Goto(s, "unlock") /\ UNCHANGED app
        \/ job[s].pc = "finalize" /\ Goto(s, "unmark") /\ UNCHANGED app
        \/ /\ job[s].pc = "finalize" /\ lock[a] = s
           /\ Write(a, "activated") /\ Goto(s, "unmark")
     /\ UNCHANGED <<lock, load, student, calendar>>

\* Compensation: the row, the counter, the lock.
Unmark(s) ==
  LET a == job[s].app
  IN /\ job[s].pc = "unmark"
     /\ student' = IF student[a] = Absent THEN student ELSE [student EXCEPT ![a].held = FALSE]
     /\ Goto(s, "giveBack")
     /\ UNCHANGED <<app, lock, load, calendar, trouble>>

GiveBack(s) ==
  /\ job[s].pc = "giveBack"
  /\ load' = OneLess(job[s].bus)
  /\ Goto(s, "unlock")
  /\ UNCHANGED <<app, lock, student, calendar, trouble>>

Unlock(s) ==
  /\ job[s].pc = "unlock"
  /\ Lock(job[s].app, Nobody)
  /\ Become(s, Idle)
  /\ UNCHANGED <<app, load, student, calendar, trouble>>

Reject(s, a) ==
  /\ job[s] = Idle
  /\ Claimable(a, Live) /\ Lock(a, s)
  /\ Serve(s, a, "deny", Asked[a])
  /\ UNCHANGED <<app, load, student, calendar, trouble>>

\* finalize_application_rejection.
Deny(s) ==
  LET a == job[s].app
  IN /\ job[s].pc = "deny"
     /\ \/ /\ lock[a] = s /\ Write(a, "rejected")
           /\ Lock(a, Nobody) /\ Become(s, Idle) /\ UNCHANGED trouble
        \/ /\ lock[a] # s /\ app[a] \notin Live
           /\ UNCHANGED <<app, lock, trouble>> /\ Become(s, Idle)
        \/ /\ lock[a] # s /\ app[a] \in Live
           /\ UNCHANGED <<app, lock, trouble>> /\ Goto(s, "unlock")
        \/ Trouble /\ UNCHANGED <<app, lock>> /\ Goto(s, "unlock")
     /\ UNCHANGED <<load, student, calendar>>

-----------------------------------------------------------------------------
(* What happens around them.                                               *)

SessionBegins ==
  /\ ~begun /\ begun' = TRUE
  /\ UNCHANGED <<rows, blocking, marked, job, trouble>>

\* The retention job has blocked everybody who was due, and leaves a marker;
\* or they renewed or were deleted by hand, and there is none.
SoftBlockEnds ==
  /\ blocking = "due" /\ blocking' \in {"none", "marked"}
  /\ UNCHANGED <<rows, begun, marked, job, trouble>>

Serves(w, a) == job[w].pc \notin {"idle", "mark"} /\ job[w].app = a

\* The pass is over, and the retention job deletes the student
\* (delete_student_cascade_v1, which refuses while the pass is valid).
StudentLeaves(a) ==
  /\ app[a] = "activated" /\ student[a] # Absent
  /\ \A w \in Workers : ~Serves(w, a)
  /\ load' = IF student[a].held THEN OneLess(student[a].bus) ELSE load
  /\ student' = [student EXCEPT ![a] = Absent]
  /\ UNCHANGED <<app, lock, calendar, job, trouble>>

\* A verification holds no lock: what is left of one runs out meanwhile.
LeaseExpires(a) ==
  /\ lock[a] # Nobody
  /\ Serves(lock[a], a) => job[lock[a]].pc \in {"verify", "verified"}
  /\ Lock(a, Nobody)
  /\ UNCHANGED <<app, load, student, calendar, job, trouble>>

Dies(w) ==
  /\ job[w] # Idle /\ Trouble
  /\ Become(w, Idle)
  /\ UNCHANGED <<rows, calendar>>

-----------------------------------------------------------------------------
RunStep(w) ==
  \/ \E a \in Apps : ClaimNext(w, a)
  \/ Look(w) \/ TakeSeat(w) \/ TryElsewhere(w) \/ Consume(w)
  \/ Wait(w) \/ Release(w) \/ Finish(w) \/ Mark(w)

StaffStep(s) ==
  \/ Open(s) \/ Verify(s) \/ Verified(s) \/ Queue(s)
  \/ Activate(s) \/ Finalize(s) \/ Unmark(s) \/ GiveBack(s) \/ Unlock(s) \/ Deny(s)

Errs(w) ==
  \/ RunErr(w) \/ WaitErr(w) \/ ReleaseErr(w) \/ Dies(w)
  \/ \E a \in Apps : ClaimErr(w, a)

Next ==
  \/ \E w \in Workers : RunStep(w) \/ Errs(w)
  \/ \E k \in Crons : CronRun(k)
  \/ \E s \in Staff : \/ RunForAll(s) \/ StaffStep(s) \/ ApprovalErr(s)
                      \/ \E a \in Apps : \/ RunForOne(s, a) \/ Approve(s, a)
                                         \/ Reject(s, a) \/ VerifyUpcoming(s, a)
  \/ SessionBegins \/ SoftBlockEnds
  \/ \E a \in Apps : StudentLeaves(a) \/ LeaseExpires(a)

Spec == Init /\ [][Next]_vars

(* The calm behaviours: nobody holds the lock of an application that       *)
(* another request verifies, or puts in the queue, without it.             *)
Writing(s, a) == job[s].pc \in {"verify", "verified", "queue"} /\ job[s].app = a
Alone == \A s \in Staff, a \in Apps : Writing(s, a) => lock[a] \in {s, Nobody}

(* Requests go on, the daily jobs run, leases end.  The restriction alone  *)
(* never holds a run up for ever, whence SF.                               *)
Fairness ==
  /\ \A w \in Workers : SF_vars(RunStep(w) /\ Alone')
  /\ \A s \in Staff : WF_vars(StaffStep(s) /\ Alone')
  /\ \A k \in Crons : WF_vars(CronRun(k))
  /\ WF_vars(SoftBlockEnds)
  /\ \A a \in Apps : WF_vars(LeaseExpires(a))

CalmSpec == Init /\ [][Next /\ Alone']_vars /\ Fairness

-----------------------------------------------------------------------------
\* Seats as the counters have them, each by its bus and number; and students
\* and compensations that stand for one.
Counted == UNION {{b} \X (1 .. load[b]) : b \in Buses}
Seated == {a \in Apps : student[a].held}
GivingBack == {w \in Workers : job[w].pc = "giveBack"}

Occupants(b) == {a \in Seated : student[a].bus = b}
Compensating(b) == {w \in GivingBack : job[w].bus = b}

(* Every variable keeps its range, and no counter passes the capacity.     *)
TypeOK ==
  /\ app \in [Apps -> Live \cup {"activated", "rejected"}]
  /\ lock \in [Apps -> Workers \cup {Nobody}]
  /\ load \in [Buses -> Nat] /\ \A b \in Buses : load[b] <= Capacity[b]
  /\ student \in [Apps -> Student]
  /\ begun \in BOOLEAN /\ marked \in BOOLEAN /\ blocking \in {"due", "none", "marked"}
  /\ job \in [Workers -> Jobs]

(* The counters and the students part company only when something fails:  *)
(* a bus is never counted below the students who sit in it, and each       *)
(* failure leaves at most one seat counted that nobody sits in, whoever    *)
(* compensates, retries or tries another bus in between.                   *)
SeatsAreAccounted ==
  /\ \A b \in Buses :
       Cardinality(Occupants(b)) + Cardinality(Compensating(b)) <= load[b]
  /\ Cardinality(Counted) <= Cardinality(Seated) + Cardinality(GivingBack) + trouble

(* An application that was rejected seats nobody afterwards: no run that   *)
(* had listed or read it, and no approval, gives its applicant a seat.     *)
RejectedStaysOut ==
  [][\A a \in Apps : app[a] = "rejected" /\ student'[a].held => student[a].held]_vars

(* An application is used up only by giving its applicant a seat: when it  *)
(* goes as activated, the applicant is a student whose seat was not given  *)
(* back.                                                                   *)
ConsumedMeansSeated ==
  [][\A a \in Apps : app[a] # "activated" /\ app'[a] = "activated"
                       => student'[a].held]_vars

(* Once the session has begun, a verified application does not stay where  *)
(* it is: whatever died, was written late, or was verified after the run   *)
(* that left the marker, some daily run seats it or sends it to wait.      *)
UpcomingIsServed ==
  \A a \in Apps :
    (begun /\ app[a] = "verified_upcoming") ~> app[a] # "verified_upcoming"
=============================================================================
