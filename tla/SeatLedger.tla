----------------------------- MODULE SeatLedger -----------------------------
(***************************************************************************)
(* Seats on buses.  A bus keeps a counter per shift (buses.morning_load,   *)
(* buses.evening_load); a student's row says which bus and shift the       *)
(* student rides and whether the seat was given back (seat_released_at).   *)
(* Nothing in the schema ties the two together: every operation that moves *)
(* a student in or out of a seat has to keep the counter in step.          *)
(*                                                                         *)
(* The PostgreSQL functions lock the student row, then the bus rows, and   *)
(* are one step each.  The requests that call them are not: they read the  *)
(* student or the application first and act on what they read.  req[s] is  *)
(* what session s has read and has still to do.                            *)
(*                                                                         *)
(* Abstracted: statuses no seat operation writes (inactive, suspended,     *)
(* expired, pending_deletion); dates of validity (whether a student is due *)
(* for blocking or deletion is any time); current_members, the sum of the  *)
(* two counters; reassignments of more than one student at a time;         *)
(* students without a bus; applications for a session to come and the      *)
(* waiting list, which are in Admissions; and a second application of a    *)
(* student while some request still serves the one before.  One session is *)
(* one approver.  The functions that end a renewal write plain words to    *)
(* applications.processing_result, which the schema declares as JSONB; the *)
(* model is of a database whose column takes them.                         *)
(***************************************************************************)
EXTENDS Integers, FiniteSets

CONSTANTS
    Students, Buses, Sessions,
    Shifts,          \* "morning" and "evening"
    Capacity,        \* buses.capacity
    OverrideBuses,   \* the buses an approver may put in place of the one asked for
    Ops,             \* operation ids of reassignment_logs
    Free             \* an application that nobody is processing

ASSUME StudentsAssumption == IsFiniteSet(Students)

ASSUME CapacityAssumption == Capacity \in [Buses -> Nat \ {0}]

ASSUME OverrideAssumption == OverrideBuses \subseteq Buses

ASSUME FreeAssumption == Free \notin Sessions

VARIABLES
    load,      \* the counters of buses
    student,   \* student_profiles
    app,       \* the live application of a student
    lock,      \* applications.processing_lock, while its lease lasts
    log,       \* reassignment_logs
    renewed,   \* students with an approved renewal among their applications
    req        \* the request each session serves

vars == <<load, student, app, lock, log, renewed, req>>

Absent == [status |-> "absent"]

NoApp == [type |-> "none"]

NoLog == [status |-> "none"]

Idle == [pc |-> "idle"]

Seat == [bus : Buses, shift : Shifts]

Profile ==
    [status : {"active", "soft_blocked"}, bus : Buses, shift : Shifts, released : BOOLEAN]

Application == [type : {"fresh", "renewal"}, bus : Buses, shift : Shifts]

LogEntry ==
    [status : {"committed", "rolled_back"}, student : Students, before : Seat, after : Seat]

Loads == [Buses -> [Shifts -> Nat]]

Approval ==
    [pc : {"approve"}, student : Students, app : Application]
    \cup [pc : {"renewSeat", "renewPlain", "finalize", "markReleased", "releaseSeat"},
          student : Students, seat : Seat]
    \cup [pc : {"reject"}, student : Students]

Reassignment ==
    [pc : {"reassign", "writeLog"}, student : Students, from : Seat, to : Seat]

Move ==
    [pc : {"moveOut", "moveIn", "moveWrite", "undoIn", "undoOut"}, student : Students,
     from : Seat, to : Seat, out : BOOLEAN, in : BOOLEAN, admin : BOOLEAN]

StaffRenewal ==
    [pc : {"claim", "reclaimCheck", "reclaimWrite", "giveBack"}, student : Students,
     seat : Seat, claimed : BOOLEAN]

Creation ==
    [pc : {"createStudent", "createSeat"}, student : Students, seat : Seat, new : BOOLEAN]

Removal ==
    [pc : {"removeSeat", "removeStudent"}, student : Students, seat : Seat, held : BOOLEAN]

Request ==
    {Idle} \cup Approval \cup Reassignment \cup Move
    \cup StaffRenewal \cup Creation \cup Removal
    \cup [pc : {"softBlock"}, student : Students, seat : Seat]
    \cup [pc : {"reconcile"}, counts : Loads, todo : SUBSET Buses]

TypeOK ==
    /\ load \in Loads
    /\ student \in [Students -> {Absent} \cup Profile]
    /\ app \in [Students -> {NoApp} \cup Application]
    /\ lock \in [Students -> Sessions \cup {Free}]
    /\ log \in [Ops -> {NoLog} \cup LogEntry]
    /\ renewed \in SUBSET Students
    /\ req \in [Sessions -> Request]

Init ==
    /\ load = [b \in Buses |-> [sh \in Shifts |-> 0]]
    /\ student = [u \in Students |-> Absent]
    /\ app = [u \in Students |-> NoApp]
    /\ lock = [u \in Students |-> Free]
    /\ log = [o \in Ops |-> NoLog]
    /\ renewed = {}
    /\ req = [s \in Sessions |-> Idle]

Become(s, r) == req' = [req EXCEPT ![s] = r]

Goto(s, pc) == Become(s, [req[s] EXCEPT !.pc = pc])

Exists(u) == student[u] # Absent

SeatOf(u) == [bus |-> student[u].bus, shift |-> student[u].shift]

-----------------------------------------------------------------------------
(***************************************************************************)
(* The counters.                                                           *)
(***************************************************************************)

(* Faults of the counters: the comparison is off by one; no GREATEST(0,.). *)
AlmostFull(l, x) == l[x.bus][x.shift] > Capacity[x.bus]

MinusOne(l, x) == [l EXCEPT ![x.bus][x.shift] = @ - 1]

(* bus_increment_capacity and bus_decrement_capacity. *)
Full(l, x) == l[x.bus][x.shift] >= Capacity[x.bus]

Plus(l, x) == [l EXCEPT ![x.bus][x.shift] = @ + 1]

Minus(l, x) == [l EXCEPT ![x.bus][x.shift] = IF @ > 0 THEN @ - 1 ELSE 0]

(* The students the recounts count: seat_released_at IS NULL. *)
Occupants(st, x) ==
    {u \in Students :
        st[u] # Absent /\ st[u].bus = x.bus /\ st[u].shift = x.shift /\ ~ st[u].released}

Recount(st, l, B) ==
    [b \in Buses |->
        IF b \in B
        THEN [sh \in Shifts |-> Cardinality(Occupants(st, [bus |-> b, shift |-> sh]))]
        ELSE l[b]]

(* A fault of Fits: the counters are compared as they were before. *)
FitsBefore(l, B) == \A b \in B, sh \in Shifts : load[b][sh] <= Capacity[b]

Fits(l, B) == \A b \in B, sh \in Shifts : l[b][sh] <= Capacity[b]

(* The retry guard of the two functions that give out seats. *)
HoldsSeat(u, x) ==
    Exists(u) /\ student[u].status = "active" /\ ~ student[u].released /\ SeatOf(u) = x

-----------------------------------------------------------------------------
(***************************************************************************)
(* Applications and their approval.                                        *)
(***************************************************************************)
Processed(u) == \E s \in Sessions : req[s] \in Approval /\ req[s].student = u

Submit(u, x) ==
    /\ app[u] = NoApp
    /\ ~ Processed(u)
    /\ app' = [app EXCEPT ![u] =
          [type |-> IF Exists(u) THEN "renewal" ELSE "fresh",
           bus |-> x.bus, shift |-> x.shift]]
    /\ UNCHANGED <<load, student, lock, log, renewed, req>>

(* approve_application: takes the lock and returns the application. *)
LockApplication(s, u) ==
    /\ req[s] = Idle
    /\ app[u] # NoApp
    /\ lock[u] = Free
    /\ lock' = [lock EXCEPT ![u] = s]
    /\ Become(s, [pc |-> "approve", student |-> u, app |-> app[u]])
    /\ UNCHANGED <<load, student, app, log, renewed>>

(* reject_application takes the same lock. *)
LockForRejection(s, u) ==
    /\ req[s] = Idle
    /\ app[u] # NoApp
    /\ lock[u] = Free
    /\ lock' = [lock EXCEPT ![u] = s]
    /\ Become(s, [pc |-> "reject", student |-> u])
    /\ UNCHANGED <<load, student, app, log, renewed>>

LeaseExpires(u) ==
    /\ lock[u] # Free
    /\ lock' = [lock EXCEPT ![u] = Free]
    /\ UNCHANGED <<load, student, app, log, renewed, req>>

(* release_application_lock: whoever holds it. *)
ReleaseLock(u) == lock' = [lock EXCEPT ![u] = Free]

(* identity_activate_student_with_capacity, on bus b. *)
Activate(s, b) ==
    LET u == req[s].student
        x == [bus |-> b, shift |-> req[s].app.shift]
    IN  /\ req[s].pc = "approve"
        /\ req[s].app.type = "fresh"
        /\ b \in OverrideBuses \cup {req[s].app.bus}
        /\ IF ~ HoldsSeat(u, x) /\ Full(load, x)
             THEN /\ Become(s, Idle)
                  /\ ReleaseLock(u)
                  /\ UNCHANGED <<load, student>>
             ELSE /\ load' = IF HoldsSeat(u, x) THEN load ELSE Plus(load, x)
                  /\ student' = [student EXCEPT ![u] =
                        [status |-> "active", bus |-> b, shift |-> x.shift,
                         released |-> FALSE]]
                  /\ Become(s, [pc |-> "finalize", student |-> u, seat |-> x])
                  /\ UNCHANGED lock
        /\ UNCHANGED <<app, log, renewed>>

(* The application is gone: this request, or another one, finalized it. *)
Finalized(s, u) ==
    \/ /\ lock[u] = s
       /\ app' = [app EXCEPT ![u] = NoApp]
       /\ ReleaseLock(u)
    \/ /\ app[u] = NoApp
       /\ UNCHANGED <<app, lock>>

(* finalize_application_approval for a fresh application. *)
Finalize(s) ==
    /\ req[s].pc = "finalize"
    /\ Finalized(s, req[s].student)
    /\ Become(s, Idle)
    /\ UNCHANGED <<load, student, log, renewed>>

(* The lease was lost, or the call failed: the seat is given back, in two  *)
(* statements that may fail unnoticed, and then the lock is released.      *)
FinalizeFails(s) ==
    /\ req[s].pc = "finalize"
    /\ Goto(s, "markReleased")
    /\ UNCHANGED <<load, student, app, lock, log, renewed>>

MarkReleased(s) ==
    LET u == req[s].student
    IN  /\ req[s].pc = "markReleased"
        /\ \/ UNCHANGED student
           \/ Exists(u) /\ student' = [student EXCEPT ![u].released = TRUE]
        /\ Goto(s, "releaseSeat")
        /\ UNCHANGED <<load, app, lock, log, renewed>>

ReleaseSeat(s) ==
    /\ req[s].pc = "releaseSeat"
    /\ load' \in {load, Minus(load, req[s].seat)}
    /\ ReleaseLock(req[s].student)
    /\ Become(s, Idle)
    /\ UNCHANGED <<student, app, log, renewed>>

(* A renewal reads the student.  Only a released seat is claimed again, on *)
(* the student's bus or on the approver's.                                 *)
RenewRead(s, b) ==
    LET u == req[s].student
    IN  /\ req[s].pc = "approve"
        /\ req[s].app.type = "renewal"
        /\ Exists(u)
        /\ b \in OverrideBuses \cup {student[u].bus}
        /\ Become(s, [pc |-> IF student[u].released THEN "renewSeat" ELSE "renewPlain",
                      student |-> u, seat |-> [bus |-> b, shift |-> student[u].shift]])
        /\ UNCHANGED <<load, student, app, lock, log, renewed>>

(* approve_renewal_with_seat: the bus of the student's row stays, and an   *)
(* application that is gone undoes the claim.                              *)
RenewSeat(s) ==
    LET u == req[s].student
        x == req[s].seat
    IN  /\ req[s].pc = "renewSeat"
        /\ IF /\ Exists(u) /\ (HoldsSeat(u, x) \/ ~ Full(load, x))
              /\ app[u] # NoApp \/ u \in renewed
             THEN /\ load' = IF HoldsSeat(u, x) THEN load ELSE Plus(load, x)
                  /\ student' = [student EXCEPT ![u].status = "active", ![u].released = FALSE]
                  /\ app' = [app EXCEPT ![u] = NoApp]
                  /\ renewed' = renewed \cup {u}
             ELSE UNCHANGED <<load, student, app, renewed>>
        /\ ReleaseLock(u)
        /\ Become(s, Idle)
        /\ UNCHANGED log

(* finalize_application_approval for a renewal without a seat claim. *)
RenewPlain(s) ==
    LET u == req[s].student
    IN  /\ req[s].pc = "renewPlain"
        /\ \/ /\ lock[u] = s /\ Exists(u)
              /\ Finalized(s, u)
              /\ student' = [student EXCEPT ![u].status = "active"]
              /\ renewed' = renewed \cup {u}
           \/ /\ lock[u] # s
              /\ Finalized(s, u)
              /\ UNCHANGED <<student, renewed>>
           \/ /\ (lock[u] # s \/ ~ Exists(u)) /\ app[u] # NoApp
              /\ ReleaseLock(u)
              /\ UNCHANGED <<app, student, renewed>>
        /\ Become(s, Idle)
        /\ UNCHANGED <<load, log>>

(* finalize_application_rejection deletes the application; when another    *)
(* request holds the lock by now, the lock is released all the same.       *)
Reject(s) ==
    LET u == req[s].student
    IN  /\ req[s].pc = "reject"
        /\ \/ Finalized(s, u)
           \/ /\ lock[u] # s /\ app[u] # NoApp
              /\ ReleaseLock(u)
              /\ UNCHANGED app
        /\ Become(s, Idle)
        /\ UNCHANGED <<load, student, log, renewed>>

-----------------------------------------------------------------------------
(***************************************************************************)
(* Renewal without an application: staff renew a student (renew-services), *)
(* or a payment does (applyPaymentValidity).  A seat that was given back   *)
(* is claimed first; then Student.update reads the student again, refuses  *)
(* one whose seat is given back, and writes.                               *)
(***************************************************************************)
StaffRenewRead(s, u) ==
    /\ req[s] = Idle
    /\ Exists(u)
    /\ app[u].type # "renewal"
    /\ Become(s, [pc |-> IF student[u].released THEN "claim" ELSE "reclaimCheck",
                  student |-> u, seat |-> SeatOf(u), claimed |-> FALSE])
    /\ UNCHANGED <<load, student, app, lock, log, renewed>>

PaymentRead(s, u) ==
    /\ req[s] = Idle
    /\ Exists(u) /\ ~ student[u].released
    /\ Become(s, [pc |-> "reclaimCheck", student |-> u, seat |-> SeatOf(u), claimed |-> FALSE])
    /\ UNCHANGED <<load, student, app, lock, log, renewed>>

StaffRenewClaim(s) ==
    /\ req[s].pc = "claim"
    /\ IF Full(load, req[s].seat)
         THEN Become(s, Idle) /\ UNCHANGED load
         ELSE /\ load' = Plus(load, req[s].seat)
              /\ Become(s, [req[s] EXCEPT !.pc = "reclaimCheck", !.claimed = TRUE])
    /\ UNCHANGED <<student, app, lock, log, renewed>>

StaffRenewCheck(s) ==
    LET u == req[s].student
    IN  /\ req[s].pc = "reclaimCheck"
        /\ IF ~ Exists(u) \/ ~ student[u].released THEN Goto(s, "reclaimWrite")
           ELSE IF req[s].claimed THEN Goto(s, "giveBack")
           ELSE Become(s, Idle)
        /\ UNCHANGED <<load, student, app, lock, log, renewed>>

StaffRenewWrite(s) ==
    LET u == req[s].student
    IN  /\ req[s].pc = "reclaimWrite"
        /\ student' = IF Exists(u)
                      THEN [student EXCEPT ![u].status = "active",
                                           ![u].released = @ /\ ~ req[s].claimed]
                      ELSE student
        /\ Become(s, Idle)
        /\ UNCHANGED <<load, app, lock, log, renewed>>

(* Refused: the seat that was claimed is given back. *)
StaffRenewGiveBack(s) ==
    /\ req[s].pc = "giveBack"
    /\ load' = Minus(load, req[s].seat)
    /\ Become(s, Idle)
    /\ UNCHANGED <<student, app, lock, log, renewed>>

-----------------------------------------------------------------------------
(***************************************************************************)
(* An administrator creates a student (create-user).  The seat of a new    *)
(* student is counted on a full bus as well; nothing is counted for one    *)
(* who exists already, whose row is written over.                          *)
(***************************************************************************)
CreateRead(s, u, x) ==
    /\ req[s] = Idle
    /\ Become(s, [pc |-> "createStudent", student |-> u, seat |-> x, new |-> ~ Exists(u)])
    /\ UNCHANGED <<load, student, app, lock, log, renewed>>

CreateStudent(s) ==
    LET u == req[s].student
        x == req[s].seat
    IN  /\ req[s].pc = "createStudent"
        /\ student' = [student EXCEPT ![u] =
              [status |-> "active", bus |-> x.bus, shift |-> x.shift,
               released |-> Exists(u) /\ student[u].released]]
        /\ IF req[s].new THEN Goto(s, "createSeat") ELSE Become(s, Idle)
        /\ UNCHANGED <<load, app, lock, log, renewed>>

MaxOverFill == 1     \* bounds how far above its capacity a counter is taken

CreateSeat(s) ==
    LET x == req[s].seat
    IN  /\ req[s].pc = "createSeat"
        /\ load[x.bus][x.shift] < Capacity[x.bus] + MaxOverFill
        /\ load' = Plus(load, x)
        /\ Become(s, Idle)
        /\ UNCHANGED <<student, app, lock, log, renewed>>

-----------------------------------------------------------------------------
(***************************************************************************)
(* Blocking and deletion.                                                  *)
(***************************************************************************)

(* The cron job reads the student ... *)
SoftBlockRead(s, u) ==
    /\ req[s] = Idle
    /\ Exists(u) /\ student[u].status = "active"
    /\ Become(s, [pc |-> "softBlock", student |-> u, seat |-> SeatOf(u)])
    /\ UNCHANGED <<load, student, app, lock, log, renewed>>

(* ... and soft_block_student_with_seat_release gives back the seat that   *)
(* was read, when SEAT_RELEASE_AT_SOFT_BLOCK is on.                        *)
SoftBlock(s, release) ==
    LET u == req[s].student
    IN  /\ req[s].pc = "softBlock"
        /\ IF Exists(u) /\ student[u].status = "active"
             THEN /\ load' = IF release THEN Minus(load, req[s].seat) ELSE load
                  /\ student' = [student EXCEPT ![u].status = "soft_blocked",
                                                ![u].released = @ \/ release]
             ELSE UNCHANGED <<load, student>>
        /\ Become(s, Idle)
        /\ UNCHANGED <<app, lock, log, renewed>>

(* A full refund of the last payment that covers the student (the database *)
(* function of refunds): blocked, and the seat given back in the same     *)
(* transaction.                                                            *)
RefundStudent(u) ==
    /\ Exists(u)
    /\ load' = IF student[u].released THEN load ELSE Minus(load, SeatOf(u))
    /\ student' = [student EXCEPT ![u].status = "soft_blocked", ![u].released = TRUE]
    /\ UNCHANGED <<app, lock, log, renewed, req>>

(* A fault of DeleteStudent: a seat given back is given back again. *)
DeleteAndRelease(u) ==
    /\ Exists(u)
    /\ app[u].type # "renewal" /\ u \notin renewed
    /\ load' = Minus(load, SeatOf(u))
    /\ student' = [student EXCEPT ![u] = Absent]
    /\ app' = [app EXCEPT ![u] = NoApp]
    /\ ReleaseLock(u)
    /\ UNCHANGED <<log, renewed, req>>

(* delete_student_cascade_v1.  A renewal stands in its way, a submitted    *)
(* one and just as well one that was approved, which nothing removes.      *)
DeleteStudent(u) ==
    /\ Exists(u)
    /\ app[u].type # "renewal" /\ u \notin renewed
    /\ load' = IF student[u].released THEN load ELSE Minus(load, SeatOf(u))
    /\ student' = [student EXCEPT ![u] = Absent]
    /\ app' = [app EXCEPT ![u] = NoApp]
    /\ ReleaseLock(u)
    /\ UNCHANGED <<log, renewed, req>>

(* simulate-deadlines deletes in steps of its own: the seat is given back, *)
(* when the student was read holding it, and then the row is deleted.      *)
RemoveRead(s, u) ==
    /\ req[s] = Idle
    /\ Exists(u)
    /\ Become(s, [pc |-> "removeSeat", student |-> u, seat |-> SeatOf(u),
                  held |-> ~ student[u].released])
    /\ UNCHANGED <<load, student, app, lock, log, renewed>>

RemoveSeat(s) ==
    /\ req[s].pc = "removeSeat"
    /\ \/ UNCHANGED load
       \/ req[s].held /\ load' = Minus(load, req[s].seat)
    /\ Goto(s, "removeStudent")
    /\ UNCHANGED <<student, app, lock, log, renewed>>

RemoveStudent(s) ==
    /\ req[s].pc = "removeStudent"
    /\ student' = [student EXCEPT ![req[s].student] = Absent]
    /\ Become(s, Idle)
    /\ UNCHANGED <<load, app, lock, log, renewed>>

-----------------------------------------------------------------------------
(***************************************************************************)
(* Reassignment and its rollback.                                          *)
(***************************************************************************)
ReassignRead(s, u, x) ==
    /\ req[s] = Idle
    /\ Exists(u)
    /\ SeatOf(u) # x
    /\ Become(s, [pc |-> "reassign", student |-> u, from |-> SeatOf(u), to |-> x])
    /\ UNCHANGED <<load, student, app, lock, log, renewed>>

(* reassign_students_atomically.  It trusts the bus the student was read   *)
(* on, but recounts only the bus the student is on by now and the target.  *)
Reassign(s) ==
    LET u == req[s].student
        x == req[s].to
        out == IF Exists(u)
               THEN Minus(load, [bus |-> req[s].from.bus, shift |-> student[u].shift])
               ELSE load
        moved == IF Exists(u)
                 THEN [student EXCEPT ![u].bus = x.bus, ![u].shift = x.shift]
                 ELSE student
        affected == {x.bus} \cup (IF Exists(u) THEN {student[u].bus} ELSE {})
        counted == Recount(moved, out, affected)
    IN  /\ req[s].pc = "reassign"
        /\ IF (Exists(u) => ~ Full(out, x)) /\ Fits(counted, affected)
             THEN /\ load' = counted
                  /\ student' = moved
                  /\ Goto(s, "writeLog")
             ELSE /\ Become(s, Idle)
                  /\ UNCHANGED <<load, student>>
        /\ UNCHANGED <<app, lock, log, renewed>>

WriteLog(s, o) ==
    /\ req[s].pc = "writeLog"
    /\ log[o] = NoLog
    /\ log' = [log EXCEPT ![o] =
          [status |-> "committed", student |-> req[s].student,
           before |-> req[s].from, after |-> req[s].to]]
    /\ Become(s, Idle)
    /\ UNCHANGED <<load, student, app, lock, renewed>>

(* execute_reassignment_rollback *)
Rollback(o) ==
    LET e == log[o]
        back == [student EXCEPT ![e.student].bus = e.before.bus,
                                ![e.student].shift = e.before.shift]
        affected == {e.before.bus, e.after.bus}
        counted == Recount(back, load, affected)
    IN  /\ e.status = "committed"
        /\ Exists(e.student) /\ student[e.student].bus = e.after.bus
        /\ Fits(counted, affected)
        /\ load' = counted
        /\ student' = back
        /\ log' = [log EXCEPT ![o].status = "rolled_back"]
        /\ UNCHANGED <<app, lock, renewed, req>>

-----------------------------------------------------------------------------
(***************************************************************************)
(* Staff edit a student's profile.  An administrator (update-user) may     *)
(* change bus and shift, and a refused seat ends the request; others       *)
(* (Student.update) may change the shift, and for them every failure of a  *)
(* counter is ignored.                                                     *)
(***************************************************************************)
MoveRead(s, u, x, admin) ==
    LET held == ~ student[u].released /\ (admin \/ student[u].status = "active")
    IN  /\ req[s] = Idle
        /\ Exists(u)
        /\ SeatOf(u) # x
        /\ admin \/ student[u].bus = x.bus
        /\ Become(s, [pc |-> "moveOut", student |-> u, from |-> SeatOf(u), to |-> x,
                      out |-> held, in |-> held \/ student[u].bus # x.bus, admin |-> admin])
        /\ UNCHANGED <<load, student, app, lock, log, renewed>>

MoveOut(s) ==
    /\ req[s].pc = "moveOut"
    /\ \/ req[s].out /\ load' = Minus(load, req[s].from)
       \/ (~ req[s].out \/ ~ req[s].admin) /\ UNCHANGED load
    /\ Goto(s, "moveIn")
    /\ UNCHANGED <<student, app, lock, log, renewed>>

MoveIn(s) ==
    LET x == req[s].to
    IN  /\ req[s].pc = "moveIn"
        /\ \/ /\ req[s].in /\ ~ Full(load, x)
              /\ load' = Plus(load, x)
              /\ Goto(s, "moveWrite")
           \/ /\ ~ req[s].in \/ ~ req[s].admin
              /\ Goto(s, "moveWrite") /\ UNCHANGED load
           \/ /\ req[s].in /\ req[s].admin /\ Full(load, x)
              /\ Become(s, Idle) /\ UNCHANGED load
        /\ UNCHANGED <<student, app, lock, log, renewed>>

MoveWrite(s) ==
    LET u == req[s].student
        x == req[s].to
    IN  /\ req[s].pc = "moveWrite"
        /\ student' = IF Exists(u)
                      THEN [student EXCEPT ![u].bus = x.bus, ![u].shift = x.shift]
                      ELSE student
        /\ Become(s, Idle)
        /\ UNCHANGED <<load, app, lock, log, renewed>>

(* The write fails: an administrator's request tries to undo the counters. *)
MoveWriteFails(s) ==
    /\ req[s].pc = "moveWrite"
    /\ req[s].admin
    /\ Goto(s, "undoIn")
    /\ UNCHANGED <<load, student, app, lock, log, renewed>>

UndoIn(s) ==
    /\ req[s].pc = "undoIn"
    /\ \/ UNCHANGED load
       \/ req[s].in /\ load' = Minus(load, req[s].to)
    /\ Goto(s, "undoOut")
    /\ UNCHANGED <<student, app, lock, log, renewed>>

UndoOut(s) ==
    /\ req[s].pc = "undoOut"
    /\ \/ UNCHANGED load
       \/ req[s].out /\ ~ Full(load, req[s].from) /\ load' = Plus(load, req[s].from)
    /\ Become(s, Idle)
    /\ UNCHANGED <<student, app, lock, log, renewed>>

-----------------------------------------------------------------------------
(***************************************************************************)
(* adminReconcileBusLoads reads buses and students, and then writes, bus   *)
(* by bus, the counters that differed.                                     *)
(***************************************************************************)
ReconcileRead(s) ==
    LET counts == Recount(student, load, Buses)
    IN  /\ req[s] = Idle
        /\ counts # load
        /\ Become(s, [pc |-> "reconcile", counts |-> counts,
                      todo |-> {b \in Buses : counts[b] # load[b]}])
        /\ UNCHANGED <<load, student, app, lock, log, renewed>>

ReconcileBus(s, b) ==
    /\ req[s].pc = "reconcile"
    /\ b \in req[s].todo
    /\ load' = [load EXCEPT ![b] = req[s].counts[b]]
    /\ IF req[s].todo = {b} THEN Become(s, Idle)
       ELSE Become(s, [req[s] EXCEPT !.todo = @ \ {b}])
    /\ UNCHANGED <<student, app, lock, log, renewed>>

(* The server dies, or a call fails and the request gives up. *)
Crash(s) ==
    /\ req[s] # Idle
    /\ Become(s, Idle)
    /\ UNCHANGED <<load, student, app, lock, log, renewed>>

-----------------------------------------------------------------------------
ApproveStep(s) ==
    \/ \E u \in Students : LockApplication(s, u)
    \/ \E u \in Students : LockForRejection(s, u)
    \/ \E b \in Buses : Activate(s, b)
    \/ Finalize(s)
    \/ FinalizeFails(s)
    \/ MarkReleased(s)
    \/ ReleaseSeat(s)
    \/ \E b \in Buses : RenewRead(s, b)
    \/ RenewSeat(s)
    \/ RenewPlain(s)
    \/ Reject(s)

MoveStep(s) ==
    \/ \E u \in Students, x \in Seat, admin \in BOOLEAN : MoveRead(s, u, x, admin)
    \/ MoveOut(s)
    \/ MoveIn(s)
    \/ MoveWrite(s)
    \/ MoveWriteFails(s)
    \/ UndoIn(s)
    \/ UndoOut(s)

StaffRenewStep(s) ==
    \/ \E u \in Students : StaffRenewRead(s, u)
    \/ \E u \in Students : PaymentRead(s, u)
    \/ StaffRenewClaim(s)
    \/ StaffRenewCheck(s)
    \/ StaffRenewWrite(s)
    \/ StaffRenewGiveBack(s)

AdminStep(s) ==
    \/ \E u \in Students, x \in Seat : CreateRead(s, u, x)
    \/ CreateStudent(s)
    \/ CreateSeat(s)
    \/ \E u \in Students : RemoveRead(s, u)
    \/ RemoveSeat(s)
    \/ RemoveStudent(s)

OtherStep(s) ==
    \/ \E u \in Students : SoftBlockRead(s, u)
    \/ \E release \in BOOLEAN : SoftBlock(s, release)
    \/ \E u \in Students, x \in Seat : ReassignRead(s, u, x)
    \/ Reassign(s)
    \/ \E o \in Ops : WriteLog(s, o)
    \/ ReconcileRead(s)
    \/ \E b \in Buses : ReconcileBus(s, b)
    \/ Crash(s)

StudentStep(u) ==
    \/ \E x \in Seat : Submit(u, x)
    \/ LeaseExpires(u)
    \/ RefundStudent(u)
    \/ DeleteStudent(u)

Next ==
    \/ \E s \in Sessions :
          ApproveStep(s) \/ StaffRenewStep(s) \/ MoveStep(s) \/ AdminStep(s) \/ OtherStep(s)
    \/ \E u \in Students : StudentStep(u)
    \/ \E o \in Ops : Rollback(o)

Spec == Init /\ [][Next]_vars

(***************************************************************************)
(* The part of the behaviours in which students are not created, moved or  *)
(* removed by hand, no approval is compensated, and nothing else touches   *)
(* seats while a request is being served.                                  *)
(***************************************************************************)
Quiet == \A s \in Sessions : req[s] = Idle

CalmNext ==
    \/ \E s \in Sessions :
          /\ \A q \in Sessions \ {s} : req[q] = Idle
          /\ ApproveStep(s) \/ StaffRenewStep(s) \/ OtherStep(s)
          /\ req'[s].pc # "markReleased"
    \/ \E u \in Students : Quiet /\ StudentStep(u)
    \/ \E o \in Ops : Quiet /\ Rollback(o)

CalmSpec == Init /\ [][CalmNext]_vars

-----------------------------------------------------------------------------
(***************************************************************************)
(* Properties.                                                             *)
(***************************************************************************)

(* INV-CAP-002 for the counters: whatever was read before and whoever runs *)
(* at the same time, a counter is raised above the capacity of the bus by  *)
(* nothing but the reconciliation, which writes what it has counted, and   *)
(* an administrator's creation of a student, which may over-fill a bus.    *)
NoOverbooking ==
    [][\A b \in Buses, sh \in Shifts :
          load'[b][sh] > load[b][sh] /\ load'[b][sh] > Capacity[b]
              => \E s \in Sessions : ReconcileBus(s, b) \/ CreateSeat(s)]_vars

(* A counter never says less than the students who sit in the bus, so that *)
(* a seat that is taken is not given out again: through approvals that die *)
(* halfway and are retried, renewals whose claimed seat is given back,     *)
(* blocking, deletions, refunds, reassignments and rollbacks in any order, *)
(* one request at a time; approvals that are compensated are left out.     *)
NeverUndercounted ==
    \A x \in Seat : Cardinality(Occupants(student, x)) <= load[x.bus][x.shift]

(* INV-CAP-001: for every bus and shift, the occupied seats never exceed   *)
(* the capacity.                                                           *)
SeatsWithinCapacity ==
    \A x \in Seat : Cardinality(Occupants(student, x)) <= Capacity[x.bus]
=============================================================================
