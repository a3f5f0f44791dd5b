-------------------------- MODULE SeatLedgerProofs --------------------------
(***************************************************************************)
(* For any number of students, buses, shifts and requests, every operation *)
(* interleaved with every other: the counters of the buses stay natural    *)
(* numbers, every request holds what its kind of request has read, and no  *)
(* counter is raised above the capacity of its bus but by the two          *)
(* operations that do so knowingly.                                        *)
(*                                                                         *)
(* No step relies on what a request has read: whatever raises a counter    *)
(* compares it with the capacity in the same step.  That is all the system *)
(* has to rely on, since what was read may be long out of date.            *)
(***************************************************************************)
EXTENDS SeatLedger, FiniteSetTheorems, TLAPS

(* What a step other than the two may do to the counters. *)
Within ==
  \A b \in Buses, sh \in Shifts : load'[b][sh] <= load[b][sh] \/ load'[b][sh] <= Capacity[b]

(* What any step may do: those two over-fill the one bus they write. *)
WithinOrOverfilled ==
  \A b \in Buses, sh \in Shifts :
     load'[b][sh] > load[b][sh] /\ load'[b][sh] > Capacity[b]
       => \E s \in Sessions : ReconcileBus(s, b) \/ CreateSeat(s)

-----------------------------------------------------------------------------
(* Requests.                                                               *)

Reading == [pc : {"approve"}, student : Students, app : Application]
Finishing ==
  [pc : {"renewSeat", "renewPlain", "finalize", "markReleased", "releaseSeat"},
   student : Students, seat : Seat]
Rejecting == [pc : {"reject"}, student : Students]
Blocking == [pc : {"softBlock"}, student : Students, seat : Seat]
Counting == [pc : {"reconcile"}, counts : Loads, todo : SUBSET Buses]

LEMMA KindsOfRequest ==
  Request = {Idle} \cup Reading \cup Finishing \cup Rejecting \cup Reassignment \cup Move
              \cup StaffRenewal \cup Creation \cup Removal \cup Blocking \cup Counting
BY DEF Request, Approval, Reading, Finishing, Rejecting, Blocking, Counting

LEMMA RequestsByPc ==
    ASSUME NEW r \in Request
    PROVE  /\ r.pc = "approve" => r \in Reading
           /\ r.pc \in {"renewSeat", "renewPlain", "finalize", "markReleased", "releaseSeat"}
                => r \in Finishing
           /\ r.pc = "reject" => r \in Rejecting
           /\ r.pc \in {"reassign", "writeLog"} => r \in Reassignment
           /\ r.pc \in {"moveOut", "moveIn", "moveWrite", "undoIn", "undoOut"} => r \in Move
           /\ r.pc \in {"claim", "reclaimCheck", "reclaimWrite", "giveBack"} => r \in StaffRenewal
           /\ r.pc \in {"createStudent", "createSeat"} => r \in Creation
           /\ r.pc \in {"removeSeat", "removeStudent"} => r \in Removal
           /\ r.pc = "softBlock" => r \in Blocking
           /\ r.pc = "reconcile" => r \in Counting
<1>1. r = Idle => r.pc = "idle"
  BY DEF Idle
<1>2. r \in Reading => r.pc = "approve"
  BY DEF Reading
<1>3. r \in Finishing
        => r.pc \in {"renewSeat", "renewPlain", "finalize", "markReleased", "releaseSeat"}
  BY DEF Finishing
<1>4. r \in Rejecting => r.pc = "reject"
  BY DEF Rejecting
<1>5. r \in Reassignment => r.pc \in {"reassign", "writeLog"}
  BY DEF Reassignment
<1>6. r \in Move => r.pc \in {"moveOut", "moveIn", "moveWrite", "undoIn", "undoOut"}
  BY DEF Move
<1>7. r \in StaffRenewal => r.pc \in {"claim", "reclaimCheck", "reclaimWrite", "giveBack"}
  BY DEF StaffRenewal
<1>8. r \in Creation => r.pc \in {"createStudent", "createSeat"}
  BY DEF Creation
<1>9. r \in Removal => r.pc \in {"removeSeat", "removeStudent"}
  BY DEF Removal
<1>10. r \in Blocking => r.pc = "softBlock"
  BY DEF Blocking
<1>11. r \in Counting => r.pc = "reconcile"
  BY DEF Counting
<1>12. QED
  BY <1>1, <1>2, <1>3, <1>4, <1>5, <1>6, <1>7, <1>8, <1>9, <1>10, <1>11, KindsOfRequest

LEMMA IdleIsRequest == Idle \in Request
BY KindsOfRequest

LEMMA OneRequest ==
    ASSUME TypeOK, NEW s \in Sessions, NEW r \in Request, Become(s, r)
    PROVE  req' \in [Sessions -> Request]
BY DEF TypeOK, Become

(* A request that goes on to another step of its kind. *)
LEMMA GoesOn ==
    ASSUME TypeOK, NEW s \in Sessions, NEW pc, Goto(s, pc),
           \/ /\ req[s] \in Finishing
              /\ pc \in {"renewSeat", "renewPlain", "finalize", "markReleased", "releaseSeat"}
           \/ req[s] \in Reassignment /\ pc \in {"reassign", "writeLog"}
           \/ req[s] \in Move /\ pc \in {"moveOut", "moveIn", "moveWrite", "undoIn", "undoOut"}
           \/ /\ req[s] \in StaffRenewal
              /\ pc \in {"claim", "reclaimCheck", "reclaimWrite", "giveBack"}
           \/ req[s] \in Creation /\ pc \in {"createStudent", "createSeat"}
           \/ req[s] \in Removal /\ pc \in {"removeSeat", "removeStudent"}
    PROVE  req' \in [Sessions -> Request]
<1> DEFINE r == [req[s] EXCEPT !.pc = pc]
<1>1. \/ r \in Finishing \/ r \in Reassignment \/ r \in Move
      \/ r \in StaffRenewal \/ r \in Creation \/ r \in Removal
  BY DEF Finishing, Reassignment, Move, StaffRenewal, Creation, Removal
<1>2. r \in Request
  BY <1>1, KindsOfRequest
<1>3. Become(s, r)
  BY DEF Goto
<1> HIDE DEF r
<1>4. QED
  BY <1>2, <1>3, OneRequest

-----------------------------------------------------------------------------
(* The counters.                                                           *)

LEMMA CapacityIsNat == \A b \in Buses : Capacity[b] \in Nat
BY CapacityAssumption

LEMMA SeatParts ==
    ASSUME NEW x \in Seat
    PROVE  x.bus \in Buses /\ x.shift \in Shifts
BY DEF Seat

LEMMA LoadIsNat ==
    ASSUME NEW l \in Loads, NEW b \in Buses, NEW sh \in Shifts
    PROVE  l[b][sh] \in Nat
BY DEF Loads

LEMMA MinusLowers ==
    ASSUME NEW l \in Loads, NEW x \in Seat
    PROVE  /\ Minus(l, x) \in Loads
           /\ \A b \in Buses, sh \in Shifts : Minus(l, x)[b][sh] <= l[b][sh]
<1> DEFINE n == IF l[x.bus][x.shift] > 0 THEN l[x.bus][x.shift] - 1 ELSE 0
<1>1. x.bus \in Buses /\ x.shift \in Shifts /\ l[x.bus][x.shift] \in Nat
  BY SeatParts, LoadIsNat
<1>2. n \in Nat /\ n <= l[x.bus][x.shift]
  BY <1>1
<1>3. Minus(l, x) = [l EXCEPT ![x.bus][x.shift] = n]
  BY DEF Minus
<1> HIDE DEF n
<1>4. /\ Minus(l, x) \in Loads
      /\ \A b \in Buses, sh \in Shifts :
            Minus(l, x)[b][sh] = IF b = x.bus /\ sh = x.shift THEN n ELSE l[b][sh]
  BY <1>2, <1>3, SeatParts DEF Loads
<1>5. QED
  BY <1>2, <1>4, LoadIsNat

LEMMA PlusRaisesOne ==
    ASSUME NEW l \in Loads, NEW x \in Seat
    PROVE  /\ Plus(l, x) \in Loads
           /\ \A b \in Buses, sh \in Shifts :
                 Plus(l, x)[b][sh] = IF b = x.bus /\ sh = x.shift THEN l[b][sh] + 1 ELSE l[b][sh]
<1> DEFINE n == l[x.bus][x.shift] + 1
<1>1. n \in Nat
  BY SeatParts, LoadIsNat
<1>2. Plus(l, x) = [l EXCEPT ![x.bus][x.shift] = n]
  BY DEF Plus
<1> HIDE DEF n
<1>3. /\ Plus(l, x) \in Loads
      /\ \A b \in Buses, sh \in Shifts :
            Plus(l, x)[b][sh] = IF b = x.bus /\ sh = x.shift THEN n ELSE l[b][sh]
  BY <1>1, <1>2, SeatParts DEF Loads
<1>4. QED
  BY <1>3 DEF n

(* The three ways in which steps change the counters. *)
LEMMA SameLoad ==
    ASSUME TypeOK, load' = load
    PROVE  load' \in Loads /\ Within
BY LoadIsNat DEF TypeOK, Within

LEMMA LowerLoad ==
    ASSUME TypeOK, NEW x \in Seat, load' = Minus(load, x)
    PROVE  load' \in Loads /\ Within
BY MinusLowers DEF TypeOK, Within

LEMMA HigherLoad ==
    ASSUME TypeOK, NEW x \in Seat, ~ Full(load, x), load' = Plus(load, x)
    PROVE  load' \in Loads /\ Within
<1>1. load \in Loads
  BY DEF TypeOK
<1>2. load[x.bus][x.shift] + 1 <= Capacity[x.bus]
  BY <1>1, SeatParts, LoadIsNat, CapacityIsNat DEF Full
<1>3. QED
  BY <1>1, <1>2, PlusRaisesOne, LoadIsNat DEF Within

LEMMA RecountIsLoad ==
    ASSUME NEW st, NEW l \in Loads, NEW B \in SUBSET Buses
    PROVE  /\ Recount(st, l, B) \in Loads
           /\ \A b \in Buses \ B : Recount(st, l, B)[b] = l[b]
<1>1. \A x : Cardinality(Occupants(st, x)) \in Nat
  <2> SUFFICES ASSUME NEW x PROVE Cardinality(Occupants(st, x)) \in Nat
    OBVIOUS
  <2>1. Occupants(st, x) \subseteq Students
    BY DEF Occupants
  <2>2. IsFiniteSet(Occupants(st, x))
    BY <2>1, StudentsAssumption, FS_Subset
  <2>3. QED
    BY <2>2, FS_CardinalityType
<1>2. QED
  BY <1>1 DEF Recount, Loads

-----------------------------------------------------------------------------
(* Students, applications and locks.                                       *)

LEMMA ProfileOf ==
    ASSUME TypeOK, NEW u \in Students, Exists(u)
    PROVE  student[u] \in Profile /\ SeatOf(u) \in Seat
<1>1. student[u] \in Profile
  BY DEF TypeOK, Exists
<1>2. QED
  BY <1>1 DEF SeatOf, Seat, Profile

LEMMA StudentWritten ==
    ASSUME TypeOK, NEW u \in Students, NEW p \in {Absent} \cup Profile,
           student' = [student EXCEPT ![u] = p]
    PROVE  student' \in [Students -> {Absent} \cup Profile]
BY DEF TypeOK

LEMMA LockWritten ==
    ASSUME TypeOK, NEW u \in Students, NEW v \in Sessions \cup {Free},
           lock' = [lock EXCEPT ![u] = v]
    PROVE  lock' \in [Students -> Sessions \cup {Free}]
BY DEF TypeOK

LEMMA ApplicationGone ==
    ASSUME TypeOK, NEW u \in Students, app' = [app EXCEPT ![u] = NoApp]
    PROVE  app' \in [Students -> {NoApp} \cup Application]
BY DEF TypeOK

LEMMA FinalizedKeeps ==
    ASSUME TypeOK, NEW s \in Sessions, NEW u \in Students, Finalized(s, u)
    PROVE  /\ app' \in [Students -> {NoApp} \cup Application]
           /\ lock' \in [Students -> Sessions \cup {Free}]
BY ApplicationGone, LockWritten DEF Finalized, ReleaseLock, TypeOK

(* A step that reads, or turns to something else, and may take a lock. *)
LEMMA JustReads ==
    ASSUME TypeOK, req' \in [Sessions -> Request],
           lock' \in [Students -> Sessions \cup {Free}],
           UNCHANGED <<load, student, app, log, renewed>>
    PROVE  TypeOK' /\ Within
BY SameLoad DEF TypeOK

(* A step that changes one student and no counter. *)
LEMMA JustWrites ==
    ASSUME TypeOK, req' \in [Sessions -> Request],
           student' \in [Students -> {Absent} \cup Profile],
           UNCHANGED <<load, app, lock, log, renewed>>
    PROVE  TypeOK' /\ Within
BY SameLoad DEF TypeOK

(* A step that changes one counter and no student. *)
LEMMA JustCounts ==
    ASSUME TypeOK, req' \in [Sessions -> Request], load' \in Loads /\ Within,
           UNCHANGED <<student, app, lock, log, renewed>>
    PROVE  TypeOK' /\ Within
BY DEF TypeOK

-----------------------------------------------------------------------------
(* Applications.                                                           *)

LEMMA LockingKeeps ==
    ASSUME TypeOK, NEW s \in Sessions, NEW u \in Students,
           LockApplication(s, u) \/ LockForRejection(s, u)
    PROVE  TypeOK' /\ Within
<1>1. lock' \in [Students -> Sessions \cup {Free}]
  BY LockWritten DEF LockApplication, LockForRejection
<1>2. CASE LockApplication(s, u)
  <2>1. [pc |-> "approve", student |-> u, app |-> app[u]] \in Request
    BY <1>2, KindsOfRequest DEF LockApplication, Reading, TypeOK
  <2>2. QED
    BY <1>1, <1>2, <2>1, OneRequest, JustReads DEF LockApplication
<1>3. CASE LockForRejection(s, u)
  <2>1. [pc |-> "reject", student |-> u] \in Request
    BY KindsOfRequest DEF Rejecting
  <2>2. QED
    BY <1>1, <1>3, <2>1, OneRequest, JustReads DEF LockForRejection
<1>4. QED
  BY <1>2, <1>3

LEMMA ActivateKeeps ==
    ASSUME TypeOK, NEW s \in Sessions, NEW b \in Buses, Activate(s, b)
    PROVE  TypeOK' /\ Within
<1> DEFINE u == req[s].student
           x == [bus |-> b, shift |-> req[s].app.shift]
           p == [status |-> "active", bus |-> b, shift |-> x.shift, released |-> FALSE]
<1>1. req[s] \in Reading
  BY RequestsByPc DEF Activate, TypeOK
<1>2. u \in Students /\ x \in Seat /\ req[s].app.shift \in Shifts
  BY <1>1 DEF Reading, Application, Seat
<1>3. CASE ~ HoldsSeat(u, x) /\ Full(load, x)
  <2>1. lock' = [lock EXCEPT ![u] = Free] /\ Become(s, Idle)
        /\ UNCHANGED <<load, student, app, log, renewed>>
    BY <1>3 DEF Activate, ReleaseLock
  <2>2. lock' \in [Students -> Sessions \cup {Free}]
    BY <1>2, <2>1, LockWritten
  <2>3. QED
    BY <2>1, <2>2, IdleIsRequest, OneRequest, JustReads
<1>4. CASE HoldsSeat(u, x) \/ ~ Full(load, x)
  <2>1. /\ load' = IF HoldsSeat(u, x) THEN load ELSE Plus(load, x)
        /\ student' = [student EXCEPT ![u] = p]
        /\ Become(s, [pc |-> "finalize", student |-> u, seat |-> x])
        /\ UNCHANGED <<app, lock, log, renewed>>
    BY <1>4 DEF Activate
  <2>2. load' \in Loads /\ Within
    BY <1>2, <1>4, <2>1, SameLoad, HigherLoad
  <2>3. student' \in [Students -> {Absent} \cup Profile]
    <3>1. p \in Profile
      BY <1>2 DEF Profile
    <3>2. QED
      BY <1>2, <2>1, <3>1, StudentWritten
  <2>4. [pc |-> "finalize", student |-> u, seat |-> x] \in Request
    BY <1>2, KindsOfRequest DEF Finishing
  <2>5. req' \in [Sessions -> Request]
    BY <2>1, <2>4, OneRequest
  <2>6. QED
    BY <2>1, <2>2, <2>3, <2>5 DEF TypeOK
<1>5. QED
  BY <1>3, <1>4

LEMMA FinalizeKeeps ==
    ASSUME TypeOK, NEW s \in Sessions, Finalize(s) \/ FinalizeFails(s)
    PROVE  TypeOK' /\ Within
<1>1. req[s] \in Finishing /\ req[s].student \in Students
  <2>1. req[s] \in Finishing
    BY RequestsByPc DEF Finalize, FinalizeFails, TypeOK
  <2>2. QED
    BY <2>1 DEF Finishing
<1>2. CASE Finalize(s)
  <2>1. req' \in [Sessions -> Request]
    BY <1>2, IdleIsRequest, OneRequest DEF Finalize
  <2>2. /\ app' \in [Students -> {NoApp} \cup Application]
        /\ lock' \in [Students -> Sessions \cup {Free}]
    BY <1>1, <1>2, FinalizedKeeps DEF Finalize
  <2>3. QED
    BY <1>2, <2>1, <2>2, SameLoad DEF Finalize, TypeOK
<1>3. CASE FinalizeFails(s)
  <2>1. req' \in [Sessions -> Request]
    BY <1>1, <1>3, GoesOn DEF FinalizeFails
  <2>2. QED
    BY <1>3, <2>1, JustReads DEF FinalizeFails, TypeOK
<1>4. QED
  BY <1>2, <1>3

LEMMA CompensationKeeps ==
    ASSUME TypeOK, NEW s \in Sessions, MarkReleased(s) \/ ReleaseSeat(s)
    PROVE  TypeOK' /\ Within
<1> DEFINE u == req[s].student
<1>1. req[s] \in Finishing /\ u \in Students /\ req[s].seat \in Seat
  <2>1. req[s] \in Finishing
    BY RequestsByPc DEF MarkReleased, ReleaseSeat, TypeOK
  <2>2. QED
    BY <2>1 DEF Finishing
<1>2. CASE MarkReleased(s)
  <2>1. req' \in [Sessions -> Request]
    BY <1>1, <1>2, GoesOn DEF MarkReleased
  <2>2. student' \in [Students -> {Absent} \cup Profile]
    <3>1. CASE student' = student
      BY <3>1 DEF TypeOK
    <3>2. CASE Exists(u) /\ student' = [student EXCEPT ![u].released = TRUE]
      <4>1. [student[u] EXCEPT !.released = TRUE] \in Profile
        BY <1>1, <3>2, ProfileOf DEF Profile
      <4>2. student' = [student EXCEPT ![u] = [student[u] EXCEPT !.released = TRUE]]
        BY <3>2
      <4>3. QED
        BY <1>1, <4>1, <4>2, StudentWritten
    <3>3. QED
      BY <1>2, <3>1, <3>2 DEF MarkReleased
  <2>3. QED
    BY <1>2, <2>1, <2>2, JustWrites DEF MarkReleased
<1>3. CASE ReleaseSeat(s)
  <2>1. req' \in [Sessions -> Request]
    BY <1>3, IdleIsRequest, OneRequest DEF ReleaseSeat
  <2>2. load' \in Loads /\ Within
    BY <1>1, <1>3, SameLoad, LowerLoad DEF ReleaseSeat
  <2>3. lock' \in [Students -> Sessions \cup {Free}]
    BY <1>1, <1>3, LockWritten DEF ReleaseSeat, ReleaseLock
  <2>4. QED
    BY <1>3, <2>1, <2>2, <2>3 DEF ReleaseSeat, TypeOK
<1>4. QED
  BY <1>2, <1>3

-----------------------------------------------------------------------------
(* The two ways in which the row of a student who exists is edited. *)
LEMMA StatusEdited ==
    ASSUME TypeOK, NEW u \in Students, Exists(u),
           NEW status \in {"active", "soft_blocked"}, NEW released \in BOOLEAN
    PROVE  [student EXCEPT ![u].status = status, ![u].released = released]
              \in [Students -> {Absent} \cup Profile]
<1>1. [student[u] EXCEPT !.status = status, !.released = released] \in Profile
  BY ProfileOf DEF Profile
<1>2. [student EXCEPT ![u].status = status, ![u].released = released]
        = [student EXCEPT ![u] = [student[u] EXCEPT !.status = status, !.released = released]]
  OBVIOUS
<1>3. QED
  BY <1>1, <1>2 DEF TypeOK

LEMMA SeatEdited ==
    ASSUME TypeOK, NEW u \in Students, Exists(u), NEW x \in Seat
    PROVE  [student EXCEPT ![u].bus = x.bus, ![u].shift = x.shift]
              \in [Students -> {Absent} \cup Profile]
<1>1. [student[u] EXCEPT !.bus = x.bus, !.shift = x.shift] \in Profile
  BY ProfileOf, SeatParts DEF Profile
<1>2. [student EXCEPT ![u].bus = x.bus, ![u].shift = x.shift]
        = [student EXCEPT ![u] = [student[u] EXCEPT !.bus = x.bus, !.shift = x.shift]]
  OBVIOUS
<1>3. QED
  BY <1>1, <1>2 DEF TypeOK

(* Renewals by application.                                                *)

LEMMA RenewReadKeeps ==
    ASSUME TypeOK, NEW s \in Sessions, NEW b \in Buses, RenewRead(s, b)
    PROVE  TypeOK' /\ Within
<1> DEFINE u == req[s].student
           r == [pc |-> IF student[u].released THEN "renewSeat" ELSE "renewPlain",
                 student |-> u, seat |-> [bus |-> b, shift |-> student[u].shift]]
<1>1. req[s] \in Reading
  BY RequestsByPc DEF RenewRead, TypeOK
<1>2. u \in Students
  BY <1>1 DEF Reading
<1>3. student[u] \in Profile
  BY <1>2, ProfileOf DEF RenewRead
<1>4. r \in Finishing
  BY <1>2, <1>3 DEF Finishing, Seat, Profile
<1>5. r \in Request
  BY <1>4, KindsOfRequest
<1>6. Become(s, r) /\ UNCHANGED <<load, student, app, lock, log, renewed>>
  BY DEF RenewRead
<1> HIDE DEF r
<1>7. QED
  BY <1>5, <1>6, OneRequest, JustReads DEF TypeOK

LEMMA RenewSeatKeeps ==
    ASSUME TypeOK, NEW s \in Sessions, RenewSeat(s)
    PROVE  TypeOK' /\ Within
<1> DEFINE u == req[s].student
           x == req[s].seat
<1>1. u \in Students /\ x \in Seat
  <2>1. req[s] \in Finishing
    BY RequestsByPc DEF RenewSeat, TypeOK
  <2>2. QED
    BY <2>1 DEF Finishing
<1>2. req' \in [Sessions -> Request]
  BY IdleIsRequest, OneRequest DEF RenewSeat
<1>3. lock' \in [Students -> Sessions \cup {Free}]
  BY <1>1, LockWritten DEF RenewSeat, ReleaseLock
<1>4. CASE UNCHANGED <<load, student, app, renewed>>
  BY <1>2, <1>3, <1>4, JustReads DEF RenewSeat
<1>5. CASE /\ Exists(u) /\ (HoldsSeat(u, x) \/ ~ Full(load, x))
           /\ load' = IF HoldsSeat(u, x) THEN load ELSE Plus(load, x)
           /\ student' = [student EXCEPT ![u].status = "active", ![u].released = FALSE]
           /\ app' = [app EXCEPT ![u] = NoApp]
           /\ renewed' = renewed \cup {u}
  <2>1. load' \in Loads /\ Within
    BY <1>1, <1>5, SameLoad, HigherLoad
  <2>2. student' \in [Students -> {Absent} \cup Profile]
    BY <1>1, <1>5, StatusEdited
  <2>3. app' \in [Students -> {NoApp} \cup Application]
    BY <1>1, <1>5, ApplicationGone
  <2>4. renewed' \in SUBSET Students
    BY <1>1, <1>5 DEF TypeOK
  <2>5. log' = log
    BY DEF RenewSeat
  <2>6. QED
    BY <1>2, <1>3, <2>1, <2>2, <2>3, <2>4, <2>5 DEF TypeOK
<1>6. QED
  BY <1>4, <1>5 DEF RenewSeat

LEMMA RenewPlainKeeps ==
    ASSUME TypeOK, NEW s \in Sessions, RenewPlain(s)
    PROVE  TypeOK' /\ Within
<1> DEFINE u == req[s].student
<1>1. u \in Students
  <2>1. req[s] \in Finishing
    BY RequestsByPc DEF RenewPlain, TypeOK
  <2>2. QED
    BY <2>1 DEF Finishing
<1>2. req' \in [Sessions -> Request] /\ load' = load /\ log' = log
  BY IdleIsRequest, OneRequest DEF RenewPlain
<1>3. load' \in Loads /\ Within
  BY <1>2, SameLoad
<1>4. CASE /\ Exists(u)
           /\ Finalized(s, u)
           /\ student' = [student EXCEPT ![u].status = "active"]
           /\ renewed' = renewed \cup {u}
  <2>1. student' \in [Students -> {Absent} \cup Profile]
    <3>1. [student[u] EXCEPT !.status = "active"] \in Profile
      BY <1>1, <1>4, ProfileOf DEF Profile
    <3>2. student' = [student EXCEPT ![u] = [student[u] EXCEPT !.status = "active"]]
      BY <1>4
    <3>3. QED
      BY <1>1, <3>1, <3>2, StudentWritten
  <2>2. renewed' \in SUBSET Students
    BY <1>1, <1>4 DEF TypeOK
  <2>3. QED
    BY <1>1, <1>2, <1>3, <1>4, <2>1, <2>2, FinalizedKeeps DEF TypeOK
<1>5. CASE Finalized(s, u) /\ UNCHANGED <<student, renewed>>
  BY <1>1, <1>2, <1>3, <1>5, FinalizedKeeps DEF TypeOK
<1>6. CASE ReleaseLock(u) /\ UNCHANGED <<app, student, renewed>>
  <2>1. lock' \in [Students -> Sessions \cup {Free}]
    BY <1>1, <1>6, LockWritten DEF ReleaseLock
  <2>2. QED
    BY <1>2, <1>6, <2>1, JustReads
<1>7. QED
  BY <1>4, <1>5, <1>6 DEF RenewPlain

LEMMA RejectKeeps ==
    ASSUME TypeOK, NEW s \in Sessions, Reject(s)
    PROVE  TypeOK' /\ Within
<1> DEFINE u == req[s].student
<1>1. u \in Students
  <2>1. req[s] \in Rejecting
    BY RequestsByPc DEF Reject, TypeOK
  <2>2. QED
    BY <2>1 DEF Rejecting
<1>2. req' \in [Sessions -> Request] /\ UNCHANGED <<load, student, log, renewed>>
  BY IdleIsRequest, OneRequest DEF Reject
<1>3. CASE Finalized(s, u)
  BY <1>1, <1>2, <1>3, FinalizedKeeps, SameLoad DEF TypeOK
<1>4. CASE ReleaseLock(u) /\ UNCHANGED app
  <2>1. lock' \in [Students -> Sessions \cup {Free}]
    BY <1>1, <1>4, LockWritten DEF ReleaseLock
  <2>2. QED
    BY <1>2, <1>4, <2>1, JustReads
<1>5. QED
  BY <1>3, <1>4 DEF Reject

-----------------------------------------------------------------------------
(* Renewals without an application.                                        *)

LEMMA StaffReadKeeps ==
    ASSUME TypeOK, NEW s \in Sessions, NEW u \in Students,
           StaffRenewRead(s, u) \/ PaymentRead(s, u)
    PROVE  TypeOK' /\ Within
<1>1. \A pc \in {"claim", "reclaimCheck"} :
        Exists(u) =>
          [pc |-> pc, student |-> u, seat |-> SeatOf(u), claimed |-> FALSE] \in Request
  BY ProfileOf, KindsOfRequest DEF StaffRenewal
<1>2. req' \in [Sessions -> Request]
  BY <1>1, OneRequest DEF StaffRenewRead, PaymentRead
<1>3. QED
  BY <1>2, JustReads DEF StaffRenewRead, PaymentRead, TypeOK

LEMMA StaffRenewalKeeps ==
    ASSUME TypeOK, NEW s \in Sessions,
           \/ StaffRenewClaim(s) \/ StaffRenewCheck(s)
           \/ StaffRenewWrite(s) \/ StaffRenewGiveBack(s)
    PROVE  TypeOK' /\ Within
<1> DEFINE u == req[s].student
           x == req[s].seat
<1>1. req[s] \in StaffRenewal
  BY RequestsByPc
     DEF StaffRenewClaim, StaffRenewCheck, StaffRenewWrite, StaffRenewGiveBack, TypeOK
<1>2. u \in Students /\ x \in Seat /\ req[s].claimed \in BOOLEAN
  BY <1>1 DEF StaffRenewal
<1>3. Become(s, Idle) => req' \in [Sessions -> Request]
  BY IdleIsRequest, OneRequest
<1>4. CASE StaffRenewClaim(s)
  <2>1. CASE Become(s, Idle) /\ UNCHANGED load
    BY <1>3, <1>4, <2>1, JustReads DEF StaffRenewClaim, TypeOK
  <2>2. CASE /\ ~ Full(load, x)
             /\ load' = Plus(load, x)
             /\ Become(s, [req[s] EXCEPT !.pc = "reclaimCheck", !.claimed = TRUE])
    <3>1. [req[s] EXCEPT !.pc = "reclaimCheck", !.claimed = TRUE] \in StaffRenewal
      BY <1>1 DEF StaffRenewal
    <3>2. [req[s] EXCEPT !.pc = "reclaimCheck", !.claimed = TRUE] \in Request
      BY <3>1, KindsOfRequest
    <3>3. req' \in [Sessions -> Request]
      BY <2>2, <3>2, OneRequest
    <3>4. load' \in Loads /\ Within
      BY <1>2, <2>2, HigherLoad
    <3>5. QED
      BY <1>4, <3>3, <3>4, JustCounts DEF StaffRenewClaim
  <2>3. QED
    BY <1>4, <2>1, <2>2 DEF StaffRenewClaim
<1>5. CASE StaffRenewCheck(s)
  <2>1. Goto(s, "reclaimWrite") \/ Goto(s, "giveBack") => req' \in [Sessions -> Request]
    BY <1>1, GoesOn
  <2>2. QED
    BY <1>3, <1>5, <2>1, JustReads DEF StaffRenewCheck, TypeOK
<1>6. CASE StaffRenewWrite(s)
  <2>1. student' \in [Students -> {Absent} \cup Profile]
    <3>1. CASE ~ Exists(u)
      BY <1>6, <3>1 DEF StaffRenewWrite, TypeOK
    <3>2. CASE Exists(u)
      <4> DEFINE p == [student[u] EXCEPT !.status = "active",
                                         !.released = @ /\ ~ req[s].claimed]
      <4>1. student[u].released \in BOOLEAN
        BY <1>2, <3>2, ProfileOf DEF Profile
      <4>2. p \in Profile
        BY <1>2, <3>2, <4>1, ProfileOf DEF Profile
      <4>3. student' = [student EXCEPT ![u] = p]
        BY <1>6, <3>2 DEF StaffRenewWrite
      <4> HIDE DEF p
      <4>4. QED
        BY <1>2, <4>2, <4>3, StudentWritten
    <3>3. QED
      BY <3>1, <3>2
  <2>2. QED
    BY <1>3, <1>6, <2>1, JustWrites DEF StaffRenewWrite
<1>7. CASE StaffRenewGiveBack(s)
  BY <1>2, <1>3, <1>7, LowerLoad, JustCounts DEF StaffRenewGiveBack
<1>8. QED
  BY <1>4, <1>5, <1>6, <1>7

-----------------------------------------------------------------------------
(* Students created and removed by an administrator.                       *)

LEMMA CreateReadKeeps ==
    ASSUME TypeOK, NEW s \in Sessions, NEW u \in Students, NEW x \in Seat, CreateRead(s, u, x)
    PROVE  TypeOK' /\ Within
<1>1. [pc |-> "createStudent", student |-> u, seat |-> x, new |-> ~ Exists(u)] \in Request
  BY KindsOfRequest DEF Creation, Exists
<1>2. req' \in [Sessions -> Request]
  BY <1>1, OneRequest DEF CreateRead
<1>3. QED
  BY <1>2, JustReads DEF CreateRead, TypeOK

LEMMA CreateStudentKeeps ==
    ASSUME TypeOK, NEW s \in Sessions, CreateStudent(s)
    PROVE  TypeOK' /\ Within
<1> DEFINE u == req[s].student
           x == req[s].seat
           p == [status |-> "active", bus |-> x.bus, shift |-> x.shift,
                 released |-> Exists(u) /\ student[u].released]
<1>1. req[s] \in Creation
  BY RequestsByPc DEF CreateStudent, TypeOK
<1>2. u \in Students /\ x \in Seat
  BY <1>1 DEF Creation
<1>3. req' \in [Sessions -> Request]
  BY <1>1, IdleIsRequest, OneRequest, GoesOn DEF CreateStudent
<1>4. p \in Profile
  <2>1. (Exists(u) /\ student[u].released) \in BOOLEAN
    OBVIOUS
  <2>2. QED
    BY <1>2, <2>1, SeatParts DEF Profile
<1>5. student' \in [Students -> {Absent} \cup Profile]
  <2>1. student' = [student EXCEPT ![u] = p]
    BY DEF CreateStudent
  <2> HIDE DEF p
  <2>2. QED
    BY <1>2, <1>4, <2>1, StudentWritten
<1>6. QED
  BY <1>3, <1>5, JustWrites DEF CreateStudent

(* The one operation that does not compare before it counts. *)
LEMMA CreateSeatKeeps ==
    ASSUME TypeOK, NEW s \in Sessions, CreateSeat(s)
    PROVE  TypeOK'
<1>1. req[s] \in Creation
  BY RequestsByPc DEF CreateSeat, TypeOK
<1>2. load' \in Loads
  BY <1>1, PlusRaisesOne DEF CreateSeat, Creation, TypeOK
<1>3. req' \in [Sessions -> Request]
  BY IdleIsRequest, OneRequest DEF CreateSeat
<1>4. QED
  BY <1>2, <1>3 DEF CreateSeat, TypeOK

LEMMA RemoveReadKeeps ==
    ASSUME TypeOK, NEW s \in Sessions, NEW u \in Students, RemoveRead(s, u)
    PROVE  TypeOK' /\ Within
<1>1. student[u].released \in BOOLEAN /\ SeatOf(u) \in Seat
  BY ProfileOf DEF RemoveRead, Profile
<1>2. [pc |-> "removeSeat", student |-> u, seat |-> SeatOf(u),
       held |-> ~ student[u].released] \in Request
  BY <1>1, KindsOfRequest DEF Removal
<1>3. req' \in [Sessions -> Request]
  BY <1>2, OneRequest DEF RemoveRead
<1>4. QED
  BY <1>3, JustReads DEF RemoveRead, TypeOK

LEMMA RemovalKeeps ==
    ASSUME TypeOK, NEW s \in Sessions, RemoveSeat(s) \/ RemoveStudent(s)
    PROVE  TypeOK' /\ Within
<1>1. req[s] \in Removal
  BY RequestsByPc DEF RemoveSeat, RemoveStudent, TypeOK
<1>2. req[s].student \in Students /\ req[s].seat \in Seat
  BY <1>1 DEF Removal
<1>3. CASE RemoveSeat(s)
  <2>1. req' \in [Sessions -> Request]
    BY <1>1, <1>3, GoesOn DEF RemoveSeat
  <2>2. load' \in Loads /\ Within
    BY <1>2, <1>3, SameLoad, LowerLoad DEF RemoveSeat
  <2>3. QED
    BY <1>3, <2>1, <2>2, JustCounts DEF RemoveSeat
<1>4. CASE RemoveStudent(s)
  <2>1. req' \in [Sessions -> Request]
    BY <1>4, IdleIsRequest, OneRequest DEF RemoveStudent
  <2>2. student' \in [Students -> {Absent} \cup Profile]
    BY <1>2, <1>4, StudentWritten DEF RemoveStudent
  <2>3. QED
    BY <1>4, <2>1, <2>2, JustWrites DEF RemoveStudent
<1>5. QED
  BY <1>3, <1>4

-----------------------------------------------------------------------------
(* Blocking and deletion.                                                  *)

LEMMA SoftBlockReadKeeps ==
    ASSUME TypeOK, NEW s \in Sessions, NEW u \in Students, SoftBlockRead(s, u)
    PROVE  TypeOK' /\ Within
<1>1. [pc |-> "softBlock", student |-> u, seat |-> SeatOf(u)] \in Request
  BY ProfileOf, KindsOfRequest DEF SoftBlockRead, Blocking
<1>2. req' \in [Sessions -> Request]
  BY <1>1, OneRequest DEF SoftBlockRead
<1>3. QED
  BY <1>2, JustReads DEF SoftBlockRead, TypeOK

LEMMA SoftBlockKeeps ==
    ASSUME TypeOK, NEW s \in Sessions, NEW release \in BOOLEAN, SoftBlock(s, release)
    PROVE  TypeOK' /\ Within
<1> DEFINE u == req[s].student
           p == [student[u] EXCEPT !.status = "soft_blocked", !.released = @ \/ release]
<1>1. u \in Students /\ req[s].seat \in Seat
  <2>1. req[s] \in Blocking
    BY RequestsByPc DEF SoftBlock, TypeOK
  <2>2. QED
    BY <2>1 DEF Blocking
<1>2. req' \in [Sessions -> Request]
  BY IdleIsRequest, OneRequest DEF SoftBlock
<1>3. load' \in Loads /\ Within
  BY <1>1, SameLoad, LowerLoad DEF SoftBlock
<1>4. student' \in [Students -> {Absent} \cup Profile]
  <2>1. CASE UNCHANGED student
    BY <2>1 DEF TypeOK
  <2>2. CASE Exists(u) /\ student' = [student EXCEPT ![u].status = "soft_blocked",
                                                     ![u].released = @ \/ release]
    <3>1. student[u].released \in BOOLEAN
      BY <1>1, <2>2, ProfileOf DEF Profile
    <3>2. p \in Profile
      BY <1>1, <2>2, <3>1, ProfileOf DEF Profile
    <3>3. student' = [student EXCEPT ![u] = p]
      BY <2>2
    <3> HIDE DEF p
    <3>4. QED
      BY <1>1, <3>2, <3>3, StudentWritten
  <2>3. QED
    BY <2>1, <2>2 DEF SoftBlock
<1>5. QED
  BY <1>2, <1>3, <1>4 DEF SoftBlock, TypeOK

LEMMA RefundKeeps ==
    ASSUME TypeOK, NEW u \in Students, RefundStudent(u)
    PROVE  TypeOK' /\ Within
<1>1. SeatOf(u) \in Seat
  BY ProfileOf DEF RefundStudent
<1>2. load' \in Loads /\ Within
  BY <1>1, SameLoad, LowerLoad DEF RefundStudent
<1>3. student' \in [Students -> {Absent} \cup Profile]
  BY StatusEdited DEF RefundStudent
<1>4. QED
  BY <1>2, <1>3 DEF RefundStudent, TypeOK

LEMMA DeleteKeeps ==
    ASSUME TypeOK, NEW u \in Students, DeleteStudent(u)
    PROVE  TypeOK' /\ Within
<1>1. SeatOf(u) \in Seat
  BY ProfileOf DEF DeleteStudent
<1>2. load' \in Loads /\ Within
  BY <1>1, SameLoad, LowerLoad DEF DeleteStudent
<1>3. student' \in [Students -> {Absent} \cup Profile]
  BY StudentWritten DEF DeleteStudent
<1>4. app' \in [Students -> {NoApp} \cup Application]
  BY ApplicationGone DEF DeleteStudent
<1>5. lock' \in [Students -> Sessions \cup {Free}]
  BY LockWritten DEF DeleteStudent, ReleaseLock
<1>6. QED
  BY <1>2, <1>3, <1>4, <1>5 DEF DeleteStudent, TypeOK

LEMMA SubmitKeeps ==
    ASSUME TypeOK, NEW u \in Students, NEW x \in Seat, Submit(u, x)
    PROVE  TypeOK' /\ Within
<1> DEFINE a == [type |-> IF Exists(u) THEN "renewal" ELSE "fresh",
                 bus |-> x.bus, shift |-> x.shift]
<1>1. a \in Application
  BY SeatParts DEF Application
<1>2. app' = [app EXCEPT ![u] = a]
  BY DEF Submit
<1> HIDE DEF a
<1>3. app' \in [Students -> {NoApp} \cup Application]
  BY <1>1, <1>2 DEF TypeOK
<1>4. QED
  BY <1>3, SameLoad DEF Submit, TypeOK

LEMMA LeaseKeeps ==
    ASSUME TypeOK, NEW u \in Students, LeaseExpires(u)
    PROVE  TypeOK' /\ Within
<1>1. lock' \in [Students -> Sessions \cup {Free}]
  BY LockWritten DEF LeaseExpires
<1>2. QED
  BY <1>1, JustReads DEF LeaseExpires, TypeOK

-----------------------------------------------------------------------------
(* Reassignment, rollback and reconciliation: what is counted afresh is    *)
(* compared with the capacity before it is written, but by the             *)
(* reconciliation.                                                         *)

LEMMA RecountWithin ==
    ASSUME TypeOK, NEW st, NEW l \in Loads, NEW B \in SUBSET Buses,
           \A b \in Buses, sh \in Shifts : l[b][sh] <= load[b][sh],
           Fits(Recount(st, l, B), B),
           load' = Recount(st, l, B)
    PROVE  load' \in Loads /\ Within
<1>1. load' \in Loads /\ \A b \in Buses \ B : load'[b] = l[b]
  BY RecountIsLoad
<1>2. \A b \in B, sh \in Shifts : load'[b][sh] <= Capacity[b]
  BY DEF Fits
<1>3. QED
  BY <1>1, <1>2 DEF Within

LEMMA ReassignReadKeeps ==
    ASSUME TypeOK, NEW s \in Sessions, NEW u \in Students, NEW x \in Seat,
           ReassignRead(s, u, x)
    PROVE  TypeOK' /\ Within
<1>1. [pc |-> "reassign", student |-> u, from |-> SeatOf(u), to |-> x] \in Request
  BY ProfileOf, KindsOfRequest DEF ReassignRead, Reassignment
<1>2. req' \in [Sessions -> Request]
  BY <1>1, OneRequest DEF ReassignRead
<1>3. QED
  BY <1>2, JustReads DEF ReassignRead, TypeOK

LEMMA ReassignKeeps ==
    ASSUME TypeOK, NEW s \in Sessions, Reassign(s)
    PROVE  TypeOK' /\ Within
<1> DEFINE u == req[s].student
           x == req[s].to
           out == IF Exists(u)
                  THEN Minus(load, [bus |-> req[s].from.bus, shift |-> student[u].shift])
                  ELSE load
           moved == IF Exists(u)
                    THEN [student EXCEPT ![u].bus = x.bus, ![u].shift = x.shift]
                    ELSE student
           affected == {x.bus} \cup (IF Exists(u) THEN {student[u].bus} ELSE {})
           counted == Recount(moved, out, affected)
<1>1. req[s] \in Reassignment
  BY RequestsByPc DEF Reassign, TypeOK
<1>2. u \in Students /\ x \in Seat /\ req[s].from.bus \in Buses
  BY <1>1 DEF Reassignment, Seat
<1>3. CASE Become(s, Idle) /\ UNCHANGED <<load, student>>
  <2>1. req' \in [Sessions -> Request]
    BY <1>3, IdleIsRequest, OneRequest
  <2>2. QED
    BY <1>3, <2>1, JustReads DEF Reassign, TypeOK
<1>4. CASE /\ Fits(counted, affected)
           /\ load' = counted
           /\ student' = moved
           /\ Goto(s, "writeLog")
  <2>1. req' \in [Sessions -> Request]
    BY <1>1, <1>4, GoesOn
  <2>2. student' \in [Students -> {Absent} \cup Profile]
    BY <1>2, <1>4, SeatEdited DEF TypeOK
  <2>3. out \in Loads /\ \A b \in Buses, sh \in Shifts : out[b][sh] <= load[b][sh]
    <3>1. CASE Exists(u)
      <4>1. [bus |-> req[s].from.bus, shift |-> student[u].shift] \in Seat
        BY <1>2, <3>1, ProfileOf DEF Profile, Seat
      <4>2. load \in Loads
        BY DEF TypeOK
      <4>3. QED
        BY <3>1, <4>1, <4>2, MinusLowers
    <3>2. CASE ~ Exists(u)
      BY <3>2, LoadIsNat DEF TypeOK
    <3>3. QED
      BY <3>1, <3>2
  <2>4. affected \in SUBSET Buses
    BY <1>2, SeatParts, ProfileOf DEF Profile
  <2>5. load' \in Loads /\ Within
    <3> HIDE DEF out, moved, affected
    <3>1. QED
      BY <1>4, <2>3, <2>4, RecountWithin
  <2>6. QED
    BY <2>1, <2>2, <2>5 DEF Reassign, TypeOK
<1>5. QED
  BY <1>3, <1>4 DEF Reassign

LEMMA WriteLogKeeps ==
    ASSUME TypeOK, NEW s \in Sessions, NEW o \in Ops, WriteLog(s, o)
    PROVE  TypeOK' /\ Within
<1> DEFINE e == [status |-> "committed", student |-> req[s].student,
                 before |-> req[s].from, after |-> req[s].to]
<1>1. req[s] \in Reassignment
  BY RequestsByPc DEF WriteLog, TypeOK
<1>2. e \in LogEntry
  BY <1>1 DEF Reassignment, LogEntry
<1>3. log' = [log EXCEPT ![o] = e]
  BY DEF WriteLog
<1> HIDE DEF e
<1>4. log' \in [Ops -> {NoLog} \cup LogEntry]
  BY <1>2, <1>3 DEF TypeOK
<1>5. req' \in [Sessions -> Request]
  BY IdleIsRequest, OneRequest DEF WriteLog
<1>6. QED
  BY <1>4, <1>5, SameLoad DEF WriteLog, TypeOK

LEMMA RollbackKeeps ==
    ASSUME TypeOK, NEW o \in Ops, Rollback(o)
    PROVE  TypeOK' /\ Within
<1> DEFINE e == log[o]
           back == [student EXCEPT ![e.student].bus = e.before.bus,
                                   ![e.student].shift = e.before.shift]
           affected == {e.before.bus, e.after.bus}
<1>1. e \in LogEntry
  BY DEF Rollback, NoLog, TypeOK
<1>2. e.student \in Students /\ e.before \in Seat /\ e.after \in Seat
  BY <1>1 DEF LogEntry
<1>3. student' \in [Students -> {Absent} \cup Profile]
  BY <1>2, SeatEdited DEF Rollback
<1>4. affected \in SUBSET Buses
  BY <1>2, SeatParts
<1>5. load' \in Loads /\ Within
  <2>1. Fits(Recount(back, load, affected), affected) /\ load' = Recount(back, load, affected)
    BY DEF Rollback
  <2>2. load \in Loads /\ \A b \in Buses, sh \in Shifts : load[b][sh] <= load[b][sh]
    BY LoadIsNat DEF TypeOK
  <2> HIDE DEF back, affected
  <2>3. QED
    BY <1>4, <2>1, <2>2, RecountWithin
<1>6. log' \in [Ops -> {NoLog} \cup LogEntry]
  <2>1. [e EXCEPT !.status = "rolled_back"] \in LogEntry
    BY <1>1 DEF LogEntry
  <2>2. log' = [log EXCEPT ![o] = [e EXCEPT !.status = "rolled_back"]]
    BY DEF Rollback
  <2>3. QED
    BY <2>1, <2>2 DEF TypeOK
<1>7. QED
  BY <1>3, <1>5, <1>6 DEF Rollback, TypeOK

LEMMA ReconcileReadKeeps ==
    ASSUME TypeOK, NEW s \in Sessions, ReconcileRead(s)
    PROVE  TypeOK' /\ Within
<1> DEFINE counts == Recount(student, load, Buses)
           r == [pc |-> "reconcile", counts |-> counts,
                 todo |-> {b \in Buses : counts[b] # load[b]}]
<1>1. counts \in Loads
  BY RecountIsLoad DEF TypeOK
<1>2. Become(s, r)
  BY DEF ReconcileRead
<1> HIDE DEF counts
<1>3. r \in Counting
  BY <1>1 DEF Counting
<1>4. r \in Request
  BY <1>3, KindsOfRequest
<1> HIDE DEF r
<1>5. QED
  BY <1>2, <1>4, OneRequest, JustReads DEF ReconcileRead, TypeOK

(* The other operation that does not compare. *)
LEMMA ReconcileBusKeeps ==
    ASSUME TypeOK, NEW s \in Sessions, NEW b \in Buses, ReconcileBus(s, b)
    PROVE  TypeOK' /\ WithinOrOverfilled
<1>1. req[s] \in Counting
  BY RequestsByPc DEF ReconcileBus, TypeOK
<1>2. load' \in Loads
  BY <1>1 DEF ReconcileBus, Counting, Loads, TypeOK
<1>3. [req[s] EXCEPT !.todo = @ \ {b}] \in Request
  <2>1. req[s].todo \ {b} \in SUBSET Buses
    BY <1>1 DEF Counting
  <2>2. [req[s] EXCEPT !.todo = req[s].todo \ {b}] \in Counting
    BY <1>1, <2>1 DEF Counting
  <2>3. QED
    BY <2>2, KindsOfRequest
<1>4. req' \in [Sessions -> Request]
  BY <1>3, IdleIsRequest, OneRequest DEF ReconcileBus
<1>5. WithinOrOverfilled
  <2>1. \A c \in Buses \ {b} : load'[c] = load[c]
    BY DEF ReconcileBus, TypeOK, Loads
  <2>2. \A c \in Buses, sh \in Shifts : c # b => ~ (load'[c][sh] > load[c][sh])
    BY <2>1, LoadIsNat DEF TypeOK
  <2>3. QED
    BY <2>2 DEF WithinOrOverfilled
<1>6. QED
  BY <1>2, <1>4, <1>5 DEF ReconcileBus, TypeOK

LEMMA CrashKeeps ==
    ASSUME TypeOK, NEW s \in Sessions, Crash(s)
    PROVE  TypeOK' /\ Within
<1>1. req' \in [Sessions -> Request]
  BY IdleIsRequest, OneRequest DEF Crash
<1>2. QED
  BY <1>1, JustReads DEF Crash, TypeOK

-----------------------------------------------------------------------------
(* Staff move a student.                                                   *)

LEMMA MoveReadKeeps ==
    ASSUME TypeOK, NEW s \in Sessions, NEW u \in Students, NEW x \in Seat,
           NEW admin \in BOOLEAN, MoveRead(s, u, x, admin)
    PROVE  TypeOK' /\ Within
<1> DEFINE held == ~ student[u].released /\ (admin \/ student[u].status = "active")
           taken == held \/ student[u].bus # x.bus
           r == [pc |-> "moveOut", student |-> u, from |-> SeatOf(u), to |-> x,
                 out |-> held, in |-> taken, admin |-> admin]
<1>1. held \in BOOLEAN /\ taken \in BOOLEAN
  OBVIOUS
<1>2. SeatOf(u) \in Seat
  BY ProfileOf DEF MoveRead
<1>3. Become(s, r)
  BY DEF MoveRead
<1> HIDE DEF held, taken
<1>4. r \in Move
  BY <1>1, <1>2 DEF Move
<1>5. r \in Request
  BY <1>4, KindsOfRequest
<1> HIDE DEF r
<1>6. QED
  BY <1>3, <1>5, OneRequest, JustReads DEF MoveRead, TypeOK

LEMMA MoveCountersKeep ==
    ASSUME TypeOK, NEW s \in Sessions, MoveOut(s) \/ MoveIn(s) \/ UndoIn(s) \/ UndoOut(s)
    PROVE  TypeOK' /\ Within
<1>1. req[s] \in Move
  BY RequestsByPc DEF MoveOut, MoveIn, UndoIn, UndoOut, TypeOK
<1>2. req[s].from \in Seat /\ req[s].to \in Seat
  BY <1>1 DEF Move
<1>3. \A pc \in {"moveIn", "moveWrite", "undoOut"} :
        Goto(s, pc) => req' \in [Sessions -> Request]
  BY <1>1, GoesOn
<1>4. Become(s, Idle) => req' \in [Sessions -> Request]
  BY IdleIsRequest, OneRequest
<1>5. CASE MoveOut(s)
  BY <1>2, <1>3, <1>5, SameLoad, LowerLoad, JustCounts DEF MoveOut
<1>6. CASE MoveIn(s)
  <2>1. load' \in Loads /\ Within
    BY <1>2, <1>6, SameLoad, HigherLoad DEF MoveIn
  <2>2. req' \in [Sessions -> Request]
    BY <1>3, <1>4, <1>6 DEF MoveIn
  <2>3. QED
    BY <1>6, <2>1, <2>2, JustCounts DEF MoveIn
<1>7. CASE UndoIn(s)
  BY <1>2, <1>3, <1>7, SameLoad, LowerLoad, JustCounts DEF UndoIn
<1>8. CASE UndoOut(s)
  BY <1>2, <1>4, <1>8, SameLoad, HigherLoad, JustCounts DEF UndoOut
<1>9. QED
  BY <1>5, <1>6, <1>7, <1>8

LEMMA MoveWriteKeeps ==
    ASSUME TypeOK, NEW s \in Sessions, MoveWrite(s) \/ MoveWriteFails(s)
    PROVE  TypeOK' /\ Within
<1>1. req[s] \in Move
  BY RequestsByPc DEF MoveWrite, MoveWriteFails, TypeOK
<1>2. req[s].student \in Students /\ req[s].to \in Seat
  BY <1>1 DEF Move
<1>3. CASE MoveWrite(s)
  <2>1. req' \in [Sessions -> Request]
    BY <1>3, IdleIsRequest, OneRequest DEF MoveWrite
  <2>2. student' \in [Students -> {Absent} \cup Profile]
    BY <1>2, <1>3, SeatEdited DEF MoveWrite, TypeOK
  <2>3. QED
    BY <1>3, <2>1, <2>2, JustWrites DEF MoveWrite
<1>4. CASE MoveWriteFails(s)
  <2>1. req' \in [Sessions -> Request]
    BY <1>1, <1>4, GoesOn DEF MoveWriteFails
  <2>2. QED
    BY <1>4, <2>1, JustReads DEF MoveWriteFails, TypeOK
<1>5. QED
  BY <1>3, <1>4

-----------------------------------------------------------------------------
(* Every step.                                                             *)

LEMMA InitTyped == Init => TypeOK
<1> SUFFICES ASSUME Init PROVE TypeOK
  OBVIOUS
<1>1. load \in Loads
  BY DEF Init, Loads
<1>2. req \in [Sessions -> Request]
  BY IdleIsRequest DEF Init
<1>3. QED
  BY <1>1, <1>2 DEF Init, TypeOK

LEMMA WithinIsAllowed ==
    ASSUME TypeOK, TypeOK', Within
    PROVE  WithinOrOverfilled
<1>1. load \in Loads /\ load' \in Loads
  BY DEF TypeOK
<1>2. \A b \in Buses, sh \in Shifts : load[b][sh] \in Nat /\ load'[b][sh] \in Nat
  BY <1>1, LoadIsNat
<1>3. QED
  BY <1>2, CapacityIsNat DEF Within, WithinOrOverfilled

(* What each step keeps, and what it may do to the counters. *)
LEMMA StepsKeep ==
    ASSUME TypeOK, Next
    PROVE  TypeOK' /\ WithinOrOverfilled
<1>1. ASSUME NEW u \in Students, StudentStep(u)
      PROVE  TypeOK' /\ Within
  BY <1>1, SubmitKeeps, LeaseKeeps, RefundKeeps, DeleteKeeps DEF StudentStep
<1>2. ASSUME NEW o \in Ops, Rollback(o)
      PROVE  TypeOK' /\ Within
  BY <1>2, RollbackKeeps
<1>3. ASSUME NEW s \in Sessions, ApproveStep(s)
      PROVE  TypeOK' /\ Within
  BY <1>3, LockingKeeps, ActivateKeeps, FinalizeKeeps, CompensationKeeps, RenewReadKeeps,
     RenewSeatKeeps, RenewPlainKeeps, RejectKeeps DEF ApproveStep
<1>4. ASSUME NEW s \in Sessions, StaffRenewStep(s)
      PROVE  TypeOK' /\ Within
  BY <1>4, StaffReadKeeps, StaffRenewalKeeps DEF StaffRenewStep
<1>5. ASSUME NEW s \in Sessions, MoveStep(s)
      PROVE  TypeOK' /\ Within
  BY <1>5, MoveReadKeeps, MoveCountersKeep, MoveWriteKeeps DEF MoveStep
<1>6. ASSUME NEW s \in Sessions, AdminStep(s)
      PROVE  TypeOK' /\ (Within \/ CreateSeat(s))
  BY <1>6, CreateReadKeeps, CreateStudentKeeps, CreateSeatKeeps, RemoveReadKeeps,
     RemovalKeeps DEF AdminStep
<1>7. ASSUME NEW s \in Sessions, OtherStep(s)
      PROVE  TypeOK' /\ (Within \/ WithinOrOverfilled)
  BY <1>7, SoftBlockReadKeeps, SoftBlockKeeps, ReassignReadKeeps, ReassignKeeps,
     WriteLogKeeps, ReconcileReadKeeps, ReconcileBusKeeps, CrashKeeps DEF OtherStep
<1>8. \A s \in Sessions : CreateSeat(s) => WithinOrOverfilled
  BY DEF WithinOrOverfilled
<1>9. TypeOK' /\ (Within \/ WithinOrOverfilled)
  BY <1>1, <1>2, <1>3, <1>4, <1>5, <1>6, <1>7, <1>8 DEF Next
<1>10. QED
  BY <1>9, WithinIsAllowed

LEMMA StuttersKeep ==
    ASSUME TypeOK, UNCHANGED vars
    PROVE  TypeOK'
BY DEF TypeOK, vars

(* The counters are natural numbers, and every student, application, lock, *)
(* log entry and request is one of its kind: what requests read, a seat    *)
(* above all, is a seat of a bus there is, however stale.                  *)
THEOREM SeatsTyped == Spec => []TypeOK
<1>1. TypeOK /\ [Next]_vars => TypeOK'
  BY StepsKeep, StuttersKeep
<1>2. QED
  BY <1>1, InitTyped, PTL DEF Spec

(* INV-CAP-002 for the counters (see NoOverbooking): with any number of    *)
(* requests that have read anything at any time, only the reconciliation   *)
(* and an administrator's creation of a student raise a counter above the  *)
(* capacity of its bus.                                                    *)
THEOREM NothingOverbooks == Spec => NoOverbooking
<1>1. TypeOK /\ [Next]_vars => [WithinOrOverfilled]_vars
  BY StepsKeep
<1>2. QED
  BY <1>1, SeatsTyped, PTL DEF Spec, NoOverbooking, WithinOrOverfilled

-----------------------------------------------------------------------------

(***************************************************************************)
(* In the calm behaviours the counters never say less than the students    *)
(* who sit in the bus, for any number of students, buses and shifts: by    *)
(* what each operation does to a counter and to the set of students it     *)
(* counts.  The approver puts no other bus in place of the student's; with *)
(* one, a renewal counts the seat on a bus the student does not ride.      *)
(***************************************************************************)

(* A student's row takes one of the seats x. *)
Sits(p, x) == p # Absent /\ p.bus = x.bus /\ p.shift = x.shift /\ ~ p.released

Count(st, x) == Cardinality(Occupants(st, x))

CountersFit == \A b \in Buses, sh \in Shifts : load[b][sh] <= Capacity[b]

(* Whoever gave back the seat is blocked, so blocking gives no seat back twice. *)
ReleasedIsBlocked ==
  \A u \in Students : Exists(u) /\ student[u].released => student[u].status = "soft_blocked"

StaffPcs == {"claim", "reclaimCheck", "reclaimWrite", "giveBack"}

(* What a request has read still holds: nothing else runs meanwhile. *)
UpToDate(s) ==
  LET r == req[s]
      u == r.student
  IN  /\ r.pc \notin {"markReleased", "releaseSeat"}
      /\ r.pc \in {"softBlock", "renewSeat", "renewPlain"} \cup StaffPcs
           => Exists(u) /\ r.seat = SeatOf(u)
      /\ r.pc = "reassign" => Exists(u) /\ r.from = SeatOf(u)
      /\ r.pc = "renewSeat" => student[u].released
      /\ r.pc = "renewPlain" => ~ student[u].released
      /\ r.pc = "claim" => student[u].released /\ ~ r.claimed
      /\ r.pc = "reclaimCheck" => (r.claimed <=> student[u].released)
      /\ r.pc = "reclaimWrite" => ~ student[u].released /\ ~ r.claimed
      /\ r.pc = "giveBack" => r.claimed
      /\ r.pc \in StaffPcs /\ r.claimed
           => Count(student, r.seat) < load[r.seat.bus][r.seat.shift]
      /\ r.pc = "reconcile"
           => \A x \in Seat : r.counts[x.bus][x.shift] = Count(student, x)

(* What holds of counters and students, whatever the requests. *)
Balanced == NeverUndercounted /\ CountersFit /\ ReleasedIsBlocked

CalmInv == TypeOK /\ Balanced /\ \A s \in Sessions : UpToDate(s)

-----------------------------------------------------------------------------
(* Counting.                                                               *)

LEMMA Counted ==
    ASSUME NEW st, NEW x
    PROVE  /\ Occupants(st, x) = {u \in Students : Sits(st[u], x)}
           /\ IsFiniteSet(Occupants(st, x))
           /\ Count(st, x) \in Nat
<1>1. Occupants(st, x) = {u \in Students : Sits(st[u], x)}
  BY DEF Occupants, Sits
<1>2. Occupants(st, x) \in SUBSET Students
  BY <1>1
<1>3. IsFiniteSet(Occupants(st, x))
  BY <1>2, StudentsAssumption, FS_Subset
<1>4. QED
  BY <1>1, <1>3, FS_CardinalityType DEF Count

(* One student's row changes: the count changes by that student at most. *)
LEMMA OneMoves ==
    ASSUME TypeOK, NEW u \in Students, NEW p, NEW x
    PROVE  LET st == [student EXCEPT ![u] = p]
           IN  Count(st, x) = IF Sits(p, x) /\ ~ Sits(student[u], x) THEN Count(student, x) + 1
                              ELSE IF ~ Sits(p, x) /\ Sits(student[u], x) THEN Count(student, x) - 1
                              ELSE Count(student, x)
<1> DEFINE st == [student EXCEPT ![u] = p]
           S == Occupants(student, x)
<1>1. S = {v \in Students : Sits(student[v], x)} /\ IsFiniteSet(S) /\ Cardinality(S) \in Nat
  BY Counted DEF Count
<1>2. \A v \in Students : st[v] = IF v = u THEN p ELSE student[v]
  BY DEF TypeOK
<1>3. Occupants(st, x) = {v \in Students : Sits(st[v], x)}
  BY Counted
<1> HIDE DEF st
<1>4. CASE Sits(p, x)
  <2>1. Occupants(st, x) = S \cup {u}
    BY <1>1, <1>2, <1>3, <1>4
  <2>2. u \in S <=> Sits(student[u], x)
    BY <1>1
  <2> HIDE DEF S
  <2>3. Cardinality(S \cup {u}) = IF u \in S THEN Cardinality(S) ELSE Cardinality(S) + 1
    BY <1>1, FS_AddElement
  <2>4. QED
    BY <1>4, <2>1, <2>2, <2>3 DEF Count, S, st
<1>5. CASE ~ Sits(p, x)
  <2>1. Occupants(st, x) = S \ {u}
    BY <1>1, <1>2, <1>3, <1>5
  <2>2. u \in S <=> Sits(student[u], x)
    BY <1>1
  <2> HIDE DEF S
  <2>3. Cardinality(S \ {u}) = IF u \in S THEN Cardinality(S) - 1 ELSE Cardinality(S)
    BY <1>1, FS_RemoveElement
  <2>4. QED
    BY <1>5, <2>1, <2>2, <2>3 DEF Count, S, st
<1>6. QED
  BY <1>4, <1>5

LEMMA SameSeat ==
    ASSUME NEW x \in Seat, NEW y \in Seat
    PROVE  y = x <=> y.bus = x.bus /\ y.shift = x.shift
<1>1. x = [bus |-> x.bus, shift |-> x.shift] /\ y = [bus |-> y.bus, shift |-> y.shift]
  BY DEF Seat
<1>2. QED
  BY <1>1

(* A student sits in one seat. *)
LEMMA SitsThere ==
    ASSUME NEW p \in Profile, NEW x \in Seat
    PROVE  Sits(p, x) <=> x = [bus |-> p.bus, shift |-> p.shift] /\ ~ p.released
<1>1. p # Absent
  BY DEF Profile, Absent
<1>2. x = [bus |-> p.bus, shift |-> p.shift] <=> x.bus = p.bus /\ x.shift = p.shift
  <2>1. [bus |-> p.bus, shift |-> p.shift] \in Seat
    BY DEF Profile, Seat
  <2>2. QED
    BY <2>1, SameSeat
<1>3. QED
  BY <1>1, <1>2 DEF Sits

LEMMA SitsWhereSeated ==
    ASSUME TypeOK, NEW u \in Students, Exists(u), NEW x \in Seat
    PROVE  Sits(student[u], x) <=> x = SeatOf(u) /\ ~ student[u].released
<1>1. student[u] \in Profile
  BY ProfileOf
<1>2. QED
  BY <1>1 DEF Sits, SeatOf, Exists, Seat, Profile

LEMMA RecountCounts ==
    ASSUME NEW st, NEW l, NEW B \in SUBSET Buses, NEW x \in Seat
    PROVE  Recount(st, l, B)[x.bus][x.shift]
             = IF x.bus \in B THEN Count(st, x) ELSE l[x.bus][x.shift]
<1>1. x.bus \in Buses /\ x.shift \in Shifts /\ x = [bus |-> x.bus, shift |-> x.shift]
  BY DEF Seat
<1>2. QED
  BY <1>1 DEF Recount, Count

(* The counters seat by seat. *)
LEMMA AtASeat ==
    ASSUME TypeOK, NEW x \in Seat
    PROVE  /\ load[x.bus][x.shift] \in Nat /\ Capacity[x.bus] \in Nat
           /\ NeverUndercounted => Count(student, x) <= load[x.bus][x.shift]
           /\ CountersFit => load[x.bus][x.shift] <= Capacity[x.bus]
BY SeatParts, LoadIsNat, CapacityIsNat DEF TypeOK, NeverUndercounted, CountersFit, Count

LEMMA PlusAt ==
    ASSUME NEW l \in Loads, NEW x \in Seat, NEW y \in Seat
    PROVE  Plus(l, x)[y.bus][y.shift]
             = IF y = x THEN l[y.bus][y.shift] + 1 ELSE l[y.bus][y.shift]
<1>1. y = x <=> y.bus = x.bus /\ y.shift = x.shift
  BY SameSeat
<1>2. y.bus \in Buses /\ y.shift \in Shifts
  BY SeatParts
<1>3. \A b \in Buses, sh \in Shifts :
        Plus(l, x)[b][sh] = IF b = x.bus /\ sh = x.shift THEN l[b][sh] + 1 ELSE l[b][sh]
  BY PlusRaisesOne
<1>4. QED
  BY <1>1, <1>2, <1>3

LEMMA MinusAt ==
    ASSUME NEW l \in Loads, NEW x \in Seat, NEW y \in Seat, l[x.bus][x.shift] > 0
    PROVE  Minus(l, x)[y.bus][y.shift]
             = IF y = x THEN l[y.bus][y.shift] - 1 ELSE l[y.bus][y.shift]
<1>1. y = x <=> y.bus = x.bus /\ y.shift = x.shift
  BY SameSeat
<1>2. x.bus \in Buses /\ x.shift \in Shifts /\ y.bus \in Buses /\ y.shift \in Shifts
  BY SeatParts
<1>3. Minus(l, x)[y.bus][y.shift]
        = IF y.bus = x.bus /\ y.shift = x.shift THEN l[y.bus][y.shift] - 1 ELSE l[y.bus][y.shift]
  BY <1>2 DEF Minus, Loads
<1>4. QED
  BY <1>1, <1>3

-----------------------------------------------------------------------------
(* What a step has to show.                                                *)

LEMMA NothingRead ==
    ASSUME NEW s \in Sessions,
           req'[s].pc \in {"idle", "approve", "reject", "finalize", "writeLog"}
    PROVE  UpToDate(s)'
BY DEF UpToDate, StaffPcs

LEMMA Finished ==
    ASSUME TypeOK, NEW s \in Sessions, Become(s, Idle)
    PROVE  UpToDate(s)'
<1>1. req'[s].pc = "idle"
  BY DEF TypeOK, Become, Idle
<1>2. QED
  BY <1>1, NothingRead

LEMMA SeatsStay ==
    ASSUME Balanced, UNCHANGED <<load, student>>
    PROVE  Balanced'
BY DEF Balanced, NeverUndercounted, CountersFit, ReleasedIsBlocked, Exists

(* Each seat's counter still covers its students and fits the bus. *)
CoversAt(x) ==
  Count(student', x) <= load'[x.bus][x.shift] /\ load'[x.bus][x.shift] <= Capacity[x.bus]

LEMMA EachSeatCovered ==
    ASSUME \A x \in Seat : CoversAt(x)
    PROVE  NeverUndercounted' /\ CountersFit'
<1>1. NeverUndercounted'
  BY DEF CoversAt, NeverUndercounted, Count
<1>2. CountersFit'
  <2> SUFFICES ASSUME NEW b \in Buses, NEW sh \in Shifts
               PROVE  load'[b][sh] <= Capacity[b]
    BY DEF CountersFit
  <2>1. [bus |-> b, shift |-> sh] \in Seat
    BY DEF Seat
  <2>2. QED
    BY <2>1 DEF CoversAt
<1>3. QED
  BY <1>1, <1>2

LEMMA RowWritten ==
    ASSUME TypeOK, Balanced, NEW u \in Students, NEW p,
           p # Absent /\ p.released => p.status = "soft_blocked",
           student' = [student EXCEPT ![u] = p],
           \A x \in Seat : CoversAt(x)
    PROVE  Balanced'
<1>1. ReleasedIsBlocked'
  BY DEF TypeOK, Balanced, ReleasedIsBlocked, Exists
<1>2. QED
  BY <1>1, EachSeatCovered DEF Balanced

(* The row's student takes the seat x, which is counted. *)
LEMMA SeatTaken ==
    ASSUME TypeOK, Balanced, NEW u \in Students, NEW p \in Profile, ~ p.released,
           NEW x \in Seat, x = [bus |-> p.bus, shift |-> p.shift],
           student' = [student EXCEPT ![u] = p],
           \/ ~ Full(load, x) /\ load' = Plus(load, x)
           \/ Sits(student[u], x) /\ load' = load
    PROVE  Balanced'
<1> SUFFICES ASSUME NEW y \in Seat PROVE CoversAt(y)
  BY RowWritten
<1>1. Sits(p, y) <=> y = x
  BY SitsThere
<1>2. /\ load[y.bus][y.shift] \in Nat /\ Capacity[y.bus] \in Nat
      /\ Count(student, y) <= load[y.bus][y.shift]
      /\ load[y.bus][y.shift] <= Capacity[y.bus]
  BY AtASeat DEF Balanced
<1>3. Count(student, y) \in Nat
  BY Counted
<1>4. Count(student', y) = IF y = x /\ ~ Sits(student[u], y) THEN Count(student, y) + 1
                           ELSE IF y # x /\ Sits(student[u], y) THEN Count(student, y) - 1
                           ELSE Count(student, y)
  BY <1>1, OneMoves
<1>5. CASE ~ Full(load, x) /\ load' = Plus(load, x)
  <2>1. load'[y.bus][y.shift]
          = IF y = x THEN load[y.bus][y.shift] + 1 ELSE load[y.bus][y.shift]
    BY <1>5, PlusAt DEF TypeOK
  <2>2. y = x => load[y.bus][y.shift] + 1 <= Capacity[y.bus]
    BY <1>2, <1>5 DEF Full
  <2>3. QED
    BY <1>2, <1>3, <1>4, <2>1, <2>2 DEF CoversAt
<1>6. CASE Sits(student[u], x) /\ load' = load
  BY <1>2, <1>3, <1>4, <1>6 DEF CoversAt
<1>7. QED
  BY <1>5, <1>6

(* The row's student gives up the seat, if holding it, and it is counted. *)
LEMMA SeatLeft ==
    ASSUME TypeOK, Balanced, NEW u \in Students, Exists(u),
           NEW p, p = Absent \/ (p.released /\ p.status = "soft_blocked"),
           student' = [student EXCEPT ![u] = p],
           load' = IF student[u].released THEN load ELSE Minus(load, SeatOf(u))
    PROVE  Balanced'
<1> SUFFICES ASSUME NEW y \in Seat PROVE CoversAt(y)
  BY RowWritten
<1> DEFINE x == SeatOf(u)
<1>1. x \in Seat /\ ~ Sits(p, y)
  BY ProfileOf DEF Sits
<1>2. \A z \in Seat : /\ load[z.bus][z.shift] \in Nat /\ Capacity[z.bus] \in Nat
                      /\ Count(student, z) <= load[z.bus][z.shift]
                      /\ load[z.bus][z.shift] <= Capacity[z.bus]
                      /\ Count(student, z) \in Nat
  BY AtASeat, Counted DEF Balanced
<1>3. \A z \in Seat : Sits(student[u], z) <=> z = x /\ ~ student[u].released
  BY SitsWhereSeated
<1>4. Count(student', y) = IF y = x /\ ~ student[u].released THEN Count(student, y) - 1
                           ELSE Count(student, y)
  BY <1>1, <1>3, OneMoves
<1>5. CASE student[u].released
  BY <1>2, <1>4, <1>5 DEF CoversAt
<1>6. CASE ~ student[u].released
  <2>1. u \in Occupants(student, x)
    BY <1>1, <1>3, <1>6, Counted
  <2>2. Count(student, x) > 0
    <3>1. Count(student, x) # 0
      BY <2>1, Counted, FS_EmptySet DEF Count
    <3>2. QED
      BY <3>1, Counted
  <2>3. load[x.bus][x.shift] > 0
    BY <1>1, <1>2, <2>2
  <2>4. load'[y.bus][y.shift]
          = IF y = x THEN load[y.bus][y.shift] - 1 ELSE load[y.bus][y.shift]
    BY <1>1, <1>6, <2>3, MinusAt DEF TypeOK
  <2> HIDE DEF x
  <2>5. QED
    BY <1>2, <1>4, <1>6, <2>4 DEF CoversAt
<1>7. QED
  BY <1>5, <1>6

(* A row that keeps its seat, and the counters as they are. *)
LEMMA SeatKept ==
    ASSUME TypeOK, Balanced, NEW u \in Students, NEW p,
           p # Absent /\ p.released => p.status = "soft_blocked",
           \A x \in Seat : Sits(p, x) <=> Sits(student[u], x),
           student' = [student EXCEPT ![u] = p], load' = load
    PROVE  Balanced'
<1> SUFFICES ASSUME NEW y \in Seat PROVE CoversAt(y)
  BY RowWritten
<1>1. Count(student', y) = Count(student, y)
  BY OneMoves
<1>2. QED
  BY <1>1, AtASeat DEF Balanced, CoversAt

-----------------------------------------------------------------------------
(* Applications.                                                           *)

LEMMA CalmLocking ==
    ASSUME CalmInv, NEW s \in Sessions, NEW u \in Students,
           LockApplication(s, u) \/ LockForRejection(s, u)
    PROVE  Balanced' /\ UpToDate(s)'
<1>1. req'[s].pc \in {"approve", "reject"}
  BY DEF CalmInv, TypeOK, LockApplication, LockForRejection, Become
<1>2. UNCHANGED <<load, student>>
  BY DEF LockApplication, LockForRejection
<1>3. QED
  BY <1>1, <1>2, NothingRead, SeatsStay DEF CalmInv

LEMMA CalmActivate ==
    ASSUME CalmInv, NEW s \in Sessions, NEW b \in Buses, Activate(s, b)
    PROVE  Balanced' /\ UpToDate(s)'
<1> DEFINE u == req[s].student
           x == [bus |-> b, shift |-> req[s].app.shift]
           p == [status |-> "active", bus |-> b, shift |-> x.shift, released |-> FALSE]
<1>1. req[s] \in Reading
  BY RequestsByPc DEF Activate, CalmInv, TypeOK
<1>2. u \in Students /\ x \in Seat /\ p \in Profile
  BY <1>1 DEF Reading, Application, Seat, Profile
<1>3. CASE Become(s, Idle) /\ UNCHANGED <<load, student>>
  BY <1>3, Finished, SeatsStay DEF CalmInv
<1>4. CASE /\ HoldsSeat(u, x) \/ ~ Full(load, x)
           /\ load' = IF HoldsSeat(u, x) THEN load ELSE Plus(load, x)
           /\ student' = [student EXCEPT ![u] = p]
           /\ Become(s, [pc |-> "finalize", student |-> u, seat |-> x])
  <2>1. req'[s].pc = "finalize"
    BY <1>4 DEF CalmInv, TypeOK, Become
  <2>2. HoldsSeat(u, x) => Sits(student[u], x)
    BY <1>2, SitsWhereSeated DEF HoldsSeat, CalmInv
  <2>3. /\ p.released = FALSE
        /\ x = [bus |-> p.bus, shift |-> p.shift]
    OBVIOUS
  <2>4. \/ ~ Full(load, x) /\ load' = Plus(load, x)
        \/ Sits(student[u], x) /\ load' = load
    BY <1>4, <2>2
  <2> HIDE DEF p, x, u
  <2>5. Balanced'
    BY <1>2, <1>4, <2>3, <2>4, SeatTaken DEF CalmInv
  <2>6. QED
    BY <2>1, <2>5, NothingRead
<1>5. QED
  BY <1>3, <1>4 DEF Activate

(* A finalization that fails would go on to compensate. *)
LEMMA CalmFinalize ==
    ASSUME CalmInv, NEW s \in Sessions, Finalize(s) \/ FinalizeFails(s),
           req'[s].pc # "markReleased"
    PROVE  Balanced' /\ UpToDate(s)'
<1>1. CASE Finalize(s)
  BY <1>1, Finished, SeatsStay DEF Finalize, CalmInv
<1>2. CASE FinalizeFails(s)
  <2>1. req[s] \in Finishing
    BY <1>2, RequestsByPc DEF FinalizeFails, CalmInv, TypeOK
  <2>2. [req[s] EXCEPT !.pc = "markReleased"].pc = "markReleased"
    BY <2>1 DEF Finishing
  <2>3. req'[s].pc = "markReleased"
    BY <1>2, <2>2 DEF FinalizeFails, Goto, Become, CalmInv, TypeOK
  <2>4. QED
    BY <2>3
<1>3. QED
  BY <1>1, <1>2

LEMMA CalmRenewRead ==
    ASSUME CalmInv, OverrideBuses = {}, NEW s \in Sessions, NEW b \in Buses, RenewRead(s, b)
    PROVE  Balanced' /\ UpToDate(s)'
<1> DEFINE u == req[s].student
           r == [pc |-> IF student[u].released THEN "renewSeat" ELSE "renewPlain",
                 student |-> u, seat |-> [bus |-> b, shift |-> student[u].shift]]
<1>1. b = student[u].bus /\ Exists(u) /\ UNCHANGED <<load, student>>
  BY DEF RenewRead
<1>2. req'[s] = r
  BY DEF RenewRead, Become, CalmInv, TypeOK
<1>3. /\ r.pc = IF student[u].released THEN "renewSeat" ELSE "renewPlain"
      /\ r.student = u /\ r.seat = SeatOf(u)
  BY <1>1 DEF SeatOf
<1> HIDE DEF u, r
<1>4. UpToDate(s)'
  BY <1>1, <1>2, <1>3 DEF UpToDate, StaffPcs, Exists, SeatOf
<1>5. QED
  BY <1>1, <1>4, SeatsStay DEF CalmInv

LEMMA CalmRenewSeat ==
    ASSUME CalmInv, NEW s \in Sessions, RenewSeat(s)
    PROVE  Balanced' /\ UpToDate(s)'
<1> DEFINE u == req[s].student
           x == req[s].seat
           p == [student[u] EXCEPT !.status = "active", !.released = FALSE]
<1>1. UpToDate(s)'
  BY Finished DEF RenewSeat, CalmInv
<1>2. CASE UNCHANGED <<load, student>>
  BY <1>1, <1>2, SeatsStay DEF CalmInv
<1>3. CASE /\ HoldsSeat(u, x) \/ ~ Full(load, x)
           /\ load' = IF HoldsSeat(u, x) THEN load ELSE Plus(load, x)
           /\ student' = [student EXCEPT ![u].status = "active", ![u].released = FALSE]
  <2>1. u \in Students
    <3>1. req[s] \in Finishing
      BY RequestsByPc DEF RenewSeat, CalmInv, TypeOK
    <3>2. QED
      BY <3>1 DEF Finishing
  <2>2. Exists(u) /\ x = SeatOf(u) /\ student[u].released
    BY DEF RenewSeat, CalmInv, UpToDate
  <2>3. student[u] \in Profile /\ x \in Seat
    BY <2>1, <2>2, ProfileOf DEF CalmInv
  <2>4. p \in Profile /\ ~ p.released /\ x = [bus |-> p.bus, shift |-> p.shift]
    BY <2>2, <2>3 DEF Profile, SeatOf
  <2>5. student' = [student EXCEPT ![u] = p]
    BY <1>3
  <2>6. ~ HoldsSeat(u, x)
    BY <2>2 DEF HoldsSeat
  <2> HIDE DEF p, x, u
  <2>7. QED
    BY <1>1, <1>3, <2>1, <2>3, <2>4, <2>5, <2>6, SeatTaken DEF CalmInv
<1>4. QED
  BY <1>2, <1>3 DEF RenewSeat

LEMMA CalmRenewPlain ==
    ASSUME CalmInv, NEW s \in Sessions, RenewPlain(s)
    PROVE  Balanced' /\ UpToDate(s)'
<1> DEFINE u == req[s].student
           p == [student[u] EXCEPT !.status = "active"]
<1>1. UpToDate(s)' /\ load' = load
  BY Finished DEF RenewPlain, CalmInv
<1>2. CASE UNCHANGED student
  BY <1>1, <1>2, SeatsStay DEF CalmInv
<1>3. CASE student' = [student EXCEPT ![u].status = "active"]
  <2>1. u \in Students
    <3>1. req[s] \in Finishing
      BY RequestsByPc DEF RenewPlain, CalmInv, TypeOK
    <3>2. QED
      BY <3>1 DEF Finishing
  <2>2. Exists(u) /\ ~ student[u].released
    BY DEF RenewPlain, CalmInv, UpToDate
  <2>3. student[u] \in Profile
    BY <2>1, <2>2, ProfileOf DEF CalmInv
  <2>4. p \in Profile /\ p.bus = student[u].bus /\ p.shift = student[u].shift /\ ~ p.released
    BY <2>2, <2>3 DEF Profile
  <2>5. \A y \in Seat : Sits(p, y) <=> Sits(student[u], y)
    BY <2>2, <2>3, <2>4, SitsThere
  <2>6. student' = [student EXCEPT ![u] = p]
    BY <1>3
  <2> HIDE DEF p, u
  <2>7. QED
    BY <1>1, <2>1, <2>4, <2>5, <2>6, SeatKept DEF CalmInv
<1>4. QED
  BY <1>2, <1>3 DEF RenewPlain

LEMMA CalmReject ==
    ASSUME CalmInv, NEW s \in Sessions, Reject(s)
    PROVE  Balanced' /\ UpToDate(s)'
BY Finished, SeatsStay DEF Reject, CalmInv

-----------------------------------------------------------------------------
(* Renewals without an application.                                        *)

(* A seat that is claimed before the student's row is written ... *)
LEMMA SeatClaimed ==
    ASSUME TypeOK, Balanced, NEW x \in Seat, ~ Full(load, x), load' = Plus(load, x),
           student' = student
    PROVE  Balanced' /\ Count(student', x) < load'[x.bus][x.shift]
<1>1. \A y \in Seat :
        /\ load[y.bus][y.shift] \in Nat /\ Capacity[y.bus] \in Nat /\ Count(student, y) \in Nat
        /\ Count(student, y) <= load[y.bus][y.shift]
        /\ load[y.bus][y.shift] <= Capacity[y.bus]
        /\ load'[y.bus][y.shift] = IF y = x THEN load[y.bus][y.shift] + 1 ELSE load[y.bus][y.shift]
  BY AtASeat, Counted, PlusAt DEF TypeOK, Balanced
<1>2. load[x.bus][x.shift] + 1 <= Capacity[x.bus]
  BY <1>1 DEF Full
<1>3. \A y \in Seat : CoversAt(y)
  BY <1>1, <1>2 DEF CoversAt
<1>4. ReleasedIsBlocked'
  BY DEF Balanced, ReleasedIsBlocked, Exists
<1>5. QED
  BY <1>1, <1>3, <1>4, EachSeatCovered DEF Balanced

(* ... and given back. *)
LEMMA ClaimGivenBack ==
    ASSUME TypeOK, Balanced, NEW x \in Seat, Count(student, x) < load[x.bus][x.shift],
           load' = Minus(load, x), student' = student
    PROVE  Balanced'
<1>1. \A y \in Seat :
        /\ load[y.bus][y.shift] \in Nat /\ Capacity[y.bus] \in Nat /\ Count(student, y) \in Nat
        /\ Count(student, y) <= load[y.bus][y.shift]
        /\ load[y.bus][y.shift] <= Capacity[y.bus]
  BY AtASeat, Counted DEF Balanced
<1>2. load[x.bus][x.shift] > 0
  BY <1>1
<1>3. \A y \in Seat :
        load'[y.bus][y.shift] = IF y = x THEN load[y.bus][y.shift] - 1 ELSE load[y.bus][y.shift]
  BY <1>2, MinusAt DEF TypeOK
<1>4. \A y \in Seat : CoversAt(y)
  BY <1>1, <1>3 DEF CoversAt
<1>5. ReleasedIsBlocked'
  BY DEF Balanced, ReleasedIsBlocked, Exists
<1>6. QED
  BY <1>4, <1>5, EachSeatCovered DEF Balanced

LEMMA CalmStaffRead ==
    ASSUME CalmInv, NEW s \in Sessions, NEW u \in Students,
           StaffRenewRead(s, u) \/ PaymentRead(s, u)
    PROVE  Balanced' /\ UpToDate(s)'
<1>1. PICK pc \in {"claim", "reclaimCheck"} :
        /\ Become(s, [pc |-> pc, student |-> u, seat |-> SeatOf(u), claimed |-> FALSE])
        /\ pc = "claim" <=> student[u].released
        /\ Exists(u) /\ UNCHANGED <<load, student>>
  BY DEF StaffRenewRead, PaymentRead
<1>2. req'[s] = [pc |-> pc, student |-> u, seat |-> SeatOf(u), claimed |-> FALSE]
  BY <1>1 DEF Become, CalmInv, TypeOK
<1>3. UpToDate(s)'
  BY <1>1, <1>2 DEF UpToDate, StaffPcs, Exists, SeatOf
<1>4. QED
  BY <1>1, <1>3, SeatsStay DEF CalmInv

LEMMA CalmStaffRenewal ==
    ASSUME CalmInv, NEW s \in Sessions,
           \/ StaffRenewClaim(s) \/ StaffRenewCheck(s)
           \/ StaffRenewWrite(s) \/ StaffRenewGiveBack(s)
    PROVE  Balanced' /\ UpToDate(s)'
<1> DEFINE r == req[s]
           u == r.student
           x == r.seat
<1>1. r \in StaffRenewal
  BY RequestsByPc DEF StaffRenewClaim, StaffRenewCheck, StaffRenewWrite, StaffRenewGiveBack,
                      CalmInv, TypeOK
<1>2. u \in Students /\ x \in Seat /\ r.claimed \in BOOLEAN
  BY <1>1 DEF StaffRenewal
<1>3. Exists(u) /\ x = SeatOf(u)
  BY <1>1 DEF CalmInv, UpToDate, StaffPcs, StaffRenewal
<1>4. TypeOK /\ Balanced /\ UpToDate(s)
  BY DEF CalmInv
<1>5. CASE StaffRenewClaim(s)
  <2>1. CASE Become(s, Idle) /\ UNCHANGED load
    BY <1>4, <1>5, <2>1, Finished, SeatsStay DEF StaffRenewClaim
  <2>2. CASE /\ ~ Full(load, x)
             /\ load' = Plus(load, x)
             /\ Become(s, [r EXCEPT !.pc = "reclaimCheck", !.claimed = TRUE])
    <3>1. student' = student
      BY <1>5 DEF StaffRenewClaim
    <3>2. Balanced' /\ Count(student', x) < load'[x.bus][x.shift]
      BY <1>2, <1>4, <2>2, <3>1, SeatClaimed
    <3>3. req'[s] = [r EXCEPT !.pc = "reclaimCheck", !.claimed = TRUE]
      BY <1>4, <2>2 DEF Become, TypeOK
    <3>4. /\ req'[s].pc = "reclaimCheck" /\ req'[s].claimed = TRUE
          /\ req'[s].student = u /\ req'[s].seat = x
      BY <1>1, <3>3 DEF StaffRenewal
    <3>5. student[u].released
      BY <1>4, <1>5 DEF StaffRenewClaim, UpToDate
    <3> HIDE DEF r, u, x
    <3>6. UpToDate(s)'
      BY <1>3, <3>1, <3>2, <3>4, <3>5 DEF UpToDate, StaffPcs, Exists, SeatOf
    <3>7. QED
      BY <3>2, <3>6
  <2>3. QED
    BY <1>5, <2>1, <2>2 DEF StaffRenewClaim
<1>6. CASE StaffRenewCheck(s)
  <2>1. UNCHANGED <<load, student>>
    BY <1>6 DEF StaffRenewCheck
  <2>2. CASE Become(s, Idle)
    BY <1>4, <2>1, <2>2, Finished, SeatsStay
  <2>3. CASE \/ Goto(s, "reclaimWrite") /\ ~ student[u].released
             \/ Goto(s, "giveBack") /\ r.claimed
    <3>1. PICK pc \in {"reclaimWrite", "giveBack"} :
            /\ req'[s] = [r EXCEPT !.pc = pc]
            /\ pc = "reclaimWrite" => ~ student[u].released
            /\ pc = "giveBack" => r.claimed
      BY <1>4, <2>3 DEF Goto, Become, TypeOK
    <3>2. /\ req'[s].pc = pc /\ req'[s].claimed = r.claimed
          /\ req'[s].student = u /\ req'[s].seat = x
      BY <1>1, <3>1 DEF StaffRenewal
    <3>3. /\ r.claimed <=> student[u].released
          /\ r.claimed => Count(student, x) < load[x.bus][x.shift]
      BY <1>4, <1>6 DEF StaffRenewCheck, UpToDate, StaffPcs
    <3> HIDE DEF r, u, x
    <3>4. UpToDate(s)'
      BY <1>3, <2>1, <3>1, <3>2, <3>3 DEF UpToDate, StaffPcs, Exists, SeatOf
    <3>5. QED
      BY <1>4, <2>1, <3>4, SeatsStay
  <2>4. QED
    BY <1>3, <1>6, <2>2, <2>3 DEF StaffRenewCheck
<1>7. CASE StaffRenewWrite(s)
  <2> DEFINE p == [student[u] EXCEPT !.status = "active", !.released = @ /\ ~ r.claimed]
  <2>1. ~ student[u].released /\ ~ r.claimed
    BY <1>4, <1>7 DEF StaffRenewWrite, UpToDate
  <2>2. student[u] \in Profile
    BY <1>2, <1>3, <1>4, ProfileOf
  <2>3. student[u].released = FALSE
    BY <2>1, <2>2 DEF Profile
  <2>4. p \in Profile /\ p.bus = student[u].bus /\ p.shift = student[u].shift /\ ~ p.released
    BY <2>2, <2>3 DEF Profile
  <2>5. \A y \in Seat : Sits(p, y) <=> Sits(student[u], y)
    BY <2>2, <2>3, <2>4, SitsThere
  <2>6. student' = [student EXCEPT ![u] = p]
    BY <1>3, <1>7 DEF StaffRenewWrite
  <2>7. UpToDate(s)' /\ load' = load
    BY <1>4, <1>7, Finished DEF StaffRenewWrite
  <2> HIDE DEF p, u
  <2>8. QED
    BY <1>2, <1>4, <2>4, <2>5, <2>6, <2>7, SeatKept
<1>8. CASE StaffRenewGiveBack(s)
  <2>1. Count(student, x) < load[x.bus][x.shift]
    BY <1>4, <1>8 DEF StaffRenewGiveBack, UpToDate, StaffPcs
  <2>2. Balanced'
    BY <1>2, <1>4, <1>8, <2>1, ClaimGivenBack DEF StaffRenewGiveBack
  <2>3. QED
    BY <1>4, <1>8, <2>2, Finished DEF StaffRenewGiveBack
<1>9. QED
  BY <1>5, <1>6, <1>7, <1>8

-----------------------------------------------------------------------------
(* Blocking and deletion.                                                  *)

LEMMA CalmSoftBlockRead ==
    ASSUME CalmInv, NEW s \in Sessions, NEW u \in Students, SoftBlockRead(s, u)
    PROVE  Balanced' /\ UpToDate(s)'
<1>1. req'[s] = [pc |-> "softBlock", student |-> u, seat |-> SeatOf(u)]
  BY DEF SoftBlockRead, Become, CalmInv, TypeOK
<1>2. Exists(u) /\ UNCHANGED <<load, student>>
  BY DEF SoftBlockRead
<1>3. UpToDate(s)'
  BY <1>1, <1>2 DEF UpToDate, StaffPcs, Exists, SeatOf
<1>4. QED
  BY <1>2, <1>3, SeatsStay DEF CalmInv

LEMMA CalmSoftBlock ==
    ASSUME CalmInv, NEW s \in Sessions, NEW release \in BOOLEAN, SoftBlock(s, release)
    PROVE  Balanced' /\ UpToDate(s)'
<1> DEFINE u == req[s].student
           p == [student[u] EXCEPT !.status = "soft_blocked", !.released = @ \/ release]
<1>1. UpToDate(s)'
  BY Finished DEF SoftBlock, CalmInv
<1>2. CASE UNCHANGED <<load, student>>
  BY <1>1, <1>2, SeatsStay DEF CalmInv
<1>3. CASE /\ student[u].status = "active"
           /\ load' = IF release THEN Minus(load, req[s].seat) ELSE load
           /\ student' = [student EXCEPT ![u].status = "soft_blocked",
                                         ![u].released = @ \/ release]
  <2>1. u \in Students
    <3>1. req[s] \in Blocking
      BY RequestsByPc DEF SoftBlock, CalmInv, TypeOK
    <3>2. QED
      BY <3>1 DEF Blocking
  <2>2. Exists(u) /\ req[s].seat = SeatOf(u)
    BY DEF SoftBlock, CalmInv, UpToDate
  <2>3. student[u] \in Profile
    BY <2>1, <2>2, ProfileOf DEF CalmInv
  <2>4. student[u].released = FALSE
    <3>1. student[u].released \in BOOLEAN
      BY <2>3 DEF Profile
    <3>2. QED
      BY <1>3, <2>1, <2>2, <3>1 DEF CalmInv, Balanced, ReleasedIsBlocked
  <2>5. /\ p \in Profile /\ p.status = "soft_blocked" /\ p.released = release
        /\ p.bus = student[u].bus /\ p.shift = student[u].shift
    BY <2>3, <2>4 DEF Profile
  <2>6. student' = [student EXCEPT ![u] = p]
    BY <1>3
  <2> HIDE DEF p, u
  <2>7. CASE release
    BY <1>1, <1>3, <2>1, <2>2, <2>4, <2>5, <2>6, <2>7, SeatLeft DEF CalmInv
  <2>8. CASE ~ release
    <3>1. \A y \in Seat : Sits(p, y) <=> Sits(student[u], y)
      BY <2>3, <2>4, <2>5, <2>8, SitsThere
    <3>2. QED
      BY <1>1, <1>3, <2>1, <2>5, <2>6, <2>8, <3>1, SeatKept DEF CalmInv
  <2>9. QED
    BY <2>7, <2>8
<1>4. QED
  BY <1>2, <1>3 DEF SoftBlock

LEMMA CalmRefund ==
    ASSUME CalmInv, NEW u \in Students, RefundStudent(u)
    PROVE  Balanced'
<1> DEFINE p == [student[u] EXCEPT !.status = "soft_blocked", !.released = TRUE]
<1>1. Exists(u) /\ student[u] \in Profile
  BY ProfileOf DEF RefundStudent, CalmInv
<1>2. p.status = "soft_blocked" /\ p.released = TRUE
  BY <1>1 DEF Profile
<1>3. student' = [student EXCEPT ![u] = p]
  BY DEF RefundStudent
<1> HIDE DEF p
<1>4. QED
  BY <1>1, <1>2, <1>3, SeatLeft DEF RefundStudent, CalmInv

LEMMA CalmDelete ==
    ASSUME CalmInv, NEW u \in Students, DeleteStudent(u)
    PROVE  Balanced'
BY SeatLeft DEF DeleteStudent, CalmInv

-----------------------------------------------------------------------------
(* Reassignment, rollback and reconciliation.                              *)

(* A student moves and the counters of the buses left and entered, among   *)
(* the buses B, are counted afresh.                                        *)
LEMMA RecountedMove ==
    ASSUME TypeOK, Balanced, NEW u \in Students, Exists(u), NEW x \in Seat,
           NEW B \in SUBSET Buses, x.bus \in B, student[u].bus \in B,
           NEW l \in Loads, \A b \in Buses \ B : l[b] = load[b],
           student' = [student EXCEPT ![u].bus = x.bus, ![u].shift = x.shift],
           load' = Recount(student', l, B), Fits(load', B)
    PROVE  Balanced'
<1> DEFINE p == [student[u] EXCEPT !.bus = x.bus, !.shift = x.shift]
<1>1. student[u] \in Profile
  BY ProfileOf
<1>2. /\ p \in Profile /\ p.bus = x.bus
      /\ p.released = student[u].released /\ p.status = student[u].status
  BY <1>1, SeatParts DEF Profile
<1>3. student' = [student EXCEPT ![u] = p]
  OBVIOUS
<1>4. p # Absent /\ p.released => p.status = "soft_blocked"
  BY <1>2 DEF Balanced, ReleasedIsBlocked
<1> HIDE DEF p
<1> SUFFICES ASSUME NEW y \in Seat PROVE CoversAt(y)
  BY <1>3, <1>4, RowWritten
<1>5. load'[y.bus][y.shift] = IF y.bus \in B THEN Count(student', y) ELSE l[y.bus][y.shift]
  BY RecountCounts
<1>6. Count(student', y) \in Nat /\ Count(student, y) \in Nat
  BY Counted
<1>7. CASE y.bus \in B
  <2>1. load'[y.bus][y.shift] <= Capacity[y.bus]
    BY <1>7, SeatParts DEF Fits
  <2>2. QED
    BY <1>5, <1>6, <1>7, <2>1 DEF CoversAt
<1>8. CASE y.bus \notin B
  <2>1. load'[y.bus][y.shift] = load[y.bus][y.shift]
    BY <1>5, <1>8, SeatParts
  <2>2. ~ Sits(p, y) /\ ~ Sits(student[u], y)
    BY <1>2, <1>8 DEF Sits
  <2>3. Count(student', y) = Count(student, y)
    BY <1>3, <2>2, OneMoves
  <2>4. QED
    BY <2>1, <2>3, AtASeat DEF Balanced, CoversAt
<1>9. QED
  BY <1>7, <1>8

LEMMA CalmReassignRead ==
    ASSUME CalmInv, NEW s \in Sessions, NEW u \in Students, NEW x \in Seat,
           ReassignRead(s, u, x)
    PROVE  Balanced' /\ UpToDate(s)'
<1>1. req'[s] = [pc |-> "reassign", student |-> u, from |-> SeatOf(u), to |-> x]
  BY DEF ReassignRead, Become, CalmInv, TypeOK
<1>2. Exists(u) /\ UNCHANGED <<load, student>>
  BY DEF ReassignRead
<1>3. UpToDate(s)'
  BY <1>1, <1>2 DEF UpToDate, StaffPcs, Exists, SeatOf
<1>4. QED
  BY <1>2, <1>3, SeatsStay DEF CalmInv

LEMMA CalmReassign ==
    ASSUME CalmInv, NEW s \in Sessions, Reassign(s)
    PROVE  Balanced' /\ UpToDate(s)'
<1> DEFINE u == req[s].student
           x == req[s].to
           y == [bus |-> req[s].from.bus, shift |-> student[u].shift]
           out == Minus(load, y)
           moved == [student EXCEPT ![u].bus = x.bus, ![u].shift = x.shift]
           affected == {x.bus, student[u].bus}
           counted == Recount(moved, out, affected)
<1>1. req[s] \in Reassignment
  BY RequestsByPc DEF Reassign, CalmInv, TypeOK
<1>2. u \in Students /\ x \in Seat
  BY <1>1 DEF Reassignment
<1>3. Exists(u) /\ req[s].from = SeatOf(u)
  BY DEF Reassign, CalmInv, UpToDate
<1>4. \/ Become(s, Idle) /\ UNCHANGED <<load, student>>
      \/ /\ Fits(counted, affected)
         /\ load' = counted
         /\ student' = moved
         /\ Goto(s, "writeLog")
  <2>1. {x.bus} \cup {student[u].bus} = affected
    OBVIOUS
  <2>2. QED
    BY <1>3, <2>1 DEF Reassign
<1>5. CASE Become(s, Idle) /\ UNCHANGED <<load, student>>
  BY <1>5, Finished, SeatsStay DEF CalmInv
<1>6. CASE /\ Fits(counted, affected)
           /\ load' = counted
           /\ student' = moved
           /\ Goto(s, "writeLog")
  <2>1. UpToDate(s)'
    <3>1. req'[s] = [req[s] EXCEPT !.pc = "writeLog"]
      BY <1>6 DEF Goto, Become, CalmInv, TypeOK
    <3>2. req'[s].pc = "writeLog"
      BY <1>1, <3>1 DEF Reassignment
    <3>3. QED
      BY <3>2, NothingRead
  <2>2. student[u] \in Profile
    BY <1>2, <1>3, ProfileOf DEF CalmInv
  <2>3. y \in Seat /\ y.bus = student[u].bus
    BY <1>3, <2>2 DEF Seat, SeatOf, Profile
  <2>4. out \in Loads
    BY <2>3, MinusLowers DEF CalmInv, TypeOK
  <2>5. affected \in SUBSET Buses /\ student[u].bus \in affected /\ x.bus \in affected
    BY <1>2, <2>3, SeatParts
  <2>6. \A b \in Buses \ affected : out[b] = load[b]
    <3> SUFFICES ASSUME NEW b \in Buses \ affected PROVE out[b] = load[b]
      OBVIOUS
    <3>1. b # y.bus
      BY <2>3
    <3>2. load \in [Buses -> [Shifts -> Nat]]
      BY DEF CalmInv, TypeOK, Loads
    <3> HIDE DEF y, affected
    <3>3. QED
      BY <3>1, <3>2 DEF Minus
  <2> HIDE DEF u, x, y, out, affected
  <2>7. Balanced'
    BY <1>2, <1>3, <1>6, <2>4, <2>5, <2>6, RecountedMove DEF CalmInv
  <2>8. QED
    BY <2>1, <2>7
<1>7. QED
  BY <1>4, <1>5, <1>6

LEMMA CalmWriteLog ==
    ASSUME CalmInv, NEW s \in Sessions, NEW o \in Ops, WriteLog(s, o)
    PROVE  Balanced' /\ UpToDate(s)'
BY Finished, SeatsStay DEF WriteLog, CalmInv

LEMMA CalmRollback ==
    ASSUME CalmInv, NEW o \in Ops, Rollback(o)
    PROVE  Balanced'
<1> DEFINE e == log[o]
           u == e.student
           x == e.before
           affected == {x.bus, e.after.bus}
<1>1. e \in LogEntry
  BY DEF Rollback, NoLog, CalmInv, TypeOK
<1>2. u \in Students /\ x \in Seat /\ e.after \in Seat
  BY <1>1 DEF LogEntry
<1>3. /\ Exists(u) /\ student[u].bus \in affected
      /\ affected \in SUBSET Buses /\ x.bus \in affected
  BY <1>2, SeatParts DEF Rollback
<1>4. /\ student' = [student EXCEPT ![u].bus = x.bus, ![u].shift = x.shift]
      /\ load' = Recount(student', load, affected)
      /\ Fits(load', affected)
  BY DEF Rollback
<1> HIDE DEF u, x, affected
<1>5. QED
  BY <1>2, <1>3, <1>4, RecountedMove DEF CalmInv, TypeOK

LEMMA CalmReconcileRead ==
    ASSUME CalmInv, NEW s \in Sessions, ReconcileRead(s)
    PROVE  Balanced' /\ UpToDate(s)'
<1> DEFINE counts == Recount(student, load, Buses)
           r == [pc |-> "reconcile", counts |-> counts,
                 todo |-> {b \in Buses : counts[b] # load[b]}]
<1>1. req'[s] = r /\ UNCHANGED <<load, student>>
  BY DEF ReconcileRead, Become, CalmInv, TypeOK
<1>2. \A x \in Seat : counts[x.bus][x.shift] = Count(student, x)
  BY RecountCounts, SeatParts
<1>3. r.pc = "reconcile" /\ r.counts = counts
  OBVIOUS
<1> HIDE DEF counts, r
<1>4. UpToDate(s)'
  BY <1>1, <1>2, <1>3 DEF UpToDate, StaffPcs, Count
<1>5. QED
  BY <1>1, <1>4, SeatsStay DEF CalmInv

LEMMA CalmReconcileBus ==
    ASSUME CalmInv, NEW s \in Sessions, NEW b \in Buses, ReconcileBus(s, b)
    PROVE  Balanced' /\ UpToDate(s)'
<1> DEFINE r == req[s]
<1>1. r \in Counting
  BY RequestsByPc DEF ReconcileBus, CalmInv, TypeOK
<1>2. \A x \in Seat : r.counts[x.bus][x.shift] = Count(student, x)
  BY DEF ReconcileBus, CalmInv, UpToDate
<1>3. student' = student /\ load' = [load EXCEPT ![b] = r.counts[b]]
  BY DEF ReconcileBus
<1>4. Balanced'
  <2>1. ASSUME NEW y \in Seat PROVE CoversAt(y)
    <3>1. load'[y.bus][y.shift] = IF y.bus = b THEN Count(student, y) ELSE load[y.bus][y.shift]
      BY <1>2, <1>3, SeatParts DEF CalmInv, TypeOK, Loads
    <3>2. QED
      BY <1>3, <3>1, AtASeat, Counted DEF CalmInv, Balanced, CoversAt
  <2>2. ReleasedIsBlocked'
    BY <1>3 DEF CalmInv, Balanced, ReleasedIsBlocked, Exists
  <2>3. QED
    BY <2>1, <2>2, EachSeatCovered DEF Balanced
<1>5. UpToDate(s)'
  <2>1. CASE Become(s, Idle)
    BY <2>1, Finished DEF CalmInv
  <2>2. CASE Become(s, [r EXCEPT !.todo = @ \ {b}])
    <3>1. req'[s] = [r EXCEPT !.todo = r.todo \ {b}]
      BY <2>2 DEF Become, CalmInv, TypeOK
    <3>2. req'[s].pc = "reconcile" /\ req'[s].counts = r.counts
      BY <1>1, <3>1 DEF Counting
    <3> HIDE DEF r
    <3>3. QED
      BY <1>2, <1>3, <3>2 DEF UpToDate, StaffPcs, Count
  <2>3. QED
    BY <2>1, <2>2 DEF ReconcileBus
<1>6. QED
  BY <1>4, <1>5

LEMMA CalmCrash ==
    ASSUME CalmInv, NEW s \in Sessions, Crash(s)
    PROVE  Balanced' /\ UpToDate(s)'
BY Finished, SeatsStay DEF Crash, CalmInv

-----------------------------------------------------------------------------
(* Every calm step.                                                        *)

LEMMA CalmInit == Init => CalmInv
<1> SUFFICES ASSUME Init PROVE CalmInv
  OBVIOUS
<1>1. \A x \in Seat : Count(student, x) = 0
  <2> SUFFICES ASSUME NEW x \in Seat PROVE Count(student, x) = 0
    OBVIOUS
  <2>1. Occupants(student, x) = {}
    BY DEF Init, Occupants
  <2>2. QED
    BY <2>1, FS_EmptySet DEF Count
<1>2. Balanced
  BY <1>1, SeatParts, CapacityIsNat
     DEF Init, Balanced, NeverUndercounted, CountersFit, ReleasedIsBlocked, Exists, Count
<1>3. \A s \in Sessions : UpToDate(s)
  BY DEF Init, Idle, UpToDate, StaffPcs
<1>4. QED
  BY <1>2, <1>3, InitTyped DEF CalmInv

LEMMA CalmStepsKeep ==
    ASSUME OverrideBuses = {}, CalmInv, CalmNext
    PROVE  CalmInv'
<1>1. Next
  BY DEF CalmNext, Next
<1>2. TypeOK'
  BY <1>1, StepsKeep DEF CalmInv
<1>3. \A q \in Sessions : req[q] = Idle /\ req'[q] = req[q] => UpToDate(q)'
  BY NothingRead DEF Idle
<1>4. ASSUME NEW s \in Sessions, \A q \in Sessions \ {s} : req[q] = Idle,
             ApproveStep(s) \/ StaffRenewStep(s) \/ OtherStep(s),
             req'[s].pc # "markReleased"
      PROVE  CalmInv'
  <2>1. Balanced' /\ UpToDate(s)'
    <3>1. CASE ApproveStep(s)
      <4>1. ~ MarkReleased(s) /\ ~ ReleaseSeat(s)
        BY DEF MarkReleased, ReleaseSeat, CalmInv, UpToDate
      <4>2. QED
        BY <1>4, <3>1, <4>1, CalmLocking, CalmActivate, CalmFinalize, CalmRenewRead,
           CalmRenewSeat, CalmRenewPlain, CalmReject DEF ApproveStep
    <3>2. CASE StaffRenewStep(s)
      BY <3>2, CalmStaffRead, CalmStaffRenewal DEF StaffRenewStep
    <3>3. CASE OtherStep(s)
      BY <3>3, CalmSoftBlockRead, CalmSoftBlock, CalmReassignRead, CalmReassign, CalmWriteLog,
         CalmReconcileRead, CalmReconcileBus, CalmCrash DEF OtherStep
    <3>4. QED
      BY <1>4, <3>1, <3>2, <3>3
  <2>2. \E r : Become(s, r)
    <3>1. ApproveStep(s) => \E r : Become(s, r)
      BY DEF ApproveStep, LockApplication, LockForRejection, Activate, Finalize, FinalizeFails,
             MarkReleased, ReleaseSeat, RenewRead, RenewSeat, RenewPlain, Reject, Goto
    <3>2. StaffRenewStep(s) => \E r : Become(s, r)
      BY DEF StaffRenewStep, StaffRenewRead, PaymentRead, StaffRenewClaim, StaffRenewCheck,
             StaffRenewWrite, StaffRenewGiveBack, Goto
    <3>3. OtherStep(s) => \E r : Become(s, r)
      BY DEF OtherStep, SoftBlockRead, SoftBlock, ReassignRead, Reassign, WriteLog,
             ReconcileRead, ReconcileBus, Crash, Goto
    <3>4. QED
      BY <1>4, <3>1, <3>2, <3>3
  <2>3. \A q \in Sessions \ {s} : req'[q] = req[q]
    BY <2>2 DEF Become, CalmInv, TypeOK
  <2>4. QED
    BY <1>2, <1>3, <1>4, <2>1, <2>3 DEF CalmInv
<1>5. ASSUME Quiet, NEW u \in Students, StudentStep(u)
      PROVE  CalmInv'
  <2>1. req' = req
    BY <1>5 DEF StudentStep, Submit, LeaseExpires, RefundStudent, DeleteStudent
  <2>2. Balanced'
    <3>1. (\E x \in Seat : Submit(u, x)) \/ LeaseExpires(u) => Balanced'
      BY SeatsStay DEF Submit, LeaseExpires, CalmInv
    <3>2. QED
      BY <1>5, <3>1, CalmRefund, CalmDelete DEF StudentStep
  <2>3. QED
    BY <1>2, <1>3, <1>5, <2>1, <2>2 DEF CalmInv, Quiet
<1>6. ASSUME Quiet, NEW o \in Ops, Rollback(o)
      PROVE  CalmInv'
  <2>1. req' = req
    BY <1>6 DEF Rollback
  <2>2. QED
    BY <1>2, <1>3, <1>6, <2>1, CalmRollback DEF CalmInv, Quiet
<1>7. QED
  BY <1>4, <1>5, <1>6 DEF CalmNext

LEMMA CalmStutters ==
    ASSUME CalmInv, UNCHANGED vars
    PROVE  CalmInv'
<1>1. TypeOK'
  BY StuttersKeep DEF CalmInv
<1>2. Balanced'
  BY SeatsStay DEF CalmInv, vars
<1>3. \A s \in Sessions : UpToDate(s)'
  BY DEF CalmInv, vars, UpToDate, StaffPcs, Exists, SeatOf, Count, Occupants
<1>4. QED
  BY <1>1, <1>2, <1>3 DEF CalmInv

(* The invariant of the calm behaviours: counters cover the students and   *)
(* fit the buses, whoever gave back the seat is blocked, and what a        *)
(* request under way has read still holds.                                 *)
THEOREM CalmSeats ==
    ASSUME OverrideBuses = {}
    PROVE  CalmSpec => []CalmInv
<1>1. CalmInv /\ [CalmNext]_vars => CalmInv'
  BY CalmStepsKeep, CalmStutters
<1>2. QED
  BY <1>1, CalmInit, PTL DEF CalmSpec

(* A counter never says less than the students who sit in the bus (see     *)
(* NeverUndercounted), when approvers keep to the bus asked for.           *)
THEOREM CountersCoverStudents ==
    ASSUME OverrideBuses = {}
    PROVE  CalmSpec => []NeverUndercounted
<1>1. CalmInv => NeverUndercounted
  BY DEF CalmInv, Balanced
<1>2. QED
  BY <1>1, CalmSeats, PTL

(* INV-CAP-001: the occupied seats never exceed the capacity (see          *)
(* SeatsWithinCapacity), since the counters cover them and fit the bus.    *)
THEOREM StudentsFitTheBuses ==
    ASSUME OverrideBuses = {}
    PROVE  CalmSpec => []SeatsWithinCapacity
<1>1. CalmInv => SeatsWithinCapacity
  <2> SUFFICES ASSUME CalmInv, NEW x \in Seat
               PROVE  Cardinality(Occupants(student, x)) <= Capacity[x.bus]
    BY DEF SeatsWithinCapacity
  <2>1. Count(student, x) <= Capacity[x.bus]
    BY AtASeat, Counted DEF CalmInv, Balanced
  <2>2. QED
    BY <2>1 DEF Count
<1>2. QED
  BY <1>1, CalmSeats, PTL
=============================================================================
