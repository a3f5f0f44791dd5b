-------------------------- MODULE AdmissionsProofs --------------------------
(***************************************************************************)
(* For any number of applications, buses, requests and failures, in the    *)
(* calm behaviours: the variables keep their ranges and no counter passes  *)
(* the capacity of its bus; an application that was rejected seats nobody; *)
(* one that is used up has seated its applicant; and counters and students *)
(* part company by at most one seat for each failure.                      *)
(*                                                                         *)
(* The argument is ownership.  Whoever is past a claim holds the lock, so  *)
(* the application is still live and the seat still taken when its turn    *)
(* comes: everybody else who could end the application or mark the seat as *)
(* released would have to hold the same lock.                              *)
(***************************************************************************)
EXTENDS Admissions, FiniteSetTheorems, TLAPS

(* The places at which a worker holds the lock of its application. *)
Holding ==
  RunPcs \cup {"openVerify", "openQueue", "activate", "finalize",
               "unmark", "giveBack", "unlock", "deny"}

Owners == \A w \in Workers : job[w].pc \in Holding => lock[job[w].app] = w

StillLive ==
  \A w \in Workers : job[w].pc \in {"seat", "activate"} => app[job[w].app] \in Live

StillSeated ==
  \A w \in Workers : job[w].pc \in {"consume", "finalize"} => student[job[w].app].held

IInv == TypeOK /\ Owners /\ StillLive /\ StillSeated /\ Alone

-----------------------------------------------------------------------------
(* Jobs.                                                                   *)

LEMMA WorkKinds ==
    ASSUME NEW j \in Jobs
    PROVE  /\ j.pc \in RunPcs => j \in AtWork
           /\ j.pc = "next" => j \in Between
           /\ j.pc \in StaffPcs => j \in Serving
           /\ j.pc \in RunPcs \cup StaffPcs => j.app \in Apps /\ j.bus \in Buses
<1>1. j = Idle => j.pc = "idle"
  BY DEF Idle
<1>2. j = Marking => j.pc = "mark"
  BY DEF Marking
<1>3. j \in Between => j.pc = "next"
  BY DEF Between
<1>4. j \in AtWork => j.pc \in RunPcs /\ j.app \in Apps /\ j.bus \in Buses
  BY DEF AtWork
<1>5. j \in Serving => j.pc \in StaffPcs /\ j.app \in Apps /\ j.bus \in Buses
  BY DEF Serving
<1>6. QED
  BY <1>1, <1>2, <1>3, <1>4, <1>5 DEF Jobs, RunPcs, StaffPcs

LEMMA GoOnRun ==
    ASSUME NEW j \in AtWork, NEW pc \in RunPcs
    PROVE  LET g == [j EXCEPT !.pc = pc]
           IN  g \in Jobs /\ g.pc = pc /\ g.app = j.app /\ g.bus = j.bus
BY DEF AtWork, Jobs

LEMMA GoOnServing ==
    ASSUME NEW j \in Serving, NEW pc \in StaffPcs
    PROVE  LET g == [j EXCEPT !.pc = pc]
           IN  g \in Jobs /\ g.pc = pc /\ g.app = j.app /\ g.bus = j.bus
BY DEF Serving, Jobs

LEMMA GoToNext ==
    ASSUME NEW j \in AtWork, NEW missed \in BOOLEAN
    PROVE  LET g == [j EXCEPT !.pc = "next", !.todo = @ \ {j.app}, !.app = "none",
                              !.missed = @ \/ missed]
           IN  g \in Jobs /\ g.pc = "next"
<1> DEFINE g == [j EXCEPT !.pc = "next", !.todo = @ \ {j.app}, !.app = "none",
                          !.missed = @ \/ missed]
<1>1. (j.missed \/ missed) \in BOOLEAN
  BY DEF AtWork
<1>2. g \in Between
  BY <1>1 DEF AtWork, Between
<1>3. g.pc = "next"
  BY <1>2 DEF Between
<1>4. QED
  BY <1>2, <1>3 DEF Jobs

LEMMA RestJobs ==
    /\ Idle \in Jobs /\ Idle.pc = "idle"
    /\ Marking \in Jobs /\ Marking.pc = "mark"
BY DEF Jobs, Idle, Marking

-----------------------------------------------------------------------------
(* One worker moves on.  What the invariant asks of such a step.           *)

LEMMA OneMoves ==
    ASSUME TypeOK, NEW w \in Workers, NEW j \in Jobs, Become(w, j)
    PROVE  /\ job' \in [Workers -> Jobs]
           /\ job'[w] = j
           /\ \A v \in Workers \ {w} : job'[v] = job[v]
BY DEF TypeOK, Become

LEMMA OwnersMove ==
    ASSUME IInv, NEW w \in Workers, NEW j \in Jobs, Become(w, j),
           j.pc \in Holding => lock'[j.app] = w,
           \A a \in Apps : lock'[a] = lock[a] \/ lock[a] \in {w, Nobody}
    PROVE  Owners'
<1> SUFFICES ASSUME NEW v \in Workers, job'[v].pc \in Holding
             PROVE  lock'[job'[v].app] = v
  BY DEF Owners
<1>1. CASE v = w
  BY <1>1, OneMoves DEF IInv
<1>2. CASE v # w
  <2>1. job'[v] = job[v] /\ job[v] \in Jobs
    BY <1>2, OneMoves DEF IInv, TypeOK
  <2>2. job[v].app \in Apps
    BY <2>1, WorkKinds DEF Holding, StaffPcs
  <2>3. lock[job[v].app] = v
    BY <2>1 DEF IInv, Owners
  <2>4. v # Nobody
    BY AdmissionsAssumption
  <2>5. QED
    BY <1>2, <2>1, <2>2, <2>3, <2>4
<1>3. QED
  BY <1>1, <1>2

LEMMA LiveMove ==
    ASSUME IInv, NEW w \in Workers, NEW j \in Jobs, Become(w, j),
           j.pc \in {"seat", "activate"} => app'[j.app] \in Live,
           \A a \in Apps : app[a] \in Live => app'[a] \in Live \/ lock[a] = w
    PROVE  StillLive'
<1> SUFFICES ASSUME NEW v \in Workers, job'[v].pc \in {"seat", "activate"}
             PROVE  app'[job'[v].app] \in Live
  BY DEF StillLive
<1>1. CASE v = w
  BY <1>1, OneMoves DEF IInv
<1>2. CASE v # w
  <2>1. job'[v] = job[v] /\ job[v] \in Jobs
    BY <1>2, OneMoves DEF IInv, TypeOK
  <2>2. job[v].app \in Apps /\ job[v].pc \in Holding
    BY <2>1, WorkKinds DEF Holding, RunPcs, StaffPcs
  <2>3. lock[job[v].app] = v /\ app[job[v].app] \in Live
    BY <2>1, <2>2 DEF IInv, Owners, StillLive
  <2>4. QED
    BY <1>2, <2>1, <2>2, <2>3
<1>3. QED
  BY <1>1, <1>2

LEMMA SeatedMove ==
    ASSUME IInv, NEW w \in Workers, NEW j \in Jobs, Become(w, j),
           j.pc \in {"consume", "finalize"} => student'[j.app].held,
           \A a \in Apps : student[a].held => student'[a].held \/ lock[a] = w
    PROVE  StillSeated'
<1> SUFFICES ASSUME NEW v \in Workers, job'[v].pc \in {"consume", "finalize"}
             PROVE  student'[job'[v].app].held
  BY DEF StillSeated
<1>1. CASE v = w
  BY <1>1, OneMoves DEF IInv
<1>2. CASE v # w
  <2>1. job'[v] = job[v] /\ job[v] \in Jobs
    BY <1>2, OneMoves DEF IInv, TypeOK
  <2>2. job[v].app \in Apps /\ job[v].pc \in Holding
    BY <2>1, WorkKinds DEF Holding, RunPcs, StaffPcs
  <2>3. lock[job[v].app] = v /\ student[job[v].app].held
    BY <2>1, <2>2 DEF IInv, Owners, StillSeated
  <2>4. QED
    BY <1>2, <2>1, <2>2, <2>3
<1>3. QED
  BY <1>1, <1>2

LEMMA Moves ==
    ASSUME IInv, NEW w \in Workers, NEW j \in Jobs, Become(w, j),
           j.pc \in Holding => lock'[j.app] = w,
           \A a \in Apps : lock'[a] = lock[a] \/ lock[a] \in {w, Nobody},
           j.pc \in {"seat", "activate"} => app'[j.app] \in Live,
           \A a \in Apps : app[a] \in Live => app'[a] \in Live \/ lock[a] = w,
           j.pc \in {"consume", "finalize"} => student'[j.app].held,
           \A a \in Apps : student[a].held => student'[a].held \/ lock[a] = w
    PROVE  Owners' /\ StillLive' /\ StillSeated' /\ job' \in [Workers -> Jobs]
<1>1. job' \in [Workers -> Jobs]
  BY OneMoves DEF IInv
<1>2. Owners'
  BY OwnersMove
<1>3. StillLive'
  BY LiveMove
<1>4. StillSeated'
  BY SeatedMove
<1>5. QED
  BY <1>1, <1>2, <1>3, <1>4

-----------------------------------------------------------------------------
(* What the statements do to the rows.                                     *)

LEMMA WriteKeeps ==
    ASSUME TypeOK, NEW a \in Apps, NEW state \in Live \cup {"activated", "rejected"},
           Write(a, state)
    PROVE  /\ app' \in [Apps -> Live \cup {"activated", "rejected"}]
           /\ \A x \in Apps \ {a} : app'[x] = app[x]
           /\ app[a] \in Live => app'[a] = state
           /\ app[a] \notin Live => app'[a] = app[a]
BY DEF TypeOK, Write

LEMMA LockKeeps ==
    ASSUME TypeOK, NEW a \in Apps, NEW v \in Workers \cup {Nobody}, Lock(a, v)
    PROVE  /\ lock' \in [Apps -> Workers \cup {Nobody}]
           /\ lock'[a] = v
           /\ \A x \in Apps \ {a} : lock'[x] = lock[x]
BY DEF TypeOK, Lock

LEMMA SeatKeeps ==
    ASSUME TypeOK, NEW a \in Apps, NEW b \in Buses, ~Refused(a, b), SeatGiven(a, b)
    PROVE  /\ load' \in [Buses -> Nat] /\ \A x \in Buses : load'[x] <= Capacity[x]
           /\ student' \in [Apps -> Student]
           /\ student'[a].held
           /\ \A x \in Apps \ {a} : student'[x] = student[x]
<1>1. Capacity \in [Buses -> Nat]
  BY AdmissionsAssumption
<1>2. load' \in [Buses -> Nat] /\ \A x \in Buses : load'[x] <= Capacity[x]
  <2>1. CASE HoldsSeat(a, b)
    BY <2>1 DEF SeatGiven, TypeOK
  <2>2. CASE ~HoldsSeat(a, b)
    <3>1. load[b] + 1 <= Capacity[b] /\ load[b] \in Nat
      BY <1>1, <2>2 DEF Refused, Full, TypeOK
    <3>2. load' = [load EXCEPT ![b] = load[b] + 1]
      BY <2>2 DEF SeatGiven
    <3>3. QED
      BY <1>1, <3>1, <3>2 DEF TypeOK
  <2>3. QED
    BY <2>1, <2>2
<1>3. student' = [student EXCEPT ![a] = [bus |-> b, held |-> TRUE]]
  BY DEF SeatGiven
<1>4. QED
  BY <1>2, <1>3 DEF TypeOK, Student

LEMMA LessKeeps ==
    ASSUME TypeOK, NEW b \in Buses
    PROVE  /\ OneLess(b) \in [Buses -> Nat]
           /\ \A x \in Buses : OneLess(b)[x] <= Capacity[x]
<1>1. Capacity \in [Buses -> Nat]
  BY AdmissionsAssumption
<1>2. \A x \in Buses : OneLess(b)[x] \in Nat /\ OneLess(b)[x] <= load[x]
  BY DEF OneLess, TypeOK
<1>3. OneLess(b) \in [Buses -> Nat]
  BY DEF OneLess, TypeOK
<1>4. QED
  BY <1>1, <1>2, <1>3 DEF TypeOK

-----------------------------------------------------------------------------
(* Runs.                                                                   *)

LEMMA BeginJob ==
    ASSUME TypeOK, NEW by \in {"cron", "all", "one"}, NEW list \in SUBSET Apps
    PROVE  LET j == [pc |-> "next", by |-> by, todo |-> list, app |-> "none", bus |-> "none",
                     rest |-> FreeBuses, missed |-> FALSE, current |-> begun]
           IN  j \in Jobs /\ j.pc = "next"
<1>1. FreeBuses \in SUBSET Buses /\ begun \in BOOLEAN
  BY DEF FreeBuses, TypeOK
<1>2. QED
  BY <1>1 DEF Jobs, Between

(* A step that changes nothing but what one worker is doing. *)
LEMMA JustMoves ==
    ASSUME IInv, Alone', NEW w \in Workers, NEW j \in Jobs, Become(w, j),
           j.pc \in {"seat", "activate"} => app[j.app] \in Live,
           j.pc \in {"consume", "finalize"} => student[j.app].held,
           j.pc \in Holding => lock[j.app] = w,
           UNCHANGED <<rows, begun>>, marked' \in BOOLEAN,
           blocking' \in {"due", "none", "marked"}
    PROVE  IInv'
<1>1. lock' = lock /\ app' = app /\ student' = student /\ load' = load /\ begun' = begun
  BY DEF rows
<1>2. Owners' /\ StillLive' /\ StillSeated' /\ job' \in [Workers -> Jobs]
  BY <1>1, Moves
<1>3. TypeOK'
  BY <1>1, <1>2 DEF IInv, TypeOK
<1>4. QED
  BY <1>2, <1>3 DEF IInv

(* A step that takes or gives up a lock that is free or one's own. *)
LEMMA LockMoves ==
    ASSUME IInv, Alone', NEW w \in Workers, NEW j \in Jobs, Become(w, j),
           NEW a \in Apps, NEW v \in Workers \cup {Nobody}, Lock(a, v),
           lock[a] \in {w, Nobody},
           j.pc = "activate" => app[j.app] \in Live,
           j.pc \notin {"seat", "consume", "finalize"},
           j.pc \in Holding => j.app = a /\ v = w,
           UNCHANGED <<app, load, student, calendar>>
    PROVE  IInv'
<1>1. app' = app /\ student' = student /\ load' = load /\ UNCHANGED <<begun, blocking, marked>>
  BY DEF calendar
<1>2. /\ lock' \in [Apps -> Workers \cup {Nobody}]
      /\ lock'[a] = v
      /\ \A x \in Apps \ {a} : lock'[x] = lock[x]
  BY LockKeeps DEF IInv
<1>3. \A x \in Apps : lock'[x] = lock[x] \/ lock[x] \in {w, Nobody}
  BY <1>2
<1>4. Owners' /\ StillLive' /\ StillSeated' /\ job' \in [Workers -> Jobs]
  BY <1>1, <1>2, <1>3, Moves
<1>5. TypeOK'
  BY <1>1, <1>2, <1>4 DEF IInv, TypeOK
<1>6. QED
  BY <1>4, <1>5 DEF IInv

(* A step that gives a seat. *)
LEMMA SeatMoves ==
    ASSUME IInv, Alone', NEW w \in Workers, NEW j \in Jobs, Become(w, j),
           NEW a \in Apps, NEW b \in Buses, ~Refused(a, b), SeatGiven(a, b),
           j.pc \notin {"seat", "activate"},
           j.pc \in Holding => j.app = a /\ lock[a] = w,
           UNCHANGED <<app, lock, calendar>>
    PROVE  IInv'
<1>1. app' = app /\ lock' = lock /\ UNCHANGED <<begun, blocking, marked>>
  BY DEF calendar
<1>2. /\ load' \in [Buses -> Nat] /\ \A x \in Buses : load'[x] <= Capacity[x]
      /\ student' \in [Apps -> Student]
      /\ student'[a].held
      /\ \A x \in Apps \ {a} : student'[x] = student[x]
  BY SeatKeeps DEF IInv
<1>3. j.pc \in {"consume", "finalize"} => student'[j.app].held
  BY <1>2 DEF Holding, RunPcs
<1>4. \A x \in Apps : student[x].held => student'[x].held \/ lock[x] = w
  BY <1>2
<1>5. Owners' /\ StillLive' /\ StillSeated' /\ job' \in [Workers -> Jobs]
  BY <1>1, <1>3, <1>4, Moves
<1>6. TypeOK'
  BY <1>1, <1>2, <1>5 DEF IInv, TypeOK
<1>7. QED
  BY <1>5, <1>6 DEF IInv

(* A step that writes to an application: its end is for the owner of the   *)
(* lock only.                                                              *)
LEMMA WriteMoves ==
    ASSUME IInv, Alone', NEW w \in Workers, NEW j \in Jobs, Become(w, j),
           NEW a \in Apps, NEW state \in Live \cup {"activated", "rejected"},
           Write(a, state), state \notin Live => lock[a] = w,
           \/ lock' = lock /\ (j.pc \in Holding => j.app = a /\ lock[a] = w)
           \/ Lock(a, Nobody) /\ lock[a] \in {w, Nobody} /\ j.pc \notin Holding,
           j.pc \notin {"seat", "activate", "consume", "finalize"},
           UNCHANGED <<load, student, calendar>>
    PROVE  IInv'
<1>1. load' = load /\ student' = student /\ UNCHANGED <<begun, blocking, marked>>
  BY DEF calendar
<1>2. /\ app' \in [Apps -> Live \cup {"activated", "rejected"}]
      /\ \A x \in Apps \ {a} : app'[x] = app[x]
      /\ app[a] \in Live => app'[a] = state
  BY WriteKeeps DEF IInv
<1>3. \A x \in Apps : app[x] \in Live => app'[x] \in Live \/ lock[x] = w
  BY <1>2
<1>4. /\ lock' \in [Apps -> Workers \cup {Nobody}]
      /\ \A x \in Apps : lock'[x] = lock[x] \/ lock[x] \in {w, Nobody}
      /\ j.pc \in Holding => lock'[j.app] = w
  <2>1. CASE lock' = lock /\ (j.pc \in Holding => j.app = a /\ lock[a] = w)
    BY <2>1 DEF IInv, TypeOK
  <2>2. CASE Lock(a, Nobody) /\ lock[a] \in {w, Nobody} /\ j.pc \notin Holding
    BY <2>2, LockKeeps DEF IInv
  <2>3. QED
    BY <2>1, <2>2
<1>5. Owners' /\ StillLive' /\ StillSeated' /\ job' \in [Workers -> Jobs]
  BY <1>1, <1>3, <1>4, Moves
<1>6. TypeOK'
  BY <1>1, <1>2, <1>4, <1>5 DEF IInv, TypeOK
<1>7. QED
  BY <1>5, <1>6 DEF IInv

LEMMA BeginningsKeep ==
    ASSUME IInv, Alone',
           \/ \E k \in Crons : CronRun(k)
           \/ \E s \in Staff : RunForAll(s) \/ \E a \in Apps : RunForOne(s, a)
    PROVE  IInv'
<1>1. TypeOK
  BY DEF IInv
<1>2. ASSUME NEW k \in Crons, CronRun(k) PROVE IInv'
  <2> DEFINE list == {a \in Apps : app[a] = "verified_upcoming"}
             j == [pc |-> "next", by |-> "cron", todo |-> list, app |-> "none", bus |-> "none",
                   rest |-> FreeBuses, missed |-> FALSE, current |-> begun]
  <2>1. j \in Jobs /\ j.pc = "next"
    BY <1>1, BeginJob
  <2>2. Become(k, j)
    BY <1>2 DEF CronRun, Begin
  <2>3. UNCHANGED <<rows, begun>> /\ marked' \in BOOLEAN /\ blocking' = "marked" /\ k \in Workers
    BY <1>1, <1>2 DEF CronRun, TypeOK, Workers
  <2> HIDE DEF j
  <2>4. QED
    BY <2>1, <2>2, <2>3, JustMoves DEF Holding, RunPcs
<1>3. ASSUME NEW s \in Staff, RunForAll(s) PROVE IInv'
  <2> DEFINE list == {a \in Apps : app[a] = "verified_upcoming"}
             j == [pc |-> "next", by |-> "all", todo |-> list, app |-> "none", bus |-> "none",
                   rest |-> FreeBuses, missed |-> FALSE, current |-> begun]
  <2>1. j \in Jobs /\ j.pc = "next"
    BY <1>1, BeginJob
  <2>2. Become(s, j)
    BY <1>3 DEF RunForAll, Begin
  <2>3. UNCHANGED <<rows, begun>> /\ marked' \in BOOLEAN /\ s \in Workers
        /\ blocking' \in {"due", "none", "marked"}
    BY <1>1, <1>3 DEF RunForAll, TypeOK, Workers, calendar
  <2> HIDE DEF j
  <2>4. QED
    BY <2>1, <2>2, <2>3, JustMoves DEF Holding, RunPcs
<1>4. ASSUME NEW s \in Staff, NEW a \in Apps, RunForOne(s, a) PROVE IInv'
  <2> DEFINE j == [pc |-> "next", by |-> "one", todo |-> {a}, app |-> "none", bus |-> "none",
                   rest |-> FreeBuses, missed |-> FALSE, current |-> begun]
  <2>1. j \in Jobs /\ j.pc = "next"
    BY <1>1, BeginJob
  <2>2. Become(s, j)
    BY <1>4 DEF RunForOne, Begin
  <2>3. UNCHANGED <<rows, begun>> /\ marked' \in BOOLEAN /\ s \in Workers
        /\ blocking' \in {"due", "none", "marked"}
    BY <1>1, <1>4 DEF RunForOne, TypeOK, Workers, calendar
  <2> HIDE DEF j
  <2>4. QED
    BY <2>1, <2>2, <2>3, JustMoves DEF Holding, RunPcs
<1>5. QED
  BY <1>2, <1>3, <1>4

-----------------------------------------------------------------------------
(* A worker at work on an application holds its lock. *)
LEMMA AtWorkFacts ==
    ASSUME IInv, NEW w \in Workers, job[w].pc \in RunPcs
    PROVE  /\ job[w] \in AtWork /\ job[w].app \in Apps /\ job[w].bus \in Buses
           /\ lock[job[w].app] = w
BY WorkKinds DEF IInv, TypeOK, Owners, Holding

LEMMA ServingFacts ==
    ASSUME IInv, NEW s \in Staff, job[s].pc \in StaffPcs
    PROVE  /\ job[s] \in Serving /\ job[s].app \in Apps /\ job[s].bus \in Buses
           /\ job[s].pc \in Holding => lock[job[s].app] = s
           /\ s \in Workers
BY WorkKinds DEF IInv, TypeOK, Owners, Workers

(* Who still writes to an application whose lock was given up is alone. *)
LEMMA WritersAreAlone ==
    ASSUME IInv, NEW s \in Staff, job[s].pc \in {"verify", "verified", "queue"}
    PROVE  lock[job[s].app] \in {s, Nobody}
BY ServingFacts DEF IInv, Alone, Writing, StaffPcs

LEMMA ClaimsKeep ==
    ASSUME IInv, Alone', NEW w \in Workers, NEW a \in Apps, ClaimNext(w, a) \/ ClaimErr(w, a)
    PROVE  IInv'
<1> DEFINE past == [job[w] EXCEPT !.todo = @ \ {a}]
           take == [job[w] EXCEPT !.pc = "look", !.app = a, !.bus = Asked[a]]
<1>1. job[w] \in Between
  BY WorkKinds DEF ClaimNext, ClaimErr, IInv, TypeOK
<1>2. past \in Jobs /\ past.pc = "next"
  BY <1>1 DEF Between, Jobs
<1>3. take \in Jobs /\ take.pc = "look" /\ take.app = a
  <2>1. Asked[a] \in Buses
    BY AdmissionsAssumption
  <2>2. take \in AtWork
    BY <1>1, <2>1 DEF Between, AtWork, RunPcs
  <2>3. take.pc = "look" /\ take.app = a
    BY <1>1 DEF Between
  <2>4. QED
    BY <2>2, <2>3 DEF Jobs
<1>4. UNCHANGED <<app, load, student, calendar>>
  BY DEF ClaimNext, ClaimErr
<1> HIDE DEF past, take
<1>5. CASE Claimable(a, Activable) /\ Lock(a, w) /\ Become(w, take)
  BY <1>3, <1>4, <1>5, LockMoves DEF Claimable
<1>6. CASE Claimable(a, Activable) /\ Lock(a, w) /\ Become(w, past)
  BY <1>2, <1>4, <1>6, LockMoves DEF Claimable, Holding, RunPcs
<1>7. CASE UNCHANGED lock /\ Become(w, past)
  <2>1. UNCHANGED <<rows, begun>> /\ marked' \in BOOLEAN /\ blocking' \in {"due", "none", "marked"}
    BY <1>4, <1>7 DEF IInv, TypeOK, rows, calendar
  <2>2. QED
    BY <1>2, <1>7, <2>1, JustMoves DEF Holding, RunPcs
<1>8. QED
  BY <1>5, <1>6, <1>7 DEF ClaimNext, ClaimErr, past, take

LEMMA JustGoesOn ==
    ASSUME IInv, Alone', NEW w \in Workers, job[w].pc \in RunPcs, NEW pc \in RunPcs,
           Goto(w, pc), UNCHANGED <<rows, calendar>>,
           pc = "seat" => app[job[w].app] \in Live,
           pc # "consume"
    PROVE  IInv'
<1> DEFINE g == [job[w] EXCEPT !.pc = pc]
<1>1. job[w] \in AtWork /\ job[w].app \in Apps /\ lock[job[w].app] = w
  BY AtWorkFacts
<1>2. g \in Jobs /\ g.pc = pc /\ g.app = job[w].app
  BY <1>1, GoOnRun
<1>3. Become(w, g)
  BY DEF Goto
<1>4. UNCHANGED <<rows, begun>> /\ marked' \in BOOLEAN /\ blocking' \in {"due", "none", "marked"}
  BY DEF calendar, IInv, TypeOK
<1> HIDE DEF g
<1>5. QED
  BY <1>1, <1>2, <1>3, <1>4, JustMoves DEF RunPcs

LEMMA LookKeeps ==
    ASSUME IInv, Alone', NEW w \in Workers, Look(w)
    PROVE  IInv'
<1>1. CASE app[job[w].app] \in Activable
  BY <1>1, JustGoesOn DEF Look, RunPcs, Activable, Live
<1>2. CASE app[job[w].app] \notin Activable
  BY <1>2, JustGoesOn DEF Look, RunPcs
<1>3. QED
  BY <1>1, <1>2

LEMMA TakeSeatKeeps ==
    ASSUME IInv, Alone', NEW w \in Workers, TakeSeat(w)
    PROVE  IInv'
<1> DEFINE g == [job[w] EXCEPT !.pc = "consume"]
<1>1. job[w] \in AtWork /\ job[w].app \in Apps /\ job[w].bus \in Buses /\ lock[job[w].app] = w
  BY AtWorkFacts DEF TakeSeat, RunPcs
<1>2. g \in Jobs /\ g.pc = "consume" /\ g.app = job[w].app
  BY <1>1, GoOnRun DEF RunPcs
<1>3. Become(w, g)
  BY DEF TakeSeat, Goto
<1> HIDE DEF g
<1>4. QED
  BY <1>1, <1>2, <1>3, SeatMoves DEF TakeSeat

LEMMA TryElsewhereKeeps ==
    ASSUME IInv, Alone', NEW w \in Workers, TryElsewhere(w)
    PROVE  IInv'
<1>1. job[w] \in AtWork /\ job[w].app \in Apps /\ lock[job[w].app] = w
  BY AtWorkFacts DEF TryElsewhere, RunPcs
<1>2. CASE Goto(w, "wait")
  BY <1>2, JustGoesOn DEF TryElsewhere, RunPcs
<1>3. ASSUME NEW b \in Left(w),
             Become(w, [job[w] EXCEPT !.pc = "look", !.bus = b, !.rest = Left(w)])
      PROVE  IInv'
  <2> DEFINE g == [job[w] EXCEPT !.pc = "look", !.bus = b, !.rest = Left(w)]
  <2>1. Left(w) \in SUBSET Buses
    BY <1>1 DEF Left, AtWork, FreeBuses
  <2>2. g \in AtWork
    BY <1>1, <2>1 DEF AtWork, RunPcs
  <2>3. g.pc = "look" /\ g.app = job[w].app
    BY <1>1 DEF AtWork
  <2>4. UNCHANGED <<rows, begun>> /\ marked' \in BOOLEAN /\ blocking' \in {"due", "none", "marked"}
    BY DEF TryElsewhere, calendar, IInv, TypeOK
  <2>5. g \in Jobs /\ Become(w, g)
    BY <1>3, <2>2 DEF Jobs
  <2> HIDE DEF g
  <2>6. QED
    BY <1>1, <2>3, <2>4, <2>5, JustMoves
<1>4. QED
  BY <1>2, <1>3 DEF TryElsewhere

(* The step to the next application. *)
LEMMA AdvanceJob ==
    ASSUME IInv, NEW w \in Workers, job[w].pc \in RunPcs, NEW missed \in BOOLEAN
    PROVE  \E j \in Jobs : j.pc = "next" /\ (Advance(w, missed) => Become(w, j))
BY AtWorkFacts, GoToNext DEF Advance

LEMMA ConsumeKeeps ==
    ASSUME IInv, Alone', NEW w \in Workers, Consume(w)
    PROVE  IInv'
<1>1. job[w].app \in Apps /\ lock[job[w].app] = w
  BY AtWorkFacts DEF Consume, RunPcs
<1>2. PICK j \in Jobs : j.pc = "next" /\ Become(w, j)
  BY AdvanceJob DEF Consume, RunPcs
<1>3. Lock(job[w].app, Nobody)
  BY DEF Consume, Lock
<1>4. Write(job[w].app, "activated") /\ UNCHANGED <<load, student, calendar>>
  BY DEF Consume
<1>5. QED
  BY <1>1, <1>2, <1>3, <1>4, WriteMoves DEF Holding, RunPcs

LEMMA WaitKeeps ==
    ASSUME IInv, Alone', NEW w \in Workers, Wait(w)
    PROVE  IInv'
<1> DEFINE g == [job[w] EXCEPT !.pc = "release"]
<1>1. job[w] \in AtWork /\ job[w].app \in Apps /\ lock[job[w].app] = w
  BY AtWorkFacts DEF Wait, RunPcs
<1>2. g \in Jobs /\ g.pc = "release" /\ g.app = job[w].app
  BY <1>1, GoOnRun DEF RunPcs
<1>3. Become(w, g)
  BY DEF Wait, Goto
<1>4. Write(job[w].app, "pending_seat_allocation") /\ lock' = lock
      /\ UNCHANGED <<load, student, calendar>>
  BY DEF Wait
<1> HIDE DEF g
<1>5. QED
  BY <1>1, <1>2, <1>3, <1>4, WriteMoves DEF Live

LEMMA ReleaseKeeps ==
    ASSUME IInv, Alone', NEW w \in Workers, Release(w) \/ ReleaseErr(w)
    PROVE  IInv'
<1>1. job[w].app \in Apps /\ lock[job[w].app] = w
  BY AtWorkFacts DEF Release, ReleaseErr, RunPcs
<1>2. PICK j \in Jobs : j.pc = "next" /\ Become(w, j)
  BY AdvanceJob DEF Release, ReleaseErr, RunPcs
<1>3. j.pc \notin Holding
  BY <1>2 DEF Holding, RunPcs
<1>4. CASE Release(w)
  <2>1. Lock(job[w].app, Nobody) /\ UNCHANGED <<app, load, student, calendar>>
    BY <1>1, <1>4 DEF Release, Lock
  <2>2. QED
    BY <1>1, <1>2, <1>3, <2>1, LockMoves
<1>5. CASE ReleaseErr(w)
  <2>1. UNCHANGED <<rows, begun>> /\ marked' \in BOOLEAN /\ blocking' \in {"due", "none", "marked"}
    BY <1>5 DEF ReleaseErr, calendar, IInv, TypeOK
  <2>2. QED
    BY <1>2, <1>3, <2>1, JustMoves
<1>6. QED
  BY <1>4, <1>5

LEMMA RunErrKeeps ==
    ASSUME IInv, Alone', NEW w \in Workers, RunErr(w)
    PROVE  IInv'
<1> DEFINE a == job[w].app
           pc == IF job[w].bus = Asked[a] THEN "release" ELSE "wait"
           g == [job[w] EXCEPT !.pc = pc]
<1>1. job[w] \in AtWork /\ a \in Apps /\ job[w].bus \in Buses /\ lock[a] = w
  BY AtWorkFacts DEF RunErr, RunPcs
<1>2. pc \in {"release", "wait"} /\ pc \in RunPcs
  BY DEF RunPcs
<1>3. g \in Jobs /\ g.pc = pc /\ g.app = a
  BY <1>1, <1>2, GoOnRun
<1>4. Goto(w, pc) /\ Become(w, g) /\ UNCHANGED calendar
  BY DEF RunErr, Goto
<1> HIDE DEF g, pc
<1>5. CASE UNCHANGED rows
  BY <1>1, <1>2, <1>4, <1>5, JustGoesOn DEF RunErr, RunPcs
<1>6. CASE job[w].pc = "seat" /\ ~Refused(a, job[w].bus) /\ SeatGiven(a, job[w].bus)
             /\ UNCHANGED <<app, lock>>
  BY <1>1, <1>2, <1>3, <1>4, <1>6, SeatMoves
<1>7. CASE Write(a, "activated") /\ UNCHANGED <<lock, load, student>>
  BY <1>1, <1>2, <1>3, <1>4, <1>7, WriteMoves
<1>8. QED
  BY <1>5, <1>6, <1>7 DEF RunErr

LEMMA WaitErrKeeps ==
    ASSUME IInv, Alone', NEW w \in Workers, WaitErr(w)
    PROVE  IInv'
BY JustGoesOn DEF WaitErr, RunPcs

(* The end of a run, its marker, and a death. *)
LEMMA EndingsKeep ==
    ASSUME IInv, Alone', NEW w \in Workers, Finish(w) \/ Mark(w) \/ Dies(w)
    PROVE  IInv'
<1>1. UNCHANGED <<rows, begun>> /\ marked' \in BOOLEAN /\ blocking' \in {"due", "none", "marked"}
  BY DEF Finish, Mark, Dies, calendar, IInv, TypeOK
<1>2. Become(w, Idle) \/ Become(w, Marking)
  BY DEF Finish, Mark, Dies
<1>3. QED
  BY <1>1, <1>2, RestJobs, JustMoves DEF Holding, RunPcs

-----------------------------------------------------------------------------
(* Staff.                                                                  *)

LEMMA ServeJob ==
    ASSUME NEW pc \in StaffPcs, NEW a \in Apps, NEW b \in Buses
    PROVE  LET j == [pc |-> pc, app |-> a, bus |-> b]
           IN  j \in Jobs /\ j.pc = pc /\ j.app = a
BY DEF Jobs, Serving

LEMMA ClaimsOfStaffKeep ==
    ASSUME IInv, Alone', NEW s \in Staff, NEW a \in Apps, Approve(s, a) \/ Reject(s, a)
    PROVE  IInv'
<1>1. s \in Workers /\ Asked[a] \in Buses
  BY AdmissionsAssumption DEF Workers
<1>2. PICK pc \in {"openVerify", "openQueue", "activate", "deny"}, b \in Buses :
         Become(s, [pc |-> pc, app |-> a, bus |-> b])
  BY <1>1 DEF Approve, Reject, Serve
<1> DEFINE j == [pc |-> pc, app |-> a, bus |-> b]
<1>3. j \in Jobs /\ j.pc = pc /\ j.app = a
  BY ServeJob DEF StaffPcs
<1>4. /\ Lock(a, s) /\ lock[a] = Nobody /\ app[a] \in Live
      /\ UNCHANGED <<app, load, student, calendar>>
  BY DEF Approve, Reject, Claimable, Approvable, Live
<1> HIDE DEF j
<1>5. QED
  BY <1>1, <1>2, <1>3, <1>4, LockMoves DEF j

LEMMA StaffGoesOn ==
    ASSUME IInv, Alone', NEW s \in Staff, job[s].pc \in StaffPcs, NEW pc \in StaffPcs,
           Goto(s, pc), UNCHANGED <<rows, calendar>>,
           pc \notin {"activate", "finalize"},
           pc \in Holding => job[s].pc \in Holding
    PROVE  IInv'
<1> DEFINE g == [job[s] EXCEPT !.pc = pc]
<1>1. job[s] \in Serving /\ s \in Workers /\ (job[s].pc \in Holding => lock[job[s].app] = s)
  BY ServingFacts
<1>2. g \in Jobs /\ g.pc = pc /\ g.app = job[s].app
  BY <1>1, GoOnServing
<1>3. Become(s, g)
  BY DEF Goto
<1>4. UNCHANGED <<rows, begun>> /\ marked' \in BOOLEAN /\ blocking' \in {"due", "none", "marked"}
  BY DEF calendar, IInv, TypeOK
<1> HIDE DEF g
<1>5. QED
  BY <1>1, <1>2, <1>3, <1>4, JustMoves DEF StaffPcs

LEMMA StaffStops ==
    ASSUME IInv, Alone', NEW s \in Staff, Become(s, Idle), UNCHANGED <<rows, calendar>>
    PROVE  IInv'
<1>1. UNCHANGED <<rows, begun>> /\ marked' \in BOOLEAN /\ blocking' \in {"due", "none", "marked"}
  BY DEF calendar, IInv, TypeOK
<1>2. QED
  BY <1>1, RestJobs, JustMoves DEF Holding, RunPcs, Workers

LEMMA OpenKeeps ==
    ASSUME IInv, Alone', NEW s \in Staff, Open(s)
    PROVE  IInv'
<1> DEFINE pc == IF job[s].pc = "openVerify" THEN "verify" ELSE "queue"
           g == [job[s] EXCEPT !.pc = pc]
<1>1. job[s] \in Serving /\ job[s].app \in Apps /\ s \in Workers /\ lock[job[s].app] = s
  BY ServingFacts DEF Open, StaffPcs, Holding
<1>2. pc \in StaffPcs /\ pc \in {"verify", "queue"}
  BY DEF StaffPcs
<1>3. g \in Jobs /\ g.pc = pc
  BY <1>1, <1>2, GoOnServing
<1>4. Goto(s, pc) /\ Become(s, g) /\ UNCHANGED <<app, load, student, calendar>>
  BY DEF Open, Goto
<1> HIDE DEF g, pc
<1>5. CASE Lock(job[s].app, Nobody)
  BY <1>1, <1>2, <1>3, <1>4, <1>5, LockMoves DEF Holding, RunPcs
<1>6. CASE UNCHANGED lock
  <2>1. UNCHANGED <<rows, calendar>>
    BY <1>4, <1>6 DEF rows
  <2>2. QED
    BY <1>2, <1>4, <2>1, StaffGoesOn DEF Open, StaffPcs, Holding, RunPcs
<1>7. QED
  BY <1>5, <1>6 DEF Open

LEMMA VerifyUpcomingKeeps ==
    ASSUME IInv, Alone', NEW s \in Staff, NEW a \in Apps, VerifyUpcoming(s, a)
    PROVE  IInv'
<1> DEFINE j == [pc |-> "verify", app |-> a, bus |-> Asked[a]]
<1>1. s \in Workers /\ Asked[a] \in Buses
  BY AdmissionsAssumption DEF Workers
<1>2. j \in Jobs /\ j.pc = "verify"
  BY <1>1, ServeJob DEF StaffPcs
<1>3. Become(s, j) /\ UNCHANGED <<rows, begun>>
  BY DEF VerifyUpcoming, Serve, calendar
<1>4. marked' \in BOOLEAN /\ blocking' \in {"due", "none", "marked"}
  BY DEF VerifyUpcoming, calendar, IInv, TypeOK
<1> HIDE DEF j
<1>5. QED
  BY <1>1, <1>2, <1>3, <1>4, JustMoves DEF Holding, RunPcs

LEMMA VerificationKeeps ==
    ASSUME IInv, Alone', NEW s \in Staff, Verify(s) \/ Verified(s) \/ Queue(s)
    PROVE  IInv'
<1>1. CASE Verify(s) /\ Goto(s, "verified")
  BY <1>1, StaffGoesOn DEF Verify, StaffPcs, Holding, RunPcs
<1>2. CASE Verify(s) /\ Become(s, Idle)
  BY <1>2, StaffStops DEF Verify
<1>3. CASE Verified(s)
  <2>1. job[s].app \in Apps /\ s \in Workers
    BY <1>3, ServingFacts DEF Verified, StaffPcs
  <2>2. "verified_upcoming" \in Live
    BY DEF Live
  <2>3. QED
    BY <1>3, <2>1, <2>2, RestJobs, WriteMoves DEF Verified, Holding, RunPcs
<1>4. CASE Queue(s)
  <2>1. job[s].app \in Apps /\ s \in Workers /\ lock[job[s].app] \in {s, Nobody}
    BY <1>4, ServingFacts, WritersAreAlone DEF Queue, StaffPcs
  <2>2. "pending_seat_allocation" \in Live
    BY DEF Live
  <2>3. QED
    BY <1>4, <2>1, <2>2, RestJobs, WriteMoves DEF Queue, Holding, RunPcs
<1>5. QED
  BY <1>1, <1>2, <1>3, <1>4 DEF Verify

LEMMA ActivateKeeps ==
    ASSUME IInv, Alone', NEW s \in Staff, Activate(s)
    PROVE  IInv'
<1>1. CASE Refused(job[s].app, job[s].bus)
  BY <1>1, StaffGoesOn DEF Activate, StaffPcs, Holding, RunPcs, rows
<1>2. CASE ~Refused(job[s].app, job[s].bus)
  <2> DEFINE g == [job[s] EXCEPT !.pc = "finalize"]
  <2>1. /\ job[s] \in Serving /\ job[s].app \in Apps /\ job[s].bus \in Buses
        /\ s \in Workers /\ lock[job[s].app] = s
    BY ServingFacts DEF Activate, StaffPcs, Holding
  <2>2. g \in Jobs /\ g.pc = "finalize" /\ g.app = job[s].app
    BY <2>1, GoOnServing DEF StaffPcs
  <2>3. Become(s, g) /\ SeatGiven(job[s].app, job[s].bus)
    BY <1>2 DEF Activate, Goto
  <2> HIDE DEF g
  <2>4. QED
    BY <1>2, <2>1, <2>2, <2>3, SeatMoves DEF Activate
<1>3. QED
  BY <1>1, <1>2

LEMMA FinalizeKeeps ==
    ASSUME IInv, Alone', NEW s \in Staff, Finalize(s)
    PROVE  IInv'
<1> DEFINE a == job[s].app
<1>1. a \in Apps /\ s \in Workers /\ lock[a] = s
  BY ServingFacts DEF Finalize, StaffPcs, Holding
<1>2. Write(a, "activated") /\ Lock(a, Nobody) /\ Become(s, Idle)
      /\ UNCHANGED <<load, student, calendar>>
  BY <1>1 DEF Finalize
<1>3. QED
  BY <1>1, <1>2, RestJobs, WriteMoves DEF Holding, RunPcs

LEMMA ApprovalErrKeeps ==
    ASSUME IInv, Alone', NEW s \in Staff, ApprovalErr(s)
    PROVE  IInv'
<1> DEFINE a == job[s].app
<1>1. CASE job[s].pc = "activate" /\ Goto(s, "unlock") /\ UNCHANGED app
  BY <1>1, StaffGoesOn DEF ApprovalErr, StaffPcs, Holding, RunPcs, rows
<1>2. CASE job[s].pc = "finalize" /\ Goto(s, "unmark") /\ UNCHANGED app
  BY <1>2, StaffGoesOn DEF ApprovalErr, StaffPcs, Holding, RunPcs, rows
<1>3. CASE job[s].pc = "finalize" /\ lock[a] = s /\ Write(a, "activated") /\ Goto(s, "unmark")
  <2> DEFINE g == [job[s] EXCEPT !.pc = "unmark"]
  <2>1. job[s] \in Serving /\ a \in Apps /\ s \in Workers
    BY <1>3, ServingFacts DEF StaffPcs
  <2>2. g \in Jobs /\ g.pc = "unmark" /\ g.app = a
    BY <2>1, GoOnServing DEF StaffPcs
  <2>3. Become(s, g) /\ lock' = lock /\ UNCHANGED <<load, student, calendar>>
    BY <1>3 DEF ApprovalErr, Goto
  <2> HIDE DEF g
  <2>4. QED
    BY <1>3, <2>1, <2>2, <2>3, WriteMoves
<1>4. QED
  BY <1>1, <1>2, <1>3 DEF ApprovalErr

(* A released mark takes the seat of nobody but the request's applicant. *)
LEMMA UnmarkKeeps ==
    ASSUME IInv, Alone', NEW s \in Staff, Unmark(s)
    PROVE  IInv'
<1> DEFINE a == job[s].app
           g == [job[s] EXCEPT !.pc = "giveBack"]
<1>1. job[s] \in Serving /\ a \in Apps /\ s \in Workers /\ lock[a] = s
  BY ServingFacts DEF Unmark, StaffPcs, Holding
<1>2. g \in Jobs /\ g.pc = "giveBack" /\ g.app = a
  BY <1>1, GoOnServing DEF StaffPcs
<1>3. Become(s, g) /\ UNCHANGED <<app, lock, load, begun, blocking, marked>>
  BY DEF Unmark, Goto, calendar
<1>4. student' \in [Apps -> Student] /\ \A x \in Apps \ {a} : student'[x] = student[x]
  <2>1. CASE student[a] = Absent
    BY <1>1, <2>1 DEF Unmark, IInv, TypeOK
  <2>2. CASE student[a] # Absent
    <3>1. student[a] \in [bus : Buses, held : BOOLEAN]
      BY <1>1, <2>2 DEF IInv, TypeOK, Student
    <3>2. [student[a] EXCEPT !.held = FALSE] \in Student
      BY <3>1 DEF Student
    <3>3. student' = [student EXCEPT ![a] = [student[a] EXCEPT !.held = FALSE]]
      BY <2>2 DEF Unmark
    <3>4. QED
      BY <1>1, <3>2, <3>3 DEF IInv, TypeOK
  <2>3. QED
    BY <2>1, <2>2
<1> HIDE DEF g
<1>5. Owners' /\ StillLive' /\ StillSeated' /\ job' \in [Workers -> Jobs]
  BY <1>1, <1>2, <1>3, <1>4, Moves
<1>6. TypeOK'
  BY <1>3, <1>4, <1>5 DEF IInv, TypeOK
<1>7. QED
  BY <1>5, <1>6 DEF IInv

LEMMA GiveBackKeeps ==
    ASSUME IInv, Alone', NEW s \in Staff, GiveBack(s)
    PROVE  IInv'
<1> DEFINE g == [job[s] EXCEPT !.pc = "unlock"]
<1>1. /\ job[s] \in Serving /\ job[s].app \in Apps /\ job[s].bus \in Buses
      /\ s \in Workers /\ lock[job[s].app] = s
  BY ServingFacts DEF GiveBack, StaffPcs, Holding
<1>2. g \in Jobs /\ g.pc = "unlock" /\ g.app = job[s].app
  BY <1>1, GoOnServing DEF StaffPcs
<1>3. Become(s, g) /\ UNCHANGED <<app, lock, student, begun, blocking, marked>>
  BY DEF GiveBack, Goto, calendar
<1>4. load' \in [Buses -> Nat] /\ \A x \in Buses : load'[x] <= Capacity[x]
  BY <1>1, LessKeeps DEF GiveBack, IInv
<1> HIDE DEF g
<1>5. Owners' /\ StillLive' /\ StillSeated' /\ job' \in [Workers -> Jobs]
  BY <1>1, <1>2, <1>3, Moves
<1>6. TypeOK'
  BY <1>3, <1>4, <1>5 DEF IInv, TypeOK
<1>7. QED
  BY <1>5, <1>6 DEF IInv

LEMMA UnlockKeeps ==
    ASSUME IInv, Alone', NEW s \in Staff, Unlock(s)
    PROVE  IInv'
<1>1. job[s].app \in Apps /\ s \in Workers /\ lock[job[s].app] = s
  BY ServingFacts DEF Unlock, StaffPcs, Holding
<1>2. QED
  BY <1>1, RestJobs, LockMoves DEF Unlock, Holding, RunPcs

LEMMA DenyKeeps ==
    ASSUME IInv, Alone', NEW s \in Staff, Deny(s)
    PROVE  IInv'
<1> DEFINE a == job[s].app
<1>1. a \in Apps /\ s \in Workers /\ lock[a] = s
  BY ServingFacts DEF Deny, StaffPcs, Holding
<1>2. CASE Write(a, "rejected") /\ Lock(a, Nobody) /\ Become(s, Idle)
  BY <1>1, <1>2, RestJobs, WriteMoves DEF Deny, Holding, RunPcs
<1>3. CASE UNCHANGED <<app, lock>> /\ Goto(s, "unlock")
  <2>1. UNCHANGED <<rows, calendar>>
    BY <1>3 DEF Deny, rows
  <2>2. QED
    BY <1>3, <2>1, StaffGoesOn DEF Deny, StaffPcs, Holding, RunPcs
<1>4. QED
  BY <1>1, <1>2, <1>3 DEF Deny

-----------------------------------------------------------------------------
(* Around them.                                                            *)

LEMMA CalendarKeeps ==
    ASSUME IInv, Alone', SessionBegins \/ SoftBlockEnds
    PROVE  IInv'
<1>1. UNCHANGED <<app, lock, load, student, job>>
  BY DEF SessionBegins, SoftBlockEnds, rows
<1>2. begun' \in BOOLEAN /\ marked' \in BOOLEAN /\ blocking' \in {"due", "none", "marked"}
  BY DEF SessionBegins, SoftBlockEnds, IInv, TypeOK
<1>3. Owners' /\ StillLive' /\ StillSeated'
  BY <1>1 DEF IInv, Owners, StillLive, StillSeated
<1>4. QED
  BY <1>1, <1>2, <1>3 DEF IInv, TypeOK

LEMMA LeavingKeeps ==
    ASSUME IInv, Alone', NEW a \in Apps, StudentLeaves(a)
    PROVE  IInv'
<1>1. UNCHANGED <<app, lock, job, begun, blocking, marked>>
  BY DEF StudentLeaves, calendar
<1>2. /\ student' \in [Apps -> Student]
      /\ \A x \in Apps \ {a} : student'[x] = student[x]
  BY DEF StudentLeaves, IInv, TypeOK, Student
<1>3. load' \in [Buses -> Nat] /\ \A x \in Buses : load'[x] <= Capacity[x]
  <2>1. student[a] \in [bus : Buses, held : BOOLEAN]
    BY DEF StudentLeaves, IInv, TypeOK, Student
  <2>2. student[a].bus \in Buses
    BY <2>1
  <2>3. CASE student[a].held
    BY <2>2, <2>3, LessKeeps DEF StudentLeaves, IInv
  <2>4. CASE ~student[a].held
    BY <2>4 DEF StudentLeaves, IInv, TypeOK
  <2>5. QED
    BY <2>3, <2>4
<1>4. StillSeated'
  <2> SUFFICES ASSUME NEW v \in Workers, job[v].pc \in {"consume", "finalize"}
               PROVE  student'[job[v].app].held
    BY <1>1 DEF StillSeated
  <2>1. job[v].app # a
    BY DEF StudentLeaves, Serves
  <2>2. job[v].app \in Apps
    BY WorkKinds DEF IInv, TypeOK, RunPcs, StaffPcs
  <2>3. QED
    BY <1>2, <2>1, <2>2 DEF IInv, StillSeated
<1>5. Owners' /\ StillLive'
  BY <1>1 DEF IInv, Owners, StillLive
<1>6. QED
  BY <1>1, <1>2, <1>3, <1>4, <1>5 DEF IInv, TypeOK

LEMMA ExpiryKeeps ==
    ASSUME IInv, Alone', NEW a \in Apps, LeaseExpires(a)
    PROVE  IInv'
<1>1. UNCHANGED <<app, load, student, job, begun, blocking, marked>>
  BY DEF LeaseExpires, calendar
<1>2. /\ lock' \in [Apps -> Workers \cup {Nobody}]
      /\ \A x \in Apps \ {a} : lock'[x] = lock[x]
  BY LockKeeps DEF LeaseExpires, IInv
<1>3. Owners'
  <2> SUFFICES ASSUME NEW v \in Workers, job[v].pc \in Holding
               PROVE  lock'[job[v].app] = v
    BY <1>1 DEF Owners
  <2>1. lock[job[v].app] = v /\ job[v].app \in Apps
    BY WorkKinds DEF IInv, TypeOK, Owners, Holding, StaffPcs
  <2>2. job[v].pc \notin {"idle", "mark"}
    BY DEF Holding, RunPcs
  <2>3. job[v].pc \notin {"verify", "verified"}
    BY DEF Holding, RunPcs
  <2>4. job[v].app # a
    BY <2>1, <2>2, <2>3 DEF LeaseExpires, Serves
  <2>5. QED
    BY <1>2, <2>1, <2>4
<1>4. StillLive' /\ StillSeated'
  BY <1>1 DEF IInv, StillLive, StillSeated
<1>5. QED
  BY <1>1, <1>2, <1>3, <1>4 DEF IInv, TypeOK

-----------------------------------------------------------------------------
LEMMA Initially == Init => IInv
<1> SUFFICES ASSUME Init PROVE IInv
  OBVIOUS
<1>1. \A w \in Workers : job[w] = Idle /\ job[w].pc = "idle"
  BY RestJobs DEF Init
<1>2. TypeOK
  <2>1. app \in [Apps -> Live \cup {"activated", "rejected"}]
    BY DEF Init, Live
  <2>2. lock \in [Apps -> Workers \cup {Nobody}]
    BY DEF Init
  <2>3. load \in [Buses -> Nat] /\ \A b \in Buses : load[b] <= Capacity[b]
    BY AdmissionsAssumption DEF Init
  <2>4. student \in [Apps -> Student]
    BY DEF Init, Student
  <2>5. job \in [Workers -> Jobs]
    BY RestJobs DEF Init
  <2>6. begun \in BOOLEAN /\ marked \in BOOLEAN /\ blocking \in {"due", "none", "marked"}
    BY DEF Init
  <2>7. QED
    BY <2>1, <2>2, <2>3, <2>4, <2>5, <2>6 DEF TypeOK
<1>3. Owners /\ StillLive /\ StillSeated
  BY <1>1 DEF Owners, StillLive, StillSeated, Holding, RunPcs
<1>4. Alone
  BY <1>1 DEF Alone, Writing, Workers
<1>5. QED
  BY <1>2, <1>3, <1>4 DEF IInv

LEMMA StepsKeep ==
    ASSUME IInv, Alone', Next
    PROVE  IInv'
<1>1. ASSUME NEW w \in Workers, RunStep(w) PROVE IInv'
  BY <1>1, ClaimsKeep, LookKeeps, TakeSeatKeeps, TryElsewhereKeeps, ConsumeKeeps, WaitKeeps,
     ReleaseKeeps, EndingsKeep DEF RunStep
<1>2. ASSUME NEW w \in Workers, Errs(w) PROVE IInv'
  BY <1>2, RunErrKeeps, WaitErrKeeps, ReleaseKeeps, EndingsKeep, ClaimsKeep DEF Errs
<1>3. ASSUME NEW s \in Staff, StaffStep(s) PROVE IInv'
  BY <1>3, OpenKeeps, VerificationKeeps, ActivateKeeps, FinalizeKeeps, UnmarkKeeps,
     GiveBackKeeps, UnlockKeeps, DenyKeeps DEF StaffStep
<1>4. QED
  BY <1>1, <1>2, <1>3, BeginningsKeep, ApprovalErrKeeps, ClaimsOfStaffKeep,
     VerifyUpcomingKeeps, CalendarKeeps, LeavingKeeps, ExpiryKeeps DEF Next

LEMMA StutteringKeeps == IInv /\ UNCHANGED vars => IInv'
BY DEF IInv, TypeOK, Owners, StillLive, StillSeated, Alone, Writing, vars, rows, calendar

(* The invariant of the calm behaviours: every variable keeps its range,   *)
(* who is past a claim holds the lock, and what was found behind the lock  *)
(* still holds: the application is live, or its applicant seated.          *)
THEOREM CalmInvariant == CalmSpec => []IInv
<1>1. Init => IInv
  BY Initially
<1>2. IInv /\ [Next /\ Alone']_vars => IInv'
  BY StepsKeep, StutteringKeeps
<1>3. QED
  BY <1>1, <1>2, PTL DEF CalmSpec

(* Every variable keeps its range, and no counter passes the capacity of   *)
(* its bus (identity_activate_student_with_capacity).                      *)
THEOREM CountersFitTheBuses == CalmSpec => []TypeOK
<1>1. IInv => TypeOK
  BY DEF IInv
<1>2. QED
  BY <1>1, CalmInvariant, PTL

-----------------------------------------------------------------------------
(* The steps that touch a student. *)
StudentStep ==
  \/ \E w \in Workers : TakeSeat(w) \/ RunErr(w)
  \/ \E s \in Staff : Activate(s) \/ Unmark(s)
  \/ \E a \in Apps : StudentLeaves(a)

LEMMA OthersLeaveStudents == Next => StudentStep \/ student' = student
<1> SUFFICES ASSUME Next PROVE StudentStep \/ student' = student
  OBVIOUS
<1>1. ASSUME NEW w \in Workers, RunStep(w) \/ Errs(w) PROVE StudentStep \/ student' = student
  BY <1>1 DEF RunStep, Errs, ClaimNext, Look, TryElsewhere, Consume, Wait, Release, Finish, Mark,
     WaitErr, ReleaseErr, ClaimErr, Dies, StudentStep, rows
<1>2. ASSUME NEW s \in Staff, StaffStep(s) \/ ApprovalErr(s) PROVE StudentStep \/ student' = student
  BY <1>2 DEF StaffStep, ApprovalErr, Open, Verify, Verified, Queue, Finalize, GiveBack, Unlock,
     Deny, StudentStep, rows
<1>3. ASSUME NEW s \in Staff, NEW a \in Apps,
             RunForOne(s, a) \/ Approve(s, a) \/ Reject(s, a) \/ VerifyUpcoming(s, a)
      PROVE  student' = student
  BY <1>3 DEF RunForOne, Approve, Reject, VerifyUpcoming, rows
<1>4. ASSUME NEW s \in Staff, RunForAll(s) PROVE student' = student
  BY <1>4 DEF RunForAll, rows
<1>5. ASSUME NEW k \in Crons, CronRun(k) PROVE student' = student
  BY <1>5 DEF CronRun, rows
<1>6. ASSUME SessionBegins \/ SoftBlockEnds PROVE student' = student
  BY <1>6 DEF SessionBegins, SoftBlockEnds, rows
<1>7. ASSUME NEW a \in Apps, LeaseExpires(a) PROVE student' = student
  BY <1>7 DEF LeaseExpires
<1>8. QED
  BY <1>1, <1>2, <1>3, <1>4, <1>5, <1>6, <1>7 DEF Next, StudentStep

LEMMA NobodySeatsTheRejected ==
    ASSUME IInv, Next, NEW a \in Apps, app[a] = "rejected", student'[a].held
    PROVE  student[a].held
<1>1. CASE student' = student
  BY <1>1
<1>2. ASSUME NEW w \in Workers, TakeSeat(w) \/ RunErr(w) PROVE student[a].held
  <2>1. CASE job[w].pc = "seat" /\ ~Refused(job[w].app, job[w].bus)
               /\ SeatGiven(job[w].app, job[w].bus)
    <3>1. job[w].app \in Apps /\ job[w].bus \in Buses
      BY <2>1, AtWorkFacts DEF RunPcs
    <3>2. app[job[w].app] \in Live
      BY <2>1 DEF IInv, StillLive
    <3>3. job[w].app # a
      BY <3>2 DEF Live
    <3>4. QED
      BY <2>1, <3>1, <3>3, SeatKeeps DEF IInv
  <2>2. CASE student' = student
    BY <2>2
  <2>3. QED
    BY <1>2, <2>1, <2>2 DEF TakeSeat, RunErr, rows
<1>3. ASSUME NEW s \in Staff, Activate(s) PROVE student[a].held
  <2>1. job[s].app \in Apps /\ job[s].bus \in Buses /\ s \in Workers
    BY <1>3, ServingFacts DEF Activate, StaffPcs
  <2>2. app[job[s].app] \in Live
    BY <1>3, <2>1 DEF Activate, IInv, StillLive
  <2>3. job[s].app # a
    BY <2>2 DEF Live
  <2>4. QED
    BY <1>3, <2>1, <2>3, SeatKeeps DEF Activate, IInv
<1>4. ASSUME NEW s \in Staff, Unmark(s) PROVE student[a].held
  BY <1>4 DEF Unmark, IInv, TypeOK, Student
<1>5. ASSUME NEW x \in Apps, StudentLeaves(x) PROVE student[a].held
  BY <1>5 DEF StudentLeaves, IInv, TypeOK, Absent
<1>6. QED
  BY <1>1, <1>2, <1>3, <1>4, <1>5, OthersLeaveStudents DEF StudentStep

(* No run that had listed or read an application, and no approval, gives   *)
(* its applicant a seat once the application is rejected.                  *)
THEOREM RejectionsAreFinal == CalmSpec => RejectedStaysOut
<1>1. IInv /\ [Next /\ Alone']_vars
        => [\A a \in Apps : app[a] = "rejected" /\ student'[a].held => student[a].held]_vars
  BY NobodySeatsTheRejected
<1>2. QED
  BY <1>1, CalmInvariant, PTL DEF CalmSpec, RejectedStaysOut

-----------------------------------------------------------------------------
(* The steps that touch an application. *)
ApplicationStep ==
  \/ \E w \in Workers : Consume(w) \/ RunErr(w) \/ Wait(w)
  \/ \E s \in Staff : Finalize(s) \/ ApprovalErr(s) \/ Verified(s) \/ Queue(s) \/ Deny(s)

LEMMA OthersLeaveApplications == Next => ApplicationStep \/ app' = app
<1> SUFFICES ASSUME Next PROVE ApplicationStep \/ app' = app
  OBVIOUS
<1>1. ASSUME NEW w \in Workers, RunStep(w) \/ Errs(w) PROVE ApplicationStep \/ app' = app
  BY <1>1 DEF RunStep, Errs, ClaimNext, Look, TakeSeat, TryElsewhere, Release, Finish, Mark,
     WaitErr, ReleaseErr, ClaimErr, Dies, ApplicationStep, rows
<1>2. ASSUME NEW s \in Staff, StaffStep(s) \/ ApprovalErr(s)
      PROVE  ApplicationStep \/ app' = app
  BY <1>2 DEF StaffStep, Open, Verify, Activate, Unmark, GiveBack, Unlock,
     ApplicationStep, rows
<1>3. ASSUME NEW s \in Staff, NEW a \in Apps,
             RunForOne(s, a) \/ Approve(s, a) \/ Reject(s, a) \/ VerifyUpcoming(s, a)
      PROVE  app' = app
  BY <1>3 DEF RunForOne, Approve, Reject, VerifyUpcoming, rows
<1>4. ASSUME NEW s \in Staff, RunForAll(s) PROVE app' = app
  BY <1>4 DEF RunForAll, rows
<1>5. ASSUME NEW k \in Crons, CronRun(k) PROVE app' = app
  BY <1>5 DEF CronRun, rows
<1>6. ASSUME SessionBegins \/ SoftBlockEnds PROVE app' = app
  BY <1>6 DEF SessionBegins, SoftBlockEnds, rows
<1>7. ASSUME NEW a \in Apps, LeaseExpires(a) \/ StudentLeaves(a) PROVE app' = app
  BY <1>7 DEF LeaseExpires, StudentLeaves
<1>8. QED
  BY <1>1, <1>2, <1>3, <1>4, <1>5, <1>6, <1>7 DEF Next

(* What is written to an application other than its consumption. *)
LEMMA OtherWrites ==
    ASSUME TypeOK, NEW x \in Apps, NEW state \in Live \cup {"rejected"}, Write(x, state),
           NEW a \in Apps, app[a] # "activated"
    PROVE  app'[a] # "activated"
BY DEF TypeOK, Write, Live

LEMMA OnlySeatsConsume ==
    ASSUME IInv, Next, NEW a \in Apps, app[a] # "activated", app'[a] = "activated"
    PROVE  student'[a].held
<1>1. ASSUME NEW w \in Workers, Consume(w) \/ RunErr(w) PROVE student'[a].held
  <2>1. job[w].pc = "consume" /\ Write(job[w].app, "activated") /\ student' = student
    BY <1>1 DEF Consume, RunErr, rows
  <2>2. job[w].app \in Apps
    BY <2>1, AtWorkFacts DEF RunPcs
  <2>3. job[w].app = a
    BY <2>1, <2>2, WriteKeeps DEF IInv
  <2>4. QED
    BY <2>1, <2>3 DEF IInv, StillSeated
<1>2. ASSUME NEW s \in Staff, Finalize(s) \/ ApprovalErr(s) PROVE student'[a].held
  <2>1. job[s].pc = "finalize" /\ Write(job[s].app, "activated") /\ student' = student
    BY <1>2 DEF Finalize, ApprovalErr
  <2>2. job[s].app \in Apps /\ s \in Workers
    BY <2>1, ServingFacts DEF StaffPcs
  <2>3. job[s].app = a
    BY <2>1, <2>2, WriteKeeps DEF IInv
  <2>4. QED
    BY <2>1, <2>2, <2>3 DEF IInv, StillSeated
<1>3. ASSUME NEW w \in Workers, Wait(w) PROVE FALSE
  <2>1. job[w].app \in Apps
    BY <1>3, AtWorkFacts DEF Wait, RunPcs
  <2>2. QED
    BY <1>3, <2>1, OtherWrites DEF Wait, IInv, Live
<1>4. ASSUME NEW s \in Staff, Verified(s) \/ Queue(s) PROVE FALSE
  <2>1. job[s].app \in Apps
    BY <1>4, ServingFacts DEF Verified, Queue, StaffPcs
  <2>2. QED
    BY <1>4, <2>1, OtherWrites DEF Verified, Queue, IInv, Live
<1>5. ASSUME NEW s \in Staff, Deny(s) PROVE FALSE
  <2>1. job[s].app \in Apps
    BY <1>5, ServingFacts DEF Deny, StaffPcs
  <2>2. QED
    BY <1>5, <2>1, OtherWrites DEF Deny, IInv
<1>6. QED
  BY <1>1, <1>2, <1>3, <1>4, <1>5, OthersLeaveApplications DEF ApplicationStep

(* An application goes as activated only when its applicant is a student   *)
(* whose seat was not given back.                                          *)
THEOREM ConsumptionSeats == CalmSpec => ConsumedMeansSeated
<1>1. IInv /\ [Next /\ Alone']_vars
        => [\A a \in Apps : app[a] # "activated" /\ app'[a] = "activated"
              => student'[a].held]_vars
  BY OnlySeatsConsume
<1>2. QED
  BY <1>1, CalmInvariant, PTL DEF CalmSpec, ConsumedMeansSeated
-----------------------------------------------------------------------------
(* The seats.  A step that gives a seat to an applicant who sits in        *)
(* another bus leaves that bus counted for nobody, and no failure happens  *)
(* then.  It happened before: an applicant who sits already, though the    *)
(* application is live and nobody is about to settle it, was seated by a   *)
(* worker that failed.  Such a seat is loose, and counts as one failure    *)
(* until somebody moves the applicant.                                     *)

Pinned == {"consume", "finalize", "unmark"}

Settling(a) == \E w \in Workers : job[w].pc \in Pinned /\ job[w].app = a

Loose == {a \in Seated : app[a] \in Live /\ ~Settling(a)}

(* Who is to compensate finds the seat it compensates. *)
Placed ==
  \A w \in Workers :
    job[w].pc \in {"finalize", "unmark"} =>
      student[job[w].app].held /\ student[job[w].app].bus = job[w].bus

Finite == IsFiniteSet(Counted) /\ IsFiniteSet(Seated) /\ IsFiniteSet(GivingBack)

Covered ==
  \A b \in Buses : Cardinality(Occupants(b)) + Cardinality(Compensating(b)) <= load[b]

Bounded ==
  Cardinality(Counted) + Cardinality(Loose)
    <= Cardinality(Seated) + Cardinality(GivingBack) + trouble

Accounts == trouble \in Nat /\ Finite /\ Covered /\ Bounded

AInv == Placed /\ Accounts

(* The seats of any counters. *)
SeatsOf(f) == UNION {{b} \X (1 .. f[b]) : b \in Buses}

LEMMA OneSeatMore ==
    ASSUME NEW f \in [Buses -> Nat], NEW g \in [Buses -> Nat], NEW b \in Buses,
           g[b] = f[b] + 1, \A x \in Buses \ {b} : g[x] = f[x],
           IsFiniteSet(SeatsOf(f)) \/ IsFiniteSet(SeatsOf(g))
    PROVE  /\ IsFiniteSet(SeatsOf(f)) /\ IsFiniteSet(SeatsOf(g))
           /\ Cardinality(SeatsOf(f)) \in Nat
           /\ Cardinality(SeatsOf(g)) = Cardinality(SeatsOf(f)) + 1
<1> DEFINE top == <<b, f[b] + 1>>
<1>1. \A x \in Buses : g[x] = IF x = b THEN f[b] + 1 ELSE f[x]
  OBVIOUS
<1>2. \A c : c \in SeatsOf(f) <=> \E x \in Buses : \E n \in 1 .. f[x] : c = <<x, n>>
  BY DEF SeatsOf
<1>3. \A c : c \in SeatsOf(g) <=> \E x \in Buses : \E n \in 1 .. g[x] : c = <<x, n>>
  BY DEF SeatsOf
<1>4. top \notin SeatsOf(f)
  <2> SUFFICES ASSUME NEW x \in Buses, NEW n \in 1 .. f[x], top = <<x, n>> PROVE FALSE
    BY <1>2
  <2>1. x = b /\ n = f[b] + 1
    OBVIOUS
  <2>2. QED
    BY <2>1
<1>5. SeatsOf(g) = SeatsOf(f) \cup {top}
  <2>1. ASSUME NEW x \in Buses, NEW n \in 1 .. f[x] PROVE n \in 1 .. g[x]
    BY <1>1
  <2>2. f[b] + 1 \in 1 .. g[b]
    BY <1>1
  <2>3. ASSUME NEW x \in Buses, NEW n \in 1 .. g[x]
        PROVE  n \in 1 .. f[x] \/ <<x, n>> = top
    BY <1>1, <2>3
  <2>4. SeatsOf(f) \subseteq SeatsOf(g)
    BY <1>2, <1>3, <2>1
  <2>5. top \in SeatsOf(g)
    BY <1>3, <2>2
  <2>6. ASSUME NEW c \in SeatsOf(g) PROVE c \in SeatsOf(f) \/ c = top
    <3>1. PICK x \in Buses : \E n \in 1 .. g[x] : c = <<x, n>>
      BY <1>3
    <3>2. PICK n \in 1 .. g[x] : c = <<x, n>>
      BY <3>1
    <3>3. QED
      BY <1>2, <2>3, <3>2
  <2> HIDE DEF top
  <2>7. QED
    BY <2>4, <2>5, <2>6
<1>6. SeatsOf(f) \subseteq SeatsOf(g)
  BY <1>5
<1>7. IsFiniteSet(SeatsOf(f))
  BY <1>6, FS_Subset
<1> HIDE DEF top
<1>8. Cardinality(SeatsOf(f)) \in Nat
  BY <1>7, FS_CardinalityType
<1>9. /\ IsFiniteSet(SeatsOf(f) \cup {top})
      /\ Cardinality(SeatsOf(f) \cup {top}) = Cardinality(SeatsOf(f)) + 1
  BY <1>4, <1>7, FS_AddElement
<1>10. QED
  BY <1>5, <1>7, <1>8, <1>9

LEMMA CountsAreNumbers ==
    ASSUME Finite
    PROVE  /\ Cardinality(Counted) \in Nat /\ Cardinality(Seated) \in Nat
           /\ Cardinality(GivingBack) \in Nat
           /\ IsFiniteSet(Loose) /\ Cardinality(Loose) \in Nat
           /\ \A b \in Buses : /\ IsFiniteSet(Occupants(b)) /\ Cardinality(Occupants(b)) \in Nat
                               /\ IsFiniteSet(Compensating(b))
                               /\ Cardinality(Compensating(b)) \in Nat
<1>1. Loose \subseteq Seated
  BY DEF Loose
<1>2. \A b \in Buses : Occupants(b) \subseteq Seated /\ Compensating(b) \subseteq GivingBack
  BY DEF Occupants, Compensating
<1>3. QED
  BY <1>1, <1>2, FS_Subset, FS_CardinalityType DEF Finite

(* How much the loose seats may grow. *)
Slack == Cardinality(Loose') + trouble <= Cardinality(Loose) + trouble'

LEMMA LooseSlack ==
    ASSUME Accounts, IsFiniteSet(Seated'),
           \/ Loose' \subseteq Loose /\ trouble' \in {trouble, trouble + 1}
           \/ \E x : Loose' \subseteq Loose \cup {x} /\ trouble' = trouble + 1
    PROVE  Slack /\ trouble' \in Nat
<1>1. IsFiniteSet(Loose) /\ Cardinality(Loose) \in Nat /\ trouble \in Nat
  BY CountsAreNumbers DEF Accounts
<1>2. trouble' \in Nat
  BY <1>1
<1>3. CASE Loose' \subseteq Loose /\ trouble' \in {trouble, trouble + 1}
  <2>1. Cardinality(Loose') <= Cardinality(Loose) /\ Cardinality(Loose') \in Nat
    BY <1>1, <1>3, FS_Subset, FS_CardinalityType
  <2>2. QED
    BY <1>1, <1>3, <2>1 DEF Slack
<1>4. ASSUME NEW x, Loose' \subseteq Loose \cup {x}, trouble' = trouble + 1
      PROVE  Slack
  <2>1. /\ IsFiniteSet(Loose \cup {x})
        /\ \/ Cardinality(Loose \cup {x}) = Cardinality(Loose)
           \/ Cardinality(Loose \cup {x}) = Cardinality(Loose) + 1
    BY <1>1, FS_AddElement
  <2>2. /\ Cardinality(Loose') <= Cardinality(Loose \cup {x})
        /\ Cardinality(Loose') \in Nat
    BY <1>4, <2>1, FS_Subset, FS_CardinalityType
  <2>3. QED
    BY <1>1, <1>4, <2>1, <2>2 DEF Slack
<1>5. QED
  BY <1>2, <1>3, <1>4

-----------------------------------------------------------------------------
(* The kinds of step.                                                      *)

SameBacks ==
  GivingBack' = GivingBack /\ \A b \in Buses : Compensating(b)' = Compensating(b)

LEMMA BacksStay ==
    ASSUME NEW w \in Workers, \A v \in Workers \ {w} : job'[v] = job[v],
           job[w].pc # "giveBack", job'[w].pc # "giveBack"
    PROVE  SameBacks
<1>1. \A v \in Workers : job'[v] = job[v] \/ v = w
  OBVIOUS
<1>2. GivingBack' = GivingBack
  BY <1>1 DEF GivingBack
<1>3. \A b \in Buses : Compensating(b)' = Compensating(b)
  BY <1>1, <1>2 DEF Compensating, GivingBack
<1>4. QED
  BY <1>2, <1>3 DEF SameBacks

(* Nothing is counted or uncounted. *)
LEMMA NobodyMoves ==
    ASSUME Accounts, UNCHANGED <<load, student>>, SameBacks,
           \/ Loose' \subseteq Loose /\ trouble' \in {trouble, trouble + 1}
           \/ \E x : Loose' \subseteq Loose \cup {x} /\ trouble' = trouble + 1
    PROVE  Accounts'
<1>1. Counted' = Counted /\ Seated' = Seated /\ GivingBack' = GivingBack
  BY DEF Counted, Seated, SameBacks
<1>2. \A b \in Buses : Occupants(b)' = Occupants(b) /\ Compensating(b)' = Compensating(b)
  BY DEF Occupants, Seated, SameBacks
<1>3. Finite' /\ Finite
  BY <1>1 DEF Finite, Accounts
<1>4. Slack /\ trouble' \in Nat
  BY <1>3, LooseSlack DEF Finite
<1>5. Covered'
  BY <1>2 DEF Covered, Accounts
<1>6. Bounded'
  <2>1. /\ Cardinality(Counted) \in Nat /\ Cardinality(Seated) \in Nat
        /\ Cardinality(GivingBack) \in Nat /\ Cardinality(Loose) \in Nat
    BY <1>3, CountsAreNumbers
  <2>2. Cardinality(Loose') \in Nat
    BY <1>3, FS_Subset, FS_CardinalityType DEF Finite, Loose
  <2>3. QED
    BY <1>1, <1>4, <2>1, <2>2 DEF Bounded, Accounts, Slack
<1>7. QED
  BY <1>3, <1>4, <1>5, <1>6 DEF Accounts

(* Somebody is seated. *)
Moved(a, b) == student[a].held /\ student[a].bus # b

LEMMA SeatAccounts ==
    ASSUME TypeOK, Accounts, NEW a \in Apps, NEW b \in Buses, ~Refused(a, b), SeatGiven(a, b),
           SameBacks, trouble' \in Nat,
           ~Moved(a, b) => Slack,
           Moved(a, b) => Cardinality(Loose') + 1 + trouble <= Cardinality(Loose) + trouble'
    PROVE  Accounts'
<1>1. student' = [student EXCEPT ![a] = [bus |-> b, held |-> TRUE]]
  BY DEF SeatGiven
<1>2. /\ student'[a].held /\ student'[a].bus = b
      /\ \A x \in Apps \ {a} : student'[x] = student[x]
  BY <1>1 DEF TypeOK
<1>3. Finite /\ trouble \in Nat
  BY DEF Accounts
<1>4. /\ Cardinality(Counted) \in Nat /\ Cardinality(Seated) \in Nat
      /\ Cardinality(GivingBack) \in Nat /\ Cardinality(Loose) \in Nat
      /\ \A x \in Buses : /\ IsFiniteSet(Occupants(x)) /\ Cardinality(Occupants(x)) \in Nat
                          /\ Cardinality(Compensating(x)) \in Nat
  BY <1>3, CountsAreNumbers
<1>5. Seated' = Seated \cup {a}
  BY <1>2 DEF Seated
<1>6. /\ IsFiniteSet(Seated')
      /\ Cardinality(Seated') = IF a \in Seated THEN Cardinality(Seated) ELSE Cardinality(Seated) + 1
  BY <1>3, <1>5, FS_AddElement DEF Finite
<1>7. Occupants(b)' = Occupants(b) \cup {a}
  BY <1>2, <1>5 DEF Occupants, Seated
<1>8. Cardinality(Occupants(b)') =
        IF a \in Occupants(b) THEN Cardinality(Occupants(b)) ELSE Cardinality(Occupants(b)) + 1
  BY <1>4, <1>7, FS_AddElement
<1>9. \A x \in Buses \ {b} :
        /\ Occupants(x)' \subseteq Occupants(x)
        /\ Cardinality(Occupants(x)') <= Cardinality(Occupants(x))
        /\ Cardinality(Occupants(x)') \in Nat
  <2> SUFFICES ASSUME NEW x \in Buses \ {b}
               PROVE  /\ Occupants(x)' \subseteq Occupants(x)
                      /\ Cardinality(Occupants(x)') <= Cardinality(Occupants(x))
                      /\ Cardinality(Occupants(x)') \in Nat
    OBVIOUS
  <2>1. Occupants(x)' \subseteq Occupants(x)
    BY <1>2, <1>5 DEF Occupants, Seated
  <2>2. QED
    BY <1>4, <2>1, FS_Subset, FS_CardinalityType
<1>10. load \in [Buses -> Nat]
  BY DEF TypeOK
<1>11. \A x \in Buses : Compensating(x)' = Compensating(x)
  BY DEF SameBacks
<1>12. Cardinality(Loose') \in Nat
  <2>1. Loose' \subseteq Seated'
    BY DEF Loose
  <2>2. QED
    BY <1>6, <2>1, FS_Subset, FS_CardinalityType
<1>13. CASE HoldsSeat(a, b)
  <2>1. load' = load /\ a \in Seated /\ a \in Occupants(b) /\ ~Moved(a, b)
    BY <1>13 DEF SeatGiven, HoldsSeat, Seated, Occupants, Moved
  <2>2. Counted' = Counted
    BY <2>1 DEF Counted
  <2>3. Finite'
    BY <1>3, <1>6, <2>2 DEF Finite, SameBacks
  <2>4. Covered'
    BY <1>4, <1>8, <1>9, <1>10, <1>11, <2>1 DEF Covered, Accounts
  <2>5. Bounded'
    BY <1>3, <1>4, <1>6, <1>12, <2>1, <2>2 DEF Bounded, Accounts, Slack, SameBacks
  <2>6. QED
    BY <2>3, <2>4, <2>5 DEF Accounts
<1>14. CASE ~HoldsSeat(a, b)
  <2>1. load' = [load EXCEPT ![b] = load[b] + 1]
    BY <1>14 DEF SeatGiven
  <2>2. Counted = SeatsOf(load) /\ Counted' = SeatsOf(load')
    BY DEF Counted, SeatsOf
  <2>3. IsFiniteSet(Counted') /\ Cardinality(Counted') = Cardinality(Counted) + 1
    <3>1. IsFiniteSet(SeatsOf(load))
      BY <1>3, <2>2 DEF Finite
    <3> DEFINE g == load'
    <3>2. g \in [Buses -> Nat] /\ g[b] = load[b] + 1 /\ \A x \in Buses \ {b} : g[x] = load[x]
      BY <1>10, <2>1
    <3> HIDE DEF g
    <3>3. IsFiniteSet(SeatsOf(g)) /\ Cardinality(SeatsOf(g)) = Cardinality(SeatsOf(load)) + 1
      BY <1>10, <3>1, <3>2, OneSeatMore
    <3>4. QED
      BY <2>2, <3>3 DEF g
  <2>4. Finite'
    BY <1>3, <1>6, <2>3 DEF Finite, SameBacks
  <2>5. /\ load'[b] = load[b] + 1 /\ load[b] \in Nat
        /\ \A x \in Buses \ {b} : load'[x] = load[x] /\ load[x] \in Nat
    BY <1>10, <2>1
  <2>6. Covered'
    <3> SUFFICES ASSUME NEW x \in Buses
                 PROVE  Cardinality(Occupants(x)') + Cardinality(Compensating(x)') <= load'[x]
      BY DEF Covered
    <3>1. Cardinality(Occupants(x)) + Cardinality(Compensating(x)) <= load[x]
      BY DEF Covered, Accounts
    <3>2. CASE x = b
      BY <1>4, <1>8, <1>11, <2>5, <3>1, <3>2
    <3>3. CASE x # b
      BY <1>4, <1>9, <1>11, <2>5, <3>1, <3>3
    <3>4. QED
      BY <3>2, <3>3
  <2>7. Bounded'
    <3>1. CASE Moved(a, b)
      <4>1. a \in Seated
        BY <3>1 DEF Moved, Seated
      <4>2. QED
        BY <1>3, <1>4, <1>6, <1>12, <2>3, <3>1, <4>1 DEF Bounded, Accounts, SameBacks
    <3>2. CASE ~Moved(a, b)
      <4>1. a \notin Seated
        BY <1>14, <3>2 DEF Moved, HoldsSeat, Seated
      <4>2. QED
        BY <1>3, <1>4, <1>6, <1>12, <2>3, <3>2, <4>1 DEF Bounded, Accounts, SameBacks, Slack
    <3>3. QED
      BY <3>1, <3>2
  <2>8. QED
    BY <2>4, <2>6, <2>7 DEF Accounts
<1>15. QED
  BY <1>13, <1>14

(* A seat is uncounted together with what stood for it. *)
LEMMA OneSeatLess ==
    ASSUME TypeOK, Finite, NEW b \in Buses, load[b] > 0, load' = OneLess(b)
    PROVE  /\ IsFiniteSet(Counted') /\ Cardinality(Counted') \in Nat
           /\ Cardinality(Counted) = Cardinality(Counted') + 1
           /\ load'[b] = load[b] - 1 /\ \A x \in Buses \ {b} : load'[x] = load[x]
<1> DEFINE f == load'
<1>1. load \in [Buses -> Nat]
  BY DEF TypeOK
<1>2. load' = [load EXCEPT ![b] = load[b] - 1]
  BY DEF OneLess
<1>3. f \in [Buses -> Nat] /\ load[b] = f[b] + 1 /\ \A x \in Buses \ {b} : load[x] = f[x]
  BY <1>1, <1>2
<1>4. IsFiniteSet(SeatsOf(load))
  BY DEF Finite, Counted, SeatsOf
<1> HIDE DEF f
<1>5. /\ IsFiniteSet(SeatsOf(f)) /\ Cardinality(SeatsOf(f)) \in Nat
      /\ Cardinality(SeatsOf(load)) = Cardinality(SeatsOf(f)) + 1
  BY <1>1, <1>3, <1>4, OneSeatMore
<1>6. SeatsOf(f) = Counted' /\ SeatsOf(load) = Counted
  BY DEF f, Counted, SeatsOf
<1>7. QED
  BY <1>1, <1>2, <1>5, <1>6

LEMMA LeavingAccounts ==
    ASSUME TypeOK, Accounts, NEW a \in Apps, StudentLeaves(a)
    PROVE  Accounts'
<1>1. /\ student' = [student EXCEPT ![a] = Absent]
      /\ UNCHANGED <<app, job, trouble>>
  BY DEF StudentLeaves
<1>2. ~student'[a].held /\ \A x \in Apps \ {a} : student'[x] = student[x]
  BY <1>1 DEF TypeOK, Absent
<1>3. SameBacks
  BY <1>1 DEF SameBacks, GivingBack, Compensating
<1>4. Seated' = Seated \ {a}
  BY <1>2 DEF Seated
<1>5. Loose' \subseteq Loose
  BY <1>1, <1>4 DEF Loose, Settling
<1>6. Finite /\ trouble \in Nat /\ load \in [Buses -> Nat]
  BY DEF Accounts, TypeOK
<1>7. /\ Cardinality(Counted) \in Nat /\ Cardinality(Seated) \in Nat
      /\ Cardinality(GivingBack) \in Nat /\ Cardinality(Loose) \in Nat
      /\ \A x \in Buses : /\ IsFiniteSet(Occupants(x)) /\ Cardinality(Occupants(x)) \in Nat
                          /\ Cardinality(Compensating(x)) \in Nat
  BY <1>6, CountsAreNumbers
<1>8. CASE ~student[a].held
  <2>1. load' = load /\ Seated' = Seated
    BY <1>4, <1>8 DEF StudentLeaves, Seated
  <2>2. Counted' = Counted
    BY <2>1 DEF Counted
  <2>3. \A x \in Buses : Occupants(x)' = Occupants(x)
    BY <1>2, <1>8, <2>1 DEF Occupants, Seated
  <2>4. Finite'
    BY <1>3, <1>6, <2>1, <2>2 DEF Finite, SameBacks
  <2>5. Slack
    BY <1>1, <1>5, <2>4, LooseSlack DEF Finite
  <2>6. Covered'
    BY <1>3, <2>1, <2>3 DEF Covered, Accounts, SameBacks
  <2>7. Cardinality(Loose') \in Nat
    BY <1>5, <1>6, CountsAreNumbers, FS_Subset, FS_CardinalityType
  <2>8. Bounded'
    BY <1>1, <1>3, <1>6, <1>7, <2>1, <2>2, <2>5, <2>7 DEF Bounded, Accounts, SameBacks, Slack
  <2>9. QED
    BY <1>1, <1>6, <2>4, <2>6, <2>8 DEF Accounts
<1>9. CASE student[a].held
  <2>1. PICK b \in Buses : b = student[a].bus
    BY <1>9 DEF StudentLeaves, TypeOK, Student
  <2>2. load' = OneLess(b)
    BY <1>9, <2>1 DEF StudentLeaves
  <2>3. a \in Seated /\ a \in Occupants(b)
    BY <1>9, <2>1 DEF Seated, Occupants
  <2>4. /\ \A x \in Buses \ {b} : Occupants(x)' = Occupants(x)
        /\ Occupants(b)' = Occupants(b) \ {a}
    BY <1>2, <1>4, <2>1 DEF Occupants, Seated
  <2>5. /\ IsFiniteSet(Seated') /\ Cardinality(Seated') = Cardinality(Seated) - 1
        /\ Cardinality(Occupants(b)') = Cardinality(Occupants(b)) - 1
    <3>1. IsFiniteSet(Seated) /\ IsFiniteSet(Occupants(b))
      BY <1>6, <1>7, <2>1 DEF Finite
    <3>2. QED
      BY <1>4, <2>3, <2>4, <3>1, FS_RemoveElement
  <2>6. Cardinality(Occupants(b)) > 0
    BY <1>7, <2>1, <2>3, FS_EmptySet
  <2>7. load[b] > 0
    BY <1>6, <1>7, <2>1, <2>6 DEF Accounts, Covered
  <2>8. /\ IsFiniteSet(Counted') /\ Cardinality(Counted') \in Nat
        /\ Cardinality(Counted) = Cardinality(Counted') + 1
        /\ load'[b] = load[b] - 1 /\ \A x \in Buses \ {b} : load'[x] = load[x]
    BY <1>6, <2>1, <2>2, <2>7, OneSeatLess
  <2>9. Finite'
    BY <1>3, <1>6, <2>5, <2>8 DEF Finite, SameBacks
  <2>10. Slack
    BY <1>1, <1>5, <2>5, LooseSlack
  <2>11. Covered'
    <3> SUFFICES ASSUME NEW x \in Buses
                 PROVE  Cardinality(Occupants(x)') + Cardinality(Compensating(x)') <= load'[x]
      BY DEF Covered
    <3>1. Cardinality(Occupants(x)) + Cardinality(Compensating(x)) <= load[x]
      BY DEF Covered, Accounts
    <3>2. Compensating(x)' = Compensating(x)
      BY <1>3 DEF SameBacks
    <3>3. CASE x = b
      <4>1. Cardinality(Occupants(b)') = Cardinality(Occupants(b)) - 1 /\ load'[b] = load[b] - 1
        BY <2>5, <2>8
      <4>2. /\ Cardinality(Occupants(b)) \in Nat /\ Cardinality(Compensating(b)) \in Nat
            /\ load[b] \in Nat
        BY <1>6, <1>7
      <4>3. QED
        BY <3>1, <3>2, <3>3, <4>1, <4>2
    <3>4. CASE x # b
      BY <2>4, <2>8, <3>1, <3>2, <3>4
    <3>5. QED
      BY <3>3, <3>4
  <2>12. Cardinality(Loose') \in Nat
    BY <1>5, <1>6, CountsAreNumbers, FS_Subset, FS_CardinalityType
  <2>13. Bounded'
    BY <1>1, <1>3, <1>6, <1>7, <2>5, <2>8, <2>10, <2>12 DEF Bounded, Accounts, SameBacks, Slack
  <2>14. QED
    BY <1>1, <1>6, <2>9, <2>11, <2>13 DEF Accounts
<1>10. QED
  BY <1>8, <1>9

(* What a compensation, about to give back the seat of bus b, is among. *)
LEMMA BacksGrow ==
    ASSUME Finite, NEW s \in Workers, NEW b \in Buses, \A v \in Workers \ {s} : job'[v] = job[v],
           job[s].pc # "giveBack", job'[s].pc = "giveBack", job'[s].bus = b
    PROVE  /\ IsFiniteSet(GivingBack') /\ Cardinality(GivingBack') = Cardinality(GivingBack) + 1
           /\ Cardinality(Compensating(b)') = Cardinality(Compensating(b)) + 1
           /\ \A x \in Buses \ {b} : Compensating(x)' = Compensating(x)
<1>1. GivingBack' = GivingBack \cup {s} /\ s \notin GivingBack
  BY DEF GivingBack
<1>2. Compensating(b)' = Compensating(b) \cup {s} /\ s \notin Compensating(b)
  BY <1>1 DEF Compensating, GivingBack
<1>3. \A x \in Buses \ {b} : Compensating(x)' = Compensating(x)
  BY <1>1 DEF Compensating, GivingBack
<1>4. IsFiniteSet(GivingBack) /\ IsFiniteSet(Compensating(b))
  BY CountsAreNumbers DEF Finite
<1>5. IsFiniteSet(GivingBack') /\ Cardinality(GivingBack') = Cardinality(GivingBack) + 1
  BY <1>1, <1>4, FS_AddElement
<1>6. Cardinality(Compensating(b)') = Cardinality(Compensating(b)) + 1
  <2>1. Cardinality(Compensating(b) \cup {s}) = Cardinality(Compensating(b)) + 1
    BY <1>2, <1>4, FS_AddElement
  <2>2. QED
    BY <1>2, <2>1
<1>7. QED
  BY <1>3, <1>5, <1>6

LEMMA BacksShrink ==
    ASSUME Finite, NEW s \in Workers, NEW b \in Buses, \A v \in Workers \ {s} : job'[v] = job[v],
           job[s].pc = "giveBack", job[s].bus = b, job'[s].pc # "giveBack"
    PROVE  /\ IsFiniteSet(GivingBack') /\ Cardinality(GivingBack') = Cardinality(GivingBack) - 1
           /\ Cardinality(Compensating(b)') = Cardinality(Compensating(b)) - 1
           /\ Cardinality(Compensating(b)) > 0
           /\ \A x \in Buses \ {b} : Compensating(x)' = Compensating(x)
<1>1. GivingBack' = GivingBack \ {s} /\ s \in GivingBack
  BY DEF GivingBack
<1>2. Compensating(b)' = Compensating(b) \ {s} /\ s \in Compensating(b)
  BY <1>1 DEF Compensating, GivingBack
<1>3. \A x \in Buses \ {b} : Compensating(x)' = Compensating(x)
  BY <1>1 DEF Compensating, GivingBack
<1>4. /\ IsFiniteSet(GivingBack) /\ IsFiniteSet(Compensating(b))
      /\ Cardinality(Compensating(b)) \in Nat
  BY CountsAreNumbers DEF Finite
<1>5. Cardinality(Compensating(b)) > 0
  BY <1>2, <1>4, FS_EmptySet
<1>6. IsFiniteSet(GivingBack') /\ Cardinality(GivingBack') = Cardinality(GivingBack) - 1
  BY <1>1, <1>4, FS_RemoveElement
<1>7. Cardinality(Compensating(b)') = Cardinality(Compensating(b)) - 1
  <2>1. Cardinality(Compensating(b) \ {s}) = Cardinality(Compensating(b)) - 1
    BY <1>2, <1>4, FS_RemoveElement
  <2>2. QED
    BY <1>2, <2>1
<1>8. QED
  BY <1>3, <1>5, <1>6, <1>7

-----------------------------------------------------------------------------
(* What the other workers settle, or are about to, stays as it is.         *)
LEMMA OthersPlaced ==
    ASSUME IInv, AInv, NEW w \in Workers, \A v \in Workers \ {w} : job'[v] = job[v],
           \A x \in Apps : student'[x] = student[x] \/ lock[x] = w,
           job'[w].pc \in {"finalize", "unmark"} =>
             student'[job'[w].app].held /\ student'[job'[w].app].bus = job'[w].bus
    PROVE  Placed'
<1> SUFFICES ASSUME NEW v \in Workers, job'[v].pc \in {"finalize", "unmark"}
             PROVE  student'[job'[v].app].held /\ student'[job'[v].app].bus = job'[v].bus
  BY DEF Placed
<1>1. CASE v = w
  BY <1>1
<1>2. CASE v # w
  <2>1. job'[v] = job[v] /\ job[v] \in Jobs /\ job[v].pc \in Holding
    BY <1>2 DEF IInv, TypeOK, Holding
  <2>2. job[v].app \in Apps /\ lock[job[v].app] = v
    BY <2>1, WorkKinds DEF IInv, Owners, Holding, StaffPcs
  <2>3. student'[job[v].app] = student[job[v].app]
    BY <1>2, <2>2
  <2>4. student[job[v].app].held /\ student[job[v].app].bus = job[v].bus
    BY <2>1 DEF AInv, Placed
  <2>5. QED
    BY <2>1, <2>3, <2>4
<1>3. QED
  BY <1>1, <1>2

(* A step that moves no student and gives nothing back, and leaves what it *)
(* was settling only when the application is over or something failed.     *)
QuietMove(w) ==
  /\ UNCHANGED <<load, student>>
  /\ \A v \in Workers \ {w} : job'[v] = job[v]
  /\ \A a \in Apps : app'[a] \in Live => app[a] \in Live
  /\ job[w].pc # "giveBack" /\ job'[w].pc # "giveBack"
  /\ trouble' \in {trouble, trouble + 1}
  /\ job[w].pc \in Pinned /\ trouble' = trouble => app'[job[w].app] \notin Live
  /\ job'[w].pc \in {"finalize", "unmark"} =>
       job[w].pc = "finalize" /\ job'[w].app = job[w].app /\ job'[w].bus = job[w].bus

LEMMA QuietKeeps ==
    ASSUME IInv, AInv, NEW w \in Workers, QuietMove(w)
    PROVE  AInv'
<1>1. SameBacks
  BY BacksStay DEF QuietMove
<1>2. \A x \in Loose' : x \in Loose \/ (x = job[w].app /\ job[w].pc \in Pinned)
  <2> SUFFICES ASSUME NEW x \in Loose', ~(x = job[w].app /\ job[w].pc \in Pinned)
               PROVE  x \in Loose
    OBVIOUS
  <2>1. x \in Seated /\ x \in Apps /\ app[x] \in Live
    BY DEF QuietMove, Loose, Seated
  <2>2. ASSUME NEW v \in Workers, job[v].pc \in Pinned, job[v].app = x
        PROVE  FALSE
    <3>1. v # w
      BY <2>2
    <3>2. Settling(x)'
      BY <2>2, <3>1 DEF QuietMove, Settling
    <3>3. QED
      BY <3>2 DEF Loose
  <2>3. QED
    BY <2>1, <2>2 DEF Loose, Settling
<1>3. \/ Loose' \subseteq Loose /\ trouble' \in {trouble, trouble + 1}
      \/ \E x : Loose' \subseteq Loose \cup {x} /\ trouble' = trouble + 1
  <2>1. CASE trouble' = trouble + 1
    BY <1>2, <2>1
  <2>2. CASE trouble' = trouble
    <3>1. \A x \in Loose' : app'[x] \in Live
      BY DEF Loose
    <3>2. QED
      BY <1>2, <2>2, <3>1 DEF QuietMove
  <2>3. QED
    BY <2>1, <2>2 DEF QuietMove
<1>4. Accounts'
  BY <1>1, <1>3, NobodyMoves DEF AInv, QuietMove
<1>5. Placed'
  BY OthersPlaced DEF QuietMove, AInv, Placed
<1>6. QED
  BY <1>4, <1>5 DEF AInv

(* A worker seats its applicant, and settles it next unless it fails.      *)
LEMMA SeatingKeeps ==
    ASSUME IInv, AInv, NEW w \in Workers, NEW a \in Apps, NEW b \in Buses,
           job[w].pc \in {"seat", "activate"}, job[w].app = a,
           ~Refused(a, b), SeatGiven(a, b), app' = app,
           \A v \in Workers \ {w} : job'[v] = job[v],
           \/ /\ job'[w].pc \in Pinned /\ job'[w].app = a /\ job'[w].bus = b
              /\ trouble' = trouble
           \/ job'[w].pc \in {"release", "wait"} /\ trouble' = trouble + 1
    PROVE  AInv'
<1>1. TypeOK /\ Accounts /\ Finite /\ trouble \in Nat
  BY DEF IInv, AInv, Accounts
<1>2. lock[a] = w /\ app[a] \in Live
  BY DEF IInv, Owners, StillLive, Holding, RunPcs
<1>3. SameBacks
  <2>1. job'[w].pc # "giveBack"
    BY DEF Pinned
  <2>2. QED
    BY <2>1, BacksStay
<1>4. /\ student'[a].held /\ student'[a].bus = b
      /\ \A x \in Apps \ {a} : student'[x] = student[x]
  <2>1. student' = [student EXCEPT ![a] = [bus |-> b, held |-> TRUE]]
    BY DEF SeatGiven
  <2>2. QED
    BY <1>1, <2>1 DEF TypeOK
<1>5. Seated' = Seated \cup {a}
  BY <1>4 DEF Seated
<1>6. IsFiniteSet(Seated') /\ IsFiniteSet(Seated)
  BY <1>1, <1>5, FS_AddElement DEF Finite
<1>7. \A x \in Loose' : x = a \/ x \in Loose
  <2> SUFFICES ASSUME NEW x \in Loose', x # a PROVE x \in Loose
    OBVIOUS
  <2>1. x \in Seated /\ app[x] \in Live
    BY <1>5 DEF Loose
  <2>2. \A v \in Workers : job[v].app = x => job'[v] = job[v]
    OBVIOUS
  <2>3. QED
    BY <2>1, <2>2 DEF Loose, Settling
<1>8. job'[w].pc \in Pinned => a \notin Loose'
  BY DEF Loose, Settling, Pinned
<1>9. a \in Seated => a \in Loose
  <2> SUFFICES ASSUME a \in Seated, NEW v \in Workers, job[v].pc \in Pinned, job[v].app = a
               PROVE  FALSE
    BY <1>2 DEF Loose, Settling
  <2>1. lock[a] = v
    BY DEF IInv, Owners, Holding, RunPcs, Pinned
  <2>2. QED
    BY <1>2, <2>1 DEF Pinned
<1>10. IsFiniteSet(Loose) /\ Cardinality(Loose) \in Nat
  BY <1>1, CountsAreNumbers
<1>11. ~Moved(a, b) => Slack
  <2>1. CASE job'[w].pc \in Pinned
    BY <1>1, <1>6, <1>7, <1>8, <2>1, LooseSlack DEF Pinned
  <2>2. CASE job'[w].pc \notin Pinned
    <3>1. Loose' \subseteq Loose \cup {a} /\ trouble' = trouble + 1
      BY <1>7, <2>2
    <3>2. QED
      BY <1>1, <1>6, <3>1, LooseSlack
  <2>3. QED
    BY <2>1, <2>2
<1>12. ASSUME Moved(a, b)
       PROVE  Cardinality(Loose') + 1 + trouble <= Cardinality(Loose) + trouble'
  <2>1. a \in Loose
    BY <1>9, <1>12 DEF Moved, Seated
  <2>2. CASE job'[w].pc \in Pinned
    <3>1. Loose' \subseteq Loose \ {a} /\ trouble' = trouble
      BY <1>7, <1>8, <2>2 DEF Pinned
    <3>2. IsFiniteSet(Loose \ {a}) /\ Cardinality(Loose \ {a}) = Cardinality(Loose) - 1
      BY <1>10, <2>1, FS_RemoveElement
    <3>3. /\ Cardinality(Loose') <= Cardinality(Loose \ {a})
          /\ Cardinality(Loose') \in Nat
      BY <3>1, <3>2, FS_Subset, FS_CardinalityType
    <3>4. QED
      BY <1>1, <1>10, <3>1, <3>2, <3>3
  <2>3. CASE job'[w].pc \notin Pinned
    <3>1. Loose' \subseteq Loose /\ trouble' = trouble + 1
      BY <1>7, <2>1, <2>3
    <3>2. Cardinality(Loose') <= Cardinality(Loose) /\ Cardinality(Loose') \in Nat
      BY <1>10, <3>1, FS_Subset, FS_CardinalityType
    <3>3. QED
      BY <1>1, <1>10, <3>1, <3>2
  <2>4. QED
    BY <2>2, <2>3
<1>13. trouble' \in Nat
  BY <1>1
<1>14. Accounts'
  BY <1>1, <1>3, <1>11, <1>12, <1>13, SeatAccounts
<1>15. Placed'
  <2>1. \A x \in Apps : student'[x] = student[x] \/ lock[x] = w
    BY <1>2, <1>4
  <2>2. job'[w].pc \in {"finalize", "unmark"} =>
          student'[job'[w].app].held /\ student'[job'[w].app].bus = job'[w].bus
    BY <1>4
  <2>3. QED
    BY <2>1, <2>2, OthersPlaced
<1>16. QED
  BY <1>14, <1>15 DEF AInv

(* Jobs that go on. *)
LEMMA ServingGoes ==
    ASSUME IInv, NEW s \in Staff, job[s].pc \in StaffPcs, NEW pc \in StaffPcs, Goto(s, pc)
    PROVE  /\ job'[s].pc = pc /\ job'[s].app = job[s].app /\ job'[s].bus = job[s].bus
           /\ \A v \in Workers \ {s} : job'[v] = job[v]
<1> DEFINE g == [job[s] EXCEPT !.pc = pc]
<1>1. job[s] \in Serving /\ s \in Workers
  BY ServingFacts
<1>2. g \in Jobs /\ g.pc = pc /\ g.app = job[s].app /\ g.bus = job[s].bus
  BY <1>1, GoOnServing
<1>3. Become(s, g)
  BY DEF Goto
<1> HIDE DEF g
<1>4. QED
  BY <1>1, <1>2, <1>3, OneMoves DEF IInv

LEMMA RunGoes ==
    ASSUME IInv, NEW w \in Workers, job[w].pc \in RunPcs, NEW pc \in RunPcs, Goto(w, pc)
    PROVE  /\ job'[w].pc = pc /\ job'[w].app = job[w].app /\ job'[w].bus = job[w].bus
           /\ \A v \in Workers \ {w} : job'[v] = job[v]
<1> DEFINE g == [job[w] EXCEPT !.pc = pc]
<1>1. job[w] \in AtWork
  BY AtWorkFacts
<1>2. g \in Jobs /\ g.pc = pc /\ g.app = job[w].app /\ g.bus = job[w].bus
  BY <1>1, GoOnRun
<1>3. Become(w, g)
  BY DEF Goto
<1> HIDE DEF g
<1>4. QED
  BY <1>2, <1>3, OneMoves DEF IInv

LEMMA UnmarkAccounts ==
    ASSUME IInv, AInv, NEW s \in Staff, Unmark(s)
    PROVE  AInv'
<1>1. /\ job'[s].pc = "giveBack" /\ job'[s].app = job[s].app /\ job'[s].bus = job[s].bus
      /\ \A v \in Workers \ {s} : job'[v] = job[v]
  BY ServingGoes DEF Unmark, StaffPcs
<1>2. job[s].app \in Apps /\ job[s].bus \in Buses /\ s \in Workers /\ lock[job[s].app] = s
  BY ServingFacts DEF Unmark, StaffPcs, Holding
<1>3. PICK a \in Apps, b \in Buses : a = job[s].app /\ b = job[s].bus
  BY <1>2
<1>4. student[a].held /\ student[a].bus = b
  BY <1>2, <1>3 DEF Unmark, AInv, Placed
<1>5. ~student'[a].held /\ \A x \in Apps \ {a} : student'[x] = student[x]
  <2>1. student[a] # Absent
    BY <1>4 DEF Absent
  <2>2. student[a] \in [bus : Buses, held : BOOLEAN]
    BY <2>1 DEF IInv, TypeOK, Student
  <2>3. student' = [student EXCEPT ![a] = [student[a] EXCEPT !.held = FALSE]]
    BY <1>3, <2>1 DEF Unmark
  <2>4. QED
    BY <2>2, <2>3 DEF IInv, TypeOK
<1>6. UNCHANGED <<app, load, trouble>>
  BY DEF Unmark
<1>7. Finite /\ trouble \in Nat /\ load \in [Buses -> Nat]
  BY DEF IInv, TypeOK, AInv, Accounts
<1>8. /\ Cardinality(Counted) \in Nat /\ Cardinality(Seated) \in Nat
      /\ Cardinality(GivingBack) \in Nat /\ Cardinality(Loose) \in Nat
      /\ \A x \in Buses : /\ IsFiniteSet(Occupants(x)) /\ Cardinality(Occupants(x)) \in Nat
                          /\ Cardinality(Compensating(x)) \in Nat
  BY <1>7, CountsAreNumbers
<1>9. Seated' = Seated \ {a} /\ a \in Seated
  BY <1>4, <1>5 DEF Seated
<1>10. /\ Occupants(b)' = Occupants(b) \ {a} /\ a \in Occupants(b)
       /\ \A x \in Buses \ {b} : Occupants(x)' = Occupants(x)
  BY <1>4, <1>5, <1>9 DEF Occupants, Seated
<1>11. IsFiniteSet(Seated') /\ Cardinality(Seated') = Cardinality(Seated) - 1
  BY <1>7, <1>9, FS_RemoveElement DEF Finite
<1>12. Cardinality(Occupants(b)') = Cardinality(Occupants(b)) - 1
  BY <1>8, <1>10, FS_RemoveElement
<1>13. /\ IsFiniteSet(GivingBack') /\ Cardinality(GivingBack') = Cardinality(GivingBack) + 1
       /\ Cardinality(Compensating(b)') = Cardinality(Compensating(b)) + 1
       /\ \A x \in Buses \ {b} : Compensating(x)' = Compensating(x)
  <2>1. job[s].pc # "giveBack" /\ job'[s].bus = b
    BY <1>1, <1>3 DEF Unmark
  <2>2. QED
    BY <1>1, <1>2, <1>7, <2>1, BacksGrow
<1>14. Loose' \subseteq Loose
  <2> SUFFICES ASSUME NEW x \in Loose' PROVE x \in Loose
    OBVIOUS
  <2>1. x \in Seated /\ app[x] \in Live /\ x # a
    BY <1>6, <1>9 DEF Loose
  <2>2. \A v \in Workers : job[v].app = x => job'[v] = job[v]
    BY <1>1, <1>3, <2>1
  <2>3. QED
    BY <2>1, <2>2 DEF Loose, Settling
<1>15. Slack /\ Cardinality(Loose') \in Nat
  <2>1. Slack
    BY <1>6, <1>11, <1>14, LooseSlack DEF AInv
  <2>2. QED
    BY <1>7, <1>14, <2>1, CountsAreNumbers, FS_Subset, FS_CardinalityType
<1>16. Counted' = Counted
  BY <1>6 DEF Counted
<1>17. Finite'
  BY <1>7, <1>11, <1>13, <1>16 DEF Finite
<1>18. Covered'
  <2> SUFFICES ASSUME NEW x \in Buses
               PROVE  Cardinality(Occupants(x)') + Cardinality(Compensating(x)') <= load'[x]
    BY DEF Covered
  <2>1. Cardinality(Occupants(x)) + Cardinality(Compensating(x)) <= load[x]
    BY DEF Covered, Accounts, AInv
  <2>2. CASE x = b
    BY <1>6, <1>7, <1>8, <1>12, <1>13, <2>1, <2>2
  <2>3. CASE x # b
    BY <1>6, <1>10, <1>13, <2>1, <2>3
  <2>4. QED
    BY <2>2, <2>3
<1>19. Bounded'
  BY <1>6, <1>7, <1>8, <1>11, <1>13, <1>15, <1>16 DEF Bounded, Accounts, AInv, Slack
<1>20. Placed'
  BY <1>1, <1>2, <1>3, <1>5, OthersPlaced
<1>21. QED
  BY <1>6, <1>7, <1>17, <1>18, <1>19, <1>20 DEF AInv, Accounts

(* A compensation ends: it has given the seat back, or dies before it.     *)
LEMMA BacksEnd ==
    ASSUME IInv, AInv, NEW s \in Workers, job[s].pc = "giveBack", job'[s].pc \in {"unlock", "idle"},
           \A v \in Workers \ {s} : job'[v] = job[v], UNCHANGED <<app, student>>,
           \/ load' = OneLess(job[s].bus) /\ trouble' = trouble
           \/ load' = load /\ trouble' = trouble + 1
    PROVE  AInv'
<1>1. job[s].bus \in Buses
  BY WorkKinds DEF IInv, TypeOK, StaffPcs
<1>2. PICK b \in Buses : b = job[s].bus
  BY <1>1
<1>3. Finite /\ trouble \in Nat /\ load \in [Buses -> Nat]
  BY DEF IInv, TypeOK, AInv, Accounts
<1>4. /\ Cardinality(Counted) \in Nat /\ Cardinality(Seated) \in Nat
      /\ Cardinality(GivingBack) \in Nat /\ Cardinality(Loose) \in Nat
      /\ \A x \in Buses : /\ Cardinality(Occupants(x)) \in Nat
                          /\ Cardinality(Compensating(x)) \in Nat
  BY <1>3, CountsAreNumbers
<1>5. Seated' = Seated /\ \A x \in Buses : Occupants(x)' = Occupants(x)
  BY DEF Seated, Occupants
<1>6. /\ IsFiniteSet(GivingBack') /\ Cardinality(GivingBack') = Cardinality(GivingBack) - 1
      /\ Cardinality(Compensating(b)') = Cardinality(Compensating(b)) - 1
      /\ Cardinality(Compensating(b)) > 0
      /\ \A x \in Buses \ {b} : Compensating(x)' = Compensating(x)
  BY <1>2, <1>3, BacksShrink
<1>7. Loose' \subseteq Loose
  <2> SUFFICES ASSUME NEW x \in Loose', NEW v \in Workers, job[v].pc \in Pinned, job[v].app = x
               PROVE  FALSE
    BY <1>5 DEF Loose, Settling
  <2>1. job'[v] = job[v]
    BY DEF Pinned
  <2>2. QED
    BY <2>1 DEF Loose, Settling
<1>8. Cardinality(Loose') <= Cardinality(Loose) /\ Cardinality(Loose') \in Nat
  BY <1>3, <1>7, CountsAreNumbers, FS_Subset, FS_CardinalityType
<1>9. load[b] > 0
  BY <1>3, <1>4, <1>6 DEF AInv, Accounts, Covered
<1>10. Placed'
  BY <1>1, OthersPlaced
<1>11. CASE load' = OneLess(b) /\ trouble' = trouble
  <2>1. /\ IsFiniteSet(Counted') /\ Cardinality(Counted') \in Nat
        /\ Cardinality(Counted) = Cardinality(Counted') + 1
        /\ load'[b] = load[b] - 1 /\ \A x \in Buses \ {b} : load'[x] = load[x]
    BY <1>3, <1>9, <1>11, OneSeatLess DEF IInv
  <2>2. Finite'
    BY <1>3, <1>5, <1>6, <2>1 DEF Finite
  <2>3. Covered'
    <3> SUFFICES ASSUME NEW x \in Buses
                 PROVE  Cardinality(Occupants(x)') + Cardinality(Compensating(x)') <= load'[x]
      BY DEF Covered
    <3>1. Cardinality(Occupants(x)) + Cardinality(Compensating(x)) <= load[x]
      BY DEF Covered, Accounts, AInv
    <3>2. CASE x = b
      BY <1>3, <1>4, <1>5, <1>6, <2>1, <3>1, <3>2
    <3>3. CASE x # b
      BY <1>5, <1>6, <2>1, <3>1, <3>3
    <3>4. QED
      BY <3>2, <3>3
  <2>4. Bounded'
    BY <1>3, <1>4, <1>5, <1>6, <1>8, <1>11, <2>1 DEF Bounded, Accounts, AInv
  <2>5. QED
    BY <1>3, <1>10, <1>11, <2>2, <2>3, <2>4 DEF AInv, Accounts
<1>12. CASE load' = load /\ trouble' = trouble + 1
  <2>1. Counted' = Counted
    BY <1>12 DEF Counted
  <2>2. Finite'
    BY <1>3, <1>5, <1>6, <2>1 DEF Finite
  <2>3. Covered'
    <3> SUFFICES ASSUME NEW x \in Buses
                 PROVE  Cardinality(Occupants(x)') + Cardinality(Compensating(x)') <= load'[x]
      BY DEF Covered
    <3>1. Cardinality(Occupants(x)) + Cardinality(Compensating(x)) <= load[x]
      BY DEF Covered, Accounts, AInv
    <3>2. CASE x = b
      BY <1>3, <1>4, <1>5, <1>6, <1>12, <3>1, <3>2
    <3>3. CASE x # b
      BY <1>5, <1>6, <1>12, <3>1, <3>3
    <3>4. QED
      BY <3>2, <3>3
  <2>4. Bounded'
    BY <1>3, <1>4, <1>5, <1>6, <1>8, <1>12, <2>1 DEF Bounded, Accounts, AInv
  <2>5. trouble' \in Nat
    BY <1>3, <1>12
  <2>6. QED
    BY <1>10, <2>2, <2>3, <2>4, <2>5 DEF AInv, Accounts
<1>13. QED
  BY <1>2, <1>11, <1>12

-----------------------------------------------------------------------------
(* Which step is of which kind.                                            *)

LEMMA QuietBecome ==
    ASSUME IInv, AInv, NEW w \in Workers, NEW j \in Jobs, Become(w, j), UNCHANGED <<load, student>>,
           app' = app \/ \E a \in Apps : \E state : Write(a, state),
           job[w].pc # "giveBack", j.pc \notin {"giveBack", "finalize", "unmark"},
           trouble' \in {trouble, trouble + 1},
           job[w].pc \in Pinned /\ trouble' = trouble => app'[job[w].app] \notin Live
    PROVE  AInv'
<1>1. job'[w] = j /\ \A v \in Workers \ {w} : job'[v] = job[v]
  BY OneMoves DEF IInv
<1>2. \A a \in Apps : app'[a] \in Live => app[a] \in Live
  BY DEF Write, IInv, TypeOK
<1>3. QuietMove(w)
  BY <1>1, <1>2 DEF QuietMove
<1>4. QED
  BY <1>3, QuietKeeps

(* Steps that change no table a seat is counted in, nor an application.    *)
LEMMA RowsKeepAccounts ==
    ASSUME IInv, AInv, UNCHANGED <<app, load, student, job, trouble>>
    PROVE  AInv'
BY DEF AInv, Placed, Accounts, Finite, Covered, Bounded, Counted, Seated, GivingBack, Occupants,
       Compensating, Loose, Settling

LEMMA BeginningsAccount ==
    ASSUME IInv, AInv,
           \/ \E k \in Crons : CronRun(k)
           \/ \E s \in Staff : RunForAll(s) \/ \E a \in Apps : RunForOne(s, a)
    PROVE  AInv'
<1>1. PICK w \in Workers, by \in {"cron", "all", "one"}, list \in SUBSET Apps :
         Begin(w, by, list) /\ job[w] = Idle /\ UNCHANGED <<rows, trouble>>
  BY DEF CronRun, RunForAll, RunForOne, Workers
<1> DEFINE j == [pc |-> "next", by |-> by, todo |-> list, app |-> "none", bus |-> "none",
                 rest |-> FreeBuses, missed |-> FALSE, current |-> begun]
<1>2. j \in Jobs /\ j.pc = "next"
  BY BeginJob DEF IInv
<1>3. Become(w, j)
  BY <1>1 DEF Begin
<1>4. job[w].pc = "idle" /\ UNCHANGED <<app, load, student, trouble>>
  BY <1>1, RestJobs DEF rows
<1> HIDE DEF j
<1>5. QED
  BY <1>2, <1>3, <1>4, QuietBecome DEF Pinned

LEMMA ClaimsAccount ==
    ASSUME IInv, AInv, NEW w \in Workers, NEW a \in Apps, ClaimNext(w, a) \/ ClaimErr(w, a)
    PROVE  AInv'
<1> DEFINE past == [job[w] EXCEPT !.todo = @ \ {a}]
           take == [job[w] EXCEPT !.pc = "look", !.app = a, !.bus = Asked[a]]
<1>1. job[w] \in Between /\ job[w].pc = "next"
  BY WorkKinds DEF ClaimNext, ClaimErr, IInv, TypeOK
<1>2. past \in Jobs /\ past.pc = "next"
  BY <1>1 DEF Between, Jobs
<1>3. take \in Jobs /\ take.pc = "look"
  <2>1. Asked[a] \in Buses
    BY AdmissionsAssumption
  <2>2. take \in AtWork
    BY <1>1, <2>1 DEF Between, AtWork, RunPcs
  <2>3. take.pc = "look"
    BY <1>1 DEF Between
  <2>4. QED
    BY <2>2, <2>3 DEF Jobs
<1>4. Become(w, past) \/ Become(w, take)
  BY DEF ClaimNext, ClaimErr
<1>5. UNCHANGED <<app, load, student>> /\ trouble' \in {trouble, trouble + 1}
  BY DEF ClaimNext, ClaimErr, Trouble
<1> HIDE DEF past, take
<1>6. QED
  BY <1>1, <1>2, <1>3, <1>4, <1>5, QuietBecome DEF Pinned

(* A run goes on, or comes to the next application. *)
LEMMA RunGoesQuietly ==
    ASSUME IInv, AInv, NEW w \in Workers, job[w].pc \in RunPcs, UNCHANGED <<load, student>>,
           \/ \E pc \in RunPcs \ {"consume"} : Goto(w, pc)
           \/ \E missed \in BOOLEAN : Advance(w, missed),
           app' = app \/ \E state : Write(job[w].app, state),
           trouble' \in {trouble, trouble + 1},
           job[w].pc = "consume" /\ trouble' = trouble => app'[job[w].app] \notin Live
    PROVE  AInv'
<1>1. job[w] \in AtWork /\ job[w].app \in Apps
  BY AtWorkFacts
<1>2. PICK j \in Jobs : Become(w, j) /\ j.pc \in RunPcs \cup {"next"}
  <2>1. ASSUME NEW pc \in RunPcs, Goto(w, pc)
        PROVE  \E j \in Jobs : Become(w, j) /\ j.pc \in RunPcs \cup {"next"}
    <3> DEFINE g == [job[w] EXCEPT !.pc = pc]
    <3>1. g \in Jobs /\ g.pc = pc
      BY <1>1, GoOnRun
    <3>2. Become(w, g)
      BY <2>1 DEF Goto
    <3> HIDE DEF g
    <3>3. QED
      BY <3>1, <3>2
  <2>2. ASSUME NEW missed \in BOOLEAN, Advance(w, missed)
        PROVE  \E j \in Jobs : Become(w, j) /\ j.pc \in RunPcs \cup {"next"}
    BY <2>2, AdvanceJob
  <2>3. QED
    BY <2>1, <2>2
<1>3. /\ j.pc \notin {"giveBack", "finalize", "unmark"} /\ job[w].pc # "giveBack"
      /\ job[w].pc \in Pinned => job[w].pc = "consume"
  BY <1>2 DEF RunPcs, Pinned
<1>4. app' = app \/ \E a \in Apps : \E state : Write(a, state)
  BY <1>1
<1>5. QED
  BY <1>2, <1>3, <1>4, QuietBecome

LEMMA RunAccounts ==
    ASSUME IInv, AInv, NEW w \in Workers,
           Look(w) \/ TryElsewhere(w) \/ Consume(w) \/ Wait(w) \/ Release(w)
             \/ WaitErr(w) \/ ReleaseErr(w)
    PROVE  AInv'
<1>1. CASE Look(w)
  BY <1>1, RunGoesQuietly DEF Look, RunPcs, rows
<1>2. CASE TryElsewhere(w)
  <2>1. job[w] \in AtWork /\ job[w].pc = "seat" /\ UNCHANGED <<app, load, student, trouble>>
    BY <1>2, AtWorkFacts DEF TryElsewhere, RunPcs, rows
  <2>2. CASE Goto(w, "wait")
    BY <2>1, <2>2, RunGoesQuietly DEF RunPcs
  <2>3. ASSUME NEW b \in Left(w),
               Become(w, [job[w] EXCEPT !.pc = "look", !.bus = b, !.rest = Left(w)])
        PROVE  AInv'
    <3> DEFINE g == [job[w] EXCEPT !.pc = "look", !.bus = b, !.rest = Left(w)]
    <3>1. Left(w) \in SUBSET Buses
      BY <2>1 DEF Left, AtWork, FreeBuses
    <3>2. g \in AtWork
      BY <2>1, <3>1 DEF AtWork, RunPcs
    <3>3. g \in Jobs /\ g.pc = "look"
      BY <2>1, <3>2 DEF AtWork, Jobs
    <3>4. Become(w, g)
      BY <2>3
    <3> HIDE DEF g
    <3>5. QED
      BY <2>1, <3>3, <3>4, QuietBecome DEF Pinned
  <2>4. QED
    BY <1>2, <2>2, <2>3 DEF TryElsewhere
<1>3. CASE Consume(w)
  <2>1. job[w].app \in Apps
    BY <1>3, AtWorkFacts DEF Consume, RunPcs
  <2>2. Write(job[w].app, "activated") /\ app'[job[w].app] \notin Live
    BY <1>3, <2>1, WriteKeeps DEF Consume, IInv, Live
  <2>3. QED
    BY <1>3, <2>2, RunGoesQuietly DEF Consume, RunPcs
<1>4. CASE Wait(w)
  BY <1>4, RunGoesQuietly DEF Wait, RunPcs
<1>5. CASE Release(w)
  <2>1. (job[w].pc = "release") \in BOOLEAN
    OBVIOUS
  <2>2. QED
    BY <1>5, <2>1, RunGoesQuietly DEF Release, RunPcs
<1>6. CASE WaitErr(w)
  BY <1>6, RunGoesQuietly DEF WaitErr, RunPcs, rows, Trouble
<1>7. CASE ReleaseErr(w)
  <2>1. (job[w].pc = "release") \in BOOLEAN
    OBVIOUS
  <2>2. QED
    BY <1>7, <2>1, RunGoesQuietly DEF ReleaseErr, RunPcs, rows, Trouble
<1>8. QED
  BY <1>1, <1>2, <1>3, <1>4, <1>5, <1>6, <1>7

LEMMA TakeSeatAccounts ==
    ASSUME IInv, AInv, NEW w \in Workers, TakeSeat(w)
    PROVE  AInv'
<1>1. job[w].app \in Apps /\ job[w].bus \in Buses
  BY AtWorkFacts DEF TakeSeat, RunPcs
<1>2. /\ job'[w].pc = "consume" /\ job'[w].app = job[w].app /\ job'[w].bus = job[w].bus
      /\ \A v \in Workers \ {w} : job'[v] = job[v]
  BY RunGoes DEF TakeSeat, RunPcs
<1>3. QED
  BY <1>1, <1>2, SeatingKeeps DEF TakeSeat, Pinned

LEMMA RunErrAccounts ==
    ASSUME IInv, AInv, NEW w \in Workers, RunErr(w)
    PROVE  AInv'
<1> DEFINE a == job[w].app
           pc == IF job[w].bus = Asked[a] THEN "release" ELSE "wait"
<1>1. a \in Apps /\ job[w].bus \in Buses /\ job[w].pc \in RunPcs
  BY AtWorkFacts DEF RunErr, RunPcs
<1>2. pc \in {"release", "wait"} /\ pc \in RunPcs \ {"consume"}
  BY DEF RunPcs
<1>3. Goto(w, pc) /\ trouble' = trouble + 1
  BY DEF RunErr, Trouble
<1> HIDE DEF pc
<1>4. CASE UNCHANGED <<app, load, student>>
  BY <1>1, <1>2, <1>3, <1>4, RunGoesQuietly
<1>5. CASE Write(a, "activated") /\ UNCHANGED <<load, student>>
  BY <1>1, <1>2, <1>3, <1>5, RunGoesQuietly
<1>6. CASE job[w].pc = "seat" /\ ~Refused(a, job[w].bus) /\ SeatGiven(a, job[w].bus)
             /\ app' = app
  <2>1. job'[w].pc = pc /\ \A v \in Workers \ {w} : job'[v] = job[v]
    BY <1>1, <1>2, <1>3, RunGoes
  <2>2. QED
    BY <1>1, <1>2, <1>3, <1>6, <2>1, SeatingKeeps
<1>7. QED
  BY <1>4, <1>5, <1>6 DEF RunErr, rows

LEMMA EndingsAccount ==
    ASSUME IInv, AInv, NEW w \in Workers, Finish(w) \/ Mark(w) \/ Dies(w)
    PROVE  AInv'
<1>1. UNCHANGED <<app, load, student>> /\ trouble' \in {trouble, trouble + 1}
  BY DEF Finish, Mark, Dies, Trouble, rows
<1>2. PICK j \in {Idle, Marking} : Become(w, j)
  BY DEF Finish, Mark, Dies
<1>3. j \in Jobs /\ j.pc \in {"idle", "mark"}
  BY RestJobs
<1>4. CASE job[w].pc # "giveBack"
  <2>1. job[w].pc \in Pinned => trouble' = trouble + 1
    BY DEF Finish, Mark, Dies, Trouble, Pinned
  <2>2. trouble + 1 # trouble
    BY DEF AInv, Accounts
  <2>3. QED
    BY <1>1, <1>2, <1>3, <1>4, <2>1, <2>2, QuietBecome
<1>5. CASE job[w].pc = "giveBack"
  <2>1. Dies(w)
    BY <1>5 DEF Finish, Mark
  <2>2. Become(w, Idle) /\ trouble' = trouble + 1
    BY <2>1 DEF Dies, Trouble
  <2>3. job'[w].pc = "idle" /\ \A v \in Workers \ {w} : job'[v] = job[v]
    BY <2>2, RestJobs, OneMoves DEF IInv
  <2>4. QED
    BY <1>1, <1>5, <2>2, <2>3, BacksEnd
<1>6. QED
  BY <1>4, <1>5

(* A request of staff goes on, or ends, and moves no student. *)
LEMMA StaffGoesQuietly ==
    ASSUME IInv, AInv, NEW s \in Staff, UNCHANGED <<load, student>>,
           \/ /\ job[s].pc \in StaffPcs
              /\ \E pc \in StaffPcs \ {"giveBack", "finalize", "unmark"} : Goto(s, pc)
           \/ Become(s, Idle),
           app' = app \/ \E a \in Apps : \E state : Write(a, state),
           job[s].pc # "giveBack",
           trouble' \in {trouble, trouble + 1},
           job[s].pc \in Pinned /\ trouble' = trouble => app'[job[s].app] \notin Live
    PROVE  AInv'
<1>1. s \in Workers
  BY DEF Workers
<1>2. PICK j \in Jobs : Become(s, j) /\ j.pc \notin {"giveBack", "finalize", "unmark"}
  <2>1. CASE Become(s, Idle)
    BY <2>1, RestJobs
  <2>2. ASSUME job[s].pc \in StaffPcs, NEW pc \in StaffPcs \ {"giveBack", "finalize", "unmark"},
               Goto(s, pc)
        PROVE  \E j \in Jobs : Become(s, j) /\ j.pc \notin {"giveBack", "finalize", "unmark"}
    <3> DEFINE g == [job[s] EXCEPT !.pc = pc]
    <3>1. job[s] \in Serving
      BY <2>2, ServingFacts
    <3>2. g \in Jobs /\ g.pc = pc
      BY <3>1, GoOnServing
    <3>3. Become(s, g)
      BY <2>2 DEF Goto
    <3> HIDE DEF g
    <3>4. QED
      BY <3>2, <3>3
  <2>3. QED
    BY <2>1, <2>2
<1>3. QED
  BY <1>1, <1>2, QuietBecome

LEMMA ClaimsOfStaffAccount ==
    ASSUME IInv, AInv, NEW s \in Staff, NEW a \in Apps, Approve(s, a) \/ Reject(s, a)
    PROVE  AInv'
<1>1. s \in Workers /\ Asked[a] \in Buses
  BY AdmissionsAssumption DEF Workers
<1>2. PICK pc \in {"openVerify", "openQueue", "activate", "deny"}, b \in Buses :
         Become(s, [pc |-> pc, app |-> a, bus |-> b])
  BY <1>1 DEF Approve, Reject, Serve
<1> DEFINE j == [pc |-> pc, app |-> a, bus |-> b]
<1>3. j \in Jobs /\ j.pc = pc
  BY ServeJob DEF StaffPcs
<1>4. job[s].pc = "idle" /\ UNCHANGED <<app, load, student, trouble>>
  BY RestJobs DEF Approve, Reject
<1>5. Become(s, j)
  BY <1>2
<1> HIDE DEF j
<1>6. QED
  BY <1>1, <1>3, <1>4, <1>5, QuietBecome DEF Pinned

LEMMA VerifyUpcomingAccounts ==
    ASSUME IInv, AInv, NEW s \in Staff, NEW a \in Apps, VerifyUpcoming(s, a)
    PROVE  AInv'
<1> DEFINE j == [pc |-> "verify", app |-> a, bus |-> Asked[a]]
<1>1. s \in Workers /\ Asked[a] \in Buses
  BY AdmissionsAssumption DEF Workers
<1>2. j \in Jobs /\ j.pc = "verify"
  BY <1>1, ServeJob DEF StaffPcs
<1>3. Become(s, j) /\ job[s].pc = "idle" /\ UNCHANGED <<app, load, student, trouble>>
  BY RestJobs DEF VerifyUpcoming, Serve, rows
<1> HIDE DEF j
<1>4. QED
  BY <1>1, <1>2, <1>3, QuietBecome DEF Pinned

LEMMA OpeningAccounts ==
    ASSUME IInv, AInv, NEW s \in Staff,
           Open(s) \/ Verify(s) \/ Verified(s) \/ Queue(s) \/ Unlock(s)
    PROVE  AInv'
<1>1. CASE Open(s)
  BY <1>1, StaffGoesQuietly DEF Open, StaffPcs, Pinned, Trouble
<1>2. CASE Verify(s)
  BY <1>2, StaffGoesQuietly DEF Verify, StaffPcs, Pinned, rows
<1>3. CASE Verified(s)
  <2>1. job[s].app \in Apps
    BY <1>3, ServingFacts DEF Verified, StaffPcs
  <2>2. QED
    BY <1>3, <2>1, StaffGoesQuietly DEF Verified, Pinned
<1>4. CASE Queue(s)
  <2>1. job[s].app \in Apps
    BY <1>4, ServingFacts DEF Queue, StaffPcs
  <2>2. QED
    BY <1>4, <2>1, StaffGoesQuietly DEF Queue, Pinned
<1>5. CASE Unlock(s)
  BY <1>5, StaffGoesQuietly DEF Unlock, Pinned
<1>6. QED
  BY <1>1, <1>2, <1>3, <1>4, <1>5

LEMMA DenyAccounts ==
    ASSUME IInv, AInv, NEW s \in Staff, Deny(s)
    PROVE  AInv'
<1>1. job[s].app \in Apps /\ job[s].pc = "deny"
  BY ServingFacts DEF Deny, StaffPcs
<1>2. Become(s, Idle) \/ Goto(s, "unlock")
  BY DEF Deny
<1>3. app' = app \/ Write(job[s].app, "rejected")
  BY DEF Deny
<1>4. UNCHANGED <<load, student>> /\ trouble' \in {trouble, trouble + 1}
  BY DEF Deny, Trouble
<1>5. QED
  BY <1>1, <1>2, <1>3, <1>4, StaffGoesQuietly DEF StaffPcs, Pinned

LEMMA ActivateAccounts ==
    ASSUME IInv, AInv, NEW s \in Staff, Activate(s)
    PROVE  AInv'
<1>1. CASE Refused(job[s].app, job[s].bus)
  BY <1>1, StaffGoesQuietly DEF Activate, StaffPcs, Pinned
<1>2. CASE ~Refused(job[s].app, job[s].bus)
  <2>1. job[s].app \in Apps /\ job[s].bus \in Buses /\ s \in Workers
    BY ServingFacts DEF Activate, StaffPcs
  <2>2. Goto(s, "finalize") /\ SeatGiven(job[s].app, job[s].bus) /\ UNCHANGED <<app, trouble>>
    BY <1>2 DEF Activate
  <2>3. /\ job'[s].pc = "finalize" /\ job'[s].app = job[s].app /\ job'[s].bus = job[s].bus
        /\ \A v \in Workers \ {s} : job'[v] = job[v]
    BY <2>2, ServingGoes DEF Activate, StaffPcs
  <2>4. QED
    BY <1>2, <2>1, <2>2, <2>3, SeatingKeeps DEF Activate, Pinned
<1>3. QED
  BY <1>1, <1>2

LEMMA FinalizeAccounts ==
    ASSUME IInv, AInv, NEW s \in Staff, Finalize(s)
    PROVE  AInv'
<1>1. job[s].app \in Apps /\ lock[job[s].app] = s /\ job[s].pc = "finalize"
  BY ServingFacts DEF Finalize, StaffPcs, Holding
<1>2. Write(job[s].app, "activated") /\ Become(s, Idle) /\ UNCHANGED <<load, student, trouble>>
  BY <1>1 DEF Finalize
<1>3. app'[job[s].app] \notin Live
  BY <1>1, <1>2, WriteKeeps DEF IInv, Live
<1>4. QED
  BY <1>1, <1>2, <1>3, StaffGoesQuietly

LEMMA ApprovalErrAccounts ==
    ASSUME IInv, AInv, NEW s \in Staff, ApprovalErr(s)
    PROVE  AInv'
<1>1. job[s].app \in Apps /\ s \in Workers /\ job[s].pc \in {"activate", "finalize"}
  BY ServingFacts DEF ApprovalErr, StaffPcs
<1>2. trouble' = trouble + 1 /\ trouble \in Nat /\ UNCHANGED <<load, student>>
  BY DEF ApprovalErr, Trouble, AInv, Accounts
<1>3. CASE job[s].pc = "activate"
  BY <1>1, <1>2, <1>3, StaffGoesQuietly DEF ApprovalErr, StaffPcs, Pinned
<1>4. CASE job[s].pc = "finalize"
  <2>1. Goto(s, "unmark") /\ (app' = app \/ Write(job[s].app, "activated"))
    BY <1>4 DEF ApprovalErr
  <2>2. /\ job'[s].pc = "unmark" /\ job'[s].app = job[s].app /\ job'[s].bus = job[s].bus
        /\ \A v \in Workers \ {s} : job'[v] = job[v]
    BY <1>4, <2>1, ServingGoes DEF StaffPcs
  <2>3. \A a \in Apps : app'[a] \in Live => app[a] \in Live
    BY <2>1 DEF Write, IInv, TypeOK
  <2>4. QuietMove(s)
    BY <1>2, <1>4, <2>2, <2>3 DEF QuietMove
  <2>5. QED
    BY <1>1, <2>4, QuietKeeps
<1>5. QED
  BY <1>1, <1>3, <1>4

LEMMA GiveBackAccounts ==
    ASSUME IInv, AInv, NEW s \in Staff, GiveBack(s)
    PROVE  AInv'
<1> s \in Workers
  BY DEF Workers
<1>1. job'[s].pc = "unlock" /\ \A v \in Workers \ {s} : job'[v] = job[v]
  BY ServingGoes DEF GiveBack, StaffPcs
<1>2. QED
  BY <1>1, BacksEnd DEF GiveBack

LEMMA StudentLeavesPlaced ==
    ASSUME IInv, AInv, NEW a \in Apps, StudentLeaves(a)
    PROVE  AInv'
<1>1. job' = job /\ \A x \in Apps \ {a} : student'[x] = student[x]
  BY DEF StudentLeaves, IInv, TypeOK
<1>2. ASSUME NEW v \in Workers, job[v].pc \in {"finalize", "unmark"}
      PROVE  job[v].app \in Apps \ {a}
  <2>1. job[v].app # a
    BY <1>2 DEF StudentLeaves, Serves
  <2>2. job[v].app \in Apps
    BY <1>2, WorkKinds DEF IInv, TypeOK, StaffPcs
  <2>3. QED
    BY <2>1, <2>2
<1>3. Placed'
  BY <1>1, <1>2 DEF AInv, Placed
<1>4. Accounts'
  BY LeavingAccounts DEF IInv, AInv
<1>5. QED
  BY <1>3, <1>4 DEF AInv

LEMMA StepsAccount ==
    ASSUME IInv, AInv, Next
    PROVE  AInv'
<1>1. ASSUME NEW w \in Workers, RunStep(w) PROVE AInv'
  BY <1>1, ClaimsAccount, RunAccounts, TakeSeatAccounts, EndingsAccount DEF RunStep
<1>2. ASSUME NEW w \in Workers, Errs(w) PROVE AInv'
  BY <1>2, ClaimsAccount, RunAccounts, RunErrAccounts, EndingsAccount DEF Errs
<1>3. ASSUME NEW s \in Staff, StaffStep(s) PROVE AInv'
  BY <1>3, OpeningAccounts, ActivateAccounts, FinalizeAccounts, UnmarkAccounts,
     GiveBackAccounts, DenyAccounts DEF StaffStep
<1>4. CASE SessionBegins \/ SoftBlockEnds
  BY <1>4, RowsKeepAccounts DEF SessionBegins, SoftBlockEnds, rows
<1>5. ASSUME NEW a \in Apps, StudentLeaves(a) \/ LeaseExpires(a) PROVE AInv'
  BY <1>5, RowsKeepAccounts, StudentLeavesPlaced DEF LeaseExpires
<1>6. QED
  BY <1>1, <1>2, <1>3, <1>4, <1>5, BeginningsAccount, ApprovalErrAccounts,
     ClaimsOfStaffAccount, VerifyUpcomingAccounts DEF Next

LEMMA NothingCounted == Init => AInv
<1> SUFFICES ASSUME Init PROVE AInv
  OBVIOUS
<1>1. \A w \in Workers : job[w].pc = "idle"
  BY RestJobs DEF Init
<1>2. Placed
  BY <1>1 DEF Placed
<1>3. Counted = {} /\ Seated = {} /\ GivingBack = {} /\ Loose = {}
  <2>1. \A b \in Buses : 1 .. load[b] = {}
    BY DEF Init
  <2>2. Counted = {}
    BY <2>1 DEF Counted
  <2>3. Seated = {}
    BY DEF Init, Seated, Absent
  <2>4. GivingBack = {}
    BY <1>1 DEF GivingBack
  <2>5. QED
    BY <2>2, <2>3, <2>4 DEF Loose
<1>4. \A b \in Buses : Occupants(b) = {} /\ Compensating(b) = {} /\ load[b] = 0
  BY <1>3 DEF Occupants, Compensating, Init
<1>5. IsFiniteSet({}) /\ Cardinality({}) = 0
  BY FS_EmptySet
<1>6. trouble = 0
  BY DEF Init
<1>7. Covered
  BY <1>4, <1>5 DEF Covered
<1>8. QED
  BY <1>2, <1>3, <1>5, <1>6, <1>7 DEF AInv, Accounts, Finite, Bounded

(* Seats and students part company only through failures, and each loses   *)
(* at most one seat (session-activation.service.ts, application.service.ts *)
(* and bus_decrement_capacity together).                                   *)
THEOREM SeatsFollowTheStudents == CalmSpec => []SeatsAreAccounted
<1>1. Init => AInv
  BY NothingCounted
<1>2. IInv /\ AInv /\ [Next /\ Alone']_vars => AInv'
  BY StepsAccount, RowsKeepAccounts DEF vars, rows
<1>3. AInv => SeatsAreAccounted
  <2> SUFFICES ASSUME AInv PROVE SeatsAreAccounted
    OBVIOUS
  <2>1. Cardinality(Counted) \in Nat /\ Cardinality(Loose) \in Nat /\ Cardinality(Seated) \in Nat
        /\ Cardinality(GivingBack) \in Nat /\ trouble \in Nat
    BY CountsAreNumbers DEF AInv, Accounts
  <2>2. QED
    BY <2>1 DEF AInv, Accounts, Covered, Bounded, SeatsAreAccounted
<1>4. QED
  BY <1>1, <1>2, <1>3, CalmInvariant, PTL DEF CalmSpec

=============================================================================
