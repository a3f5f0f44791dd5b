---------------------------- MODULE WaitingFlags ----------------------------
(***************************************************************************)
(* The waiting flags of one bus: rows of waiting_flags in PostgreSQL, a    *)
(* copy of the live ones in Redis (flags:active:<bus>, with the sentinel   *)
(* flags:hydrated:<bus>) and a mirror of that copy in the memory of every  *)
(* instance, which answers for 4 s.  Students raise and cancel flags,      *)
(* drivers acknowledge and board them, every accepted location (a tick)    *)
(* acknowledges the flags ahead and clears the ones passed, trips start    *)
(* and end, a cron job expires what is left.                               *)
(*                                                                         *)
(* Every await is a step boundary.  A row expires 90 min after its raise   *)
(* (late).  A raise reads its flags and the active trip in parallel, which *)
(* is one step here.  Left out: entitlement, corridor, window and limit of *)
(* two raises per trip (a raise may be refused at any time), the mark that *)
(* spares a second acknowledgement, broadcasts, and Redis being            *)
(* unreachable while it keeps its data.  Of a trip it only matters whether *)
(* it is the one under way, so that trips may follow each other for ever.  *)
(***************************************************************************)
EXTENDS Naturals, FiniteSets

CONSTANTS
    Nodes,       \* instances of the application
    Students,
    MaxFlags,    \* bound: rows ever inserted
    Posts,       \* raises served at the same time
    Calls,       \* acknowledgements, boardings and cancellations
    Ticks,       \* locations processed at the same time
    Ends,        \* clean-ups after the end of a trip
    AtOnce,      \* bound: requests and unawaited updates under way
    NoFlag

(* Rows are numbered in the order they are made.                           *)
Flags == 1 .. MaxFlags

ASSUME BoundsAssumption == MaxFlags \in Nat /\ AtOnce \in Nat
ASSUME NoFlagAssumption == NoFlag \notin Flags

VARIABLES
    active,      \* is a trip of the bus under way (active_trips)?
    flag,        \* waiting_flags
    redis,       \* the ids in flags:active:<bus>
    hydrated,    \* the sentinel
    local,       \* memActiveFlags, memFlagsHydrated, lastFlagSyncMs
    post, call, tick, end,      \* what is being served
    writes       \* updates sent to PostgreSQL that nobody awaits

db == <<active, flag>>
cache == <<redis, hydrated, local>>
served == <<post, call, tick, end>>
flagVars == <<db, cache, served, writes>>

Live == {"raised", "acknowledged"}
Status == Live \cup {"none", "boarded", "cancelled", "expired", "gone"}

(* late: expires_at has passed.  trip: the trip of a row or of a raise is  *)
(* under way, was over when the row was inserted, or is over since; rows   *)
(* that are not live do not keep count.                                    *)
TripOf == {"none", "running", "wasOver", "over"}
Row == [status : Status, by : Students, trip : TripOf, late : BOOLEAN]

IsLive(f) == flag[f].status \in Live
LiveOf(s) == {f \in Flags : IsLive(f) /\ flag[f].by = s}

IdleReq == [pc |-> "idle"]
Busy(reqs) == {r \in DOMAIN reqs : reqs[r] # IdleReq}
Room == Cardinality(Busy(post)) + Cardinality(Busy(call)) + Cardinality(Busy(tick))
            + Cardinality(Busy(end)) + Cardinality(writes) < AtOnce

Empty == [map |-> FALSE, flags |-> {}, fresh |-> FALSE, warm |-> FALSE]

TypeOK ==
    /\ active \in BOOLEAN
    /\ flag \in [Flags -> Row]
    /\ redis \in SUBSET Flags /\ hydrated \in BOOLEAN
    /\ local \in [Nodes -> [map : BOOLEAN, flags : SUBSET Flags, fresh : BOOLEAN, warm : BOOLEAN]]
    /\ post \in [Posts -> {IdleReq} \cup
           [pc : {"expire", "conflict", "publish"}, node : Nodes, by : Students,
            stale : SUBSET Flags, trip : TripOf, retry : BOOLEAN,
            flag : Flags \cup {NoFlag}]]
    /\ call \in [Calls -> {IdleReq} \cup
           [pc : {"write"}, node : Nodes, flag : Flags, kind : {"ack", "note", "board"}] \cup
           [pc : {"evict", "patch", "hset"}, node : Nodes, flag : Flags]]
    /\ tick \in [Ticks -> {IdleReq} \cup
           [pc : {"query", "fill", "read", "sweep", "hset"}, node : Nodes,
            todo : SUBSET Flags, flag : Flags \cup {NoFlag}]]
    /\ end \in [Ends -> {IdleReq} \cup
           [pc : {"delete", "evict", "expire"}, node : Nodes, reaped : BOOLEAN]]
    /\ writes \in SUBSET ({"acknowledged", "expired"} \X Flags)
    \* the unique index idx_waiting_flags_one_active_student
    /\ \A s \in Students : Cardinality(LiveOf(s)) <= 1

Init ==
    /\ active = FALSE
    /\ flag \in {[f \in Flags |-> [status |-> "none", by |-> s, trip |-> "none",
                                   late |-> FALSE]] : s \in Students}
    /\ redis = {} /\ hydrated = FALSE
    /\ local = [n \in Nodes |-> Empty]
    /\ post = [p \in Posts |-> IdleReq]
    /\ call = [c \in Calls |-> IdleReq]
    /\ tick = [k \in Ticks |-> IdleReq]
    /\ end = [e \in Ends |-> IdleReq]
    /\ writes = {}

-----------------------------------------------------------------------------
(***************************************************************************)
(* Writing rows.                                                           *)
(***************************************************************************)

(* The rows with the status of those of fs set; a deleted row stays so.    *)
WithStatus(fs, st) ==
    [f \in Flags |->
        IF f \notin fs \/ flag[f].status \in {"none", "gone"} THEN flag[f]
        ELSE IF st \in Live THEN [flag[f] EXCEPT !.status = st]
        ELSE [flag[f] EXCEPT !.status = st, !.late = FALSE, !.trip = "none"]]

SetStatus(fs, st) == flag' = WithStatus(fs, st)

(* The trip under way has ended: so has the trip of these rows or raises.  *)
Over(r) == IF r # IdleReq /\ r.trip = "running" THEN [r EXCEPT !.trip = "over"] ELSE r

(* What an UPDATE may still change.                                        *)
Unguarded(st) == Status                                           \* a fault
Open(st) == IF st = "acknowledged" THEN {"raised"} ELSE Live

(* UPDATE ... WHERE id = f AND status IN (...)                             *)
Update(f, st) ==
    SetStatus(IF flag[f].status \in Open(st) THEN {f} ELSE {}, st)

(* What the unique index keeps a second row of the student out of.         *)
TakenByRaised(s) == \E f \in LiveOf(s) : flag[f].status = "raised"   \* a fault
Taken(s) == LiveOf(s) # {}

(* The rows expire_waiting_flags looks at.                                 *)
LiveAndLate == {f \in Flags : IsLive(f) /\ flag[f].late}

(* The rows that the purge of a start deletes: those of all other trips.   *)
PurgedNone == {}                                                  \* a fault
Purged == Flags

-----------------------------------------------------------------------------
(***************************************************************************)
(* The copies.  Each operator says what a command leaves in Redis and in   *)
(* the memory of instance n.                                               *)
(***************************************************************************)

(* setRedisActiveFlag *)
Store(n, f) ==
    /\ local' = [local EXCEPT ![n] = [map |-> TRUE, flags |-> @.flags \cup {f},
                                      fresh |-> TRUE, warm |-> TRUE]]
    /\ redis' = redis \cup {f}
    /\ hydrated' = TRUE

(* removeRedisActiveFlag *)
Remove(n, f) ==
    /\ local' = [local EXCEPT ![n].flags = @ \ {f}, ![n].fresh = local[n].map]
    /\ redis' = redis \ {f}
    /\ UNCHANGED hydrated

(* updateRedisActiveFlag writes the flag back at once if the mirror has    *)
(* it; otherwise it fetches it first (HGET) and writes back what it found  *)
(* one round trip later (HSET).                                            *)
Fetches(n, f) == f \notin local[n].flags

WriteBack(n, f) ==
    /\ redis' = redis \cup {f}
    /\ local' = [local EXCEPT ![n].fresh = local[n].map]
    /\ UNCHANGED hydrated

-----------------------------------------------------------------------------
(***************************************************************************)
(* POST /api/student/waiting-flag                                          *)
(***************************************************************************)

(* The student has no live flag, or one that is late.                      *)
RaiseReads(p, s, n) ==
    /\ Room /\ post[p] = IdleReq
    /\ \A f \in LiveOf(s) : flag[f].late
    /\ post' = [post EXCEPT ![p] =
           [pc |-> "expire", node |-> n, by |-> s, stale |-> LiveOf(s),
            trip |-> IF active THEN "running" ELSE "none", retry |-> FALSE, flag |-> NoFlag]]
    /\ UNCHANGED <<db, cache, call, tick, end, writes>>

(* UPDATE ... SET status = 'expired' WHERE id = f: whatever it is by now.  *)
RaiseExpires(p) ==
    /\ post[p].pc = "expire"
    /\ \E f \in post[p].stale :
          /\ SetStatus({f}, "expired")
          /\ post' = [post EXCEPT ![p].stale = @ \ {f}]
    /\ UNCHANGED <<active, cache, call, tick, end, writes>>

(* No trip, outside the corridor or the window, twice already.             *)
RaiseRefused(p) ==
    /\ post[p].pc = "expire" /\ post[p].stale = {} /\ ~ post[p].retry
    /\ post' = [post EXCEPT ![p] = IdleReq]
    /\ UNCHANGED <<db, cache, call, tick, end, writes>>

(* The insert, or the violation of the unique index.                       *)
RaiseInserts(p) ==
    /\ post[p].pc = "expire" /\ post[p].stale = {} /\ post[p].trip # "none"
    /\ \/ /\ ~ Taken(post[p].by)
          /\ \E f \in Flags :
                /\ flag[f].status = "none" /\ \A g \in 1 .. (f - 1) : flag[g].status # "none"
                /\ flag' = [flag EXCEPT ![f] =
                       [status |-> "raised", by |-> post[p].by, late |-> FALSE,
                        trip |-> IF post[p].trip = "over" THEN "wasOver" ELSE "running"]]
                /\ post' = [post EXCEPT ![p] = [@ EXCEPT !.pc = "publish", !.flag = f,
                                                !.trip = "none", !.retry = FALSE]]
       \/ /\ Taken(post[p].by)
          /\ post' = IF post[p].retry THEN [post EXCEPT ![p] = IdleReq]
                     ELSE [post EXCEPT ![p].pc = "conflict"]
          /\ UNCHANGED flag
    /\ UNCHANGED <<active, cache, call, tick, end, writes>>

(* The flag in the way is looked at: a late one is expired, then the       *)
(* insert is tried once more.                                              *)
RaiseConflicts(p) ==
    /\ post[p].pc = "conflict"
    /\ LET late == {f \in LiveOf(post[p].by) : flag[f].late}
       IN  post' = IF late = {} THEN [post EXCEPT ![p] = IdleReq]
                   ELSE [post EXCEPT ![p].pc = "expire", ![p].stale = late, ![p].retry = TRUE]
    /\ UNCHANGED <<db, cache, call, tick, end, writes>>

RaisePublishes(p) ==
    /\ post[p].pc = "publish"
    /\ Store(post[p].node, post[p].flag)
    /\ post' = [post EXCEPT ![p] = IdleReq]
    /\ UNCHANGED <<db, call, tick, end, writes>>

-----------------------------------------------------------------------------
(***************************************************************************)
(* ack-flag ("ack"), ack-waiting ("note", which leaves Redis alone),       *)
(* mark-boarded ("board") and the student's cancellation ("cancel").       *)
(***************************************************************************)

NewStatus(k) ==
    CASE k \in {"ack", "note"} -> "acknowledged" [] k = "board" -> "boarded" [] OTHER -> "cancelled"

Evicting(n, f) == [pc |-> "evict", node |-> n, flag |-> f]
Patching(n, f) == [pc |-> "patch", node |-> n, flag |-> f]

(* The driver's request reads the flag and the trip.                       *)
DriverReads(c, k, f, n) ==
    /\ Room /\ call[c] = IdleReq
    /\ flag[f].status \in Open(NewStatus(k)) /\ ~ flag[f].late
    /\ k # "note" => active
    /\ call' = [call EXCEPT ![c] = [pc |-> "write", node |-> n, flag |-> f, kind |-> k]]
    /\ UNCHANGED <<db, cache, post, tick, end, writes>>

(* The student's request begins with the update.                           *)
Cancels(c, f, n) ==
    /\ Room /\ call[c] = IdleReq
    /\ IsLive(f)
    /\ Update(f, "cancelled")
    /\ call' = [call EXCEPT ![c] = Evicting(n, f)]
    /\ UNCHANGED <<active, cache, post, tick, end, writes>>

DriverWrites(c) ==
    /\ call[c].pc = "write"
    /\ LET f == call[c].flag
           k == call[c].kind
           n == call[c].node
       IN  /\ Update(f, NewStatus(k))
           /\ call' = [call EXCEPT ![c] =
                  IF flag[f].status \notin Open(NewStatus(k)) \/ k = "note" THEN IdleReq
                  ELSE IF k = "ack" THEN Patching(n, f) ELSE Evicting(n, f)]
    /\ UNCHANGED <<active, cache, post, tick, end, writes>>

CallEvicts(c) ==
    /\ call[c].pc = "evict"
    /\ Remove(call[c].node, call[c].flag)
    /\ call' = [call EXCEPT ![c] = IdleReq]
    /\ UNCHANGED <<db, post, tick, end, writes>>

CallPatches(c) ==
    /\ call[c].pc = "patch"
    /\ LET n == call[c].node
           f == call[c].flag
       IN  \/ /\ Fetches(n, f)
              /\ call' = IF f \in redis THEN [call EXCEPT ![c].pc = "hset"]
                         ELSE [call EXCEPT ![c] = IdleReq]
              /\ UNCHANGED cache
           \/ /\ ~ Fetches(n, f)
              /\ WriteBack(n, f)
              /\ call' = [call EXCEPT ![c] = IdleReq]
    /\ UNCHANGED <<db, post, tick, end, writes>>

CallWritesBack(c) ==
    /\ call[c].pc = "hset"
    /\ WriteBack(call[c].node, call[c].flag)
    /\ call' = [call EXCEPT ![c] = IdleReq]
    /\ UNCHANGED <<db, post, tick, end, writes>>

-----------------------------------------------------------------------------
(***************************************************************************)
(* processWaitingFlagsOnGpsTick                                            *)
(***************************************************************************)

NextTick(k, pc, todo) == [tick EXCEPT ![k].pc = pc, ![k].todo = todo, ![k].flag = NoFlag]

(* isRedisFlagsHydrated, and setRedisFlagsHydrated if neither the instance *)
(* nor Redis has been filled.                                              *)
TickBegins(k, n) ==
    /\ Room /\ tick[k] = IdleReq
    /\ tick' = [tick EXCEPT ![k] =
           [pc |-> IF local[n].warm \/ hydrated THEN "read" ELSE "query",
            node |-> n, todo |-> {}, flag |-> NoFlag]]
    /\ local' = [local EXCEPT ![n].warm = TRUE]
    /\ hydrated' = (hydrated \/ ~ local[n].warm)
    /\ UNCHANGED <<db, redis, post, call, end, writes>>

(* The live flags of the bus, or an error, after which nothing is filled.  *)
TickQueries(k) ==
    /\ tick[k].pc = "query"
    /\ tick' \in {NextTick(k, "fill", {f \in Flags : IsLive(f) /\ ~ flag[f].late}),
                  NextTick(k, "read", {})}
    /\ UNCHANGED <<db, cache, post, call, end, writes>>

TickFills(k) ==
    /\ tick[k].pc = "fill"
    /\ \E f \in tick[k].todo :
          /\ Store(tick[k].node, f)
          /\ tick' = NextTick(k, "fill", tick[k].todo \ {f})
    /\ UNCHANGED <<db, post, call, end, writes>>

(* getRedisActiveFlags *)
TickReads(k) ==
    /\ tick[k].pc \in {"fill", "read"} /\ tick[k].todo = {}
    /\ LET n == tick[k].node
           l == local[n]
           seen == IF l.warm /\ l.map /\ l.fresh THEN l.flags ELSE redis
       IN  /\ local' = [local EXCEPT ![n] =
                  [map |-> TRUE, flags |-> seen, fresh |-> TRUE, warm |-> TRUE]]
           /\ tick' = IF seen = {} THEN [tick EXCEPT ![k] = IdleReq]
                      ELSE NextTick(k, "sweep", seen)
    /\ UNCHANGED <<db, redis, hydrated, post, call, end, writes>>

AfterFlag(k, todo) ==
    IF todo = {} THEN [tick EXCEPT ![k] = IdleReq] ELSE NextTick(k, "sweep", todo)

(* One flag: nothing to do; older than 90 min; ahead of the bus; passed.   *)
TickSweeps(k) ==
    /\ tick[k].pc = "sweep"
    /\ \E f \in tick[k].todo :
          LET n == tick[k].node
              rest == tick[k].todo \ {f}
          IN  \/ /\ tick' = AfterFlag(k, rest)
                 /\ UNCHANGED <<cache, writes>>
              \/ /\ IsLive(f) => flag[f].late
                 /\ Remove(n, f)
                 /\ tick' = AfterFlag(k, rest)
                 /\ UNCHANGED writes
              \/ /\ Fetches(n, f) /\ f \in redis
                 /\ tick' = [NextTick(k, "hset", rest) EXCEPT ![k].flag = f]
                 /\ UNCHANGED <<cache, writes>>
              \/ /\ Fetches(n, f) /\ f \notin redis
                 /\ writes' = writes \cup {<<"acknowledged", f>>}
                 /\ tick' = AfterFlag(k, rest)
                 /\ UNCHANGED cache
              \/ /\ ~ Fetches(n, f)
                 /\ WriteBack(n, f)
                 /\ writes' = writes \cup {<<"acknowledged", f>>}
                 /\ tick' = AfterFlag(k, rest)
              \/ /\ Remove(n, f)
                 /\ writes' = writes \cup {<<"expired", f>>}
                 /\ tick' = AfterFlag(k, rest)
    /\ UNCHANGED <<db, post, call, end>>

TickWritesBack(k) ==
    /\ tick[k].pc = "hset"
    /\ WriteBack(tick[k].node, tick[k].flag)
    /\ writes' = writes \cup {<<"acknowledged", tick[k].flag>>}
    /\ tick' = AfterFlag(k, tick[k].todo)
    /\ UNCHANGED <<db, post, call, end>>

(* An update nobody awaits reaches PostgreSQL.                             *)
WriteLands ==
    /\ \E w \in writes :
          /\ writes' = writes \ {w}
          /\ Update(w[2], w[1])
    /\ UNCHANGED <<active, cache, served>>

(* It fails, and nobody hears of it.                                       *)
WriteFails ==
    /\ \E w \in writes : writes' = writes \ {w}
    /\ UNCHANGED <<db, cache, served>>

-----------------------------------------------------------------------------
(***************************************************************************)
(* Starts and ends of the trip, and what they do to the flags.             *)
(***************************************************************************)

(* acquire_trip_lock, on a free bus or by handover.                        *)
StartTrip ==
    /\ active' = TRUE
    /\ flag' = [f \in Flags |-> Over(WithStatus(Purged, "gone")[f])]
    /\ post' = [p \in Posts |-> Over(post[p])]
    /\ UNCHANGED <<cache, call, tick, end, writes>>

(* end_trip_atomically, or cleanup_stale_locks: the bus's flags go with    *)
(* the trip.                                                               *)
EndTrip(e, n, reaped) ==
    /\ Room /\ active /\ end[e] = IdleReq
    /\ active' = FALSE
    /\ SetStatus(Flags, "gone")
    /\ post' = [p \in Posts |-> Over(post[p])]
    /\ end' = [end EXCEPT ![e] =
           [pc |-> IF reaped THEN "evict" ELSE "delete", node |-> n, reaped |-> reaped]]
    /\ UNCHANGED <<cache, call, tick, writes>>

(* cleanupTrip deletes the flags of the bus once more, by then perhaps     *)
(* those of the next trip.                                                 *)
EndDeletes(e) ==
    /\ end[e].pc = "delete"
    /\ SetStatus(Flags, "gone")
    /\ end' = [end EXCEPT ![e].pc = "evict"]
    /\ UNCHANGED <<active, cache, post, call, tick, writes>>

(* clearRedisActiveFlags, in evictAllBusRuntimeState                       *)
EndEvicts(e) ==
    /\ end[e].pc = "evict"
    /\ local' = [local EXCEPT ![end[e].node] = Empty]
    /\ redis' = {} /\ hydrated' = FALSE
    /\ end' = IF end[e].reaped THEN [end EXCEPT ![e].pc = "expire"]
              ELSE [end EXCEPT ![e] = IdleReq]
    /\ UNCHANGED <<db, post, call, tick, writes>>

(* The cron job expires what the bus has live by now.                      *)
EndExpires(e) ==
    /\ end[e].pc = "expire"
    /\ SetStatus({f \in Flags : IsLive(f)}, "expired")
    /\ end' = [end EXCEPT ![e] = IdleReq]
    /\ UNCHANGED <<active, cache, post, call, tick, writes>>

-----------------------------------------------------------------------------
(***************************************************************************)
(* Time, the cron job's sweep, and faults.                                 *)
(***************************************************************************)

TurnsLate(f) ==
    /\ IsLive(f) /\ ~ flag[f].late
    /\ flag' = [flag EXCEPT ![f].late = TRUE]
    /\ UNCHANGED <<active, cache, served, writes>>

(* The 4 s of a mirror, and the 30 min of the sentinel, pass.              *)
MirrorAges(n) ==
    /\ local[n].fresh
    /\ local' = [local EXCEPT ![n].fresh = FALSE]
    /\ UNCHANGED <<db, redis, hydrated, served, writes>>

SentinelExpires ==
    /\ hydrated
    /\ hydrated' = FALSE
    /\ UNCHANGED <<db, redis, local, served, writes>>

(* cleanup-stale-locks, step 2: the pre-sweep, then expire_waiting_flags.  *)
CronEvicts(n, f) ==
    /\ f \in LiveAndLate
    /\ Remove(n, f)
    /\ UNCHANGED <<db, served, writes>>

CronExpires ==
    /\ LiveAndLate # {}
    /\ SetStatus(LiveAndLate, "expired")
    /\ UNCHANGED <<active, cache, served, writes>>

(* Redis restarts empty.                                                   *)
Flush ==
    /\ redis # {}
    /\ redis' = {} /\ hydrated' = FALSE
    /\ UNCHANGED <<db, local, served, writes>>

(* The instance is recycled, with the requests it serves.                  *)
Restart(n) ==
    LET Survivors(reqs) ==
            [r \in DOMAIN reqs |-> IF reqs[r] # IdleReq /\ reqs[r].node = n THEN IdleReq ELSE reqs[r]]
    IN  /\ local' = [local EXCEPT ![n] = Empty]
        /\ post' = Survivors(post)
        /\ call' = Survivors(call)
        /\ tick' = Survivors(tick)
        /\ end' = Survivors(end)
        /\ UNCHANGED <<db, redis, hydrated, writes>>

TickStep(k) ==
    \/ \E n \in Nodes : TickBegins(k, n)
    \/ TickQueries(k) \/ TickFills(k) \/ TickReads(k) \/ TickSweeps(k) \/ TickWritesBack(k)

PostStep(p) ==
    \/ \E s \in Students, n \in Nodes : RaiseReads(p, s, n)
    \/ RaiseExpires(p) \/ RaiseRefused(p) \/ RaiseInserts(p)
    \/ RaiseConflicts(p) \/ RaisePublishes(p)

CallStep(c) ==
    \/ \E k \in {"ack", "note", "board"}, f \in Flags, n \in Nodes : DriverReads(c, k, f, n)
    \/ \E f \in Flags, n \in Nodes : Cancels(c, f, n)
    \/ DriverWrites(c) \/ CallEvicts(c) \/ CallPatches(c) \/ CallWritesBack(c)

EndStep(e) ==
    \/ \E n \in Nodes, reaped \in BOOLEAN : EndTrip(e, n, reaped)
    \/ EndDeletes(e) \/ EndEvicts(e) \/ EndExpires(e)

Requests ==
    \/ \E p \in Posts : PostStep(p)
    \/ \E c \in Calls : CallStep(c)
    \/ \E k \in Ticks : TickStep(k)
    \/ \E e \in Ends : EndStep(e)
    \/ StartTrip
    \/ WriteLands

Ageing ==
    \/ \E f \in Flags : TurnsLate(f)
    \/ SentinelExpires
    \/ \E n \in Nodes, f \in Flags : CronEvicts(n, f)
    \/ CronExpires

Next ==
    \/ Requests
    \/ Ageing
    \/ WriteFails
    \/ \E n \in Nodes : MirrorAges(n) \/ Restart(n)
    \/ Flush

Spec == Init /\ [][Next]_flagVars

-----------------------------------------------------------------------------
(***************************************************************************)
(* Properties.                                                             *)
(***************************************************************************)

(* A live flag is a flag of the trip under way: no end, reap, handover or  *)
(* start leaves one behind.  The exception is a raise that read the trip   *)
(* before its end and inserts after it; such a flag stays live, and keeps  *)
(* its student from raising another, until the next start.                 *)
NoLeftovers == \A f \in Flags :
    IsLive(f) => flag[f].trip = "wasOver" \/ (flag[f].trip = "running" /\ active)

(* A flag that was boarded or cancelled stays so until it is deleted, in   *)
(* whatever order requests, ticks and the cron job write.  The one         *)
(* exception is the expiry of a late flag by the next raise, which does    *)
(* not look at the status again.                                           *)
FinalStays ==
    [][\A f \in Flags :
          flag[f].status \in {"boarded", "cancelled"} =>
              \/ flag'[f].status \in {flag[f].status, "gone"}
              \/ \E p \in Posts : post[p] # IdleReq /\ f \in post[p].stale /\ post'[p] # post[p]]_flagVars
=============================================================================
