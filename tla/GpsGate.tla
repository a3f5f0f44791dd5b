------------------------------ MODULE GpsGate ------------------------------
(***************************************************************************)
(* What decides whether a location of a bus is accepted: the caches of the *)
(* trip under way, kept by every instance of the application in its own    *)
(* memory and by all of them in Redis, in front of active_trips.           *)
(*                                                                         *)
(* One bus.  It goes by several names (getBusIdVariations): requests use   *)
(* the name Id, the look-ups try every name, and some of them fill the     *)
(* caches under every name.  Every await of a handler is a step boundary.  *)
(* Time is not modelled: the lifetime of a cached lock (35 s in memory,    *)
(* renewed by every update; 120 s in Redis) ends whenever it likes, and    *)
(* the expiry of the trip itself, which heartbeats put off for 2 h, may be *)
(* found to have passed by whoever compares it with the clock.  A Redis    *)
(* command may fail at any time; the copy in memory then stands in.        *)
(*                                                                         *)
(* Left out: device sessions, validation of coordinates, the ordering      *)
(* guard, routes and shifts copied from one cache to the next, and the     *)
(* negative cache, which is written and never read.                        *)
(***************************************************************************)
EXTENDS Naturals, Sequences, FiniteSets

CONSTANTS
    Nodes,       \* instances of the application
    Drivers,
    Trips,
    DriverOf,    \* the driver of each trip
    Names,       \* the names of the bus, in the order they are tried
    Updates,     \* location updates served at the same time
    Calls,       \* requests about trips served at the same time
    NoTrip       \* nothing cached, nothing under way, no trip named

ASSUME NoTripAssumption == NoTrip \notin Trips
ASSUME DriverOfAssumption == DriverOf \in [Trips -> Drivers]
ASSUME RequestsAssumption == Updates \cap Calls = {}
ASSUME NamesAssumption == Names \in Seq(STRING) /\ Len(Names) >= 1

VARIABLES
    row,      \* the trip active_trips holds for the bus
    issued,   \* every trip that was ever started
    pos,      \* positiveLockCache of each instance, by driver and name
    mem,      \* memTripLocks of each instance, by name
    redis,    \* trip:active:<name>
    req       \* the requests being served

gateVars == <<row, issued, pos, mem, redis, req>>

Requests == Updates \cup Calls

NameIndex == 1 .. Len(Names)
Id == 1                     \* the name requests use, as an index of Names

TripOrNone == Trips \cup {NoTrip}

(* What memTripLocks and Redis hold: a trip and the driver it is for.      *)
Hold == [trip : TripOrNone, driver : Drivers \cup {NoTrip}]
NoHold == [trip |-> NoTrip, driver |-> NoTrip]
HoldOf(t, d) == [trip |-> t, driver |-> d]

Over(t) == t \in issued /\ row # t

IdleReq == [pc |-> "idle"]

UpdatePcs == {"adopt", "recheck", "asked", "query", "confirm", "guard"}
EndPcs == {"evict", "clearAgain", "settle", "evictReaped", "clearReaped"}
StartPcs == {"cleanse", "prime"}

(* claim is the trip a packet names, the one a start replaced or the one   *)
(* an end has ended; found the trip the request has learnt of.             *)
Request == [pc : UpdatePcs \cup EndPcs \cup StartPcs, node : Nodes,
            driver : Drivers, claim : TripOrNone, found : Hold, name : NameIndex]

TypeOK ==
    /\ row \in TripOrNone /\ issued \in SUBSET Trips
    /\ pos \in [Nodes -> [Drivers -> [NameIndex -> TripOrNone]]]
    /\ mem \in [Nodes -> [NameIndex -> Hold]]
    /\ redis \in [NameIndex -> Hold]
    /\ req \in [Requests -> Request \cup {IdleReq}]

Init ==
    /\ row = NoTrip /\ issued = {}
    /\ pos = [n \in Nodes |-> [d \in Drivers |-> [i \in NameIndex |-> NoTrip]]]
    /\ mem = [n \in Nodes |-> [i \in NameIndex |-> NoHold]]
    /\ redis = [i \in NameIndex |-> NoHold]
    /\ req = [r \in Requests |-> IdleReq]

-----------------------------------------------------------------------------
(***************************************************************************)
(* The caches.                                                             *)
(***************************************************************************)

(* getRedisTripLock: what Redis says, remembered in memory; what memory    *)
(* says when Redis has nothing or does not answer.                         *)
RedisLock(n, i, up) == IF up /\ redis[i] # NoHold THEN redis[i] ELSE mem[n][i]

Remember(n, i, up) == mem' = [mem EXCEPT ![n][i] = RedisLock(n, i, up)]

(* A lock lets driver d through only if it is the driver's own.            *)
GrantsAnyone(h, d) == h # NoHold      \* a fault
Grants(h, d) == h # NoHold /\ h.driver = d

(* The active trip of driver d in the database.                            *)
RowOfEver(d) ==                       \* a fault: ended trips as well
    IF \E t \in issued : DriverOf[t] = d
    THEN HoldOf(CHOOSE t \in issued : DriverOf[t] = d, d) ELSE NoHold
RowOf(d) == IF row # NoTrip /\ DriverOf[row] = d THEN HoldOf(row, d) ELSE NoHold

LastNamePlusOne == Len(Names) + 1     \* a fault
LastName == Len(Names)

(* setRedisTripLock, under each of the names is *)
Publish(n, is, h, up) ==
    /\ mem' = [mem EXCEPT ![n] = [i \in NameIndex |-> IF i \in is THEN h ELSE @[i]]]
    /\ redis' = [i \in NameIndex |-> IF up /\ i \in is THEN h ELSE redis[i]]

(* clearRedisTripLock *)
ClearLock(n, up) ==
    /\ mem' = [mem EXCEPT ![n][Id] = NoHold]
    /\ redis' = IF up THEN [redis EXCEPT ![Id] = NoHold] ELSE redis

(* setActiveTripCache *)
SetActiveTripCache(n, t, d, up) ==
    /\ pos' = [pos EXCEPT ![n][d][Id] = t]
    /\ Publish(n, {Id}, HoldOf(t, d), up)

(* The entries of driver d of one instance, under every name.              *)
CachedUnderAll(n, d, l) == [pos EXCEPT ![n][d] = [i \in NameIndex |-> l]]

(* invalidateActiveTripCache with the bus, once for each driver of ds      *)
InvalidateActiveTripCache(n, ds, up) ==
    /\ pos' = [pos EXCEPT ![n] =
                  [d \in Drivers |-> IF d \in ds THEN [@[d] EXCEPT ![Id] = NoTrip] ELSE @[d]]]
    /\ ClearLock(n, up)

Goto(r, pc) == req' = [req EXCEPT ![r].pc = pc]
Pass(r, pc) == req' = [req EXCEPT ![r].pc = pc, ![r].claim = NoTrip]   \* the claim is settled
Learn(r, pc, h) == req' = [req EXCEPT ![r].pc = pc, ![r].found = h]
Finish(r) == req' = [req EXCEPT ![r] = IdleReq]
Serve(r, pc, n, d, c, h) ==
    req' = [req EXCEPT ![r] = [pc |-> pc, node |-> n, driver |-> d,
                               claim |-> c, found |-> h, name |-> Id]]

-----------------------------------------------------------------------------
(***************************************************************************)
(* A location update: the quick path of the route, then checkActiveTrip.   *)
(***************************************************************************)

(* The first name under which a positive lock is cached.                   *)
CachedAt(p, i) == p[i] # NoTrip /\ \A j \in 1 .. (i - 1) : p[j] = NoTrip

(* The part of checkActiveTrip before the first await, on the locks p that *)
(* the driver has at the instance by then.  Leaves mem and redis alone.    *)
CheckCached(r, n, d, c, p) ==
    \/ \E i \in NameIndex :
          /\ CachedAt(p, i)
          /\ \/ /\ pos' = [pos EXCEPT ![n][d] = [p EXCEPT ![i] = NoTrip]]  \* expired
                /\ Finish(r)
             \/ /\ c \notin {NoTrip, p[i]}                                 \* mismatch
                /\ pos' = [pos EXCEPT ![n][d] = p]
                /\ Finish(r)
             \/ /\ c \in {NoTrip, p[i]}
                /\ pos' = [pos EXCEPT ![n][d] = p]
                /\ Serve(r, "guard", n, d, NoTrip, HoldOf(p[i], d))
    \/ /\ \A i \in NameIndex : p[i] = NoTrip
       /\ pos' = [pos EXCEPT ![n][d] = p]
       /\ Serve(r, "asked", n, d, c, NoHold)

(* A packet of driver d that names trip c, or none.  Without a positive    *)
(* lock under the bus's own name the route asks Redis.                     *)
UpdateArrives(r, n, d, c, up) ==
    /\ req[r] = IdleReq
    /\ \/ /\ pos[n][d][Id] # NoTrip
          /\ CheckCached(r, n, d, c, pos[n][d])
          /\ UNCHANGED mem
       \/ /\ pos[n][d][Id] = NoTrip
          /\ Remember(n, Id, up)
          /\ LET h == RedisLock(n, Id, up)
             IN  IF Grants(h, d) THEN Serve(r, "adopt", n, d, c, h)
                 ELSE Serve(r, "recheck", n, d, c, NoHold)
          /\ UNCHANGED pos
    /\ UNCHANGED <<row, issued, redis>>

(* The lock found in Redis is adopted with setActiveTripCache, which       *)
(* publishes it again, and checkActiveTrip begins at once.                 *)
Adopt(r, up) ==
    /\ req[r].pc = "adopt"
    /\ LET n == req[r].node
           d == req[r].driver
       IN  /\ Publish(n, {Id}, req[r].found, up)
           /\ CheckCached(r, n, d, req[r].claim,
                          [pos[n][d] EXCEPT ![Id] = req[r].found.trip])
    /\ UNCHANGED <<row, issued>>

(* Nothing was adopted: checkActiveTrip begins after a read of buses.      *)
Recheck(r) ==
    /\ req[r].pc = "recheck"
    /\ CheckCached(r, req[r].node, req[r].driver, req[r].claim,
                   pos[req[r].node][req[r].driver])
    /\ UNCHANGED <<row, issued, mem, redis>>

(* checkActiveTrip asks Redis under the next name and acts on the answer   *)
(* of the one before: both are in this step, since the answer to the last  *)
(* name is acted on in the same turn as it arrives.                        *)
AskRedis(r, up) ==
    /\ req[r].pc = "asked"
    /\ LET n == req[r].node
           i == req[r].name
           h == RedisLock(n, i, up)
       IN  /\ Remember(n, i, up)
           /\ req' = [req EXCEPT ![r] =
                 IF Grants(h, req[r].driver)
                 THEN [@ EXCEPT !.pc = "query", !.found = h]
                 ELSE IF i = LastName THEN [@ EXCEPT !.pc = "query", !.found = NoHold]
                 ELSE [@ EXCEPT !.name = i + 1]]
    /\ UNCHANGED <<row, issued, pos, redis>>

(* The answer of Redis arrives.  A lock of the driver decides; without one *)
(* active_trips is queried (the row as it is now).                         *)
RedisAnswers(r) ==
    /\ req[r].pc = "query"
    /\ LET n == req[r].node
           d == req[r].driver
           h == req[r].found
       IN  \/ /\ h # NoHold /\ req[r].claim \notin {NoTrip, h.trip}
              /\ Finish(r)
              /\ UNCHANGED pos
           \/ /\ h # NoHold /\ req[r].claim \in {NoTrip, h.trip}
              /\ pos' = CachedUnderAll(n, d, h.trip)
              /\ Pass(r, "guard")
           \/ /\ h = NoHold
              /\ Learn(r, "confirm", RowOf(d))
              /\ UNCHANGED pos
    /\ UNCHANGED <<row, issued, mem, redis>>

(* The answer of the database arrives.  No trip, an expired one or an      *)
(* error deletes the driver's entries; the trip found is cached under      *)
(* every name of the bus.                                                  *)
Confirm(r, up) ==
    /\ req[r].pc = "confirm"
    /\ LET n == req[r].node
           d == req[r].driver
           h == req[r].found
       IN  \/ /\ pos' = CachedUnderAll(n, d, NoTrip)
              /\ Finish(r)
              /\ UNCHANGED <<mem, redis>>
           \/ /\ h # NoHold /\ req[r].claim \notin {NoTrip, h.trip}
              /\ Finish(r)
              /\ UNCHANGED <<pos, mem, redis>>
           \/ /\ h # NoHold /\ req[r].claim \in {NoTrip, h.trip}
              /\ pos' = CachedUnderAll(n, d, h.trip)
              /\ Publish(n, NameIndex, h, up)
              /\ Pass(r, "guard")
    /\ UNCHANGED <<row, issued>>

(* The ordering guard has let the packet through: it is broadcast.  If the *)
(* last heartbeat of the instance is 30 s old the caches are filled again, *)
(* whatever has happened to the trip since the check.  (A packet that is   *)
(* refused leaves the caches alone as well.)                               *)
Accept(r, up) ==
    /\ req[r].pc = "guard"
    /\ \/ UNCHANGED <<pos, mem, redis>>
       \/ SetActiveTripCache(req[r].node, req[r].found.trip, req[r].driver, up)
    /\ Finish(r)
    /\ UNCHANGED <<row, issued>>

-----------------------------------------------------------------------------
(***************************************************************************)
(* Ends, starts and polls: what they do to the row and to the caches.      *)
(***************************************************************************)

(* end_trip_atomically, called by the driver's request at instance n.      *)
EndTrip(r, n, t) ==
    /\ req[r] = IdleReq
    /\ row = t
    /\ row' = NoTrip
    /\ Serve(r, "evict", n, DriverOf[t], t, NoHold)
    /\ UNCHANGED <<issued, pos, mem, redis>>

(* The cron job reaps the trip.                                            *)
ReapTrip(r, n, t) ==
    /\ req[r] = IdleReq
    /\ row = t
    /\ row' = NoTrip
    /\ Serve(r, "evictReaped", n, DriverOf[t], t, NoHold)
    /\ UNCHANGED <<issued, pos, mem, redis>>

(* evictAllBusRuntimeState, its first statement.                           *)
Evict(r, up) ==
    /\ \/ req[r].pc = "evict" /\ Goto(r, "clearAgain")
       \/ req[r].pc = "evictReaped" /\ Goto(r, "clearReaped")
    /\ InvalidateActiveTripCache(req[r].node, {req[r].driver}, up)
    /\ UNCHANGED <<row, issued>>

(* evictAllBusRuntimeState, step 4.                                        *)
ClearAgain(r, up) ==
    /\ \/ req[r].pc = "clearAgain" /\ Goto(r, "settle")
       \/ req[r].pc = "clearReaped" /\ Finish(r)
    /\ ClearLock(req[r].node, up)
    /\ UNCHANGED <<row, issued, pos>>

(* The orchestrator's own invalidation, last.                              *)
Settle(r, up) ==
    /\ req[r].pc = "settle"
    /\ InvalidateActiveTripCache(req[r].node, {req[r].driver}, up)
    /\ Finish(r)
    /\ UNCHANGED <<row, issued>>

(* The end of a trip that has already ended.                               *)
EndAgain(n, t, up) ==
    /\ Over(t)
    /\ InvalidateActiveTripCache(n, {DriverOf[t]}, up)
    /\ UNCHANGED <<row, issued, req>>

(* acquire_trip_lock for a trip not yet started, on a free bus or by       *)
(* handover from another driver.                                           *)
StartTrip(r, n, t) ==
    /\ req[r] = IdleReq
    /\ t \notin issued
    /\ row # NoTrip => DriverOf[row] # DriverOf[t]
    /\ row' = t
    /\ issued' = issued \cup {t}
    /\ Serve(r, "cleanse", n, DriverOf[t], row, HoldOf(t, DriverOf[t]))
    /\ UNCHANGED <<pos, mem, redis>>

(* The bus starts with a clean state, for the driver and the one before.   *)
Cleanse(r, up) ==
    /\ req[r].pc = "cleanse"
    /\ LET was == req[r].claim
       IN  InvalidateActiveTripCache(req[r].node,
               {req[r].driver} \cup (IF was = NoTrip THEN {} ELSE {DriverOf[was]}), up)
    /\ Pass(r, "prime")
    /\ UNCHANGED <<row, issued>>

(* The trip is under way already: the preflight of a repeated start, or    *)
(* check-active-trip every 30 s, has read it.                              *)
LearnOfTrip(r, n) ==
    /\ req[r] = IdleReq
    /\ row # NoTrip
    /\ Serve(r, "prime", n, DriverOf[row], NoTrip, HoldOf(row, DriverOf[row]))
    /\ UNCHANGED <<row, issued, pos, mem, redis>>

(* The caches are primed: after the notification of a start, up to 5 s     *)
(* later; after the answer of the query otherwise.                         *)
Prime(r, up) ==
    /\ req[r].pc = "prime"
    /\ SetActiveTripCache(req[r].node, req[r].found.trip, req[r].driver, up)
    /\ Finish(r)
    /\ UNCHANGED <<row, issued>>

-----------------------------------------------------------------------------
(***************************************************************************)
(* Time, and instances that die with a request.                            *)
(***************************************************************************)

(* cachedUntilMs passes: the entry is as good as gone.                     *)
Lapse(n, d, i) ==
    /\ pos[n][d][i] # NoTrip
    /\ pos' = [pos EXCEPT ![n][d][i] = NoTrip]
    /\ UNCHANGED <<row, issued, mem, redis, req>>

(* expiresAtMs of the copy in memory passes.                               *)
MemExpires(n, i) ==
    /\ mem[n][i] # NoHold
    /\ mem' = [mem EXCEPT ![n][i] = NoHold]
    /\ UNCHANGED <<row, issued, pos, redis, req>>

(* The 120 s of the key pass, or Redis evicts it.                          *)
RedisExpires(i) ==
    /\ redis[i] # NoHold
    /\ redis' = [redis EXCEPT ![i] = NoHold]
    /\ UNCHANGED <<row, issued, pos, mem, req>>

(* The request is cut off; the instance's memory survives.                 *)
Crash(r) ==
    /\ req[r] # IdleReq
    /\ Finish(r)
    /\ UNCHANGED <<row, issued, pos, mem, redis>>

(* The instance is recycled: a fresh one has empty memory.                 *)
Restart(n) ==
    /\ pos' = [pos EXCEPT ![n] = [d \in Drivers |-> [i \in NameIndex |-> NoTrip]]]
    /\ mem' = [mem EXCEPT ![n] = [i \in NameIndex |-> NoHold]]
    /\ req' = [r \in Requests |-> IF req[r] # IdleReq /\ req[r].node = n THEN IdleReq ELSE req[r]]
    /\ UNCHANGED <<row, issued, redis>>

UpdateStep(r) ==
    \/ \E n \in Nodes, d \in Drivers, c \in issued \cup {NoTrip}, up \in BOOLEAN :
          UpdateArrives(r, n, d, c, up)
    \/ \E up \in BOOLEAN : Adopt(r, up) \/ AskRedis(r, up) \/ Confirm(r, up) \/ Accept(r, up)
    \/ Recheck(r)
    \/ RedisAnswers(r)

TripStep(r) ==
    \/ \E n \in Nodes, t \in Trips : EndTrip(r, n, t) \/ ReapTrip(r, n, t) \/ StartTrip(r, n, t)
    \/ \E n \in Nodes : LearnOfTrip(r, n)
    \/ \E up \in BOOLEAN : Evict(r, up) \/ ClearAgain(r, up) \/ Settle(r, up) \/ Cleanse(r, up)
                              \/ Prime(r, up)

Time ==
    \/ \E n \in Nodes, d \in Drivers, i \in NameIndex : Lapse(n, d, i)
    \/ \E n \in Nodes, i \in NameIndex : MemExpires(n, i)
    \/ \E i \in NameIndex : RedisExpires(i)

Next ==
    \/ \E r \in Updates : UpdateStep(r)
    \/ \E r \in Calls : TripStep(r)
    \/ \E r \in Requests : Crash(r)
    \/ \E n \in Nodes, t \in Trips, up \in BOOLEAN : EndAgain(n, t, up)
    \/ \E n \in Nodes : Restart(n)
    \/ Time

Spec == Init /\ [][Next]_gateVars

-----------------------------------------------------------------------------
(***************************************************************************)
(* Properties.                                                             *)
(***************************************************************************)

(* INV-TRIP-002 and INV-GPS-001, as far as the caches go: whichever cache  *)
(* of whichever instance lets a driver through, it does so for a trip of   *)
(* that driver, through every handover and every copy of one cache into    *)
(* another.                                                                *)
OwnTrip ==
    /\ \A n \in Nodes, d \in Drivers, i \in NameIndex :
          pos[n][d][i] # NoTrip => DriverOf[pos[n][d][i]] = d
    /\ \A r \in Requests :
          req[r] # IdleReq /\ req[r].pc = "guard" =>
              req[r].found.trip # NoTrip /\ DriverOf[req[r].found.trip] = req[r].driver

Cached(t) ==
    \/ \E n \in Nodes, i \in NameIndex :
          mem[n][i].trip = t \/ \E d \in Drivers : pos[n][d][i] = t
    \/ \E i \in NameIndex : redis[i].trip = t

Carried(t) == \E r \in Requests : req[r] # IdleReq /\ req[r].found.trip = t

Gone(t) == Over(t) /\ ~ Cached(t) /\ ~ Carried(t)

(* INV-TRIP-004: once a trip is over and the last copy of it is out of the *)
(* caches and of the requests under way, no packet brings it back, late or *)
(* replayed, by name or without, and so no location of it is accepted.     *)
StaysGone == [][\A t \in Trips : Gone(t) => Gone(t)']_gateVars
=============================================================================
