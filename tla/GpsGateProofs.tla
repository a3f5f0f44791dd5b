---------------------------- MODULE GpsGateProofs ----------------------------
(***************************************************************************)
(* For any number of instances, drivers, trips, names and requests: a      *)
(* cache lets a driver through for a trip of that driver only, and a trip  *)
(* that is over and out of every cache and request does not come back.     *)
(*                                                                         *)
(* Both rest on one invariant: whatever a cache or a request holds is a    *)
(* trip together with the driver the trip was started for, and what a      *)
(* request has learnt is for the driver it serves.                         *)
(***************************************************************************)
EXTENDS GpsGate, TLAPS

OwnLocks(G, d) == {t \in G : DriverOf[t] = d} \cup {NoTrip}
OwnHolds(G) == {h \in Hold : h = NoHold \/ (h.trip \in G /\ h.driver = DriverOf[h.trip])}

(* The requests whose next step puts what they have found into a cache, or *)
(* accepts a location of it.                                               *)
Sure == {"adopt", "guard", "cleanse", "prime"}

ServedRequest(G) ==
    {q \in Request : /\ q.found \in OwnHolds(G)
                     /\ q.found # NoHold => q.found.driver = q.driver
                     /\ q.pc \in Sure => q.found # NoHold}

PosOK(G) ==
    /\ pos \in [Nodes -> [Drivers -> [NameIndex -> TripOrNone]]]
    /\ \A n \in Nodes, d \in Drivers : pos[n][d] \in [NameIndex -> OwnLocks(G, d)]
MemOK(G) == mem \in [Nodes -> [NameIndex -> OwnHolds(G)]]
RedisOK(G) == redis \in [NameIndex -> OwnHolds(G)]
ReqOK(G) == req \in [Requests -> ServedRequest(G) \cup {IdleReq}]
RowOK(G) == row \in G \cup {NoTrip} /\ issued \in SUBSET Trips /\ Trips \ issued \subseteq G

IInv(G) == RowOK(G) /\ PosOK(G) /\ MemOK(G) /\ RedisOK(G) /\ ReqOK(G)

-----------------------------------------------------------------------------
(* Facts about the values the caches hold.                                 *)

LEMMA IdInNames == Id \in NameIndex
BY NamesAssumption DEF Id, NameIndex

LEMMA NoHoldOwn ==
    ASSUME NEW G \in SUBSET Trips
    PROVE  NoHold \in OwnHolds(G) /\ NoHold \in Hold
BY DEF OwnHolds, Hold, NoHold, TripOrNone

LEMMA HoldOwn ==
    ASSUME NEW G \in SUBSET Trips, NEW t \in G
    PROVE  /\ HoldOf(t, DriverOf[t]) \in OwnHolds(G)
           /\ HoldOf(t, DriverOf[t]) # NoHold
           /\ HoldOf(t, DriverOf[t]).driver = DriverOf[t]
BY DriverOfAssumption, NoTripAssumption DEF OwnHolds, Hold, HoldOf, NoHold, TripOrNone

LEMMA OwnHoldFacts ==
    ASSUME NEW G \in SUBSET Trips, NEW h \in OwnHolds(G), h # NoHold
    PROVE  h.trip \in G /\ h.driver = DriverOf[h.trip] /\ h.trip # NoTrip
BY NoTripAssumption DEF OwnHolds

LEMMA LocksAreTrips ==
    ASSUME NEW G \in SUBSET Trips, NEW d \in Drivers
    PROVE  OwnLocks(G, d) \subseteq TripOrNone /\ NoTrip \in OwnLocks(G, d)
BY DEF OwnLocks, TripOrNone

LEMMA RowOfOwn ==
    ASSUME NEW G \in SUBSET Trips, RowOK(G), NEW d \in Drivers
    PROVE  RowOf(d) \in OwnHolds(G) /\ (RowOf(d) # NoHold => RowOf(d).driver = d)
<1>1. CASE row # NoTrip /\ DriverOf[row] = d
  <2>1. row \in G
    BY <1>1 DEF RowOK, TripOrNone
  <2>2. RowOf(d) = HoldOf(row, DriverOf[row])
    BY <1>1 DEF RowOf
  <2>3. QED
    BY <2>1, <2>2, <1>1, HoldOwn
<1>2. CASE ~ (row # NoTrip /\ DriverOf[row] = d)
  BY <1>2, NoHoldOwn DEF RowOf
<1>3. QED
  BY <1>1, <1>2

LEMMA RedisLockOwn ==
    ASSUME NEW G \in SUBSET Trips, MemOK(G), RedisOK(G), NEW n \in Nodes, NEW i \in NameIndex, NEW up \in BOOLEAN
    PROVE  RedisLock(n, i, up) \in OwnHolds(G)
BY DEF RedisLock, MemOK, RedisOK

-----------------------------------------------------------------------------
(* Every way a handler writes to a cache keeps what it holds.              *)

LEMMA RememberKeeps ==
    ASSUME NEW G \in SUBSET Trips, MemOK(G), RedisOK(G), NEW n \in Nodes, NEW i \in NameIndex, NEW up \in BOOLEAN,
           Remember(n, i, up)
    PROVE  MemOK(G)'
BY RedisLockOwn DEF Remember, MemOK

LEMMA PublishKeeps ==
    ASSUME NEW G \in SUBSET Trips, MemOK(G), RedisOK(G), NEW n \in Nodes, NEW is \in SUBSET NameIndex, NEW h \in OwnHolds(G),
           NEW up \in BOOLEAN, Publish(n, is, h, up)
    PROVE  MemOK(G)' /\ RedisOK(G)'
BY DEF Publish, MemOK, RedisOK

LEMMA ClearLockKeeps ==
    ASSUME NEW G \in SUBSET Trips, MemOK(G), RedisOK(G), NEW n \in Nodes, NEW up \in BOOLEAN, ClearLock(n, up)
    PROVE  MemOK(G)' /\ RedisOK(G)'
BY NoHoldOwn DEF ClearLock, MemOK, RedisOK

LEMMA PosKeeps ==
    ASSUME NEW G \in SUBSET Trips, PosOK(G), NEW n \in Nodes, NEW d \in Drivers, NEW l \in [NameIndex -> OwnLocks(G, d)],
           pos' = [pos EXCEPT ![n][d] = l]
    PROVE  PosOK(G)'
BY LocksAreTrips DEF PosOK

LEMMA SetCacheKeeps ==
    ASSUME NEW G \in SUBSET Trips, PosOK(G), MemOK(G), RedisOK(G), NEW n \in Nodes, NEW h \in OwnHolds(G), h # NoHold,
           h.driver \in Drivers,
           NEW up \in BOOLEAN, SetActiveTripCache(n, h.trip, h.driver, up)
    PROVE  PosOK(G)' /\ MemOK(G)' /\ RedisOK(G)'
<1>1. h.trip \in G /\ h.driver = DriverOf[h.trip]
  BY OwnHoldFacts
<1>2. HoldOf(h.trip, h.driver) \in OwnHolds(G)
  BY <1>1, HoldOwn
<1>3. MemOK(G)' /\ RedisOK(G)'
  BY <1>2, PublishKeeps, IdInNames DEF SetActiveTripCache
<1>4. [pos[n][h.driver] EXCEPT ![Id] = h.trip] \in [NameIndex -> OwnLocks(G, h.driver)]
  BY <1>1 DEF PosOK, OwnLocks
<1>5. pos' = [pos EXCEPT ![n][h.driver] = [pos[n][h.driver] EXCEPT ![Id] = h.trip]]
  BY DEF SetActiveTripCache
<1>6. PosOK(G)'
  BY <1>4, <1>5, PosKeeps
<1>7. QED
  BY <1>3, <1>6

LEMMA InvalidateKeeps ==
    ASSUME NEW G \in SUBSET Trips, PosOK(G), MemOK(G), RedisOK(G), NEW n \in Nodes, NEW ds \in SUBSET Drivers,
           NEW up \in BOOLEAN, InvalidateActiveTripCache(n, ds, up)
    PROVE  PosOK(G)' /\ MemOK(G)' /\ RedisOK(G)'
<1>1. MemOK(G)' /\ RedisOK(G)'
  BY ClearLockKeeps DEF InvalidateActiveTripCache
<1>2. PosOK(G)'
  BY LocksAreTrips DEF InvalidateActiveTripCache, PosOK, TripOrNone
<1>3. QED
  BY <1>1, <1>2

-----------------------------------------------------------------------------
(* Every way a handler moves on keeps the requests.                        *)

Pcs == UpdatePcs \cup EndPcs \cup StartPcs

LEMMA ServedFacts ==
    ASSUME NEW G \in SUBSET Trips, ReqOK(G), NEW r \in Requests, req[r].pc # "idle"
    PROVE  /\ req[r] \in Request
           /\ req[r].node \in Nodes /\ req[r].driver \in Drivers
           /\ req[r].claim \in TripOrNone /\ req[r].name \in NameIndex
           /\ req[r].found \in OwnHolds(G)
           /\ req[r].found # NoHold => req[r].found.driver = req[r].driver
           /\ req[r].pc \in Sure => req[r].found # NoHold
BY DEF ReqOK, ServedRequest, Request, IdleReq

LEMMA ServeKeeps ==
    ASSUME NEW G \in SUBSET Trips, ReqOK(G), NEW r \in Requests, NEW pc \in Pcs, NEW n \in Nodes, NEW d \in Drivers,
           NEW c \in TripOrNone, NEW h \in OwnHolds(G),
           h # NoHold => h.driver = d, pc \in Sure => h # NoHold,
           Serve(r, pc, n, d, c, h)
    PROVE  ReqOK(G)'
<1>1. [pc |-> pc, node |-> n, driver |-> d, claim |-> c, found |-> h, name |-> Id]
          \in ServedRequest(G)
  BY IdInNames DEF ServedRequest, Request, Pcs, OwnHolds
<1>2. QED
  BY <1>1 DEF Serve, ReqOK

LEMMA FinishKeeps ==
    ASSUME NEW G \in SUBSET Trips, ReqOK(G), NEW r \in Requests, Finish(r)
    PROVE  ReqOK(G)'
BY DEF Finish, ReqOK

LEMMA GotoKeeps ==
    ASSUME NEW G \in SUBSET Trips, ReqOK(G), NEW r \in Requests, req[r].pc # "idle", NEW pc \in Pcs \ Sure, Goto(r, pc)
    PROVE  ReqOK(G)'
BY ServedFacts DEF Goto, ReqOK, ServedRequest, Request, Pcs

LEMMA PassKeeps ==
    ASSUME NEW G \in SUBSET Trips, ReqOK(G), NEW r \in Requests, req[r].pc # "idle", req[r].found # NoHold,
           NEW pc \in Pcs, Pass(r, pc)
    PROVE  ReqOK(G)'
<1> DEFINE q == [req[r] EXCEPT !.pc = pc, !.claim = NoTrip]
<1>1. req[r] \in Request /\ req[r] \in ServedRequest(G)
  BY ServedFacts DEF ReqOK, IdleReq
<1>2. q \in Request /\ q.pc = pc /\ q.found = req[r].found /\ q.driver = req[r].driver
  BY <1>1 DEF Request, Pcs, TripOrNone
<1>3. q \in ServedRequest(G)
  BY <1>1, <1>2 DEF ServedRequest
<1>4. req' = [req EXCEPT ![r] = q]
  BY DEF Pass
<1> HIDE DEF q
<1>5. QED
  BY <1>3, <1>4 DEF ReqOK

LEMMA LearnKeeps ==
    ASSUME NEW G \in SUBSET Trips, ReqOK(G), NEW r \in Requests, req[r].pc # "idle", NEW pc \in Pcs \ Sure,
           NEW h \in OwnHolds(G), h # NoHold => h.driver = req[r].driver, Learn(r, pc, h)
    PROVE  ReqOK(G)'
<1> DEFINE q == [req[r] EXCEPT !.pc = pc, !.found = h]
<1>1. h \in Hold /\ req[r] \in Request
  BY ServedFacts DEF OwnHolds
<1>2. q \in Request /\ q.pc = pc /\ q.found = h /\ q.driver = req[r].driver
  BY <1>1 DEF Request, Pcs
<1>3. q \in ServedRequest(G)
  BY <1>2 DEF ServedRequest
<1>4. req' = [req EXCEPT ![r] = q]
  BY DEF Learn
<1> HIDE DEF q
<1>5. QED
  BY <1>3, <1>4 DEF ReqOK

-----------------------------------------------------------------------------
(* Location updates.                                                       *)

LEMMA CheckCachedKeeps ==
    ASSUME NEW G \in SUBSET Trips, PosOK(G), ReqOK(G), NEW r \in Requests, NEW n \in Nodes, NEW d \in Drivers,
           NEW c \in TripOrNone, NEW p \in [NameIndex -> OwnLocks(G, d)],
           CheckCached(r, n, d, c, p)
    PROVE  PosOK(G)' /\ ReqOK(G)'
<1>1. ASSUME NEW i \in NameIndex, CachedAt(p, i)
      PROVE  HoldOf(p[i], d) \in OwnHolds(G) /\ HoldOf(p[i], d) # NoHold
             /\ HoldOf(p[i], d).driver = d
  <2>1. p[i] \in G /\ DriverOf[p[i]] = d
    BY <1>1 DEF CachedAt, OwnLocks
  <2>2. QED
    BY <2>1, HoldOwn
<1>2. NoHold \in OwnHolds(G) /\ "asked" \in Pcs /\ "asked" \notin Sure /\ "guard" \in Pcs
  BY NoHoldOwn DEF Pcs, UpdatePcs, Sure
<1>3. CASE \E i \in NameIndex :
             /\ CachedAt(p, i)
             /\ \/ /\ pos' = [pos EXCEPT ![n][d] = [p EXCEPT ![i] = NoTrip]]
                   /\ Finish(r)
                \/ pos' = [pos EXCEPT ![n][d] = p] /\ Finish(r)
  <2>1. PICK i \in NameIndex :
            \/ pos' = [pos EXCEPT ![n][d] = [p EXCEPT ![i] = NoTrip]] /\ Finish(r)
            \/ pos' = [pos EXCEPT ![n][d] = p] /\ Finish(r)
    BY <1>3
  <2>2. [p EXCEPT ![i] = NoTrip] \in [NameIndex -> OwnLocks(G, d)]
    BY LocksAreTrips
  <2>3. QED
    BY <2>1, <2>2, PosKeeps, FinishKeeps
<1>4. CASE \E i \in NameIndex : /\ CachedAt(p, i)
                               /\ pos' = [pos EXCEPT ![n][d] = p]
                               /\ Serve(r, "guard", n, d, NoTrip, HoldOf(p[i], d))
  <2>1. PICK i \in NameIndex : /\ CachedAt(p, i)
                               /\ pos' = [pos EXCEPT ![n][d] = p]
                               /\ Serve(r, "guard", n, d, NoTrip, HoldOf(p[i], d))
    BY <1>4
  <2>2. NoTrip \in TripOrNone
    BY DEF TripOrNone
  <2>3. ReqOK(G)'
    BY <1>1, <1>2, <2>1, <2>2, ServeKeeps
  <2>4. QED
    BY <2>1, <2>3, PosKeeps
<1>5. CASE pos' = [pos EXCEPT ![n][d] = p] /\ Serve(r, "asked", n, d, c, NoHold)
  BY <1>2, <1>5, ServeKeeps, PosKeeps
<1>6. QED
  BY <1>3, <1>4, <1>5 DEF CheckCached

LEMMA UpdateArrivesKeeps ==
    ASSUME NEW G \in SUBSET Trips, IInv(G), NEW r \in Requests, NEW n \in Nodes, NEW d \in Drivers,
           NEW c \in issued \cup {NoTrip}, NEW up \in BOOLEAN,
           UpdateArrives(r, n, d, c, up)
    PROVE  IInv(G)'
<1>1. c \in TripOrNone /\ pos[n][d] \in [NameIndex -> OwnLocks(G, d)]
  BY DEF IInv, RowOK, TripOrNone, PosOK
<1>2. CASE CheckCached(r, n, d, c, pos[n][d]) /\ UNCHANGED mem
  BY <1>1, <1>2, CheckCachedKeeps DEF UpdateArrives, IInv, RowOK, MemOK, RedisOK
<1>3. CASE /\ Remember(n, Id, up) /\ UNCHANGED pos
           /\ LET h == RedisLock(n, Id, up)
              IN  IF Grants(h, d) THEN Serve(r, "adopt", n, d, c, h)
                  ELSE Serve(r, "recheck", n, d, c, NoHold)
  <2> DEFINE h == RedisLock(n, Id, up)
  <2>1. h \in OwnHolds(G)
    BY RedisLockOwn, IdInNames DEF IInv
  <2>2. MemOK(G)'
    BY <1>3, RememberKeeps, IdInNames DEF IInv
  <2>3. {"adopt", "recheck"} \subseteq Pcs /\ "recheck" \notin Sure
    BY DEF Pcs, UpdatePcs, Sure
  <2>4. ReqOK(G)'
    <3> HIDE DEF h
    <3>1. CASE Grants(h, d)
      <4>1. Serve(r, "adopt", n, d, c, h)
        BY <1>3, <3>1 DEF h
      <4>2. h # NoHold /\ h.driver = d
        BY <3>1 DEF Grants
      <4>3. QED
        BY <1>1, <2>1, <2>3, <4>1, <4>2, ServeKeeps DEF IInv
    <3>2. CASE ~ Grants(h, d)
      <4>1. Serve(r, "recheck", n, d, c, NoHold)
        BY <1>3, <3>2 DEF h
      <4>2. QED
        BY <1>1, <2>3, <4>1, NoHoldOwn, ServeKeeps DEF IInv
    <3>3. QED
      BY <3>1, <3>2
  <2>5. QED
    BY <1>3, <2>2, <2>4 DEF UpdateArrives, IInv, RowOK, PosOK, RedisOK
<1>4. QED
  BY <1>2, <1>3 DEF UpdateArrives

LEMMA AdoptKeeps ==
    ASSUME NEW G \in SUBSET Trips, IInv(G), NEW r \in Requests, NEW up \in BOOLEAN, Adopt(r, up)
    PROVE  IInv(G)'
<1> DEFINE n == req[r].node
           d == req[r].driver
           h == req[r].found
           p == [pos[n][d] EXCEPT ![Id] = h.trip]
<1>1. /\ n \in Nodes /\ d \in Drivers /\ h \in OwnHolds(G) /\ h # NoHold /\ h.driver = d
      /\ req[r].claim \in TripOrNone
  BY ServedFacts DEF Adopt, IInv, Sure
<1>2. h.trip \in G /\ h.driver = DriverOf[h.trip]
  BY <1>1, OwnHoldFacts
<1>3. p \in [NameIndex -> OwnLocks(G, d)]
  BY <1>1, <1>2 DEF IInv, PosOK, OwnLocks
<1>4. Publish(n, {Id}, h, up) /\ CheckCached(r, n, d, req[r].claim, p)
  BY DEF Adopt
<1>5. RowOK(G)'
  BY DEF Adopt, IInv, RowOK
<1> HIDE DEF n, d, h, p
<1>6. MemOK(G)' /\ RedisOK(G)'
  BY <1>1, <1>4, PublishKeeps, IdInNames DEF IInv
<1>7. PosOK(G)' /\ ReqOK(G)'
  <2> DEFINE c == req[r].claim
  <2>1. c \in TripOrNone /\ CheckCached(r, n, d, c, p)
    BY <1>1, <1>4
  <2> HIDE DEF c
  <2>2. QED
    BY <1>1, <1>3, <2>1, CheckCachedKeeps DEF IInv
<1>8. QED
  BY <1>5, <1>6, <1>7 DEF IInv

LEMMA RecheckKeeps ==
    ASSUME NEW G \in SUBSET Trips, IInv(G), NEW r \in Requests, Recheck(r)
    PROVE  IInv(G)'
<1> DEFINE n == req[r].node
           d == req[r].driver
           c == req[r].claim
<1>1. n \in Nodes /\ d \in Drivers /\ c \in TripOrNone
  BY ServedFacts DEF Recheck, IInv
<1>2. CheckCached(r, n, d, c, pos[n][d]) /\ pos[n][d] \in [NameIndex -> OwnLocks(G, d)]
  BY <1>1 DEF Recheck, IInv, PosOK
<1>3. RowOK(G)' /\ MemOK(G)' /\ RedisOK(G)'
  BY DEF Recheck, IInv, RowOK, MemOK, RedisOK
<1> HIDE DEF n, d, c
<1>4. QED
  BY <1>1, <1>2, <1>3, CheckCachedKeeps DEF IInv

LEMMA AskRedisKeeps ==
    ASSUME NEW G \in SUBSET Trips, IInv(G), NEW r \in Requests, NEW up \in BOOLEAN, AskRedis(r, up)
    PROVE  IInv(G)'
<1> DEFINE n == req[r].node
           i == req[r].name
           h == RedisLock(n, i, up)
<1>1. req[r] \in Request /\ n \in Nodes /\ i \in NameIndex
  BY ServedFacts DEF AskRedis, IInv
<1>2. h \in OwnHolds(G)
  BY <1>1, RedisLockOwn DEF IInv
<1>3. MemOK(G)'
  BY <1>1, RememberKeeps DEF AskRedis, IInv
<1>4. PICK q : req' = [req EXCEPT ![r] = q] /\
        q = IF Grants(h, req[r].driver)
            THEN [req[r] EXCEPT !.pc = "query", !.found = h]
            ELSE IF i = LastName THEN [req[r] EXCEPT !.pc = "query", !.found = NoHold]
            ELSE [req[r] EXCEPT !.name = i + 1]
  BY DEF AskRedis
<1> HIDE DEF h
<1>5. q \in ServedRequest(G)
  <2>1. CASE Grants(h, req[r].driver)
    <3>1. h.driver = req[r].driver /\ h \in Hold
      BY <1>2, <2>1 DEF Grants, OwnHolds
    <3>2. QED
      BY <1>1, <1>2, <1>4, <2>1, <3>1 DEF ServedRequest, Request, UpdatePcs, Sure
  <2>2. CASE ~ Grants(h, req[r].driver) /\ i = LastName
    BY <1>1, <1>4, <2>2, NoHoldOwn DEF ServedRequest, Request, UpdatePcs, Sure
  <2>3. CASE ~ Grants(h, req[r].driver) /\ i # LastName
    <3>1. i + 1 \in NameIndex
      BY <1>1, <2>3, NamesAssumption DEF NameIndex, LastName
    <3>2. req[r] \in ServedRequest(G)
      BY DEF AskRedis, IInv, ReqOK, IdleReq
    <3>3. QED
      BY <1>1, <1>4, <2>3, <3>1, <3>2 DEF ServedRequest, Request
  <2>4. QED
    BY <2>1, <2>2, <2>3
<1>6. ReqOK(G)'
  BY <1>4, <1>5 DEF IInv, ReqOK
<1>7. RowOK(G)' /\ PosOK(G)' /\ RedisOK(G)'
  BY DEF AskRedis, IInv, RowOK, PosOK, RedisOK
<1>8. QED
  BY <1>3, <1>6, <1>7 DEF IInv

LEMMA RedisAnswersKeeps ==
    ASSUME NEW G \in SUBSET Trips, IInv(G), NEW r \in Requests, RedisAnswers(r)
    PROVE  IInv(G)'
<1> DEFINE n == req[r].node
           d == req[r].driver
           h == req[r].found
<1>1. n \in Nodes /\ d \in Drivers /\ h \in OwnHolds(G) /\ (h # NoHold => h.driver = d)
  BY ServedFacts DEF RedisAnswers, IInv
<1>2. RowOK(G)' /\ MemOK(G)' /\ RedisOK(G)'
  BY DEF RedisAnswers, IInv, RowOK, MemOK, RedisOK
<1>3. CASE Finish(r) /\ UNCHANGED pos
  BY <1>2, <1>3, FinishKeeps DEF IInv, PosOK
<1>4. CASE h # NoHold /\ pos' = CachedUnderAll(n, d, h.trip) /\ Pass(r, "guard")
  <2>1. h.trip \in OwnLocks(G, d)
    BY <1>1, <1>4, OwnHoldFacts DEF OwnLocks
  <2>2. PosOK(G)'
    <3>1. [i \in NameIndex |-> h.trip] \in [NameIndex -> OwnLocks(G, d)]
      BY <2>1
    <3>2. pos' = [pos EXCEPT ![n][d] = [i \in NameIndex |-> h.trip]]
      BY <1>4 DEF CachedUnderAll
    <3> HIDE DEF n, d, h
    <3>3. QED
      BY <1>1, <3>1, <3>2, PosKeeps DEF IInv
  <2>3. ReqOK(G)'
    BY <1>4, PassKeeps DEF IInv, RedisAnswers, Pcs, UpdatePcs
  <2>4. QED
    BY <1>2, <2>2, <2>3 DEF IInv
<1>5. CASE h = NoHold /\ Learn(r, "confirm", RowOf(d)) /\ UNCHANGED pos
  <2>1. RowOf(d) \in OwnHolds(G) /\ (RowOf(d) # NoHold => RowOf(d).driver = d)
    BY <1>1, RowOfOwn DEF IInv
  <2>2. ReqOK(G)'
    BY <1>5, <2>1, LearnKeeps DEF IInv, RedisAnswers, Pcs, UpdatePcs, Sure
  <2>3. QED
    BY <1>2, <1>5, <2>2 DEF IInv, PosOK
<1>6. QED
  BY <1>3, <1>4, <1>5 DEF RedisAnswers

LEMMA ConfirmKeeps ==
    ASSUME NEW G \in SUBSET Trips, IInv(G), NEW r \in Requests, NEW up \in BOOLEAN, Confirm(r, up)
    PROVE  IInv(G)'
<1> DEFINE n == req[r].node
           d == req[r].driver
           h == req[r].found
<1>1. n \in Nodes /\ d \in Drivers /\ h \in OwnHolds(G) /\ (h # NoHold => h.driver = d)
  BY ServedFacts DEF Confirm, IInv
<1>2. RowOK(G)'
  BY DEF Confirm, IInv, RowOK
<1>3. ASSUME NEW l \in OwnLocks(G, d), pos' = CachedUnderAll(n, d, l)
      PROVE  PosOK(G)'
  <2>1. [i \in NameIndex |-> l] \in [NameIndex -> OwnLocks(G, d)]
    OBVIOUS
  <2>2. pos' = [pos EXCEPT ![n][d] = [i \in NameIndex |-> l]]
    BY <1>3 DEF CachedUnderAll
  <2> HIDE DEF n, d
  <2>3. QED
    BY <1>1, <2>1, <2>2, PosKeeps DEF IInv
<1>4. CASE pos' = CachedUnderAll(n, d, NoTrip) /\ Finish(r) /\ UNCHANGED <<mem, redis>>
  <2>1. PosOK(G)'
    BY <1>1, <1>3, <1>4, LocksAreTrips
  <2>2. QED
    BY <1>2, <1>4, <2>1, FinishKeeps DEF IInv, MemOK, RedisOK
<1>5. CASE Finish(r) /\ UNCHANGED <<pos, mem, redis>>
  BY <1>2, <1>5, FinishKeeps DEF IInv, PosOK, MemOK, RedisOK
<1>6. CASE /\ h # NoHold /\ pos' = CachedUnderAll(n, d, h.trip)
           /\ Publish(n, NameIndex, h, up) /\ Pass(r, "guard")
  <2>1. h.trip \in OwnLocks(G, d)
    BY <1>1, <1>6, OwnHoldFacts DEF OwnLocks
  <2>2. PosOK(G)'
    BY <1>3, <1>6, <2>1
  <2>3. MemOK(G)' /\ RedisOK(G)'
    BY <1>1, <1>6, PublishKeeps DEF IInv
  <2>4. ReqOK(G)'
    BY <1>6, PassKeeps DEF IInv, Confirm, Pcs, UpdatePcs
  <2>5. QED
    BY <1>2, <2>2, <2>3, <2>4 DEF IInv
<1>7. QED
  BY <1>4, <1>5, <1>6 DEF Confirm

(* A request that knows of a trip for its driver may put it into the       *)
(* caches of its instance.                                                 *)
LEMMA RequestSetsCache ==
    ASSUME NEW G \in SUBSET Trips, IInv(G), NEW r \in Requests, NEW up \in BOOLEAN,
           req[r].pc \in Sure,
           SetActiveTripCache(req[r].node, req[r].found.trip, req[r].driver, up)
    PROVE  PosOK(G)' /\ MemOK(G)' /\ RedisOK(G)'
<1> DEFINE n == req[r].node
           h == req[r].found
<1>1. n \in Nodes /\ h \in OwnHolds(G) /\ h # NoHold /\ h.driver = req[r].driver
      /\ req[r].driver \in Drivers
  BY ServedFacts DEF IInv, Sure
<1>2. SetActiveTripCache(n, h.trip, h.driver, up)
  BY <1>1
<1> HIDE DEF n, h
<1>3. QED
  BY <1>1, <1>2, SetCacheKeeps DEF IInv

LEMMA AcceptKeeps ==
    ASSUME NEW G \in SUBSET Trips, IInv(G), NEW r \in Requests, NEW up \in BOOLEAN, Accept(r, up)
    PROVE  IInv(G)'
<1>1. RowOK(G)' /\ ReqOK(G)'
  BY FinishKeeps DEF Accept, IInv, RowOK
<1>2. PosOK(G)' /\ MemOK(G)' /\ RedisOK(G)'
  <2>1. CASE UNCHANGED <<pos, mem, redis>>
    BY <2>1 DEF IInv, PosOK, MemOK, RedisOK
  <2>2. CASE SetActiveTripCache(req[r].node, req[r].found.trip, req[r].driver, up)
    BY <2>2, RequestSetsCache DEF Accept, Sure
  <2>3. QED
    BY <2>1, <2>2 DEF Accept
<1>3. QED
  BY <1>1, <1>2 DEF IInv

-----------------------------------------------------------------------------
(* Ends, starts and polls.                                                 *)

LEMMA EndTripKeeps ==
    ASSUME NEW G \in SUBSET Trips, IInv(G), NEW r \in Requests, NEW n \in Nodes, NEW t \in Trips,
           EndTrip(r, n, t) \/ ReapTrip(r, n, t)
    PROVE  IInv(G)'
<1>1. PICK pc \in {"evict", "evictReaped"} : Serve(r, pc, n, DriverOf[t], t, NoHold)
  BY DEF EndTrip, ReapTrip
<1>2. pc \in Pcs \ Sure /\ DriverOf[t] \in Drivers /\ t \in TripOrNone
  BY <1>1, DriverOfAssumption DEF Pcs, EndPcs, Sure, TripOrNone
<1>3. ReqOK(G)'
  BY <1>1, <1>2, NoHoldOwn, ServeKeeps DEF IInv
<1>4. QED
  BY <1>3 DEF EndTrip, ReapTrip, IInv, RowOK, PosOK, MemOK, RedisOK

LEMMA EvictKeeps ==
    ASSUME NEW G \in SUBSET Trips, IInv(G), NEW r \in Requests, NEW up \in BOOLEAN, Evict(r, up)
    PROVE  IInv(G)'
<1>1. req[r].node \in Nodes /\ {req[r].driver} \in SUBSET Drivers
  BY ServedFacts DEF Evict, IInv
<1>2. PosOK(G)' /\ MemOK(G)' /\ RedisOK(G)'
  BY <1>1, InvalidateKeeps DEF Evict, IInv
<1>3. ReqOK(G)'
  <2>1. {"clearAgain", "clearReaped"} \subseteq Pcs \ Sure
    BY DEF Pcs, EndPcs, Sure
  <2>2. QED
    BY <2>1, GotoKeeps DEF Evict, IInv
<1>4. QED
  BY <1>2, <1>3 DEF Evict, IInv, RowOK

LEMMA ClearAgainKeeps ==
    ASSUME NEW G \in SUBSET Trips, IInv(G), NEW r \in Requests, NEW up \in BOOLEAN,
           ClearAgain(r, up)
    PROVE  IInv(G)'
<1>1. MemOK(G)' /\ RedisOK(G)'
  BY ServedFacts, ClearLockKeeps DEF ClearAgain, IInv
<1>2. ReqOK(G)'
  <2>1. "settle" \in Pcs \ Sure
    BY DEF Pcs, EndPcs, Sure
  <2>2. QED
    BY <2>1, GotoKeeps, FinishKeeps DEF ClearAgain, IInv
<1>3. QED
  BY <1>1, <1>2 DEF ClearAgain, IInv, RowOK, PosOK

LEMMA SettleKeeps ==
    ASSUME NEW G \in SUBSET Trips, IInv(G), NEW r \in Requests, NEW up \in BOOLEAN, Settle(r, up)
    PROVE  IInv(G)'
<1>1. req[r].node \in Nodes /\ {req[r].driver} \in SUBSET Drivers
  BY ServedFacts DEF Settle, IInv
<1>2. PosOK(G)' /\ MemOK(G)' /\ RedisOK(G)'
  BY <1>1, InvalidateKeeps DEF Settle, IInv
<1>3. QED
  BY <1>2, FinishKeeps DEF Settle, IInv, RowOK

LEMMA EndAgainKeeps ==
    ASSUME NEW G \in SUBSET Trips, IInv(G), NEW n \in Nodes, NEW t \in Trips, NEW up \in BOOLEAN,
           EndAgain(n, t, up)
    PROVE  IInv(G)'
<1>1. {DriverOf[t]} \in SUBSET Drivers
  BY DriverOfAssumption
<1>2. PosOK(G)' /\ MemOK(G)' /\ RedisOK(G)'
  BY <1>1, InvalidateKeeps DEF EndAgain, IInv
<1>3. QED
  BY <1>2 DEF EndAgain, IInv, RowOK, ReqOK

LEMMA StartTripKeeps ==
    ASSUME NEW G \in SUBSET Trips, IInv(G), NEW r \in Requests, NEW n \in Nodes, NEW t \in Trips,
           StartTrip(r, n, t)
    PROVE  IInv(G)'
<1>1. t \in G /\ row \in TripOrNone /\ DriverOf[t] \in Drivers
  BY DriverOfAssumption DEF StartTrip, IInv, RowOK, TripOrNone
<1>2. HoldOf(t, DriverOf[t]) \in OwnHolds(G) /\ HoldOf(t, DriverOf[t]) # NoHold
      /\ HoldOf(t, DriverOf[t]).driver = DriverOf[t]
  BY <1>1, HoldOwn
<1>3. "cleanse" \in Pcs
  BY DEF Pcs, StartPcs
<1>4. ReqOK(G)'
  BY <1>1, <1>2, <1>3, ServeKeeps DEF StartTrip, IInv
<1>5. RowOK(G)'
  BY <1>1 DEF StartTrip, IInv, RowOK
<1>6. QED
  BY <1>4, <1>5 DEF StartTrip, IInv, PosOK, MemOK, RedisOK

LEMMA CleanseKeeps ==
    ASSUME NEW G \in SUBSET Trips, IInv(G), NEW r \in Requests, NEW up \in BOOLEAN, Cleanse(r, up)
    PROVE  IInv(G)'
<1> DEFINE was == req[r].claim
           ds == {req[r].driver} \cup (IF was = NoTrip THEN {} ELSE {DriverOf[was]})
<1>1. req[r].node \in Nodes /\ req[r].driver \in Drivers /\ was \in TripOrNone
      /\ req[r].found # NoHold
  BY ServedFacts DEF Cleanse, IInv, Sure
<1>2. ds \in SUBSET Drivers
  BY <1>1, DriverOfAssumption DEF TripOrNone
<1>3. InvalidateActiveTripCache(req[r].node, ds, up)
  BY DEF Cleanse
<1> HIDE DEF ds
<1>4. PosOK(G)' /\ MemOK(G)' /\ RedisOK(G)'
  BY <1>1, <1>2, <1>3, InvalidateKeeps DEF IInv
<1>5. ReqOK(G)'
  BY <1>1, PassKeeps DEF Cleanse, IInv, Pcs, StartPcs
<1>6. QED
  BY <1>4, <1>5 DEF Cleanse, IInv, RowOK

LEMMA LearnOfTripKeeps ==
    ASSUME NEW G \in SUBSET Trips, IInv(G), NEW r \in Requests, NEW n \in Nodes, LearnOfTrip(r, n)
    PROVE  IInv(G)'
<1>1. row \in G /\ DriverOf[row] \in Drivers /\ NoTrip \in TripOrNone
  BY DriverOfAssumption DEF LearnOfTrip, IInv, RowOK, TripOrNone
<1>2. HoldOf(row, DriverOf[row]) \in OwnHolds(G) /\ HoldOf(row, DriverOf[row]) # NoHold
      /\ HoldOf(row, DriverOf[row]).driver = DriverOf[row]
  BY <1>1, HoldOwn
<1>3. "prime" \in Pcs
  BY DEF Pcs, StartPcs
<1>4. ReqOK(G)'
  BY <1>1, <1>2, <1>3, ServeKeeps DEF LearnOfTrip, IInv
<1>5. QED
  BY <1>4 DEF LearnOfTrip, IInv, RowOK, PosOK, MemOK, RedisOK

LEMMA PrimeKeeps ==
    ASSUME NEW G \in SUBSET Trips, IInv(G), NEW r \in Requests, NEW up \in BOOLEAN, Prime(r, up)
    PROVE  IInv(G)'
<1>1. PosOK(G)' /\ MemOK(G)' /\ RedisOK(G)'
  BY RequestSetsCache DEF Prime, Sure
<1>2. QED
  BY <1>1, FinishKeeps DEF Prime, IInv, RowOK

-----------------------------------------------------------------------------
(* Time, and every step together.                                          *)

LEMMA TimeKeeps ==
    ASSUME NEW G \in SUBSET Trips, IInv(G), Time
    PROVE  IInv(G)'
<1>1. ASSUME NEW n \in Nodes, NEW d \in Drivers, NEW i \in NameIndex, Lapse(n, d, i)
      PROVE  IInv(G)'
  <2>1. [pos[n][d] EXCEPT ![i] = NoTrip] \in [NameIndex -> OwnLocks(G, d)]
    BY LocksAreTrips DEF IInv, PosOK
  <2>2. pos' = [pos EXCEPT ![n][d] = [pos[n][d] EXCEPT ![i] = NoTrip]]
    BY <1>1 DEF Lapse
  <2>3. PosOK(G)'
    BY <2>1, <2>2, PosKeeps DEF IInv
  <2>4. QED
    BY <1>1, <2>3 DEF Lapse, IInv, RowOK, MemOK, RedisOK, ReqOK
<1>2. ASSUME NEW n \in Nodes, NEW i \in NameIndex, MemExpires(n, i)
      PROVE  IInv(G)'
  BY <1>2, NoHoldOwn DEF MemExpires, IInv, RowOK, PosOK, MemOK, RedisOK, ReqOK
<1>3. ASSUME NEW i \in NameIndex, RedisExpires(i)
      PROVE  IInv(G)'
  BY <1>3, NoHoldOwn DEF RedisExpires, IInv, RowOK, PosOK, MemOK, RedisOK, ReqOK
<1>4. QED
  BY <1>1, <1>2, <1>3 DEF Time

LEMMA CrashKeeps ==
    ASSUME NEW G \in SUBSET Trips, IInv(G), NEW r \in Requests, Crash(r)
    PROVE  IInv(G)'
BY FinishKeeps DEF Crash, IInv, RowOK, PosOK, MemOK, RedisOK

LEMMA RestartKeeps ==
    ASSUME NEW G \in SUBSET Trips, IInv(G), NEW n \in Nodes, Restart(n)
    PROVE  IInv(G)'
<1>1. PosOK(G)'
  BY LocksAreTrips DEF Restart, IInv, PosOK, TripOrNone
<1>2. MemOK(G)'
  BY NoHoldOwn DEF Restart, IInv, MemOK
<1>3. ReqOK(G)'
  BY DEF Restart, IInv, ReqOK
<1>4. QED
  BY <1>1, <1>2, <1>3 DEF Restart, IInv, RowOK, RedisOK

LEMMA NextKeeps ==
    ASSUME NEW G \in SUBSET Trips, IInv(G), [Next]_gateVars
    PROVE  IInv(G)'
<1>1. Updates \subseteq Requests /\ Calls \subseteq Requests
  BY DEF Requests
<1>2. ASSUME NEW r \in Updates, UpdateStep(r) PROVE IInv(G)'
  BY <1>1, <1>2, UpdateArrivesKeeps, AdoptKeeps, AskRedisKeeps, ConfirmKeeps, AcceptKeeps,
     RecheckKeeps, RedisAnswersKeeps DEF UpdateStep
<1>3. ASSUME NEW r \in Calls, TripStep(r) PROVE IInv(G)'
  BY <1>1, <1>3, EndTripKeeps, StartTripKeeps, LearnOfTripKeeps, EvictKeeps, ClearAgainKeeps,
     SettleKeeps, CleanseKeeps, PrimeKeeps DEF TripStep
<1>4. CASE UNCHANGED gateVars
  BY <1>4 DEF gateVars, IInv, RowOK, PosOK, MemOK, RedisOK, ReqOK
<1>5. QED
  BY <1>2, <1>3, <1>4, CrashKeeps, EndAgainKeeps, RestartKeeps, TimeKeeps DEF Next

LEMMA InitHolds == Init => IInv(Trips)
<1> SUFFICES ASSUME Init PROVE IInv(Trips)
  OBVIOUS
<1>1. PosOK(Trips)
  BY LocksAreTrips DEF Init, PosOK, TripOrNone
<1>2. MemOK(Trips) /\ RedisOK(Trips)
  BY NoHoldOwn DEF Init, MemOK, RedisOK
<1>3. QED
  BY <1>1, <1>2 DEF Init, IInv, RowOK, ReqOK

LEMMA InvHolds == Spec => []IInv(Trips)
<1>1. IInv(Trips) /\ [Next]_gateVars => IInv(Trips)'
  BY NextKeeps
<1>2. QED
  BY InitHolds, <1>1, PTL DEF Spec

-----------------------------------------------------------------------------
(* Every variable keeps its range, whatever the handlers interleave.       *)
THEOREM GateTyped == Spec => []TypeOK
<1>1. IInv(Trips) => TypeOK
  <2> SUFFICES ASSUME IInv(Trips) PROVE TypeOK
    OBVIOUS
  <2>1. OwnHolds(Trips) \subseteq Hold /\ ServedRequest(Trips) \subseteq Request
    BY DEF OwnHolds, ServedRequest
  <2>2. QED
    BY <2>1 DEF IInv, TypeOK, RowOK, PosOK, MemOK, RedisOK, ReqOK, TripOrNone
<1>2. QED
  BY InvHolds, <1>1, PTL

(* Whichever cache of whichever instance lets a driver through, it does so *)
(* for a trip of that driver (checkActiveTrip).                            *)
THEOREM GateIsOwn == Spec => []OwnTrip
<1>1. IInv(Trips) => OwnTrip
  <2> SUFFICES ASSUME IInv(Trips) PROVE OwnTrip
    OBVIOUS
  <2>1. ASSUME NEW n \in Nodes, NEW d \in Drivers, NEW i \in NameIndex, pos[n][d][i] # NoTrip
        PROVE  DriverOf[pos[n][d][i]] = d
    BY <2>1 DEF IInv, PosOK, OwnLocks
  <2>2. ASSUME NEW r \in Requests, req[r] # IdleReq, req[r].pc = "guard"
        PROVE  req[r].found.trip # NoTrip /\ DriverOf[req[r].found.trip] = req[r].driver
    <3>1. req[r].found \in OwnHolds(Trips) /\ req[r].found # NoHold
          /\ req[r].found.driver = req[r].driver
      BY <2>2, ServedFacts DEF IInv, Sure
    <3>2. QED
      BY <3>1, OwnHoldFacts
  <2>3. QED
    BY <2>1, <2>2 DEF OwnTrip
<1>2. QED
  BY InvHolds, <1>1, PTL

LEMMA IssuedGrows == [Next]_gateVars => issued \subseteq issued'
<1> SUFFICES ASSUME [Next]_gateVars PROVE issued \subseteq issued'
  OBVIOUS
<1>1. ASSUME NEW r \in Updates, UpdateStep(r) PROVE issued' = issued
  BY <1>1 DEF UpdateStep, UpdateArrives, Adopt, Recheck, AskRedis, RedisAnswers, Confirm, Accept
<1>2. ASSUME NEW r \in Calls, TripStep(r) PROVE issued \subseteq issued'
  BY <1>2 DEF TripStep, EndTrip, ReapTrip, Evict, ClearAgain, Settle, StartTrip, Cleanse,
     LearnOfTrip, Prime
<1>3. CASE Time
  BY <1>3 DEF Time, Lapse, MemExpires, RedisExpires
<1>4. CASE UNCHANGED gateVars
  BY <1>4 DEF gateVars
<1>5. QED
  BY <1>1, <1>2, <1>3, <1>4 DEF Next, Crash, EndAgain, Restart

(* A trip that is over and gone is one the invariant holds without.        *)
LEMMA GoneIsWithout ==
    ASSUME NEW t \in Trips, IInv(Trips), Gone(t)
    PROVE  IInv(Trips \ {t})
<1> DEFINE G == Trips \ {t}
<1>1. \A h \in OwnHolds(Trips) : h.trip # t => h \in OwnHolds(G)
  BY DEF OwnHolds
<1>2. PosOK(G)
  BY DEF IInv, PosOK, OwnLocks, Gone, Cached
<1>3. MemOK(G)
  BY <1>1 DEF IInv, MemOK, Gone, Cached
<1>4. RedisOK(G)
  BY <1>1 DEF IInv, RedisOK, Gone, Cached
<1>5. ReqOK(G)
  BY <1>1 DEF IInv, ReqOK, ServedRequest, Gone, Carried
<1>6. RowOK(G)
  BY DEF IInv, RowOK, Gone, Over
<1>7. QED
  BY <1>2, <1>3, <1>4, <1>5, <1>6 DEF IInv

LEMMA WithoutIsGone ==
    ASSUME NEW t \in Trips, t \in issued, IInv(Trips \ {t})
    PROVE  Gone(t)
<1> DEFINE G == Trips \ {t}
<1>1. \A h \in OwnHolds(G) : h.trip # t
  BY NoTripAssumption DEF OwnHolds, NoHold
<1>2. Over(t)
  BY NoTripAssumption DEF IInv, RowOK, Over
<1>3. ~ Cached(t)
  <2>1. \A n \in Nodes, d \in Drivers, i \in NameIndex : pos[n][d][i] \in OwnLocks(G, d)
    BY DEF IInv, PosOK
  <2>2. \A n \in Nodes, d \in Drivers, i \in NameIndex : pos[n][d][i] # t
    BY <2>1, NoTripAssumption DEF OwnLocks
  <2>3. \A i \in NameIndex : redis[i].trip # t /\ \A n \in Nodes : mem[n][i].trip # t
    BY <1>1 DEF IInv, MemOK, RedisOK
  <2>4. QED
    BY <2>2, <2>3 DEF Cached
<1>4. ~ Carried(t)
  BY <1>1 DEF IInv, ReqOK, ServedRequest, Carried
<1>5. QED
  BY <1>2, <1>3, <1>4 DEF Gone

(* Once a trip is over and out of the caches and of the requests under     *)
(* way, no packet, poll or repeated start brings it back.                  *)
THEOREM TripsStayGone == Spec => StaysGone
<1>1. ASSUME IInv(Trips), [Next]_gateVars, NEW t \in Trips, Gone(t)
      PROVE  Gone(t)'
  <2>1. IInv(Trips \ {t})'
    BY <1>1, GoneIsWithout, NextKeeps
  <2>2. t \in issued'
    <3>1. t \in issued
      BY <1>1 DEF Gone, Over
    <3>2. issued \subseteq issued'
      BY <1>1, IssuedGrows
    <3>3. QED
      BY <3>1, <3>2
  <2>3. (t \in issued /\ IInv(Trips \ {t}) => Gone(t))'
    BY WithoutIsGone, PTL
  <2>4. QED
    BY <2>1, <2>2, <2>3
<1>2. IInv(Trips) /\ [Next]_gateVars => [\A t \in Trips : Gone(t) => Gone(t)']_gateVars
  BY <1>1
<1>3. QED
  BY InvHolds, <1>2, PTL DEF Spec, StaysGone
=============================================================================
