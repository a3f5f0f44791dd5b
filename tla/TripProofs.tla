----------------------------- MODULE TripProofs -----------------------------
(***************************************************************************)
(* Proofs about TripLock and TripLifecycle, for any number of drivers,     *)
(* buses, trips and sessions.                                              *)
(*                                                                         *)
(* Part 1: the PostgreSQL functions keep TripLock's inductive invariant,   *)
(* implement the ledger and never rewrite history.                         *)
(*                                                                         *)
(* Part 2: of the requests around the trip tables, in every behaviour: a   *)
(* trip that is off the road stays off it, and trip_ended is broadcast of  *)
(* no other.  Both rest on the same thing.  Once a trip is gone, whatever  *)
(* still carries its identifier can only take rows away; and only a start  *)
(* whose identifier no trip has had puts a row in.  The invariants of part *)
(* 1 do not hold here: the clean-up by plain statements breaks them.       *)
(***************************************************************************)
EXTENDS TripLifecycle, TLAPS

-----------------------------------------------------------------------------
(***************************************************************************)
(* Lemmas about the operators the functions share.                         *)
(***************************************************************************)

(* Archiving S leaves the identifiers of S, and no others, in history     *)
(* besides those that were there.                                          *)
LEMMA ArchiveIds ==
    ASSUME NEW S
    PROVE  IdsOf(ArchiveStale(S)) = IdsOf(history) \cup IdsOf(S)
<1> DEFINE Row4(r) == [trip |-> r.trip, bus |-> r.bus, driver |-> r.driver,
                       reason |-> "completed_stale"]
           New == {q \in S : q.trip \notin IdsOf(history)}
<1>1. ArchiveStale(S) = history \cup {Row4(r) : r \in New}
  BY DEF ArchiveStale
<1>2. \A r : Row4(r).trip = r.trip
  OBVIOUS
<1> HIDE DEF Row4
<1>3. IdsOf(ArchiveStale(S)) = IdsOf(history) \cup {r.trip : r \in New}
  BY <1>1, <1>2 DEF IdsOf
<1>4. QED
  BY <1>3 DEF IdsOf

(* Archiving trips that differ pairwise leaves one row per trip. *)
LEMMA ArchiveUnique ==
    ASSUME NEW S,
           \A h, g \in history : h.trip = g.trip => h = g,
           \A p, q \in S : p.trip = q.trip => p = q
    PROVE  \A h, g \in ArchiveStale(S) : h.trip = g.trip => h = g
BY DEF ArchiveStale, IdsOf

LEMMA ArchiveType ==
    ASSUME NEW S, S \subseteq Row, history \subseteq Archived
    PROVE  ArchiveStale(S) \subseteq Archived
BY DEF ArchiveStale, Archived, Row, Reasons

LEMMA UpsertIds ==
    ASSUME NEW r, NEW reason
    PROVE  IdsOf(Upserted(r, reason)) = IdsOf(history) \cup {r.trip}
<1> DEFINE new == [trip |-> r.trip, bus |-> r.bus, driver |-> r.driver, reason |-> reason]
<1>1. Upserted(r, reason) = {h \in history : h.trip # r.trip} \cup {new}
  BY DEF Upserted
<1>2. new.trip = r.trip
  OBVIOUS
<1> HIDE DEF new
<1>3. QED
  BY <1>1, <1>2 DEF IdsOf

(* A pointer that survives a reset is not of a driver in S. *)
LEMMA ResetFacts ==
    ASSUME NEW S, NEW p \in [Drivers -> Trips \cup {NoTrip}]
    PROVE  /\ ResetPointers(p, S) \in [Drivers -> Trips \cup {NoTrip}]
           /\ \A d \in Drivers : ResetPointers(p, S)[d] # NoTrip =>
                 /\ ResetPointers(p, S)[d] = p[d]
                 /\ \A r \in S : r.driver # d
           /\ \A d \in Drivers : (\A r \in S : r.driver # d) => ResetPointers(p, S)[d] = p[d]
BY DEF ResetPointers

-----------------------------------------------------------------------------
(***************************************************************************)
(* Typing.                                                                 *)
(***************************************************************************)
LEMMA RefreshedType ==
    ASSUME rows \subseteq Row, NEW S, S \subseteq rows
    PROVE  Refreshed(S) \subseteq Row
BY DEF Refreshed, Row, Age, Fresh, Expired

LEMMA StepsTyped ==
    ASSUME TypeOK, [Next]_vars
    PROVE  TypeOK'
<1> USE DEF TypeOK
<1>1. ASSUME NEW s \in Sessions, NEW t \in Trips, NEW b \in Buses, NEW d \in Drivers,
             RequestStart(s, t, b, d)
      PROVE  TypeOK'
  BY <1>1 DEF RequestStart, TxState
<1>2. ASSUME NEW s \in Sessions, RefuseStart(s) PROVE TypeOK'
  BY <1>2 DEF RefuseStart, TxState
<1>3. ASSUME NEW s \in Sessions, LockBus(s) PROVE TypeOK'
  BY <1>3 DEF LockBus, TxState, Idle
<1>4. ASSUME NEW s \in Sessions, CommitStart(s) PROVE TypeOK'
  <2> DEFINE seen == tx[s].seen
             handed == {r \in rows : r.trip \in IdsOf(seen)}
             stale == {r \in rows \ handed : r.driver = tx[s].driver /\ r.hb >= Stale}
             rest == rows \ (handed \cup stale)
  <2>1. /\ tx[s].trip \in Trips /\ tx[s].bus \in Buses /\ tx[s].driver \in Drivers
        /\ seen \subseteq Row
    BY <1>4 DEF CommitStart, TxState, Idle
  <2>2. history' \subseteq Archived
    <3>1. seen \cup stale \subseteq Row
      BY <2>1
    <3>2. history' = ArchiveStale(seen \cup stale)
      BY <1>4 DEF CommitStart
    <3> HIDE DEF seen, stale
    <3>3. QED
      BY <3>1, <3>2, ArchiveType
  <2>3. rows' \subseteq Row
    <3>1. [trip |-> tx[s].trip, bus |-> tx[s].bus, driver |-> tx[s].driver, hb |-> Fresh] \in Row
      BY <2>1 DEF Row, Age, Fresh, Expired
    <3>2. QED
      BY <1>4, <3>1 DEF CommitStart
  <2>4. profile' \in [Drivers -> Trips \cup {NoTrip}]
    BY <1>4, <2>1, ResetFacts DEF CommitStart
  <2>5. flags' \subseteq Flag /\ tx' \in [Sessions -> TxState] /\ issued' \subseteq Trips
    BY <1>4 DEF CommitStart, TxState
  <2>6. QED
    BY <2>2, <2>3, <2>4, <2>5
<1>5. ASSUME NEW s \in Sessions, AbortStart(s) PROVE TypeOK'
  BY <1>5 DEF AbortStart, TxState
<1>6. ASSUME NEW t \in Trips, NEW d \in Drivers, NEW b \in Buses, ExtendTripLock(t, d, b)
      PROVE  TypeOK'
  BY <1>6, RefreshedType DEF ExtendTripLock
<1>7. ASSUME NEW b \in Buses, NEW d \in Drivers, LocationHeartbeat(b, d) PROVE TypeOK'
  BY <1>7, RefreshedType DEF LocationHeartbeat
<1>8. ASSUME NEW r \in rows, GrowOld(r) PROVE TypeOK'
  BY <1>8 DEF GrowOld, Row, Age, Fresh, Expired
<1>9. ASSUME NEW t \in issued, NEW b \in Buses, NEW reason \in {"completed", "short_trip"},
             EndTripAtomically(t, b, reason)
      PROVE  TypeOK'
  <2>1. PICK r \in EndCandidates(t, b) :
            /\ rows' = rows \ {r}
            /\ flags' = {f \in flags : f.bus \notin {r.bus, b} /\ f.trip \notin {r.trip, t}}
            /\ profile' = ResetPointers(profile, {r})
            /\ history' = Upserted(r, reason)
            /\ UNCHANGED <<tx, issued>>
    BY <1>9 DEF EndTripAtomically
  <2>2. r \in Row
    BY DEF EndCandidates
  <2>3. history' \subseteq Archived
    BY <2>1, <2>2 DEF Upserted, Archived, Row, Reasons
  <2>4. QED
    BY <2>1, <2>3, ResetFacts
<1>10. ASSUME CleanupStaleLocks PROVE TypeOK'
  <2>1. history' \subseteq Archived
    BY <1>10, ArchiveType DEF CleanupStaleLocks, SilentRows
  <2>2. QED
    BY <1>10, <2>1, ResetFacts DEF CleanupStaleLocks
<1>11. ASSUME NEW u \in Students, NEW b \in Buses, NEW t \in Trips, InsertFlag(u, b, t)
       PROVE  TypeOK'
  BY <1>11 DEF InsertFlag, Flag
<1>12. ASSUME NEW f \in flags, CloseFlag(f) PROVE TypeOK'
  BY <1>12 DEF CloseFlag
<1>13. CASE UNCHANGED vars
  BY <1>13 DEF vars
<1>14. QED
  BY <1>1, <1>2, <1>3, <1>4, <1>5, <1>6, <1>7, <1>8, <1>9, <1>10, <1>11, <1>12, <1>13
     DEF Next

(* The tables, the pointers and the sessions' states are well formed. *)
THEOREM Typing == Spec => []TypeOK
<1>1. Init => TypeOK
  BY DEF Init, TypeOK, TxState
<1>2. QED
  BY <1>1, StepsTyped, PTL DEF Spec

-----------------------------------------------------------------------------
(***************************************************************************)
(* The inductive invariant.  Many actions change the tables in one of two  *)
(* ways, each with a lemma: the ages of rows change and nothing else, or   *)
(* rows move to history.                                                   *)
(***************************************************************************)
SameTrip(r, q) == r.trip = q.trip /\ r.bus = q.bus /\ r.driver = q.driver

LEMMA AgesDoNotMatter ==
    ASSUME IInv, TypeOK',
           UNCHANGED <<history, profile, tx, issued>>,
           \A r \in rows' : \E q \in rows : SameTrip(r, q),
           \A q \in rows : \E r \in rows' : SameTrip(r, q),
           \A r, q \in rows' : r.trip = q.trip => r = q
    PROVE  IInv'
<1> USE DEF SameTrip
<1>1. IdsOf(rows') = IdsOf(rows)
  BY DEF IdsOf
<1>2. Exclusive'
  BY DEF IInv, Exclusive
<1>3. OneArchiveRow' /\ IdsAreIssued' /\ PendingIdsAreFresh'
  BY <1>1 DEF IInv, OneArchiveRow, IdsAreIssued, PendingIdsAreFresh, IdsOf
<1>4. PointerNeverDangles'
  BY DEF IInv, PointerNeverDangles
<1>5. BusLockIsExclusive' /\ SnapshotIsSound'
  BY DEF IInv, BusLockIsExclusive, SnapshotIsSound, IdsOf
<1>6. SnapshotIsComplete'
  BY DEF IInv, SnapshotIsComplete, IdsOf
<1>7. QED
  BY <1>2, <1>3, <1>4, <1>5, <1>6 DEF IInv

(* Trips leave active_trips for history, and the pointers of their drivers *)
(* are reset.                                                              *)
LEMMA ClosingIsSafe ==
    ASSUME IInv, TypeOK',
           UNCHANGED <<tx, issued>>,
           rows' \subseteq rows,
           IdsOf(history') = IdsOf(history) \cup IdsOf(rows \ rows'),
           \A h, g \in history' : h.trip = g.trip => h = g,
           \A d \in Drivers : profile'[d] # NoTrip =>
              profile'[d] = profile[d] /\ \A r \in rows \ rows' : r.driver # d
    PROVE  IInv'
<1>1. Exclusive'
  BY DEF IInv, Exclusive
<1>2. IdsOf(rows') \cap IdsOf(rows \ rows') = {}
  BY DEF IInv, Exclusive, IdsOf
<1>3. IdsOf(rows') \subseteq IdsOf(rows) /\ IdsOf(rows \ rows') \subseteq IdsOf(rows)
  BY DEF IdsOf
<1>4. OneArchiveRow'
  BY <1>2, <1>3 DEF IInv, OneArchiveRow
<1>5. PointerNeverDangles'
  BY DEF IInv, PointerNeverDangles
<1>6. IdsAreIssued' /\ PendingIdsAreFresh'
  BY <1>3 DEF IInv, IdsAreIssued, PendingIdsAreFresh
<1>7. BusLockIsExclusive' /\ SnapshotIsComplete'
  BY DEF IInv, BusLockIsExclusive, SnapshotIsComplete
<1>8. SnapshotIsSound'
  BY DEF IInv, SnapshotIsSound, IdsOf
<1>9. QED
  BY <1>1, <1>4, <1>5, <1>6, <1>7, <1>8 DEF IInv

(* Rows whose age is reset stay the same trips. *)
LEMMA RefreshedTrips ==
    ASSUME rows \subseteq Row, NEW S, S \subseteq rows
    PROVE  /\ \A r \in Refreshed(S) : \E q \in rows : SameTrip(r, q)
           /\ \A q \in rows : \E r \in Refreshed(S) : SameTrip(r, q)
<1> DEFINE Fresher(r) == [r EXCEPT !.hb = Fresh]
<1>1. \A r \in rows : SameTrip(Fresher(r), r) /\ SameTrip(r, r)
  BY DEF SameTrip, Row
<1>2. Refreshed(S) = (rows \ S) \cup {Fresher(r) : r \in S}
  BY DEF Refreshed
<1> HIDE DEF Fresher
<1>3. QED
  BY <1>1, <1>2

LEMMA RefreshIsSafe ==
    ASSUME IInv, TypeOK',
           NEW S, S \subseteq rows, rows' = Refreshed(S),
           UNCHANGED <<history, profile, tx, issued>>
    PROVE  IInv'
<1>1. rows \subseteq Row
  BY DEF IInv, TypeOK
<1>2. \A r \in rows' : \E q \in rows : SameTrip(r, q)
  BY <1>1, RefreshedTrips
<1>3. \A q \in rows : \E r \in rows' : SameTrip(r, q)
  BY <1>1, RefreshedTrips
<1>4. \A r, q \in rows' : r.trip = q.trip => r = q
  <2> DEFINE Fresher(r) == [r EXCEPT !.hb = Fresh]
  <2>1. rows' = (rows \ S) \cup {Fresher(r) : r \in S}
    BY DEF Refreshed
  <2>2. \A r \in rows : Fresher(r).trip = r.trip
    BY <1>1 DEF Row
  <2> HIDE DEF Fresher
  <2>3. QED
    BY <2>1, <2>2 DEF IInv, Exclusive
<1>5. QED
  BY <1>2, <1>3, <1>4, AgesDoNotMatter

(* The sessions, and nothing else, change. *)
LEMMA ForgettingIsSafe ==
    ASSUME IInv, TypeOK', NEW s \in Sessions,
           tx' = [tx EXCEPT ![s] = Idle],
           UNCHANGED <<rows, history, profile, issued>>
    PROVE  IInv'
<1>1. \A z \in Sessions : tx'[z] = IF z = s THEN Idle ELSE tx[z]
  BY DEF IInv, TypeOK
<1>2. Idle.pc # "locked"
  BY DEF Idle
<1>3. Exclusive' /\ OneArchiveRow' /\ PointerNeverDangles' /\ IdsAreIssued'
  BY DEF IInv, Exclusive, OneArchiveRow, PointerNeverDangles, IdsAreIssued
<1>4. PendingIdsAreFresh'
  BY <1>1 DEF IInv, PendingIdsAreFresh
<1>5. BusLockIsExclusive' /\ SnapshotIsSound' /\ SnapshotIsComplete'
  BY <1>1, <1>2 DEF IInv, BusLockIsExclusive, SnapshotIsSound, SnapshotIsComplete
<1>6. QED
  BY <1>3, <1>4, <1>5 DEF IInv

LEMMA RequestIsSafe ==
    ASSUME IInv, TypeOK',
           NEW s \in Sessions, NEW t \in Trips, NEW b \in Buses, NEW d \in Drivers,
           RequestStart(s, t, b, d)
    PROVE  IInv'
<1> DEFINE w == [pc |-> "waiting", trip |-> t, bus |-> b, driver |-> d]
<1>1. /\ tx' = [tx EXCEPT ![s] = w] /\ issued' = issued \cup {t} /\ t \notin issued
      /\ UNCHANGED <<rows, history, profile, flags>>
  BY DEF RequestStart
<1>2. \A z \in Sessions : tx'[z] = IF z = s THEN w ELSE tx[z]
  BY <1>1 DEF IInv, TypeOK
<1>3. w.pc = "waiting" /\ w.trip = t
  OBVIOUS
<1> HIDE DEF w
<1>4. Exclusive' /\ OneArchiveRow' /\ PointerNeverDangles' /\ IdsAreIssued'
  BY <1>1 DEF IInv, Exclusive, OneArchiveRow, PointerNeverDangles, IdsAreIssued
<1>5. PendingIdsAreFresh'
  BY <1>1, <1>2, <1>3 DEF IInv, PendingIdsAreFresh, IdsAreIssued
<1>6. BusLockIsExclusive' /\ SnapshotIsSound' /\ SnapshotIsComplete'
  BY <1>1, <1>2, <1>3
     DEF IInv, BusLockIsExclusive, SnapshotIsSound, SnapshotIsComplete
<1>7. QED
  BY <1>4, <1>5, <1>6 DEF IInv

LEMMA LockIsSafe ==
    ASSUME IInv, TypeOK', NEW s \in Sessions, LockBus(s)
    PROVE  IInv'
<1> DEFINE found == {r \in rows : r.bus = tx[s].bus /\ r.driver # tx[s].driver}
           l == [pc |-> "locked", trip |-> tx[s].trip, bus |-> tx[s].bus,
                 driver |-> tx[s].driver, seen |-> found]
<1>1. /\ tx[s].pc = "waiting" /\ ~ BusLocked(tx[s].bus)
      /\ tx' = [tx EXCEPT ![s] = l]
      /\ UNCHANGED <<rows, history, profile, flags, issued>>
  BY DEF LockBus
<1>2. \A z \in Sessions : tx'[z] = IF z = s THEN l ELSE tx[z]
  BY <1>1 DEF IInv, TypeOK
<1>3. /\ l.pc = "locked" /\ l.trip = tx[s].trip /\ l.bus = tx[s].bus
      /\ l.driver = tx[s].driver /\ l.seen = found
  OBVIOUS
<1>4. tx[s] # Idle
  BY <1>1 DEF Idle
<1> HIDE DEF l
<1>5. Exclusive' /\ OneArchiveRow' /\ PointerNeverDangles' /\ IdsAreIssued'
  BY <1>1 DEF IInv, Exclusive, OneArchiveRow, PointerNeverDangles, IdsAreIssued
<1>6. PendingIdsAreFresh'
  BY <1>1, <1>2, <1>3, <1>4 DEF IInv, PendingIdsAreFresh
<1>7. BusLockIsExclusive'
  BY <1>1, <1>2, <1>3 DEF IInv, BusLockIsExclusive, BusLocked
<1>8. SnapshotIsSound'
  BY <1>1, <1>2, <1>3 DEF IInv, SnapshotIsSound, Exclusive
<1>9. SnapshotIsComplete'
  BY <1>1, <1>2, <1>3 DEF IInv, SnapshotIsComplete, IdsOf
<1>10. QED
  BY <1>5, <1>6, <1>7, <1>8, <1>9 DEF IInv

(* What a start that commits takes off the road: what is left of its       *)
(* snapshot, and the driver's own stale trip.                              *)
Handed(s) == {r \in rows : r.trip \in IdsOf(tx[s].seen)}

OwnStale(s) == {r \in rows \ Handed(s) : r.driver = tx[s].driver /\ r.hb >= Stale}

Rest(s) == rows \ (Handed(s) \cup OwnStale(s))

(* The snapshot may be out of date when the start commits, but only in     *)
(* that some of its trips are over: everything it names is archived once,  *)
(* and what is archived is off the road.                                   *)
LEMMA CommitFacts ==
    ASSUME IInv, NEW s \in Sessions, CommitStart(s)
    PROVE  /\ tx[s].pc = "locked" /\ tx[s] # Idle
           /\ tx[s].trip \in Trips /\ tx[s].bus \in Buses /\ tx[s].driver \in Drivers
           /\ \A z \in Sessions : tx'[z] = IF z = s THEN Idle ELSE tx[z]
           /\ UNCHANGED issued
           /\ \A q \in tx[s].seen : q.driver # tx[s].driver
           /\ \A r \in Handed(s) : \E q \in tx[s].seen : SameTrip(q, r)
           /\ \A r \in Rest(s) : r.bus = tx[s].bus => r.driver = tx[s].driver
           /\ IdsOf(history') = IdsOf(history) \cup IdsOf(rows \ Rest(s))
           /\ \A h, g \in history' : h.trip = g.trip => h = g
           /\ IdsOf(history') \cap IdsOf(Rest(s)) = {}
           /\ tx[s].trip \in issued \ (IdsOf(rows) \cup IdsOf(history'))
<1> DEFINE t == tx[s].trip
           b == tx[s].bus
           d == tx[s].driver
           seen == tx[s].seen
           handed == Handed(s)
           stale == OwnStale(s)
           rest == Rest(s)
<1> USE DEF Handed, OwnStale, Rest
<1>1. /\ tx[s].pc = "locked"
      /\ t \in Trips /\ b \in Buses /\ d \in Drivers /\ seen \subseteq Row
      /\ tx[s] # Idle
      /\ \A z \in Sessions : tx'[z] = IF z = s THEN Idle ELSE tx[z]
      /\ UNCHANGED issued
  BY DEF CommitStart, IInv, TypeOK, TxState, Idle
<1>2. Idle.pc # "locked"
  BY DEF Idle
<1>3. \A q \in seen :
         /\ q.bus = b /\ q.driver # d
         /\ q.trip \in IdsOf(history) \cup IdsOf(rows)
  BY <1>1 DEF IInv, SnapshotIsSound, IdsOf
<1>4. \A r \in handed : \E q \in seen : SameTrip(q, r)
  BY <1>1 DEF IInv, SnapshotIsSound, OneArchiveRow, Exclusive, IdsOf, SameTrip
<1>5. \A r \in rest : r.bus = b => r.driver = d
  BY <1>1 DEF IInv, SnapshotIsComplete
<1>6. /\ IdsOf(history') = IdsOf(history) \cup IdsOf(seen) \cup IdsOf(stale)
      /\ \A h, g \in history' : h.trip = g.trip => h = g
  <2>1. history' = ArchiveStale(seen \cup stale)
    BY DEF CommitStart
  <2>2. \A p, q \in seen \cup stale : p.trip = q.trip => p = q
    <3>1. \A p, q \in seen : p.trip = q.trip => p = q
      BY <1>1 DEF IInv, SnapshotIsSound
    <3>2. \A p, q \in stale : p.trip = q.trip => p = q
      BY DEF IInv, Exclusive
    <3>3. \A p \in seen, q \in stale : p.trip # q.trip
      BY DEF IdsOf
    <3>4. QED
      BY <3>1, <3>2, <3>3
  <2>3. IdsOf(seen \cup stale) = IdsOf(seen) \cup IdsOf(stale)
    BY DEF IdsOf
  <2> HIDE DEF seen, stale
  <2>4. \A h, g \in history : h.trip = g.trip => h = g
    BY DEF IInv, OneArchiveRow
  <2>5. \A h, g \in ArchiveStale(seen \cup stale) : h.trip = g.trip => h = g
    BY <2>2, <2>4, ArchiveUnique
  <2>6. QED
    BY <2>1, <2>3, <2>5, ArchiveIds
<1>7. /\ IdsOf(history') \cap IdsOf(rest) = {}
      /\ IdsOf(rest) \subseteq IdsOf(rows)
      /\ IdsOf(stale) \subseteq IdsOf(rows)
      /\ IdsOf(history') \subseteq IdsOf(history) \cup IdsOf(rows)
      /\ IdsOf(handed) \subseteq IdsOf(history')
  <2>1. \A r \in rest : r.trip \notin IdsOf(history) /\ r.trip \notin IdsOf(seen)
    BY DEF IInv, OneArchiveRow, IdsOf
  <2>2. \A r \in rest : r.trip \notin IdsOf(stale)
    BY DEF IInv, Exclusive, IdsOf
  <2>3. IdsOf(seen) \subseteq IdsOf(history) \cup IdsOf(rows)
    BY <1>3 DEF IdsOf
  <2>4. IdsOf(stale) \subseteq IdsOf(rows) /\ IdsOf(handed) \subseteq IdsOf(seen)
    BY DEF IdsOf
  <2> HIDE DEF handed, stale, rest, seen
  <2>5. IdsOf(history') \cap IdsOf(rest) = {}
    BY <2>1, <2>2, <1>6 DEF IdsOf
  <2>6. IdsOf(rest) \subseteq IdsOf(rows)
    BY DEF IdsOf, rest
  <2>7. QED
    BY <2>3, <2>4, <2>5, <2>6, <1>6
<1>8. t \in issued /\ t \notin IdsOf(rows) /\ t \notin IdsOf(history')
  BY <1>1, <1>7 DEF IInv, PendingIdsAreFresh
<1>9. IdsOf(history') = IdsOf(history) \cup IdsOf(rows \ rest)
  <2>1. IdsOf(seen) \subseteq IdsOf(history) \cup IdsOf(handed)
    BY <1>3 DEF IdsOf
  <2>2. IdsOf(handed) \subseteq IdsOf(seen)
    BY DEF IdsOf
  <2>3. rows \ rest = handed \cup stale
    OBVIOUS
  <2>4. IdsOf(handed \cup stale) = IdsOf(handed) \cup IdsOf(stale)
    BY DEF IdsOf
  <2> HIDE DEF handed, stale, rest, seen
  <2>5. QED
    BY <2>1, <2>2, <2>3, <2>4, <1>6
<1>10. QED
  BY <1>1, <1>3, <1>4, <1>5, <1>6, <1>7, <1>8, <1>9

(* A start that commits preserves the invariant, whether the insert goes   *)
(* through or hits a unique index.                                         *)
LEMMA CommitIsSafe ==
    ASSUME IInv, TypeOK', NEW s \in Sessions, CommitStart(s)
    PROVE  IInv'
<1> DEFINE t == tx[s].trip
           b == tx[s].bus
           d == tx[s].driver
           seen == tx[s].seen
           rest == Rest(s)
           new == [trip |-> t, bus |-> b, driver |-> d, hb |-> Fresh]
           pointers == ResetPointers(profile, seen)
<1>1. /\ tx[s].pc = "locked" /\ tx[s] # Idle
      /\ \A z \in Sessions : tx'[z] = IF z = s THEN Idle ELSE tx[z]
      /\ UNCHANGED issued
  BY CommitFacts
<1>2. Idle.pc # "locked"
  BY DEF Idle
<1>3. \A r \in Handed(s) : \E q \in seen : SameTrip(q, r)
  BY CommitFacts
<1>4. \A q \in seen : q.driver # d
  BY CommitFacts
<1>5. \A r \in rest : r.bus = b => r.driver = d
  BY CommitFacts
<1>6. /\ IdsOf(history') = IdsOf(history) \cup IdsOf(rows \ rest)
      /\ \A h, g \in history' : h.trip = g.trip => h = g
  BY CommitFacts
<1>7. /\ IdsOf(history') \cap IdsOf(rest) = {}
      /\ IdsOf(rest) \subseteq IdsOf(rows)
      /\ IdsOf(history') \subseteq IdsOf(history) \cup IdsOf(rows)
  <2>1. IdsOf(history') \cap IdsOf(rest) = {}
    BY CommitFacts
  <2>2. IdsOf(rest) \subseteq IdsOf(rows) /\ IdsOf(rows \ rest) \subseteq IdsOf(rows)
    BY DEF IdsOf, Rest
  <2>3. QED
    BY <2>1, <2>2, <1>6
<1>8. t \in issued /\ t \notin IdsOf(rows) /\ t \notin IdsOf(history')
  BY CommitFacts
<1>9. /\ \/ rows' = rest /\ profile' = pointers /\ UniqueViolation(rest, t, b, d)
         \/ /\ rows' = rest \cup {new} /\ profile' = [pointers EXCEPT ![d] = t]
            /\ ~ UniqueViolation(rest, t, b, d)
      /\ new.trip = t /\ new.bus = b /\ new.driver = d
  BY DEF CommitStart, Rest, Handed, OwnStale
<1>10. \A e \in Drivers : pointers[e] # NoTrip =>
          pointers[e] = profile[e] /\ \A q \in seen : q.driver # e
  BY ResetFacts DEF IInv, TypeOK
<1>11. pointers \in [Drivers -> Trips \cup {NoTrip}]
  BY ResetFacts DEF IInv, TypeOK
<1>12. rest \subseteq rows /\ rows' \subseteq rest \cup {new} /\ rest \subseteq rows'
  BY <1>9 DEF Rest
<1>13. \A r \in rows \ rest : r.trip \in IdsOf(history')
  BY <1>6 DEF IdsOf
<1>14. Exclusive'
  <2>1. CASE rows' = rest
    BY <2>1, <1>12 DEF IInv, Exclusive
  <2>2. CASE rows' = rest \cup {new} /\ ~ UniqueViolation(rest, t, b, d)
    <3> HIDE DEF rest, new, t, b, d
    <3>1. \A r \in rest : r.trip # new.trip /\ r.bus # new.bus /\ r.driver # new.driver
      BY <2>2, <1>9 DEF UniqueViolation
    <3>2. QED
      BY <2>2, <3>1, <1>12 DEF IInv, Exclusive
  <2>3. QED
    BY <1>9, <2>1, <2>2
<1>15. PointerNeverDangles'
  <2>1. ASSUME NEW e \in Drivers, pointers[e] # NoTrip
        PROVE  \E r \in rows \ Handed(s) : r.trip = pointers[e] /\ r.driver = e
    <3>1. PICK r \in rows : r.trip = profile[e] /\ r.driver = e
      BY <2>1, <1>10 DEF IInv, PointerNeverDangles
    <3>2. r \notin Handed(s)
      BY <3>1, <2>1, <1>10, <1>3 DEF SameTrip
    <3>3. QED
      BY <3>1, <3>2, <2>1, <1>10
  <2>2. CASE rows' = rest /\ profile' = pointers /\ UniqueViolation(rest, t, b, d)
    <3>1. PICK v \in rest : v.trip = t \/ v.bus = b \/ v.driver = d
      BY <2>2 DEF UniqueViolation
    <3>2. v.driver = d
      BY <3>1, <1>5, <1>8, <1>12 DEF IdsOf
    <3>3. \A r \in rows : r.driver = d => r = v
      BY <3>2, <1>12 DEF IInv, Exclusive
    <3>4. OwnStale(s) = {}
      BY <3>3 DEF Rest, OwnStale
    <3>5. rest = rows \ Handed(s)
      BY <3>4 DEF Rest
    <3>6. QED
      BY <2>1, <2>2, <3>5 DEF PointerNeverDangles
  <2>3. CASE rows' = rest \cup {new} /\ profile' = [pointers EXCEPT ![d] = t]
    <3>1. \A e \in Drivers : e # d /\ pointers[e] # NoTrip =>
             \E r \in rest : r.trip = pointers[e] /\ r.driver = e
      BY <2>1 DEF Rest, OwnStale
    <3>2. \A e \in Drivers : profile'[e] = IF e = d THEN t ELSE pointers[e]
      BY <2>3, <1>11
    <3>3. new \in rows' /\ rest \subseteq rows'
      BY <2>3
    <3> HIDE DEF rest, new, pointers, d, t
    <3>4. QED
      BY <3>1, <3>2, <3>3, <1>9 DEF PointerNeverDangles
  <2>4. QED
    BY <1>9, <2>2, <2>3
<1>16. OneArchiveRow'
  <2> HIDE DEF rest, new, t
  <2>1. QED
    BY <1>6, <1>7, <1>8, <1>9, <1>12 DEF OneArchiveRow, IdsOf
<1>17. IdsAreIssued'
  <2> HIDE DEF rest, new, t
  <2>1. IdsOf(rows') \subseteq IdsOf(rest) \cup {t}
    BY <1>9, <1>12 DEF IdsOf
  <2>2. QED
    BY <2>1, <1>1, <1>7, <1>8 DEF IInv, IdsAreIssued
<1>18. PendingIdsAreFresh'
  <2>1. IdsOf(rows') \subseteq IdsOf(rest) \cup {t}
    <3> HIDE DEF rest, new, t
    <3>1. QED
      BY <1>9, <1>12 DEF IdsOf
  <2>2. \A z \in Sessions : tx'[z] # Idle => z # s /\ tx'[z] = tx[z] /\ tx[z].trip # t
    BY <1>1 DEF IInv, PendingIdsAreFresh
  <2> HIDE DEF rest, t
  <2>3. QED
    BY <2>1, <2>2, <1>1, <1>7 DEF IInv, PendingIdsAreFresh
<1>19. BusLockIsExclusive'
  BY <1>1, <1>2 DEF IInv, BusLockIsExclusive
<1>20. SnapshotIsSound'
  <2>1. ASSUME NEW z \in Sessions, tx'[z].pc = "locked"
        PROVE  tx'[z] = tx[z] /\ tx[z].pc = "locked"
    BY <2>1, <1>1, <1>2
  <2>2. IdsOf(history) \subseteq IdsOf(history')
    BY <1>6
  <2> HIDE DEF rest
  <2>3. QED
    BY <2>1, <2>2, <1>12, <1>13 DEF IInv, SnapshotIsSound
<1>21. SnapshotIsComplete'
  <2>1. ASSUME NEW z \in Sessions, tx'[z].pc = "locked"
        PROVE  tx'[z] = tx[z] /\ tx[z].pc = "locked" /\ tx[z].bus # b
    BY <2>1, <1>1, <1>2 DEF IInv, BusLockIsExclusive
  <2> HIDE DEF rest, new, b
  <2>2. QED
    BY <2>1, <1>9, <1>12 DEF IInv, SnapshotIsComplete
<1>22. QED
  BY <1>14, <1>15, <1>16, <1>17, <1>18, <1>19, <1>20, <1>21 DEF IInv

(* Ending a trip moves one row to history, and cron every silent one.      *)
LEMMA EndFacts ==
    ASSUME IInv, NEW t, NEW b, NEW reason, EndTripAtomically(t, b, reason)
    PROVE  /\ UNCHANGED <<tx, issued>>
           /\ rows' \subseteq rows
           /\ IdsOf(history') = IdsOf(history) \cup IdsOf(rows \ rows')
           /\ history \subseteq history'
           /\ \A h, g \in history' : h.trip = g.trip => h = g
           /\ \A d \in Drivers : profile'[d] # NoTrip =>
                 profile'[d] = profile[d] /\ \A r \in rows \ rows' : r.driver # d
<1>1. PICK r \in EndCandidates(t, b) :
          /\ rows' = rows \ {r}
          /\ profile' = ResetPointers(profile, {r})
          /\ history' = Upserted(r, reason)
          /\ UNCHANGED <<tx, issued>>
  BY DEF EndTripAtomically
<1>2. r \in rows
  BY DEF EndCandidates
<1>3. rows \ rows' = {r} /\ IdsOf({r}) = {r.trip}
  BY <1>1, <1>2 DEF IdsOf
<1>4. IdsOf(history') = IdsOf(history) \cup {r.trip}
  BY <1>1, UpsertIds
<1>5. r.trip \notin IdsOf(history)
  BY <1>2 DEF IInv, OneArchiveRow, IdsOf
<1>6. history \subseteq history'
  BY <1>1, <1>5 DEF Upserted, IdsOf
<1>7. \A h, g \in history' : h.trip = g.trip => h = g
  BY <1>1, <1>5 DEF Upserted, IInv, OneArchiveRow
<1>8. \A d \in Drivers : profile'[d] # NoTrip => profile'[d] = profile[d] /\ r.driver # d
  BY <1>1, ResetFacts DEF IInv, TypeOK
<1>9. QED
  BY <1>1, <1>3, <1>4, <1>6, <1>7, <1>8

LEMMA CleanupFacts ==
    ASSUME IInv, CleanupStaleLocks
    PROVE  /\ UNCHANGED <<tx, issued>>
           /\ rows' \subseteq rows
           /\ IdsOf(history') = IdsOf(history) \cup IdsOf(rows \ rows')
           /\ history \subseteq history'
           /\ \A h, g \in history' : h.trip = g.trip => h = g
           /\ \A d \in Drivers : profile'[d] # NoTrip =>
                 profile'[d] = profile[d] /\ \A r \in rows \ rows' : r.driver # d
<1>1. /\ history' = ArchiveStale(SilentRows)
      /\ profile' = ResetPointers(profile, SilentRows)
      /\ rows' = rows \ SilentRows
      /\ UNCHANGED <<tx, issued>>
  BY DEF CleanupStaleLocks
<1>2. SilentRows \subseteq rows
  BY DEF SilentRows
<1>3. rows \ rows' = SilentRows
  BY <1>1, <1>2
<1>4. \A p, q \in SilentRows : p.trip = q.trip => p = q
  BY <1>2 DEF IInv, Exclusive
<1>5. \A h, g \in history' : h.trip = g.trip => h = g
  BY <1>1, <1>4, ArchiveUnique DEF IInv, OneArchiveRow
<1>6. IdsOf(history') = IdsOf(history) \cup IdsOf(SilentRows)
  BY <1>1, ArchiveIds
<1>7. history \subseteq history'
  BY <1>1 DEF ArchiveStale
<1>8. \A d \in Drivers : profile'[d] # NoTrip =>
         profile'[d] = profile[d] /\ \A r \in SilentRows : r.driver # d
  BY <1>1, ResetFacts DEF IInv, TypeOK
<1>9. QED
  BY <1>1, <1>3, <1>5, <1>6, <1>7, <1>8

(* IInv is an invariant. *)
THEOREM Inductive == Spec => []IInv
<1>1. Init => IInv
  <2> SUFFICES ASSUME Init PROVE IInv
    OBVIOUS
  <2>1. TypeOK
    BY DEF Init, TypeOK, TxState
  <2>2. QED
    BY <2>1 DEF Init, IInv, Exclusive, OneArchiveRow, PointerNeverDangles, IdsAreIssued,
                PendingIdsAreFresh, BusLockIsExclusive, SnapshotIsSound,
                SnapshotIsComplete, IdsOf, Idle
<1>2. IInv /\ TypeOK' /\ [Next]_vars => IInv'
  <2> SUFFICES ASSUME IInv, TypeOK', [Next]_vars PROVE IInv'
    OBVIOUS
  <2>1. ASSUME NEW s \in Sessions, NEW t \in Trips, NEW b \in Buses, NEW d \in Drivers,
               RequestStart(s, t, b, d)
        PROVE  IInv'
    BY <2>1, RequestIsSafe
  <2>2. ASSUME NEW s \in Sessions, RefuseStart(s) PROVE IInv'
    BY <2>2, ForgettingIsSafe DEF RefuseStart
  <2>3. ASSUME NEW s \in Sessions, LockBus(s) PROVE IInv'
    BY <2>3, LockIsSafe
  <2>4. ASSUME NEW s \in Sessions, CommitStart(s) PROVE IInv'
    BY <2>4, CommitIsSafe
  <2>5. ASSUME NEW s \in Sessions, AbortStart(s) PROVE IInv'
    BY <2>5, ForgettingIsSafe DEF AbortStart
  <2>6. ASSUME NEW t \in Trips, NEW d \in Drivers, NEW b \in Buses, ExtendTripLock(t, d, b)
        PROVE  IInv'
    BY <2>6, RefreshIsSafe DEF ExtendTripLock
  <2>7. ASSUME NEW b \in Buses, NEW d \in Drivers, LocationHeartbeat(b, d) PROVE IInv'
    BY <2>7, RefreshIsSafe DEF LocationHeartbeat
  <2>8. ASSUME NEW r \in rows, GrowOld(r) PROVE IInv'
    <3> DEFINE older == [r EXCEPT !.hb = @ + 1]
    <3>1. rows' = (rows \ {r}) \cup {older} /\ UNCHANGED <<history, profile, tx, issued>>
      BY <2>8 DEF GrowOld
    <3>2. SameTrip(older, r)
      BY <2>8 DEF SameTrip, IInv, TypeOK, Row
    <3> HIDE DEF older
    <3>3. \A q \in rows' : \E p \in rows : SameTrip(q, p)
      BY <3>1, <3>2 DEF SameTrip
    <3>4. \A q \in rows : \E p \in rows' : SameTrip(p, q)
      BY <3>1, <3>2 DEF SameTrip
    <3>5. \A p, q \in rows' : p.trip = q.trip => p = q
      BY <3>1, <3>2 DEF SameTrip, IInv, Exclusive
    <3>6. QED
      BY <3>1, <3>3, <3>4, <3>5, AgesDoNotMatter
  <2>9. ASSUME NEW t \in issued, NEW b \in Buses, NEW reason \in {"completed", "short_trip"},
               EndTripAtomically(t, b, reason)
        PROVE  IInv'
    BY <2>9, EndFacts, ClosingIsSafe
  <2>10. ASSUME CleanupStaleLocks PROVE IInv'
    BY <2>10, CleanupFacts, ClosingIsSafe
  <2>11. CASE UNCHANGED <<rows, history, profile, tx, issued>>
    BY <2>11 DEF IInv, TypeOK, Exclusive, OneArchiveRow, PointerNeverDangles, IdsAreIssued,
                 PendingIdsAreFresh, BusLockIsExclusive, SnapshotIsSound, SnapshotIsComplete
  <2>12. QED
    BY <2>1, <2>2, <2>3, <2>4, <2>5, <2>6, <2>7, <2>8, <2>9, <2>10, <2>11
       DEF Next, InsertFlag, CloseFlag, vars
<1>3. QED
  BY <1>1, <1>2, Typing, PTL DEF Spec

-----------------------------------------------------------------------------
(***************************************************************************)
(* The properties.                                                         *)
(***************************************************************************)

(* A bus and a driver are in at most one active trip, and a trip is one    *)
(* row.                                                                    *)
THEOREM BusesAndDriversAreExclusive == Spec => []Exclusive
BY Inductive, PTL DEF IInv

(* A trip has at most one history row, and none while it is under way. *)
THEOREM TripsAreArchivedOnce == Spec => []OneArchiveRow
BY Inductive, PTL DEF IInv

(* driver_profiles.active_trip_id names a trip of that driver that is under *)
(* way.                                                                     *)
THEOREM PointersAreLive == Spec => []PointerNeverDangles
BY Inductive, PTL DEF IInv

(* None of the four functions rewrites or removes a history row. *)
THEOREM HistoryRowsAreFinal == Spec => HistoryIsFinal
<1>1. IInv /\ [Next]_vars => [history \subseteq history']_vars
  <2> SUFFICES ASSUME IInv, [Next]_vars PROVE history \subseteq history'
    OBVIOUS
  <2>1. ASSUME NEW s \in Sessions, CommitStart(s) PROVE history \subseteq history'
    BY <2>1 DEF CommitStart, ArchiveStale
  <2>2. ASSUME NEW t \in issued, NEW b \in Buses, NEW reason \in {"completed", "short_trip"},
               EndTripAtomically(t, b, reason)
        PROVE  history \subseteq history'
    BY <2>2, EndFacts
  <2>3. ASSUME CleanupStaleLocks PROVE history \subseteq history'
    BY <2>3, CleanupFacts
  <2>4. CASE history' = history
    BY <2>4
  <2>5. QED
    BY <2>1, <2>2, <2>3, <2>4
       DEF Next, RequestStart, RefuseStart, LockBus, AbortStart, ExtendTripLock,
           LocationHeartbeat, GrowOld, InsertFlag, CloseFlag, vars
<1>2. QED
  BY <1>1, Inductive, PTL DEF Spec, HistoryIsFinal

-----------------------------------------------------------------------------
(***************************************************************************)
(* The functions implement TripLedger, with the trips of active_trips for  *)
(* open and those of driver_trip_history for closed.                       *)
(***************************************************************************)

(* A step that only moves rows to history closes their trips. *)
LEMMA ClosingRefines ==
    ASSUME IInv, NEW rest, rest \subseteq rows
    PROVE  /\ OpenTripsOf(rest) = OpenTripsOf(rows) \ OpenTripsOf(rows \ rest)
           /\ Ledger!IdsOf(OpenTripsOf(rows \ rest)) = IdsOf(rows \ rest)
           /\ Ledger!IdsOf(OpenTripsOf(rows)) = IdsOf(rows)
           /\ OpenTripsOf(rows \ rest) \in SUBSET OpenTripsOf(rows)
<1> DEFINE Trip(r) == [trip |-> r.trip, bus |-> r.bus, driver |-> r.driver]
<1>1. \A r : Trip(r).trip = r.trip
  OBVIOUS
<1>2. \A S : OpenTripsOf(S) = {Trip(r) : r \in S}
  BY DEF OpenTripsOf
<1> HIDE DEF Trip
<1>3. \A S : Ledger!IdsOf(OpenTripsOf(S)) = IdsOf(S)
  <2> SUFFICES ASSUME NEW S PROVE Ledger!IdsOf(OpenTripsOf(S)) = IdsOf(S)
    OBVIOUS
  <2>1. OpenTripsOf(S) = {Trip(r) : r \in S}
    BY <1>2
  <2>2. QED
    BY <2>1, <1>1 DEF Ledger!IdsOf, IdsOf
<1>4. \A r, q \in rows : Trip(r) = Trip(q) => r = q
  BY <1>1 DEF IInv, Exclusive
<1>5. OpenTripsOf(rest) = OpenTripsOf(rows) \ OpenTripsOf(rows \ rest)
  BY <1>2, <1>4
<1>6. OpenTripsOf(rows \ rest) \in SUBSET OpenTripsOf(rows)
  BY <1>2
<1>7. QED
  BY <1>3, <1>5, <1>6

LEMMA CloseStep ==
    ASSUME IInv, rows' \subseteq rows,
           IdsOf(history') = IdsOf(history) \cup IdsOf(rows \ rows')
    PROVE  Ledger!Next
<1> DEFINE S == OpenTripsOf(rows \ rows')
<1>1. S \in SUBSET OpenTripsOf(rows) /\ OpenTripsOf(rows') = OpenTripsOf(rows) \ S
      /\ Ledger!IdsOf(S) = IdsOf(rows \ rows')
  BY ClosingRefines
<1> HIDE DEF S
<1>2. Ledger!Close(S)
  BY <1>1 DEF Ledger!Close
<1>3. QED
  BY <1>1, <1>2 DEF Ledger!Next

LEMMA OpenStep ==
    ASSUME IInv, NEW s \in Sessions, CommitStart(s)
    PROVE  Ledger!Next
<1> DEFINE t == tx[s].trip
           b == tx[s].bus
           d == tx[s].driver
           rest == Rest(s)
           new == [trip |-> t, bus |-> b, driver |-> d, hb |-> Fresh]
           S == OpenTripsOf(rows \ rest)
<1>1. /\ t \in Trips /\ b \in Buses /\ d \in Drivers
      /\ IdsOf(history') = IdsOf(history) \cup IdsOf(rows \ rest)
      /\ t \notin IdsOf(rows) /\ t \notin IdsOf(history')
  BY CommitFacts
<1>2. \/ rows' = rest
      \/ rows' = rest \cup {new} /\ ~ UniqueViolation(rest, t, b, d)
  BY DEF CommitStart, Rest, Handed, OwnStale
<1>3. rest \subseteq rows
  BY DEF Rest
<1>4. CASE rows' = rest
  BY <1>1, <1>3, <1>4, CloseStep
<1>5. CASE rows' = rest \cup {new} /\ ~ UniqueViolation(rest, t, b, d)
  <2> DEFINE trip == [trip |-> t, bus |-> b, driver |-> d]
  <2>1. /\ S \in SUBSET OpenTripsOf(rows)
        /\ OpenTripsOf(rest) = OpenTripsOf(rows) \ S
        /\ Ledger!IdsOf(S) = IdsOf(rows \ rest)
        /\ Ledger!IdsOf(OpenTripsOf(rows)) = IdsOf(rows)
    <3> HIDE DEF rest
    <3>1. QED
      BY <1>3, ClosingRefines
  <2>2. \A r \in OpenTripsOf(rest) : r.bus # b /\ r.driver # d
    <3>1. \A r \in rest : r.bus # b /\ r.driver # d
      BY <1>5 DEF UniqueViolation
    <3> HIDE DEF rest
    <3>2. QED
      BY <3>1 DEF OpenTripsOf
  <2>3. OpenTripsOf(rows') = OpenTripsOf(rest) \cup {trip}
    <3>1. new.trip = t /\ new.bus = b /\ new.driver = d
      OBVIOUS
    <3> HIDE DEF rest, new
    <3>2. QED
      BY <1>5, <3>1 DEF OpenTripsOf
  <2> HIDE DEF S, rest, new, trip
  <2>4. t \notin IdsOf(history) \cup Ledger!IdsOf(OpenTripsOf(rows))
    BY <1>1, <2>1
  <2>5. Ledger!Open(t, b, d, S)
    BY <1>1, <2>1, <2>2, <2>3, <2>4 DEF Ledger!Open, trip
  <2>6. QED
    BY <1>1, <2>1, <2>5 DEF Ledger!Next
<1>6. QED
  BY <1>2, <1>4, <1>5

LEMMA AgesStutter ==
    ASSUME history' = history,
           \A r \in rows' : \E q \in rows : SameTrip(r, q),
           \A q \in rows : \E r \in rows' : SameTrip(r, q)
    PROVE  UNCHANGED Ledger!vars
<1>1. OpenTripsOf(rows') = OpenTripsOf(rows)
  BY DEF OpenTripsOf, SameTrip
<1>2. QED
  BY <1>1 DEF Ledger!vars

(* Every behaviour of the functions is a behaviour of the ledger. *)
THEOREM LedgerIsImplemented == Spec => ImplementsLedger
<1>1. Init => Ledger!Init
  BY DEF Init, Ledger!Init, OpenTripsOf, IdsOf
<1>2. IInv /\ [Next]_vars => [Ledger!Next]_Ledger!vars
  <2> SUFFICES ASSUME IInv, [Next]_vars PROVE Ledger!Next \/ UNCHANGED Ledger!vars
    OBVIOUS
  <2>1. ASSUME NEW s \in Sessions, CommitStart(s) PROVE Ledger!Next
    BY <2>1, OpenStep
  <2>2. ASSUME NEW t \in issued, NEW b \in Buses, NEW reason \in {"completed", "short_trip"},
               EndTripAtomically(t, b, reason)
        PROVE  Ledger!Next
    BY <2>2, EndFacts, CloseStep
  <2>3. ASSUME CleanupStaleLocks PROVE Ledger!Next
    BY <2>3, CleanupFacts, CloseStep
  <2>4. ASSUME NEW S, S \subseteq rows, rows' = Refreshed(S), history' = history
        PROVE  UNCHANGED Ledger!vars
    <3>1. rows \subseteq Row
      BY DEF IInv, TypeOK
    <3>2. \A r \in rows' : \E q \in rows : SameTrip(r, q)
      BY <2>4, <3>1, RefreshedTrips
    <3>3. \A q \in rows : \E r \in rows' : SameTrip(r, q)
      BY <2>4, <3>1, RefreshedTrips
    <3>4. QED
      BY <2>4, <3>2, <3>3, AgesStutter
  <2>5. ASSUME NEW t \in Trips, NEW d \in Drivers, NEW b \in Buses, ExtendTripLock(t, d, b)
        PROVE  UNCHANGED Ledger!vars
    BY <2>4, <2>5 DEF ExtendTripLock
  <2>6. ASSUME NEW b \in Buses, NEW d \in Drivers, LocationHeartbeat(b, d)
        PROVE  UNCHANGED Ledger!vars
    BY <2>4, <2>6 DEF LocationHeartbeat
  <2>7. ASSUME NEW r \in rows, GrowOld(r) PROVE UNCHANGED Ledger!vars
    <3> DEFINE older == [r EXCEPT !.hb = @ + 1]
    <3>1. rows' = (rows \ {r}) \cup {older} /\ history' = history
      BY <2>7 DEF GrowOld
    <3>2. SameTrip(older, r)
      BY DEF SameTrip, IInv, TypeOK, Row
    <3> HIDE DEF older
    <3>3. QED
      BY <3>1, <3>2, AgesStutter DEF SameTrip
  <2>8. CASE UNCHANGED <<rows, history>>
    BY <2>8 DEF Ledger!vars
  <2>9. QED
    BY <2>1, <2>2, <2>3, <2>5, <2>6, <2>7, <2>8
       DEF Next, RequestStart, RefuseStart, LockBus, AbortStart, InsertFlag, CloseFlag, vars
<1>3. QED
  BY <1>1, <1>2, Inductive, PTL DEF Spec, ImplementsLedger, Ledger!Spec

-----------------------------------------------------------------------------
(***************************************************************************)
(* What the ledger guarantees, and the functions with it, since they       *)
(* implement it.                                                           *)
(***************************************************************************)
LedgerInv == Ledger!TypeOK /\ Ledger!Exclusive /\ Ledger!OpenOrClosed

LEMMA CloseKeepsLedger ==
    ASSUME LedgerInv, NEW S, S \subseteq OpenTripsOf(rows), Ledger!Close(S)
    PROVE  LedgerInv'
<1> DEFINE open == OpenTripsOf(rows)
           closed == IdsOf(history)
<1>1. open' = open \ S /\ closed' = closed \cup Ledger!IdsOf(S) /\ S \subseteq open
  BY DEF Ledger!Close
<1>2. Ledger!IdsOf(S) \subseteq Trips
  BY <1>1 DEF LedgerInv, Ledger!TypeOK, Ledger!OpenTrip, Ledger!IdsOf
<1>3. Ledger!IdsOf(open') \cap Ledger!IdsOf(S) = {} /\ Ledger!IdsOf(open') \subseteq Ledger!IdsOf(open)
  BY <1>1 DEF LedgerInv, Ledger!Exclusive, Ledger!IdsOf
<1>4. QED
  BY <1>1, <1>2, <1>3 DEF LedgerInv, Ledger!TypeOK, Ledger!Exclusive, Ledger!OpenOrClosed

LEMMA OpenKeepsLedger ==
    ASSUME LedgerInv, NEW t \in Trips, NEW b \in Buses, NEW d \in Drivers,
           NEW S, S \subseteq OpenTripsOf(rows), Ledger!Open(t, b, d, S)
    PROVE  LedgerInv'
<1> DEFINE open == OpenTripsOf(rows)
           closed == IdsOf(history)
           new == [trip |-> t, bus |-> b, driver |-> d]
           rest == open \ S
<1>1. /\ open' = rest \cup {new} /\ closed' = closed \cup Ledger!IdsOf(S)
      /\ t \notin closed \cup Ledger!IdsOf(open)
      /\ \A r \in rest : r.bus # b /\ r.driver # d
  BY DEF Ledger!Open
<1>2. new \in Ledger!OpenTrip /\ new.trip = t /\ new.bus = b /\ new.driver = d
  BY DEF Ledger!OpenTrip
<1>3. rest \subseteq open /\ S \subseteq open
  OBVIOUS
<1>4. Ledger!IdsOf(rest) \cap Ledger!IdsOf(S) = {}
  BY DEF LedgerInv, Ledger!Exclusive, Ledger!IdsOf
<1> HIDE DEF new, rest
<1>5. Ledger!IdsOf(open') = Ledger!IdsOf(rest) \cup {t}
  BY <1>1, <1>2 DEF Ledger!IdsOf
<1>6. Ledger!IdsOf(rest) \subseteq Ledger!IdsOf(open) /\ Ledger!IdsOf(S) \subseteq Ledger!IdsOf(open)
  BY <1>3 DEF Ledger!IdsOf
<1>7. Ledger!TypeOK'
  <2>1. Ledger!IdsOf(S) \subseteq Trips
    BY <1>3 DEF LedgerInv, Ledger!TypeOK, Ledger!OpenTrip, Ledger!IdsOf
  <2>2. QED
    BY <1>1, <1>2, <1>3, <2>1 DEF LedgerInv, Ledger!TypeOK
<1>8. Ledger!Exclusive'
  <2>1. \A r \in rest : r.trip # t
    BY <1>1, <1>3 DEF Ledger!IdsOf
  <2>2. QED
    BY <1>1, <1>2, <1>3, <2>1 DEF LedgerInv, Ledger!Exclusive
<1>9. Ledger!OpenOrClosed'
  BY <1>1, <1>4, <1>5, <1>6 DEF LedgerInv, Ledger!OpenOrClosed
<1>10. QED
  BY <1>7, <1>8, <1>9 DEF LedgerInv

(* A bus and a driver are in at most one open trip, and no trip is both    *)
(* under way and over.                                                     *)
THEOREM LedgerIsSafe == Spec => [](Ledger!Exclusive /\ Ledger!OpenOrClosed)
<1>1. Ledger!Init => LedgerInv
  BY DEF Ledger!Init, LedgerInv, Ledger!TypeOK, Ledger!Exclusive, Ledger!OpenOrClosed, Ledger!IdsOf
<1>2. LedgerInv /\ [Ledger!Next]_Ledger!vars => LedgerInv'
  <2> SUFFICES ASSUME LedgerInv, [Ledger!Next]_Ledger!vars PROVE LedgerInv'
    OBVIOUS
  <2>1. CASE UNCHANGED Ledger!vars
    BY <2>1 DEF Ledger!vars, LedgerInv, Ledger!TypeOK, Ledger!Exclusive, Ledger!OpenOrClosed
  <2>2. CASE Ledger!Next
    BY <2>2, CloseKeepsLedger, OpenKeepsLedger DEF Ledger!Next
  <2>3. QED
    BY <2>1, <2>2
<1>3. LedgerInv => Ledger!Exclusive /\ Ledger!OpenOrClosed
  BY DEF LedgerInv
<1>4. QED
  BY <1>1, <1>2, <1>3, LedgerIsImplemented, PTL DEF ImplementsLedger, Ledger!Spec

(* A closed trip stays closed, and an open one is kept until it is closed. *)
THEOREM LedgerKeepsTrips == Spec => Ledger!NothingVanishes
<1>1. [Ledger!Next]_Ledger!vars =>
        [/\ IdsOf(history) \subseteq IdsOf(history)'
         /\ \A r \in OpenTripsOf(rows) :
               r \in OpenTripsOf(rows)' \/ r.trip \in IdsOf(history)']_Ledger!vars
  BY DEF Ledger!Next, Ledger!Close, Ledger!Open, Ledger!IdsOf
<1>2. QED
  BY <1>1, LedgerIsImplemented, PTL DEF ImplementsLedger, Ledger!Spec, Ledger!NothingVanishes

-----------------------------------------------------------------------------
(***************************************************************************)
(* Part 2: the requests.                                                   *)
(***************************************************************************)

(* The trip was started and is off the road. *)
Gone(t) == t \in IdsOf(begun) /\ t \notin IdsOf(rows)

(* The primary key of active_trips, and where its identifiers come from. *)
KeyPerTrip == \A r, q \in rows : r.trip = q.trip => r = q

RowsBegan == IdsOf(rows) \subseteq IdsOf(begun)

PendingIsNew ==
    /\ IdsOf(begun) \subseteq issued
    /\ \A s \in Sessions : tx[s] # Idle => tx[s].trip \in issued \ IdsOf(begun)
    /\ \A s, z \in Sessions :
          tx[s] # Idle /\ tx[z] # Idle /\ tx[s].trip = tx[z].trip => s = z

Tables == KeyPerTrip /\ RowsBegan /\ PendingIsNew

(* A request that ends a trip is past end_trip_atomically only when the    *)
(* trip is gone; so is what the cron job has yet to report, and what was   *)
(* announced.                                                              *)
CallsAreOver ==
    \A s \in Sessions : call[s].pc \in EndPcs =>
        /\ call[s].trip \in IdsOf(begun)
        /\ call[s].pc # "endRpc" => Gone(call[s].trip)

ReapedAreOver == \A x \in reaped : Gone(x.trip)

AnnouncedAreOver == \A t \in Trips : ended[t] > 0 => Gone(t)

LifeInv == LifeTypeOK /\ Tables /\ CallsAreOver /\ ReapedAreOver /\ AnnouncedAreOver

(* What every step keeps. *)
GoneStays == \A t \in IdsOf(begun) \ IdsOf(rows) : t \in IdsOf(begun') \ IdsOf(rows')

-----------------------------------------------------------------------------
(* The tables.                                                             *)

(* Rows go, or only their ages change. *)
LEMMA RowsGo ==
    ASSUME Tables, IdsOf(rows') \subseteq IdsOf(rows), KeyPerTrip',
           UNCHANGED <<begun, tx, issued>>
    PROVE  Tables' /\ GoneStays
BY DEF Tables, RowsBegan, PendingIsNew, GoneStays

LEMMA SomeRowsGo ==
    ASSUME Tables, rows' \subseteq rows, UNCHANGED <<begun, tx, issued>>
    PROVE  Tables' /\ GoneStays
<1>1. IdsOf(rows') \subseteq IdsOf(rows) /\ KeyPerTrip'
  BY DEF IdsOf, Tables, KeyPerTrip
<1>2. QED
  BY <1>1, RowsGo

LEMMA AgesChange ==
    ASSUME TypeOK, Tables,
           \/ \E b \in Buses, d \in Drivers : LocationHeartbeat(b, d)
           \/ \E r \in rows : GrowOld(r),
           begun' = begun
    PROVE  Tables' /\ GoneStays
<1>1. rows \subseteq Row
  BY DEF TypeOK
<1>2. ASSUME NEW S \in SUBSET rows, rows' = Refreshed(S)
      PROVE  IdsOf(rows') \subseteq IdsOf(rows) /\ KeyPerTrip'
  <2> DEFINE Heard(r) == [r EXCEPT !.hb = Fresh]
  <2>1. \A r \in rows : Heard(r).trip = r.trip
    BY <1>1 DEF Row
  <2>2. rows' = (rows \ S) \cup {Heard(r) : r \in S}
    BY <1>2 DEF Refreshed
  <2> HIDE DEF Heard
  <2>3. QED
    BY <2>1, <2>2 DEF IdsOf, Tables, KeyPerTrip
<1>3. ASSUME NEW r \in rows, GrowOld(r)
      PROVE  IdsOf(rows') \subseteq IdsOf(rows) /\ KeyPerTrip'
  <2> DEFINE older == [r EXCEPT !.hb = @ + 1]
  <2>1. older.trip = r.trip /\ rows' = (rows \ {r}) \cup {older}
    BY <1>1, <1>3 DEF GrowOld, Row
  <2> HIDE DEF older
  <2>2. QED
    BY <2>1 DEF IdsOf, Tables, KeyPerTrip
<1>4. IdsOf(rows') \subseteq IdsOf(rows) /\ KeyPerTrip'
  BY <1>2, <1>3 DEF LocationHeartbeat
<1>5. QED
  BY <1>4, RowsGo DEF LocationHeartbeat, GrowOld

(* A transaction takes its next step without touching the tables. *)
LEMMA TransactionMoves ==
    ASSUME TypeOK, Tables, NEW s \in Sessions, NEW x, tx' = [tx EXCEPT ![s] = x],
           x = Idle \/ (tx[s] # Idle /\ x.trip = tx[s].trip),
           UNCHANGED <<rows, begun, issued>>
    PROVE  Tables' /\ GoneStays
<1>1. \A z \in Sessions : tx'[z] = IF z = s THEN x ELSE tx[z]
  BY DEF TypeOK
<1>2. QED
  BY <1>1 DEF Tables, KeyPerTrip, RowsBegan, PendingIsNew, GoneStays

LEMMA IdentifierIssued ==
    ASSUME TypeOK, Tables, NEW s \in Sessions, NEW t \in Trips, NEW b \in Buses,
           NEW d \in Drivers, RequestStart(s, t, b, d), begun' = begun
    PROVE  Tables' /\ GoneStays
<1> DEFINE x == [pc |-> "waiting", trip |-> t, bus |-> b, driver |-> d]
<1>1. \A z \in Sessions : tx'[z] = IF z = s THEN x ELSE tx[z]
  BY DEF RequestStart, TypeOK
<1>2. x.trip = t /\ t \notin issued /\ issued' = issued \cup {t} /\ rows' = rows
  BY DEF RequestStart
<1> HIDE DEF x
<1>3. QED
  BY <1>1, <1>2 DEF Tables, KeyPerTrip, RowsBegan, PendingIsNew, GoneStays

(* What StartCommit leaves of the table before it inserts. *)
Kept(s) ==
  LET handed == {r \in rows : r.trip \in IdsOf(tx[s].seen)}
      stale == {r \in rows \ handed : r.driver = tx[s].driver /\ r.hb >= Stale}
  IN  rows \ (handed \cup stale)

LEMMA CommitTables ==
    ASSUME TypeOK, Tables, NEW s \in Sessions, StartCommit(s)
    PROVE  Tables' /\ GoneStays
<1> DEFINE t == tx[s].trip
           new == [trip |-> t, bus |-> tx[s].bus, driver |-> tx[s].driver, hb |-> Fresh]
           x == [trip |-> t, bus |-> tx[s].bus, driver |-> tx[s].driver]
<1>1. /\ tx[s].pc = "locked" /\ tx' = [tx EXCEPT ![s] = Idle] /\ issued' = issued
      /\ rows' = Kept(s) \/ rows' = Kept(s) \cup {new}
  BY DEF StartCommit, CommitStart, Kept
<1>2. Kept(s) \subseteq rows
  BY DEF Kept
<1>3. tx[s] # Idle
  BY <1>1 DEF Idle
<1>4. /\ t \in issued /\ t \notin IdsOf(begun) /\ t \notin IdsOf(rows)
      /\ \A z \in Sessions : tx'[z] # Idle => z # s /\ tx[z] = tx'[z] /\ tx[z].trip # t
  BY <1>1, <1>3 DEF Tables, PendingIsNew, RowsBegan, TypeOK
<1>5. new.trip = t /\ x.trip = t
  OBVIOUS
<1>6. \/ t \in IdsOf(rows') /\ begun' = begun \cup {x}
      \/ t \notin IdsOf(rows') /\ begun' = begun
  BY DEF StartCommit
<1> HIDE DEF t, new, x
<1>7. IdsOf(Kept(s)) \subseteq IdsOf(rows)
  BY <1>2 DEF IdsOf
<1>8. CASE t \in IdsOf(rows') /\ begun' = begun \cup {x}
  <2>1. IdsOf(begun') = IdsOf(begun) \cup {t}
    BY <1>5, <1>8 DEF IdsOf
  <2>2. IdsOf(rows') \subseteq IdsOf(Kept(s)) \cup {t}
    BY <1>1, <1>5 DEF IdsOf
  <2>3. KeyPerTrip'
    BY <1>1, <1>2, <1>4, <1>5 DEF Tables, KeyPerTrip, IdsOf
  <2>4. PendingIsNew'
    BY <1>1, <1>4, <2>1 DEF Tables, PendingIsNew
  <2>5. RowsBegan' /\ GoneStays
    BY <1>4, <1>7, <2>1, <2>2 DEF Tables, RowsBegan, GoneStays
  <2>6. QED
    BY <2>3, <2>4, <2>5 DEF Tables
<1>9. CASE t \notin IdsOf(rows') /\ begun' = begun
  <2>1. rows' = Kept(s)
    BY <1>1, <1>5, <1>9 DEF IdsOf
  <2>2. KeyPerTrip'
    BY <1>2, <2>1 DEF Tables, KeyPerTrip
  <2>3. PendingIsNew'
    BY <1>1, <1>4, <1>9 DEF Tables, PendingIsNew
  <2>4. RowsBegan' /\ GoneStays
    BY <1>7, <1>9, <2>1 DEF Tables, RowsBegan, GoneStays
  <2>5. QED
    BY <2>2, <2>3, <2>4 DEF Tables
<1>10. QED
  BY <1>6, <1>8, <1>9

-----------------------------------------------------------------------------
(* The requests.                                                           *)

LEMMA CallByPc ==
    ASSUME NEW c \in {Ready} \cup Start \cup AnnounceStart \cup End
    PROVE  /\ c.pc \in EndPcs => c \in End
           /\ c.pc \in {"start", "acquire"} => c \in Start
           /\ c.pc = "announceStart" => c \in AnnounceStart
<1>1. c = Ready => c.pc = "ready"
  BY DEF Ready
<1>2. c \in Start => c.pc \in {"start", "acquire"}
  BY DEF Start
<1>3. c \in AnnounceStart => c.pc = "announceStart"
  BY DEF AnnounceStart
<1>4. c \in End => c.pc \in EndPcs
  BY DEF End
<1>5. QED
  BY <1>1, <1>2, <1>3, <1>4 DEF EndPcs

Calls == [Sessions -> {Ready} \cup Start \cup AnnounceStart \cup End]

(* A request turns to c. *)
LEMMA CallTurns ==
    ASSUME call \in Calls, CallsAreOver, GoneStays, IdsOf(begun) \subseteq IdsOf(begun'),
           NEW s \in Sessions, NEW c \in {Ready} \cup Start \cup AnnounceStart \cup End,
           c.pc \in EndPcs => /\ c.trip \in IdsOf(begun)
                              /\ c.pc # "endRpc" => c.trip \in IdsOf(begun') \ IdsOf(rows'),
           Become(s, c)
    PROVE  call' \in Calls /\ CallsAreOver'
<1>1. \A z \in Sessions : call'[z] = IF z = s THEN c ELSE call[z]
  BY DEF Become, Calls
<1>2. call' \in Calls
  BY DEF Become, Calls
<1>3. CallsAreOver'
  BY <1>1 DEF CallsAreOver, GoneStays, Gone
<1>4. QED
  BY <1>2, <1>3

(* A request that ends a trip goes on, and the trip is gone by then. *)
LEMMA EndGoesOn ==
    ASSUME call \in Calls, CallsAreOver, GoneStays, begun' = begun,
           NEW s \in Sessions, call[s].pc \in EndPcs,
           NEW pc \in EndPcs, Goto(s, pc),
           call[s].trip \notin IdsOf(rows')
    PROVE  call' \in Calls /\ CallsAreOver'
<1> DEFINE c == [call[s] EXCEPT !.pc = pc]
<1>1. call[s] \in End
  BY CallByPc DEF Calls
<1>2. c \in End /\ c.pc = pc /\ c.trip = call[s].trip
  BY <1>1 DEF End
<1>3. call[s].trip \in IdsOf(begun)
  BY DEF CallsAreOver
<1>4. Become(s, c)
  BY DEF Goto
<1> HIDE DEF c
<1>5. QED
  BY <1>2, <1>3, <1>4, CallTurns

LEMMA CallEnds ==
    ASSUME call \in Calls, CallsAreOver, GoneStays, IdsOf(begun) \subseteq IdsOf(begun'),
           NEW s \in Sessions, Become(s, Ready)
    PROVE  call' \in Calls /\ CallsAreOver'
<1>1. Ready.pc \notin EndPcs
  BY DEF Ready, EndPcs
<1>2. QED
  BY <1>1, CallTurns

LEMMA CallsStay ==
    ASSUME call \in Calls, CallsAreOver, GoneStays, IdsOf(begun) \subseteq IdsOf(begun'),
           call' = call
    PROVE  call' \in Calls /\ CallsAreOver'
BY DEF CallsAreOver, GoneStays, Gone

LEMMA ReportsStay ==
    ASSUME GoneStays, ReapedAreOver, AnnouncedAreOver, reaped' \subseteq reaped, ended' = ended
    PROVE  ReapedAreOver' /\ AnnouncedAreOver'
BY DEF GoneStays, Gone, ReapedAreOver, AnnouncedAreOver

(* The rest of the type, for steps that change nothing but calls. *)
LifeRest ==
    /\ reaped \in SUBSET OpenTripsOf(Row)
    /\ ended \in [Trips -> 0 .. MaxBroadcasts]
    /\ pushed \in SUBSET (Trips \X {"start", "end"})
    /\ begun \in SUBSET OpenTripsOf(Row)

LEMMA LifeTypeParts == LifeTypeOK <=> TypeOK /\ call \in Calls /\ LifeRest
BY DEF LifeTypeOK, Calls, LifeRest

(* The invariant is put together again. *)
LEMMA Assembled ==
    ASSUME LifeInv, GoneStays, TypeOK', Tables', call' \in Calls /\ CallsAreOver', LifeRest',
           reaped' \subseteq reaped, ended' = ended
    PROVE  LifeInv' /\ GoneStays
<1>1. ReapedAreOver' /\ AnnouncedAreOver'
  BY ReportsStay DEF LifeInv
<1>2. LifeTypeOK'
  BY DEF LifeTypeOK, Calls, LifeRest
<1>3. QED
  BY <1>1, <1>2 DEF LifeInv

LEMMA TripOfBegun ==
    ASSUME NEW x \in OpenTripsOf(Row)
    PROVE  x.trip \in Trips /\ x.bus \in Buses /\ x.driver \in Drivers
BY DEF OpenTripsOf, Row

LEMMA TripIsOpenTrip ==
    ASSUME NEW t \in Trips, NEW b \in Buses, NEW d \in Drivers
    PROVE  [trip |-> t, bus |-> b, driver |-> d] \in OpenTripsOf(Row)
<1> DEFINE r == [trip |-> t, bus |-> b, driver |-> d, hb |-> Fresh]
<1>1. r \in Row
  BY DEF Row, Age, Fresh, Expired
<1>2. r.trip = t /\ r.bus = b /\ r.driver = d
  OBVIOUS
<1> HIDE DEF r
<1>3. QED
  BY <1>1, <1>2 DEF OpenTripsOf

-----------------------------------------------------------------------------
(* Starts.                                                                 *)

LEMMA TablesStay ==
    ASSUME Tables, UNCHANGED <<vars, begun>>
    PROVE  Tables' /\ GoneStays
BY DEF vars, Tables, KeyPerTrip, RowsBegan, PendingIsNew, GoneStays

LEMMA StartReadsKeep ==
    ASSUME LifeInv, NEW s \in Sessions,
           \/ \E b \in Buses, d \in Drivers : StartRequest(s, b, d)
           \/ StartAlreadyActive(s) \/ Crash(s)
    PROVE  LifeInv' /\ GoneStays
<1>1. PICK c \in {Ready} \cup Start :
        Become(s, c) /\ UNCHANGED <<vars, reaped, ended, pushed, begun>>
  BY DEF StartRequest, StartAlreadyActive, Crash, Start
<1>2. c.pc \notin EndPcs
  BY DEF Ready, Start, EndPcs
<1>3. Tables' /\ GoneStays
  BY <1>1, TablesStay DEF LifeInv
<1>4. TypeOK'
  BY <1>1, StepsTyped, LifeTypeParts DEF LifeInv
<1>5. call' \in Calls /\ CallsAreOver'
  BY <1>1, <1>2, <1>3, CallTurns, LifeTypeParts DEF LifeInv
<1>6. LifeRest'
  BY <1>1, LifeTypeParts DEF LifeInv, LifeRest
<1>7. QED
  BY <1>1, <1>3, <1>4, <1>5, <1>6, Assembled

LEMMA StartTransactionKeeps ==
    ASSUME LifeInv, NEW s \in Sessions,
           \/ \E t \in Trips : StartAcquire(s, t)
           \/ StartLockBus(s) \/ StartRefused(s) \/ StartAborted(s)
    PROVE  LifeInv' /\ GoneStays
<1>1. UNCHANGED <<reaped, ended, pushed, begun>>
  BY DEF StartAcquire, StartLockBus, StartRefused, StartAborted
<1>2. TypeOK /\ call \in Calls /\ Tables /\ CallsAreOver
  BY LifeTypeParts DEF LifeInv
<1>3. /\ TypeOK' /\ Tables' /\ GoneStays
      /\ \/ call' = call \/ Become(s, Ready)
         \/ Goto(s, "acquire") /\ call[s].pc = "start"
  <2>1. ASSUME NEW t \in Trips, StartAcquire(s, t)
        PROVE  TypeOK' /\ Tables' /\ GoneStays /\ Goto(s, "acquire") /\ call[s].pc = "start"
    <3>1. call[s] \in Start
      BY <1>2, <2>1, CallByPc DEF StartAcquire, Calls
    <3>2. call[s].bus \in Buses /\ call[s].driver \in Drivers
      BY <3>1 DEF Start
    <3>3. Next
      BY <2>1, <3>2 DEF StartAcquire, Next
    <3>4. QED
      BY <1>1, <1>2, <2>1, <3>2, <3>3, StepsTyped, IdentifierIssued DEF StartAcquire
  <2>2. CASE StartLockBus(s)
    <3> DEFINE x == [pc |-> "locked", trip |-> tx[s].trip, bus |-> tx[s].bus,
                     driver |-> tx[s].driver,
                     seen |-> {r \in rows : r.bus = tx[s].bus /\ r.driver # tx[s].driver}]
    <3>1. tx' = [tx EXCEPT ![s] = x] /\ tx[s] # Idle /\ UNCHANGED <<rows, issued, call>>
      BY <2>2 DEF StartLockBus, LockBus, Idle
    <3>2. x.trip = tx[s].trip
      OBVIOUS
    <3>3. TypeOK'
      BY <1>2, <2>2, StepsTyped DEF StartLockBus, Next
    <3> HIDE DEF x
    <3>4. QED
      BY <1>1, <1>2, <3>1, <3>2, <3>3, TransactionMoves
  <2>3. CASE StartRefused(s) \/ StartAborted(s)
    <3>1. tx' = [tx EXCEPT ![s] = Idle] /\ Become(s, Ready) /\ UNCHANGED <<rows, issued>>
      BY <2>3 DEF StartRefused, RefuseStart, StartAborted, AbortStart
    <3>2. TypeOK'
      BY <1>2, <2>3, StepsTyped DEF StartRefused, StartAborted, Next
    <3>3. QED
      BY <1>1, <1>2, <3>1, <3>2, TransactionMoves
  <2>4. QED
    BY <2>1, <2>2, <2>3
<1>4. call' \in Calls /\ CallsAreOver'
  <2>1. CASE Goto(s, "acquire") /\ call[s].pc = "start"
    <3>1. call[s] \in Start
      BY <1>2, <2>1, CallByPc DEF Calls
    <3>2. [call[s] EXCEPT !.pc = "acquire"] \in Start
      BY <3>1 DEF Start
    <3>3. [call[s] EXCEPT !.pc = "acquire"].pc \notin EndPcs
      BY <3>1 DEF Start, EndPcs
    <3>4. Become(s, [call[s] EXCEPT !.pc = "acquire"])
      BY <2>1 DEF Goto
    <3>5. QED
      BY <1>1, <1>2, <1>3, <3>2, <3>3, <3>4, CallTurns
  <2>2. QED
    BY <1>1, <1>2, <1>3, <2>1, CallsStay, CallEnds
<1>5. LifeRest'
  BY <1>1, LifeTypeParts DEF LifeInv, LifeRest
<1>6. QED
  BY <1>1, <1>3, <1>4, <1>5, Assembled

LEMMA CommitKeeps ==
    ASSUME LifeInv, NEW s \in Sessions, StartCommit(s)
    PROVE  LifeInv' /\ GoneStays
<1> DEFINE x == [trip |-> tx[s].trip, bus |-> tx[s].bus, driver |-> tx[s].driver]
           c == [pc |-> "announceStart", trip |-> tx[s].trip, bus |-> tx[s].bus,
                 driver |-> tx[s].driver]
<1>1. TypeOK /\ call \in Calls /\ Tables /\ CallsAreOver /\ LifeRest
  BY LifeTypeParts DEF LifeInv
<1>2. Tables' /\ GoneStays
  BY <1>1, CommitTables
<1>3. TypeOK'
  BY <1>1, StepsTyped DEF StartCommit, Next
<1>4. tx[s].trip \in Trips /\ tx[s].bus \in Buses /\ tx[s].driver \in Drivers
  BY <1>1 DEF StartCommit, CommitStart, TypeOK, TxState, Idle
<1>5. /\ UNCHANGED <<reaped, ended, pushed>>
      /\ \/ begun' = begun \cup {x} /\ Become(s, c)
         \/ begun' = begun /\ Become(s, Ready)
  BY DEF StartCommit
<1>6. x \in OpenTripsOf(Row) /\ c \in AnnounceStart /\ c.pc = "announceStart"
  BY <1>4, TripIsOpenTrip DEF AnnounceStart
<1>7. LifeRest' /\ IdsOf(begun) \subseteq IdsOf(begun')
  BY <1>1, <1>5, <1>6 DEF LifeRest, IdsOf
<1> HIDE DEF x, c
<1>8. call' \in Calls /\ CallsAreOver'
  BY <1>1, <1>2, <1>5, <1>6, <1>7, CallTurns, CallEnds DEF EndPcs
<1>9. QED
  BY <1>2, <1>3, <1>5, <1>7, <1>8, Assembled

(* acquire_fcm_lock marks a trip. *)
LEMMA LockMarks ==
    ASSUME pushed \in SUBSET (Trips \X {"start", "end"}),
           NEW t \in Trips, NEW kind \in {"start", "end"}, AcquireFcmLock(t, kind)
    PROVE  pushed' \in SUBSET (Trips \X {"start", "end"})
BY DEF AcquireFcmLock

LEMMA StartAnnounceKeeps ==
    ASSUME LifeInv, NEW s \in Sessions, StartAnnounce(s)
    PROVE  LifeInv' /\ GoneStays
<1>1. TypeOK /\ call \in Calls /\ Tables /\ CallsAreOver /\ LifeRest
  BY LifeTypeParts DEF LifeInv
<1>2. UNCHANGED <<vars, reaped, ended, begun>> /\ Become(s, Ready)
  BY DEF StartAnnounce
<1>3. Tables' /\ GoneStays
  BY <1>1, <1>2, TablesStay
<1>4. TypeOK'
  BY <1>1, <1>2, StepsTyped
<1>5. call[s].trip \in Trips
  <2>1. call[s] \in AnnounceStart
    BY <1>1, CallByPc DEF StartAnnounce, Calls
  <2>2. QED
    BY <2>1 DEF AnnounceStart
<1>6. LifeRest'
  BY <1>1, <1>2, <1>5, LockMarks DEF LifeRest, StartAnnounce
<1>7. call' \in Calls /\ CallsAreOver'
  BY <1>1, <1>2, <1>3, CallEnds
<1>8. QED
  BY <1>2, <1>3, <1>4, <1>6, <1>7, Assembled

-----------------------------------------------------------------------------
(* Ends.                                                                   *)

(* A request that ends a trip goes on to pc, and the trip is gone then. *)
LEMMA EndTurn ==
    ASSUME LifeInv, NEW s \in Sessions, NEW pc \in EndPcs, call[s].pc \in EndPcs, Goto(s, pc),
           TypeOK', rows' \subseteq rows, call[s].trip \notin IdsOf(rows'),
           UNCHANGED <<tx, issued, reaped, ended, pushed, begun>>
    PROVE  LifeInv' /\ GoneStays
<1>1. call \in Calls /\ Tables /\ CallsAreOver /\ LifeRest
  BY LifeTypeParts DEF LifeInv
<1>2. Tables' /\ GoneStays
  BY <1>1, SomeRowsGo
<1>3. call' \in Calls /\ CallsAreOver'
  BY <1>1, <1>2, EndGoesOn
<1>4. LifeRest'
  BY <1>1 DEF LifeRest
<1>5. QED
  BY <1>2, <1>3, <1>4, Assembled

LEMMA EndLeaves ==
    ASSUME LifeInv, NEW s \in Sessions, Become(s, Ready),
           UNCHANGED <<vars, reaped, ended, pushed, begun>>
    PROVE  LifeInv' /\ GoneStays
<1>1. TypeOK /\ call \in Calls /\ Tables /\ CallsAreOver /\ LifeRest
  BY LifeTypeParts DEF LifeInv
<1>2. Tables' /\ GoneStays
  BY <1>1, TablesStay
<1>3. TypeOK'
  BY <1>1, StepsTyped
<1>4. call' \in Calls /\ CallsAreOver'
  BY <1>1, <1>2, CallEnds
<1>5. LifeRest'
  BY <1>1 DEF LifeRest
<1>6. QED
  BY <1>2, <1>3, <1>4, <1>5, Assembled

(* Past end_trip_atomically the trip is gone. *)
LEMMA GoneByThen ==
    ASSUME LifeInv, NEW s \in Sessions, call[s].pc \in EndPcs \ {"endRpc"}
    PROVE  call[s].trip \notin IdsOf(rows)
BY DEF LifeInv, CallsAreOver, Gone

LEMMA EndRequestKeeps ==
    ASSUME LifeInv, NEW s \in Sessions, NEW t \in IdsOf(begun), NEW b \in Buses, NEW d \in Drivers,
           EndRequest(s, t, b, d) \/ EndRequestUnread(s, t, b, d)
    PROVE  LifeInv' /\ GoneStays
<1> DEFINE c == EndCall(t, b, d)
<1>1. TypeOK /\ call \in Calls /\ Tables /\ CallsAreOver /\ LifeRest
  BY LifeTypeParts DEF LifeInv
<1>2. Become(s, c) /\ UNCHANGED <<vars, reaped, ended, pushed, begun>>
  BY DEF EndRequest, EndRequestUnread
<1>3. t \in Trips
  BY <1>1, TripOfBegun DEF LifeRest, IdsOf
<1>4. c \in End /\ c.pc = "endRpc" /\ c.trip = t
  BY <1>3 DEF EndCall, End, EndPcs
<1>5. c.trip \in IdsOf(begun)
  BY <1>4
<1> HIDE DEF c
<1>6. Tables' /\ GoneStays
  BY <1>1, <1>2, TablesStay
<1>7. TypeOK'
  BY <1>1, <1>2, StepsTyped
<1>8. call' \in Calls /\ CallsAreOver'
  BY <1>1, <1>2, <1>4, <1>5, <1>6, CallTurns
<1>9. LifeRest'
  BY <1>1, <1>2 DEF LifeRest
<1>10. QED
  BY <1>2, <1>6, <1>7, <1>8, <1>9, Assembled

(* end_trip_atomically prefers the row of the trip, and there is only one. *)
LEMMA EndRpcKeeps ==
    ASSUME LifeInv, NEW s \in Sessions, EndRpc(s)
    PROVE  LifeInv' /\ GoneStays
<1> DEFINE t == call[s].trip
           b == call[s].bus
<1>1. TypeOK /\ call \in Calls /\ Tables /\ CallsAreOver /\ LifeRest
  BY LifeTypeParts DEF LifeInv
<1>2. call[s].pc = "endRpc" /\ call[s].pc \in EndPcs
  BY DEF EndRpc, EndPcs
<1>3. call[s] \in End
  BY <1>1, <1>2, CallByPc DEF Calls
<1>4. t \in Trips /\ b \in Buses /\ t \in issued /\ t \in IdsOf(begun)
  BY <1>1, <1>2, <1>3 DEF End, CallsAreOver, Tables, PendingIsNew
<1>5. UNCHANGED <<reaped, ended, pushed, begun>>
  BY DEF EndRpc
<1>6. CASE EndRpcDone(s)
  <2>1. PICK reason \in {"completed", "short_trip"} : EndTripAtomically(t, b, reason)
    BY <1>6 DEF EndRpcDone
  <2>2. TypeOK'
    BY <1>1, <1>4, <2>1, StepsTyped DEF Next
  <2>3. PICK r \in EndCandidates(t, b) : rows' = rows \ {r} /\ UNCHANGED <<tx, issued>>
    BY <2>1 DEF EndTripAtomically
  <2>4. t \notin IdsOf(rows')
    BY <1>1, <2>3 DEF EndCandidates, IdsOf, Tables, KeyPerTrip
  <2>5. Goto(s, "endCheck")
    BY <1>6 DEF EndRpcDone
  <2>6. QED
    BY <1>2, <1>5, <2>2, <2>3, <2>4, <2>5, EndTurn DEF EndPcs
<1>7. CASE /\ EndCandidates(t, b) = {}
           /\ Become(s, [call[s] EXCEPT !.pc = "endCheck", !.already = TRUE])
           /\ UNCHANGED vars
  <2> DEFINE c == [call[s] EXCEPT !.pc = "endCheck", !.already = TRUE]
  <2>1. c \in End /\ c.pc = "endCheck" /\ c.trip = t
    BY <1>3 DEF End, EndPcs
  <2>2. t \notin IdsOf(rows)
    BY <1>7 DEF EndCandidates, IdsOf
  <2>3. Become(s, c)
    BY <1>7
  <2> HIDE DEF c
  <2>4. Tables' /\ GoneStays
    BY <1>1, <1>5, <1>7, TablesStay
  <2>5. TypeOK'
    BY <1>1, <1>7, StepsTyped
  <2>6. rows' = rows
    BY <1>7 DEF vars
  <2>7. call' \in Calls /\ CallsAreOver'
    BY <1>1, <1>4, <1>5, <2>1, <2>2, <2>3, <2>4, <2>6, CallTurns
  <2>8. LifeRest'
    BY <1>1, <1>5 DEF LifeRest
  <2>9. QED
    BY <1>5, <2>4, <2>5, <2>7, <2>8, Assembled
<1>8. QED
  BY <1>6, <1>7 DEF EndRpc

(* A statement that touches no table. *)
LEMMA EndPassesKeep ==
    ASSUME LifeInv, NEW s \in Sessions, EndCheck(s) \/ EndCheckUnread(s) \/ PassOver(s)
    PROVE  LifeInv' /\ GoneStays
<1>1. UNCHANGED <<vars, reaped, ended, pushed, begun>>
  BY DEF EndCheck, EndCheckUnread, PassOver
<1>2. TypeOK' /\ rows' = rows /\ UNCHANGED <<tx, issued>>
  BY <1>1, StepsTyped DEF LifeInv, LifeTypeOK, vars
<1>3. call[s].pc \in EndPcs \ {"endRpc"}
  BY DEF EndCheck, EndCheckUnread, PassOver, AfterStatement, EndPcs
<1>4. Become(s, Ready) \/ \E pc \in EndPcs : Goto(s, pc)
  <2>1. CASE EndCheck(s) \/ EndCheckUnread(s)
    BY <2>1 DEF EndCheck, EndCheckUnread, EndPcs
  <2>2. CASE PassOver(s)
    <3>1. call[s].pc \in DOMAIN AfterStatement /\ Goto(s, AfterStatement[call[s].pc])
      BY <2>2 DEF PassOver
    <3>2. \A p \in DOMAIN AfterStatement : AfterStatement[p] \in EndPcs
      BY DEF AfterStatement, EndPcs
    <3>3. QED
      BY <3>1, <3>2
  <2>3. QED
    BY <2>1, <2>2
<1>5. QED
  BY <1>1, <1>2, <1>3, <1>4, GoneByThen, EndTurn, EndLeaves

LEMMA SweepReadKeeps ==
    ASSUME LifeInv, NEW s \in Sessions, SweepRead(s)
    PROVE  LifeInv' /\ GoneStays
<1> DEFINE found == OpenTripsOf(Reached(call[s].trip, call[s].bus))
<1>1. TypeOK /\ call \in Calls /\ Tables /\ CallsAreOver /\ LifeRest
  BY LifeTypeParts DEF LifeInv
<1>2. call[s].pc = "sweepRead" /\ UNCHANGED <<vars, reaped, ended, pushed, begun>>
  BY DEF SweepRead
<1>3. TypeOK' /\ rows' = rows /\ UNCHANGED <<tx, issued>>
  BY <1>1, <1>2, StepsTyped DEF vars
<1>4. call[s].pc \in EndPcs \ {"endRpc"} /\ call[s] \in End
  BY <1>1, <1>2, CallByPc DEF Calls, EndPcs
<1>5. call[s].trip \notin IdsOf(rows)
  BY <1>4, GoneByThen
<1>6. CASE Goto(s, "sweepDelete")
  BY <1>2, <1>3, <1>4, <1>5, <1>6, EndTurn DEF EndPcs
<1>7. ASSUME NEW x \in found,
             Become(s, [call[s] EXCEPT !.pc = "sweepDelete", !.row = {x}])
      PROVE  LifeInv' /\ GoneStays
  <2> DEFINE c == [call[s] EXCEPT !.pc = "sweepDelete", !.row = {x}]
  <2>1. x \in OpenTripsOf(Row)
    BY <1>1, <1>7 DEF OpenTripsOf, Reached, TypeOK
  <2>2. c \in End /\ c.pc = "sweepDelete" /\ c.trip = call[s].trip
    BY <1>4, <2>1 DEF End, EndPcs
  <2>3. Become(s, c)
    BY <1>7
  <2> HIDE DEF c
  <2>4. Tables' /\ GoneStays
    BY <1>1, <1>2, TablesStay
  <2>5. call[s].trip \in IdsOf(begun)
    BY <1>1, <1>4 DEF CallsAreOver
  <2>6. call' \in Calls /\ CallsAreOver'
    BY <1>1, <1>2, <1>3, <1>5, <2>2, <2>3, <2>4, <2>5, CallTurns
  <2>7. LifeRest'
    BY <1>1, <1>2 DEF LifeRest
  <2>8. QED
    BY <1>2, <1>3, <2>4, <2>6, <2>7, Assembled
<1>8. QED
  BY <1>6, <1>7 DEF SweepRead

(* The statements of the clean-up that write. *)
LEMMA SweepTyped ==
    ASSUME LifeInv, NEW s \in Sessions,
           SweepDelete(s) \/ SweepProfile(s) \/ SweepFlags(s) \/ SweepArchive(s) \/ EndCleanup(s)
    PROVE  TypeOK'
<1>1. TypeOK /\ call \in Calls
  BY LifeTypeParts DEF LifeInv
<1>2. call[s] \in End
  <2>1. call[s].pc \in EndPcs
    BY DEF SweepDelete, SweepProfile, SweepFlags, SweepArchive, EndCleanup, EndPcs
  <2>2. QED
    BY <1>1, <2>1, CallByPc DEF Calls
<1>3. CASE SweepDelete(s)
  BY <1>1, <1>3 DEF SweepDelete, TypeOK
<1>4. CASE SweepProfile(s)
  BY <1>1, <1>2, <1>4 DEF SweepProfile, TypeOK, End
<1>5. CASE SweepFlags(s)
  BY <1>1, <1>5 DEF SweepFlags, DropFlags, TypeOK
<1>6. CASE EndCleanup(s)
  BY <1>1, <1>6 DEF EndCleanup, DropFlags, TypeOK
<1>7. CASE SweepArchive(s)
  <2>1. ASSUME NEW x \in call[s].row
        PROVE  Upserted([x EXCEPT !.driver = call[s].driver], "completed") \in SUBSET Archived
    <3> DEFINE y == [x EXCEPT !.driver = call[s].driver]
    <3>1. x \in OpenTripsOf(Row) /\ call[s].driver \in Drivers
      BY <1>2 DEF End
    <3>2. x \in [trip : Trips, bus : Buses, driver : Drivers]
      BY <3>1 DEF OpenTripsOf, Row
    <3>3. y.trip \in Trips /\ y.bus \in Buses /\ y.driver \in Drivers
      BY <3>1, <3>2
    <3> HIDE DEF y
    <3>4. Upserted(y, "completed") \in SUBSET Archived
      BY <1>1, <3>3 DEF Upserted, Archived, Reasons, TypeOK
    <3>5. QED
      BY <3>4 DEF y
  <2>2. history' \in SUBSET Archived
    BY <1>1, <1>7, <2>1 DEF SweepArchive, TypeOK
  <2>3. QED
    BY <1>1, <1>7, <2>2 DEF SweepArchive, TypeOK
<1>8. QED
  BY <1>3, <1>4, <1>5, <1>6, <1>7

LEMMA SweepKeeps ==
    ASSUME LifeInv, NEW s \in Sessions,
           SweepDelete(s) \/ SweepProfile(s) \/ SweepFlags(s) \/ SweepArchive(s) \/ EndCleanup(s)
    PROVE  LifeInv' /\ GoneStays
<1>1. TypeOK'
  BY SweepTyped
<1>2. rows' \subseteq rows /\ UNCHANGED <<tx, issued, reaped, ended, pushed, begun>>
  BY DEF SweepDelete, SweepProfile, SweepFlags, SweepArchive, EndCleanup
<1>3. call[s].pc \in EndPcs \ {"endRpc"} /\ \E pc \in EndPcs : Goto(s, pc)
  BY DEF SweepDelete, SweepProfile, SweepFlags, SweepArchive, EndCleanup, EndPcs
<1>4. call[s].trip \notin IdsOf(rows')
  BY <1>2, <1>3, GoneByThen DEF IdsOf
<1>5. QED
  BY <1>1, <1>2, <1>3, <1>4, EndTurn

-----------------------------------------------------------------------------
(* Reports.                                                                *)

(* trip_ended is broadcast of a trip that is gone. *)
LEMMA GoneIsAnnounced ==
    ASSUME LifeRest, AnnouncedAreOver, GoneStays, NEW t \in Trips, Gone(t), Announce(t)
    PROVE  AnnouncedAreOver' /\ ended' \in [Trips -> 0 .. MaxBroadcasts]
<1>1. \A u \in Trips : ended'[u] = IF u = t THEN ended[t] + 1 ELSE ended[u]
  BY DEF Announce, LifeRest
<1>2. AnnouncedAreOver'
  BY <1>1 DEF AnnouncedAreOver, GoneStays, Gone
<1>3. ended' \in [Trips -> 0 .. MaxBroadcasts]
  BY DEF Announce, LifeRest, MaxBroadcasts
<1>4. QED
  BY <1>2, <1>3

LEMMA EndAnnounceKeeps ==
    ASSUME LifeInv, NEW s \in Sessions, EndAnnounce(s)
    PROVE  LifeInv' /\ GoneStays
<1>1. TypeOK /\ call \in Calls /\ Tables /\ CallsAreOver /\ LifeRest
  BY LifeTypeParts DEF LifeInv
<1>2. /\ UNCHANGED <<vars, reaped, begun>> /\ Become(s, Ready)
      /\ Announce(call[s].trip) /\ AcquireFcmLock(call[s].trip, "end")
      /\ call[s].pc \in EndPcs \ {"endRpc"}
  BY DEF EndAnnounce, EndPcs
<1>3. Tables' /\ GoneStays
  BY <1>1, <1>2, TablesStay
<1>4. TypeOK'
  BY <1>1, <1>2, StepsTyped
<1>5. call[s].trip \in Trips /\ Gone(call[s].trip)
  <2>1. call[s] \in End
    BY <1>1, <1>2, CallByPc DEF Calls
  <2>2. QED
    BY <1>1, <1>2, <2>1 DEF End, CallsAreOver
<1>6. AnnouncedAreOver' /\ ended' \in [Trips -> 0 .. MaxBroadcasts]
  BY <1>1, <1>2, <1>3, <1>5, GoneIsAnnounced DEF LifeInv
<1>7. LifeRest'
  BY <1>1, <1>2, <1>5, <1>6, LockMarks DEF LifeRest
<1>8. call' \in Calls /\ CallsAreOver'
  BY <1>1, <1>2, <1>3, CallEnds
<1>9. ReapedAreOver'
  BY <1>2, <1>3 DEF LifeInv, ReapedAreOver, GoneStays, Gone
<1>10. QED
  BY <1>3, <1>4, <1>6, <1>7, <1>8, <1>9 DEF LifeInv, LifeTypeOK, LifeRest, Calls

(* The cron job removes the rows it is going to report. *)
LEMMA ReapKeeps ==
    ASSUME LifeInv, Reap
    PROVE  LifeInv' /\ GoneStays
<1>1. TypeOK /\ call \in Calls /\ Tables /\ CallsAreOver /\ LifeRest
  BY LifeTypeParts DEF LifeInv
<1>2. /\ rows' = rows \ SilentRows /\ reaped' = reaped \cup OpenTripsOf(SilentRows)
      /\ SilentRows \subseteq rows
      /\ UNCHANGED <<tx, issued, call, ended, pushed, begun>>
  BY DEF Reap, CleanupStaleLocks, SilentRows
<1>3. Tables' /\ GoneStays
  BY <1>1, <1>2, SomeRowsGo
<1>4. TypeOK'
  BY <1>1, StepsTyped DEF Reap, Next
<1>5. call' \in Calls /\ CallsAreOver'
  BY <1>1, <1>2, <1>3, CallsStay
<1>6. OpenTripsOf(SilentRows) \subseteq OpenTripsOf(Row)
  BY <1>1, <1>2 DEF OpenTripsOf, TypeOK
<1>7. LifeRest'
  BY <1>1, <1>2, <1>6 DEF LifeRest
<1>8. ASSUME NEW x \in OpenTripsOf(SilentRows)
      PROVE  Gone(x.trip)'
  <2>1. PICK r \in SilentRows : x.trip = r.trip
    BY DEF OpenTripsOf
  <2>2. r.trip \in IdsOf(begun)
    BY <1>1, <1>2 DEF Tables, RowsBegan, IdsOf
  <2>3. r.trip \notin IdsOf(rows')
    BY <1>1, <1>2 DEF Tables, KeyPerTrip, IdsOf
  <2>4. QED
    BY <1>2, <2>1, <2>2, <2>3 DEF Gone
<1>9. ReapedAreOver' /\ AnnouncedAreOver'
  BY <1>2, <1>3, <1>8 DEF LifeInv, ReapedAreOver, AnnouncedAreOver, GoneStays, Gone
<1>10. QED
  BY <1>3, <1>4, <1>5, <1>7, <1>9 DEF LifeInv, LifeTypeOK, LifeRest, Calls

LEMMA ReportReapedKeeps ==
    ASSUME LifeInv, NEW x \in reaped, ReportReaped(x)
    PROVE  LifeInv' /\ GoneStays
<1>1. TypeOK /\ call \in Calls /\ Tables /\ CallsAreOver /\ LifeRest
  BY LifeTypeParts DEF LifeInv
<1>2. /\ UNCHANGED <<rows, history, profile, tx, issued, call, pushed, begun>>
      /\ Announce(x.trip) /\ reaped' = reaped \ {x}
      /\ flags' \in {flags, {f \in flags : f.bus # x.bus}}
  BY DEF ReportReaped
<1>3. Tables' /\ GoneStays
  BY <1>1, <1>2, SomeRowsGo
<1>4. TypeOK'
  BY <1>1, <1>2 DEF TypeOK
<1>5. call' \in Calls /\ CallsAreOver'
  BY <1>1, <1>2, <1>3, CallsStay
<1>6. x.trip \in Trips /\ Gone(x.trip)
  BY <1>1, TripOfBegun DEF LifeRest, LifeInv, ReapedAreOver
<1>7. AnnouncedAreOver' /\ ended' \in [Trips -> 0 .. MaxBroadcasts]
  BY <1>1, <1>2, <1>3, <1>6, GoneIsAnnounced DEF LifeInv
<1>8. LifeRest'
  BY <1>1, <1>2, <1>7 DEF LifeRest
<1>9. ReapedAreOver'
  BY <1>2, <1>3 DEF LifeInv, ReapedAreOver, GoneStays, Gone
<1>10. QED
  BY <1>3, <1>4, <1>5, <1>7, <1>8, <1>9 DEF LifeInv, LifeTypeOK, LifeRest, Calls

LEMMA QuietCronKeeps ==
    ASSUME LifeInv, CronDies \/ Background
    PROVE  LifeInv' /\ GoneStays
<1>1. TypeOK /\ call \in Calls /\ Tables /\ CallsAreOver /\ LifeRest
  BY LifeTypeParts DEF LifeInv
<1>2. reaped' \subseteq reaped /\ UNCHANGED <<call, ended, pushed, begun>>
  BY DEF CronDies, Background
<1>3. TypeOK' /\ Tables' /\ GoneStays
  <2>1. CASE CronDies
    BY <1>1, <2>1, StepsTyped, TablesStay DEF CronDies
  <2>2. CASE \/ \E b \in Buses, d \in Drivers : LocationHeartbeat(b, d)
             \/ \E r \in rows : GrowOld(r)
    BY <1>1, <1>2, <2>2, StepsTyped, AgesChange DEF Next
  <2>3. CASE \/ \E u \in Students, b \in Buses, t \in Trips : InsertFlag(u, b, t)
             \/ \E f \in flags : CloseFlag(f)
    <3>1. UNCHANGED <<rows, tx, issued>>
      BY <2>3 DEF InsertFlag, CloseFlag
    <3>2. TypeOK'
      BY <1>1, <2>3, StepsTyped DEF Next
    <3>3. QED
      BY <1>1, <1>2, <3>1, <3>2, SomeRowsGo
  <2>4. QED
    BY <2>1, <2>2, <2>3 DEF Background
<1>4. call' \in Calls /\ CallsAreOver'
  BY <1>1, <1>2, <1>3, CallsStay
<1>5. LifeRest'
  BY <1>1, <1>2 DEF LifeRest
<1>6. QED
  BY <1>2, <1>3, <1>4, <1>5, Assembled

-----------------------------------------------------------------------------
(* The behaviours.                                                         *)

LEMMA LifeBegins == ASSUME LifeInit PROVE LifeInv
<1>1. TypeOK
  BY DEF LifeInit, Init, TypeOK, TxState
<1>2. LifeTypeOK
  BY <1>1 DEF LifeInit, LifeTypeOK, MaxBroadcasts
<1>3. \A s \in Sessions : call[s].pc \notin EndPcs
  BY DEF LifeInit, Ready, EndPcs
<1>4. QED
  BY <1>2, <1>3 DEF LifeInit, Init, LifeInv, Tables, KeyPerTrip, RowsBegan, PendingIsNew,
                    CallsAreOver, ReapedAreOver, AnnouncedAreOver, IdsOf

LEMMA LifeGoesOn ==
    ASSUME LifeInv, [LifeNext]_lifeVars
    PROVE  LifeInv' /\ GoneStays
<1>1. ASSUME NEW s \in Sessions, StartStep(s) \/ EndStep(s) \/ Crash(s)
      PROVE  LifeInv' /\ GoneStays
  <2>1. CASE StartStep(s) \/ Crash(s)
    BY <2>1, StartReadsKeep, StartTransactionKeeps, StartAnnounceKeeps DEF StartStep
  <2>2. CASE EndStep(s)
    BY <2>2, EndRequestKeeps, EndRpcKeeps, EndPassesKeep, SweepReadKeeps, SweepKeeps,
       EndAnnounceKeeps DEF EndStep
  <2>3. QED
    BY <1>1, <2>1, <2>2
<1>2. CASE CronStep
  BY <1>2, ReapKeeps, ReportReapedKeeps, QuietCronKeeps DEF CronStep
<1>3. CASE UNCHANGED lifeVars
  <2>1. UNCHANGED <<vars, begun, call, reaped, ended, pushed>>
    BY <1>3 DEF lifeVars
  <2>2. TypeOK /\ call \in Calls /\ Tables /\ CallsAreOver /\ LifeRest
    BY LifeTypeParts DEF LifeInv
  <2>3. TypeOK' /\ Tables' /\ GoneStays
    BY <2>1, <2>2, StepsTyped, TablesStay
  <2>4. call' \in Calls /\ CallsAreOver' /\ LifeRest'
    BY <2>1, <2>2, <2>3, CallsStay DEF LifeRest
  <2>5. QED
    BY <2>1, <2>3, <2>4, Assembled
<1>4. QED
  BY <1>1, <1>2, <1>3, QuietCronKeeps, CommitKeeps, EndRequestKeeps DEF LifeNext, OrdinaryStep

LEMMA LifeInductive == LifeSpec => []LifeInv
<1>1. LifeInit => LifeInv
  BY LifeBegins
<1>2. LifeInv /\ [LifeNext]_lifeVars => LifeInv'
  BY LifeGoesOn
<1>3. QED
  BY <1>1, <1>2, PTL DEF LifeSpec

(* The requests, the transactions and the tables stay within their types. *)
THEOREM LifeTyped == LifeSpec => []LifeTypeOK
<1>1. LifeInv => LifeTypeOK
  BY DEF LifeInv
<1>2. QED
  BY <1>1, LifeInductive, PTL

(* Whoever ends a trip, by whichever of the three ways, and whoever else   *)
(* is ending it: trip_ended is broadcast only when it is off the road.     *)
THEOREM AnnouncedTripsAreOver == LifeSpec => []AnnouncedEndIsOver
<1>1. LifeInv => AnnouncedEndIsOver
  BY DEF LifeInv, AnnouncedAreOver, AnnouncedEndIsOver, Gone
<1>2. QED
  BY <1>1, LifeInductive, PTL

(* A trip that has left active_trips never comes back to it, whatever was  *)
(* still in flight when it left.                                           *)
THEOREM TripsStayOver == LifeSpec => NoResurrection
<1>1. LifeInv /\ [LifeNext]_lifeVars =>
        [\A x \in begun : x.trip \notin IdsOf(rows) => x.trip \notin IdsOf(rows')]_lifeVars
  BY LifeGoesOn DEF GoneStays, IdsOf
<1>2. QED
  BY <1>1, LifeInductive, PTL DEF LifeSpec, NoResurrection

-----------------------------------------------------------------------------
(***************************************************************************)
(* The calm behaviours.  What makes them different: as long as a request   *)
(* to end a trip is served, no other trip comes to its bus, so whatever    *)
(* the request finds there is the trip it was sent for, and the clean-up   *)
(* by plain statements never starts.                                       *)
(***************************************************************************)
OneTripPerBus == \A r, q \in rows : r.bus = q.bus => r = q

BegunOnce == \A x, y \in begun : x.trip = y.trip => x = y

(* TripsAreAccounted, and nothing else is on the road or in history. *)
Accounted == begun = OpenTripsOf(rows) \cup OpenTripsOf(history)

SeenBegan == \A s \in Sessions : tx[s].pc = "locked" => OpenTripsOf(tx[s].seen) \subseteq begun

CalmEndPcs == {"endRpc", "endCheck", "cleanup", "announceEnd"}

TripOf(c) == [trip |-> c.trip, bus |-> c.bus, driver |-> c.driver]

EndsAim ==
    \A s \in Sessions : call[s].pc \in EndPcs =>
        /\ call[s].pc \in CalmEndPcs
        /\ \A r \in rows : r.bus = call[s].bus =>
              r.trip = call[s].trip /\ r.driver = call[s].driver

CalmTables == OneTripPerBus /\ BegunOnce /\ Accounted /\ SeenBegan

(* The request has removed its trip and is going to announce it. *)
Claims(s) == call[s].pc \in CalmEndPcs \ {"endRpc"} /\ ~ call[s].already

(* Who removed a trip is the only one to announce it. *)
SoleClaims ==
    /\ \A s \in Sessions : call[s].pc \in {"cleanup", "announceEnd"} => ~ call[s].already
    /\ \A s, z \in Sessions : Claims(s) /\ Claims(z) /\ call[s].trip = call[z].trip => s = z
    /\ \A s \in Sessions : Claims(s) =>
          ended[call[s].trip] = 0 /\ call[s].trip \notin IdsOf(reaped)
    /\ \A x \in reaped : x \in begun /\ ended[x.trip] = 0
    /\ AnnouncedOnce

CalmInv == LifeInv /\ CalmTables /\ EndsAim /\ SoleClaims

(* The archives. *)
LEMMA TripAmong ==
    ASSUME NEW r, NEW S, r \in S
    PROVE  /\ TripOf(r) \in OpenTripsOf(S) /\ TripOf(r).trip = r.trip
           /\ TripOf(r).bus = r.bus /\ TripOf(r).driver = r.driver
BY DEF TripOf, OpenTripsOf

LEMMA TripsOf ==
    ASSUME NEW S, NEW x \in OpenTripsOf(S)
    PROVE  \E r \in S : x = TripOf(r) /\ x.trip = r.trip /\ x.bus = r.bus /\ x.driver = r.driver
BY DEF TripOf, OpenTripsOf

LEMMA ArchiveAccounts ==
    ASSUME BegunOnce, NEW S, OpenTripsOf(history) \cup OpenTripsOf(S) \subseteq begun
    PROVE  OpenTripsOf(ArchiveStale(S)) = OpenTripsOf(history) \cup OpenTripsOf(S)
<1> DEFINE A(r) == [trip |-> r.trip, bus |-> r.bus, driver |-> r.driver,
                    reason |-> "completed_stale"]
           new == {r \in S : r.trip \notin IdsOf(history)}
<1>1. ArchiveStale(S) = history \cup {A(r) : r \in new}
  BY DEF ArchiveStale
<1>2. \A r : TripOf(A(r)) = TripOf(r)
  BY DEF TripOf
<1> HIDE DEF A
<1>3. ASSUME NEW r \in S
      PROVE  TripOf(r) \in OpenTripsOf(ArchiveStale(S))
  <2>1. CASE r.trip \notin IdsOf(history)
    BY <1>1, <1>2, <2>1, TripAmong
  <2>2. CASE r.trip \in IdsOf(history)
    <3>1. PICK h \in history : h.trip = r.trip
      BY <2>2 DEF IdsOf
    <3>2. TripOf(h) = TripOf(r)
      BY <3>1, TripAmong DEF BegunOnce
    <3>3. QED
      BY <1>1, <3>2, TripAmong
  <2>3. QED
    BY <2>1, <2>2
<1>4. OpenTripsOf(S) \subseteq OpenTripsOf(ArchiveStale(S))
  BY <1>3, TripsOf
<1>5. OpenTripsOf(history) \subseteq OpenTripsOf(ArchiveStale(S))
  BY <1>1 DEF OpenTripsOf
<1>6. OpenTripsOf(ArchiveStale(S)) \subseteq OpenTripsOf(history) \cup OpenTripsOf(S)
  BY <1>1, <1>2, TripsOf, TripAmong
<1>7. QED
  BY <1>4, <1>5, <1>6

LEMMA UpsertAccounts ==
    ASSUME BegunOnce, NEW r, NEW reason, OpenTripsOf(history) \subseteq begun, TripOf(r) \in begun
    PROVE  OpenTripsOf(Upserted(r, reason)) = OpenTripsOf(history) \cup {TripOf(r)}
<1> DEFINE a == [trip |-> r.trip, bus |-> r.bus, driver |-> r.driver, reason |-> reason]
<1>1. Upserted(r, reason) = {h \in history : h.trip # r.trip} \cup {a}
  BY DEF Upserted
<1>2. TripOf(a) = TripOf(r)
  BY DEF TripOf
<1> HIDE DEF a
<1>3. ASSUME NEW h \in history
      PROVE  TripOf(h) \in OpenTripsOf(Upserted(r, reason)) 
  <2>1. CASE h.trip = r.trip
    <3>1. TripOf(r).trip = r.trip
      BY DEF TripOf
    <3>2. TripOf(h) = TripOf(r)
      BY <2>1, <3>1, TripAmong DEF BegunOnce
    <3>3. QED
      BY <1>1, <1>2, <3>2, TripAmong
  <2>2. CASE h.trip # r.trip
    BY <1>1, <2>2, TripAmong
  <2>3. QED
    BY <2>1, <2>2
<1>4. OpenTripsOf(history) \cup {TripOf(r)} \subseteq OpenTripsOf(Upserted(r, reason))
  BY <1>1, <1>2, <1>3, TripsOf, TripAmong
<1>5. OpenTripsOf(Upserted(r, reason)) \subseteq OpenTripsOf(history) \cup {TripOf(r)}
  BY <1>1, <1>2, TripsOf, TripAmong
<1>6. QED
  BY <1>4, <1>5

(* What leaves the tables, the aims and the claims as they are. *)
LEMMA TablesCalm ==
    ASSUME CalmTables, UNCHANGED <<rows, history, begun>>,
           \A s \in Sessions : tx'[s].pc = "locked" =>
              tx'[s] = tx[s] \/ tx'[s].seen \subseteq rows
    PROVE  CalmTables'
<1>1. SeenBegan'
  BY DEF CalmTables, SeenBegan, Accounted, OpenTripsOf
<1>2. QED
  BY <1>1 DEF CalmTables, OneTripPerBus, BegunOnce, Accounted, OpenTripsOf

(* The request of z goes on with ending the same trip. *)
GoesOn(z) ==
    /\ call[z].pc \in EndPcs /\ call'[z].pc \in CalmEndPcs
    /\ call'[z].trip = call[z].trip /\ call'[z].bus = call[z].bus
    /\ call'[z].driver = call[z].driver

LEMMA AimsStay ==
    ASSUME EndsAim, OpenTripsOf(rows') \subseteq OpenTripsOf(rows),
           \A z \in Sessions : call'[z] = call[z] \/ call'[z].pc \notin EndPcs \/ GoesOn(z)
    PROVE  EndsAim'
<1>1. ASSUME NEW r \in rows'
      PROVE  \E q \in rows : q.trip = r.trip /\ q.bus = r.bus /\ q.driver = r.driver
  BY TripAmong, TripsOf
<1>2. ASSUME NEW z \in Sessions, call'[z].pc \in EndPcs
      PROVE  /\ call'[z].pc \in CalmEndPcs
             /\ \A r \in rows : r.bus = call'[z].bus =>
                   r.trip = call'[z].trip /\ r.driver = call'[z].driver
  BY <1>2 DEF EndsAim, GoesOn
<1>3. \A z \in Sessions : call'[z].pc \in EndPcs =>
        \A r \in rows' : r.bus = call'[z].bus =>
           r.trip = call'[z].trip /\ r.driver = call'[z].driver
  BY <1>1, <1>2
<1>4. QED
  BY <1>2, <1>3 DEF EndsAim

LEMMA ClaimsStay ==
    ASSUME SoleClaims, reaped' \subseteq reaped, ended' = ended, begun \subseteq begun',
           \A z \in Sessions :
              \/ call'[z] = call[z] \/ call'[z].pc \notin CalmEndPcs \ {"endRpc"}
              \/ call'[z].pc = "endCheck" /\ call'[z].already
              \/ GoesOn(z) /\ Claims(z) /\ ~ call'[z].already
    PROVE  SoleClaims'
<1>1. \A z \in Sessions : Claims(z)' => Claims(z) /\ call'[z].trip = call[z].trip
  BY DEF Claims, GoesOn
<1>2. \A z \in Sessions : call'[z].pc \in {"cleanup", "announceEnd"} => ~ call'[z].already
  BY DEF SoleClaims, CalmEndPcs
<1>3. \A s, z \in Sessions :
        Claims(s)' /\ Claims(z)' /\ call'[s].trip = call'[z].trip => s = z
  BY <1>1 DEF SoleClaims
<1>4. \A s \in Sessions : Claims(s)' =>
        ended'[call'[s].trip] = 0 /\ call'[s].trip \notin IdsOf(reaped')
  BY <1>1 DEF SoleClaims, IdsOf
<1>5. (\A x \in reaped' : x \in begun' /\ ended'[x.trip] = 0) /\ AnnouncedOnce'
  BY DEF SoleClaims, AnnouncedOnce
<1>6. QED
  BY <1>2, <1>3, <1>4, <1>5 DEF SoleClaims, IdsOf

(* Trips leave the road for history. *)
LEMMA TripsLeave ==
    ASSUME CalmTables, NEW S \in SUBSET rows, rows' = rows \ S,
           OpenTripsOf(history') = OpenTripsOf(history) \cup OpenTripsOf(S),
           UNCHANGED <<begun, tx>>
    PROVE  CalmTables' /\ OpenTripsOf(rows') \subseteq OpenTripsOf(rows)
<1>1. OpenTripsOf(rows) = OpenTripsOf(rows') \cup OpenTripsOf(S)
  BY DEF OpenTripsOf
<1>2. Accounted'
  BY <1>1 DEF CalmTables, Accounted, OpenTripsOf
<1>3. QED
  BY <1>1, <1>2 DEF CalmTables, OneTripPerBus, BegunOnce, SeenBegan, OpenTripsOf

LEMMA AgesCalm ==
    ASSUME TypeOK, CalmTables,
           \/ \E b \in Buses, d \in Drivers : LocationHeartbeat(b, d)
           \/ \E r \in rows : GrowOld(r),
           begun' = begun
    PROVE  CalmTables' /\ OpenTripsOf(rows') \subseteq OpenTripsOf(rows)
<1>1. rows \subseteq Row
  BY DEF TypeOK
<1>2. ASSUME NEW S \in SUBSET rows, rows' = Refreshed(S)
      PROVE  OneTripPerBus' /\ OpenTripsOf(rows') = OpenTripsOf(rows)
  <2> DEFINE Heard(r) == [r EXCEPT !.hb = Fresh]
  <2>1. \A r \in rows : TripOf(Heard(r)) = TripOf(r) /\ Heard(r).bus = r.bus
    BY <1>1 DEF Row, TripOf
  <2>2. rows' = (rows \ S) \cup {Heard(r) : r \in S}
    BY <1>2 DEF Refreshed
  <2> HIDE DEF Heard
  <2>3. OneTripPerBus'
    BY <2>1, <2>2 DEF CalmTables, OneTripPerBus
  <2>4. \A r \in rows : TripOf(r) \in OpenTripsOf(rows')
    BY <2>1, <2>2, TripAmong
  <2>5. \A r \in rows' : TripOf(r) \in OpenTripsOf(rows)
    BY <2>1, <2>2, TripAmong
  <2>6. OpenTripsOf(rows) \subseteq OpenTripsOf(rows')
    BY <2>4, TripsOf
  <2>7. OpenTripsOf(rows') \subseteq OpenTripsOf(rows)
    BY <2>5, TripsOf
  <2>8. QED
    BY <2>3, <2>6, <2>7
<1>3. ASSUME NEW r \in rows, GrowOld(r)
      PROVE  OneTripPerBus' /\ OpenTripsOf(rows') = OpenTripsOf(rows)
  <2> DEFINE older == [r EXCEPT !.hb = @ + 1]
  <2>1. TripOf(older) = TripOf(r) /\ older.bus = r.bus
    BY <1>1 DEF Row, TripOf
  <2>2. rows' = (rows \ {r}) \cup {older}
    BY <1>3 DEF GrowOld
  <2> HIDE DEF older
  <2>3. OneTripPerBus'
    BY <2>1, <2>2 DEF CalmTables, OneTripPerBus
  <2>4. \A q \in rows : TripOf(q) \in OpenTripsOf(rows')
    BY <2>1, <2>2, TripAmong
  <2>5. \A q \in rows' : TripOf(q) \in OpenTripsOf(rows)
    BY <2>1, <2>2, TripAmong
  <2>6. OpenTripsOf(rows) \subseteq OpenTripsOf(rows')
    BY <2>4, TripsOf
  <2>7. OpenTripsOf(rows') \subseteq OpenTripsOf(rows)
    BY <2>5, TripsOf
  <2>8. QED
    BY <2>3, <2>6, <2>7
<1>4. OneTripPerBus' /\ OpenTripsOf(rows') = OpenTripsOf(rows)
  BY <1>2, <1>3 DEF LocationHeartbeat
<1>5. UNCHANGED <<history, tx>>
  BY DEF LocationHeartbeat, GrowOld
<1>6. Accounted' /\ BegunOnce' /\ SeenBegan'
  BY <1>4, <1>5 DEF CalmTables, Accounted, BegunOnce, SeenBegan, OpenTripsOf
<1>7. QED
  BY <1>4, <1>6 DEF CalmTables

(* Requests, one by one. *)
LEMMA CallAt ==
    ASSUME call \in Calls, NEW s \in Sessions, NEW c, Become(s, c)
    PROVE  call'[s] = c /\ \A z \in Sessions \ {s} : call'[z] = call[z]
BY DEF Calls, Become

LEMMA GoesOnTo ==
    ASSUME call \in Calls, NEW s \in Sessions, NEW pc \in CalmEndPcs,
           call[s].pc \in EndPcs, Goto(s, pc)
    PROVE  /\ GoesOn(s) /\ call'[s].pc = pc /\ call'[s].already = call[s].already
           /\ \A z \in Sessions \ {s} : call'[z] = call[z]
<1> DEFINE c == [call[s] EXCEPT !.pc = pc]
<1>1. call[s] \in End
  BY CallByPc DEF Calls
<1>2. /\ c.pc = pc /\ c.trip = call[s].trip /\ c.bus = call[s].bus
      /\ c.driver = call[s].driver /\ c.already = call[s].already
  BY <1>1 DEF End
<1>3. Become(s, c)
  BY DEF Goto
<1> HIDE DEF c
<1>4. QED
  BY <1>2, <1>3, CallAt DEF GoesOn

LEMMA StartsCalm ==
    ASSUME CalmInv, NEW s \in Sessions, StartStep(s) \/ Crash(s)
    PROVE  CalmTables' /\ EndsAim' /\ SoleClaims'
<1>1. TypeOK /\ call \in Calls /\ CalmTables /\ EndsAim /\ SoleClaims
  BY LifeTypeParts DEF CalmInv, LifeInv
<1>2. UNCHANGED <<rows, history, begun, reaped, ended>>
  BY DEF StartStep, Crash, StartRequest, StartAcquire, RequestStart, StartAlreadyActive,
         StartLockBus, LockBus, StartRefused, RefuseStart, StartAborted, AbortStart,
         StartAnnounce, vars
<1>3. \A z \in Sessions : tx'[z].pc = "locked" => tx'[z] = tx[z] \/ tx'[z].seen \subseteq rows
  <2>1. tx' = tx \/ \E x : /\ tx' = [tx EXCEPT ![s] = x]
                           /\ x.pc = "locked" => x.seen \subseteq rows
    <3>1. CASE StartLockBus(s)
      <4> DEFINE x == [pc |-> "locked", trip |-> tx[s].trip, bus |-> tx[s].bus,
                       driver |-> tx[s].driver,
                       seen |-> {r \in rows : r.bus = tx[s].bus /\ r.driver # tx[s].driver}]
      <4>1. tx' = [tx EXCEPT ![s] = x] /\ x.seen \subseteq rows
        BY <3>1 DEF StartLockBus, LockBus
      <4> HIDE DEF x
      <4>2. QED
        BY <4>1
    <3>2. CASE \E t \in Trips : StartAcquire(s, t)
      <4>1. PICK t \in Trips : StartAcquire(s, t)
        BY <3>2
      <4> DEFINE x == [pc |-> "waiting", trip |-> t, bus |-> call[s].bus,
                       driver |-> call[s].driver]
      <4>2. tx' = [tx EXCEPT ![s] = x] /\ x.pc = "waiting"
        BY <4>1 DEF StartAcquire, RequestStart
      <4> HIDE DEF x
      <4>3. QED
        BY <4>2
    <3>3. CASE StartRefused(s) \/ StartAborted(s)
      <4>1. tx' = [tx EXCEPT ![s] = Idle] /\ Idle.pc = "idle"
        BY <3>3 DEF StartRefused, RefuseStart, StartAborted, AbortStart, Idle
      <4>2. QED
        BY <4>1
    <3>4. QED
      BY <3>1, <3>2, <3>3 DEF StartStep, Crash, StartRequest, StartAlreadyActive,
                              StartAnnounce, vars
  <2>2. QED
    BY <1>1, <2>1 DEF TypeOK
<1>4. \A z \in Sessions : call'[z] = call[z] \/ call'[z].pc \notin EndPcs
  <2>1. CASE \E t \in Trips : StartAcquire(s, t)
    <3>1. call[s].pc = "start" /\ Become(s, [call[s] EXCEPT !.pc = "acquire"])
      BY <2>1 DEF StartAcquire, Goto
    <3>2. [call[s] EXCEPT !.pc = "acquire"].pc = "acquire"
      BY <1>1, <3>1, CallByPc DEF Calls, Start
    <3>3. QED
      BY <1>1, <3>1, <3>2, CallAt DEF EndPcs
  <2>2. CASE call' = call
    BY <2>2
  <2>3. CASE Become(s, Ready)
    BY <1>1, <2>3, CallAt DEF Ready, EndPcs
  <2>4. CASE \E b \in Buses, d \in Drivers : StartRequest(s, b, d)
    <3>1. PICK b \in Buses, d \in Drivers : Become(s, [pc |-> "start", bus |-> b, driver |-> d])
      BY <2>4 DEF StartRequest
    <3>2. QED
      BY <1>1, <3>1, CallAt DEF EndPcs
  <2>5. QED
    BY <2>1, <2>2, <2>3, <2>4 DEF StartStep, Crash, StartAlreadyActive, StartLockBus,
       StartRefused, StartAborted, StartAnnounce
<1>5. CalmTables' /\ EndsAim'
  BY <1>1, <1>2, <1>3, <1>4, TablesCalm, AimsStay
<1>6. SoleClaims'
  BY <1>1, <1>2, <1>4, ClaimsStay DEF CalmEndPcs, EndPcs
<1>7. QED
  BY <1>5, <1>6

(* A start is committed: on a bus that nobody is ending a trip on. *)
LEMMA CommitCalm ==
    ASSUME CalmInv, NEW s \in Sessions, ~ EndUnderWay(tx[s].bus), StartCommit(s)
    PROVE  CalmTables' /\ EndsAim' /\ SoleClaims'
<1> DEFINE t == tx[s].trip
           new == [trip |-> t, bus |-> tx[s].bus, driver |-> tx[s].driver, hb |-> Fresh]
           seen == tx[s].seen
           handed == {r \in rows : r.trip \in IdsOf(seen)}
           stale == {r \in rows \ handed : r.driver = tx[s].driver /\ r.hb >= Stale}
<1>1. /\ TypeOK /\ call \in Calls /\ Tables
      /\ CalmTables /\ EndsAim /\ SoleClaims
  BY LifeTypeParts DEF CalmInv, LifeInv
<1>2. /\ tx[s].pc = "locked" /\ tx' = [tx EXCEPT ![s] = Idle]
      /\ history' = ArchiveStale(seen \cup stale) /\ UNCHANGED <<reaped, ended>>
      /\ \/ rows' = Kept(s)
         \/ rows' = Kept(s) \cup {new} /\ \A r \in Kept(s) : r.bus # tx[s].bus
      /\ \/ t \in IdsOf(rows') /\ begun' = begun \cup {TripOf(new)}
         \/ t \notin IdsOf(rows') /\ begun' = begun
      /\ \E c : Become(s, c) /\ c.pc \notin EndPcs
  BY DEF StartCommit, CommitStart, Kept, UniqueViolation, TripOf, Ready, EndPcs
<1>3. Kept(s) = rows \ (handed \cup stale) /\ stale \subseteq rows
  BY DEF Kept
<1>4. t \notin IdsOf(begun) /\ t \notin IdsOf(rows)
  BY <1>1, <1>2 DEF Idle, Tables, PendingIsNew, RowsBegan
<1>5. new.trip = t /\ new.bus = tx[s].bus /\ TripOf(new).trip = t
  BY DEF TripOf
<1>6. OpenTripsOf(seen) \subseteq begun
  BY <1>1, <1>2 DEF CalmTables, SeenBegan
<1> HIDE DEF t, new, seen, handed, stale
<1>7. OpenTripsOf(handed) \subseteq OpenTripsOf(seen)
  <2>1. ASSUME NEW r \in handed
        PROVE  TripOf(r) \in OpenTripsOf(seen)
    <3>1. r \in rows /\ \E q \in seen : q.trip = r.trip
      BY DEF handed, IdsOf
    <3>2. PICK q \in seen : q.trip = r.trip
      BY <3>1
    <3>3. TripOf(q) \in begun /\ TripOf(r) \in begun /\ TripOf(q).trip = TripOf(r).trip
      BY <1>1, <1>6, <3>1, <3>2, TripAmong DEF CalmTables, Accounted
    <3>4. QED
      BY <1>1, <3>2, <3>3, TripAmong DEF CalmTables, BegunOnce
  <2>2. QED
    BY <2>1, TripsOf
<1>8. OpenTripsOf(history') = OpenTripsOf(history) \cup OpenTripsOf(seen) \cup OpenTripsOf(stale)
  <2>1. OpenTripsOf(seen \cup stale) = OpenTripsOf(seen) \cup OpenTripsOf(stale)
    BY DEF OpenTripsOf
  <2>2. OpenTripsOf(history) \subseteq begun /\ OpenTripsOf(stale) \subseteq begun
    BY <1>1, <1>3 DEF CalmTables, Accounted, OpenTripsOf
  <2>3. QED
    BY <1>1, <1>2, <1>6, <2>1, <2>2, ArchiveAccounts DEF CalmTables
<1>9. OpenTripsOf(rows) \subseteq
        OpenTripsOf(Kept(s)) \cup OpenTripsOf(handed) \cup OpenTripsOf(stale)
  BY <1>3 DEF OpenTripsOf
<1>10. OpenTripsOf(Kept(s)) \subseteq OpenTripsOf(rows) /\ IdsOf(Kept(s)) \subseteq IdsOf(rows)
  BY <1>3 DEF OpenTripsOf, IdsOf
<1>11. \/ rows' = Kept(s) /\ begun' = begun
       \/ /\ rows' = Kept(s) \cup {new} /\ begun' = begun \cup {TripOf(new)}
          /\ \A r \in Kept(s) : r.bus # tx[s].bus
  BY <1>2, <1>4, <1>5, <1>10 DEF IdsOf
<1>12. Accounted'
  <2>1. OpenTripsOf(Kept(s) \cup {new}) = OpenTripsOf(Kept(s)) \cup {TripOf(new)}
    BY DEF OpenTripsOf, TripOf
  <2>2. begun = OpenTripsOf(Kept(s)) \cup OpenTripsOf(history')
    BY <1>1, <1>3, <1>6, <1>7, <1>8, <1>9, <1>10 DEF CalmTables, Accounted, OpenTripsOf
  <2>3. QED
    BY <1>11, <2>1, <2>2 DEF Accounted, OpenTripsOf
<1>13. OneTripPerBus' /\ BegunOnce'
  <2>1. OneTripPerBus'
    BY <1>1, <1>3, <1>5, <1>11 DEF CalmTables, OneTripPerBus
  <2>2. BegunOnce'
    BY <1>1, <1>4, <1>5, <1>11 DEF CalmTables, BegunOnce, IdsOf
  <2>3. QED
    BY <2>1, <2>2
<1>14. begun \subseteq begun'
  BY <1>11
<1>15. SeenBegan'
  <2>1. \A z \in Sessions : tx'[z].pc = "locked" => tx'[z] = tx[z]
    BY <1>1, <1>2 DEF TypeOK, Idle
  <2>2. QED
    BY <1>1, <1>14, <2>1 DEF CalmTables, SeenBegan, OpenTripsOf
<1>16. \A z \in Sessions : call'[z] = call[z] \/ call'[z].pc \notin EndPcs
  BY <1>1, <1>2, CallAt
<1>17. EndsAim'
  <2>1. ASSUME NEW z \in Sessions, call'[z].pc \in EndPcs
        PROVE  /\ call'[z].pc \in CalmEndPcs
               /\ \A r \in rows' : r.bus = call'[z].bus =>
                     r.trip = call'[z].trip /\ r.driver = call'[z].driver
    <3>1. call'[z] = call[z] /\ call[z].pc \in EndPcs /\ call[z].bus # tx[s].bus
      BY <1>16, <2>1 DEF EndUnderWay
    <3>2. QED
      BY <1>1, <1>3, <1>5, <1>11, <3>1 DEF EndsAim
  <2>2. QED
    BY <2>1 DEF EndsAim
<1>18. SoleClaims'
  BY <1>1, <1>2, <1>14, <1>16, ClaimsStay DEF CalmEndPcs, EndPcs
<1>19. QED
  BY <1>12, <1>13, <1>15, <1>17, <1>18 DEF CalmTables

LEMMA EndRequestCalm ==
    ASSUME CalmInv, NEW s \in Sessions, NEW t \in IdsOf(begun), NEW b \in Buses, NEW d \in Drivers,
           EndRequest(s, t, b, d)
    PROVE  CalmTables' /\ EndsAim' /\ SoleClaims'
<1> DEFINE c == EndCall(t, b, d)
<1>1. call \in Calls /\ CalmTables /\ EndsAim /\ SoleClaims
  BY LifeTypeParts DEF CalmInv, LifeInv
<1>2. /\ Become(s, c) /\ UNCHANGED <<vars, reaped, ended, begun>>
      /\ \A r \in rows : r.bus = b => r.driver = d /\ r.trip = t
  BY DEF EndRequest
<1>3. c.pc = "endRpc" /\ c.trip = t /\ c.bus = b /\ c.driver = d
  BY DEF EndCall
<1> HIDE DEF c
<1>4. CalmTables'
  BY <1>1, <1>2, TablesCalm DEF vars
<1>5. \A z \in Sessions : call'[z] = IF z = s THEN c ELSE call[z]
  BY <1>1, <1>2, CallAt
<1>6. EndsAim'
  <2>1. ASSUME NEW z \in Sessions, call'[z].pc \in EndPcs
        PROVE  /\ call'[z].pc \in CalmEndPcs
               /\ \A r \in rows : r.bus = call'[z].bus =>
                     r.trip = call'[z].trip /\ r.driver = call'[z].driver
    <3>1. CASE z = s
      BY <1>2, <1>3, <1>5, <3>1 DEF CalmEndPcs
    <3>2. CASE z # s
      BY <1>1, <1>5, <2>1, <3>2 DEF EndsAim
    <3>3. QED
      BY <3>1, <3>2
  <2>2. rows' = rows
    BY <1>2 DEF vars
  <2>3. QED
    BY <2>1, <2>2 DEF EndsAim
<1>7. SoleClaims'
  BY <1>1, <1>2, <1>3, <1>5, ClaimsStay DEF CalmEndPcs
<1>8. QED
  BY <1>4, <1>6, <1>7

(* end_trip_atomically finds the trip it was called for, or none; on the   *)
(* bus it was called for, it is the caller's.                              *)
LEMMA OwnTrip ==
    ASSUME CalmInv, NEW s \in Sessions, call[s].pc \in EndPcs,
           NEW r \in EndCandidates(call[s].trip, call[s].bus)
    PROVE  /\ r \in rows /\ r.trip = call[s].trip
           /\ r.bus = call[s].bus => r.driver = call[s].driver
BY DEF CalmInv, EndsAim, EndCandidates

LEMMA EndRpcCalm ==
    ASSUME CalmInv, NEW s \in Sessions, EndRpc(s)
    PROVE  CalmTables' /\ EndsAim' /\ SoleClaims'
<1> DEFINE t == call[s].trip
           b == call[s].bus
<1>1. /\ call \in Calls /\ CalmTables /\ EndsAim /\ SoleClaims
      /\ CallsAreOver /\ ReapedAreOver /\ AnnouncedAreOver /\ LifeRest
  BY LifeTypeParts DEF CalmInv, LifeInv
<1>2. call[s].pc = "endRpc" /\ call[s].pc \in EndPcs /\ UNCHANGED <<reaped, ended, begun>>
  BY DEF EndRpc, EndPcs
<1>3. call[s] \in End
  BY <1>1, <1>2, CallByPc DEF Calls
<1>4. CASE EndRpcDone(s)
  <2>1. PICK reason \in {"completed", "short_trip"} : EndTripAtomically(t, b, reason)
    BY <1>4 DEF EndRpcDone
  <2>2. PICK r \in EndCandidates(t, b) :
          rows' = rows \ {r} /\ history' = Upserted(r, reason) /\ UNCHANGED tx
    BY <2>1 DEF EndTripAtomically
  <2>3. r \in rows /\ r.trip = t
    BY <1>2, OwnTrip
  <2>4. TripOf(r) \in begun /\ OpenTripsOf(history) \subseteq begun
    BY <1>1, <2>3, TripAmong DEF CalmTables, Accounted
  <2>5. OpenTripsOf(history') = OpenTripsOf(history) \cup OpenTripsOf({r})
    BY <1>1, <2>2, <2>4, UpsertAccounts DEF CalmTables, OpenTripsOf, TripOf
  <2>6. CalmTables' /\ OpenTripsOf(rows') \subseteq OpenTripsOf(rows)
    BY <1>1, <1>2, <2>2, <2>3, <2>5, TripsLeave
  <2>7. /\ GoesOn(s) /\ call'[s].pc = "endCheck" /\ call'[s].already = call[s].already
        /\ \A z \in Sessions \ {s} : call'[z] = call[z]
    BY <1>1, <1>2, <1>4, GoesOnTo DEF EndRpcDone, CalmEndPcs
  <2>8. EndsAim'
    BY <1>1, <1>2, <2>6, <2>7, AimsStay
  <2>9. t \in IdsOf(rows) /\ call'[s].trip = t /\ t \in Trips
    BY <1>3, <2>3, <2>7 DEF IdsOf, GoesOn, End
  <2>10. ended[t] = 0 /\ t \notin IdsOf(reaped)
    <3>1. ended[t] \in Nat /\ ~ ended[t] > 0
      BY <1>1, <2>9 DEF AnnouncedAreOver, Gone, LifeRest, MaxBroadcasts
    <3>2. t \notin IdsOf(reaped)
      BY <1>1, <2>9 DEF ReapedAreOver, Gone, IdsOf
    <3>3. QED
      BY <3>1, <3>2
  <2>11. \A z \in Sessions : Claims(z) => call[z].trip # t
    BY <1>1, <2>9 DEF Claims, CallsAreOver, Gone, CalmEndPcs, EndPcs
  <2>12. \A z \in Sessions : Claims(z)' =>
            z = s \/ (Claims(z) /\ call'[z].trip = call[z].trip /\ call'[z].trip # t)
    BY <2>7, <2>11 DEF Claims
  <2>13. \A z, y \in Sessions :
            Claims(z)' /\ Claims(y)' /\ call'[z].trip = call'[y].trip => z = y
    BY <1>1, <2>9, <2>12 DEF SoleClaims
  <2>14. \A z \in Sessions : Claims(z)' =>
            ended'[call'[z].trip] = 0 /\ call'[z].trip \notin IdsOf(reaped')
    BY <1>1, <1>2, <2>9, <2>10, <2>12 DEF SoleClaims
  <2>15. \A z \in Sessions : call'[z].pc \in {"cleanup", "announceEnd"} => ~ call'[z].already
    BY <1>1, <2>7 DEF SoleClaims
  <2>16. (\A x \in reaped' : x \in begun' /\ ended'[x.trip] = 0) /\ AnnouncedOnce'
    BY <1>1, <1>2 DEF SoleClaims, AnnouncedOnce
  <2>17. SoleClaims'
    BY <2>13, <2>14, <2>15, <2>16 DEF SoleClaims, IdsOf
  <2>18. QED
    BY <2>6, <2>8, <2>17
<1>5. CASE /\ Become(s, [call[s] EXCEPT !.pc = "endCheck", !.already = TRUE])
           /\ UNCHANGED vars
  <2> DEFINE c == [call[s] EXCEPT !.pc = "endCheck", !.already = TRUE]
  <2>1. /\ c.pc = "endCheck" /\ c.already /\ c.trip = t /\ c.bus = b
        /\ c.driver = call[s].driver
    BY <1>3 DEF End
  <2>2. Become(s, c)
    BY <1>5
  <2> HIDE DEF c
  <2>3. call'[s] = c /\ \A z \in Sessions \ {s} : call'[z] = call[z]
    BY <1>1, <2>2, CallAt
  <2>4. GoesOn(s)
    BY <1>2, <2>1, <2>3 DEF GoesOn, CalmEndPcs
  <2>5. CalmTables'
    BY <1>1, <1>2, <1>5, TablesCalm DEF vars
  <2>6. EndsAim'
    BY <1>1, <1>2, <1>5, <2>3, <2>4, AimsStay DEF vars
  <2>7. SoleClaims'
    BY <1>1, <1>2, <2>1, <2>3, ClaimsStay
  <2>8. QED
    BY <2>5, <2>6, <2>7
<1>6. QED
  BY <1>4, <1>5 DEF EndRpc

(* Nothing lingers on the bus, so the clean-up by statements never starts. *)
LEMMA NoSweep ==
    ASSUME CalmInv, NEW s \in Sessions
    PROVE  /\ ~ SweepRead(s) /\ ~ SweepDelete(s) /\ ~ SweepProfile(s)
           /\ ~ SweepFlags(s) /\ ~ SweepArchive(s)
           /\ call[s].pc = "endCheck" => Reached(call[s].trip, call[s].bus) = {}
<1>1. call[s].pc \in EndPcs => call[s].pc \in CalmEndPcs
  BY DEF CalmInv, EndsAim
<1>2. call[s].pc = "endCheck" => Reached(call[s].trip, call[s].bus) = {}
  <2>1. ASSUME call[s].pc = "endCheck", NEW r \in Reached(call[s].trip, call[s].bus)
        PROVE  FALSE
    <3>1. r \in rows /\ r.trip = call[s].trip
      BY <2>1 DEF Reached, CalmInv, EndsAim, EndPcs
    <3>2. call[s].trip \notin IdsOf(rows)
      BY <2>1, GoneByThen DEF CalmInv, EndPcs
    <3>3. QED
      BY <3>1, <3>2 DEF IdsOf
  <2>2. QED
    BY <2>1
<1>3. QED
  BY <1>1, <1>2 DEF SweepRead, SweepDelete, SweepProfile, SweepFlags, SweepArchive,
                    EndPcs, CalmEndPcs

LEMMA EndPassesCalm ==
    ASSUME CalmInv, NEW s \in Sessions,
           EndCheck(s) \/ EndCheckUnread(s) \/ PassOver(s) \/ EndCleanup(s)
    PROVE  CalmTables' /\ EndsAim' /\ SoleClaims'
<1>1. call \in Calls /\ CalmTables /\ EndsAim /\ SoleClaims
  BY LifeTypeParts DEF CalmInv, LifeInv
<1>2. UNCHANGED <<rows, history, tx, reaped, ended, begun>>
  BY DEF EndCheck, EndCheckUnread, PassOver, EndCleanup, vars
<1>3. \/ Become(s, Ready)
      \/ \E pc \in {"cleanup", "announceEnd"} :
            Goto(s, pc) /\ call[s].pc \in CalmEndPcs \ {"endRpc"} /\ ~ call[s].already
  <2>1. CASE EndCheck(s) \/ EndCheckUnread(s)
    BY <2>1, NoSweep DEF EndCheck, EndCheckUnread, CalmEndPcs
  <2>2. CASE PassOver(s)
    <3>1. call[s].pc \in DOMAIN AfterStatement /\ Goto(s, AfterStatement[call[s].pc])
      BY <2>2 DEF PassOver
    <3>2. call[s].pc = "cleanup"
      BY <1>1, <3>1 DEF AfterStatement, EndsAim, EndPcs, CalmEndPcs
    <3>3. AfterStatement["cleanup"] = "announceEnd"
      BY DEF AfterStatement
    <3>4. Goto(s, "announceEnd")
      BY <3>1, <3>2, <3>3
    <3>5. QED
      BY <1>1, <3>2, <3>4 DEF SoleClaims, CalmEndPcs
  <2>3. CASE EndCleanup(s)
    BY <1>1, <2>3 DEF EndCleanup, SoleClaims, CalmEndPcs
  <2>4. QED
    BY <2>1, <2>2, <2>3
<1>4. CASE Become(s, Ready)
  <2>1. \A z \in Sessions : call'[z] = call[z] \/ call'[z].pc \notin EndPcs
    BY <1>1, <1>4, CallAt DEF Ready, EndPcs
  <2>2. QED
    BY <1>1, <1>2, <2>1, TablesCalm, AimsStay, ClaimsStay DEF EndPcs, CalmEndPcs
<1>5. ASSUME NEW pc \in {"cleanup", "announceEnd"}, Goto(s, pc),
             call[s].pc \in CalmEndPcs \ {"endRpc"}, ~ call[s].already
      PROVE  CalmTables' /\ EndsAim' /\ SoleClaims'
  <2>1. pc \in CalmEndPcs /\ call[s].pc \in EndPcs
    BY <1>5 DEF CalmEndPcs, EndPcs
  <2>2. /\ GoesOn(s) /\ call'[s].already = call[s].already
        /\ \A z \in Sessions \ {s} : call'[z] = call[z]
    BY <1>1, <1>5, <2>1, GoesOnTo
  <2>3. Claims(s)
    BY <1>5 DEF Claims
  <2>4. CalmTables' /\ EndsAim'
    BY <1>1, <1>2, <2>2, TablesCalm, AimsStay
  <2>5. SoleClaims'
    BY <1>1, <1>2, <1>5, <2>2, <2>3, ClaimsStay
  <2>6. QED
    BY <2>4, <2>5
<1>6. QED
  BY <1>3, <1>4, <1>5

(* One report of a trip: nobody else is going to make it. *)
LEMMA OneReport ==
    ASSUME CalmInv, NEW t \in Trips, ended[t] = 0, Announce(t)
    PROVE  AnnouncedOnce' /\ \A u \in Trips \ {t} : ended'[u] = ended[u]
<1>1. \A u \in Trips : ended'[u] = IF u = t THEN ended[t] + 1 ELSE ended[u]
  BY LifeTypeParts DEF CalmInv, LifeInv, LifeRest, Announce
<1>2. QED
  BY <1>1 DEF CalmInv, SoleClaims, AnnouncedOnce

LEMMA EndAnnounceCalm ==
    ASSUME CalmInv, NEW s \in Sessions, EndAnnounce(s)
    PROVE  CalmTables' /\ EndsAim' /\ SoleClaims'
<1> DEFINE t == call[s].trip
<1>1. call \in Calls /\ CalmTables /\ EndsAim /\ SoleClaims /\ LifeRest
  BY LifeTypeParts DEF CalmInv, LifeInv
<1>2. /\ UNCHANGED <<vars, reaped, begun>> /\ Become(s, Ready) /\ Announce(t)
      /\ call[s].pc = "announceEnd"
  BY DEF EndAnnounce
<1>3. Claims(s) /\ t \in Trips
  <2>1. call[s] \in End
    BY <1>1, <1>2, CallByPc DEF Calls, EndPcs
  <2>2. QED
    BY <1>1, <1>2, <2>1 DEF Claims, SoleClaims, CalmEndPcs, End
<1>4. ended[t] = 0 /\ t \notin IdsOf(reaped)
  BY <1>1, <1>3 DEF SoleClaims
<1>5. AnnouncedOnce' /\ \A u \in Trips \ {t} : ended'[u] = ended[u]
  BY <1>2, <1>3, <1>4, OneReport
<1>6. call'[s] = Ready /\ \A z \in Sessions \ {s} : call'[z] = call[z]
  BY <1>1, <1>2, CallAt
<1>7. CalmTables' /\ EndsAim'
  BY <1>1, <1>2, <1>6, TablesCalm, AimsStay DEF vars, Ready, EndPcs
<1>8. \A z \in Sessions : Claims(z)' =>
        z # s /\ Claims(z) /\ call'[z] = call[z] /\ call[z].trip \in Trips \ {t}
  <2>1. ASSUME NEW z \in Sessions, Claims(z)'
        PROVE  z # s /\ Claims(z) /\ call'[z] = call[z]
    BY <1>6, <2>1 DEF Claims, Ready, CalmEndPcs
  <2>2. ASSUME NEW z \in Sessions, Claims(z)
        PROVE  call[z].trip \in Trips
    <3>1. call[z] \in End
      BY <1>1, <2>2, CallByPc DEF Claims, Calls, CalmEndPcs, EndPcs
    <3>2. QED
      BY <3>1 DEF End
  <2>3. QED
    BY <1>1, <1>3, <2>1, <2>2 DEF SoleClaims
<1>9. \A x \in reaped : x.trip \in Trips \ {t}
  BY <1>1, <1>4, TripOfBegun DEF LifeRest, IdsOf
<1>10. \A z \in Sessions : call'[z].pc \in {"cleanup", "announceEnd"} => ~ call'[z].already
  BY <1>1, <1>6 DEF SoleClaims, Ready
<1>11. \A z, y \in Sessions :
         Claims(z)' /\ Claims(y)' /\ call'[z].trip = call'[y].trip => z = y
  BY <1>1, <1>8 DEF SoleClaims
<1>12. \A z \in Sessions : Claims(z)' =>
         ended'[call'[z].trip] = 0 /\ call'[z].trip \notin IdsOf(reaped')
  BY <1>1, <1>2, <1>5, <1>8 DEF SoleClaims
<1>13. \A x \in reaped' : x \in begun' /\ ended'[x.trip] = 0
  BY <1>1, <1>2, <1>5, <1>9 DEF SoleClaims
<1>14. SoleClaims'
  BY <1>5, <1>10, <1>11, <1>12, <1>13 DEF SoleClaims, IdsOf
<1>15. QED
  BY <1>7, <1>14

LEMMA ReapCalm ==
    ASSUME CalmInv, Reap
    PROVE  CalmTables' /\ EndsAim' /\ SoleClaims'
<1>1. /\ call \in Calls /\ CalmTables /\ EndsAim /\ SoleClaims /\ LifeRest
      /\ CallsAreOver /\ AnnouncedAreOver /\ TypeOK
  BY LifeTypeParts DEF CalmInv, LifeInv
<1>2. /\ rows' = rows \ SilentRows /\ SilentRows \in SUBSET rows
      /\ history' = ArchiveStale(SilentRows) /\ reaped' = reaped \cup OpenTripsOf(SilentRows)
      /\ UNCHANGED <<tx, call, ended, begun>>
  BY DEF Reap, CleanupStaleLocks, SilentRows
<1>3. OpenTripsOf(history) \cup OpenTripsOf(SilentRows) \subseteq begun
  BY <1>1, <1>2 DEF CalmTables, Accounted, OpenTripsOf
<1>4. CalmTables' /\ OpenTripsOf(rows') \subseteq OpenTripsOf(rows)
  BY <1>1, <1>2, <1>3, ArchiveAccounts, TripsLeave DEF CalmTables
<1>5. EndsAim'
  BY <1>1, <1>2, <1>4, AimsStay
<1>6. ASSUME NEW x \in OpenTripsOf(SilentRows)
      PROVE  x \in begun /\ ended[x.trip] = 0 /\ x.trip \in IdsOf(rows)
  <2>1. PICK r \in SilentRows : x.trip = r.trip
    BY DEF OpenTripsOf
  <2>2. r \in rows /\ x.trip \in Trips /\ x.trip \in IdsOf(rows)
    BY <1>1, <1>2, <2>1 DEF IdsOf, TypeOK, Row
  <2>3. ended[x.trip] \in Nat /\ ~ ended[x.trip] > 0
    BY <1>1, <2>2 DEF AnnouncedAreOver, Gone, LifeRest, MaxBroadcasts
  <2>4. QED
    BY <1>3, <2>2, <2>3
<1>7. \A z \in Sessions : Claims(z) => call[z].trip \notin IdsOf(rows)
  BY <1>1 DEF Claims, CallsAreOver, Gone, CalmEndPcs, EndPcs
<1>8. \A z \in Sessions : Claims(z)' => Claims(z)
  BY <1>2 DEF Claims
<1>9. \A z \in Sessions : Claims(z)' =>
        ended'[call'[z].trip] = 0 /\ call'[z].trip \notin IdsOf(reaped')
  BY <1>1, <1>2, <1>6, <1>7, <1>8 DEF SoleClaims, IdsOf
<1>10. \A x \in reaped' : x \in begun' /\ ended'[x.trip] = 0
  BY <1>1, <1>2, <1>6 DEF SoleClaims
<1>11. SoleClaims'
  BY <1>1, <1>2, <1>8, <1>9, <1>10 DEF SoleClaims, IdsOf, AnnouncedOnce
<1>12. QED
  BY <1>4, <1>5, <1>11

LEMMA ReportReapedCalm ==
    ASSUME CalmInv, NEW x \in reaped, ReportReaped(x)
    PROVE  CalmTables' /\ EndsAim' /\ SoleClaims'
<1>1. call \in Calls /\ CalmTables /\ EndsAim /\ SoleClaims /\ LifeRest
  BY LifeTypeParts DEF CalmInv, LifeInv
<1>2. /\ UNCHANGED <<rows, history, tx, call, begun>>
      /\ Announce(x.trip) /\ reaped' = reaped \ {x}
  BY DEF ReportReaped
<1>3. CalmTables' /\ EndsAim'
  BY <1>1, <1>2, TablesCalm, AimsStay
<1>4. x.trip \in Trips /\ ended[x.trip] = 0 /\ x.trip \in IdsOf(reaped)
  BY <1>1, TripOfBegun DEF SoleClaims, LifeRest, IdsOf
<1>5. AnnouncedOnce' /\ \A u \in Trips \ {x.trip} : ended'[u] = ended[u]
  BY <1>2, <1>4, OneReport
<1>6. \A z \in Sessions : Claims(z)' => Claims(z) /\ call[z].trip \in Trips \ {x.trip}
  <2>1. ASSUME NEW z \in Sessions, Claims(z)
        PROVE  call[z].trip \in Trips
    <3>1. call[z] \in End
      BY <1>1, <2>1, CallByPc DEF Claims, Calls, CalmEndPcs, EndPcs
    <3>2. QED
      BY <3>1 DEF End
  <2>2. \A z \in Sessions : Claims(z)' => Claims(z)
    BY <1>2 DEF Claims
  <2>3. QED
    BY <1>1, <1>4, <2>1, <2>2 DEF SoleClaims
<1>7. \A y \in reaped' : y \in begun /\ y.trip \in Trips \ {x.trip}
  BY <1>1, <1>2, TripOfBegun DEF SoleClaims, CalmTables, BegunOnce, LifeRest
<1>8. \A z \in Sessions : Claims(z)' =>
        ended'[call'[z].trip] = 0 /\ call'[z].trip \notin IdsOf(reaped')
  BY <1>1, <1>2, <1>5, <1>6 DEF SoleClaims, IdsOf
<1>9. \A y \in reaped' : y \in begun' /\ ended'[y.trip] = 0
  BY <1>1, <1>2, <1>5, <1>7 DEF SoleClaims
<1>10. SoleClaims'
  BY <1>1, <1>2, <1>5, <1>6, <1>8, <1>9 DEF SoleClaims, IdsOf
<1>11. QED
  BY <1>3, <1>10

LEMMA QuietCalm ==
    ASSUME CalmInv, CronDies \/ Background \/ UNCHANGED lifeVars
    PROVE  CalmTables' /\ EndsAim' /\ SoleClaims'
<1>1. TypeOK /\ call \in Calls /\ CalmTables /\ EndsAim /\ SoleClaims
  BY LifeTypeParts DEF CalmInv, LifeInv
<1>2. reaped' \subseteq reaped /\ UNCHANGED <<call, ended, begun>>
  BY DEF CronDies, Background, lifeVars
<1>3. CalmTables' /\ OpenTripsOf(rows') \subseteq OpenTripsOf(rows)
  <2>1. CASE UNCHANGED <<rows, history, tx>>
    BY <1>1, <1>2, <2>1, TablesCalm
  <2>2. CASE \/ \E b \in Buses, d \in Drivers : LocationHeartbeat(b, d)
             \/ \E r \in rows : GrowOld(r)
    BY <1>1, <1>2, <2>2, AgesCalm
  <2>3. QED
    BY <2>1, <2>2 DEF CronDies, Background, InsertFlag, CloseFlag, lifeVars, vars
<1>4. EndsAim' /\ SoleClaims'
  BY <1>1, <1>2, <1>3, AimsStay, ClaimsStay
<1>5. QED
  BY <1>3, <1>4

LEMMA CalmBegins == ASSUME LifeInit PROVE CalmInv
<1>1. LifeInv
  BY LifeBegins
<1>2. OpenTripsOf({}) = {} /\ IdsOf({}) = {}
  BY DEF OpenTripsOf, IdsOf
<1>3. CalmTables
  BY <1>2 DEF LifeInit, Init, Idle, CalmTables, OneTripPerBus, BegunOnce, Accounted, SeenBegan
<1>4. \A s \in Sessions : call[s].pc = "ready"
  BY DEF LifeInit, Ready
<1>5. EndsAim /\ SoleClaims
  BY <1>4 DEF LifeInit, EndsAim, SoleClaims, Claims, AnnouncedOnce, EndPcs, CalmEndPcs
<1>6. QED
  BY <1>1, <1>3, <1>5 DEF CalmInv

LEMMA CalmGoesOn ==
    ASSUME CalmInv, [CalmNext]_lifeVars
    PROVE  CalmInv'
<1>1. LifeInv'
  BY LifeGoesOn DEF CalmInv, CalmNext, LifeNext
<1>2. ASSUME NEW s \in Sessions, EndStep(s)
      PROVE  CalmTables' /\ EndsAim' /\ SoleClaims'
  BY <1>2, NoSweep, EndRequestCalm, EndRpcCalm, EndPassesCalm, EndAnnounceCalm DEF EndStep
<1>3. ASSUME CronStep
      PROVE  CalmTables' /\ EndsAim' /\ SoleClaims'
  BY <1>3, ReapCalm, ReportReapedCalm, QuietCalm DEF CronStep
<1>4. CalmTables' /\ EndsAim' /\ SoleClaims'
  BY <1>2, <1>3, StartsCalm, QuietCalm, CommitCalm DEF CalmNext, OrdinaryStep
<1>5. QED
  BY <1>1, <1>4 DEF CalmInv

LEMMA CalmInductive == CalmSpec => []CalmInv
<1>1. LifeInit => CalmInv
  BY CalmBegins
<1>2. CalmInv /\ [CalmNext]_lifeVars => CalmInv'
  BY CalmGoesOn
<1>3. QED
  BY <1>1, <1>2, PTL DEF CalmSpec

(* INV-TRIP-003, when starts and ends on a bus do not overlap: every trip  *)
(* that was started is on the road or in history, with the bus and the     *)
(* driver it was started with.                                             *)
THEOREM NoTripIsLost == CalmSpec => []TripsAreAccounted
<1>1. CalmInv => TripsAreAccounted
  BY DEF CalmInv, CalmTables, Accounted, TripsAreAccounted, OpenTripsOf
<1>2. QED
  BY <1>1, CalmInductive, PTL

(* Of the requests and cron runs that try to end a trip at the same time,  *)
(* one removes it, and that one alone announces the end.                   *)
THEOREM EndsAreAnnouncedOnce == CalmSpec => []AnnouncedOnce
<1>1. CalmInv => AnnouncedOnce
  BY DEF CalmInv, SoleClaims
<1>2. QED
  BY <1>1, CalmInductive, PTL

(* INV-TRIP-002, when starts and ends on a bus do not overlap: a request   *)
(* to end a trip ends no trip but the one it names, and on the bus it      *)
(* names only its sender's, although no driver is looked at after the      *)
(* check.                                                                  *)
THEOREM RequestsEndTheirOwn == CalmSpec => EndsItsOwn
<1>1. ASSUME CalmInv, NEW s \in Sessions, EndRpc(s) \/ SweepDelete(s),
             NEW r \in rows, r \notin rows'
      PROVE  r.trip = call[s].trip /\ (r.bus = call[s].bus => r.driver = call[s].driver)
  <2>1. call[s].pc \in EndPcs /\ EndRpc(s)
    BY <1>1, NoSweep DEF EndRpc, EndPcs
  <2>2. rows' = rows \/ \E q \in EndCandidates(call[s].trip, call[s].bus) : rows' = rows \ {q}
    BY <2>1 DEF EndRpc, EndRpcDone, EndTripAtomically, vars
  <2>3. r \in EndCandidates(call[s].trip, call[s].bus)
    BY <1>1, <2>2
  <2>4. QED
    BY <1>1, <2>1, <2>3, OwnTrip
<1>2. CalmInv /\ [CalmNext]_lifeVars =>
        [\A s \in Sessions : EndRpc(s) \/ SweepDelete(s) =>
            \A r \in rows : r \notin rows' =>
               /\ r.trip = call[s].trip
               /\ r.bus = call[s].bus => r.driver = call[s].driver]_lifeVars
  BY <1>1
<1>3. QED
  BY <1>2, CalmInductive, PTL DEF CalmSpec, EndsItsOwn
=============================================================================
