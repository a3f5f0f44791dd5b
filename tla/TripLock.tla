------------------------------ MODULE TripLock ------------------------------
(***************************************************************************)
(* The trip tables of the database and the PostgreSQL functions that write *)
(* them: acquire_trip_lock, extend_trip_lock, end_trip_atomically and      *)
(* cleanup_stale_locks, called by any number of sessions at once.          *)
(*                                                                         *)
(* Each function is one transaction at READ COMMITTED.  A function whose   *)
(* every write is protected by the row lock it takes first is one step.    *)
(* acquire_trip_lock is not like that: it looks for the caller's own trip  *)
(* before it locks the bus row, and it walks over a snapshot of the trips  *)
(* on the bus while those trips may still be ended by somebody else.  It   *)
(* is therefore three steps: RequestStart, LockBus and CommitStart.        *)
(*                                                                         *)
(* Abstracted: shift and device columns (no function branches on them),    *)
(* the route column (it is the bus's route), the 'bus_' prefix variants of *)
(* a bus id (one bus is one value), and clock readings.  A row carries the *)
(* class its heartbeat's age is in; ages only matter at the thresholds the *)
(* functions compare them with.  Left out: cleanup_old_trip_history, by    *)
(* which a weekly job deletes history older than a year.                   *)
(***************************************************************************)
EXTENDS Naturals

CONSTANTS
    Drivers, Buses, Students,
    Trips,      \* trip UUIDs; their number bounds the start requests
    Sessions,   \* database sessions that may run acquire_trip_lock at once
    NoTrip      \* the NULL of driver_profiles.active_trip_id

ASSUME NoTripAssumption == NoTrip \notin Trips

VARIABLES
    rows,      \* active_trips
    history,   \* driver_trip_history
    profile,   \* driver_profiles.active_trip_id (trip_active is its non-NULLness)
    flags,     \* the live rows of waiting_flags (raised, acknowledged, waiting)
    tx,        \* what each session's acquire_trip_lock has done so far
    issued     \* the UUIDs crypto.randomUUID() has returned

vars == <<rows, history, profile, flags, tx, issued>>

(***************************************************************************)
(* Heartbeat age classes.  Cron passes 600 s to cleanup_stale_locks;       *)
(* acquire_trip_lock uses 1800 s; a row expires 1800 s or 7200 s after its *)
(* last heartbeat, depending on which caller wrote expires_at.             *)
(***************************************************************************)
Fresh   == 0     \* heard of within 600 s
Silent  == 1     \* cleanup_stale_locks may take it
Stale   == 2     \* acquire_trip_lock of its own driver may take it
Expired == 3     \* expires_at has passed as well

Age == Fresh .. Expired

Row == [trip : Trips, bus : Buses, driver : Drivers, hb : Age]

Reasons == {"completed", "short_trip", "completed_stale"}

Archived == [trip : Trips, bus : Buses, driver : Drivers, reason : Reasons]

Flag == [student : Students, bus : Buses, trip : Trips]

Idle == [pc |-> "idle"]

TxState ==
    {Idle}
    \cup [pc : {"waiting"}, trip : Trips, bus : Buses, driver : Drivers]
    \cup [pc : {"locked"}, trip : Trips, bus : Buses, driver : Drivers,
          seen : SUBSET Row]

TypeOK ==
    /\ rows \in SUBSET Row
    /\ history \in SUBSET Archived
    /\ profile \in [Drivers -> Trips \cup {NoTrip}]
    /\ flags \in SUBSET Flag
    /\ tx \in [Sessions -> TxState]
    /\ issued \in SUBSET Trips

Init ==
    /\ rows = {}
    /\ history = {}
    /\ profile = [d \in Drivers |-> NoTrip]
    /\ flags = {}
    /\ tx = [s \in Sessions |-> Idle]
    /\ issued = {}

IdsOf(S) == {r.trip : r \in S}

-----------------------------------------------------------------------------
(***************************************************************************)
(* What the functions share.                                               *)
(***************************************************************************)

(* Faults of ArchiveStale: a reason the CHECK of the table rejects; no     *)
(* conflict clause and no unique index; DO UPDATE in place of DO NOTHING;  *)
(* the insert left out.                                                    *)
ArchiveHandedOver(S) ==
    history \cup {[trip |-> r.trip, bus |-> r.bus, driver |-> r.driver,
                   reason |-> "handed_over"] : r \in S}

ArchiveTwice(S) ==
    history \cup {[trip |-> r.trip, bus |-> r.bus, driver |-> r.driver,
                   reason |-> "completed_stale"] : r \in S}

ArchiveOver(S) ==
    {h \in history : h.trip \notin IdsOf(S)}
        \cup {[trip |-> r.trip, bus |-> r.bus, driver |-> r.driver,
               reason |-> "completed_stale"] : r \in S}

ArchiveNothing(S) == history

(* INSERT INTO driver_trip_history ... ON CONFLICT (trip_id) DO NOTHING    *)
ArchiveStale(S) ==
    history \cup
        {[trip |-> r.trip, bus |-> r.bus, driver |-> r.driver,
          reason |-> "completed_stale"] : r \in {q \in S : q.trip \notin IdsOf(history)}}

(* A fault of ResetPointers: the update is left out. *)
ResetNoPointer(p, S) == p

(* UPDATE driver_profiles SET active_trip_id = NULL for the drivers of S,  *)
(* whatever trip the pointer names by now.                                 *)
ResetPointers(p, S) ==
    [d \in Drivers |-> IF \E r \in S : r.driver = d THEN NoTrip ELSE p[d]]

(* Faults of UniqueViolation: no index on the driver, only a primary key. *)
NoDriverIndex(S, t, b, d) == \E r \in S : r.trip = t \/ r.bus = b

PrimaryKeyOnly(S, t, b, d) == \E r \in S : r.trip = t

(* The unique indexes of active_trips that an INSERT of (t, b, d) can hit. *)
UniqueViolation(S, t, b, d) ==
    \E r \in S : r.trip = t \/ r.bus = b \/ r.driver = d

-----------------------------------------------------------------------------
(***************************************************************************)
(* acquire_trip_lock                                                       *)
(***************************************************************************)

(* Step 1 of the function: the driver has no trip on this bus, so the call *)
(* goes on to the bus row.  When there is one the function returns it with *)
(* alreadyActive and writes only device columns: nothing changes here.     *)
RequestStart(s, t, b, d) ==
    /\ tx[s] = Idle
    /\ t \notin issued
    /\ ~ \E r \in rows : r.bus = b /\ r.driver = d
    /\ issued' = issued \cup {t}
    /\ tx' = [tx EXCEPT ![s] = [pc |-> "waiting", trip |-> t, bus |-> b, driver |-> d]]
    /\ UNCHANGED <<rows, history, profile, flags>>

(* Step 2: the bus does not exist, or is inactive or in maintenance. *)
RefuseStart(s) ==
    /\ tx[s].pc = "waiting"
    /\ tx' = [tx EXCEPT ![s] = Idle]
    /\ UNCHANGED <<rows, history, profile, flags, issued>>

BusLocked(b) == \E s \in Sessions : tx[s].pc = "locked" /\ tx[s].bus = b

(* A fault of LockBus: the bus row is read without FOR UPDATE. *)
ReadBus(s) ==
    /\ tx[s].pc = "waiting"
    /\ tx' = [tx EXCEPT ![s] =
          [pc |-> "locked", trip |-> tx[s].trip, bus |-> tx[s].bus, driver |-> tx[s].driver,
           seen |-> {r \in rows : r.bus = tx[s].bus /\ r.driver # tx[s].driver}]]
    /\ UNCHANGED <<rows, history, profile, flags, issued>>

(* Step 2, SELECT ... FOR UPDATE on the bus row, and the snapshot that the *)
(* handover loop of step 3 iterates over.                                  *)
LockBus(s) ==
    /\ tx[s].pc = "waiting"
    /\ ~ BusLocked(tx[s].bus)
    /\ tx' = [tx EXCEPT ![s] =
          [pc |-> "locked", trip |-> tx[s].trip, bus |-> tx[s].bus, driver |-> tx[s].driver,
           seen |-> {r \in rows : r.bus = tx[s].bus /\ r.driver # tx[s].driver}]]
    /\ UNCHANGED <<rows, history, profile, flags, issued>>

(* Steps 3 to 5.  The handover loop archives and deletes the trips seen;   *)
(* the driver's own stale trip is archived; the new row is inserted.  On a *)
(* unique violation only the INSERT's block is undone: what the two loops  *)
(* did is committed all the same.                                          *)
CommitStart(s) ==
    LET t == tx[s].trip
        b == tx[s].bus
        d == tx[s].driver
        seen == tx[s].seen
        handed == {r \in rows : r.trip \in IdsOf(seen)}
        stale == {r \in rows \ handed : r.driver = d /\ r.hb >= Stale}
        rest == rows \ (handed \cup stale)
        pointers == ResetPointers(profile, seen)
    IN  /\ tx[s].pc = "locked"
        /\ history' = ArchiveStale(seen \cup stale)
        /\ IF UniqueViolation(rest, t, b, d)
             THEN /\ rows' = rest
                  /\ profile' = pointers
                  /\ UNCHANGED flags
             ELSE /\ rows' = rest \cup {[trip |-> t, bus |-> b, driver |-> d, hb |-> Fresh]}
                  /\ profile' = [pointers EXCEPT ![d] = t]
                  /\ flags' = {f \in flags : f.bus # b \/ f.trip = t}
        /\ tx' = [tx EXCEPT ![s] = Idle]
        /\ UNCHANGED issued

(* The connection is lost, or PostgreSQL picks the session as the victim   *)
(* of a deadlock: the transaction leaves nothing behind.                   *)
AbortStart(s) ==
    /\ tx[s] # Idle
    /\ tx' = [tx EXCEPT ![s] = Idle]
    /\ UNCHANGED <<rows, history, profile, flags, issued>>

-----------------------------------------------------------------------------
(***************************************************************************)
(* extend_trip_lock, and the heartbeat that a location update writes.      *)
(***************************************************************************)
Refreshed(S) == (rows \ S) \cup {[r EXCEPT !.hb = Fresh] : r \in S}

ExtendTripLock(t, d, b) ==
    /\ \E r \in rows : r.trip = t /\ r.driver = d /\ r.bus = b
    /\ rows' = Refreshed({r \in rows : r.trip = t /\ r.driver = d /\ r.bus = b})
    /\ UNCHANGED <<history, profile, flags, tx, issued>>

(* A fault of LocationHeartbeat: an upsert from the driver's last trip. *)
HeartbeatUpsert(b, d) ==
    /\ \E h \in history :
          /\ h.bus = b /\ h.driver = d
          /\ rows' = rows \cup {[trip |-> h.trip, bus |-> b, driver |-> d, hb |-> Fresh]}
    /\ UNCHANGED <<history, profile, flags, tx, issued>>

LocationHeartbeat(b, d) ==
    /\ \E r \in rows : r.bus = b /\ r.driver = d
    /\ rows' = Refreshed({r \in rows : r.bus = b /\ r.driver = d})
    /\ UNCHANGED <<history, profile, flags, tx, issued>>

(* Time passes without a heartbeat. *)
GrowOld(r) ==
    /\ r.hb < Expired
    /\ rows' = (rows \ {r}) \cup {[r EXCEPT !.hb = @ + 1]}
    /\ UNCHANGED <<history, profile, flags, tx, issued>>

-----------------------------------------------------------------------------
(***************************************************************************)
(* end_trip_atomically.  The row is looked up by trip or by bus, a match   *)
(* on the trip first; p_driver_id is not looked at.                        *)
(***************************************************************************)
EndCandidates(t, b) ==
    LET byTrip == {r \in rows : r.trip = t}
    IN  IF byTrip # {} THEN byTrip ELSE {r \in rows : r.bus = b}

(* INSERT INTO driver_trip_history ... ON CONFLICT (trip_id) DO UPDATE     *)
Upserted(r, reason) ==
    {h \in history : h.trip # r.trip}
        \cup {[trip |-> r.trip, bus |-> r.bus, driver |-> r.driver, reason |-> reason]}

EndTripAtomically(t, b, reason) ==
    \E r \in EndCandidates(t, b) :
        /\ reason = "short_trip" => r.hb = Fresh
        /\ rows' = rows \ {r}
        /\ flags' = {f \in flags : f.bus \notin {r.bus, b} /\ f.trip \notin {r.trip, t}}
        /\ profile' = ResetPointers(profile, {r})
        /\ history' = Upserted(r, reason)
        /\ UNCHANGED <<tx, issued>>

(***************************************************************************)
(* cleanup_stale_locks, run by the cron job.  A row that another function  *)
(* holds at that moment is skipped; the other function is about to end or  *)
(* to refresh it, which is the same as its coming first.                   *)
(***************************************************************************)
(* A fault of SilentRows: the comparison is off by one class. *)
LongSilentRows == {r \in rows : r.hb > Silent}

SilentRows == {r \in rows : r.hb >= Silent}

CleanupStaleLocks ==
    /\ SilentRows # {}
    /\ history' = ArchiveStale(SilentRows)
    /\ profile' = ResetPointers(profile, SilentRows)
    /\ rows' = rows \ SilentRows
    /\ flags' = {f \in flags :
          \A r \in SilentRows : f.bus # r.bus /\ f.trip # r.trip}
    /\ UNCHANGED <<tx, issued>>

-----------------------------------------------------------------------------
(***************************************************************************)
(* Writers of waiting_flags other than the functions above.  The waiting   *)
(* flag routes insert a flag for a trip they read earlier, so the trip of  *)
(* a new flag is any trip the bus has had.                                 *)
(***************************************************************************)
InsertFlag(u, b, t) ==
    /\ ~ \E f \in flags : f.student = u
    /\ \/ \E r \in rows : r.trip = t /\ r.bus = b
       \/ \E h \in history : h.trip = t /\ h.bus = b
    /\ flags' = flags \cup {[student |-> u, bus |-> b, trip |-> t]}
    /\ UNCHANGED <<rows, history, profile, tx, issued>>

(* The flag leaves the live states: boarded, cancelled, expired, removed. *)
CloseFlag(f) ==
    /\ flags' = flags \ {f}
    /\ UNCHANGED <<rows, history, profile, tx, issued>>

-----------------------------------------------------------------------------
Next ==
    \/ \E s \in Sessions, t \in Trips, b \in Buses, d \in Drivers : RequestStart(s, t, b, d)
    \/ \E s \in Sessions : RefuseStart(s)
    \/ \E s \in Sessions : LockBus(s)
    \/ \E s \in Sessions : CommitStart(s)
    \/ \E s \in Sessions : AbortStart(s)
    \/ \E t \in Trips, d \in Drivers, b \in Buses : ExtendTripLock(t, d, b)
    \/ \E b \in Buses, d \in Drivers : LocationHeartbeat(b, d)
    \/ \E r \in rows : GrowOld(r)
    \/ \E t \in issued, b \in Buses, reason \in {"completed", "short_trip"} :
          EndTripAtomically(t, b, reason)
    \/ CleanupStaleLocks
    \/ \E u \in Students, b \in Buses, t \in Trips : InsertFlag(u, b, t)
    \/ \E f \in flags : CloseFlag(f)

Spec == Init /\ [][Next]_vars

(* Cron calls cleanup_stale_locks on a schedule, whatever else happens. *)
FairSpec == Spec /\ WF_vars(CleanupStaleLocks)

-----------------------------------------------------------------------------
(***************************************************************************)
(* Properties.                                                             *)
(***************************************************************************)

(* INV-TRIP-001 as far as the unique indexes go: a bus and a driver are in *)
(* at most one active trip, and a trip is one row.                         *)
Exclusive ==
    \A r, q \in rows :
        (r.bus = q.bus \/ r.driver = q.driver \/ r.trip = q.trip) => r = q

(* Every ended trip has one history row, and a trip under way has none, so *)
(* the upsert and the DO NOTHING of the functions never meet each other's  *)
(* rows by accident.                                                       *)
OneArchiveRow ==
    /\ \A h, g \in history : h.trip = g.trip => h = g
    /\ IdsOf(rows) \cap IdsOf(history) = {}

(* The pointer a driver's app reads names a trip of this driver that is    *)
(* really under way: no handover, stale clean-up, cron run or failed start *)
(* leaves it dangling.                                                     *)
PointerNeverDangles ==
    \A d \in Drivers : profile[d] # NoTrip =>
        \E r \in rows : r.trip = profile[d] /\ r.driver = d

(***************************************************************************)
(* The inductive invariant.  None of the invariants above is inductive by  *)
(* itself.  A start archives the trips of a snapshot it took when it       *)
(* locked the bus row, so one has to know what that snapshot is worth when *)
(* it is used (SnapshotIsSound, SnapshotIsComplete), that nobody else      *)
(* starts a trip on the bus meanwhile (BusLockIsExclusive), and that the   *)
(* identifiers of starts under way are not in any table yet                *)
(* (PendingIdsAreFresh).                                                   *)
(***************************************************************************)

(* Every identifier in a table was issued by crypto.randomUUID(). *)
IdsAreIssued == IdsOf(rows) \cup IdsOf(history) \subseteq issued

(* A start under way has an identifier of its own that no table holds. *)
PendingIdsAreFresh ==
    /\ \A s \in Sessions : tx[s] # Idle =>
          tx[s].trip \in issued \ (IdsOf(rows) \cup IdsOf(history))
    /\ \A s, z \in Sessions :
          tx[s] # Idle /\ tx[z] # Idle /\ tx[s].trip = tx[z].trip => s = z

(* SELECT ... FOR UPDATE on a bus row has one holder. *)
BusLockIsExclusive ==
    \A s, z \in Sessions :
        tx[s].pc = "locked" /\ tx[z].pc = "locked" /\ tx[s].bus = tx[z].bus => s = z

(* A trip of the snapshot is another driver's trip on the locked bus, and  *)
(* is either still under way unchanged or over by now.                     *)
SnapshotIsSound ==
    \A s \in Sessions : tx[s].pc = "locked" =>
        /\ \A q \in tx[s].seen :
              /\ q.bus = tx[s].bus
              /\ q.driver # tx[s].driver
              /\ \/ q.trip \in IdsOf(history)
                 \/ \E r \in rows : r.trip = q.trip /\ r.bus = q.bus /\ r.driver = q.driver
        /\ \A p, q \in tx[s].seen : p.trip = q.trip => p = q

(* No other driver's trip on the locked bus is missing from it. *)
SnapshotIsComplete ==
    \A s \in Sessions : tx[s].pc = "locked" =>
        \A r \in rows : r.bus = tx[s].bus /\ r.driver # tx[s].driver =>
            r.trip \in IdsOf(tx[s].seen)

IInv ==
    /\ TypeOK
    /\ Exclusive
    /\ OneArchiveRow
    /\ PointerNeverDangles
    /\ IdsAreIssued
    /\ PendingIdsAreFresh
    /\ BusLockIsExclusive
    /\ SnapshotIsSound
    /\ SnapshotIsComplete

(* What history says of an ended trip is never rewritten: a handover that  *)
(* loses the race against the driver's own end does not turn a completed   *)
(* or short trip into a stale one.  (Rows a year old are deleted by a job  *)
(* of their own, which is left out.)                                       *)
HistoryIsFinal == [][history \subseteq history']_vars

(* A driver whose phone died does not block the bus for ever: the trip is  *)
(* taken away, or the driver is heard of again.                            *)
SilentTripsAreReaped ==
    \A t \in Trips :
        (\E r \in rows : r.trip = t /\ r.hb >= Silent)
            ~> ~ (\E r \in rows : r.trip = t /\ r.hb >= Silent)

(* The functions implement the abstract ledger. *)
OpenTripsOf(S) == {[trip |-> r.trip, bus |-> r.bus, driver |-> r.driver] : r \in S}

Ledger == INSTANCE TripLedger
            WITH open <- OpenTripsOf(rows), closed <- IdsOf(history)

ImplementsLedger == Ledger!Spec
=============================================================================
