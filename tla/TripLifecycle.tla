--------------------------- MODULE TripLifecycle ---------------------------
(***************************************************************************)
(* The HTTP requests that start and end trips, and the cron job that reaps *)
(* silent ones, on top of the database functions of TripLock.              *)
(*                                                                         *)
(* A request is not a transaction: the orchestrator reads, calls a         *)
(* function, reads again, cleans up and broadcasts, and between any two of *)
(* these awaits other requests run or the server dies.  call[s] is what    *)
(* request s still has to do; a request that starts a trip runs its        *)
(* acquire_trip_lock in database session s.                                *)
(*                                                                         *)
(* endTrip has a second way to end a trip: when a trip is still on the bus *)
(* after end_trip_atomically, it is removed by plain table statements,     *)
(* each a transaction of its own (the Sweep actions).                      *)
(*                                                                         *)
(* Left out: the GPS caches and anchors (module GpsGate), the texts and    *)
(* recipients of notifications, and the fallbacks for a database that      *)
(* lacks end_trip_atomically (the schema has it).                          *)
(***************************************************************************)
EXTENDS TripLock

CONSTANT FcmColumns   \* does active_trips have fcm_start_sent and fcm_end_sent?

(* COMPLETE_SCHEMA.sql creates the table without them; the ledger of       *)
(* findings (DB-01) says that a migration adds them.                       *)
ASSUME FcmColumnsAssumption == FcmColumns \in BOOLEAN

VARIABLES
    call,     \* the request each session serves
    reaped,   \* trips the cron job has cleaned up and not yet reported
    ended,    \* how often trip_ended was broadcast for a trip
    pushed,   \* fcm_start_sent and fcm_end_sent, as the pairs that were set
    begun     \* every trip that was ever inserted into active_trips

lifeVars == <<vars, call, reaped, ended, pushed, begun>>

Ready == [pc |-> "ready"]

MaxBroadcasts == 2     \* bounds the count of trip_ended per trip

Start == [pc : {"start", "acquire"}, bus : Buses, driver : Drivers]

AnnounceStart == [pc : {"announceStart"}, trip : Trips, bus : Buses, driver : Drivers]

EndPcs == {"endRpc", "endCheck", "sweepRead", "sweepDelete", "sweepProfile",
           "sweepFlags", "sweepArchive", "cleanup", "announceEnd"}

(* row is the active_trips row the direct cleanup has read, {} for none. *)
End == [pc : EndPcs, trip : Trips, bus : Buses, driver : Drivers,
        already : BOOLEAN, row : SUBSET OpenTripsOf(Row)]

LifeTypeOK ==
    /\ TypeOK
    /\ call \in [Sessions -> {Ready} \cup Start \cup AnnounceStart \cup End]
    /\ reaped \in SUBSET OpenTripsOf(Row)
    /\ ended \in [Trips -> 0 .. MaxBroadcasts]
    /\ pushed \in SUBSET (Trips \X {"start", "end"})
    /\ begun \in SUBSET OpenTripsOf(Row)

LifeInit ==
    /\ Init
    /\ call = [s \in Sessions |-> Ready]
    /\ reaped = {}
    /\ ended = [t \in Trips |-> 0]
    /\ pushed = {}
    /\ begun = {}

Become(s, c) == call' = [call EXCEPT ![s] = c]

Goto(s, pc) == Become(s, [call[s] EXCEPT !.pc = pc])

(* acquire_fcm_lock sets the flag in the trip's active_trips row.  Without *)
(* the row, or without the columns, no push is sent.                       *)
AcquireFcmLock(t, kind) ==
    pushed' = IF FcmColumns /\ t \in IdsOf(rows) THEN pushed \cup {<<t, kind>>}
              ELSE pushed

-----------------------------------------------------------------------------
(***************************************************************************)
(* startTrip                                                               *)
(***************************************************************************)

(* tripStartPreflight lets the driver through: no unexpired trip of the    *)
(* driver's own on another bus, and none on this bus to fall back on.      *)
StartRequest(s, b, d) ==
    /\ call[s] = Ready
    /\ \A r \in rows : r.driver = d => r.bus # b /\ r.hb = Expired
    /\ Become(s, [pc |-> "start", bus |-> b, driver |-> d])
    /\ UNCHANGED <<vars, reaped, ended, pushed, begun>>

StartAcquire(s, t) ==
    /\ call[s].pc = "start"
    /\ RequestStart(s, t, call[s].bus, call[s].driver)
    /\ Goto(s, "acquire")
    /\ UNCHANGED <<reaped, ended, pushed, begun>>

(* The function finds the caller's own trip: the request is answered with  *)
(* that trip and announces nothing.                                        *)
StartAlreadyActive(s) ==
    /\ call[s].pc = "start"
    /\ \E r \in rows : r.bus = call[s].bus /\ r.driver = call[s].driver
    /\ Become(s, Ready)
    /\ UNCHANGED <<vars, reaped, ended, pushed, begun>>

StartLockBus(s) ==
    /\ LockBus(s)
    /\ UNCHANGED <<call, reaped, ended, pushed, begun>>

StartRefused(s) ==
    /\ RefuseStart(s)
    /\ Become(s, Ready)
    /\ UNCHANGED <<reaped, ended, pushed, begun>>

StartCommit(s) ==
    LET t == tx[s].trip
        b == tx[s].bus
        d == tx[s].driver
    IN  /\ CommitStart(s)
        /\ IF t \in IdsOf(rows')
             THEN /\ begun' = begun \cup {[trip |-> t, bus |-> b, driver |-> d]}
                  /\ Become(s, [pc |-> "announceStart", trip |-> t, bus |-> b, driver |-> d])
             ELSE Become(s, Ready) /\ UNCHANGED begun
        /\ UNCHANGED <<reaped, ended, pushed>>

(* The trip_started broadcast and the push that acquire_fcm_lock guards. *)
StartAnnounce(s) ==
    /\ call[s].pc = "announceStart"
    /\ AcquireFcmLock(call[s].trip, "start")
    /\ Become(s, Ready)
    /\ UNCHANGED <<vars, reaped, ended, begun>>

-----------------------------------------------------------------------------
(***************************************************************************)
(* endTrip                                                                 *)
(***************************************************************************)

(* What a statement with trip_id = t or bus_id = b reaches. *)
Reached(t, b) == {r \in rows : r.trip = t \/ r.bus = b}

EndCall(t, b, d) ==
    [pc |-> "endRpc", trip |-> t, bus |-> b, driver |-> d, already |-> FALSE, row |-> {}]

(* A fault of EndRequest: whose trip the bus runs is not looked at. *)
EndRequestUnowned(s, t, b, d) ==
    /\ call[s] = Ready
    /\ \A r \in rows : r.bus = b => r.trip = t
    /\ Become(s, EndCall(t, b, d))
    /\ UNCHANGED <<vars, reaped, ended, pushed, begun>>

(* Driver d asks to end trip t on bus b; both names come with the request, *)
(* and nothing ties one to the other.  It goes on when that bus runs that  *)
(* very trip, driven by d, or runs none.  A request that names no trip     *)
(* means the one the bus runs; a name no client was given reaches nothing  *)
(* that the name of a trip long over does not.                             *)
EndRequest(s, t, b, d) ==
    /\ call[s] = Ready
    /\ \A r \in rows : r.bus = b => r.driver = d /\ r.trip = t
    /\ Become(s, EndCall(t, b, d))
    /\ UNCHANGED <<vars, reaped, ended, pushed, begun>>

(* getActiveTrip answers a database error with null, which reads as "the   *)
(* bus runs no trip": the ownership check is skipped.                      *)
EndRequestUnread(s, t, b, d) ==
    /\ call[s] = Ready
    /\ Become(s, EndCall(t, b, d))
    /\ UNCHANGED <<vars, reaped, ended, pushed, begun>>

EndRpcDone(s) ==
    /\ \E reason \in {"completed", "short_trip"} :
          EndTripAtomically(call[s].trip, call[s].bus, reason)
    /\ Goto(s, "endCheck")

(* A fault of EndRpc: an error of the RPC is taken for an ended trip. *)
EndRpcUnchecked(s) ==
    /\ call[s].pc = "endRpc"
    /\ \/ EndRpcDone(s)
       \/ Goto(s, "cleanup") /\ UNCHANGED vars
    /\ UNCHANGED <<reaped, ended, pushed, begun>>

EndRpc(s) ==
    /\ call[s].pc = "endRpc"
    /\ \/ EndRpcDone(s)
       \/ /\ EndCandidates(call[s].trip, call[s].bus) = {}
          /\ Become(s, [call[s] EXCEPT !.pc = "endCheck", !.already = TRUE])
          /\ UNCHANGED vars
    /\ UNCHANGED <<reaped, ended, pushed, begun>>

(* A fault of EndCheck: alreadyEnded is not looked at. *)
EndCheckAnyway(s) ==
    /\ call[s].pc = "endCheck"
    /\ IF Reached(call[s].trip, call[s].bus) # {} THEN Goto(s, "sweepRead")
       ELSE Goto(s, "cleanup")
    /\ UNCHANGED <<vars, reaped, ended, pushed, begun>>

(* Is a row still lingering on the bus?  It may be a successor's. *)
EndCheck(s) ==
    /\ call[s].pc = "endCheck"
    /\ IF Reached(call[s].trip, call[s].bus) # {} THEN Goto(s, "sweepRead")
       ELSE IF call[s].already THEN Become(s, Ready)
       ELSE Goto(s, "cleanup")
    /\ UNCHANGED <<vars, reaped, ended, pushed, begun>>

SweepRead(s) ==
    LET found == OpenTripsOf(Reached(call[s].trip, call[s].bus))
    IN  /\ call[s].pc = "sweepRead"
        /\ \/ \E x \in found : Become(s, [call[s] EXCEPT !.pc = "sweepDelete", !.row = {x}])
           \/ found = {} /\ Goto(s, "sweepDelete")
        /\ UNCHANGED <<vars, reaped, ended, pushed, begun>>

SweepDelete(s) ==
    /\ call[s].pc = "sweepDelete"
    /\ rows' = rows \ Reached(call[s].trip, call[s].bus)
    /\ Goto(s, "sweepProfile")
    /\ UNCHANGED <<history, profile, flags, tx, issued, reaped, ended, pushed, begun>>

(* The pointer that is reset is the caller's. *)
SweepProfile(s) ==
    /\ call[s].pc = "sweepProfile"
    /\ profile' = [profile EXCEPT ![call[s].driver] = NoTrip]
    /\ Goto(s, "sweepFlags")
    /\ UNCHANGED <<rows, history, flags, tx, issued, reaped, ended, pushed, begun>>

DropFlags(t, b) == flags' = {f \in flags : f.bus # b /\ f.trip # t}

SweepFlags(s) ==
    /\ call[s].pc = "sweepFlags"
    /\ DropFlags(call[s].trip, call[s].bus)
    /\ Goto(s, "sweepArchive")
    /\ UNCHANGED <<rows, history, profile, tx, issued, reaped, ended, pushed, begun>>

(* A fault of SweepArchive: a reason the CHECK of the table rejects. *)
SweepArchiveOtherReason(s) ==
    /\ call[s].pc = "sweepArchive"
    /\ history' = IF call[s].row = {} THEN history
                  ELSE UNION {Upserted([x EXCEPT !.driver = call[s].driver], "direct_cleanup")
                                : x \in call[s].row}
    /\ Goto(s, "cleanup")
    /\ UNCHANGED <<rows, profile, flags, tx, issued, reaped, ended, pushed, begun>>

(* The row that was read is archived under the caller's name. *)
SweepArchive(s) ==
    /\ call[s].pc = "sweepArchive"
    /\ history' = IF call[s].row = {} THEN history
                  ELSE UNION {Upserted([x EXCEPT !.driver = call[s].driver], "completed")
                                : x \in call[s].row}
    /\ Goto(s, "cleanup")
    /\ UNCHANGED <<rows, profile, flags, tx, issued, reaped, ended, pushed, begun>>

(* cleanupTrip: flags by bus and by trip, and the runtime caches. *)
EndCleanup(s) ==
    /\ call[s].pc = "cleanup"
    /\ DropFlags(call[s].trip, call[s].bus)
    /\ Goto(s, "announceEnd")
    /\ UNCHANGED <<rows, history, profile, tx, issued, reaped, ended, pushed, begun>>

(* What comes after each statement of the clean-up. *)
AfterStatement ==
    [sweepRead |-> "sweepDelete", sweepDelete |-> "sweepProfile",
     sweepProfile |-> "sweepFlags", sweepFlags |-> "sweepArchive",
     sweepArchive |-> "cleanup", cleanup |-> "announceEnd"]

(* The database client answers with an error instead of raising it, and    *)
(* the clean-up looks at none: a statement that fails is passed over.      *)
PassOver(s) ==
    /\ call[s].pc \in DOMAIN AfterStatement
    /\ Goto(s, AfterStatement[call[s].pc])
    /\ UNCHANGED <<vars, reaped, ended, pushed, begun>>

(* An error of the lingering check reads as "nothing lingers". *)
EndCheckUnread(s) ==
    /\ call[s].pc = "endCheck"
    /\ IF call[s].already THEN Become(s, Ready) ELSE Goto(s, "cleanup")
    /\ UNCHANGED <<vars, reaped, ended, pushed, begun>>

Announce(t) ==
    /\ ended[t] < MaxBroadcasts
    /\ ended' = [ended EXCEPT ![t] = @ + 1]

(* The trip_ended broadcast, and the push that acquire_fcm_lock guards. *)
EndAnnounce(s) ==
    /\ call[s].pc = "announceEnd"
    /\ Announce(call[s].trip)
    /\ AcquireFcmLock(call[s].trip, "end")
    /\ Become(s, Ready)
    /\ UNCHANGED <<vars, reaped, begun>>

-----------------------------------------------------------------------------
(***************************************************************************)
(* The cron job, failures, and what goes on in the background.             *)
(***************************************************************************)
Reap ==
    /\ CleanupStaleLocks
    /\ reaped' = reaped \cup OpenTripsOf(SilentRows)
    /\ UNCHANGED <<call, ended, pushed, begun>>

(* For each reaped trip: trip_ended is broadcast and whatever flags the    *)
(* bus has by now are expired; that this failed is not noticed.            *)
ReportReaped(x) ==
    /\ flags' \in {flags, {f \in flags : f.bus # x.bus}}
    /\ Announce(x.trip)
    /\ reaped' = reaped \ {x}
    /\ UNCHANGED <<rows, history, profile, tx, issued, call, pushed, begun>>

CronDies ==
    /\ reaped # {}
    /\ reaped' = {}
    /\ UNCHANGED <<vars, call, ended, pushed, begun>>

(* The transaction fails; the request is answered with an error. *)
StartAborted(s) ==
    /\ AbortStart(s)
    /\ Become(s, Ready)
    /\ UNCHANGED <<reaped, ended, pushed, begun>>

(* The server dies, or the statement in flight fails with an exception.    *)
Crash(s) ==
    /\ call[s] # Ready
    /\ tx[s] = Idle
    /\ Become(s, Ready)
    /\ UNCHANGED <<vars, reaped, ended, pushed, begun>>

Background ==
    /\ \/ \E b \in Buses, d \in Drivers : LocationHeartbeat(b, d)
       \/ \E r \in rows : GrowOld(r)
       \/ \E u \in Students, b \in Buses, t \in Trips : InsertFlag(u, b, t)
       \/ \E f \in flags : CloseFlag(f)
    /\ UNCHANGED <<call, reaped, ended, pushed, begun>>

StartStep(s) ==
    \/ \E b \in Buses, d \in Drivers : StartRequest(s, b, d)
    \/ \E t \in Trips : StartAcquire(s, t)
    \/ StartAlreadyActive(s)
    \/ StartLockBus(s)
    \/ StartRefused(s)
    \/ StartAborted(s)
    \/ StartAnnounce(s)

EndStep(s) ==
    \/ \E t \in IdsOf(begun), b \in Buses, d \in Drivers : EndRequest(s, t, b, d)
    \/ EndRpc(s)
    \/ EndCheck(s)
    \/ SweepRead(s)
    \/ SweepDelete(s)
    \/ SweepProfile(s)
    \/ SweepFlags(s)
    \/ SweepArchive(s)
    \/ EndCleanup(s)
    \/ PassOver(s)
    \/ EndCheckUnread(s)
    \/ EndAnnounce(s)

CronStep == Reap \/ CronDies \/ \E x \in reaped : ReportReaped(x)

OrdinaryStep ==
    \/ \E s \in Sessions : StartStep(s) \/ EndStep(s) \/ Crash(s)
    \/ CronStep
    \/ Background

LifeNext ==
    \/ OrdinaryStep
    \/ \E s \in Sessions : StartCommit(s)
    \/ \E s \in Sessions, t \in IdsOf(begun), b \in Buses, d \in Drivers :
          EndRequestUnread(s, t, b, d)

LifeSpec == LifeInit /\ [][LifeNext]_lifeVars

(***************************************************************************)
(* The part of the behaviours in which no start is committed on a bus      *)
(* while a request to end a trip on that bus is being served, and in which *)
(* the ownership read succeeds.                                            *)
(***************************************************************************)
EndUnderWay(b) == \E s \in Sessions : call[s].pc \in EndPcs /\ call[s].bus = b

CalmNext ==
    \/ OrdinaryStep
    \/ \E s \in Sessions :
          tx[s].pc = "locked" /\ ~ EndUnderWay(tx[s].bus) /\ StartCommit(s)

CalmSpec == LifeInit /\ [][CalmNext]_lifeVars

-----------------------------------------------------------------------------
(***************************************************************************)
(* Properties of every behaviour.                                          *)
(***************************************************************************)

(* trip_ended is broadcast only after the trip is off the road, whichever  *)
(* of the three ways it went and whoever else was ending it.               *)
AnnouncedEndIsOver == \A t \in Trips : ended[t] > 0 => t \notin IdsOf(rows)

(* INV-TRIP-004 for the tables: a trip that has left active_trips never    *)
(* comes back, whatever was still in flight when it left.                  *)
NoResurrection ==
    [][\A x \in begun : x.trip \notin IdsOf(rows) => x.trip \notin IdsOf(rows')]_lifeVars

(***************************************************************************)
(* Properties of the calm behaviours.                                      *)
(***************************************************************************)

(* INV-TRIP-003: every trip that was started is on the road or in history, *)
(* with the bus and the driver it was started with.                        *)
TripsAreAccounted ==
    \A x \in begun :
        \/ x \in OpenTripsOf(rows)
        \/ \E h \in history : [trip |-> h.trip, bus |-> h.bus, driver |-> h.driver] = x

(* However many requests and cron runs try to end a trip, clients hear     *)
(* trip_ended of it at most once.                                          *)
AnnouncedOnce == \A t \in Trips : ended[t] <= 1

(* INV-TRIP-002: a request to end a trip ends no trip but the one it       *)
(* names, and on the bus it names only the sender's, although the driver   *)
(* of that bus is looked at once and the functions called later look for   *)
(* rows by trip or by bus and never at a driver.  A trip on another bus    *)
(* that is named is ended whoever drives it.                               *)
EndsItsOwn ==
    [][\A s \in Sessions : EndRpc(s) \/ SweepDelete(s) =>
          \A r \in rows : r \notin rows' =>
             /\ r.trip = call[s].trip
             /\ r.bus = call[s].bus => r.driver = call[s].driver]_lifeVars

=============================================================================
