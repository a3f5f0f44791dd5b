# AdtU ITMS: a verification development

TLA+ models of the parts of the transport management system whose correctness
depends on what runs at the same time as what: how trips start and end, which
locations are accepted for them, how waiting flags live and die, how seats on
buses are given out and taken back, how applications for a coming session get
them, how payments and refunds are recorded, and how realtime connections come
back. TLC checks the models on small instances; TLAPS proves the central facts
about trips, the location gate, refunds and session activation for every instance.

Source paths below are relative to the repository; `SQL` is
`supabase/COMPLETE_SCHEMA.sql`, line numbers are of the commit the project was
written against, and `PROJECT.json` maps every definition to its lines.

## 1. Inventory

The system is a Next.js application (routes under `src/app/api`, domain services
under `src/domains` and `src/lib`), a PostgreSQL schema whose functions carry the
transactions, and a WebSocket server (`server/`). Route handlers run concurrently
on several serverless instances; cron jobs are routes as well. Nothing is kept
between requests but the database, Redis, and per-process caches.

| Component | State | Operations | Hard behaviour | What makes it correct |
|---|---|---|---|---|
| Trip functions (SQL 1675-2173) | `active_trips`, `driver_trip_history`, `driver_profiles.active_trip_id` | `acquire_trip_lock`, `extend_trip_lock`, `end_trip_atomically`, `cleanup_stale_locks` | snapshots taken before row locks, handover races, partial rollback of a unique violation | a bus and a driver in one trip; one final history row per trip; no dangling pointer |
| Trip requests (`trip-orchestrator.ts`, `trip-lock-service.ts`, `trip-cleanup.service.ts`) | none of their own | start, end, direct clean-up, broadcast, push | reads acted on after an await, errors read as "nothing there", crashes between statements | the end that is announced has happened; nobody else's trip is ended; no trip is lost |
| Stale-trip cron (`cron/cleanup-stale-locks`) | none | reap, report | dies halfway, races the driver's own end | silent trips leave the road |
| Waiting flags (`api/student/waiting-flag`, `driver/ack-flag`, `driver/mark-boarded`, `stop-dwell.service.ts`) | `waiting_flags`, `flags:active:<bus>` and its sentinel in Redis, a 4 s mirror per instance | raise, acknowledge, board, cancel, tick, expire | three copies written apart, unawaited updates, expiry by bus after a successor started | flags belong to the trip they were raised for; what is final stays final |
| GPS ingest (`domains/gps`, `location/update`) | positive trip locks per process and in Redis, ordering guard | check, persist, broadcast | caches outlive the trip, are copied into each other and filled under several names of the bus | INV-TRIP-004, INV-GPS |
| Stop dwell | in-memory and Redis residency | enter, stay, leave | jitter, restarts | INV-TRIP-006 |
| Seat counters (SQL 1596-1656) | `buses.morning_load`, `evening_load` | increment, decrement, recount | the only tie to students is every caller's care | INV-CAP-001, INV-CAP-002 |
| Applications (`application.service.ts`, SQL 1052-1532) | `applications`, `processing_lock` | submit, approve, reject, finalize | a lease that expires, compensation in two statements, retries | a seat is counted once per approval |
| Retention (`cron/cleanup-expired-students`) | `student_profiles.status`, `seat_released_at` | soft block, delete | acts on what was read; seat released once | no double release; blocked students are deleted |
| Reassignment and rollback (SQL 3186-3575) | `reassignment_logs` | move, log, undo | stale plans, log written afterwards | INV-CAP-003, INV-CAP-004 |
| Staff edits, creation, removal, renewal | `student_profiles` | `update-user`, `create-user`, `simulate-deadlines`, `renew-services` | counter and row written in separate calls, swallowed errors | counter and row stay in step |
| Reconciliation | `buses` | recount and write | read, then write | repairs, never overbooks by surprise |
| Payments (`lib/payment`, `payments-supabase.ts`, SQL 751-903, 3908-4158) | `payments` and the entitlement and refund history in its metadata | order, capture, recovery sweep, decisions, refund | duplicated and reordered confirmations, whole metadata written back, a sweep over stale rows | INV-PAY: one pass per session, nothing acknowledged that is not recorded |
| Session activation (`session-activation.service.ts`, SQL 3122-3170) | applications for a session to come, the marker `activation_<year>` | run by the cron job, for all, for one | claims against approvals and rejections, lost answers, resumption after a partial run | each applicant seated once or sent to wait |
| Identity, device sessions | users, roles, sessions | login, role look-up | cached roles | INV-AUTH |
| WebSocket server and client (`server/`, `ws-client.ts`) | sessions, registry, channels, saved sessions; reconnect token | authenticate, restore, subscribe, close, evict | both ends close at different times, frames overlap with database reads | INV-WS |
| Notifications, audit, analytics, fleet, routes, assignment engines, UI, operations | their tables, none | maintenance, reports | little concurrency of their own | - |

Interaction: the trip requests call the trip functions and broadcast through
Redis and the WebSocket server; the location route refreshes the trip row; the
waiting-flag routes read the trip and write flags that the trip functions delete.
Approval, retention, reassignment and staff routes meet only in the rows of
`student_profiles` and `buses`. `PROJECT.json` lists every component with its
status and every hazard with the property that watches it.

The models follow `COMPLETE_SCHEMA.sql`, which `supabase/README.md` names as the
only schema file to use. `supabase/PRODUCTION_SYNC.sql` redefines older forms of some
functions (for instance `acquire_trip_lock` with the bus lock first and recounts
that count active students only); a database synchronised from it behaves
differently from what is checked here. One more difference concerns
`active_trips`: the ledger of findings (DB-01) says that `fcm_start_sent` and
`fcm_end_sent` were added, the schema file does not have them. The constant
`FcmColumns` says which of the two a model is about.

## 2. Modules

| Module | Contents |
|---|---|
| `TripLedger` | what the trip subsystem promises: trips open on a free bus with a free driver, close once, never vanish |
| `TripLock` | the trip tables and the PostgreSQL functions; implements `TripLedger` |
| `TripLifecycle` | start and end requests, cron job, crashes and failing statements, on top of `TripLock` |
| `GpsGate` | the caches of the trip under way that decide whether a location is accepted |
| `WaitingFlags` | the rows, the Redis copy and the mirrors of waiting flags, against requests, ticks and trips |
| `SeatLedger` | seat counters, students, applications, and everything that moves a student in or out of a seat |
| `Admissions` | applications for a coming session: approval, rejection, session activation |
| `PaymentBook` | what the payments ledger promises about the money of one student |
| `PaymentLedger` | captures, the recovery sweep and staff decisions over it; implements `PaymentBook` |
| `RefundHistory` | the partial refunds of one payment and their notices |
| `SocketSessions` | one user's reconnecting client and the sessions the server keeps for it |
| `TripProofs`, `SeatLedgerProofs`, `GpsGateProofs`, `WaitingFlagsProofs`, `AdmissionsProofs`, `PaymentLedgerProofs`, `RefundHistoryProofs`, `SocketSessionsProofs` | theorems and proofs |
| `MC...` | instances for TLC |

**TripLock.** `rows` is `active_trips`, `history` is `driver_trip_history`,
`profile` the drivers' pointers, `flags` the live waiting flags. Each function is a
transaction at READ COMMITTED. `acquire_trip_lock` is three steps, because what it
looks at first may be gone when it writes: `RequestStart` (no trip of the driver on
this bus), `LockBus` (the bus row `FOR UPDATE` and the snapshot the handover loop
iterates over) and `CommitStart` (handover, own stale trip, insertion; on a unique
violation only the insertion is undone). `AbortStart` is a lost connection or a
deadlock victim. The others write rows they have locked first and are one step.
A row carries the class of its heartbeat's age (`Fresh`, `Silent` after 600 s,
`Stale` after 1800 s, `Expired`), since the code compares ages with these thresholds only.
`cleanup_stale_locks` skips rows another transaction holds; that transaction ends
or refreshes the row, so the skip is the same as its having come first. `cleanup_old_trip_history`, by
which a weekly job deletes history rows older than a year, is left out: what is said of history holds up to it.

**TripLifecycle.** `call[s]` is what request `s` has still to do; every await is a
step boundary, and `Crash` may fall on any. `EndRequest` takes the trip and
the bus any driver names, as the route does, and checks ownership as `endTrip` does: only if the bus named runs a trip.
`EndRequestUnread` is the same check when `getActiveTrip` answered a database error
with null. `EndRpc`, `EndCheck` and the `Sweep` actions are `trip-lock-service.ts`
`endTrip`: the RPC, the check for a lingering row, and the direct clean-up of five
plain statements. `EndCheckUnread` and `PassOver` are statements whose error nobody looks
at. `EndCleanup` and `EndAnnounce` are the orchestrator's clean-up and
broadcasts. `Reap`, `ReportReaped`, `CronDies` are the cron job. Anchors are left
out, and so are the fallbacks for a database without `end_trip_atomically`.

**GpsGate.** `row` is the trip `active_trips` holds for the bus, `pos` the positive
trip locks of each instance by driver and name of the bus (`gps-persistence.service.ts`),
`mem` and `redis` the two levels of `trip:active:<name>` (`gps-redis-guard.ts`). A
location goes through `UpdateArrives` (the quick path of the route), `Adopt`,
`Recheck`, `AskRedis`, `RedisAnswers`, `Confirm` and `Accept`, one per await. An end
evicts and clears what it can reach (`Evict`, `ClearAgain`, `Settle`), a reap does so
on the instance that runs the cron job, a start cleanses and primes. Every Redis command may fail; memory then
stands in, as in `memoryGuard`.

**WaitingFlags.** `flag` is the table, `redis` and `hydrated` the copy and its sentinel,
`local` the mirror of each instance, `writes` the updates nobody awaits. `Raise...` is the
student's route with its unguarded expiry of late flags, `DriverReads` to `CallWritesBack`
acknowledgement, boarding and cancellation, `Tick...` `processWaitingFlagsOnGpsTick`,
`EndTrip` to `EndExpires` the clean-up after an end. `Flush` is Redis losing its data.

**SeatLedger.** `load` is the counters, `student` the rows of `student_profiles`
(bus, shift, `seat_released_at` as a Boolean), `app` and `lock` the live application and its
processing lock, `log` `reassignment_logs`, `renewed` the approved renewals that
stay in `applications`, `req[s]` what request `s` has read and has still to do. A function of the
schema is one step; a request is as many steps as it makes calls. Left out:
statuses no seat operation writes, `current_members` (the sum of the two counters),
reassignments of several students at once, students without a bus; the waiting list and
applications for a session to come are in `Admissions`. Dates are not modelled: whether a
student is due for blocking or deletion is any time. `processing_result` is taken as the text
the functions compare it with, although the schema file declares JSONB (see below).

**Admissions.** `app` is the state of an application or what became of a row that is gone,
`lock` its processing lock, `student` and `load` as in `SeatLedger`, `job[w]` what a run or a
request of staff is doing: a run keeps the list it read (`todo`), the application it has
claimed, the bus it is trying and the buses left (`rest`). `CronRun`, `RunForAll`,
`RunForOne` begin a run; `ClaimNext`, `Look`, `TakeSeat`, `TryElsewhere`, `Consume`, `Wait` and
`Release` are `activateOne`; `Finish` and `Mark` leave the marker. `Approve` takes the lock
and either activates, verifies (`Open`, `Verify`, `Verified`) or queues; `VerifyUpcoming` is the route that
verifies without the lock; `Reject` and `Deny` refuse. The `...Err`
actions are failing statements with or without their effect, `Dies` a death at any await.

**PaymentLedger.** Online renewals of one student. `row[p]` is the ledger row with its
entitlement and lease, `app[p]` the renewal application, `exec[e]` what an instance is doing.
`Deliver` to `StoreDuplicate` is `processCapturedPayment` for a capture brought by the webhook, the client or the
job, `Submit` to `MetaWrite` the submission and the two-phase update of the metadata,
`CronBegins` to `Grant` the reconciliation job and `recoverPaymentEntitlement`, and the `Desk`
actions staff and finance: approval, rejection, review, full refunds, their denial and notices.
Payments of new registrations and offline payments are left out.

**RefundHistory.** `gateway` is how far each refund is at the gateway, `history` and
`refunded` what the payment's metadata says. `ProcessedEvent` and `FinanceConfirms` go through the database
function, which locks the row; every other writer is a read (`NoticeReads`, `MetadataReads`, `OtherReads`) and
a later `MetadataWrites` of the whole. The seat a refund gives back is `RefundStudent` of `SeatLedger`.

**SocketSessions.** A connection has a client end, a server end and a handler with a queue.
`TimerFires`, `Opens`, `Receives`, `ClientEndCloses`, `Renewed`, `Hide`, `Show` are `ws-client.ts`;
`AuthArrives`, `Verified` (with `Restore` from a reconnect token), `Takes`, `Finishes`, `ServerEndCloses`,
`Evict`, `Expires` the server. `Cut`, `AuthTimesOut`, `TokenRefused` are the troubles. Heartbeats are left out: a
cut connection is noticed at any time.

## 3. What TLC checks

| Run | Instance | Shows |
|---|---|---|
| `MCTripLock` | 2 buses, 2 drivers, 3 trips, 2 sessions | `TypeOK`, `Exclusive`, `OneArchiveRow`, `PointerNeverDangles`, the proofs' `IInv`; `HistoryIsFinal`, `ImplementsLedger`, `SilentTripsAreReaped` |
| `MCTripLifecycle` | 1 bus, 2 drivers, 2 trips, 2 requests | `LifeTypeOK`, `AnnouncedEndIsOver`, `NoResurrection` under every interleaving |
| `MCTripCalm` | 2 buses, 2 drivers, 2 trips, 2 requests | `TripsAreAccounted`, `AnnouncedOnce`, `EndsItsOwn` when no start commits on a bus while its end is served |
| `MCGpsGate` | 2 instances, 2 drivers with a trip each, 1 update, 1 call | `TypeOK`, `OwnTrip`, `StaysGone`: no cache lets a driver report for another's trip, and a trip gone from every cache never comes back |
| `MCWaitingFlags` | 1 instance, 2 flags of one student, 2 requests at once | `TypeOK`, `NoLeftovers`, `FinalStays`: live flags belong to the trip under way, final ones stay final, each with the one exception the property names |
| `MCSeats` | 1 student, 2 one-seat buses, 2 requests, overrides | `TypeOK`, `NoOverbooking` under every interleaving |
| `MCSeatsCalm` | 2 students, 2 one-seat buses, 1 request | `NeverUndercounted`, `SeatsWithinCapacity` when requests do not overlap |
| `MCAdmissions` | 2 applications for one of 2 one-seat buses, 1 request of staff, 1 cron job, 1 failure | `TypeOK`, `SeatsAreAccounted`, `RejectedStaysOut`, `ConsumedMeansSeated`; `UpcomingIsServed` |
| `MCPaymentLedger` | 2 payments, 1 web instance, 1 job, 1 trouble | `TypeOK`, `ActiveStays`; `ImplementsBook`: the rows implement `PaymentBook` |
| `MCRefundHistory` | 3 refunds of half the amount, 2 instances | `TypeOK`, `CountedOnce`, `NeverOverstated`, `RefundedIsPaidBack` |
| `MCSocketSessions` | 1 tab, 3 connections, 2 troubles | `TypeOK`, `SubscriptionsAgree`, `PresenceComesFirst`; `SettlesOrStrays` |
| `MCPaymentStarves` | 2 orders, the sweep takes 1 | finding: `CapturesAreRecorded` fails, because abandoned orders fill the stale sweep for ever |

The *calm* behaviours are named restrictions, not assumptions about the code: the
properties checked there fail outside them. In `TripLifecycle` the calm behaviours are those in
which nothing lingers on the bus after `end_trip_atomically`, so the direct
clean-up has nothing to do; outside them it can delete a trip it has not read,
archive one under the caller's name, or end a successor's trip. In `SeatLedger` requests do not overlap, students are not
created, moved or removed by hand, no approval is compensated, and (`OverrideBuses = {}`) no approver puts another bus in place of the one asked for; requests may still die halfway,
lose their lease and be retried. In `Admissions` nobody holds the lock of an application that another request verifies, or puts in the queue, without
it (`Alone`): the approver has given the lock up before it writes, and the route `verify-upcoming` never takes it. Everything else overlaps.

**Bounds.** `Trips` bounds the number of start requests: three are enough for a driver
who ends a trip and starts another while a handover of the first is under way, the
longest scenario the functions can be brought into with two sessions. In `GpsGate` one trip is over
while the other is under way, and of two instances the clean-up reaches one; what it must not depend on is proved
for any number of either. One update and one call let every await of each be interrupted by the other.
`MaxFlags` = 2 lets a student's next flag meet the late or final one before it; `AtOnce` bounds requests and
unawaited writes together. `MaxBroadcasts` = 2 lets a trip be announced once too often and no more.
`MaxOverFill` = 1 is how far above its capacity a counter is taken by an
administrator's creation. One-seat buses are where every boundary is reached at once;
two students are needed to overbook, and two requests by one student to act on a stale read.
In `Admissions` two applications compete for the seat asked for and the alternative; `MaxTrouble` = 1
puts one failure anywhere.
In `PaymentLedger` one payment can be a pass and the other its duplicate; `LastYear`, `MaxDesks`, `MaxFaults`
and `MaxTrouble` bound approvals, decisions and failures. `StaleLimit` is 50 in the code; with two orders it
never bites in `MCPaymentLedger`, and is 1 in `MCPaymentStarves`, which makes one abandoned order do what takes 50.
In `RefundHistory` three refunds of half the amount let one too many be tried, and one of them (`Instant`) is
paid before its first event. In `SocketSessions` dead connections are used again, so three are a tab's last,
present and next for ever; two troubles are a failure and another one while the client recovers.

**Fairness.** `TripLock`: weak fairness of `CleanupStaleLocks` alone, since the
cron schedule runs it whatever happens; drivers, requests and heartbeats need not do
anything. `PaymentLedger` (`CronSpec`): the job is scheduled for ever and goes on while it runs; clients and
webhooks may give up. `SocketSessions`: timers fire, a token renewal gets an answer, users come back to the tab,
frames arrive on a whole connection, both ends learn of a broken one, handlers go on. `Admissions`: runs and requests that
have begun go on, the daily job runs, the retention job gets done, the lease of a dead request ends, also while the application
is verified again and again. A run has
strong fairness there because the calm restriction, not the code, can disable its next step again and again;
the lock it waits for is always given up.
Troubles are bounded by a counter, so every liveness property speaks of what happens after the last one.

**Mutants.** For every property of a passing run, `PROJECT.json` names a definition and
a plausible fault of it (defined just before it in the module) that breaks the property.

### Disagreements with the documentation

`MCPaymentStarves` shows one by a run. The others were met while reading and modelling and are listed with the
lines to look at; where a model contains the behaviour, its properties are stated around it and name the exception.

Trips and locations
- An end request can end a successor's trip after a handover (INV-TRIP-002; SQL 2105, `trip-orchestrator.ts` 192).
  With no race, one that names another driver's trip and a bus that is idle ends that trip, since ownership is checked on the bus
  named and the function finds the trip by its identifier wherever it runs. `EndsItsOwn` says what is left when no start commits meanwhile: no trip but the one named, and on the bus named only the sender's.
- The direct clean-up deletes a trip that started after the RPC, and archives it in a later statement or, if the request dies,
  never (INV-TRIP-003; `trip-lock-service.ts` 340). `TripsAreAccounted` fails outside the calm behaviours for this reason, after 15 states.
- A handover resets the pointer of a trip its former driver has started meanwhile (SQL 1712).
- A handed-over trip is archived as `completed_stale`, not `handed_over` (INV-TRIP-005; the CHECK of the table would
  refuse that value), and no index keeps a route to one active trip (INV-TRIP-001).
- Without the `fcm_` columns the trip-end push is never sent (SQL 1847).
- The GPS caches filled under other names of the bus are not purged at the end of a trip (`gps-persistence.service.ts` 90-182
  against 56-80; INV-TRIP-004): they lapse, which is why `StaysGone` speaks of trips gone from every cache.
- The memory fallback accepts locations while Redis is down, INV-GPS-005 says fail closed (`gps-redis-guard.ts` 585-627).
- After Redis lost its data in mid-trip a warm instance does not rehydrate the waiting flags (INV-GPS-008;
  `stop-dwell.service.ts` 325-327).
- The stop a bus stands at when its trip ends is not persisted (INV-TRIP-006; `trip-cleanup.service.ts` 27-36), and
  `clearStopDwellState` clears the recent stops of every bus.

Seats and applications
- A renewal on an override bus fills the former bus twice (`application.service.ts` 543); a refused move does not restore
  the former seat (`admin/update-user/route.ts` 88); who renewed once is never deleted by retention (SQL 2896); a staff
  renewal of a released seat is always refused (`renew-services/route.ts` 266).
- The column `processing_result` is JSONB (SQL 421) and the functions write bare words to it (SQL 1427, 1539, 2591): on a database
  built from the schema file, renewal finalizations and the clean-up of leases raise.
- An application for a coming session that waits for a seat is activated by its next approval, before the session begins:
  only `submitted` ones are turned aside (`application.service.ts` 431).
- A repository update of an application that names no session overwrites `session_start_year` with the calendar year
  (`application.repository.pg.ts` 143-149).
- `session-activation.service.ts` INVARIANT 5: when a run dies after seating an applicant on an alternative bus, the next run
  takes the bus asked for, and if that has a seat by then moves the student and leaves the seat counted; and an error after such a
  seat sends a seated applicant to wait. `SeatsAreAccounted` bounds both by one seat per failure.
- `verifyUpcoming` and `queueForSeat` write after the lock was released, or, from the route `verify-upcoming`, with no lock ever
  taken; whoever claims in between is overwritten, and
  `queueForSeat` takes their lock away. This is what the calm behaviours of `Admissions` leave out.
- INVARIANT 2 of the same header is kept by the cron job only: the administrator's run activates applications of any session.
- `activate_session_batch` has no caller.

Payments
- One payment can buy two years: `recoverPaymentEntitlement` and an approval in flight both extend the pass
  (`application.service.ts` 521-538; INV-PAY-002).
- A `refund.created` handled after `refund.processed` sets the entry back, so a fully refunded payment may never become
  Refunded; instant refunds look already processed (`payments-supabase.ts` 984-991). `NeverOverstated` therefore bounds the totals
  from above only.
- The job reads `providerPayments.find` of an object that carries `items` (`payment-reconciliation/route.ts` 76, 138;
  `razorpay.service.ts` 230-243); the job's tests give it an array, and so does the model.
- A capture whose session cannot be determined is acknowledged even when the write of its review row failed
  (`payment.service.ts` 463-487), against the FAIL-CLOSED comment: the constant `Lenient` of `PaymentBook`.
- Refund notices write metadata without the guard of `updatePaymentMetadata` (webhook 221-306): the exception in `ActiveStays`.
- A partial refund rejects the linked application (`payments-supabase.ts` 1064-1083).

Connections
- A client that closes a live socket of its own lets that socket's `onclose` close the next one, and a refused token renewal makes it give
  up for ever: `astray` in `SettlesOrStrays`.
- A normal close is restored within the grace without its subscriptions; two tabs share one reconnect token; an eviction leaves
  the socket in the channel's set; a ghost connection may be closed while it is verified.
- The relay between nodes is switched off in the code (INV-WS-006).

## 4. What is proved

Every theorem holds for every value of the constants that satisfies the named assumptions of its module.
Every safety property the passing runs check, invariant or action property, is stated by one; so are the two
refinements. The bounds of a model (`MaxDesks`, `MaxTrouble`, ...) are constants like any other in the proofs.

**Trips** (`TripProofs`; the only assumption is that `NoTrip`, the NULL of a pointer, is not a trip):

- `Typing`, `BusesAndDriversAreExclusive`, `TripsAreArchivedOnce`,
  `PointersAreLive`: the invariants of `TripLock`.
- `HistoryRowsAreFinal`: none of the functions modelled changes or removes a history row.
- `LedgerIsImplemented`: `Spec => Ledger!Spec`, with `open` the rows without their heartbeat and
  `closed` the archived identifiers.
- `LedgerIsSafe`, `LedgerKeepsTrips`: what the ledger promises (a trip is open on one bus with one driver, and
  never vanishes), carried over to the tables by the refinement.

None of the invariants is inductive alone. A start archives and deletes the trips of a snapshot,
possibly after somebody else has ended them, so the proof needs what the snapshot is worth at
that moment. `IInv`, which `MCTripLock` checks too, adds to the invariants:

- `SnapshotIsSound`: a trip of the snapshot is another driver's trip on the locked bus, and it is
  under way or in history;
- `SnapshotIsComplete`: no other driver's trip on the locked bus is missing from it;
- `BusLockIsExclusive`: one session holds the bus row, hence nothing starts on the bus meanwhile;
- `PendingIdsAreFresh`, `IdsAreIssued`: the identifier of a start under way is in no table.

`Inductive` proves that `IInv` is an invariant, with one lemma per kind of step: steps
that only change ages (`AgesDoNotMatter`), steps that only close trips
(`ClosingIsSafe`), steps that forget a transaction, and the three steps of a
start. The other theorems follow from it.

**The requests around the trips** (the second half of `TripProofs`). In every behaviour: `LifeTyped` (`LifeTypeOK`), `AnnouncedTripsAreOver`
(`AnnouncedEndIsOver`) and `TripsStayOver` (`NoResurrection`). `IInv` of `TripLock` is of no use here, because the clean-up by
plain statements breaks it. `LifeInv` needs less: a row per trip, every row a trip that was started, every start under way an
identifier no trip has had (`Tables`). Then what is gone stays gone, whatever still carries its identifier (`GoneStays`), and each
request past `end_trip_atomically`, each trip the cron job has yet to report and each trip announced is one that is gone.

In the calm behaviours: `NoTripIsLost` (`TripsAreAccounted`), `EndsAreAnnouncedOnce` (`AnnouncedOnce`), `RequestsEndTheirOwn`
(`EndsItsOwn`), from `CalmInv`. Its core is `EndsAim`: as long as a request to end a trip is served, nothing is on the bus it named but
the trip it named, and that is its sender's, so the fall back on the bus finds nobody else's trip and the clean-up by statements never starts (`NoSweep`). `Accounted` says
that the trips started are exactly those on the road or in history; `SoleClaims`, that who removed a trip is the only one that will
announce it. `MaxBroadcasts` bounds the count of broadcasts in the proofs as well; the calm behaviours never reach it.

**Seats** (`SeatLedgerProofs`; `Students` is finite, capacities are positive numbers). For any number of students, buses,
shifts and requests, all interleaved: `SeatsTyped` (`TypeOK`) and `NothingOverbooks` (`NoOverbooking`). `TypeOK` is inductive,
and is needed for the second: it says that what a request has read, however stale, names a seat of a bus there is and a
request at a step of its own kind. Every other step then keeps `Within` (a counter it raises ends within the capacity), one
lemma per operation; `ReconcileBusKeeps` shows that the reconciliation over-fills only the bus it writes. The counters
of `CreateSeat` stop at `MaxOverFill` above the capacity in the proofs as well, a bound of the model on an operation `NoOverbooking` excepts.

In the calm behaviours (for `OverrideBuses = {}`): `CountersCoverStudents` (`NeverUndercounted`) and
`StudentsFitTheBuses` (`SeatsWithinCapacity`), from the inductive `CalmInv`. It adds to the two that counters fit the bus
(`CountersFit`), that whoever gave back the seat is blocked, so that blocking gives no seat back twice (`ReleasedIsBlocked`), and that
what a request under way has read still holds (`UpToDate`): a claimed seat is one the counter has above its students. The
counts are cardinalities of the sets of students in a seat; `OneMoves` says how one row changes all of them.

**The location gate** (`GpsGateProofs`). `GateTyped`, `GateIsOwn` (`OwnTrip`) and `TripsStayGone` (`StaysGone`), for any number of
instances, drivers, trips, names of the bus and requests. All three rest on one invariant with a parameter: `IInv(G)` says that
every cache and request holds only trips of the set `G`, each with the driver it was started for. `IInv(Trips)` is
inductive and gives the first two; `IInv` of all trips but the gone one is kept by every step, since a trip
that is over is not started again, and that is the third.

**Waiting flags** (`WaitingFlagsProofs`). `FlagsTyped` (`TypeOK` with one live flag a student), `FlagsAreOfTheTrip`
(`NoLeftovers`) and `FinalFlagsStay` (`FinalStays`), for any number of instances, students, rows and requests at once. `FlagsInvariant`
adds to the first two what every kind of request carries. Only one clause is about what has been read: as long as a raise
takes its trip to be under way, a trip is (`PostOK`), which an end corrects in every raise it interrupts. Nothing
needs to be known of the others, because every update but one looks at the status again where it writes; that one, the expiry of
late flags by a raise, is the exception `FinalStays` names.

**The payments ledger** (`PaymentLedgerProofs`). `LedgerTypeOK` (`TypeOK`, no two passes of one session among it),
`LedgerImplementsBook` (`Spec => Book!Spec`, with the book's rows those of the ledger without entitlement and lease) and `LedgerActiveStays`
(`ActiveStays`), for any number of payments, orders, webhooks, clients and instances of the job. `LedgerInvariant` says what a row, the
student and an application may say together, and where an instance may be given the row of its payment (`Placed`):
who has entered a capture goes on only with a row that is there, and who is about to insert one has found none, or another instance's.
That sessions never run out of range needs a count: the student's last session is at most as many years
ahead as there are rows that are or were a pass (`Held`). The refinement is one lemma per kind of step, each a step of the book or none.

**Refunds** (`RefundHistoryProofs`). `RefundsCountedOnce`: whatever is delivered again, out of order, or overwritten from an older
reading, the history never has a refund as processed twice, nor one the gateway has not paid. `CountedOnce` is not
inductive, because a history is written back long after it was read: `HistoryInvariant` says the same of every history some
instance is about to write. From it, `MoneyInvariant` and with it `RefundsTyped` (`TypeOK`), `RefundsNeverOverstated` (`NeverOverstated`) and
`RefundedMeansPaidBack` (`RefundedIsPaidBack`): the refunds made fit into the payment, and a total, stored or about to be, is at
most what the gateway has paid. The totals are folds over histories and over sets; `SumRemove`, `ProcessedIsSum`,
`ProcessedBound` and `SumMore` say what a proof needs of them. They are inductions the library's theorems cannot be used for (their
induction hypothesis is an operator), so each takes a smallest counterexample, which exists because `<` on the natural
numbers is well founded. The set of refunds need not be finite: those made are.

**Session activation** (`AdmissionsProofs`). For every number of applications, buses, requests and failures, in the calm
behaviours: `CountersFitTheBuses` (`TypeOK`), `RejectionsAreFinal` (`RejectedStaysOut`), `ConsumptionSeats`
(`ConsumedMeansSeated`), `SeatsFollowTheStudents` (`SeatsAreAccounted`). The argument is ownership, `CalmInvariant`: who is past a claim holds the lock (`Owners`), so the
application it is about to seat is still live (`StillLive`), and the applicant it has seated still is when the application
is used up (`StillSeated`), since whoever could reject, compensate or delete would hold the same lock.

The counters need one more idea. Moving an applicant who already sits in another bus leaves that bus counted for nobody, and
nothing fails then: the failure came before, when a run or an approval seated the applicant and never came to use the application up. Such a
seat is `Loose`, and `Bounded` counts it as that failure until somebody moves the applicant. `Placed` says that a compensation finds the
seat it takes back, so that it uncounts exactly one. The sum over the buses is the cardinality of the set of seats counted (`Counted`), so
no bus, application or request need be one of finitely many.

**Connections** (`SocketSessionsProofs`). `SessionsTyped` (`TypeOK`: a tab has one live socket, a session its registered
connection), `SubscriptionsAlwaysAgree` (`SubscriptionsAgree`) and `PresenceIsFirst` (`PresenceComesFirst`), for any number of tabs, sockets
and troubles. `SessionsInvariant` relates the server's five records socket by socket: it knows nothing of a socket whose token is not
verified, and a snapshot that says subscribed is of a socket that is registered no more (`ServerOK`), so a restored session takes
nobody's place in the channel. A session without a bus still has its presence to come, as its next frame or the one being
handled (`Awaits`), which is why no subscription sent after it is rejected.

Only model-checked: the liveness properties `SilentTripsAreReaped`, `UpcomingIsServed` and `SettlesOrStrays`
(liveness under fairness is outside what TLAPS 1.4.5 proves), and the finding of `MCPaymentStarves`. The theorems about calm behaviours
are about those behaviours only; what happens outside them is in section 3.

## 5. Not modelled, and what is left

`PROJECT.json` gives the reason for every component and for what is left out of a component that is partly modelled.
In short:

- Most of the code has no concurrency of its own: pages, forms, charts, reports, exports, table maintenance, geometry of
  routes, scripts, deployment. It is by far the larger part of the repository, and every change of state it makes goes through a
  route or function modelled here or a single-row write.
- Identity and roles, caches of read paths, audit, analytics and configuration: no guard of a modelled operation reads
  them, except that a change of role evicts connections (`Evict`).
- The stop dwell audit is one ordered stream of locations into an append-only table; the ordering guard and the packet
  guard of the client are arithmetic on one stream.
- The staff assignment engines plan on the client and write in one call: a candidate for a module of their own (a plan
  against the assignments as they are when it is confirmed).
- Within modelled components: payments of new registrations, offline payments and receipts; drafts of applications;
  reassignments of several students at once; the limits of a raise; the offline queue and replay identifiers of the socket server.

Next, in this order: what of the calm behaviours' theorems holds when requests overlap, stated with the exceptions the code makes;
the staff assignment engines; payments of new registrations.
