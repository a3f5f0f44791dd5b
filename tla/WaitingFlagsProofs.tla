------------------------- MODULE WaitingFlagsProofs -------------------------
(***************************************************************************)
(* The waiting flags of a bus, for any number of instances, students,      *)
(* rows and requests: a student has one live flag, every live flag is of   *)
(* the trip under way but for the raise that came too late, and a boarded  *)
(* or cancelled flag stays so.                                             *)
(*                                                                         *)
(* Nothing relies on what a request has read of a flag: every update but   *)
(* one looks at the status again.  What matters is what a raise knows of   *)
(* the trip (PostOK): as long as it takes the trip it read to be under     *)
(* way, one is.                                                            *)
(***************************************************************************)
EXTENDS WaitingFlags, FiniteSetTheorems, TLAPS

Mirror == [map : BOOLEAN, flags : SUBSET Flags, fresh : BOOLEAN, warm : BOOLEAN]

Raise == [pc : {"expire", "conflict", "publish"}, node : Nodes, by : Students,
          stale : SUBSET Flags, trip : {"none", "running", "over"}, retry : BOOLEAN,
          flag : Flags \cup {NoFlag}]

Write == [pc : {"write"}, node : Nodes, flag : Flags, kind : {"ack", "note", "board"}]
Copying == [pc : {"evict", "patch", "hset"}, node : Nodes, flag : Flags]

Sweep == [pc : {"query", "fill", "read", "sweep", "hset"}, node : Nodes,
          todo : SUBSET Flags, flag : Flags \cup {NoFlag}]

Cleaning == [pc : {"delete", "evict", "expire"}, node : Nodes, reaped : BOOLEAN]

Updates == {"acknowledged", "expired"} \X Flags

OneLive(fl) ==
  \A f, g \in Flags :
    fl[f].status \in Live /\ fl[g].status \in Live /\ fl[f].by = fl[g].by => f = g

(* The live rows fl are of the trip under way, if act says there is one.   *)
Ours(fl, act) ==
  \A f \in Flags : fl[f].status \in Live => fl[f].trip = "wasOver" \/ (fl[f].trip = "running" /\ act)

RowsOK(fl, act) == fl \in [Flags -> Row] /\ OneLive(fl) /\ Ours(fl, act)

CopiesOK(re, hy, lo) ==
  re \in SUBSET Flags /\ hy \in BOOLEAN /\ lo \in [Nodes -> Mirror]

PostOK(po, act) ==
  /\ po \in [Posts -> {IdleReq} \cup Raise]
  /\ \A p \in Posts : /\ po[p].pc = "publish" => po[p].flag \in Flags
                      /\ po[p].pc # "idle" /\ po[p].trip = "running" => act

CallOK(ca) == ca \in [Calls -> {IdleReq} \cup Write \cup Copying]

TickOK(ti) ==
  /\ ti \in [Ticks -> {IdleReq} \cup Sweep]
  /\ \A k \in Ticks : ti[k].pc = "hset" => ti[k].flag \in Flags

EndOK(en) == en \in [Ends -> {IdleReq} \cup Cleaning]

Inv ==
  /\ active \in BOOLEAN
  /\ RowsOK(flag, active)
  /\ CopiesOK(redis, hydrated, local)
  /\ PostOK(post, active)
  /\ CallOK(call)
  /\ TickOK(tick)
  /\ EndOK(end)
  /\ writes \in SUBSET Updates

(* The action of FinalStays, for one flag.                                 *)
Kept(f) ==
  flag[f].status \in {"boarded", "cancelled"} =>
    \/ flag'[f].status \in {flag[f].status, "gone"}
    \/ \E p \in Posts : post[p] # IdleReq /\ f \in post[p].stale /\ post'[p] # post[p]

Keeps == Inv' /\ \A f \in Flags : Kept(f)

-----------------------------------------------------------------------------
(* What a step does to the rows.                                           *)

(* No row becomes live, or of another student or trip.                     *)
Narrows(fl, fm) ==
  /\ fm \in [Flags -> Row]
  /\ \A f \in Flags :
       /\ fm[f].by = fl[f].by
       /\ fm[f].status \in Live => fl[f].status \in Live /\ fm[f].trip = fl[f].trip

LEMMA Narrowed ==
  ASSUME NEW fl, NEW fm, NEW act, RowsOK(fl, act), Narrows(fl, fm)
  PROVE  RowsOK(fm, act)
BY DEF RowsOK, Narrows, OneLive, Ours

LEMMA RowChanges ==
  ASSUME NEW r \in Row, NEW st \in Status
  PROVE  /\ [r EXCEPT !.status = st] \in Row
         /\ [r EXCEPT !.status = st, !.late = FALSE, !.trip = "none"] \in Row
         /\ [r EXCEPT !.late = TRUE] \in Row
BY DEF Row, TripOf

LEMMA StatusValue ==
  ASSUME NEW fs, NEW st \in Status, flag \in [Flags -> Row], NEW f \in Flags
  PROVE  LET r == WithStatus(fs, st)[f] IN
         /\ r \in Row
         /\ r.by = flag[f].by
         /\ r = flag[f] \/ (f \in fs /\ r.status = st /\ flag[f].status \notin {"none", "gone"})
         /\ st \in Live => r.trip = flag[f].trip
<1>1. flag[f] \in Row
  OBVIOUS
<1>2. CASE f \notin fs \/ flag[f].status \in {"none", "gone"}
  BY <1>1, <1>2 DEF WithStatus
<1>3. CASE ~(f \notin fs \/ flag[f].status \in {"none", "gone"}) /\ st \in Live
  BY <1>1, <1>3, RowChanges DEF WithStatus, Row
<1>4. CASE ~(f \notin fs \/ flag[f].status \in {"none", "gone"}) /\ st \notin Live
  BY <1>1, <1>4, RowChanges DEF WithStatus, Row
<1> QED
  BY <1>2, <1>3, <1>4

LEMMA StatusNarrows ==
  ASSUME NEW fs, NEW st \in Status, flag \in [Flags -> Row],
         st \in Live => \A f \in fs : f \in Flags => flag[f].status \in Live
  PROVE  Narrows(flag, WithStatus(fs, st))
<1>1. WithStatus(fs, st) \in [Flags -> Row]
  BY StatusValue DEF WithStatus
<1>2. ASSUME NEW f \in Flags
      PROVE  LET r == WithStatus(fs, st)[f] IN
             /\ r.by = flag[f].by
             /\ r.status \in Live => flag[f].status \in Live /\ r.trip = flag[f].trip
  BY StatusValue
<1> QED
  BY <1>1, <1>2 DEF Narrows

(* An update that looks at the status again touches live rows only.        *)
LEMMA UpdateNarrows ==
  ASSUME flag \in [Flags -> Row], NEW f, NEW st \in Status, Update(f, st)
  PROVE  Narrows(flag, flag') /\ \A g \in Flags : Kept(g)
<1> DEFINE fs == IF flag[f].status \in Open(st) THEN {f} ELSE {}
<1>1. flag' = WithStatus(fs, st)
  BY DEF Update, SetStatus
<1>2. \A g \in fs : g = f /\ flag[g].status \in Live
  BY DEF Open, Live
<1>3. Narrows(flag, flag')
  BY <1>1, <1>2, StatusNarrows
<1>4. ASSUME NEW g \in Flags  PROVE Kept(g)
  <2>1. flag'[g] = flag[g] \/ g \in fs
    BY <1>1, StatusValue
  <2> QED
    BY <1>2, <2>1 DEF Kept, Live
<1> QED
  BY <1>3, <1>4

LEMMA GoneValue ==
  ASSUME flag \in [Flags -> Row], NEW f \in Flags
  PROVE  LET st == WithStatus(Flags, "gone")[f].status IN
         IF flag[f].status \in {"none", "gone"} THEN st = flag[f].status ELSE st = "gone"
<1>1. "gone" \notin Live
  BY DEF Live
<1>2. CASE flag[f].status \in {"none", "gone"}
  BY <1>2 DEF WithStatus
<1>3. CASE flag[f].status \notin {"none", "gone"}
  <2>1. WithStatus(Flags, "gone")[f] =
          [flag[f] EXCEPT !.status = "gone", !.late = FALSE, !.trip = "none"]
    BY <1>1, <1>3 DEF WithStatus
  <2>2. flag[f] \in Row
    OBVIOUS
  <2> QED
    BY <1>3, <2>1, <2>2 DEF Row
<1> QED
  BY <1>2, <1>3

(* What a trip's start or end deletes is not live afterwards.              *)
LEMMA GoneNarrows ==
  ASSUME flag \in [Flags -> Row], SetStatus(Flags, "gone")
  PROVE  /\ Narrows(flag, flag')
         /\ \A f \in Flags : flag'[f].status \notin Live
         /\ \A f \in Flags : Kept(f)
<1>1. "gone" \in Status /\ "gone" \notin Live
  BY DEF Status, Live
<1>2. Narrows(flag, flag')
  BY <1>1, StatusNarrows DEF SetStatus
<1>3. ASSUME NEW f \in Flags  PROVE flag'[f].status \in {"none", "gone"} /\ Kept(f)
  BY GoneValue DEF SetStatus, Kept
<1> QED
  BY <1>2, <1>3 DEF Live

LEMMA ExpiresLive ==
  ASSUME flag \in [Flags -> Row], NEW fs, \A f \in fs : flag[f].status \in Live,
         SetStatus(fs, "expired")
  PROVE  Narrows(flag, flag') /\ \A f \in Flags : Kept(f)
<1>1. "expired" \in Status /\ "expired" \notin Live
  BY DEF Status, Live
<1>2. Narrows(flag, flag')
  BY <1>1, StatusNarrows DEF SetStatus
<1>3. ASSUME NEW f \in Flags  PROVE Kept(f)
  <2>1. flag'[f] = flag[f] \/ f \in fs
    BY <1>1, StatusValue DEF SetStatus
  <2> QED
    BY <2>1 DEF Kept, Live
<1> QED
  BY <1>2, <1>3

-----------------------------------------------------------------------------
(* The parts of the invariant that no step on the rows can disturb.        *)

(* A step that leaves the rows alone, but for those that narrow.           *)
LEMMA UntouchedRows ==
  ASSUME UNCHANGED flag
  PROVE  \A f \in Flags : Kept(f)
BY DEF Kept

LEMMA IdleIsNoRaise == IdleReq.pc = "idle" /\ \A r \in Raise : r.pc # "idle"
BY DEF IdleReq, Raise

LEMMA StoreOK ==
  ASSUME CopiesOK(redis, hydrated, local), NEW n, NEW f \in Flags, Store(n, f)
  PROVE  CopiesOK(redis', hydrated', local')
<1>1. ASSUME n \in Nodes
      PROVE  [map |-> TRUE, flags |-> local[n].flags \cup {f}, fresh |-> TRUE, warm |-> TRUE] \in Mirror
  BY <1>1 DEF CopiesOK, Mirror
<1>2. local' \in [Nodes -> Mirror]
  BY <1>1 DEF Store, CopiesOK
<1> QED
  BY <1>2 DEF Store, CopiesOK

LEMMA RemoveOK ==
  ASSUME CopiesOK(redis, hydrated, local), NEW n, NEW f, Remove(n, f)
  PROVE  CopiesOK(redis', hydrated', local')
<1>1. ASSUME n \in Nodes
      PROVE  [local[n] EXCEPT !.flags = @ \ {f}, !.fresh = local[n].map] \in Mirror
  BY <1>1 DEF CopiesOK, Mirror
<1>2. local' \in [Nodes -> Mirror]
  BY <1>1 DEF Remove, CopiesOK
<1> QED
  BY <1>2 DEF Remove, CopiesOK

LEMMA WriteBackOK ==
  ASSUME CopiesOK(redis, hydrated, local), NEW n, NEW f \in Flags, WriteBack(n, f)
  PROVE  CopiesOK(redis', hydrated', local')
<1>1. ASSUME n \in Nodes
      PROVE  [local[n] EXCEPT !.fresh = local[n].map] \in Mirror
  BY <1>1 DEF CopiesOK, Mirror
<1>2. local' \in [Nodes -> Mirror]
  BY <1>1 DEF WriteBack, CopiesOK
<1> QED
  BY <1>2 DEF WriteBack, CopiesOK

LEMMA RaisePut ==
  ASSUME NEW act, PostOK(post, act), NEW p \in Posts, NEW r \in {IdleReq} \cup Raise,
         r.pc = "publish" => r.flag \in Flags,
         r.pc # "idle" /\ r.trip = "running" => act,
         post' = [post EXCEPT ![p] = r]
  PROVE  PostOK(post', act)
BY DEF PostOK

LEMMA CallPut ==
  ASSUME CallOK(call), NEW c \in Calls, NEW r \in {IdleReq} \cup Write \cup Copying,
         call' = [call EXCEPT ![c] = r]
  PROVE  CallOK(call')
BY DEF CallOK

LEMMA TickPut ==
  ASSUME TickOK(tick), NEW k \in Ticks, NEW r \in {IdleReq} \cup Sweep,
         r.pc = "hset" => r.flag \in Flags,
         tick' = [tick EXCEPT ![k] = r]
  PROVE  TickOK(tick')
BY DEF TickOK

LEMMA EndPut ==
  ASSUME EndOK(end), NEW e \in Ends, NEW r \in {IdleReq} \cup Cleaning,
         end' = [end EXCEPT ![e] = r]
  PROVE  EndOK(end')
BY DEF EndOK

-----------------------------------------------------------------------------
(* The steps of a raise.                                                   *)

LEMMA RaiseReadsKeeps ==
  ASSUME Inv, NEW p \in Posts, NEW s \in Students, NEW n \in Nodes, RaiseReads(p, s, n)
  PROVE  Keeps
<1> DEFINE r == [pc |-> "expire", node |-> n, by |-> s, stale |-> LiveOf(s),
                 trip |-> IF active THEN "running" ELSE "none", retry |-> FALSE, flag |-> NoFlag]
<1>1. r \in Raise /\ r.pc = "expire" /\ (r.trip = "running" => active)
  BY DEF Raise, LiveOf
<1>2. post' = [post EXCEPT ![p] = r]
  BY DEF RaiseReads
<1> HIDE DEF r
<1>3. PostOK(post', active)
  BY <1>1, <1>2, RaisePut DEF Inv
<1> QED
  BY <1>3, UntouchedRows DEF RaiseReads, Inv, Keeps, db, cache

LEMMA RaiseExpiresKeeps ==
  ASSUME Inv, NEW p \in Posts, RaiseExpires(p)
  PROVE  Keeps
<1> PICK f \in post[p].stale : SetStatus({f}, "expired") /\ post' = [post EXCEPT ![p].stale = @ \ {f}]
  BY DEF RaiseExpires
<1>1. post[p] \in Raise
  BY IdleIsNoRaise DEF RaiseExpires, Inv, PostOK
<1> DEFINE r == [post[p] EXCEPT !.stale = @ \ {f}]
<1>2. r \in Raise /\ r.pc = "expire" /\ r.trip = post[p].trip /\ r # post[p]
  BY <1>1 DEF Raise, RaiseExpires
<1>3. post' = [post EXCEPT ![p] = r] /\ post'[p] = r
  BY DEF Inv, PostOK
<1> HIDE DEF r
<1>4. PostOK(post', active)
  BY <1>1, <1>2, <1>3, RaisePut, IdleIsNoRaise DEF Inv, PostOK
<1>5. flag \in [Flags -> Row] /\ "expired" \in Status /\ "expired" \notin Live
  BY DEF Inv, RowsOK, Status, Live
<1>6. RowsOK(flag', active)
  BY <1>5, StatusNarrows, Narrowed DEF SetStatus, Inv
<1>7. ASSUME NEW g \in Flags  PROVE Kept(g)
  <2>1. flag'[g] = flag[g] \/ g = f
    BY <1>5, StatusValue DEF SetStatus
  <2> QED
    BY <1>1, <1>2, <1>3, <2>1, IdleIsNoRaise DEF Kept
<1> QED
  BY <1>4, <1>6, <1>7 DEF RaiseExpires, Inv, Keeps, cache

LEMMA RaiseRefusedKeeps ==
  ASSUME Inv, NEW p \in Posts, RaiseRefused(p)
  PROVE  Keeps
<1>1. PostOK(post', active)
  BY RaisePut, IdleIsNoRaise DEF RaiseRefused, Inv
<1> QED
  BY <1>1, UntouchedRows DEF RaiseRefused, Inv, Keeps, db, cache

LEMMA RaiseInsertsKeeps ==
  ASSUME Inv, NEW p \in Posts, RaiseInserts(p)
  PROVE  Keeps
<1>0. post[p] \in Raise /\ post[p].pc = "expire"
  BY IdleIsNoRaise DEF RaiseInserts, Inv, PostOK
<1>a. UNCHANGED <<active, redis, hydrated, local, call, tick, end, writes>>
  BY DEF RaiseInserts, cache
<1>1. CASE ~ Taken(post[p].by)
  <2> DEFINE New == [status |-> "raised", by |-> post[p].by, late |-> FALSE,
                     trip |-> IF post[p].trip = "over" THEN "wasOver" ELSE "running"]
             r(f) == [post[p] EXCEPT !.pc = "publish", !.flag = f, !.trip = "none", !.retry = FALSE]
  <2>1. PICK f \in Flags : /\ flag[f].status = "none"
                           /\ flag' = [flag EXCEPT ![f] = New]
                           /\ post' = [post EXCEPT ![p] = r(f)]
    BY <1>0, <1>1 DEF RaiseInserts, Inv, PostOK
  <2>2. New \in Row /\ New.by = post[p].by /\ New.status = "raised"
    BY <1>0 DEF Row, Raise, TripOf, Status, Live
  <2>3. New.trip = "wasOver" \/ (New.trip = "running" /\ active)
    BY <1>0, IdleIsNoRaise DEF RaiseInserts, Raise, Inv, PostOK
  <2>4. r(f) \in Raise /\ r(f).flag = f /\ r(f).trip = "none"
    BY <1>0 DEF Raise
  <2> HIDE DEF New, r
  <2>5. PostOK(post', active)
    BY <2>1, <2>4, RaisePut DEF Inv
  <2>6. flag \in [Flags -> Row] /\ OneLive(flag) /\ Ours(flag, active)
    BY DEF Inv, RowsOK
  <2>7. \A g \in Flags : flag[g].status \in Live => flag[g].by # post[p].by
    BY <1>1 DEF Taken, LiveOf, IsLive
  <2>8. flag' \in [Flags -> Row] /\ flag'[f] = New /\ \A g \in Flags \ {f} : flag'[g] = flag[g]
    BY <2>1, <2>2, <2>6
  <2>9. RowsOK(flag', active)
    BY <2>2, <2>3, <2>6, <2>7, <2>8 DEF RowsOK, OneLive, Ours
  <2>10. \A g \in Flags : Kept(g)
    BY <2>1, <2>8 DEF Kept
  <2> QED
    BY <1>a, <2>5, <2>9, <2>10 DEF Inv, Keeps
<1>2. CASE UNCHANGED flag /\ post' = [post EXCEPT ![p] = IdleReq]
  <2>1. PostOK(post', active)
    BY <1>2, RaisePut, IdleIsNoRaise DEF Inv
  <2> QED
    BY <1>a, <1>2, <2>1, UntouchedRows DEF Inv, Keeps
<1>3. CASE UNCHANGED flag /\ post' = [post EXCEPT ![p].pc = "conflict"]
  <2> DEFINE r == [post[p] EXCEPT !.pc = "conflict"]
  <2>1. r \in Raise /\ r.pc = "conflict" /\ r.trip = post[p].trip
    BY <1>0 DEF Raise
  <2>2. post' = [post EXCEPT ![p] = r]
    BY <1>3 DEF Inv, PostOK
  <2> HIDE DEF r
  <2>3. PostOK(post', active)
    BY <1>0, <2>1, <2>2, RaisePut DEF Inv, PostOK
  <2> QED
    BY <1>a, <1>3, <2>3, UntouchedRows DEF Inv, Keeps
<1> QED
  BY <1>1, <1>2, <1>3 DEF RaiseInserts

LEMMA RaiseConflictsKeeps ==
  ASSUME Inv, NEW p \in Posts, RaiseConflicts(p)
  PROVE  Keeps
<1>0. post[p] \in Raise /\ post[p].pc = "conflict"
  BY IdleIsNoRaise DEF RaiseConflicts, Inv, PostOK
<1> DEFINE late == {f \in LiveOf(post[p].by) : flag[f].late}
           r == [post[p] EXCEPT !.pc = "expire", !.stale = late, !.retry = TRUE]
<1>1. r \in Raise /\ r.pc = "expire" /\ r.trip = post[p].trip
  BY <1>0 DEF Raise, LiveOf
<1>2. post' = [post EXCEPT ![p] = IdleReq] \/ post' = [post EXCEPT ![p] = r]
  BY DEF RaiseConflicts, Inv, PostOK
<1> HIDE DEF r
<1>3. PostOK(post', active)
  <2>1. CASE post' = [post EXCEPT ![p] = IdleReq]
    BY <2>1, RaisePut, IdleIsNoRaise DEF Inv
  <2>2. CASE post' = [post EXCEPT ![p] = r]
    BY <1>0, <1>1, <2>2, RaisePut DEF Inv, PostOK
  <2> QED
    BY <1>2, <2>1, <2>2
<1> QED
  BY <1>3, UntouchedRows DEF RaiseConflicts, Inv, Keeps, db, cache

LEMMA RaisePublishesKeeps ==
  ASSUME Inv, NEW p \in Posts, RaisePublishes(p)
  PROVE  Keeps
<1>1. CopiesOK(redis', hydrated', local')
  BY StoreOK DEF RaisePublishes, Inv, PostOK
<1>2. PostOK(post', active)
  BY RaisePut, IdleIsNoRaise DEF RaisePublishes, Inv
<1> QED
  BY <1>1, <1>2, UntouchedRows DEF RaisePublishes, Inv, Keeps, db

-----------------------------------------------------------------------------
(* The driver's requests and the student's cancellation.                   *)

LEMMA CallRecords ==
  ASSUME NEW n \in Nodes, NEW f \in Flags
  PROVE  /\ Evicting(n, f) \in Copying /\ Patching(n, f) \in Copying
         /\ \A k \in {"ack", "note", "board"} :
              [pc |-> "write", node |-> n, flag |-> f, kind |-> k] \in Write
         /\ \A k : NewStatus(k) \in Status
BY DEF Evicting, Patching, Copying, Write, NewStatus, Status, Live

LEMMA DriverReadsKeeps ==
  ASSUME Inv, NEW c \in Calls, NEW k \in {"ack", "note", "board"}, NEW f \in Flags,
         NEW n \in Nodes, DriverReads(c, k, f, n)
  PROVE  Keeps
<1>1. CallOK(call')
  BY CallRecords, CallPut DEF DriverReads, Inv
<1> QED
  BY <1>1, UntouchedRows DEF DriverReads, Inv, Keeps, db, cache

LEMMA CancelsKeeps ==
  ASSUME Inv, NEW c \in Calls, NEW f \in Flags, NEW n \in Nodes, Cancels(c, f, n)
  PROVE  Keeps
<1>1. CallOK(call')
  BY CallRecords, CallPut DEF Cancels, Inv
<1>2. RowsOK(flag', active) /\ \A g \in Flags : Kept(g)
  BY UpdateNarrows, Narrowed DEF Cancels, Inv, RowsOK, Status
<1> QED
  BY <1>1, <1>2 DEF Cancels, Inv, Keeps, cache

LEMMA DriverWritesKeeps ==
  ASSUME Inv, NEW c \in Calls, DriverWrites(c)
  PROVE  Keeps
<1>1. call[c] \in Write
  BY DEF DriverWrites, Inv, CallOK, IdleReq, Copying
<1> DEFINE f == call[c].flag
           n == call[c].node
<1>2. f \in Flags /\ n \in Nodes
  BY <1>1 DEF Write
<1>3. \E r \in {IdleReq, Patching(n, f), Evicting(n, f)} : call' = [call EXCEPT ![c] = r]
  BY DEF DriverWrites
<1>4. Update(f, NewStatus(call[c].kind))
  BY DEF DriverWrites
<1> HIDE DEF f, n
<1>5. CallOK(call')
  BY <1>2, <1>3, CallRecords, CallPut DEF Inv
<1>6. NewStatus(call[c].kind) \in Status
  BY DEF NewStatus, Status, Live
<1>7. RowsOK(flag', active) /\ \A g \in Flags : Kept(g)
  BY <1>4, <1>6, UpdateNarrows, Narrowed DEF Inv, RowsOK
<1> QED
  BY <1>5, <1>7 DEF DriverWrites, Inv, Keeps, cache

LEMMA CallCopiesKeeps ==
  ASSUME Inv, NEW c \in Calls, CallEvicts(c) \/ CallPatches(c) \/ CallWritesBack(c)
  PROVE  Keeps
<1>1. call[c] \in Copying
  BY DEF CallEvicts, CallPatches, CallWritesBack, Inv, CallOK, IdleReq, Write
<1>2. call[c].flag \in Flags /\ [call[c] EXCEPT !.pc = "hset"] \in Copying
  BY <1>1 DEF Copying
<1>3. CopiesOK(redis', hydrated', local')
  <2>1. CASE CallEvicts(c)
    BY <2>1, RemoveOK DEF CallEvicts, Inv
  <2>2. CASE CallPatches(c)
    BY <1>2, <2>2, WriteBackOK DEF CallPatches, Inv, cache
  <2>3. CASE CallWritesBack(c)
    BY <1>2, <2>3, WriteBackOK DEF CallWritesBack, Inv
  <2> QED
    BY <2>1, <2>2, <2>3
<1>4. \E r \in {IdleReq, [call[c] EXCEPT !.pc = "hset"]} : call' = [call EXCEPT ![c] = r]
  BY DEF CallEvicts, CallPatches, CallWritesBack, Inv, CallOK
<1>5. CallOK(call')
  BY <1>2, <1>4, CallPut DEF Inv
<1> QED
  BY <1>3, <1>5, UntouchedRows DEF CallEvicts, CallPatches, CallWritesBack, Inv, Keeps, db

-----------------------------------------------------------------------------
(* The steps of a location.                                                *)

LEMMA NextTickOK ==
  ASSUME TickOK(tick), NEW k \in Ticks, tick[k] # IdleReq,
         NEW pc \in {"fill", "read", "sweep"}, NEW todo \in SUBSET Flags,
         tick' = NextTick(k, pc, todo)
  PROVE  TickOK(tick')
<1> DEFINE r == [tick[k] EXCEPT !.pc = pc, !.todo = todo, !.flag = NoFlag]
<1>1. r \in Sweep /\ r.pc = pc
  BY DEF TickOK, Sweep
<1>2. tick' = [tick EXCEPT ![k] = r]
  BY DEF NextTick, TickOK
<1> HIDE DEF r
<1> QED
  BY <1>1, <1>2, TickPut

LEMMA AfterFlagOK ==
  ASSUME TickOK(tick), NEW k \in Ticks, tick[k] # IdleReq, NEW todo \in SUBSET Flags,
         tick' = AfterFlag(k, todo)
  PROVE  TickOK(tick')
BY NextTickOK, TickPut, IdleIsNoRaise DEF AfterFlag

LEMMA TickBeginsKeeps ==
  ASSUME Inv, NEW k \in Ticks, NEW n \in Nodes, TickBegins(k, n)
  PROVE  Keeps
<1> DEFINE r == [pc |-> IF local[n].warm \/ hydrated THEN "read" ELSE "query",
                 node |-> n, todo |-> {}, flag |-> NoFlag]
<1>1. r \in Sweep /\ r.pc # "hset"
  BY DEF Sweep
<1>2. tick' = [tick EXCEPT ![k] = r]
  BY DEF TickBegins
<1> HIDE DEF r
<1>3. TickOK(tick')
  BY <1>1, <1>2, TickPut DEF Inv
<1>4. [local[n] EXCEPT !.warm = TRUE] \in Mirror
  BY DEF Inv, CopiesOK, Mirror
<1>5. local' \in [Nodes -> Mirror]
  BY <1>4 DEF TickBegins, Inv, CopiesOK
<1>6. hydrated' \in BOOLEAN
  BY DEF TickBegins, Inv, CopiesOK
<1> QED
  BY <1>3, <1>5, <1>6, UntouchedRows DEF TickBegins, Inv, CopiesOK, Keeps, db

LEMMA TickQueriesKeeps ==
  ASSUME Inv, NEW k \in Ticks, TickQueries(k)
  PROVE  Keeps
<1>1. tick[k] # IdleReq
  BY IdleIsNoRaise DEF TickQueries
<1>2. \E todo \in SUBSET Flags, pc \in {"fill", "read"} : tick' = NextTick(k, pc, todo)
  BY DEF TickQueries
<1>3. TickOK(tick')
  BY <1>1, <1>2, NextTickOK DEF Inv
<1> QED
  BY <1>3, UntouchedRows DEF TickQueries, Inv, Keeps, db, cache

LEMMA Todo ==
  ASSUME TickOK(tick), NEW k \in Ticks, tick[k].pc # "idle"
  PROVE  tick[k] # IdleReq /\ tick[k].todo \in SUBSET Flags
BY IdleIsNoRaise DEF TickOK, Sweep

LEMMA TickFillsKeeps ==
  ASSUME Inv, NEW k \in Ticks, TickFills(k)
  PROVE  Keeps
<1>1. PICK f \in tick[k].todo : Store(tick[k].node, f) /\ tick' = NextTick(k, "fill", tick[k].todo \ {f})
  BY DEF TickFills
<1>2. tick[k] # IdleReq /\ tick[k].todo \in SUBSET Flags
  BY Todo DEF TickFills, Inv
<1>3. TickOK(tick')
  BY <1>1, <1>2, NextTickOK DEF Inv
<1>4. CopiesOK(redis', hydrated', local')
  BY <1>1, <1>2, StoreOK DEF Inv
<1> QED
  BY <1>3, <1>4, UntouchedRows DEF TickFills, Inv, Keeps, db

LEMMA TickReadsKeeps ==
  ASSUME Inv, NEW k \in Ticks, TickReads(k)
  PROVE  Keeps
<1> DEFINE n == tick[k].node
           seen == IF local[n].warm /\ local[n].map /\ local[n].fresh THEN local[n].flags ELSE redis
           m == [map |-> TRUE, flags |-> seen, fresh |-> TRUE, warm |-> TRUE]
<1>1. tick[k] # IdleReq /\ n \in Nodes
  BY IdleIsNoRaise DEF TickReads, Inv, TickOK, Sweep
<1>2. seen \in SUBSET Flags
  BY <1>1 DEF Inv, CopiesOK, Mirror
<1>3. local' = [local EXCEPT ![n] = m] /\ m \in Mirror
  BY <1>2 DEF TickReads, Mirror
<1>4. tick' = [tick EXCEPT ![k] = IdleReq] \/ tick' = NextTick(k, "sweep", seen)
  BY DEF TickReads
<1> HIDE DEF n, seen, m
<1>5. TickOK(tick')
  BY <1>1, <1>2, <1>4, NextTickOK, TickPut, IdleIsNoRaise DEF Inv
<1>6. local' \in [Nodes -> Mirror]
  BY <1>3 DEF Inv, CopiesOK
<1> QED
  BY <1>5, <1>6, UntouchedRows DEF TickReads, Inv, CopiesOK, Keeps, db

LEMMA TickSweepsKeeps ==
  ASSUME Inv, NEW k \in Ticks, TickSweeps(k)
  PROVE  Keeps
<1> DEFINE n == tick[k].node
<1>1. PICK f \in tick[k].todo :
        /\ \/ UNCHANGED cache \/ Remove(n, f) \/ WriteBack(n, f)
        /\ \/ tick' = AfterFlag(k, tick[k].todo \ {f})
           \/ tick' = [NextTick(k, "hset", tick[k].todo \ {f}) EXCEPT ![k].flag = f]
        /\ \/ UNCHANGED writes
           \/ \E st \in {"acknowledged", "expired"} : writes' = writes \cup {<<st, f>>}
  BY DEF TickSweeps
<1>2. tick[k] # IdleReq /\ tick[k].todo \in SUBSET Flags
  BY Todo DEF TickSweeps, Inv
<1> HIDE DEF n
<1>3. CopiesOK(redis', hydrated', local')
  BY <1>1, <1>2, RemoveOK, WriteBackOK DEF Inv, cache
<1>4. TickOK(tick')
  <2>1. CASE tick' = AfterFlag(k, tick[k].todo \ {f})
    BY <1>2, <2>1, AfterFlagOK DEF Inv
  <2>2. CASE tick' = [NextTick(k, "hset", tick[k].todo \ {f}) EXCEPT ![k].flag = f]
    <3> DEFINE r == [tick[k] EXCEPT !.pc = "hset", !.todo = tick[k].todo \ {f}, !.flag = f]
    <3>1. r \in Sweep /\ r.flag = f
      BY <1>2 DEF Inv, TickOK, Sweep
    <3>2. tick' = [tick EXCEPT ![k] = r]
      BY <1>2, <2>2 DEF NextTick, Inv, TickOK, Sweep
    <3> HIDE DEF r
    <3> QED
      BY <1>2, <3>1, <3>2, TickPut DEF Inv
  <2> QED
    BY <1>1, <2>1, <2>2
<1>5. writes' \in SUBSET Updates
  BY <1>1, <1>2 DEF Inv, Updates
<1> QED
  BY <1>3, <1>4, <1>5, UntouchedRows DEF TickSweeps, Inv, Keeps, db

LEMMA TickWritesBackKeeps ==
  ASSUME Inv, NEW k \in Ticks, TickWritesBack(k)
  PROVE  Keeps
<1>1. tick[k] # IdleReq /\ tick[k].todo \in SUBSET Flags /\ tick[k].flag \in Flags
  BY Todo DEF TickWritesBack, Inv, TickOK
<1>2. TickOK(tick')
  BY <1>1, AfterFlagOK DEF TickWritesBack, Inv
<1>3. CopiesOK(redis', hydrated', local')
  BY <1>1, WriteBackOK DEF TickWritesBack, Inv
<1>4. writes' \in SUBSET Updates
  BY <1>1 DEF TickWritesBack, Inv, Updates
<1> QED
  BY <1>2, <1>3, <1>4, UntouchedRows DEF TickWritesBack, Inv, Keeps, db

-----------------------------------------------------------------------------
(* Starts and ends of the trip.                                            *)

(* Once the trip is over, no raise takes it to be under way.               *)
LEMMA RaisesHearOfEnd ==
  ASSUME NEW act, PostOK(post, act), NEW now, post' = [p \in Posts |-> Over(post[p])]
  PROVE  PostOK(post', now)
<1> SUFFICES ASSUME NEW p \in Posts
             PROVE  /\ Over(post[p]) \in {IdleReq} \cup Raise
                    /\ Over(post[p]).pc = "publish" => Over(post[p]).flag \in Flags
                    /\ Over(post[p]).pc # "idle" => Over(post[p]).trip # "running"
  BY DEF PostOK
<1>1. CASE post[p] = IdleReq
  BY <1>1, IdleIsNoRaise DEF Over
<1>2. CASE post[p] \in Raise /\ post[p].trip = "running"
  <2>1. Over(post[p]) = [post[p] EXCEPT !.trip = "over"]
    BY <1>2, IdleIsNoRaise DEF Over
  <2> QED
    BY <1>2, <2>1 DEF Raise, PostOK
<1>3. CASE post[p] \in Raise /\ post[p].trip # "running"
  BY <1>3 DEF Over, PostOK
<1> QED
  BY <1>1, <1>2, <1>3 DEF PostOK

LEMMA StartTripKeeps ==
  ASSUME Inv, StartTrip
  PROVE  Keeps
<1> DEFINE w == WithStatus(Flags, "gone")
<1>1. flag \in [Flags -> Row] /\ "gone" \in Status /\ "gone" \notin Live
  BY DEF Inv, RowsOK, Status, Live
<1>2. ASSUME NEW f \in Flags
      PROVE  w[f] \in Row /\ w[f].by = flag[f].by /\ w[f].status \in {"none", "gone"}
  BY <1>1, StatusValue, GoneValue
<1>3. flag' = [f \in Flags |-> Over(w[f])]
  BY DEF StartTrip, Purged
<1>8. ASSUME NEW f \in Flags, flag[f].status \in {"boarded", "cancelled"}
      PROVE  w[f].status = "gone"
  BY <1>1, <1>8, GoneValue
<1> HIDE DEF w
<1>4. ASSUME NEW f \in Flags
      PROVE  Over(w[f]) \in Row /\ Over(w[f]).status = w[f].status
  <2>1. Over(w[f]) = w[f] \/ Over(w[f]) = [w[f] EXCEPT !.trip = "over"]
    BY DEF Over
  <2> QED
    BY <1>2, <2>1 DEF Row, TripOf
<1>5. RowsOK(flag', TRUE)
  <2>1. flag' \in [Flags -> Row] /\ \A f \in Flags : flag'[f].status \in {"none", "gone"}
    BY <1>2, <1>3, <1>4
  <2> QED
    BY <2>1 DEF RowsOK, OneLive, Ours, Live
<1>6. \A f \in Flags : Kept(f)
  BY <1>3, <1>4, <1>8 DEF Kept
<1>7. PostOK(post', TRUE)
  BY RaisesHearOfEnd DEF StartTrip, Inv
<1> QED
  BY <1>5, <1>6, <1>7 DEF StartTrip, Inv, Keeps, cache

LEMMA NoneLive ==
  ASSUME NEW fl \in [Flags -> Row], NEW act, \A f \in Flags : fl[f].status \notin Live
  PROVE  RowsOK(fl, act)
BY DEF RowsOK, OneLive, Ours

LEMMA EndTripKeeps ==
  ASSUME Inv, NEW e \in Ends, NEW n \in Nodes, NEW reaped \in BOOLEAN, EndTrip(e, n, reaped)
  PROVE  Keeps
<1>1. RowsOK(flag', FALSE) /\ \A f \in Flags : Kept(f)
  BY GoneNarrows, NoneLive DEF EndTrip, Inv, RowsOK, Narrows
<1>2. PostOK(post', FALSE)
  BY RaisesHearOfEnd DEF EndTrip, Inv
<1> DEFINE r == [pc |-> IF reaped THEN "evict" ELSE "delete", node |-> n, reaped |-> reaped]
<1>3. r \in Cleaning /\ end' = [end EXCEPT ![e] = r]
  BY DEF Cleaning, EndTrip
<1> HIDE DEF r
<1>4. EndOK(end')
  BY <1>3, EndPut DEF Inv
<1> QED
  BY <1>1, <1>2, <1>4 DEF EndTrip, Inv, Keeps, cache

LEMMA CleaningGoesOn ==
  ASSUME EndOK(end), NEW e \in Ends, NEW pc \in {"evict", "expire"}, end[e].pc # "idle",
         end' = [end EXCEPT ![e].pc = pc]
  PROVE  EndOK(end')
<1> DEFINE r == [end[e] EXCEPT !.pc = pc]
<1>1. r \in Cleaning /\ end' = [end EXCEPT ![e] = r]
  BY IdleIsNoRaise DEF EndOK, Cleaning
<1> HIDE DEF r
<1> QED
  BY <1>1, EndPut

LEMMA EndDeletesKeeps ==
  ASSUME Inv, NEW e \in Ends, EndDeletes(e)
  PROVE  Keeps
<1>1. RowsOK(flag', active) /\ \A f \in Flags : Kept(f)
  BY GoneNarrows, Narrowed DEF EndDeletes, Inv, RowsOK
<1>2. EndOK(end')
  BY CleaningGoesOn DEF EndDeletes, Inv
<1> QED
  BY <1>1, <1>2 DEF EndDeletes, Inv, Keeps, cache

LEMMA EndEvictsKeeps ==
  ASSUME Inv, NEW e \in Ends, EndEvicts(e)
  PROVE  Keeps
<1>1. Empty \in Mirror
  BY DEF Empty, Mirror
<1>2. CopiesOK(redis', hydrated', local')
  BY <1>1 DEF EndEvicts, Inv, CopiesOK
<1>3. EndOK(end')
  BY CleaningGoesOn, EndPut DEF EndEvicts, Inv
<1> QED
  BY <1>2, <1>3, UntouchedRows DEF EndEvicts, Inv, Keeps, db

LEMMA EndExpiresKeeps ==
  ASSUME Inv, NEW e \in Ends, EndExpires(e)
  PROVE  Keeps
<1>1. RowsOK(flag', active) /\ \A f \in Flags : Kept(f)
  BY ExpiresLive, Narrowed DEF EndExpires, Inv, RowsOK, IsLive
<1>2. EndOK(end')
  BY EndPut DEF EndExpires, Inv
<1> QED
  BY <1>1, <1>2 DEF EndExpires, Inv, Keeps, cache

-----------------------------------------------------------------------------
(* Time, the cron job and faults.                                          *)

LEMMA WriteLandsKeeps ==
  ASSUME Inv, WriteLands \/ WriteFails
  PROVE  Keeps
<1>1. PICK w \in writes : /\ writes' = writes \ {w}
                          /\ Update(w[2], w[1]) \/ UNCHANGED flag
  BY DEF WriteLands, WriteFails, db
<1>2. w[1] \in Status
  BY DEF Inv, Updates, Status, Live
<1>3. RowsOK(flag', active) /\ \A f \in Flags : Kept(f)
  <2>1. CASE UNCHANGED flag
    BY <2>1, UntouchedRows DEF Inv
  <2>2. CASE Update(w[2], w[1])
    BY <1>2, <2>2, UpdateNarrows, Narrowed DEF Inv, RowsOK
  <2> QED
    BY <1>1, <2>1, <2>2
<1>4. UNCHANGED <<active, redis, hydrated, local, post, call, tick, end>>
  BY DEF WriteLands, WriteFails, db, cache, served
<1> QED
  BY <1>1, <1>3, <1>4 DEF Inv, Keeps

LEMMA TurnsLateKeeps ==
  ASSUME Inv, NEW f \in Flags, TurnsLate(f)
  PROVE  Keeps
<1>1. [flag[f] EXCEPT !.late = TRUE] \in Row
  BY RowChanges DEF Inv, RowsOK, Status
<1> DEFINE r == [flag[f] EXCEPT !.late = TRUE]
<1>2. flag' = [flag EXCEPT ![f] = r] /\ flag \in [Flags -> Row]
  BY DEF TurnsLate, Inv, RowsOK
<1>3. r.status = flag[f].status /\ r.by = flag[f].by /\ r.trip = flag[f].trip
  BY <1>2 DEF Row
<1> HIDE DEF r
<1>4. Narrows(flag, flag') /\ \A g \in Flags : Kept(g)
  BY <1>1, <1>2, <1>3 DEF Narrows, Kept, r
<1>5. RowsOK(flag', active)
  BY <1>4, Narrowed DEF Inv
<1> QED
  BY <1>4, <1>5 DEF TurnsLate, Inv, Keeps, cache, served

LEMMA CopiesAgeKeeps ==
  ASSUME Inv,
         \/ SentinelExpires \/ Flush
         \/ \E n \in Nodes : MirrorAges(n)
         \/ \E n \in Nodes, f \in Flags : CronEvicts(n, f)
  PROVE  Keeps
<1>1. CopiesOK(redis', hydrated', local')
  <2>1. CASE SentinelExpires \/ Flush
    BY <2>1 DEF SentinelExpires, Flush, Inv, CopiesOK
  <2>2. ASSUME NEW n \in Nodes, MirrorAges(n)  PROVE CopiesOK(redis', hydrated', local')
    <3>1. [local[n] EXCEPT !.fresh = FALSE] \in Mirror
      BY DEF Inv, CopiesOK, Mirror
    <3> QED
      BY <2>2, <3>1 DEF MirrorAges, Inv, CopiesOK
  <2>3. ASSUME NEW n \in Nodes, NEW f \in Flags, CronEvicts(n, f)
        PROVE  CopiesOK(redis', hydrated', local')
    BY <2>3, RemoveOK DEF CronEvicts, Inv
  <2> QED
    BY <2>1, <2>2, <2>3
<1>2. UNCHANGED <<active, flag, post, call, tick, end, writes>>
  BY DEF SentinelExpires, Flush, MirrorAges, CronEvicts, db, served
<1> QED
  BY <1>1, <1>2, UntouchedRows DEF Inv, Keeps

LEMMA CronExpiresKeeps ==
  ASSUME Inv, CronExpires
  PROVE  Keeps
<1>1. RowsOK(flag', active) /\ \A f \in Flags : Kept(f)
  BY ExpiresLive, Narrowed DEF CronExpires, LiveAndLate, Inv, RowsOK, IsLive
<1> QED
  BY <1>1 DEF CronExpires, Inv, Keeps, cache, served

LEMMA RestartKeeps ==
  ASSUME Inv, NEW n \in Nodes, Restart(n)
  PROVE  Keeps
<1>1. Empty \in Mirror
  BY DEF Empty, Mirror
<1>2. CopiesOK(redis', hydrated', local')
  BY <1>1 DEF Restart, Inv, CopiesOK
<1>3. PostOK(post', active)
  <2>1. DOMAIN post = Posts
    BY DEF Inv, PostOK
  <2>2. post' = [p \in Posts |-> IF post[p] # IdleReq /\ post[p].node = n THEN IdleReq ELSE post[p]]
    BY <2>1 DEF Restart
  <2> QED
    BY <2>2, IdleIsNoRaise DEF Inv, PostOK
<1>4. CallOK(call')
  BY DEF Restart, Inv, CallOK
<1>5. TickOK(tick')
  BY IdleIsNoRaise DEF Restart, Inv, TickOK
<1>6. EndOK(end')
  BY DEF Restart, Inv, EndOK
<1> QED
  BY <1>2, <1>3, <1>4, <1>5, <1>6, UntouchedRows DEF Restart, Inv, Keeps, db

-----------------------------------------------------------------------------
LEMMA InitInv == Init => Inv
<1> SUFFICES ASSUME Init  PROVE Inv
  OBVIOUS
<1>1. RowsOK(flag, active)
  <2>1. PICK s \in Students :
          flag = [f \in Flags |-> [status |-> "none", by |-> s, trip |-> "none", late |-> FALSE]]
    BY DEF Init
  <2>2. flag \in [Flags -> Row] /\ \A f \in Flags : flag[f].status \notin Live
    BY <2>1 DEF Row, Status, TripOf, Live
  <2> QED
    BY <2>2, NoneLive
<1>2. CopiesOK(redis, hydrated, local)
  BY DEF Init, CopiesOK, Empty, Mirror
<1>3. PostOK(post, active) /\ CallOK(call) /\ TickOK(tick) /\ EndOK(end)
  BY IdleIsNoRaise DEF Init, PostOK, CallOK, TickOK, EndOK
<1> QED
  BY <1>1, <1>2, <1>3 DEF Init, Inv

LEMMA EveryStepKeeps == Inv /\ [Next]_flagVars => Keeps
<1> SUFFICES ASSUME Inv, [Next]_flagVars  PROVE Keeps
  OBVIOUS
<1>1. CASE UNCHANGED flagVars
  BY <1>1, UntouchedRows DEF flagVars, db, cache, served, Inv, Keeps
<1>2. ASSUME NEW p \in Posts, PostStep(p)  PROVE Keeps
  BY <1>2, RaiseReadsKeeps, RaiseExpiresKeeps, RaiseRefusedKeeps, RaiseInsertsKeeps,
     RaiseConflictsKeeps, RaisePublishesKeeps DEF PostStep
<1>3. ASSUME NEW c \in Calls, CallStep(c)  PROVE Keeps
  BY <1>3, DriverReadsKeeps, CancelsKeeps, DriverWritesKeeps, CallCopiesKeeps DEF CallStep
<1>4. ASSUME NEW k \in Ticks, TickStep(k)  PROVE Keeps
  BY <1>4, TickBeginsKeeps, TickQueriesKeeps, TickFillsKeeps, TickReadsKeeps, TickSweepsKeeps,
     TickWritesBackKeeps DEF TickStep
<1>5. ASSUME NEW e \in Ends, EndStep(e)  PROVE Keeps
  BY <1>5, EndTripKeeps, EndDeletesKeeps, EndEvictsKeeps, EndExpiresKeeps DEF EndStep
<1>6. CASE Ageing
  BY <1>6, TurnsLateKeeps, CopiesAgeKeeps, CronExpiresKeeps DEF Ageing
<1> QED
  BY <1>1, <1>2, <1>3, <1>4, <1>5, <1>6, StartTripKeeps, WriteLandsKeeps, CopiesAgeKeeps,
     RestartKeeps DEF Next, Requests

(* The rows, copies and requests are always what Inv says.                 *)
THEOREM FlagsInvariant == Spec => []Inv
<1>1. Inv /\ [Next]_flagVars => Inv'
  BY EveryStepKeeps DEF Keeps
<1> QED
  BY InitInv, <1>1, PTL DEF Spec

LEMMA OneIsEnough ==
  ASSUME NEW S, IsFiniteSet(S), \A f, g \in S : f = g
  PROVE  Cardinality(S) <= 1
<1>1. CASE S = {}
  BY <1>1, FS_EmptySet
<1>2. CASE S # {}
  <2>1. PICK f \in S : S = {f}
    BY <1>2
  <2> QED
    BY <2>1, FS_Singleton
<1> QED
  BY <1>1, <1>2

LEMMA InvIsTyped == Inv => TypeOK
<1> SUFFICES ASSUME Inv  PROVE TypeOK
  OBVIOUS
<1>1. \A r \in Raise : r \in [pc : {"expire", "conflict", "publish"}, node : Nodes, by : Students,
            stale : SUBSET Flags, trip : TripOf, retry : BOOLEAN, flag : Flags \cup {NoFlag}]
  BY DEF Raise, TripOf
<1>2. ASSUME NEW s \in Students  PROVE Cardinality(LiveOf(s)) <= 1
  <2>1. IsFiniteSet(Flags)
    BY FS_Interval, BoundsAssumption DEF Flags
  <2>2. IsFiniteSet(LiveOf(s))
    BY <2>1, FS_Subset DEF LiveOf
  <2>3. \A f, g \in LiveOf(s) : f = g
    BY DEF LiveOf, IsLive, Inv, RowsOK, OneLive
  <2> QED
    BY <2>2, <2>3, OneIsEnough
<1>3. post \in [Posts -> {IdleReq} \cup
           [pc : {"expire", "conflict", "publish"}, node : Nodes, by : Students,
            stale : SUBSET Flags, trip : TripOf, retry : BOOLEAN, flag : Flags \cup {NoFlag}]]
  BY <1>1 DEF Inv, PostOK
<1> QED
  BY <1>2, <1>3 DEF Inv, RowsOK, CopiesOK, CallOK, TickOK, EndOK, Mirror, Write, Copying, Sweep,
     Cleaning, Updates, TypeOK

(* Whatever is raised, cancelled, acknowledged, swept and expired at once, *)
(* rows, copies and requests keep their ranges and a student has one live  *)
(* flag at most (idx_waiting_flags_one_active_student).                    *)
THEOREM FlagsTyped == Spec => []TypeOK
BY FlagsInvariant, InvIsTyped, PTL

(* No end, reap, handover or start of a trip leaves a live flag behind; a  *)
(* live flag of no trip under way is one whose raise came too late.        *)
THEOREM FlagsAreOfTheTrip == Spec => []NoLeftovers
<1>1. Inv => NoLeftovers
  BY DEF Inv, RowsOK, Ours, NoLeftovers, IsLive
<1> QED
  BY <1>1, FlagsInvariant, PTL

(* A boarded or cancelled flag stays so until it is deleted, unless a      *)
(* raise that had found it late expires it without a second look.          *)
THEOREM FinalFlagsStay == Spec => FinalStays
<1>1. Inv /\ [Next]_flagVars =>
        [\A f \in Flags :
           flag[f].status \in {"boarded", "cancelled"} =>
             \/ flag'[f].status \in {flag[f].status, "gone"}
             \/ \E p \in Posts : post[p] # IdleReq /\ f \in post[p].stale /\ post'[p] # post[p]]_flagVars
  BY EveryStepKeeps DEF Keeps, Kept
<1> QED
  BY <1>1, FlagsInvariant, PTL DEF Spec, FinalStays
=============================================================================
