------------------------- MODULE RefundHistoryProofs -------------------------
(***************************************************************************)
(* For any number of refunds, amounts and instances: the refund history    *)
(* has a refund as processed at most once, and only one the gateway has    *)
(* paid, whatever is delivered again and whichever write comes last.       *)
(*                                                                         *)
(* A write puts back a history that was read earlier, so the invariant is  *)
(* kept by every history that is about to be written as well; and it says  *)
(* that a refund paid at once never has an entry that is not processed:    *)
(* the notice of its creation would otherwise turn that into a second one. *)
(*                                                                         *)
(* From that the amounts follow, whatever they are: the processed entries  *)
(* are different refunds that the gateway has paid, so they add up to no   *)
(* more than what went back, and what went back never exceeds the capture. *)
(***************************************************************************)
EXTENDS RefundHistory, FiniteSetTheorems, SequenceTheorems, WellFoundedInduction, TLAPS

Entries == [ref : Refunds, st : {"created", "processed", "failed"}]

HistoryOK(h) ==
  /\ h \in Seq(Entries)
  /\ OnceEach(h)
  /\ \A i \in DOMAIN h : /\ h[i].st = "processed" => gateway[h[i].ref] = "processed"
                         /\ h[i].ref \in Instant => h[i].st = "processed"

GatewayOK ==
  /\ gateway \in [Refunds -> {"none", "created", "processed", "failed"}]
  /\ \A r \in Instant : gateway[r] \in {"none", "processed"}

(* An update of the metadata, whatever it is about.                        *)
Update(x) == x = [pc |-> x.pc, history |-> x.history, refunded |-> x.refunded]

ExecOK ==
  /\ exec = [e \in Servers |-> exec[e]]
  /\ \A e \in Servers : Update(exec[e]) /\ HistoryOK(exec[e].history)

IInv == GatewayOK /\ HistoryOK(history) /\ ExecOK

-----------------------------------------------------------------------------
LEMMA EntryFacts ==
  ASSUME NEW r \in Refunds, NEW st \in {"created", "processed", "failed"}
  PROVE  Entry(r, st) \in Entries /\ Entry(r, st).ref = r /\ Entry(r, st).st = st
BY DEF Entry, Entries

(* A processed entry is appended only for a refund that has none.          *)
LEMMA AppendKeeps ==
  ASSUME NEW h, HistoryOK(h), NEW r \in Refunds, NEW st \in {"created", "processed", "failed"},
         st = "processed" => gateway[r] = "processed" /\ ~ Has(h, r, "processed"),
         r \in Instant => st = "processed"
  PROVE  HistoryOK(Append(h, Entry(r, st)))
<1> DEFINE g == Append(h, Entry(r, st))
<1>1. /\ g \in Seq(Entries) /\ Len(g) = Len(h) + 1 /\ Len(h) \in Nat
      /\ \A i \in 1 .. Len(h) : g[i] = h[i]
      /\ g[Len(h) + 1] = Entry(r, st)
  BY EntryFacts, AppendProperties DEF HistoryOK
<1>2. DOMAIN g = 1 .. (Len(h) + 1) /\ DOMAIN h = 1 .. Len(h)
  BY <1>1 DEF HistoryOK
<1> HIDE DEF g
<1>3. \A i \in DOMAIN g : (i \in DOMAIN h /\ g[i] = h[i]) \/ (i = Len(h) + 1 /\ g[i] = Entry(r, st))
  BY <1>1, <1>2
<1>4. OnceEach(g)
  <2> SUFFICES ASSUME NEW i \in DOMAIN g, NEW j \in DOMAIN g, g[i].st = "processed", g[j] = g[i]
               PROVE  i = j
    BY DEF OnceEach
  <2>1. CASE i \in DOMAIN h /\ j \in DOMAIN h /\ g[i] = h[i] /\ g[j] = h[j]
    BY <2>1 DEF HistoryOK, OnceEach
  <2>2. ASSUME NEW k \in DOMAIN h, h[k] = Entry(r, st), st = "processed" PROVE FALSE
    BY <2>2 DEF Has
  <2>3. QED
    BY <1>3, <2>1, <2>2, EntryFacts
<1>5. \A i \in DOMAIN g : /\ g[i].st = "processed" => gateway[g[i].ref] = "processed"
                          /\ g[i].ref \in Instant => g[i].st = "processed"
  BY <1>3, EntryFacts DEF HistoryOK
<1>6. QED
  BY <1>1, <1>4, <1>5 DEF g, HistoryOK

LEMMA NotedKeeps ==
  ASSUME NEW h, HistoryOK(h), NEW r \in Refunds, NEW st \in {"created", "processed", "failed"},
         st = "processed" => gateway[r] = "processed",
         r \in Instant <=> st = "processed"
  PROVE  HistoryOK(Noted(h, r, st))
<1> DEFINE First(i) == h[i].ref = r /\ \A j \in 1 .. (i - 1) : h[j].ref # r
           g == [i \in DOMAIN h |-> IF First(i) THEN Entry(r, st) ELSE h[i]]
<1>1. DOMAIN h = 1 .. Len(h) /\ Len(h) \in Nat /\ \A i \in DOMAIN h : h[i] \in Entries
  BY DEF HistoryOK
<1>2. CASE \A i \in DOMAIN h : h[i].ref # r
  <2>1. ~ Has(h, r, "processed")
    BY <1>2 DEF Has, Entry
  <2>2. QED
    BY <1>2, <2>1, AppendKeeps DEF Noted
<1>3. ASSUME ~ \A i \in DOMAIN h : h[i].ref # r
      PROVE  HistoryOK(g)
  <2>1. /\ \A i \in DOMAIN h : (g[i] = Entry(r, st) /\ First(i)) \/ (g[i] = h[i] /\ ~ First(i))
        /\ DOMAIN g = DOMAIN h
    OBVIOUS
  <2>2. g \in Seq(Entries)
    <3>1. \A i \in 1 .. Len(h) : g[i] \in Entries
      BY <1>1, <2>1, EntryFacts
    <3>2. g \in [1 .. Len(h) -> Entries]
      BY <1>1, <3>1
    <3> HIDE DEF g
    <3>3. QED
      BY <1>1, <3>2
  <2>3. ASSUME r \in Instant PROVE \A i \in DOMAIN h : g[i] = h[i]
    <3>1. ASSUME NEW i \in DOMAIN h, First(i) PROVE h[i] = Entry(r, st)
      <4>1. h[i].st = "processed" /\ st = "processed" /\ h[i].ref = r /\ h[i] \in Entries
        BY <1>1, <2>3, <3>1 DEF HistoryOK
      <4>2. QED
        BY <4>1 DEF Entry, Entries
    <3>2. QED
      BY <2>1, <3>1
  <2>4. ASSUME r \notin Instant
        PROVE  \A i \in DOMAIN h : g[i] = h[i] \/ (g[i].st # "processed" /\ g[i].ref = r)
    BY <2>1, <2>4, EntryFacts
  <2> HIDE DEF g, First
  <2>5. OnceEach(g)
    <3>1. CASE r \in Instant
      BY <2>1, <2>3, <3>1 DEF HistoryOK, OnceEach
    <3>2. CASE r \notin Instant
      BY <2>1, <2>4, <3>2 DEF HistoryOK, OnceEach
    <3>3. QED
      BY <3>1, <3>2
  <2>6. \A i \in DOMAIN g : /\ g[i].st = "processed" => gateway[g[i].ref] = "processed"
                            /\ g[i].ref \in Instant => g[i].st = "processed"
    BY <2>1, <2>3, <2>4 DEF HistoryOK
  <2>7. QED
    BY <2>2, <2>5, <2>6 DEF HistoryOK
<1>4. QED
  BY <1>2, <1>3 DEF Noted

-----------------------------------------------------------------------------
(* The gateway only makes refunds that it has not made before, so what a   *)
(* history says stays true.                                                *)
LEMMA HistoryStaysOK ==
  ASSUME NEW h, HistoryOK(h), GatewayOK,
         \A r \in Refunds : gateway[r] = "processed" => gateway'[r] = "processed"
  PROVE  HistoryOK(h)'
<1>1. \A i \in DOMAIN h : h[i] \in Entries
  BY DEF HistoryOK
<1>2. \A i \in DOMAIN h : h[i].ref \in Refunds
  BY <1>1 DEF Entries
<1>3. \A i \in DOMAIN h : h[i].st = "processed" => gateway'[h[i].ref] = "processed"
  BY <1>2 DEF HistoryOK
<1>4. QED
  BY <1>3 DEF HistoryOK, OnceEach

LEMMA GatewayKeeps ==
  ASSUME IInv, NEW r \in Refunds, MakeRefund(r) \/ EndRefund(r)
  PROVE  IInv'
<1>1. GatewayOK'
  BY AmountAssumption DEF MakeRefund, EndRefund, IInv, GatewayOK
<1>2. \A q \in Refunds : gateway[q] = "processed" => gateway'[q] = "processed"
  BY DEF MakeRefund, EndRefund, IInv, GatewayOK
<1>3. history' = history /\ exec' = exec
  BY DEF MakeRefund, EndRefund
<1>4. HistoryOK(history)'
  BY <1>2, <1>3, HistoryStaysOK DEF IInv, HistoryOK
<1>5. ExecOK'
  BY <1>2, <1>3, HistoryStaysOK DEF IInv, ExecOK, HistoryOK, Update
<1>6. QED
  BY <1>1, <1>4, <1>5 DEF IInv

LEMMA SettlesKeeps ==
  ASSUME IInv, NEW r \in Refunds, gateway[r] = "processed", Settles(r), UNCHANGED <<gateway, exec>>
  PROVE  IInv'
<1>1. HistoryOK(history')
  <2>1. CASE Counts(r)
    BY <2>1, AppendKeeps DEF Counts, Replayed, IInv
  <2>2. CASE UNCHANGED history
    BY <2>2 DEF IInv
  <2>3. QED
    BY <2>1, <2>2 DEF Settles
<1>2. HistoryOK(history)'
  BY <1>1 DEF HistoryOK, OnceEach
<1>3. QED
  BY <1>2 DEF IInv, GatewayOK, ExecOK, HistoryOK, Update, OnceEach

(* An instance takes up, goes on with or drops an update of the metadata.  *)
LEMMA UpdateKeeps ==
  ASSUME IInv, NEW e \in Servers, NEW x, Update(x), HistoryOK(x.history),
         exec' = [exec EXCEPT ![e] = x], UNCHANGED <<gateway, history>>
  PROVE  IInv'
<1>1. exec' = [f \in Servers |-> exec'[f]]
  BY DEF IInv, ExecOK
<1>2. \A f \in Servers : exec'[f] = IF f = e THEN x ELSE exec[f]
  BY DEF IInv, ExecOK
<1>3. \A f \in Servers : Update(exec'[f]) /\ HistoryOK(exec'[f].history)
  BY <1>2 DEF IInv, ExecOK
<1>4. ExecOK'
  BY <1>1, <1>3 DEF ExecOK, HistoryOK, OnceEach, Update
<1>5. QED
  BY <1>4 DEF IInv, GatewayOK, HistoryOK, OnceEach

LEMMA NoticeReadsKeeps ==
  ASSUME IInv, NEW e \in Servers, NEW r \in Refunds, NEW ev \in {"created", "failed"},
         NoticeReads(e, r, ev)
  PROVE  IInv'
<1> DEFINE st == IF ev = "created" /\ r \in Instant THEN "processed" ELSE ev
           x == [pc |-> "merge", history |-> Noted(history, r, st), refunded |-> 0]
<1>1. r \in Instant => gateway[r] = "processed" /\ ev = "created"
  BY DEF NoticeReads, Sent, IInv, GatewayOK
<1>2. /\ st \in {"created", "processed", "failed"}
      /\ st = "processed" => gateway[r] = "processed"
      /\ r \in Instant <=> st = "processed"
  BY <1>1
<1>3. exec' = [exec EXCEPT ![e] = x] /\ UNCHANGED <<gateway, history>>
  BY DEF NoticeReads
<1> HIDE DEF st
<1>4. HistoryOK(Noted(history, r, st))
  BY <1>2, NotedKeeps DEF IInv
<1>5. Update(x) /\ x.history = Noted(history, r, st)
  BY DEF Update
<1> HIDE DEF x
<1>6. QED
  BY <1>3, <1>4, <1>5, UpdateKeeps

LEMMA IdleUpdate == Update(Idle) /\ HistoryOK(Idle.history)
<1>1. Update(Idle) /\ Idle.history = <<>>
  BY DEF Update, Idle
<1>2. HistoryOK(<<>>)
  BY DEF HistoryOK, OnceEach
<1>3. QED
  BY <1>1, <1>2

LEMMA MetadataReadsKeeps ==
  ASSUME IInv, NEW e \in Servers, MetadataReads(e)
  PROVE  IInv'
<1> DEFINE x == [pc |-> "write", history |-> exec[e].history, refunded |-> refunded]
<1>1. Update(x) /\ x.history = exec[e].history
  BY DEF Update
<1>2. exec' = [exec EXCEPT ![e] = x] /\ UNCHANGED <<gateway, history>>
  BY DEF MetadataReads
<1>3. HistoryOK(x.history)
  BY <1>1 DEF IInv, ExecOK
<1> HIDE DEF x
<1>4. QED
  BY <1>1, <1>2, <1>3, UpdateKeeps

LEMMA OtherReadsKeeps ==
  ASSUME IInv, NEW e \in Servers, OtherReads(e)
  PROVE  IInv'
<1> DEFINE x == [pc |-> "write", history |-> history, refunded |-> refunded]
<1>1. Update(x) /\ x.history = history
  BY DEF Update
<1>2. exec' = [exec EXCEPT ![e] = x] /\ UNCHANGED <<gateway, history>>
  BY DEF OtherReads
<1>3. HistoryOK(x.history)
  BY <1>1 DEF IInv
<1> HIDE DEF x
<1>4. QED
  BY <1>1, <1>2, <1>3, UpdateKeeps

LEMMA MetadataWritesKeeps ==
  ASSUME IInv, NEW e \in Servers, MetadataWrites(e)
  PROVE  IInv'
<1>1. HistoryOK(exec[e].history) /\ history' = exec[e].history
  BY DEF MetadataWrites, IInv, ExecOK
<1>2. GatewayOK' /\ HistoryOK(history)'
  BY <1>1 DEF MetadataWrites, IInv, GatewayOK, HistoryOK, OnceEach
<1>3. /\ exec' = [f \in Servers |-> exec'[f]]
      /\ \A f \in Servers : exec'[f] = IF f = e THEN Idle ELSE exec[f]
  BY DEF MetadataWrites, IInv, ExecOK
<1>4. \A f \in Servers : Update(exec'[f]) /\ HistoryOK(exec'[f].history)
  BY <1>3, IdleUpdate DEF IInv, ExecOK
<1>5. ExecOK'
  BY <1>3, <1>4 DEF MetadataWrites, ExecOK, HistoryOK, OnceEach, Update
<1>6. QED
  BY <1>2, <1>5 DEF IInv

LEMMA GivesUpKeeps ==
  ASSUME IInv, NEW e \in Servers, GivesUp(e)
  PROVE  IInv'
BY IdleUpdate, UpdateKeeps DEF GivesUp

-----------------------------------------------------------------------------
(* The histories, stored or about to be written, keep their invariant.     *)
THEOREM HistoryInvariant == Spec => []IInv
<1>1. Init => IInv
  <2> SUFFICES ASSUME Init PROVE IInv
    OBVIOUS
  <2>1. HistoryOK(<<>>)
    BY DEF HistoryOK, OnceEach
  <2>2. ExecOK
    BY IdleUpdate DEF Init, ExecOK
  <2>3. QED
    BY <2>1, <2>2, AmountAssumption DEF Init, IInv, GatewayOK
<1>2. IInv /\ [Next]_vars => IInv'
  <2> SUFFICES ASSUME IInv, [Next]_vars PROVE IInv'
    OBVIOUS
  <2>1. ASSUME NEW r \in Refunds, MakeRefund(r) \/ EndRefund(r) PROVE IInv'
    BY <2>1, GatewayKeeps
  <2>2. ASSUME NEW r \in Refunds, ProcessedEvent(r) \/ FinanceConfirms(r) PROVE IInv'
    BY <2>2, SettlesKeeps DEF ProcessedEvent, FinanceConfirms, Sent
  <2>3. ASSUME NEW e \in Servers, NEW r \in Refunds, NEW ev \in {"created", "failed"},
               NoticeReads(e, r, ev)
        PROVE  IInv'
    BY <2>3, NoticeReadsKeeps
  <2>4. ASSUME NEW e \in Servers,
               MetadataReads(e) \/ OtherReads(e) \/ MetadataWrites(e) \/ GivesUp(e)
        PROVE  IInv'
    BY <2>4, MetadataReadsKeeps, OtherReadsKeeps, MetadataWritesKeeps, GivesUpKeeps
  <2>5. CASE UNCHANGED vars
    BY <2>5 DEF vars, IInv, GatewayOK, HistoryOK, OnceEach, ExecOK, Update
  <2>6. QED
    BY <2>1, <2>2, <2>3, <2>4, <2>5 DEF Next
<1>3. QED
  BY <1>1, <1>2, PTL DEF Spec

(* Whatever is delivered again, out of order, or overwritten by an update  *)
(* that read older metadata, no refund is counted twice, and none that the *)
(* gateway has not paid.                                                   *)
THEOREM RefundsCountedOnce == Spec => []CountedOnce
<1>1. IInv => CountedOnce
  BY DEF IInv, HistoryOK, CountedOnce
<1> QED
  BY <1>1, HistoryInvariant, PTL

-----------------------------------------------------------------------------
(***************************************************************************)
(* Sums.  A fold over a set adds up in an order that nobody knows, so the  *)
(* lemmas are about the function it is defined by.  A property of finite   *)
(* sets that some set lacks is lacked by a smallest one: that is how they  *)
(* are proved.                                                             *)
(***************************************************************************)

\* A set of natural numbers has a least one.
LEMMA Least ==
  ASSUME NEW T, T \subseteq Nat, T # {}
  PROVE  \E n \in T : \A k \in T : n <= k
<1> DEFINE R == OpToRel(<, Nat)
<1>1. PICK n \in T : \A k \in T : ~ (<<k, n>> \in R)
  <2> HIDE DEF R
  <2> QED
    BY NatLessThanWellFounded, WFMin DEF R
<1>2. \A k \in T : ~ (k < n)
  BY <1>1 DEF OpToRel
<1> QED
  BY <1>2

\* A property of subsets that fails of one fails of a smallest one.
LEMMA Smallest ==
  ASSUME NEW D, IsFiniteSet(D), NEW T, T \subseteq SUBSET D, T # {}
  PROVE  \E s \in T : \A x \in s : s \ {x} \notin T
<1> DEFINE N == {Cardinality(s) : s \in T}
<1>1. \A s \in T : IsFiniteSet(s) /\ Cardinality(s) \in Nat
  BY FS_Subset, FS_CardinalityType
<1>2. PICK n \in N : \A k \in N : n <= k
  <2>1. N \subseteq Nat /\ N # {}
    BY <1>1
  <2> HIDE DEF N
  <2> QED
    BY <2>1, Least
<1>3. PICK s \in T : n = Cardinality(s)
  BY <1>2
<1>4. ASSUME NEW x \in s  PROVE s \ {x} \notin T
  <2>1. Cardinality(s \ {x}) = n - 1 /\ n \in Nat
    BY <1>1, <1>3, FS_RemoveElement
  <2>2. s \ {x} \in T => n <= n - 1
    BY <1>2, <2>1
  <2> QED
    BY <2>1, <2>2
<1> QED
  BY <1>4

\* The element a fold takes next.
Some(s) == CHOOSE x \in s : TRUE

\* f adds up w over every subset of D, element by element.
Adds(f, w, D) ==
  f = [s \in SUBSET D |-> IF s = {} THEN 0 ELSE w[Some(s)] + f[s \ {Some(s)}]]

SumOf(w, D) == (CHOOSE f : Adds(f, w, D))[D]

LEMMA SumsExist ==
  ASSUME NEW D, IsFiniteSet(D), NEW w, \A x \in D : w[x] \in Nat
  PROVE  \E f \in [SUBSET D -> Nat] : Adds(f, w, D)
<1> DEFINE Sub(n) == {s \in SUBSET D : Cardinality(s) <= n}
           Value(f, s) == IF s = {} THEN 0 ELSE w[Some(s)] + f[s \ {Some(s)}]
           Part(n) == \E f \in [Sub(n) -> Nat] : \A s \in Sub(n) : f[s] = Value(f, s)
           T == {n \in Nat : ~ Part(n)}
<1>1. ASSUME NEW s \in SUBSET D, s # {}
      PROVE  /\ Some(s) \in s /\ IsFiniteSet(s) /\ Cardinality(s) \in Nat
             /\ Cardinality(s \ {Some(s)}) = Cardinality(s) - 1
             /\ w[Some(s)] \in Nat
  <2>1. Some(s) \in s
    BY <1>1 DEF Some
  <2>2. IsFiniteSet(s)
    BY FS_Subset
  <2> QED
    BY <2>1, <2>2, FS_RemoveElement, FS_CardinalityType
<1>2. Part(0)
  <2>1. \A s \in Sub(0) : s = {}
    <3> SUFFICES ASSUME NEW s \in Sub(0), s # {} PROVE FALSE
      OBVIOUS
    <3>1. s \in SUBSET D /\ Cardinality(s) <= 0
      OBVIOUS
    <3>2. Cardinality(s \ {Some(s)}) \in Nat
      <4>1. IsFiniteSet(s \ {Some(s)})
        BY <3>1, FS_Subset
      <4> QED
        BY <4>1, FS_CardinalityType
    <3> QED
      BY <1>1, <3>1, <3>2
  <2> DEFINE f == [s \in Sub(0) |-> 0]
  <2>2. f \in [Sub(0) -> Nat]
    OBVIOUS
  <2>3. \A s \in Sub(0) : f[s] = Value(f, s)
    BY <2>1
  <2> HIDE DEF f
  <2> QED
    BY <2>2, <2>3
<1>3. ASSUME NEW n \in Nat, Part(n)  PROVE Part(n + 1)
  <2>1. PICK g \in [Sub(n) -> Nat] : \A s \in Sub(n) : g[s] = Value(g, s)
    BY <1>3
  <2>2. \A s \in Sub(n + 1) : s # {} => s \ {Some(s)} \in Sub(n)
    BY <1>1
  <2>3. Sub(n) \subseteq Sub(n + 1)
    <3>1. \A s \in SUBSET D : Cardinality(s) \in Nat
      BY FS_Subset, FS_CardinalityType
    <3> QED
      BY <3>1
  <2>3a. \A s \in Sub(n + 1) : s # {} => w[Some(s)] \in Nat
    BY <1>1
  <2> HIDE DEF Sub
  <2> DEFINE f == [s \in Sub(n + 1) |-> Value(g, s)]
  <2>4. f \in [Sub(n + 1) -> Nat]
    BY <2>1, <2>2, <2>3a
  <2>5. \A s \in Sub(n) : f[s] = g[s]
    BY <2>1, <2>3
  <2>6. \A s \in Sub(n + 1) : f[s] = Value(g, s)
    OBVIOUS
  <2> HIDE DEF f
  <2>7. \A s \in Sub(n + 1) : f[s] = Value(f, s)
    BY <2>2, <2>5, <2>6
  <2> QED
    BY <2>4, <2>7
<1> HIDE DEF Part
<1>4. T = {}
  <2> SUFFICES ASSUME T # {} PROVE FALSE
    OBVIOUS
  <2>1. PICK n \in T : \A k \in T : n <= k
    <3>1. T \subseteq Nat
      OBVIOUS
    <3> HIDE DEF T
    <3> QED
      BY <3>1, Least
  <2>2. n # 0
    BY <1>2
  <2>3. n - 1 \in Nat /\ n - 1 \notin T
    BY <2>1, <2>2
  <2>4. Part(n - 1) => Part((n - 1) + 1)
    BY <1>3, <2>3
  <2> QED
    BY <2>1, <2>3, <2>4
<1>5. PICK f \in [Sub(Cardinality(D)) -> Nat] : \A s \in Sub(Cardinality(D)) : f[s] = Value(f, s)
  <2>1. Cardinality(D) \in Nat
    BY FS_CardinalityType
  <2> QED
    BY <1>4, <2>1 DEF Part
<1>6. Sub(Cardinality(D)) = SUBSET D
  BY FS_Subset
<1> HIDE DEF Sub
<1>7. f = [s \in SUBSET D |-> Value(f, s)]
  BY <1>5, <1>6
<1> QED
  BY <1>5, <1>6, <1>7 DEF Adds

LEMMA SumsAgree ==
  ASSUME NEW D, IsFiniteSet(D), NEW E, D \subseteq E, NEW w, NEW v, \A x \in D : w[x] = v[x],
         NEW f, NEW g, Adds(f, w, D), Adds(g, v, E)
  PROVE  f[D] = g[D]
<1> DEFINE T == {s \in SUBSET D : f[s] # g[s]}
<1>1. ASSUME T # {}  PROVE FALSE
  <2>1. PICK s \in T : \A x \in s : s \ {x} \notin T
    <3>1. T \subseteq SUBSET D
      OBVIOUS
    <3> HIDE DEF T
    <3> QED
      BY <1>1, <3>1, Smallest
  <2>2. /\ f[s] = IF s = {} THEN 0 ELSE w[Some(s)] + f[s \ {Some(s)}]
        /\ g[s] = IF s = {} THEN 0 ELSE v[Some(s)] + g[s \ {Some(s)}]
    BY DEF Adds
  <2>3. s # {} => Some(s) \in s /\ w[Some(s)] = v[Some(s)]
    BY DEF Some
  <2> QED
    BY <2>1, <2>2, <2>3
<1> QED
  BY <1>1

LEMMA SumIs ==
  ASSUME NEW D, IsFiniteSet(D), NEW w, \A x \in D : w[x] \in Nat,
         NEW E, D \subseteq E, NEW g, Adds(g, w, E)
  PROVE  SumOf(w, D) = g[D]
<1>1. PICK f \in [SUBSET D -> Nat] : Adds(f, w, D)
  BY SumsExist
<1> DEFINE h == CHOOSE h : Adds(h, w, D)
<1>2. Adds(h, w, D)
  BY <1>1
<1> HIDE DEF h
<1>3. h[D] = g[D]
  BY <1>2, SumsAgree
<1> QED
  BY <1>3 DEF h, SumOf

LEMMA SumTyped ==
  ASSUME NEW D, IsFiniteSet(D), NEW w, \A x \in D : w[x] \in Nat
  PROVE  SumOf(w, D) \in Nat
<1>1. PICK f \in [SUBSET D -> Nat] : Adds(f, w, D)
  BY SumsExist
<1> QED
  BY <1>1, SumIs

LEMMA SumEmpty ==
  ASSUME NEW w
  PROVE  SumOf(w, {}) = 0
<1>1. IsFiniteSet({})
  BY FS_EmptySet
<1>2. PICK f \in [SUBSET {} -> Nat] : Adds(f, w, {})
  BY <1>1, SumsExist
<1>3. f[{}] = 0
  BY <1>2 DEF Adds
<1> QED
  BY <1>1, <1>2, <1>3, SumIs

LEMMA SumSame ==
  ASSUME NEW D, IsFiniteSet(D), NEW w, NEW v, \A x \in D : w[x] \in Nat /\ v[x] = w[x]
  PROVE  SumOf(w, D) = SumOf(v, D)
<1>1. PICK f \in [SUBSET D -> Nat] : Adds(f, w, D)
  BY SumsExist
<1>2. PICK g \in [SUBSET D -> Nat] : Adds(g, v, D)
  BY SumsExist
<1>3. f[D] = g[D]
  BY <1>1, <1>2, SumsAgree
<1> QED
  BY <1>1, <1>2, <1>3, SumIs

\* Any element may be the one that is added last.
LEMMA SumRemove ==
  ASSUME NEW D, IsFiniteSet(D), NEW w, \A x \in D : w[x] \in Nat, NEW x \in D
  PROVE  SumOf(w, D) = w[x] + SumOf(w, D \ {x})
<1>1. PICK f \in [SUBSET D -> Nat] : Adds(f, w, D)
  BY SumsExist
<1> DEFINE Odd(s) == \E y \in s : f[s] # w[y] + f[s \ {y}]
           T == {s \in SUBSET D : Odd(s)}
<1>2. \A s \in SUBSET D : s # {} => Some(s) \in s /\ f[s] = w[Some(s)] + f[s \ {Some(s)}]
  BY <1>1 DEF Adds, Some
<1>3. ASSUME T # {}  PROVE FALSE
  <2>1. PICK s \in T : \A y \in s : s \ {y} \notin T
    <3>1. T \subseteq SUBSET D
      OBVIOUS
    <3> HIDE DEF T
    <3> QED
      BY <1>3, <3>1, Smallest
  <2>2. PICK y \in s : f[s] # w[y] + f[s \ {y}]
    BY <2>1
  <2> DEFINE c == Some(s)
  <2>3. c \in s /\ f[s] = w[c] + f[s \ {c}] /\ s \in SUBSET D
    BY <1>2, <2>2
  <2>4. c # y
    BY <2>2, <2>3
  <2> HIDE DEF c
  <2>5. f[s \ {c}] = w[y] + f[(s \ {c}) \ {y}]
    BY <2>1, <2>3, <2>4
  <2>6. f[s \ {y}] = w[c] + f[(s \ {y}) \ {c}]
    BY <2>1, <2>3, <2>4
  <2> DEFINE a == f[(s \ {c}) \ {y}]
  <2>7. a = f[(s \ {y}) \ {c}]
    <3>1. (s \ {c}) \ {y} = (s \ {y}) \ {c}
      OBVIOUS
    <3> QED
      BY <3>1
  <2>8. w[c] \in Nat /\ w[y] \in Nat /\ a \in Nat
    <3>1. (s \ {c}) \ {y} \in SUBSET D
      BY <2>3
    <3> QED
      BY <1>1, <2>3, <3>1
  <2>9. f[s] = w[c] + (w[y] + a)
    BY <2>3, <2>5
  <2>10. f[s \ {y}] = w[c] + a
    BY <2>6, <2>7
  <2> HIDE DEF a
  <2> QED
    BY <2>2, <2>8, <2>9, <2>10
<1>4. f[D] = w[x] + f[D \ {x}]
  BY <1>3
<1>5. SumOf(w, D) = f[D]
  BY <1>1, SumIs
<1>6. SumOf(w, D \ {x}) = f[D \ {x}]
  <2>1. IsFiniteSet(D \ {x})
    BY FS_Subset
  <2> QED
    BY <1>1, <2>1, SumIs
<1> QED
  BY <1>4, <1>5, <1>6

-----------------------------------------------------------------------------
(* What refunds pay back, and what the processed entries of a history add  *)
(* up to, as sums.                                                         *)

LEMMA SumIsSumOf ==
  ASSUME NEW refs
  PROVE  Sum(refs) = SumOf(Amount, refs)
BY DEF Sum, FoldSet, MapThenFoldSet, SumOf, Adds, Some

\* What entry i of history h counts for.
Weight(h) == [i \in DOMAIN h |-> IF h[i].st = "processed" THEN Amount[h[i].ref] ELSE 0]

\* f adds up the processed entries as the fold in Processed does.
AddsProcessed(f, h) ==
  f = [s \in SUBSET DOMAIN h |->
         IF s = {} THEN 0
         ELSE IF h[Some(s)].st = "processed" THEN Amount[h[Some(s)].ref] + f[s \ {Some(s)}]
              ELSE f[s \ {Some(s)}]]

LEMMA ProcessedIsFold ==
  ASSUME NEW h
  PROVE  Processed(h) = (CHOOSE f : AddsProcessed(f, h))[DOMAIN h]
BY DEF Processed, FoldSeq, FoldFunction, FoldFunctionOnSet, MapThenFoldSet, AddsProcessed, Some

LEMMA HistoryDomain ==
  ASSUME NEW h \in Seq(Entries)
  PROVE  /\ DOMAIN h = 1 .. Len(h) /\ Len(h) \in Nat /\ IsFiniteSet(DOMAIN h)
         /\ \A i \in DOMAIN h : /\ h[i] \in Entries /\ Amount[h[i].ref] \in Nat
                                /\ Weight(h)[i] \in Nat
                                /\ h[i].st = "processed" => Weight(h)[i] = Amount[h[i].ref]
                                /\ h[i].st # "processed" => Weight(h)[i] = 0
<1>1. DOMAIN h = 1 .. Len(h) /\ Len(h) \in Nat /\ \A i \in DOMAIN h : h[i] \in Entries
  OBVIOUS
<1>2. IsFiniteSet(1 .. Len(h))
  BY <1>1, FS_Interval
<1>3. \A r \in Refunds : Amount[r] \in Nat
  BY AmountAssumption
<1>4. ASSUME NEW i \in DOMAIN h
      PROVE  /\ Amount[h[i].ref] \in Nat /\ Weight(h)[i] \in Nat
             /\ h[i].st = "processed" => Weight(h)[i] = Amount[h[i].ref]
             /\ h[i].st # "processed" => Weight(h)[i] = 0
  <2>1. h[i].ref \in Refunds
    BY <1>1 DEF Entries
  <2> QED
    BY <1>3, <2>1 DEF Weight
<1> QED
  BY <1>1, <1>2, <1>4

LEMMA ProcessedIsSum ==
  ASSUME NEW h \in Seq(Entries)
  PROVE  Processed(h) = SumOf(Weight(h), DOMAIN h)
<1> DEFINE D == DOMAIN h
           w == Weight(h)
<1>1. IsFiniteSet(D) /\ \A i \in D : w[i] \in Nat
  BY HistoryDomain
<1>2. \A i \in D : w[i] = IF h[i].st = "processed" THEN Amount[h[i].ref] ELSE 0
  BY DEF Weight
<1> HIDE DEF w, D
<1>3. PICK f \in [SUBSET D -> Nat] : Adds(f, w, D)
  BY <1>1, SumsExist
<1> DEFINE Step(g, s) == IF s = {} THEN 0
                         ELSE IF h[Some(s)].st = "processed"
                              THEN Amount[h[Some(s)].ref] + g[s \ {Some(s)}]
                              ELSE g[s \ {Some(s)}]
<1>4. ASSUME NEW s \in SUBSET D  PROVE f[s] = Step(f, s)
  <2>1. f[s] = IF s = {} THEN 0 ELSE w[Some(s)] + f[s \ {Some(s)}]
    BY <1>3 DEF Adds
  <2>2. CASE s # {}
    <3>1. Some(s) \in D /\ s \ {Some(s)} \in SUBSET D
      BY <2>2 DEF Some
    <3>2. f[s \ {Some(s)}] \in Nat
      BY <1>3, <3>1
    <3>3. f[s] = w[Some(s)] + f[s \ {Some(s)}]
      BY <2>1, <2>2
    <3>4. w[Some(s)] = IF h[Some(s)].st = "processed" THEN Amount[h[Some(s)].ref] ELSE 0
      BY <1>2, <3>1
    <3> QED
      BY <2>2, <3>2, <3>3, <3>4
  <2> QED
    BY <2>1, <2>2
<1>5. AddsProcessed(f, h)
  <2>1. f = [s \in SUBSET D |-> Step(f, s)]
    BY <1>3, <1>4
  <2> QED
    BY <2>1 DEF AddsProcessed, D
<1> DEFINE g == CHOOSE g : AddsProcessed(g, h)
<1>6. AddsProcessed(g, h)
  BY <1>5
<1>7. Processed(h) = g[D]
  BY ProcessedIsFold DEF D
<1> HIDE DEF g
<1>8. \A s \in SUBSET D : g[s] = Step(g, s)
  BY <1>6 DEF AddsProcessed, D
<1> DEFINE T == {s \in SUBSET D : f[s] # g[s]}
<1>9. ASSUME T # {}  PROVE FALSE
  <2>1. PICK s \in T : \A x \in s : s \ {x} \notin T
    <3>1. T \subseteq SUBSET D
      OBVIOUS
    <3> HIDE DEF T
    <3> QED
      BY <1>1, <1>9, <3>1, Smallest
  <2>2. s \in SUBSET D /\ f[s] # g[s] /\ f[s] = Step(f, s) /\ g[s] = Step(g, s)
    BY <1>4, <1>8
  <2>3. s # {} => Some(s) \in s
    BY DEF Some
  <2>4. s # {} => f[s \ {Some(s)}] = g[s \ {Some(s)}]
    BY <2>1, <2>3
  <2> QED
    BY <2>2, <2>4
<1>10. f[D] = SumOf(w, D)
  BY <1>1, <1>3, SumIs
<1> QED
  BY <1>7, <1>9, <1>10 DEF D, w

\* One more entry.
LEMMA ProcessedAppend ==
  ASSUME NEW h \in Seq(Entries), NEW r \in Refunds
  PROVE  Processed(Append(h, Entry(r, "processed"))) = Processed(h) + Amount[r]
<1> DEFINE x == Entry(r, "processed")
           g == Append(h, x)
           n == Len(h)
<1>1. x \in Entries /\ x.ref = r /\ x.st = "processed"
  BY DEF Entry, Entries
<1> HIDE DEF x
<1>2. /\ g \in Seq(Entries) /\ n \in Nat /\ DOMAIN h = 1 .. n /\ DOMAIN g = 1 .. (n + 1)
      /\ g[n + 1] = x /\ \A i \in DOMAIN h : g[i] = h[i]
  BY <1>1, AppendProperties
<1> HIDE DEF g, n
<1>3. DOMAIN g \ {n + 1} = DOMAIN h /\ n + 1 \in DOMAIN g
  BY <1>2
<1>4. /\ IsFiniteSet(DOMAIN g) /\ \A i \in DOMAIN g : Weight(g)[i] \in Nat
      /\ IsFiniteSet(DOMAIN h) /\ \A i \in DOMAIN h : Weight(h)[i] \in Nat
  BY <1>2, HistoryDomain
<1>5. SumOf(Weight(g), DOMAIN g) = Weight(g)[n + 1] + SumOf(Weight(g), DOMAIN h)
  BY <1>3, <1>4, SumRemove
<1>6. Weight(g)[n + 1] = Amount[r]
  BY <1>1, <1>2, <1>3 DEF Weight
<1>7. SumOf(Weight(g), DOMAIN h) = SumOf(Weight(h), DOMAIN h)
  <2>1. \A i \in DOMAIN h : Weight(g)[i] = Weight(h)[i]
    BY <1>2, <1>3 DEF Weight
  <2> QED
    BY <1>4, <2>1, SumSame
<1>8. SumOf(Weight(h), DOMAIN h) \in Nat /\ Amount[r] \in Nat
  BY <1>4, SumTyped, AmountAssumption
<1>9. Processed(g) = SumOf(Weight(g), DOMAIN g) /\ Processed(h) = SumOf(Weight(h), DOMAIN h)
  BY <1>2, ProcessedIsSum
<1>10. Processed(g) = Processed(h) + Amount[r]
  BY <1>5, <1>6, <1>7, <1>8, <1>9
<1> QED
  BY <1>10 DEF g, x

LEMMA ProcessedTyped ==
  ASSUME NEW h \in Seq(Entries)
  PROVE  Processed(h) \in Nat
<1>1. IsFiniteSet(DOMAIN h) /\ \A i \in DOMAIN h : Weight(h)[i] \in Nat
  BY HistoryDomain
<1> QED
  BY <1>1, ProcessedIsSum, SumTyped

(* Entries of different refunds, all in R, add up to no more than R.       *)
LEMMA ProcessedBound ==
  ASSUME NEW h \in Seq(Entries), OnceEach(h),
         NEW R, R \subseteq Refunds, IsFiniteSet(R),
         \A i \in DOMAIN h : h[i].st = "processed" => h[i].ref \in R
  PROVE  Processed(h) <= Sum(R)
<1> DEFINE D == DOMAIN h
           w == Weight(h)
           In(s, E) == \A i \in s : h[i].st = "processed" => h[i].ref \in E
           T == {s \in SUBSET D : \E E \in SUBSET R : In(s, E) /\ ~ (SumOf(w, s) <= SumOf(Amount, E))}
<1>1. /\ IsFiniteSet(D) /\ \A i \in D : /\ w[i] \in Nat /\ h[i] \in Entries
                                        /\ h[i].st = "processed" => w[i] = Amount[h[i].ref]
                                        /\ h[i].st # "processed" => w[i] = 0
  BY HistoryDomain
<1>2. ASSUME NEW s \in SUBSET D
      PROVE  IsFiniteSet(s) /\ SumOf(w, s) \in Nat
  <2>1. IsFiniteSet(s)
    BY <1>1, FS_Subset
  <2> HIDE DEF w
  <2> QED
    BY <1>1, <2>1, SumTyped
<1>3. ASSUME NEW E \in SUBSET R
      PROVE  /\ IsFiniteSet(E) /\ SumOf(Amount, E) \in Nat
             /\ \A r \in E : Amount[r] \in Nat
  <2>1. IsFiniteSet(E)
    BY FS_Subset
  <2>2. \A r \in E : Amount[r] \in Nat
    BY AmountAssumption
  <2> QED
    BY <2>1, <2>2, SumTyped
<1>4. \A i, j \in D : h[i].st = "processed" /\ h[j].st = "processed" /\ h[i].ref = h[j].ref => i = j
  <2> SUFFICES ASSUME NEW i \in D, NEW j \in D, h[i].st = "processed", h[j].st = "processed",
                      h[i].ref = h[j].ref
               PROVE  i = j
    OBVIOUS
  <2>1. h[i] = h[j]
    BY <1>1 DEF Entries
  <2> QED
    BY <2>1 DEF OnceEach
<1> HIDE DEF w
<1>5. ASSUME T # {}  PROVE FALSE
  <2>1. PICK s \in T : \A i \in s : s \ {i} \notin T
    <3>1. T \subseteq SUBSET D
      OBVIOUS
    <3> HIDE DEF T
    <3> QED
      BY <1>1, <1>5, <3>1, Smallest
  <2>2. PICK E \in SUBSET R : In(s, E) /\ ~ (SumOf(w, s) <= SumOf(Amount, E))
    OBVIOUS
  <2>3. s # {}
    <3>1. s = {} => SumOf(w, s) = 0
      BY SumEmpty
    <3>2. SumOf(Amount, E) \in Nat
      BY <1>3
    <3> QED
      BY <2>2, <3>1, <3>2
  <2>4. PICK i \in s : TRUE
    BY <2>3
  <2>5. i \in D /\ s \in SUBSET D /\ s \ {i} \in SUBSET D
    OBVIOUS
  <2>6. SumOf(w, s) = w[i] + SumOf(w, s \ {i})
    BY <1>1, <1>2, <2>5, SumRemove
  <2>7. \A F \in SUBSET R : In(s \ {i}, F) => SumOf(w, s \ {i}) <= SumOf(Amount, F)
    BY <2>1, <2>5
  <2> HIDE DEF T
  <2>8. SumOf(w, s \ {i}) \in Nat /\ SumOf(Amount, E) \in Nat
    BY <1>2, <1>3, <2>5
  <2>9. CASE h[i].st # "processed"
    <3>1. SumOf(w, s \ {i}) <= SumOf(Amount, E)
      BY <2>2, <2>7
    <3>2. w[i] = 0
      BY <1>1, <2>5, <2>9
    <3> QED
      BY <2>2, <2>6, <2>8, <3>1, <3>2
  <2>10. CASE h[i].st = "processed"
    <3> DEFINE r == h[i].ref
    <3>1. r \in E /\ w[i] = Amount[r] /\ E \ {r} \in SUBSET R
      BY <1>1, <2>2, <2>5, <2>10
    <3>2. In(s \ {i}, E \ {r})
      BY <1>4, <2>2, <2>5, <2>10
    <3>3. SumOf(w, s \ {i}) <= SumOf(Amount, E \ {r})
      BY <2>7, <3>1, <3>2
    <3> HIDE DEF r
    <3>4. SumOf(Amount, E) = Amount[r] + SumOf(Amount, E \ {r})
      BY <1>3, <3>1, SumRemove
    <3>5. SumOf(Amount, E \ {r}) \in Nat /\ Amount[r] \in Nat
      BY <1>3, <3>1
    <3> QED
      BY <2>2, <2>6, <2>8, <3>1, <3>3, <3>4, <3>5
  <2> QED
    BY <2>9, <2>10
<1>6. In(D, R) /\ D \in SUBSET D
  OBVIOUS
<1>7. SumOf(w, D) <= SumOf(Amount, R)
  BY <1>5, <1>6
<1> QED
  BY <1>7, ProcessedIsSum, SumIsSumOf DEF w

(* What a part of the refunds pays back is part of what all of them do.    *)
LEMMA SumMore ==
  ASSUME NEW E, IsFiniteSet(E), E \subseteq Refunds
  PROVE  /\ Sum(E) \in Nat
         /\ \A r \in E : Sum(E) = Amount[r] + Sum(E \ {r})
         /\ \A F \in SUBSET E : Sum(F) \in Nat /\ Sum(F) <= Sum(E)
<1>1. \A r \in E : Amount[r] \in Nat
  BY AmountAssumption
<1>2. \A r \in E : SumOf(Amount, E) = Amount[r] + SumOf(Amount, E \ {r})
  BY <1>1, SumRemove
<1>3. ASSUME NEW F \in SUBSET E
      PROVE  IsFiniteSet(F) /\ SumOf(Amount, F) \in Nat
  <2>1. IsFiniteSet(F) /\ \A r \in F : Amount[r] \in Nat
    BY <1>1, FS_Subset
  <2> QED
    BY <2>1, SumTyped
<1> DEFINE T == {G \in SUBSET E : \E F \in SUBSET G : ~ (SumOf(Amount, F) <= SumOf(Amount, G))}
<1>4. ASSUME T # {}  PROVE FALSE
  <2>1. PICK G \in T : \A r \in G : G \ {r} \notin T
    <3>1. T \subseteq SUBSET E
      OBVIOUS
    <3> HIDE DEF T
    <3> QED
      BY <1>4, <3>1, Smallest
  <2>2. PICK F \in SUBSET G : ~ (SumOf(Amount, F) <= SumOf(Amount, G))
    OBVIOUS
  <2>3. SumOf(Amount, F) \in Nat /\ SumOf(Amount, G) \in Nat
    BY <1>3
  <2>4. PICK r \in G : r \notin F
    <3>1. F # G
      BY <2>2, <2>3
    <3> QED
      BY <3>1
  <2>5. G \ {r} \in SUBSET E /\ F \in SUBSET (G \ {r})
    BY <2>4
  <2>6. SumOf(Amount, F) <= SumOf(Amount, G \ {r})
    BY <2>1, <2>5
  <2>7. SumOf(Amount, G) = Amount[r] + SumOf(Amount, G \ {r})
    BY <1>1, <1>3, SumRemove
  <2>8. Amount[r] \in Nat /\ SumOf(Amount, G \ {r}) \in Nat
    BY <1>1, <1>3, <2>5
  <2> QED
    BY <2>2, <2>3, <2>6, <2>7, <2>8
<1>5. \A F \in SUBSET E : SumOf(Amount, F) <= SumOf(Amount, E)
  BY <1>4
<1> QED
  BY <1>2, <1>3, <1>5, SumIsSumOf
-----------------------------------------------------------------------------
(***************************************************************************)
(* The money.  The gateway has never more refunds under way than were      *)
(* captured, and no amount in the payment, or about to be written to it,   *)
(* exceeds what went back.                                                 *)
(***************************************************************************)
Paid == {r \in Refunds : gateway[r] = "processed"}
Made == {r \in Refunds : gateway[r] \in {"created", "processed"}}

UpdateOK(x) ==
  x.pc \in {"idle", "merge", "write"} /\ x.refunded \in Nat /\ x.refunded <= PaidBack

MoneyOK ==
  /\ IsFiniteSet(Made) /\ Sum(Made) <= Total
  /\ status \in {"open", "Refunded"} /\ (status = "Refunded" => PaidBack = Total)
  /\ refunded \in Nat /\ refunded <= PaidBack
  /\ \A e \in Servers : UpdateOK(exec[e])

LEMMA PaidIsLess ==
  ASSUME IsFiniteSet(Made), Sum(Made) <= Total
  PROVE  /\ PaidBack = Sum(Paid) /\ IsFiniteSet(Paid) /\ Paid \subseteq Refunds
         /\ PaidBack \in Nat /\ PaidBack <= Total
<1>1. Paid \in SUBSET Made /\ Made \subseteq Refunds /\ PaidBack = Sum(Paid)
  BY DEF Paid, Made, PaidBack
<1>2. IsFiniteSet(Paid)
  BY <1>1, FS_Subset
<1>3. Sum(Made) \in Nat /\ Sum(Paid) \in Nat /\ Sum(Paid) <= Sum(Made)
  BY <1>1, SumMore
<1>4. Total \in Nat
  BY AmountAssumption
<1> QED
  BY <1>1, <1>2, <1>3, <1>4

(* Only refunds the gateway has paid, and each once.                       *)
LEMMA HistoryIsPaid ==
  ASSUME MoneyOK, NEW h, HistoryOK(h)
  PROVE  Processed(h) \in Nat /\ Processed(h) <= PaidBack
<1>1. h \in Seq(Entries) /\ OnceEach(h)
  BY DEF HistoryOK
<1>2. \A i \in DOMAIN h : h[i].st = "processed" => h[i].ref \in Paid
  <2>1. \A i \in DOMAIN h : h[i] \in Entries
    BY <1>1
  <2>2. \A i \in DOMAIN h : h[i].ref \in Refunds
    BY <2>1 DEF Entries
  <2> QED
    BY <2>2 DEF HistoryOK, Paid
<1>3. PaidBack = Sum(Paid) /\ IsFiniteSet(Paid) /\ Paid \subseteq Refunds
  BY PaidIsLess DEF MoneyOK
<1>4. Processed(h) <= Sum(Paid)
  BY <1>1, <1>2, <1>3, ProcessedBound
<1> QED
  BY <1>1, <1>3, <1>4, ProcessedTyped

LEMMA GatewayMoney ==
  ASSUME IInv, MoneyOK, NEW r \in Refunds, MakeRefund(r) \/ EndRefund(r)
  PROVE  MoneyOK'
<1>1. /\ IsFiniteSet(Made) /\ Made \subseteq Refunds /\ Total \in Nat
      /\ Sum(Made) \in Nat /\ Sum(Made) <= Total /\ Amount[r] \in Nat
      /\ gateway \in [Refunds -> {"none", "created", "processed", "failed"}]
  BY SumMore, AmountAssumption DEF Made, MoneyOK, IInv, GatewayOK
<1>2. IsFiniteSet(Made') /\ Sum(Made') <= Total
  <2>1. CASE MakeRefund(r)
    <3>1. Made' = Made \cup {r} /\ r \notin Made
      BY <1>1, <2>1 DEF MakeRefund, Made
    <3>2. Sum(Made) + Amount[r] <= Total
      BY <2>1 DEF MakeRefund, Made
    <3>3. IsFiniteSet(Made') /\ Made' \subseteq Refunds /\ r \in Made' /\ Made' \ {r} = Made
      BY <1>1, <3>1, FS_AddElement
    <3>4. Sum(Made') = Amount[r] + Sum(Made)
      BY <3>3, SumMore
    <3> QED
      BY <1>1, <3>2, <3>3, <3>4
  <2>2. CASE EndRefund(r)
    <3>1. Made' \in SUBSET Made
      BY <1>1, <2>2 DEF EndRefund, Made
    <3>2. IsFiniteSet(Made')
      BY <1>1, <3>1, FS_Subset
    <3>3. Sum(Made') \in Nat /\ Sum(Made') <= Sum(Made)
      BY <1>1, <3>1, SumMore
    <3> QED
      BY <1>1, <3>2, <3>3
  <2> QED
    BY <2>1, <2>2
<1>3. Paid \subseteq Paid'
  BY <1>1 DEF MakeRefund, EndRefund, Paid
<1>4. /\ PaidBack' = Sum(Paid') /\ IsFiniteSet(Paid') /\ Paid' \subseteq Refunds
      /\ PaidBack' \in Nat /\ PaidBack' <= Total
  <2>1. Paid' \in SUBSET (Made') /\ Made' \subseteq Refunds /\ PaidBack' = Sum(Paid')
    BY DEF Paid, Made, PaidBack
  <2>2. IsFiniteSet(Paid')
    BY <1>2, <2>1, FS_Subset
  <2>3. Sum(Made') \in Nat /\ Sum(Paid') \in Nat /\ Sum(Paid') <= Sum(Made')
    BY <1>2, <2>1, SumMore
  <2> QED
    BY <1>1, <1>2, <2>1, <2>2, <2>3
<1>5. PaidBack \in Nat /\ PaidBack <= PaidBack'
  <2>1. PaidBack = Sum(Paid) /\ PaidBack \in Nat
    BY PaidIsLess DEF MoneyOK
  <2> QED
    BY <1>3, <1>4, <2>1, SumMore
<1>6. UNCHANGED <<status, refunded, exec>>
  BY DEF MakeRefund, EndRefund
<1>7. status = "Refunded" => PaidBack' = Total
  BY <1>1, <1>4, <1>5 DEF MoneyOK
<1>8. refunded \in Nat /\ refunded <= PaidBack'
  BY <1>4, <1>5 DEF MoneyOK
<1>9. \A e \in Servers : exec[e].refunded \in Nat /\ exec[e].refunded <= PaidBack'
                         /\ exec[e].pc \in {"idle", "merge", "write"}
  BY <1>4, <1>5 DEF MoneyOK, UpdateOK
<1> QED
  BY <1>2, <1>6, <1>7, <1>8, <1>9 DEF MoneyOK, UpdateOK

(* A step that leaves the gateway alone keeps what it keeps here.          *)
LEMMA MoneyMoves ==
  ASSUME MoneyOK, UNCHANGED gateway,
         status' \in {"open", "Refunded"}, status' = "Refunded" => PaidBack = Total,
         refunded' \in Nat, refunded' <= PaidBack,
         \A e \in Servers : UpdateOK(exec'[e])
  PROVE  MoneyOK'
<1>1. Made' = Made /\ PaidBack' = PaidBack
  BY DEF Made, PaidBack
<1> QED
  BY <1>1 DEF MoneyOK, UpdateOK

LEMMA SettlesMoney ==
  ASSUME IInv, MoneyOK, NEW r \in Refunds, gateway[r] = "processed", Settles(r),
         UNCHANGED <<gateway, exec>>
  PROVE  MoneyOK'
<1>1. CASE Counts(r)
  <2>1. HistoryOK(history')
    BY <1>1, AppendKeeps DEF Counts, Replayed, IInv
  <2>2. history' = Append(history, Entry(r, "processed")) /\ refunded' = Processed(history) + Amount[r]
    BY <1>1 DEF Counts
  <2>3. Processed(history') = refunded'
    BY <2>2, ProcessedAppend DEF IInv, HistoryOK
  <2>4. refunded' \in Nat /\ refunded' <= PaidBack
    BY <2>1, <2>3, HistoryIsPaid
  <2>5. PaidBack \in Nat /\ PaidBack <= Total /\ Total \in Nat
    BY PaidIsLess, AmountAssumption DEF MoneyOK
  <2>6. status' = IF refunded' = Total THEN "Refunded" ELSE "open"
    BY <1>1 DEF Counts
  <2> QED
    BY <2>4, <2>5, <2>6, MoneyMoves DEF MoneyOK
<1>2. CASE UNCHANGED <<status, history, refunded>>
  BY <1>2, MoneyMoves DEF MoneyOK
<1> QED
  BY <1>1, <1>2 DEF Settles

LEMMA UpdateMoney ==
  ASSUME IInv, MoneyOK, NEW e \in Servers, NEW x, UpdateOK(x),
         exec' = [exec EXCEPT ![e] = x], UNCHANGED <<gateway, status>>,
         refunded' \in Nat, refunded' <= PaidBack
  PROVE  MoneyOK'
<1>1. \A f \in Servers : exec'[f] = IF f = e THEN x ELSE exec[f]
  BY DEF IInv, ExecOK
<1>2. \A f \in Servers : UpdateOK(exec'[f])
  BY <1>1 DEF MoneyOK
<1> QED
  BY <1>2, MoneyMoves DEF MoneyOK

LEMMA ServerMoney ==
  ASSUME IInv, MoneyOK, NEW e \in Servers,
         \/ \E r \in Refunds, ev \in {"created", "failed"} : NoticeReads(e, r, ev)
         \/ MetadataReads(e) \/ OtherReads(e) \/ MetadataWrites(e) \/ GivesUp(e)
  PROVE  MoneyOK'
<1>0. /\ PaidBack \in Nat /\ refunded \in Nat /\ refunded <= PaidBack
      /\ exec[e].refunded \in Nat /\ exec[e].refunded <= PaidBack
  BY PaidIsLess DEF MoneyOK, UpdateOK
<1>1. ASSUME NEW r \in Refunds, NEW ev \in {"created", "failed"}, NoticeReads(e, r, ev)
      PROVE  MoneyOK'
  <2> DEFINE st == IF ev = "created" /\ r \in Instant THEN "processed" ELSE ev
             x == [pc |-> "merge", history |-> Noted(history, r, st), refunded |-> 0]
  <2>1. exec' = [exec EXCEPT ![e] = x] /\ UNCHANGED <<gateway, status, refunded>>
    BY <1>1 DEF NoticeReads
  <2> HIDE DEF st
  <2>2. x.pc = "merge" /\ x.refunded = 0
    OBVIOUS
  <2> HIDE DEF x
  <2>3. UpdateOK(x)
    BY <1>0, <2>2 DEF UpdateOK
  <2> QED
    BY <1>0, <2>1, <2>3, UpdateMoney
<1>2. CASE MetadataReads(e)
  <2> DEFINE x == [pc |-> "write", history |-> exec[e].history, refunded |-> refunded]
  <2>1. UpdateOK(x) /\ exec' = [exec EXCEPT ![e] = x] /\ UNCHANGED <<gateway, status, refunded>>
    BY <1>0, <1>2 DEF MetadataReads, UpdateOK
  <2> HIDE DEF x
  <2> QED
    BY <1>0, <2>1, UpdateMoney
<1>3. CASE OtherReads(e)
  <2> DEFINE x == [pc |-> "write", history |-> history, refunded |-> refunded]
  <2>1. UpdateOK(x) /\ exec' = [exec EXCEPT ![e] = x] /\ UNCHANGED <<gateway, status, refunded>>
    BY <1>0, <1>3 DEF OtherReads, UpdateOK
  <2> HIDE DEF x
  <2> QED
    BY <1>0, <2>1, UpdateMoney
<1>4. UpdateOK(Idle)
  BY <1>0 DEF Idle, UpdateOK
<1>5. CASE MetadataWrites(e)
  <2>1. exec' = [exec EXCEPT ![e] = Idle] /\ UNCHANGED <<gateway, status>>
        /\ refunded' = exec[e].refunded
    BY <1>5 DEF MetadataWrites
  <2> QED
    BY <1>0, <1>4, <2>1, UpdateMoney
<1>6. CASE GivesUp(e)
  <2>1. exec' = [exec EXCEPT ![e] = Idle] /\ UNCHANGED <<gateway, status, refunded>>
    BY <1>6 DEF GivesUp
  <2> QED
    BY <1>0, <1>4, <2>1, UpdateMoney
<1> QED
  BY <1>1, <1>2, <1>3, <1>5, <1>6

(* The amounts keep theirs.                                                *)
THEOREM MoneyInvariant == Spec => [](IInv /\ MoneyOK)
<1>1. Init => MoneyOK
  <2> SUFFICES ASSUME Init PROVE MoneyOK
    OBVIOUS
  <2>1. Made = {} /\ Paid = {}
    BY DEF Init, Made, Paid
  <2>2. IsFiniteSet({}) /\ Sum({}) = 0
    BY FS_EmptySet, SumEmpty, SumIsSumOf
  <2>3. IsFiniteSet(Made) /\ Sum(Made) <= Total /\ PaidBack = 0
    <3>1. PaidBack = Sum(Paid)
      BY DEF PaidBack, Paid
    <3> QED
      BY <2>1, <2>2, <3>1, AmountAssumption
  <2>4. \A e \in Servers : UpdateOK(exec[e])
    BY <2>3 DEF Init, UpdateOK, Idle
  <2> QED
    BY <2>3, <2>4 DEF Init, MoneyOK
<1>2. IInv /\ MoneyOK /\ [Next]_vars => MoneyOK'
  <2> SUFFICES ASSUME IInv, MoneyOK, [Next]_vars PROVE MoneyOK'
    OBVIOUS
  <2>1. ASSUME NEW r \in Refunds, MakeRefund(r) \/ EndRefund(r) PROVE MoneyOK'
    BY <2>1, GatewayMoney
  <2>2. ASSUME NEW r \in Refunds, ProcessedEvent(r) \/ FinanceConfirms(r) PROVE MoneyOK'
    BY <2>2, SettlesMoney DEF ProcessedEvent, FinanceConfirms, Sent
  <2>3. ASSUME NEW e \in Servers,
               \/ \E r \in Refunds, ev \in {"created", "failed"} : NoticeReads(e, r, ev)
               \/ MetadataReads(e) \/ OtherReads(e) \/ MetadataWrites(e) \/ GivesUp(e)
        PROVE  MoneyOK'
    BY <2>3, ServerMoney
  <2>4. CASE UNCHANGED vars
    BY <2>4, MoneyMoves DEF vars, MoneyOK
  <2>5. QED
    BY <2>1, <2>2, <2>3, <2>4 DEF Next
<1> QED
  BY <1>1, <1>2, HistoryInvariant, PTL DEF Spec

(* For any number of refunds and any amounts the variables keep their      *)
(* ranges, and no history about to be written holds a processed refund     *)
(* twice.                                                                  *)
THEOREM RefundsTyped == Spec => []TypeOK
<1>1. IInv /\ MoneyOK => TypeOK
  <2> SUFFICES ASSUME IInv, MoneyOK PROVE TypeOK
    OBVIOUS
  <2>1. refunded \in 0..Total
    BY PaidIsLess, AmountAssumption DEF MoneyOK
  <2>2. \A i \in DOMAIN history : history[i] \in Entries
    BY DEF IInv, HistoryOK
  <2>3. \A e \in Servers : exec[e].pc \in {"idle", "merge", "write"} /\ OnceEach(exec[e].history)
    BY DEF IInv, ExecOK, HistoryOK, MoneyOK, UpdateOK
  <2> QED
    BY <2>1, <2>2, <2>3 DEF IInv, GatewayOK, MoneyOK, TypeOK, Entries
<1> QED
  BY <1>1, MoneyInvariant, PTL

(* Whatever the amounts, and although history and amount are written apart *)
(* and from older reads: neither ever claims more than went back.          *)
THEOREM RefundsNeverOverstated == Spec => []NeverOverstated
<1>1. IInv /\ MoneyOK => NeverOverstated
  BY HistoryIsPaid DEF IInv, MoneyOK, NeverOverstated
<1> QED
  BY <1>1, MoneyInvariant, PTL

(* A pass is taken away by a refund only when the gateway has paid the     *)
(* whole captured amount back.                                             *)
THEOREM RefundedMeansPaidBack == Spec => []RefundedIsPaidBack
<1>1. MoneyOK => RefundedIsPaidBack
  BY DEF MoneyOK, RefundedIsPaidBack
<1> QED
  BY <1>1, MoneyInvariant, PTL
=============================================================================
