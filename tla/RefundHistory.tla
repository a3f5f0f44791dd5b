---------------------------- MODULE RefundHistory ----------------------------
(***************************************************************************)
(* The refunds of one captured payment.  The gateway pays parts of the     *)
(* amount back and reports each refund with events that come at least      *)
(* once, in any order.  refund.processed, and the finance desk that        *)
(* confirms the same refund by hand, go through a database function that   *)
(* locks the payment; refund.created, refund.failed and every other update *)
(* of the payment's metadata read the metadata and write it back whole,    *)
(* the refund history and the refunded amount with it.                     *)
(***************************************************************************)
EXTENDS Integers, Sequences, FiniteSets, SequencesExt, FiniteSetsExt

CONSTANTS Refunds,   \* refunds the gateway may make of the payment
          Amount,    \* what each of them pays back
          Total,     \* what was captured
          Instant,   \* refunds already paid when refund.created is sent
          Servers    \* instances that handle webhooks and other updates

ASSUME AmountAssumption ==
  /\ Total \in Nat \ {0} /\ Amount \in [Refunds -> 1..Total]
  /\ Instant \subseteq Refunds

VARIABLES
  gateway,   \* gateway[r] : how far refund r is
  status,    \* the payment: open (Completed, Duplicate, Review) or Refunded
  history,   \* metadata.refund_history
  refunded,  \* metadata.refunded_amount
  exec       \* exec[e] : the update of the metadata instance e is making

vars == <<gateway, status, history, refunded, exec>>
-----------------------------------------------------------------------------
Idle == [pc |-> "idle", history |-> <<>>, refunded |-> 0]

Sum(refs) == FoldSet(LAMBDA r, n : Amount[r] + n, 0, refs)

Entry(r, st) == [ref |-> r, st |-> st]
Has(h, r, st) == \E i \in DOMAIN h : h[i] = Entry(r, st)

\* What all entries of a history add up to, whatever their status (mutant).
ProcessedOrNot(h) == FoldSeq(LAMBDA x, n : Amount[x.ref] + n, 0, h)

\* What the processed entries of a history add up to, entry by entry.
Processed(h) ==
  FoldSeq(LAMBDA x, n : IF x.st = "processed" THEN Amount[x.ref] + n ELSE n, 0, h)

Init ==
  /\ gateway = [r \in Refunds |-> "none"]
  /\ status = "open" /\ history = <<>> /\ refunded = 0
  /\ exec = [e \in Servers |-> Idle]

\* The events the gateway has for a refund so far.
Sent(r, ev) ==
  /\ ev = "created" => gateway[r] # "none"
  /\ ev # "created" => gateway[r] = ev

PaidBack == Sum({r \in Refunds : gateway[r] = "processed"})

-----------------------------------------------------------------------------
(* The gateway never has more under way than was captured.                 *)

MakeRefund(r) ==
  /\ gateway[r] = "none"
  /\ Sum({q \in Refunds : gateway[q] \in {"created", "processed"}}) + Amount[r] <= Total
  /\ gateway' = [gateway EXCEPT ![r] = IF r \in Instant THEN "processed" ELSE "created"]
  /\ UNCHANGED <<status, history, refunded, exec>>

EndRefund(r) ==
  /\ gateway[r] = "created"
  /\ \E end \in {"processed", "failed"} : gateway' = [gateway EXCEPT ![r] = end]
  /\ UNCHANGED <<status, history, refunded, exec>>

-----------------------------------------------------------------------------
(* process_payment_refund_atomic.                                          *)

\* As if a repeated event were a new refund (mutant).
ReplayedNever(r) == FALSE
Replayed(r) == Has(history, r, "processed")

\* A new refund is counted and appended; the entries of other notices of the
\* same refund stay where they are.
Counts(r) ==
  /\ status = "open" /\ ~Replayed(r)
  /\ Processed(history) + Amount[r] <= Total
  /\ refunded' = Processed(history) + Amount[r]
  /\ history' = Append(history, Entry(r, "processed"))
  /\ status' = IF refunded' = Total THEN "Refunded" ELSE "open"

\* The function is answered with success, and has done something or not.
Settles(r) ==
  \/ Counts(r)
  \/ Replayed(r) /\ UNCHANGED <<status, history, refunded>>

\* refund.processed; when the function refuses, the answer is 500.
ProcessedEvent(r) ==
  /\ Sent(r, "processed") /\ Settles(r)
  /\ UNCHANGED <<gateway, exec>>

\* confirmManualRefund, with the gateway's reference.
FinanceConfirms(r) ==
  /\ gateway[r] = "processed" /\ Settles(r)
  /\ UNCHANGED <<gateway, exec>>

-----------------------------------------------------------------------------
(* refund.created and refund.failed.                                       *)

\* The first entry of the refund gets the status of the event, a refund
\* without an entry gets one.
Noted(h, r, st) ==
  IF \A i \in DOMAIN h : h[i].ref # r THEN Append(h, Entry(r, st))
  ELSE [i \in DOMAIN h |-> IF h[i].ref = r /\ \A j \in 1..(i - 1) : h[j].ref # r
                           THEN Entry(r, st) ELSE h[i]]

\* The handler reads the payment and works out the history it will write.
NoticeReads(e, r, ev) ==
  /\ exec[e] = Idle /\ ev # "processed" /\ Sent(r, ev)
  /\ LET st == IF ev = "created" /\ r \in Instant THEN "processed" ELSE ev
     IN exec' = [exec EXCEPT ![e] =
          [pc |-> "merge", history |-> Noted(history, r, st), refunded |-> 0]]
  /\ UNCHANGED <<gateway, status, history, refunded>>

\* updatePaymentMetadata reads the metadata again, for everything but the
\* history it was given.
MetadataReads(e) ==
  /\ exec[e].pc = "merge"
  /\ exec' = [exec EXCEPT ![e] =
       [pc |-> "write", history |-> @.history, refunded |-> refunded]]
  /\ UNCHANGED <<gateway, status, history, refunded>>

\* An update of the metadata for another reason (an entitlement, a lease).
OtherReads(e) ==
  /\ exec[e] = Idle
  /\ exec' = [exec EXCEPT ![e] =
       [pc |-> "write", history |-> history, refunded |-> refunded]]
  /\ UNCHANGED <<gateway, status, history, refunded>>

MetadataWrites(e) ==
  /\ exec[e].pc = "write"
  /\ history' = exec[e].history /\ refunded' = exec[e].refunded
  /\ exec' = [exec EXCEPT ![e] = Idle]
  /\ UNCHANGED <<gateway, status>>

\* A statement fails (500) or the instance stops.
GivesUp(e) ==
  /\ exec[e] # Idle
  /\ exec' = [exec EXCEPT ![e] = Idle]
  /\ UNCHANGED <<gateway, status, history, refunded>>

-----------------------------------------------------------------------------
Next ==
  \/ \E r \in Refunds : \/ MakeRefund(r) \/ EndRefund(r)
                        \/ ProcessedEvent(r) \/ FinanceConfirms(r)
  \/ \E e \in Servers : \/ MetadataReads(e) \/ OtherReads(e)
                        \/ MetadataWrites(e) \/ GivesUp(e)
                        \/ \E r \in Refunds, ev \in {"created", "failed"} :
                             NoticeReads(e, r, ev)

Spec == Init /\ [][Next]_vars

-----------------------------------------------------------------------------
OnceEach(h) ==
  \A i, j \in DOMAIN h : h[i].st = "processed" /\ h[j] = h[i] => i = j

(* Every variable keeps its range, and the histories about to be written   *)
(* hold a processed refund once.                                           *)
TypeOK ==
  /\ gateway \in [Refunds -> {"none", "created", "processed", "failed"}]
  /\ status \in {"open", "Refunded"} /\ refunded \in 0..Total
  /\ \A i \in DOMAIN history : history[i] \in
       [ref : Refunds, st : {"created", "processed", "failed"}]
  /\ \A e \in Servers : /\ exec[e].pc \in {"idle", "merge", "write"}
                         /\ OnceEach(exec[e].history)

(* Repeated events of one refund do not reduce the balance twice (confirm- *)
(* ManualRefundRecord): whatever was delivered again, out of order, or     *)
(* overwritten by an update that read older metadata, the history never    *)
(* has a refund as processed twice, nor one the gateway has not paid.      *)
CountedOnce ==
  /\ OnceEach(history)
  /\ \A i \in DOMAIN history :
       history[i].st = "processed" => gateway[history[i].ref] = "processed"

(* What the history adds up to and the refunded amount never exceed the    *)
(* money that went back, although the two are written apart.               *)
NeverOverstated == Processed(history) <= PaidBack /\ refunded <= PaidBack

(* A payment is Refunded, and its pass is gone, only when the whole amount *)
(* is back with the student.                                               *)
RefundedIsPaidBack == status = "Refunded" => PaidBack = Total
=============================================================================
