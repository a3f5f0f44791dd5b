----------------------------- MODULE PaymentBook -----------------------------
(***************************************************************************)
(* What the payments ledger promises the university about the money of one *)
(* student: a capture is entered once, as the pass of a session nobody     *)
(* else holds, as a spare to be refunded, or as a case for review; from    *)
(* there it moves only the way protect_completed_payments allows; and the  *)
(* gateway is told to stop sending a capture only when it is in the book.  *)
(***************************************************************************)
CONSTANTS Payments,   \* captures of the student
          Years,      \* academic sessions
          Lenient     \* captures whose session may be undeterminable

VARIABLES book,       \* book[p] : how p is entered, and for which session
          told        \* captures the gateway no longer sends

bookVars == <<book, told>>

Absent == [st |-> "none", session |-> 0]

Entries == {Absent} \cup
           [st : {"Completed", "Refunded", "Denied"}, session : Years \cup {0}] \cup
           [st : {"Duplicate", "Review"}, session : {0}]

HasPass(b, p, y) == b[p].st = "Completed" /\ b[p].session = y

\* The entry of p becomes e, and no two passes are for one session.
Put(p, e) ==
  /\ \A q \in Payments \ {p} : e.st = "Completed" => ~HasPass(book, q, e.session)
  /\ book' = [book EXCEPT ![p] = e]

BookInit == /\ book = [p \in Payments |-> Absent]
            /\ told = {}

\* The answer to the gateway may come with the entry or later.
Enter(p) ==
  /\ book[p] = Absent
  /\ \E e \in Entries : e.st \in {"Completed", "Duplicate", "Review"} /\ Put(p, e)
  /\ told' \in {told, told \cup {p}}

Reconcile(p) ==
  /\ book[p].st = "Review"
  /\ \E y \in Years : Put(p, [st |-> "Completed", session |-> y])
  /\ UNCHANGED told

PayBack(p) ==
  /\ book[p].st \in {"Completed", "Duplicate", "Review"}
  /\ Put(p, [book[p] EXCEPT !.st = "Refunded"])
  /\ UNCHANGED told

Keep(p) ==
  /\ book[p].st \in {"Duplicate", "Review"}
  /\ Put(p, [book[p] EXCEPT !.st = "Denied"])
  /\ UNCHANGED told

\* A capture with no session is acknowledged even when the write of its row
\* failed: the code does not look at the result.
Tell(p) ==
  /\ book[p] # Absent \/ p \in Lenient
  /\ told' = told \cup {p}
  /\ UNCHANGED book

BookNext == \E p \in Payments :
              Enter(p) \/ Reconcile(p) \/ PayBack(p) \/ Keep(p) \/ Tell(p)

BookSpec == BookInit /\ [][BookNext]_bookVars
=============================================================================
