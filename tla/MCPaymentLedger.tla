--------------------------- MODULE MCPaymentLedger ---------------------------
(* Two orders; the session of the second capture may be hard to find.      *)
EXTENDS PaymentLedger
CONSTANTS p1, p2
TwoOrders == <<p1, p2>>
=============================================================================
