---------------------------- MODULE MCAdmissions ----------------------------
(* A small instance of Admissions for TLC. *)
EXTENDS Admissions, TLC

OneSeat == [b \in Buses |-> 1]

(* Everybody asks for the same bus. *)
SameBus == [a \in Apps |-> CHOOSE b \in Buses : TRUE]
=============================================================================
