--------------------------- MODULE MCBaremetalOs ---------------------------
(* A small instance of BaremetalOs for TLC: two sizes of queue, a pool that *)
(* holds two of the smaller or the larger and one of the smaller, messages *)
(* that fit every queue and every buffer, or not, and indices that wrap    *)
(* after four.                                                             *)
EXTENDS BaremetalOs

CONSTANTS a, b

MCRequests == {[depth |-> 2, size |-> 1], [depth |-> 1, size |-> 2]}
MCMessages == {[len |-> 1, body |-> a], [len |-> 2, body |-> b]}
MCBlank == [len |-> 0, body |-> a]
=============================================================================
