------------------------------ MODULE MCR8169Tx ------------------------------
(* The transmit side on a ring of three descriptors. *)
EXTENDS R8169Tx
===============================================================================
