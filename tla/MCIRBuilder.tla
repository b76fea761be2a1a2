---------------------------- MODULE MCIRBuilder ----------------------------
(* Model of the IR builder with one wire bit and operands of 1 or 2 bits. *)
EXTENDS IRBuilder

MCWireBits == {"w"}
=============================================================================
