-------------------------- MODULE MCAccountOpening --------------------------
(* A caller with the owner's key and one with another key, on one address. *)
EXTENDS AccountOpening

CONSTANTS owner, other, secp, ed

MCAuthOf == [o \in Opener |-> IF o = owner THEN secp ELSE ed]
MCMaxCalls == [o \in Opener |-> IF o = owner THEN 3 ELSE 2]
=============================================================================
