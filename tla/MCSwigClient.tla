---------------------------- MODULE MCSwigClient ----------------------------
(* Callers of one Swig object, and a role of each class of authority.      *)
EXTENDS SwigClient, TLC

CONSTANTS t1, t2, secp, session, ed

MCKindOf == [r \in Role |-> CASE r = secp -> "Secp"
                              [] r = session -> "SecpSession"
                              [] r = ed -> "Ed25519"]

Callers == Permutations({t1, t2})
=============================================================================
