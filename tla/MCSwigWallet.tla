---------------------------- MODULE MCSwigWallet ----------------------------
(* Two handles on an account whose root authority is a secp key.           *)
EXTENDS SwigWallet, TLC

CONSTANTS c1, c2, secp, ed, session, exec

MCKindOf == [k \in Key |-> CASE k = secp -> "Secp" [] k = ed -> "Ed25519"
               [] k = session -> "SecpSession" [] k = exec -> "ProgramExec"]

MCMaxCalls == [c \in Client |-> 2]
MCMaxCallsOne == [c \in Client |-> 3]

Handles == Permutations({c1, c2})
=============================================================================
