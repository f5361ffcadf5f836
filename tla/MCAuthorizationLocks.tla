------------------------ MODULE MCAuthorizationLocks ------------------------
(* A merchant that reserves, an owner that spends and prunes.              *)
EXTENDS AuthorizationLocks, TLC

CONSTANTS merchant, owner, wallet

MCPermissionsOf == [r \in Role |-> IF r = merchant
                                   THEN {"SolLimit", "ManageAuthorizationLocks"}
                                   ELSE {"AllButManageAuthority", "ManageAuthorizationLocks"}]
MCMaxCalls == [r \in Role |-> IF r = merchant THEN 2 ELSE 1]
MCMaxDuration == [r \in Role |-> IF r = merchant THEN 2 ELSE 1]
=============================================================================
