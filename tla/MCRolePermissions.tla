------------------------ MODULE MCRolePermissions ------------------------
(* Two clients and a holder; lists with every form of limit.               *)
EXTENDS RolePermissions, TLC

CONSTANTS c1, c2, mint, shop, app, lib

Once(k, arg, to, n) == [Marker(k) EXCEPT !.arg = arg, !.to = to, !.left = n]
Recurring(k, arg, to, n) == [Once(k, arg, to, n) EXCEPT !.topUp = n]
Names(k, arg) == [Marker(k) EXCEPT !.arg = arg]

MCLists ==
  { << Marker("ManageAuthority"), Once("SolLimit", NoArg, AnyPlace, 1) >>,
    << Once("SolDestinationLimit", NoArg, shop, 1),
       Recurring("SolRecurringLimit", NoArg, AnyPlace, 2), Once("SolLimit", NoArg, AnyPlace, 1) >>,
    << Names("Program", app), Marker("ManageAuthorizationLocks"), Names("Program", lib) >>,
    << Recurring("TokenRecurringLimit", mint, AnyPlace, 2), Once("TokenLimit", mint, AnyPlace, 2),
       Recurring("TokenRecurringDestinationLimit", mint, shop, 1) >>,
    << Marker("AllButManageAuthority"), Once("TokenDestinationLimit", mint, shop, 1) >>,
    << Recurring("StakeRecurringLimit", NoArg, AnyPlace, 1), Once("StakeLimit", NoArg, AnyPlace, 1),
       Recurring("SolRecurringDestinationLimit", NoArg, shop, 1) >>,
    << Once("SolLimit", NoArg, AnyPlace, 1), Once("SolLimit", NoArg, AnyPlace, 2) >>,
    << ProgramScopeLimit(app, 1), [ProgramScopeBasic(lib) EXCEPT !.topUp = 2, !.scope = "RecurringLimit"],
       ProgramScopeBasic(lib) >>,
    << [ProgramScopeBasic(app) EXCEPT !.left = 1, !.topUp = 4, !.scope = "Limit"], Marker("SubAccount") >>,
    << Names("SubAccountV2Sign", app), Marker("SubAccountV2Create"), Names("ReplaceAuthority", lib) >> }

Symmetry == Permutations(Client)
=============================================================================
