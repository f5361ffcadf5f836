-------------------------- MODULE OptimisticCounter --------------------------
(***************************************************************************)
(* What a handle with a cached replay counter promises.                    *)
(*                                                                         *)
(* A cell is a number that only ever grows by one.  A client that watches  *)
(* a cell keeps a private view of it and may commit only when its view is  *)
(* the cell's value.  A commit is acknowledged later, or never: until then *)
(* the client owes its view one increment and cannot commit again.         *)
(***************************************************************************)
EXTENDS Naturals

CONSTANTS Client, Cell,
  Nowhere  \* not a cell

VARIABLES
  value,   \* [Cell -> Nat]: the counters
  at,      \* [Client -> Cell \cup {Nowhere}]: the cell a client watches
  view,    \* [Client -> Nat]: the client's copy of that cell
  owed     \* [Client -> BOOLEAN]: its commit is not in its view yet

cvars == <<value, at, view, owed>>

CInit ==
  /\ value = [l \in Cell |-> 0]
  /\ at = [c \in Client |-> Nowhere]
  /\ view = [c \in Client |-> 0]
  /\ owed = [c \in Client |-> FALSE]

(* The client starts to watch l with a fresh view of it. *)
Sync(c, l) ==
  /\ at' = [at EXCEPT ![c] = l]
  /\ view' = [view EXCEPT ![c] = value[l]]
  /\ owed' = [owed EXCEPT ![c] = FALSE]
  /\ UNCHANGED value

(* The client stops to watch. *)
Leave(c) ==
  /\ at' = [at EXCEPT ![c] = Nowhere]
  /\ view' = [view EXCEPT ![c] = 0]
  /\ owed' = [owed EXCEPT ![c] = FALSE]
  /\ UNCHANGED value

(* A commit of a client whose view is current. *)
Commit(c) ==
  /\ at[c] # Nowhere
  /\ view[c] = value[at[c]]
  /\ value' = [value EXCEPT ![at[c]] = @ + 1]
  /\ owed' = [owed EXCEPT ![c] = TRUE]
  /\ UNCHANGED <<at, view>>

(* A commit of an attempt made before its client last synchronised, or of  *)
(* a client that is not one of these.                                      *)
Stray(l) ==
  /\ value' = [value EXCEPT ![l] = @ + 1]
  /\ UNCHANGED <<at, view, owed>>

(* The client learns that its commit succeeded. *)
Acknowledge(c) ==
  /\ owed[c]
  /\ view' = [view EXCEPT ![c] = @ + 1]
  /\ owed' = [owed EXCEPT ![c] = FALSE]
  /\ UNCHANGED <<value, at>>

CNext ==
  \/ \E c \in Client :
       \/ \E l \in Cell : Sync(c, l)
       \/ Leave(c)
       \/ Commit(c)
       \/ Acknowledge(c)
  \/ \E l \in Cell : Stray(l)

CSpec == CInit /\ [][CNext]_cvars
=============================================================================
