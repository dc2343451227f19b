------------------------------ MODULE TokenLock ------------------------------
(***************************************************************************)
(* What the stake subsystem promises whoever stakes: a number of units is  *)
(* locked until a date, locking more never brings the date forward, a lock *)
(* is released in full, to its owner, on its date or later, and a lifetime *)
(* lock never; the pools hold between them what was locked, no more and no *)
(* less.  It does not promise the mint: the units released are taken from  *)
(* whichever pool the owner names, if that one has enough.                 *)
(* VaultSubscription implements this specification (VaultSubscription!Lock)*)
(***************************************************************************)
EXTENDS Naturals

CONSTANTS
  Users,
  Mints,
  Never     \* the date of a lifetime lock; it is not a number

VARIABLES
  clock,
  free,     \* [Users -> [Mints -> Nat]]: tokens in the user's own accounts
  pool,     \* [Mints -> Nat]: tokens the program holds, for all users together
  locked,   \* [Users -> Nat]: units the program owes the user
  date      \* [Users -> Nat \cup {Never}]: when the lock may be released

vars == <<clock, free, pool, locked, date>>

Init ==
  /\ clock = 0
  /\ free \in [Users -> [Mints -> Nat]]
  /\ pool = [m \in Mints |-> 0]
  /\ locked = [u \in Users |-> 0]
  /\ date = [u \in Users |-> 0]

NotEarlier(d, e) == e = Never \/ (d # Never /\ d <= e)

Plus(balances, m, n) == [balances EXCEPT ![m] = @ + n]
Minus(balances, m, n) == [balances EXCEPT ![m] = @ - n]

Lock(u, m, n) ==
  /\ date[u] # Never
  /\ free' = [free EXCEPT ![u] = Minus(@, m, n)]
  /\ pool' = Plus(pool, m, n)
  /\ locked' = [locked EXCEPT ![u] = @ + n]
  /\ NotEarlier(date[u], date'[u]) /\ NotEarlier(clock, date'[u])
  /\ date' = [date EXCEPT ![u] = date'[u]]
  /\ UNCHANGED clock

Release(u, m) ==
  /\ date[u] # Never /\ clock >= date[u]
  /\ pool[m] >= locked[u]
  /\ free' = [free EXCEPT ![u] = Plus(@, m, locked[u])]
  /\ pool' = Minus(pool, m, locked[u])
  /\ locked' = [locked EXCEPT ![u] = 0]
  /\ date' = [date EXCEPT ![u] = 0]
  /\ UNCHANGED clock

Tick == clock' = clock + 1 /\ UNCHANGED <<free, pool, locked, date>>

Next ==
  \/ Tick
  \/ \E u \in Users, m \in Mints :
       Release(u, m) \/ \E n \in 1 .. free[u][m] : Lock(u, m, n)

Spec == Init /\ [][Next]_vars
=============================================================================
