------------------------------ MODULE TokenLedger ------------------------------
(***************************************************************************)
(* What the "One token per provider, per user" policy of README.md 222     *)
(* promises: an account of the token each identity holds.  An identity is  *)
(* given a token only while it holds none, a token is given once and for   *)
(* one identity, and what is withdrawn stays withdrawn.  An identity for   *)
(* which a call failed is off the books from then on.                      *)
(*                                                                         *)
(* TokenIssuer is shown to implement this module where the policy is       *)
(* switched on, the store is the memory store and logins of one identity   *)
(* come one at a time.                                                     *)
(***************************************************************************)

CONSTANTS
    Identities,  \* those who hold tokens
    Tokens       \* what they hold

VARIABLES
    held,        \* the token of each identity, as a set of at most one
    stray,       \* the identities off the books
    used         \* the tokens given so far

vars == <<held, stray, used>>

Init ==
    /\ held = [i \in Identities |-> {}]
    /\ stray = {}
    /\ used = {}

Grant(i, t) ==
    /\ i \notin stray
    /\ held[i] = {}
    /\ t \notin used
    /\ held' = [held EXCEPT ![i] = {t}]
    /\ used' = used \cup {t}
    /\ UNCHANGED stray

\* A token is revoked, or expires.
Withdraw(i) ==
    /\ held' = [held EXCEPT ![i] = {}]
    /\ UNCHANGED <<stray, used>>

StrikeOff(gone) ==
    /\ stray' = stray \cup gone
    /\ held' = [i \in Identities |-> IF i \in gone THEN {} ELSE held[i]]

\* Some identities go off the books.
Mislay(gone) == StrikeOff(gone) /\ UNCHANGED used

\* A token is given to an identity that goes off the books, or is.
Overdraw(i, t) ==
    /\ t \notin used
    /\ StrikeOff({i})
    /\ used' = used \cup {t}

Next ==
    \/ \E i \in Identities :
          Withdraw(i) \/ \E t \in Tokens : Grant(i, t) \/ Overdraw(i, t)
    \/ \E gone \in SUBSET Identities : Mislay(gone)

Spec == Init /\ [][Next]_vars
===============================================================================
