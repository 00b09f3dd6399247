------------------------------- MODULE Registry -------------------------------
(***************************************************************************)
(* What the profile management API promises its administrator: a registry  *)
(* of profiles with atomic add, update and remove, a saved copy that is    *)
(* either the registry as it is now or unreadable, and a restart that      *)
(* brings back the saved copy.                                             *)
(*                                                                         *)
(* README.md 966: "flush the current configuration to disk for use when    *)
(* the client starts again".  ProfileAPI is shown to implement this module *)
(* as long as its requests come one at a time.                             *)
(***************************************************************************)

CONSTANTS
    Clients,    \* those who ask for one change each
    Ids,        \* profile IDs
    Vals,       \* what a profile holds beside its ID
    NoProfile,  \* the ID is free
    Unreadable  \* the saved copy is missing, empty or not JSON

VARIABLES
    reg,        \* the registry
    done,       \* the change each client has made
    saved,      \* its copy on disk
    running     \* the service is up

vars == <<reg, done, saved, running>>

Registries == [Ids -> Vals \cup {NoProfile}]
Nothing == [i \in Ids |-> NoProfile]
Recovered == IF saved = Unreadable THEN Nothing ELSE saved

Init ==
    /\ saved \in Registries \cup {Unreadable}
    /\ reg = Recovered
    /\ done = [c \in Clients |-> "none"]
    /\ running = TRUE

Put(c, op, i, v) ==
    /\ running
    /\ done[c] = "none"
    /\ done' = [done EXCEPT ![c] = op]
    /\ reg' = [reg EXCEPT ![i] = v]
    /\ UNCHANGED <<saved, running>>

Add(c, i, v) == reg[i] = NoProfile /\ Put(c, "add", i, v)
Update(c, i, v) == reg[i] # NoProfile /\ Put(c, "update", i, v)
Remove(c, i) == reg[i] # NoProfile /\ Put(c, "delete", i, NoProfile)

Damage ==
    /\ running
    /\ saved' = Unreadable
    /\ UNCHANGED <<reg, done, running>>

Save ==
    /\ running
    /\ saved' = reg
    /\ UNCHANGED <<reg, done, running>>

Stop ==
    /\ running
    /\ running' = FALSE
    /\ reg' = Nothing
    /\ UNCHANGED <<saved, done>>

Start ==
    /\ ~running
    /\ running' = TRUE
    /\ reg' = Recovered
    /\ UNCHANGED <<saved, done>>

Next ==
    \/ \E c \in Clients, i \in Ids :
          Remove(c, i) \/ \E v \in Vals : Add(c, i, v) \/ Update(c, i, v)
    \/ Damage \/ Save \/ Stop \/ Start

Spec == Init /\ [][Next]_vars
===============================================================================
