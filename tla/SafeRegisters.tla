----------------------------- MODULE SafeRegisters -----------------------------
(***************************************************************************)
(* What the profiles collection promises its readers and writers without   *)
(* transactions: safe registers in Lamport's sense, one for each key.      *)
(*                                                                         *)
(* A key is at rest until somebody begins to write it.  A writer that had  *)
(* its keys for itself may bring them to rest, and then they hold what it  *)
(* wrote; one that met another, failed or was killed leaves them in an     *)
(* unknown state.  A read of a key at rest finds what it holds; a read of  *)
(* another key may find anything.  MongoStore is shown to implement this   *)
(* module.                                                                 *)
(***************************************************************************)

CONSTANTS
    Clients,    \* those who read and write
    Ids,        \* keys
    Vals,       \* what a record holds beside its key
    NoProfile,  \* what is read if there is no record
    MayFail     \* reads may fail and find nothing

VARIABLES
    keys,       \* the keys each client is writing, none if it is not
    docs,       \* the records it is writing there
    resting,    \* the keys at rest
    stored,     \* the records of those keys
    heard       \* what each client has read

vars == <<keys, docs, resting, stored, heard>>

Docs == [id : Ids, val : Vals]
Idle == [c \in Clients |-> {}]

Init ==
    /\ keys = Idle
    /\ docs = Idle
    /\ resting = Ids
    /\ stored \in SUBSET Docs
    /\ heard = [c \in Clients |-> NoProfile]

Begin(c, some, new) ==
    /\ keys[c] = {}
    /\ keys' = [keys EXCEPT ![c] = some]
    /\ docs' = [docs EXCEPT ![c] = new]
    /\ resting' = resting \ some
    /\ stored' = {d \in stored : d.id \notin some}
    /\ UNCHANGED heard

\* A writer brings its keys to rest, with its records.
Settle(c) ==
    /\ \A o \in Clients \ {c} : keys[o] \cap keys[c] = {}
    /\ keys' = [keys EXCEPT ![c] = {}]
    /\ docs' = [docs EXCEPT ![c] = {}]
    /\ resting' = resting \cup keys[c]
    /\ stored' = stored \cup docs[c]
    /\ UNCHANGED heard

\* Writers end and leave their keys as they are.
Cease(gone) ==
    /\ keys' = [c \in Clients |-> IF c \in gone THEN {} ELSE keys[c]]
    /\ docs' = [c \in Clients |-> IF c \in gone THEN {} ELSE docs[c]]
    /\ UNCHANGED <<resting, stored, heard>>

Holds(i, v) ==
    \/ [id |-> i, val |-> v] \in stored
    \/ v = NoProfile /\ \A d \in stored : d.id # i

Read(c, i, v) ==
    /\ i \in resting => Holds(i, v) \/ (MayFail /\ v = NoProfile)
    /\ heard' = [heard EXCEPT ![c] = v]
    /\ UNCHANGED <<keys, docs, resting, stored>>

Next ==
    \/ \E c \in Clients :
          \/ \E some \in SUBSET Ids :
                \E new \in SUBSET {d \in Docs : d.id \in some} :
                   Begin(c, some, new)
          \/ Settle(c)
          \/ \E i \in Ids, v \in Vals \cup {NoProfile} : Read(c, i, v)
    \/ \E gone \in SUBSET Clients : Cease(gone)

Spec == Init /\ [][Next]_vars
===============================================================================
