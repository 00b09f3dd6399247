------------------------------ MODULE MCProfileAPI ------------------------------
(***************************************************************************)
(* Instances of ProfileAPI for TLC.                                        *)
(***************************************************************************)
EXTENDS ProfileAPIProps

CONSTANTS a, b, v, w

Form(op, key, id, val, auth) ==
    [op |-> op, key |-> key, id |-> id, val |-> val, auth |-> auth]

\* One request of each kind, two that are refused before the store is read,
\* and an add and a delete that meet the others on the same ID.
MCForms == {
    Form("add", a, a, v, TRUE),
    Form("update", a, a, w, TRUE),
    Form("delete", a, a, v, TRUE),
    Form("add", b, b, v, TRUE),
    Form("add", a, b, w, TRUE),
    Form("update", a, a, v, FALSE)}

\* Only requests that may reach the store: for the runs on the files.
MCValidForms == {f \in MCForms : f.auth /\ f.key = f.id}

FileOfOne == [i \in Ids |-> IF i = a THEN v ELSE NoProfile]
MCInitialFiles == {FileOfOne, Absent, Torn}
MCOneFile == {FileOfOne}
MCSequentialFaults == {"read", "backup"}
MCAllFaults == {"read", "backup", "save"}
MCSaveFault == {"save"}
MCNoFaults == {}
===============================================================================
