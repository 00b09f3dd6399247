----------------------------- MODULE MCMongoStore -----------------------------
(***************************************************************************)
(* Instances of MongoStore for TLC.                                        *)
(***************************************************************************)
EXTENDS MongoStore

CONSTANTS a, b, v, w

\* Reads and removals carry no value.
MCForms == {f \in FormType : f.op \in {"put", "set"} \/ f.val = v}

\* An empty collection, and one with a profile.
MCInitialColls == {{}, {[id |-> a, val |-> v]}}
===============================================================================
