--------------------------- MODULE MongoStoreProofs ---------------------------
(***************************************************************************)
(* Proofs about the profiles collection for any number of overlapping      *)
(* writers and readers, any keys and records, every fault and any number   *)
(* of crashes.                                                             *)
(*                                                                         *)
(* Requests change the collection in the keys of their scope only, and     *)
(* those are not settled while they do.  A writer that met no other one is *)
(* alone on its keys: what it has written and what it still has to write   *)
(* is its plan.                                                            *)
(***************************************************************************)
EXTENDS MongoStore, TLAPS

\* What a request holds at each of its steps.
Holds(r) ==
    /\ pc[r] # "idle" => form[r] \in Forms
    /\ pc[r] = "read" => form[r].op = "get"
    /\ pc[r] \in {"change", "snapshot"} => form[r].op \in FlushOps
    /\ plan[r] \subseteq given
    /\ todo[r] \subseteq plan[r]
    /\ r \in Writing => /\ form[r].op # "get"
                        /\ \A d \in plan[r] : d.id \in Scope(r)
    /\ pc[r] = "erase" => todo[r] = plan[r]
HandlerState == \A r \in Requests : Holds(r)

\* The loader of a broker that serves is connected unless Init had to retry.
BrokerState ==
    /\ phase = "load" => loader = "connected"
    /\ phase = "serving" => loader = "connected" \/ retried

Provenance == OnlyGiven /\ DocsOf(kv) \subseteq given

\* Writers of one key know of each other, and the key is not settled.
Separation ==
    /\ \A r \in Writing : \A i \in Scope(r) : i \notin settled
    /\ \A r, q \in Writing : r # q /\ Scope(r) \cap Scope(q) # {} => r \in mixed

\* What a writer that is alone has left to do.
OnPlan(r) ==
    pc[r] = "insert" /\ r \notin mixed =>
        \A d \in Docs : d.id \in Scope(r) =>
            (d \in coll \/ d \in todo[r] <=> d \in plan[r])
Alone == \A r \in Requests : OnPlan(r)

Inv1 == TypeOK /\ HandlerState /\ BrokerState
Inv2 == Inv1 /\ Provenance
Inv3 == Separation /\ Alone /\ SettledIsStored
Inv == Inv2 /\ Inv3

-------------------------------------------------------------------------------
(***************************************************************************)
(* Facts about the operators                                               *)
(***************************************************************************)

\* The fields of a form, and the keys of a writer.
LEMMA FormFields ==
    ASSUME NEW f \in Forms
    PROVE  /\ f \in FormType
           /\ f.op \in FlushOps \cup BackendOps
           /\ f.key \in Ids
           /\ f.val \in Vals
           /\ ScopeOf(f) \subseteq Ids
BY ConstantsAssumption DEF FormType, ScopeOf

\* Types of the values the steps build.
LEMMA ValueTypes ==
    /\ NoProfiles \in Registry
    /\ \A reg : DocsOf(reg) \subseteq Docs
    /\ \A i \in Ids, v \in Vals : [id |-> i, val |-> v] \in Docs
    /\ \A keys, docs : On(keys, docs) \subseteq docs
    /\ \A docs : LoadedFrom(docs) \subseteq Registry
BY DEF NoProfiles, Registry, DocsOf, Docs, On, LoadedFrom

\* An empty memory holds no record.
LEMMA NoProfilesDocs == DocsOf(NoProfiles) = {}
BY ConstantsAssumption DEF DocsOf, NoProfiles, Docs

-------------------------------------------------------------------------------
(***************************************************************************)
(* Types and the state of a request                                        *)
(***************************************************************************)

LEMMA Inv1Init == Init => Inv1
<1> SUFFICES ASSUME Init PROVE Inv1
  OBVIOUS
<1>1. TypeOK
  <2>1. coll \in SUBSET Docs
    BY ConstantsAssumption DEF Init
  <2>2. crashes \in 0 .. MaxCrashes
    BY ConstantsAssumption DEF Init
  <2>3. kv \in Registry
    BY ValueTypes DEF Init
  <2> QED
    BY <2>1, <2>2, <2>3 DEF Init, TypeOK, PCs, Replies
<1>2. HandlerState
  BY DEF Init, HandlerState, Holds, Writing
<1>3. BrokerState
  BY DEF Init, BrokerState
<1> QED
  BY <1>1, <1>2, <1>3 DEF Inv1

\* Begin changes the three histories within their types.
LEMMA BeginType ==
    ASSUME TypeOK, NEW r \in Requests, NEW keys, Begin(r, keys)
    PROVE  /\ mixed' \in SUBSET Requests
           /\ settled' \in SUBSET Ids
           /\ saved' \in SUBSET Docs
BY DEF TypeOK, Begin, Writing

LEMMA Inv1Receive ==
    ASSUME Inv1, NEW r \in Requests, Receive(r)
    PROVE  Inv1'
<1> USE DEF Inv1
<1>1. PICK f \in Forms :
        /\ form' = [form EXCEPT ![r] = f]
        /\ ReceiveFlush(r, f) \/ ReceiveWrite(r, f) \/ ReceiveRead(r, f)
  BY DEF Receive
<1>2. pc[r] = "idle" /\ UNCHANGED <<coll, broker, kv, answers, crashes>>
  BY DEF Receive
<1>3. BrokerState'
  BY <1>2 DEF BrokerState, broker
<1>4. CASE ReceiveFlush(r, f)
  <2>1. TypeOK'
    BY <1>1, <1>2, <1>4
    DEF TypeOK, ReceiveFlush, broker, answers, ghosts, PCs
  <2>2. HandlerState'
    BY <1>1, <1>2, <1>4
    DEF TypeOK, HandlerState, Holds, ReceiveFlush, Writing, Scope
  <2> QED
    BY <1>3, <2>1, <2>2
<1>5. CASE ReceiveRead(r, f)
  <2>1. TypeOK'
    BY <1>1, <1>2, <1>5
    DEF TypeOK, ReceiveRead, broker, answers, ghosts, PCs
  <2>2. HandlerState'
    BY <1>1, <1>2, <1>5
    DEF TypeOK, HandlerState, Holds, ReceiveRead, Writing, Scope
  <2> QED
    BY <1>3, <2>1, <2>2
<1>6. CASE ReceiveWrite(r, f)
  <2> DEFINE docs == IF f.op = "set" THEN {[id |-> f.key, val |-> f.val]}
                     ELSE {}
  <2>1. /\ f.op \in {"set", "delete"}
        /\ pc' = [pc EXCEPT ![r] = "erase"]
        /\ plan' = [plan EXCEPT ![r] = docs]
        /\ todo' = [todo EXCEPT ![r] = docs]
        /\ given' = given \cup docs
        /\ Begin(r, {f.key})
    BY <1>6 DEF ReceiveWrite
  <2>2. docs \subseteq Docs
    BY FormFields, ValueTypes
  <2>3. TypeOK'
    BY <1>1, <1>2, <2>1, <2>2, BeginType
    DEF TypeOK, broker, answers, PCs
  <2>4. ScopeOf(f) = {f.key}
    BY <2>1 DEF ScopeOf, FlushOps
  <2>5. \A d \in docs : d.id \in ScopeOf(f)
    BY <2>4
  <2>6. HandlerState'
    <3> SUFFICES ASSUME NEW q \in Requests PROVE Holds(q)'
      BY DEF HandlerState
    <3>1. CASE q = r
      BY <3>1, <1>1, <2>1, <2>5 DEF TypeOK, Holds, Scope
    <3>2. CASE q # r
      BY <3>2, <1>1, <2>1 DEF TypeOK, HandlerState, Holds, Scope, Writing
    <3> QED
      BY <3>1, <3>2
  <2> QED
    BY <1>3, <2>3, <2>6
<1> QED
  BY <1>1, <1>4, <1>5, <1>6

LEMMA Inv1Change ==
    ASSUME Inv1, NEW r \in Requests, Change(r)
    PROVE  Inv1'
<1> USE DEF Inv1
<1>1. form[r] \in Forms
  BY DEF Change, Goto, HandlerState, Holds
<1>2. kv' \in Registry
  BY <1>1, FormFields DEF Change, TypeOK, Registry
<1>3. TypeOK'
  BY <1>2, ValueTypes
  DEF Change, Goto, TypeOK, broker, locals, answers, ghosts, PCs
<1>4. HandlerState'
  BY DEF Change, Goto, TypeOK, HandlerState, Holds, Writing, Scope, locals
<1>5. BrokerState'
  BY DEF Change, BrokerState, broker
<1> QED
  BY <1>3, <1>4, <1>5

LEMMA Inv1Snapshot ==
    ASSUME Inv1, Provenance, NEW r \in Requests, Snapshot(r)
    PROVE  Inv1'
<1> USE DEF Inv1
<1>1. TypeOK'
  BY ValueTypes, BeginType
  DEF Snapshot, Goto, TypeOK, broker, answers, PCs
<1>2. \A d \in DocsOf(kv) : d.id \in Scope(r)
  BY DEF Snapshot, Goto, HandlerState, Holds, Scope, ScopeOf, DocsOf, Docs
<1>3. HandlerState'
  <2> SUFFICES ASSUME NEW q \in Requests PROVE Holds(q)'
    BY DEF HandlerState
  <2>1. CASE q = r
    BY <2>1, <1>2
    DEF Snapshot, Goto, TypeOK, HandlerState, Holds, Scope, Provenance, FlushOps
  <2>2. CASE q # r
    BY <2>2 DEF Snapshot, Goto, TypeOK, HandlerState, Holds, Scope, Writing
  <2> QED
    BY <2>1, <2>2
<1>4. BrokerState'
  BY DEF Snapshot, BrokerState, broker
<1> QED
  BY <1>1, <1>3, <1>4

\* A writer or reader that ends keeps what it holds, whatever it wrote.
LEMMA Inv1End ==
    ASSUME Inv1, NEW r \in Requests, NEW from \in {"erase", "insert"},
           NEW what \in {"ok", "failed", "aborted"}, End(r, from, what),
           coll' \in SUBSET Docs, mixed' \in SUBSET Requests,
           settled' \in SUBSET Ids, saved' \in SUBSET Docs
    PROVE  Inv1'
<1> USE DEF Inv1
<1>1. TypeOK'
  BY DEF End, Goto, TypeOK, broker, locals, PCs, Replies
<1>2. HandlerState'
  BY DEF End, Goto, TypeOK, HandlerState, Holds, Writing, Scope, locals
<1>3. BrokerState'
  BY DEF End, BrokerState, broker
<1> QED
  BY <1>1, <1>2, <1>3

\* A writer that has deleted goes on to insert.
LEMMA Inv1Erased ==
    ASSUME Inv1, NEW r \in Requests, Goto(r, "erase", "insert"),
           UNCHANGED <<broker, kv, locals, answers, crashes, given>>,
           coll' \in SUBSET Docs, mixed' \in SUBSET Requests,
           UNCHANGED <<settled, saved>>
    PROVE  Inv1'
<1> USE DEF Inv1
<1>1. TypeOK'
  BY DEF Goto, TypeOK, broker, locals, answers, PCs
<1>2. HandlerState'
  BY DEF Goto, TypeOK, HandlerState, Holds, Writing, Scope, locals
<1>3. BrokerState'
  BY DEF BrokerState, broker
<1> QED
  BY <1>1, <1>2, <1>3

LEMMA Inv1Erase ==
    ASSUME Inv1, NEW r \in Requests, Erase(r) \/ EraseFails(r)
    PROVE  Inv1'
<1> USE DEF Inv1
<1>1. On(Scope(r), coll) \subseteq coll
  BY ValueTypes
<1>2. CASE EraseUnset(r)
  BY <1>2, Inv1End DEF EraseUnset, TypeOK, ghosts
<1>3. CASE EraseDone(r)
  BY <1>3, <1>1, Inv1Erased DEF EraseDone, TypeOK, ghosts
<1>4. CASE EraseNothing(r)
  BY <1>4, Inv1End DEF EraseNothing, TypeOK, ghosts
<1>5. CASE EraseFails(r)
  <2>1. /\ coll' \in SUBSET Docs
        /\ mixed' \in SUBSET Requests
        /\ UNCHANGED <<settled, saved>>
    BY <1>1, <1>5 DEF EraseFails, TypeOK
  <2>2. CASE End(r, "erase", "failed")
    BY <2>1, <2>2, Inv1End DEF TypeOK
  <2>3. CASE ~End(r, "erase", "failed")
    BY <1>5, <2>1, <2>3, Inv1Erased DEF EraseFails
  <2> QED
    BY <2>2, <2>3
<1> QED
  BY <1>2, <1>3, <1>4, <1>5 DEF Erase

LEMMA Inv1Insert ==
    ASSUME Inv1, NEW r \in Requests, Insert(r)
    PROVE  Inv1'
<1> USE DEF Inv1
<1>1. PICK d \in todo[r] :
        /\ coll' = coll \cup {d}
        /\ todo' = [todo EXCEPT ![r] = @ \ {d}]
  BY DEF Insert
<1>2. TypeOK'
  BY <1>1 DEF Insert, Goto, TypeOK, broker, answers, ghosts, PCs
<1>3. HandlerState'
  BY <1>1 DEF Insert, Goto, TypeOK, HandlerState, Holds, Writing, Scope
<1>4. BrokerState'
  BY DEF Insert, BrokerState, broker
<1> QED
  BY <1>2, <1>3, <1>4

LEMMA Inv1InsertFails ==
    ASSUME Inv1, NEW r \in Requests, InsertFails(r)
    PROVE  Inv1'
<1>1. PICK d \in todo[r] : coll' \in {coll, coll \cup {d}}
  BY DEF InsertFails
<1>2. coll' \in SUBSET Docs
  BY <1>1 DEF Inv1, TypeOK
<1> QED
  BY <1>2, Inv1End DEF InsertFails, ghosts, Inv1, TypeOK

LEMMA Inv1Finish ==
    ASSUME Inv1, NEW r \in Requests, Finish(r)
    PROVE  Inv1'
<1>1. form[r] \in Forms
  BY DEF Inv1, Finish, End, Goto, HandlerState, Holds
<1>2. Scope(r) \subseteq Ids
  BY <1>1, FormFields DEF Scope
<1>3. settled' \in SUBSET Ids /\ saved' \in SUBSET Docs
  BY <1>2, ValueTypes DEF Inv1, Finish, TypeOK
<1> QED
  BY <1>3, Inv1End DEF Finish, Inv1, TypeOK

LEMMA Inv1Read ==
    ASSUME Inv1, NEW r \in Requests, Read(r)
    PROVE  Inv1'
<1> USE DEF Inv1
<1>1. TypeOK'
  BY DEF Read, Goto, TypeOK, broker, locals, ghosts, PCs, Replies
<1>2. HandlerState'
  BY DEF Read, Goto, TypeOK, HandlerState, Holds, Writing, Scope, locals
<1>3. BrokerState'
  BY DEF Read, BrokerState, broker
<1> QED
  BY <1>1, <1>2, <1>3

LEMMA Inv1Start ==
    ASSUME Inv1, ConnectFails \/ Connect \/ Load \/ Restart
    PROVE  Inv1'
<1> USE DEF Inv1
<1>1. CASE ConnectFails
  BY <1>1
  DEF ConnectFails, TypeOK, HandlerState, Holds, Writing, Scope, BrokerState,
      locals, answers, ghosts
<1>2. CASE Connect
  BY <1>2
  DEF Connect, TypeOK, HandlerState, Holds, Writing, Scope, BrokerState,
      locals, answers, ghosts
<1>3. CASE Load
  <2>1. kv' \in Registry
    BY <1>3, ValueTypes DEF Load
  <2>2. TypeOK'
    BY <1>3, <2>1, ValueTypes DEF Load, TypeOK, locals, answers, ghosts
  <2>3. HandlerState'
    BY <1>3 DEF Load, HandlerState, Holds, Writing, Scope, locals
  <2>4. BrokerState'
    BY <1>3 DEF Load, BrokerState
  <2> QED
    BY <2>2, <2>3, <2>4
<1>4. CASE Restart
  BY <1>4
  DEF Restart, TypeOK, HandlerState, Holds, Writing, Scope, BrokerState,
      locals, answers, ghosts
<1> QED
  BY <1>1, <1>2, <1>3, <1>4

LEMMA Inv1Crash ==
    ASSUME Inv1, CrashBroker \/ CrashOther
    PROVE  Inv1'
<1> USE DEF Inv1
<1>1. PICK ops : Kill(ops)
  BY DEF CrashBroker, CrashOther
<1>2. /\ phase' \in {"down", "connect", "load", "serving"}
      /\ retried' \in BOOLEAN
      /\ loader' \in {"unset", "connected", "failed"}
      /\ kv' \in Registry
  BY ValueTypes DEF CrashBroker, CrashOther, TypeOK, broker
<1>3. crashes' \in 0 .. MaxCrashes
  BY <1>1, ConstantsAssumption DEF Kill, TypeOK
<1>4. /\ pc' \in [Requests -> PCs]
      /\ reply' \in [Requests -> Replies]
  BY <1>1 DEF Kill, TypeOK, PCs, Replies
<1>5. TypeOK'
  BY <1>1, <1>2, <1>3, <1>4 DEF Kill, TypeOK, locals, ghosts
<1>6. ASSUME NEW r \in Requests
      PROVE  (pc'[r] = pc[r]) \/ (pc'[r] = "done" /\ pc[r] # "idle")
  <2> DEFINE lost == {q \in Requests : pc[q] \notin {"idle", "done"}
                                       /\ form[q].op \in ops}
  <2>1. pc' = [q \in Requests |-> IF q \in lost THEN "done" ELSE pc[q]]
    BY <1>1 DEF Kill
  <2>2. pc'[r] = IF r \in lost THEN "done" ELSE pc[r]
    BY <2>1
  <2>3. r \in lost => pc[r] # "idle"
    OBVIOUS
  <2> QED
    BY <2>2, <2>3
<1>7. HandlerState'
  BY <1>1, <1>6
  DEF Kill, TypeOK, HandlerState, Holds, Writing, Scope, locals
<1>8. BrokerState'
  BY DEF CrashBroker, CrashOther, BrokerState, broker
<1> QED
  BY <1>5, <1>7, <1>8

-------------------------------------------------------------------------------
(***************************************************************************)
(* Where records come from                                                 *)
(***************************************************************************)

\* Every step adds to the collection and to the memory what was given.
LEMMA ProvenanceStep ==
    ASSUME Inv1, Provenance, [Next]_vars
    PROVE  Provenance'
<1> USE DEF Inv1
<1>0. CASE UNCHANGED vars
  BY <1>0 DEF vars, Provenance, OnlyGiven, DocsOf
<1>1. ASSUME NEW r \in Requests, Receive(r) PROVE Provenance'
  <2>1. given \subseteq given'
    BY <1>1 DEF Receive, ReceiveFlush, ReceiveWrite, ReceiveRead
  <2> QED
    BY <1>1, <2>1 DEF Receive, Provenance, OnlyGiven, DocsOf
<1>2. ASSUME NEW r \in Requests, Change(r) PROVE Provenance'
  BY <1>2 DEF Change, Provenance, OnlyGiven, DocsOf
<1>3. ASSUME NEW r \in Requests, Snapshot(r) PROVE Provenance'
  BY <1>3 DEF Snapshot, Provenance, OnlyGiven, DocsOf
<1>4. ASSUME NEW r \in Requests, Erase(r) \/ EraseFails(r)
      PROVE  Provenance'
  <2>1. UNCHANGED <<kv, given>>
    BY <1>4
    DEF Erase, EraseUnset, EraseDone, EraseNothing, EraseFails, End
  <2>2. coll' \subseteq coll
    BY <1>4, ValueTypes
    DEF Erase, EraseUnset, EraseDone, EraseNothing, EraseFails
  <2> QED
    BY <2>1, <2>2 DEF Provenance, OnlyGiven, DocsOf
<1>5. ASSUME NEW r \in Requests, Insert(r) \/ InsertFails(r)
      PROVE  Provenance'
  <2>1. todo[r] \subseteq given
    BY DEF HandlerState, Holds
  <2>2. UNCHANGED <<kv, given>>
    BY <1>5 DEF Insert, InsertFails, End
  <2>3. PICK d \in todo[r] : coll' \in {coll, coll \cup {d}}
    BY <1>5 DEF Insert, InsertFails
  <2> QED
    BY <2>1, <2>2, <2>3 DEF Provenance, OnlyGiven, DocsOf
<1>6. ASSUME NEW r \in Requests, Finish(r) \/ Read(r) PROVE Provenance'
  BY <1>6 DEF Finish, Read, End, Provenance, OnlyGiven, DocsOf
<1>7. CASE ConnectFails \/ Connect \/ Restart
  BY <1>7 DEF ConnectFails, Connect, Restart, Provenance, OnlyGiven, DocsOf
<1>8. CASE Load
  BY <1>8 DEF Load, Provenance, OnlyGiven, DocsOf
<1>9. CASE CrashBroker
  BY <1>9, NoProfilesDocs
  DEF CrashBroker, Kill, Provenance, OnlyGiven, DocsOf
<1>10. CASE CrashOther
  BY <1>10 DEF CrashOther, Kill, Provenance, OnlyGiven, DocsOf
<1> QED
  BY <1>0, <1>1, <1>2, <1>3, <1>4, <1>5, <1>6, <1>7, <1>8, <1>9, <1>10
  DEF Next, Step

-------------------------------------------------------------------------------
(***************************************************************************)
(* Writers and settled keys                                                *)
(***************************************************************************)

LEMMA Inv3Init == Init => Inv3
BY DEF Init, Inv3, Separation, Alone, OnPlan, SettledIsStored, Writing

\* A step that leaves the records and the remaining writers alone.
LEMMA Inv3Quiet ==
    ASSUME Inv3, UNCHANGED <<coll, ghosts>>,
           \A r \in Requests : pc'[r] \in {"erase", "insert"} =>
              /\ pc'[r] = pc[r]
              /\ form'[r] = form[r]
              /\ plan'[r] = plan[r]
              /\ todo'[r] = todo[r]
    PROVE  Inv3'
<1> USE DEF Inv3
<1>1. Separation'
  BY DEF Separation, Writing, Scope, ghosts
<1>2. Alone'
  BY DEF Alone, OnPlan, Scope, ghosts
<1>3. SettledIsStored'
  BY DEF SettledIsStored, ghosts
<1> QED
  BY <1>1, <1>2, <1>3

\* A request becomes a writer: those it meets are mixed with it.
LEMMA Inv3Begin ==
    ASSUME Inv1, Inv3, NEW r \in Requests, NEW keys, Begin(r, keys),
           r \notin Writing,
           pc' = [pc EXCEPT ![r] = "erase"],
           UNCHANGED coll,
           Scope(r)' = keys,
           \A q \in Requests : q # r =>
              form'[q] = form[q] /\ plan'[q] = plan[q] /\ todo'[q] = todo[q]
    PROVE  Inv3'
<1> USE DEF Inv1, Inv3
<1> DEFINE met == {q \in Writing : Scope(q) \cap keys # {}}
<1>1. /\ mixed' = mixed \cup met \cup (IF met = {} THEN {} ELSE {r})
      /\ settled' = settled \ keys
      /\ saved' = saved
  BY DEF Begin
<1>2. ASSUME NEW q \in Writing', q # r PROVE q \in Writing
  <2>1. q \in Requests /\ pc'[q] \in {"erase", "insert"}
    BY DEF Writing
  <2>2. pc'[q] = pc[q]
    BY <1>2, <2>1 DEF TypeOK
  <2> QED
    BY <2>1, <2>2 DEF Writing
<1>3. ASSUME NEW q \in Requests, q # r PROVE Scope(q)' = Scope(q)
  BY <1>3 DEF Scope
<1>4. Separation'
  <2>1. ASSUME NEW q \in Writing' PROVE \A i \in Scope(q)' : i \notin settled'
    <3>1. CASE q = r
      BY <1>1, <3>1
    <3>2. CASE q # r
      <4>1. q \in Writing /\ q \in Requests
        BY <1>2, <3>2 DEF Writing
      <4> QED
        BY <1>1, <1>3, <3>2, <4>1 DEF Separation
    <3> QED
      BY <3>1, <3>2
  <2>2. ASSUME NEW q \in Writing', NEW p \in Writing', q # p,
               Scope(q)' \cap Scope(p)' # {}
        PROVE  q \in mixed'
    <3>1. CASE q = r
      <4>1. p \in Writing /\ p \in Requests
        BY <1>2, <2>2, <3>1 DEF Writing
      <4>2. p \in met
        BY <1>3, <2>2, <3>1, <4>1
      <4> QED
        BY <1>1, <3>1, <4>2
    <3>2. CASE q # r /\ p = r
      <4>1. q \in Writing /\ q \in Requests
        BY <1>2, <3>2 DEF Writing
      <4>2. q \in met
        BY <1>3, <2>2, <3>2, <4>1
      <4> QED
        BY <1>1, <4>2
    <3>3. CASE q # r /\ p # r
      <4>1. q \in Writing /\ p \in Writing /\ q \in Requests /\ p \in Requests
        BY <1>2, <3>3 DEF Writing
      <4> QED
        BY <1>1, <1>3, <2>2, <3>3, <4>1 DEF Separation
    <3> QED
      BY <3>1, <3>2, <3>3
  <2> QED
    BY <2>1, <2>2 DEF Separation
<1>5. Alone'
  <2> SUFFICES ASSUME NEW q \in Requests PROVE OnPlan(q)'
    BY DEF Alone
  <2>1. CASE q = r
    BY <2>1 DEF TypeOK, OnPlan
  <2>2. CASE q # r
    BY <2>2, <1>1, <1>3 DEF TypeOK, Alone, OnPlan
  <2> QED
    BY <2>1, <2>2
<1>6. SettledIsStored'
  BY <1>1 DEF SettledIsStored
<1> QED
  BY <1>4, <1>5, <1>6

\* A writer changes records in its scope only, and ends up on its plan.
LEMMA Inv3Write ==
    ASSUME Inv3, NEW r \in Writing,
           \A d \in Docs : d.id \notin Scope(r) => (d \in coll' <=> d \in coll),
           UNCHANGED <<form, plan, settled, saved>>,
           mixed \subseteq mixed',
           \A q \in Requests : q # r => pc'[q] = pc[q] /\ todo'[q] = todo[q],
           OnPlan(r)'
    PROVE  Inv3'
<1> USE DEF Inv3
<1>1. ASSUME NEW q \in Requests PROVE Scope(q)' = Scope(q)
  BY DEF Scope
<1>2. ASSUME NEW q \in Writing' PROVE q \in Writing /\ q \in Requests
  BY DEF Writing
<1>3. Separation'
  <2>1. ASSUME NEW q \in Writing' PROVE \A i \in Scope(q)' : i \notin settled'
    BY <1>1, <1>2 DEF Separation
  <2>2. ASSUME NEW q \in Writing', NEW p \in Writing', q # p,
               Scope(q)' \cap Scope(p)' # {}
        PROVE  q \in mixed'
    BY <1>1, <1>2, <2>2 DEF Separation
  <2> QED
    BY <2>1, <2>2 DEF Separation
<1>4. Alone'
  <2> SUFFICES ASSUME NEW q \in Requests, q # r PROVE OnPlan(q)'
    BY DEF Alone
  <2> SUFFICES ASSUME pc'[q] = "insert", q \notin mixed',
                      NEW d \in Docs, d.id \in Scope(q)'
               PROVE  d \in coll' \/ d \in todo'[q] <=> d \in plan'[q]
    BY DEF OnPlan
  <2>1. pc[q] = "insert" /\ q \in Writing /\ q \notin mixed
    BY DEF Writing
  <2>2. d.id \in Scope(q) /\ d.id \notin Scope(r)
    BY <1>1, <2>1 DEF Separation
  <2>3. d \in coll' <=> d \in coll
    BY <2>2
  <2> QED
    BY <2>1, <2>2, <2>3 DEF Alone, OnPlan
<1>5. SettledIsStored'
  BY DEF SettledIsStored, Separation
<1> QED
  BY <1>3, <1>4, <1>5

LEMMA Inv3Erase ==
    ASSUME Inv1, Inv3, NEW r \in Requests, Erase(r) \/ EraseFails(r)
    PROVE  Inv3'
<1> USE DEF Inv1
<1>1. pc[r] = "erase" /\ r \in Writing
  BY DEF Erase, EraseFails, Writing
<1>2. \A d \in Docs : d \in On(Scope(r), coll) <=> d \in coll /\ d.id \in Scope(r)
  BY DEF On
<1>3. CASE EraseUnset(r) \/ EraseNothing(r)
  BY <1>3, Inv3Quiet
  DEF EraseUnset, EraseNothing, End, Goto, TypeOK, ghosts, locals
<1>4. CASE EraseDone(r)
  <2>1. pc' = [pc EXCEPT ![r] = "insert"] /\ coll' = coll \ On(Scope(r), coll)
    BY <1>4 DEF EraseDone, Goto
  <2>2. UNCHANGED <<form, plan, todo, mixed, settled, saved>>
    BY <1>4 DEF EraseDone, locals, ghosts
  <2>3. todo[r] = plan[r]
    BY <1>1 DEF HandlerState, Holds
  <2>4. OnPlan(r)'
    BY <1>2, <2>1, <2>2, <2>3 DEF OnPlan, Scope
  <2>5. \A q \in Requests : q # r => pc'[q] = pc[q]
    BY <2>1 DEF TypeOK
  <2> QED
    BY <1>1, <1>2, <2>1, <2>2, <2>4, <2>5, Inv3Write
<1>5. CASE EraseFails(r)
  <2>1. PICK left \in SUBSET On(Scope(r), coll) :
          /\ coll' = (coll \ On(Scope(r), coll)) \cup left
          /\ mixed' = mixed \cup {r}
    BY <1>5 DEF EraseFails
  <2>2. UNCHANGED <<form, plan, todo, settled, saved>>
    BY <1>5 DEF EraseFails, End, locals
  <2>3. OnPlan(r)'
    BY <2>1 DEF OnPlan
  <2>4. \A q \in Requests : q # r => pc'[q] = pc[q]
    BY <1>5 DEF EraseFails, End, Goto, TypeOK
  <2>5. \A d \in Docs : d.id \notin Scope(r) => (d \in coll' <=> d \in coll)
    BY <1>2, <2>1
  <2> QED
    BY <1>1, <2>1, <2>2, <2>3, <2>4, <2>5, Inv3Write
<1> QED
  BY <1>3, <1>4, <1>5 DEF Erase

LEMMA Inv3Insert ==
    ASSUME Inv1, Inv3, NEW r \in Requests, Insert(r) \/ InsertFails(r)
    PROVE  Inv3'
<1> USE DEF Inv1
<1>1. pc[r] = "insert" /\ r \in Writing
  BY DEF Insert, InsertFails, End, Goto, Writing
<1>2. PICK d \in todo[r] :
        /\ coll' \in {coll, coll \cup {d}}
        /\ Insert(r) => coll' = coll \cup {d}
                       /\ todo' = [todo EXCEPT ![r] = @ \ {d}]
  BY DEF Insert, InsertFails
<1>3. d.id \in Scope(r) /\ d \in plan[r]
  BY <1>1 DEF HandlerState, Holds
<1>4. UNCHANGED <<form, plan, mixed, settled, saved>>
  BY DEF Insert, InsertFails, End, locals, ghosts
<1>5. \A q \in Requests : q # r => pc'[q] = pc[q] /\ todo'[q] = todo[q]
  BY <1>2 DEF Insert, InsertFails, End, Goto, TypeOK, locals
<1>6. OnPlan(r)'
  <2>1. CASE Insert(r)
    <3>1. todo'[r] = todo[r] \ {d} /\ coll' = coll \cup {d}
      BY <1>2, <2>1 DEF TypeOK
    <3> QED
      BY <1>1, <1>3, <1>4, <3>1 DEF Inv3, Alone, OnPlan, Scope
  <2>2. CASE InsertFails(r)
    BY <2>2 DEF InsertFails, End, Goto, TypeOK, OnPlan
  <2> QED
    BY <2>1, <2>2
<1> QED
  BY <1>1, <1>2, <1>3, <1>4, <1>5, <1>6, Inv3Write

\* Writing the whole plan settles the keys of a writer that was alone.
LEMMA Inv3Finish ==
    ASSUME Inv1, Inv3, NEW r \in Requests, Finish(r)
    PROVE  Inv3'
<1> USE DEF Inv1, Inv3
<1>1. pc[r] = "insert" /\ r \in Writing /\ todo[r] = {}
  BY DEF Finish, End, Goto, Writing
<1>2. UNCHANGED <<form, plan, todo, coll, mixed>>
  BY DEF Finish, End, locals
<1>3. pc' = [pc EXCEPT ![r] = "done"]
  BY DEF Finish, End, Goto
<1>4. ASSUME NEW q \in Requests PROVE Scope(q)' = Scope(q)
  BY <1>2 DEF Scope
<1>5. ASSUME NEW q \in Writing' PROVE q # r /\ q \in Writing /\ pc'[q] = pc[q]
  BY <1>3 DEF Writing, TypeOK
<1>6. CASE r \in mixed
  <2>1. UNCHANGED ghosts
    BY <1>2, <1>6 DEF Finish, ghosts
  <2> QED
    BY <1>2, <1>3, <2>1, Inv3Quiet DEF TypeOK
<1>7. CASE r \notin mixed
  <2>1. /\ settled' = settled \cup Scope(r)
        /\ saved' = (saved \ On(Scope(r), saved)) \cup plan[r]
    BY <1>7 DEF Finish
  <2>2. ASSUME NEW q \in Writing' PROVE Scope(q) \cap Scope(r) = {}
    BY <1>1, <1>5, <1>7 DEF Separation
  <2>3. Separation'
    <3>1. ASSUME NEW q \in Writing'
          PROVE  \A i \in Scope(q)' : i \notin settled'
      <4>1. q \in Writing /\ q \in Requests
        BY <1>5 DEF Writing
      <4> QED
        BY <1>4, <2>1, <2>2, <4>1 DEF Separation
    <3>2. ASSUME NEW q \in Writing', NEW p \in Writing', q # p,
                 Scope(q)' \cap Scope(p)' # {}
          PROVE  q \in mixed'
      <4>1. q \in Writing /\ p \in Writing /\ q \in Requests /\ p \in Requests
        BY <1>5 DEF Writing
      <4> QED
        BY <1>2, <1>4, <3>2, <4>1 DEF Separation
    <3> QED
      BY <3>1, <3>2 DEF Separation
  <2>4. Alone'
    <3> SUFFICES ASSUME NEW q \in Requests, pc'[q] = "insert", q \notin mixed'
                 PROVE  OnPlan(q)'
      BY DEF Alone, OnPlan
    <3>1. pc[q] = "insert"
      BY <1>3 DEF TypeOK
    <3> QED
      BY <1>2, <1>4, <3>1 DEF Alone, OnPlan
  <2>5. SettledIsStored'
    <3> SUFFICES ASSUME NEW d \in Docs, d.id \in settled'
                 PROVE  d \in coll <=> d \in saved'
      BY <1>2 DEF SettledIsStored
    <3>1. CASE d.id \in Scope(r)
      <4>1. d \in coll <=> d \in plan[r]
        BY <1>1, <1>7, <3>1 DEF Alone, OnPlan
      <4> QED
        BY <2>1, <3>1, <4>1 DEF On
    <3>2. CASE d.id \notin Scope(r)
      <4>1. d \notin plan[r]
        BY <1>1, <3>2 DEF HandlerState, Holds
      <4>2. d.id \in settled
        BY <2>1, <3>2
      <4> QED
        BY <2>1, <3>2, <4>1, <4>2 DEF SettledIsStored, On
    <3> QED
      BY <3>1, <3>2
  <2> QED
    BY <2>3, <2>4, <2>5
<1> QED
  BY <1>6, <1>7

-------------------------------------------------------------------------------
(***************************************************************************)
(* The invariant                                                           *)
(***************************************************************************)

LEMMA InvInit == Init => Inv
<1> SUFFICES ASSUME Init PROVE Inv
  OBVIOUS
<1>1. Provenance
  BY NoProfilesDocs DEF Init, Provenance, OnlyGiven
<1> QED
  BY <1>1, Inv1Init, Inv3Init DEF Inv, Inv2

LEMMA Inv1Next ==
    ASSUME Inv1, Provenance, [Next]_vars
    PROVE  Inv1'
<1>0. CASE UNCHANGED vars
  BY <1>0
  DEF vars, broker, locals, answers, ghosts, Inv1, TypeOK, HandlerState, Holds,
      Writing, Scope, BrokerState
<1> QED
  BY <1>0, Inv1Receive, Inv1Change, Inv1Snapshot, Inv1Erase, Inv1Insert,
     Inv1InsertFails, Inv1Finish, Inv1Read, Inv1Start, Inv1Crash
  DEF Next, Step

LEMMA Inv3Next ==
    ASSUME Inv1, Inv3, [Next]_vars
    PROVE  Inv3'
<1>0. CASE UNCHANGED vars
  BY <1>0, Inv3Quiet DEF vars, locals, ghosts
<1>1. ASSUME NEW r \in Requests, Receive(r) PROVE Inv3'
  <2>1. PICK f \in Forms :
          /\ form' = [form EXCEPT ![r] = f]
          /\ ReceiveFlush(r, f) \/ ReceiveWrite(r, f) \/ ReceiveRead(r, f)
    BY <1>1 DEF Receive
  <2>2. pc[r] = "idle" /\ UNCHANGED coll
    BY <1>1 DEF Receive
  <2>3. CASE ReceiveFlush(r, f) \/ ReceiveRead(r, f)
    <3>1. UNCHANGED <<plan, todo, ghosts>>
      BY <2>3 DEF ReceiveFlush, ReceiveRead, ghosts
    <3>2. \A q \in Requests : pc'[q] \in {"erase", "insert"} => q # r
      BY <2>3 DEF ReceiveFlush, ReceiveRead, Inv1, TypeOK
    <3>3. \A q \in Requests : q # r => pc'[q] = pc[q] /\ form'[q] = form[q]
      BY <2>1, <2>3 DEF ReceiveFlush, ReceiveRead, Inv1, TypeOK
    <3> QED
      BY <2>2, <3>1, <3>2, <3>3, Inv3Quiet
  <2>4. CASE ReceiveWrite(r, f)
    <3>1. Scope(r)' = {f.key}
      BY <2>1, <2>4 DEF ReceiveWrite, Scope, ScopeOf, FlushOps, Inv1, TypeOK
    <3>2. \A q \in Requests : q # r =>
            form'[q] = form[q] /\ plan'[q] = plan[q] /\ todo'[q] = todo[q]
      BY <2>1, <2>4 DEF ReceiveWrite, Inv1, TypeOK
    <3>3. pc' = [pc EXCEPT ![r] = "erase"] /\ Begin(r, {f.key})
      BY <2>4 DEF ReceiveWrite
    <3>4. r \notin Writing
      BY <2>2 DEF Writing
    <3> QED
      BY <2>2, <3>1, <3>2, <3>3, <3>4, Inv3Begin
  <2> QED
    BY <2>1, <2>3, <2>4
<1>2. ASSUME NEW r \in Requests, Change(r) PROVE Inv3'
  BY <1>2, Inv3Quiet DEF Change, Goto, Inv1, TypeOK, locals, ghosts
<1>3. ASSUME NEW r \in Requests, Snapshot(r) PROVE Inv3'
  <2>1. pc' = [pc EXCEPT ![r] = "erase"] /\ Begin(r, Ids) /\ r \notin Writing
    BY <1>3 DEF Snapshot, Goto, Writing
  <2>2. UNCHANGED <<coll, form>>
    BY <1>3 DEF Snapshot
  <2>3. Scope(r)' = Ids
    BY <1>3, <2>2
    DEF Snapshot, Goto, Scope, ScopeOf, Inv1, HandlerState, Holds
  <2>4. \A q \in Requests : q # r => plan'[q] = plan[q] /\ todo'[q] = todo[q]
    BY <1>3 DEF Snapshot, Inv1, TypeOK
  <2> QED
    BY <2>1, <2>2, <2>3, <2>4, Inv3Begin
<1>4. ASSUME NEW r \in Requests, Read(r) PROVE Inv3'
  BY <1>4, Inv3Quiet DEF Read, Goto, Inv1, TypeOK, locals, ghosts
<1>5. CASE ConnectFails \/ Connect \/ Load \/ Restart
  BY <1>5, Inv3Quiet DEF ConnectFails, Connect, Load, Restart, locals, ghosts
<1>6. CASE CrashBroker \/ CrashOther
  <2>1. PICK ops : Kill(ops)
    BY <1>6 DEF CrashBroker, CrashOther
  <2>2. UNCHANGED <<coll, form, plan, todo, ghosts>>
    BY <2>1 DEF Kill, locals, ghosts
  <2>3. ASSUME NEW r \in Requests, pc'[r] \in {"erase", "insert"}
        PROVE  pc'[r] = pc[r]
    BY <2>1, <2>3 DEF Kill
  <2> QED
    BY <2>2, <2>3, Inv3Quiet
<1> QED
  BY <1>0, <1>1, <1>2, <1>3, <1>4, <1>5, <1>6, Inv3Erase, Inv3Insert,
     Inv3Finish
  DEF Next, Step

THEOREM Invariance == Spec => []Inv
<1>1. Inv /\ [Next]_vars => Inv'
  BY Inv1Next, ProvenanceStep, Inv3Next DEF Inv, Inv2
<1> QED
  BY InvInit, <1>1, PTL DEF Spec

-------------------------------------------------------------------------------
(***************************************************************************)
(* Theorems                                                                *)
(***************************************************************************)

\* Every variable keeps its type, in whatever order requests, faults and
\* crashes come.
THEOREM StoreTyping == Spec => []TypeOK
<1>1. Inv => TypeOK
  BY DEF Inv, Inv2, Inv1
<1> QED
  BY Invariance, <1>1, PTL

\* The collection holds no record that nobody asked to keep, whichever flushes
\* and SetKey overlap, fail and are cut off (mongo_loader.go 83-115).
THEOREM NothingInvented == Spec => []OnlyGiven
<1>1. Inv => OnlyGiven
  BY DEF Inv, Inv2, Provenance
<1> QED
  BY Invariance, <1>1, PTL

\* A write that was answered ok and met no other writer of its keys is what
\* the collection holds until the next writer begins (mongo_loader.go 83-115,
\* backends/mongo.go 25-48).
THEOREM WritesSettle == Spec => []SettledIsStored
<1>1. Inv => SettledIsStored
  BY DEF Inv, Inv3
<1> QED
  BY Invariance, <1>1, PTL

\* The records of a settled key are those its last writer left.
LEMMA SettledKeys ==
    ASSUME Inv3, TypeOK, NEW i \in settled, NEW v
    PROVE  /\ [id |-> i, val |-> v] \in coll => LastWritten(i, v)
           /\ On({i}, coll) = {} => LastWritten(i, NoProfile)
<1>1. \A d \in Docs : d.id = i => (d \in coll <=> d \in saved)
  BY DEF Inv3, SettledIsStored
<1>2. [id |-> i, val |-> v] \in coll => [id |-> i, val |-> v] \in saved
  BY <1>1 DEF TypeOK
<1>3. On({i}, coll) = On({i}, saved)
  BY <1>1 DEF TypeOK, On
<1> QED
  BY <1>2, <1>3 DEF LastWritten

\* The answer of a read comes from Read.
LEMMA OnlyReadersGet ==
    ASSUME Inv1, Next, NEW r \in Requests,
           reply[r] = "none", reply'[r] = "ok", form[r].op = "get"
    PROVE  Read(r)
<1> USE DEF Inv1
<1>1. ASSUME NEW q \in Requests, Receive(q) \/ Change(q) \/ Snapshot(q) \/ Insert(q)
      PROVE  FALSE
  BY <1>1 DEF Receive, Change, Snapshot, Insert, answers
<1>2. ASSUME NEW q \in Requests, Erase(q) \/ EraseFails(q) \/ InsertFails(q)
      PROVE  FALSE
  BY <1>2
  DEF Erase, EraseUnset, EraseDone, EraseNothing, EraseFails, InsertFails, End,
      TypeOK, answers
<1>3. ASSUME NEW q \in Requests, Finish(q) PROVE FALSE
  <2>1. q \in Writing /\ form[q].op # "get"
    BY <1>3 DEF Finish, End, Goto, Writing, HandlerState, Holds
  <2> QED
    BY <1>3, <2>1 DEF Finish, End, TypeOK
<1>4. ASSUME NEW q \in Requests, Read(q) PROVE q = r
  BY <1>4 DEF Read, TypeOK
<1>5. ~(ConnectFails \/ Connect \/ Load \/ Restart)
  BY DEF ConnectFails, Connect, Load, Restart, answers
<1>6. ~(CrashBroker \/ CrashOther)
  BY DEF CrashBroker, CrashOther, Kill
<1> QED
  BY <1>1, <1>2, <1>3, <1>4, <1>5, <1>6 DEF Next, Step

\* Readers of a settled key and a broker that starts find what is settled, or
\* nothing after a failed query (mongo_loader.go 51-70, mongo.go 50-80).
THEOREM SettledFound == Spec => ReadersFindSettled
<1>1. Inv /\ [Next]_vars => [FindsSettled]_vars
  <2> SUFFICES ASSUME Inv, Next PROVE FindsSettled
    OBVIOUS
  <2> USE DEF Inv, Inv2, Inv1, Inv3
  <2>1. ASSUME NEW r \in Requests, reply[r] = "none", reply'[r] = "ok",
               form[r].op = "get", form[r].key \in settled
        PROVE  \/ LastWritten(form[r].key, result'[r])
               \/ result'[r] = NoProfile /\ "query" \in Faults
    <3>1. Read(r)
      BY <2>1, OnlyReadersGet
    <3>2. form[r].key \in Ids
      BY <3>1, FormFields DEF Read, Goto, HandlerState, Holds
    <3>4. PICK v \in Vals \cup {NoProfile} :
            /\ \/ v \in Found(form[r].key)
               \/ v = NoProfile /\ Found(form[r].key) = {}
               \/ v = NoProfile /\ "query" \in Faults
            /\ result' = [result EXCEPT ![r] = v]
      BY <3>1 DEF Read
    <3>5. result'[r] = v
      BY <3>4 DEF TypeOK
    <3>6. ASSUME v \in Found(form[r].key)
          PROVE  [id |-> form[r].key, val |-> v] \in coll
      <4>1. PICK d \in On({form[r].key}, coll) : v = d.val
        BY <3>6 DEF Found
      <4>2. d \in coll /\ d \in Docs /\ d.id = form[r].key
        BY <4>1 DEF On, TypeOK
      <4>3. d = [id |-> form[r].key, val |-> v]
        BY <4>1, <4>2 DEF Docs
      <4> QED
        BY <4>2, <4>3
    <3>7. ASSUME Found(form[r].key) = {}
          PROVE  On({form[r].key}, coll) = {}
      BY <3>7 DEF Found
    <3> QED
      BY <2>1, <3>2, <3>4, <3>5, <3>6, <3>7, SettledKeys
  <2>2. ASSUME phase = "load", phase' = "serving"
        PROVE  \/ \A i \in settled : LastWritten(i, kv'[i])
               \/ kv' = NoProfiles /\ "query" \in Faults
    <3>1. Load
      BY <2>2
      DEF Next, Step, Receive, Change, Snapshot, Erase, EraseUnset, EraseDone,
          EraseNothing, EraseFails, Insert, InsertFails, Finish, End, Read,
          ConnectFails, Connect, CrashBroker, CrashOther, Restart, broker
    <3>2. CASE kv' \in LoadedFrom(coll)
      <4>1. ASSUME NEW i \in settled PROVE LastWritten(i, kv'[i])
        <5>1. i \in Ids
          BY DEF TypeOK
        <5>2. \/ On({i}, coll) = {} /\ kv'[i] = NoProfile
              \/ [id |-> i, val |-> kv'[i]] \in coll
          BY <3>2, <5>1 DEF LoadedFrom
        <5> QED
          BY <5>1, <5>2, SettledKeys
      <4> QED
        BY <4>1
    <3> QED
      BY <3>1, <3>2 DEF Load
  <2> QED
    BY <2>1, <2>2 DEF FindsSettled
<1> QED
  BY Invariance, <1>1, PTL DEF Spec, ReadersFindSettled

\* A change is cut off without an answer only if Init had to retry: a broker
\* that serves has a connected store otherwise (mongo_loader.go 36-48, 83-92).
THEOREM AbortsAfterRetry == Spec => AbortedAfterRetry
<1> DEFINE Cause == \A r \in Requests :
                      reply[r] # "aborted" /\ reply'[r] = "aborted" => retried
<1>1. Inv /\ [Next]_vars => [Cause]_vars
  <2> SUFFICES ASSUME Inv, Next, NEW r \in Requests,
                      reply[r] # "aborted", reply'[r] = "aborted"
               PROVE  retried
    BY DEF Cause
  <2> USE DEF Inv, Inv2, Inv1
  <2>1. PICK q \in Requests : EraseUnset(q)
    BY DEF Next, Step, Receive, Change, Snapshot, Erase, EraseDone,
           EraseNothing, EraseFails, Insert, InsertFails, Finish, End, Read,
           ConnectFails, Connect, Load, CrashBroker, CrashOther, Restart, Kill,
           answers, TypeOK
  <2>2. phase = "serving" /\ loader # "connected"
    BY <2>1 DEF EraseUnset, End, Goto
  <2> QED
    BY <2>2 DEF BrokerState
<1> QED
  BY Invariance, <1>1, PTL DEF Spec, AbortedAfterRetry

-------------------------------------------------------------------------------
(***************************************************************************)
(* The registers                                                           *)
(***************************************************************************)

LEMMA RegistersInit == Init => Registers!Init
<1> SUFFICES ASSUME Init PROVE Registers!Init
  OBVIOUS
<1>1. WriterKeys = Registers!Idle /\ WriterDocs = Registers!Idle
  BY DEF Init, WriterKeys, WriterDocs, Registers!Idle, Writing
<1>2. On(settled, coll) \in SUBSET Registers!Docs
  BY ConstantsAssumption DEF Init, On, Docs, Registers!Docs
<1> QED
  BY <1>1, <1>2 DEF Init, Registers!Init

\* A step that neither begins nor settles a write, and that changes no record
\* of a settled key, at most ends some writers.
LEMMA RegistersCease ==
    ASSUME Inv, NEW gone \in SUBSET Requests,
           \A r \in Requests :
              /\ r \in Writing' <=> r \in Writing /\ r \notin gone
              /\ r \in Writing' => Scope(r)' = Scope(r) /\ plan'[r] = plan[r],
           coll' \in SUBSET Docs,
           \A d \in Docs : d.id \in settled => (d \in coll' <=> d \in coll),
           UNCHANGED <<settled, result>>
    PROVE  Registers!Next
<1>1. On(settled, coll)' = On(settled, coll)
  BY DEF On, Inv, Inv2, Inv1, TypeOK
<1>2. WriterKeys' = [r \in Requests |->
                       IF r \in gone THEN {} ELSE WriterKeys[r]]
  <2>1. \A r \in Requests : (IF r \in Writing' THEN Scope(r)' ELSE {})
                            = IF r \in gone THEN {} ELSE WriterKeys[r]
    BY DEF WriterKeys
  <2> QED
    BY <2>1 DEF WriterKeys
<1>3. WriterDocs' = [r \in Requests |->
                       IF r \in gone THEN {} ELSE WriterDocs[r]]
  <2>1. \A r \in Requests : (IF r \in Writing' THEN plan'[r] ELSE {})
                            = IF r \in gone THEN {} ELSE WriterDocs[r]
    BY DEF WriterDocs
  <2> QED
    BY <2>1 DEF WriterDocs
<1>4. Registers!Cease(gone)
  BY <1>1, <1>2, <1>3 DEF Registers!Cease
<1> QED
  BY <1>4 DEF Registers!Next

\* A request becomes a writer of some keys, with the records it was given.
LEMMA RegistersBegin ==
    ASSUME Inv, NEW r \in Requests, r \notin Writing,
           NEW keys \in SUBSET Ids, NEW docs \in SUBSET Docs, Begin(r, keys),
           \A d \in docs : d.id \in keys,
           pc' = [pc EXCEPT ![r] = "erase"],
           Scope(r)' = keys,
           plan' = [plan EXCEPT ![r] = docs],
           \A q \in Requests : q # r => form'[q] = form[q],
           UNCHANGED <<coll, result>>
    PROVE  Registers!Next
<1> USE DEF Inv, Inv2, Inv1
<1>1. \A q \in Requests : q \in Writing' <=> q \in Writing \/ q = r
  BY DEF Writing, TypeOK
<1>2. \A q \in Requests : q # r => Scope(q)' = Scope(q) /\ plan'[q] = plan[q]
  BY DEF Scope, TypeOK
<1>3. plan'[r] = docs
  BY DEF TypeOK
<1>4. WriterKeys' = [WriterKeys EXCEPT ![r] = keys]
  <2>1. \A q \in Requests : (IF q \in Writing' THEN Scope(q)' ELSE {})
                            = IF q = r THEN keys ELSE WriterKeys[q]
    BY <1>1, <1>2 DEF WriterKeys
  <2> QED
    BY <2>1 DEF WriterKeys
<1>5. WriterDocs' = [WriterDocs EXCEPT ![r] = docs]
  <2>1. \A q \in Requests : (IF q \in Writing' THEN plan'[q] ELSE {})
                            = IF q = r THEN docs ELSE WriterDocs[q]
    BY <1>1, <1>2, <1>3 DEF WriterDocs
  <2> QED
    BY <2>1 DEF WriterDocs
<1>6. settled' = settled \ keys
  BY DEF Begin
<1>7. On(settled, coll)' = {d \in On(settled, coll) : d.id \notin keys}
  BY <1>6 DEF On
<1>8. Registers!Begin(r, keys, docs)
  BY <1>4, <1>5, <1>6, <1>7 DEF Registers!Begin, WriterKeys
<1>9. docs \in SUBSET {d \in Registers!Docs : d.id \in keys}
  BY DEF Docs, Registers!Docs
<1> QED
  BY <1>8, <1>9 DEF Registers!Next

\* A writer that had its keys for itself has written its plan.
LEMMA RegistersSettle ==
    ASSUME Inv, NEW r \in Requests, Finish(r), r \notin mixed
    PROVE  Registers!Next
<1> USE DEF Inv, Inv2, Inv1, Inv3
<1>1. pc[r] = "insert" /\ r \in Writing /\ todo[r] = {}
      /\ pc' = [pc EXCEPT ![r] = "done"]
      /\ UNCHANGED <<form, plan, coll, result>>
      /\ settled' = settled \cup Scope(r)
  BY DEF Finish, End, Goto, Writing, locals
<1>2. \A q \in Requests : /\ q \in Writing' <=> q \in Writing /\ q # r
                          /\ Scope(q)' = Scope(q)
  BY <1>1 DEF Writing, TypeOK, Scope
<1>3. \A q \in Requests \ {r} : WriterKeys[q] \cap WriterKeys[r] = {}
  BY <1>1 DEF WriterKeys, Separation
<1>4. WriterKeys' = [WriterKeys EXCEPT ![r] = {}]
  <2>1. \A q \in Requests : (IF q \in Writing' THEN Scope(q)' ELSE {})
                            = IF q = r THEN {} ELSE WriterKeys[q]
    BY <1>2 DEF WriterKeys
  <2> QED
    BY <2>1 DEF WriterKeys
<1>5. WriterDocs' = [WriterDocs EXCEPT ![r] = {}]
  <2>1. \A q \in Requests : (IF q \in Writing' THEN plan[q] ELSE {})
                            = IF q = r THEN {} ELSE WriterDocs[q]
    BY <1>2 DEF WriterDocs
  <2> QED
    BY <1>1, <2>1 DEF WriterDocs
<1>6. WriterKeys[r] = Scope(r) /\ WriterDocs[r] = plan[r]
  BY <1>1 DEF WriterKeys, WriterDocs
<1>7. On(settled, coll)' = On(settled, coll) \cup plan[r]
  <2>1. \A d \in Docs : d.id \in Scope(r) => (d \in coll <=> d \in plan[r])
    BY <1>1 DEF Alone, OnPlan
  <2>2. \A d \in plan[r] : d \in Docs /\ d.id \in Scope(r)
    BY <1>1 DEF HandlerState, Holds, TypeOK
  <2> QED
    BY <1>1, <2>1, <2>2 DEF On, TypeOK
<1>8. Registers!Settle(r)
  BY <1>1, <1>3, <1>4, <1>5, <1>6, <1>7 DEF Registers!Settle
<1> QED
  BY <1>8 DEF Registers!Next

\* A read of a key at rest finds what the key holds.
LEMMA RegistersRead ==
    ASSUME Inv, NEW r \in Requests, Read(r)
    PROVE  Registers!Next
<1> USE DEF Inv, Inv2, Inv1
<1> DEFINE i == form[r].key
<1>1. i \in Ids
  BY FormFields DEF Read, Goto, HandlerState, Holds
<1>2. PICK v \in Vals \cup {NoProfile} :
        /\ \/ v \in Found(i)
           \/ v = NoProfile /\ Found(i) = {}
           \/ v = NoProfile /\ "query" \in Faults
        /\ result' = [result EXCEPT ![r] = v]
  BY DEF Read
<1>3. UNCHANGED <<WriterKeys, WriterDocs, settled, On(settled, coll)>>
  <2>1. /\ UNCHANGED <<form, plan, coll, settled>>
        /\ pc[r] = "read" /\ pc' = [pc EXCEPT ![r] = "done"]
    BY DEF Read, Goto, locals, ghosts
  <2>2. Writing' = Writing
    BY <2>1 DEF Writing, TypeOK
  <2> QED
    BY <2>1, <2>2 DEF WriterKeys, WriterDocs, Scope, On
<1>4. ASSUME i \in settled, v \in Found(i)
      PROVE  [id |-> i, val |-> v] \in On(settled, coll)
  <2>1. PICK d \in On({i}, coll) : v = d.val
    BY <1>4 DEF Found
  <2>2. d \in coll /\ d \in Docs /\ d.id = i
    BY <2>1 DEF On, TypeOK
  <2>3. d = [id |-> i, val |-> v]
    BY <2>1, <2>2 DEF Docs
  <2> QED
    BY <1>4, <2>2, <2>3 DEF On
<1>5. ASSUME Found(i) = {}
      PROVE  \A d \in On(settled, coll) : d.id # i
  BY <1>5 DEF Found, On
<1>6. i \in settled =>
        Registers!Holds(i, v) \/ ("query" \in Faults /\ v = NoProfile)
  BY <1>2, <1>4, <1>5 DEF Registers!Holds
<1>7. Registers!Read(r, i, v)
  BY <1>2, <1>3, <1>6 DEF Registers!Read
<1> QED
  BY <1>1, <1>7 DEF Registers!Next

\* A step of a writer changes records in its scope only, and none of those is
\* settled.
LEMMA ScopeUnsettled ==
    ASSUME Inv, NEW r \in Writing,
           \A d \in Docs : d.id \notin Scope(r) => (d \in coll' <=> d \in coll)
    PROVE  \A d \in Docs : d.id \in settled => (d \in coll' <=> d \in coll)
BY DEF Inv, Inv3, Separation

\* A writer goes on, or ends, after deleting or inserting in its scope.
LEMMA RegistersWrite ==
    ASSUME Inv, NEW r \in Requests,
           Erase(r) \/ EraseFails(r) \/ Insert(r) \/ InsertFails(r)
             \/ (Finish(r) /\ r \in mixed)
    PROVE  Registers!Next
<1> USE DEF Inv, Inv2, Inv1
<1>1. /\ r \in Writing
      /\ UNCHANGED <<form, plan, settled, result>>
      /\ coll' \in SUBSET Docs
      /\ \E to \in {"insert", "done"} : pc' = [pc EXCEPT ![r] = to]
  <2>1. CASE Erase(r) \/ EraseFails(r)
    BY <2>1
    DEF Erase, EraseUnset, EraseDone, EraseNothing, EraseFails, End, Goto,
        Writing, TypeOK, On, locals, answers, ghosts
  <2>2. CASE Insert(r) \/ InsertFails(r) \/ (Finish(r) /\ r \in mixed)
    BY <2>2
    DEF Insert, InsertFails, Finish, End, Goto, Writing, TypeOK, locals, answers,
        ghosts
  <2> QED
    BY <2>1, <2>2
<1>2. \A d \in Docs : d.id \notin Scope(r) => (d \in coll' <=> d \in coll)
  <2>1. CASE Erase(r) \/ EraseFails(r)
    BY <2>1 DEF Erase, EraseUnset, EraseDone, EraseNothing, EraseFails, On
  <2>2. CASE Insert(r) \/ InsertFails(r)
    <3>1. PICK d \in todo[r] : coll' \in {coll, coll \cup {d}}
      BY <2>2 DEF Insert, InsertFails
    <3>2. d.id \in Scope(r)
      BY <1>1 DEF HandlerState, Holds
    <3> QED
      BY <3>1, <3>2
  <2>3. CASE Finish(r)
    BY <2>3 DEF Finish
  <2> QED
    BY <2>1, <2>2, <2>3
<1>3. \A d \in Docs : d.id \in settled => (d \in coll' <=> d \in coll)
  BY <1>1, <1>2, ScopeUnsettled
<1>4. PICK to \in {"insert", "done"} : pc' = [pc EXCEPT ![r] = to]
  BY <1>1
<1> DEFINE gone == IF to = "done" THEN {r} ELSE {}
<1>5. \A q \in Requests : q \in Writing' <=> q \in Writing /\ q \notin gone
  BY <1>1, <1>4 DEF Writing, TypeOK
<1>6. \A q \in Requests : Scope(q)' = Scope(q)
  BY <1>1 DEF Scope
<1> HIDE DEF gone
<1>7. gone \in SUBSET Requests
  BY DEF gone
<1> QED
  BY <1>1, <1>3, <1>5, <1>6, <1>7, RegistersCease

LEMMA RegistersReceive ==
    ASSUME Inv, NEW r \in Requests, Receive(r)
    PROVE  Registers!Next
<1> USE DEF Inv, Inv2, Inv1
<1>1. PICK f \in Forms :
        /\ form' = [form EXCEPT ![r] = f]
        /\ ReceiveFlush(r, f) \/ ReceiveWrite(r, f) \/ ReceiveRead(r, f)
  BY DEF Receive
<1>2. pc[r] = "idle" /\ r \notin Writing /\ UNCHANGED <<coll, result>>
  BY DEF Receive, Writing, answers
<1>3. \A q \in Requests : q # r => form'[q] = form[q]
  BY <1>1 DEF TypeOK
<1>4. CASE ReceiveFlush(r, f) \/ ReceiveRead(r, f)
  <2>1. UNCHANGED <<plan, settled>>
        /\ \E to \in {"change", "read"} : pc' = [pc EXCEPT ![r] = to]
    BY <1>4 DEF ReceiveFlush, ReceiveRead, ghosts
  <2>2. \A q \in Requests : /\ q \in Writing' <=> q \in Writing
                            /\ q \in Writing' => q # r
    BY <1>2, <2>1 DEF Writing, TypeOK
  <2>3. \A q \in Requests : q \in Writing' => Scope(q)' = Scope(q)
    BY <1>3, <2>2 DEF Scope
  <2>4. {} \in SUBSET Requests /\ coll' \in SUBSET Docs
    BY <1>2 DEF TypeOK
  <2> QED
    BY <1>2, <2>1, <2>2, <2>3, <2>4, RegistersCease
<1>5. CASE ReceiveWrite(r, f)
  <2> DEFINE docs == IF f.op = "set" THEN {[id |-> f.key, val |-> f.val]}
                     ELSE {}
  <2>1. /\ f.op \in {"set", "delete"}
        /\ pc' = [pc EXCEPT ![r] = "erase"]
        /\ plan' = [plan EXCEPT ![r] = docs]
        /\ Begin(r, {f.key})
    BY <1>5 DEF ReceiveWrite
  <2>2. docs \in SUBSET Docs /\ {f.key} \in SUBSET Ids
        /\ \A d \in docs : d.id \in {f.key}
    BY FormFields, ValueTypes
  <2>3. Scope(r)' = {f.key}
    BY <1>1, <2>1 DEF Scope, ScopeOf, FlushOps, TypeOK
  <2> HIDE DEF docs
  <2> QED
    BY <1>2, <1>3, <2>1, <2>2, <2>3, RegistersBegin
<1> QED
  BY <1>1, <1>4, <1>5

LEMMA RegistersStep ==
    ASSUME Inv, [Next]_vars
    PROVE  [Registers!Next]_(Registers!vars)
<1> USE DEF Inv, Inv2, Inv1
<1>1. ASSUME NEW r \in Requests, Change(r) PROVE Registers!Next
  <2>1. UNCHANGED <<form, plan, coll, settled, result>>
        /\ pc[r] = "change" /\ pc' = [pc EXCEPT ![r] = "snapshot"]
    BY <1>1 DEF Change, Goto, locals, answers, ghosts
  <2>2. \A q \in Requests : q \in Writing' <=> q \in Writing
    BY <2>1 DEF Writing, TypeOK
  <2>3. \A q \in Requests : Scope(q)' = Scope(q)
    BY <2>1 DEF Scope
  <2>4. {} \in SUBSET Requests /\ coll' \in SUBSET Docs
    BY <2>1 DEF TypeOK
  <2> QED
    BY <2>1, <2>2, <2>3, <2>4, RegistersCease
<1>2. ASSUME NEW r \in Requests, Snapshot(r) PROVE Registers!Next
  <2>1. /\ pc[r] = "snapshot" /\ r \notin Writing
        /\ pc' = [pc EXCEPT ![r] = "erase"]
        /\ plan' = [plan EXCEPT ![r] = DocsOf(kv)]
        /\ Begin(r, Ids)
        /\ UNCHANGED <<form, coll, result>>
    BY <1>2 DEF Snapshot, Goto, Writing, answers
  <2>2. Scope(r)' = Ids
    BY <2>1 DEF HandlerState, Holds, Scope, ScopeOf
  <2>3. DocsOf(kv) \in SUBSET Docs /\ \A d \in DocsOf(kv) : d.id \in Ids
    BY DEF DocsOf, Docs
  <2> QED
    BY <2>1, <2>2, <2>3, RegistersBegin
<1>3. ASSUME NEW r \in Requests, Finish(r) PROVE Registers!Next
  BY <1>3, RegistersSettle, RegistersWrite
<1>4. ASSUME ConnectFails \/ Connect \/ Load \/ Restart \/ UNCHANGED vars
      PROVE  Registers!Next
  <2>1. UNCHANGED <<pc, form, plan, coll, settled, result>>
    BY <1>4
    DEF ConnectFails, Connect, Load, Restart, vars, locals, answers, ghosts
  <2>2. \A q \in Requests : /\ q \in Writing' <=> q \in Writing
                            /\ Scope(q)' = Scope(q)
    BY <2>1 DEF Writing, Scope
  <2>3. {} \in SUBSET Requests /\ coll' \in SUBSET Docs
    BY <2>1 DEF TypeOK
  <2> QED
    BY <2>1, <2>2, <2>3, RegistersCease
<1>5. ASSUME CrashBroker \/ CrashOther PROVE Registers!Next
  <2>1. PICK lost \in SUBSET Requests :
          /\ pc' = [r \in Requests |-> IF r \in lost THEN "done" ELSE pc[r]]
          /\ UNCHANGED <<form, plan, coll, settled, result>>
    <3>1. PICK ops : Kill(ops)
      BY <1>5 DEF CrashBroker, CrashOther
    <3> QED
      BY <3>1 DEF Kill, locals, ghosts
  <2>2. \A q \in Requests : /\ q \in Writing' <=> q \in Writing /\ q \notin lost
                            /\ Scope(q)' = Scope(q)
    BY <2>1 DEF Writing, Scope
  <2>3. coll' \in SUBSET Docs
    BY <2>1 DEF TypeOK
  <2> QED
    BY <2>1, <2>2, <2>3, RegistersCease
<1> QED
  BY <1>1, <1>2, <1>3, <1>4, <1>5, RegistersReceive, RegistersWrite,
     RegistersRead
  DEF Next, Step

\* The collection keeps the promise of safe registers, for any number of
\* overlapping writers and readers, any keys, and every failure and crash
\* (mongo_loader.go 83-115, backends/mongo.go 25-118).
THEOREM RegistersImplemented == Spec => ImplementsRegisters
<1>1. Inv /\ [Next]_vars => [Registers!Next]_(Registers!vars)
  BY RegistersStep
<1> QED
  BY Invariance, <1>1, RegistersInit, PTL
  DEF Spec, ImplementsRegisters, Registers!Spec

-------------------------------------------------------------------------------
(***************************************************************************)
(* Progress                                                                *)
(***************************************************************************)

\* A writer of MongoBackend has at most one record to insert.
OneRecord ==
    \A r \in Requests :
        pc[r] \in {"erase", "insert"} /\ form[r].op \in BackendOps =>
            \A d, e \in plan[r] : d = e

LEMMA OneRecordInvariant == Spec => []OneRecord
<1>1. Init => OneRecord
  BY DEF Init, OneRecord
<1>2. Inv /\ OneRecord /\ [Next]_vars => OneRecord'
  <2> SUFFICES ASSUME Inv, OneRecord, [Next]_vars PROVE OneRecord'
    OBVIOUS
  <2> USE DEF Inv, Inv2, Inv1
  <2>1. ASSUME NEW r \in Requests, Receive(r) PROVE OneRecord'
    <3>1. PICK f \in Forms :
            /\ form' = [form EXCEPT ![r] = f]
            /\ ReceiveFlush(r, f) \/ ReceiveWrite(r, f) \/ ReceiveRead(r, f)
      BY <2>1 DEF Receive
    <3> QED
      BY <3>1 DEF ReceiveFlush, ReceiveWrite, ReceiveRead, OneRecord, TypeOK
  <2>2. ASSUME NEW r \in Requests, Snapshot(r) PROVE OneRecord'
    BY <2>2
    DEF Snapshot, Goto, OneRecord, TypeOK, HandlerState, Holds, FlushOps,
        BackendOps
  <2>3. ASSUME NEW r \in Requests,
               Change(r) \/ Erase(r) \/ EraseFails(r) \/ Insert(r)
                 \/ InsertFails(r) \/ Finish(r) \/ Read(r)
        PROVE  OneRecord'
    <3>1. UNCHANGED <<form, plan>>
      BY <2>3
      DEF Change, Erase, EraseUnset, EraseDone, EraseNothing, EraseFails, Insert,
          InsertFails, Finish, End, Read, locals
    <3>2. \A q \in Requests :
            pc'[q] \in {"erase", "insert"} => pc[q] \in {"erase", "insert"}
      BY <2>3
      DEF Change, Erase, EraseUnset, EraseDone, EraseNothing, EraseFails, Insert,
          InsertFails, Finish, End, Read, Goto, TypeOK
    <3> QED
      BY <3>1, <3>2 DEF OneRecord
  <2>4. ASSUME ConnectFails \/ Connect \/ Load \/ Restart PROVE OneRecord'
    BY <2>4 DEF ConnectFails, Connect, Load, Restart, OneRecord, locals
  <2>5. ASSUME CrashBroker \/ CrashOther PROVE OneRecord'
    BY <2>5 DEF CrashBroker, CrashOther, Kill, OneRecord, locals
  <2>6. CASE UNCHANGED vars
    BY <2>6 DEF vars, locals, OneRecord
  <2> QED
    BY <2>1, <2>2, <2>3, <2>4, <2>5, <2>6 DEF Next, Step
<1> QED
  BY Invariance, <1>1, <1>2, PTL DEF Spec

\* What a call of MongoBackend still has to do.
Serving(r) == form[r].op \in BackendOps /\ pc[r] \notin {"idle", "done"}
Inserting(r) == Serving(r) /\ pc[r] = "insert"
Ending(r) == Inserting(r) /\ todo[r] = {}

\* Its own step brings a call closer to its answer.
LEMMA BackendGoesOn ==
    ASSUME Inv, OneRecord, NEW r \in Requests, Serving(r), <<Step(r)>>_vars
    PROVE  /\ Inserting(r)' \/ pc'[r] = "done"
           /\ Inserting(r) => Ending(r)' \/ pc'[r] = "done"
           /\ Ending(r) => pc'[r] = "done"
<1> USE DEF Inv, Inv2, Inv1
<1>1. pc[r] \in {"erase", "insert", "read"}
  BY DEF Serving, TypeOK, PCs, HandlerState, Holds, FlushOps, BackendOps
<1>2. CASE Erase(r)
  BY <1>1, <1>2
  DEF Erase, EraseUnset, EraseDone, EraseNothing, End, Goto, Serving, Inserting,
      Ending, TypeOK, locals
<1>3. CASE Insert(r)
  <2>1. PICK d \in todo[r] : todo' = [todo EXCEPT ![r] = @ \ {d}]
    BY <1>3 DEF Insert
  <2>2. todo'[r] = {}
    BY <2>1, <1>3
    DEF Insert, Goto, OneRecord, Serving, HandlerState, Holds, TypeOK
  <2> QED
    BY <2>1, <2>2, <1>3 DEF Insert, Goto, Serving, Inserting, Ending, TypeOK
<1>4. CASE Finish(r)
  BY <1>1, <1>4 DEF Finish, End, Goto, Serving, Inserting, Ending, TypeOK
<1>5. CASE Read(r)
  BY <1>1, <1>5 DEF Read, Goto, Serving, Inserting, Ending, TypeOK
<1> QED
  BY <1>1, <1>2, <1>3, <1>4, <1>5 DEF Step, Change, Snapshot, Goto

\* Nothing takes a call back: not the others, not a fault, not a crash.
LEMMA BackendNeverBack ==
    ASSUME Inv, NEW r \in Requests, Serving(r), [Next]_vars
    PROVE  /\ Serving(r)' \/ pc'[r] = "done"
           /\ Inserting(r) => Inserting(r)' \/ pc'[r] = "done"
           /\ Ending(r) => Ending(r)' \/ pc'[r] = "done"
<1> USE DEF Inv, Inv2, Inv1, Serving, Inserting, Ending
<1>0. pc[r] \in {"erase", "insert", "read"}
  BY DEF TypeOK, PCs, HandlerState, Holds, FlushOps, BackendOps
<1>1. ASSUME NEW q \in Requests, Receive(q)
      PROVE  pc'[r] = pc[r] /\ form'[r] = form[r] /\ todo'[r] = todo[r]
  <2>1. q # r
    BY <1>1 DEF Receive
  <2> QED
    BY <2>1, <1>1
    DEF Receive, ReceiveFlush, ReceiveWrite, ReceiveRead, TypeOK
<1>2. ASSUME NEW q \in Requests,
             Change(q) \/ Snapshot(q) \/ Erase(q) \/ EraseFails(q)
               \/ InsertFails(q) \/ Finish(q) \/ Read(q)
      PROVE  /\ form'[r] = form[r]
             /\ \/ pc'[r] = pc[r] /\ todo'[r] = todo[r]
                \/ pc[r] = "erase" /\ pc'[r] = "insert"
                \/ pc'[r] = "done"
  BY <1>0, <1>2
  DEF Change, Snapshot, Erase, EraseUnset, EraseDone, EraseNothing, EraseFails,
      InsertFails, Finish, End, Read, Goto, TypeOK, locals
<1>3. ASSUME NEW q \in Requests, Insert(q)
      PROVE  /\ form'[r] = form[r]
             /\ pc'[r] = pc[r]
             /\ todo'[r] \subseteq todo[r]
  BY <1>3 DEF Insert, Goto, TypeOK
<1>4. ASSUME ConnectFails \/ Connect \/ Load \/ Restart
      PROVE  UNCHANGED <<pc, form, todo>>
  BY <1>4 DEF ConnectFails, Connect, Load, Restart, locals
<1>5. ASSUME CrashBroker \/ CrashOther
      PROVE  /\ UNCHANGED <<form, todo>>
             /\ pc'[r] = pc[r] \/ pc'[r] = "done"
  BY <1>5 DEF CrashBroker, CrashOther, Kill, locals
<1>6. CASE UNCHANGED vars
  BY <1>6 DEF vars, locals
<1> QED
  BY <1>0, <1>1, <1>2, <1>3, <1>4, <1>5, <1>6 DEF Next, Step

\* A call of MongoBackend returns, or ends with its program.
BackendCallAnswered(r) == Serving(r) ~> pc[r] = "done"

\* If the calls to the database return and no request is ever stuck, every call
\* of MongoBackend is answered (backends/mongo.go 25-118): it deletes, inserts
\* at most one record and returns, whatever the flushes of the broker do.
THEOREM BackendCallsAnswered ==
    FairSpec /\ []NeverStuck => \A r \in Requests : BackendCallAnswered(r)
<1> SUFFICES ASSUME NEW r \in Requests
             PROVE  FairSpec /\ []NeverStuck => BackendCallAnswered(r)
  OBVIOUS
<1>1. FairSpec => Fair(r)
  BY DEF FairSpec, Fairness
<1>2. NeverStuck => (Serving(r) => ENABLED <<Step(r)>>_vars)
  BY DEF NeverStuck, Serving
<1>3. Inv /\ [Next]_vars =>
        /\ Serving(r) => Serving(r)' \/ (pc[r] = "done")'
        /\ Inserting(r) => Inserting(r)' \/ (pc[r] = "done")'
        /\ Ending(r) => Ending(r)' \/ (pc[r] = "done")'
  BY BackendNeverBack DEF Inserting, Ending
<1>4. Inv /\ OneRecord /\ <<Step(r)>>_vars =>
        /\ Serving(r) => Inserting(r)' \/ (pc[r] = "done")'
        /\ Inserting(r) => Ending(r)' \/ (pc[r] = "done")'
        /\ Ending(r) => (pc[r] = "done")'
  BY BackendGoesOn DEF Inserting, Ending
<1>5. /\ Inserting(r) => Serving(r)
      /\ Ending(r) => Inserting(r)
  BY DEF Inserting, Ending
<1> QED
  BY <1>1, <1>2, <1>3, <1>4, <1>5, Invariance, OneRecordInvariant, PTL
  DEF FairSpec, Fair, Spec, BackendCallAnswered
===============================================================================
