------------------------------ MODULE MongoStore ------------------------------
(***************************************************************************)
(* The profiles collection in MongoDB and the two programs that use it:    *)
(* the broker, whose loader (src/data_loader/mongo_loader.go) fills its    *)
(* memory from the collection at the start and flushes it back after each  *)
(* change, and a program that embeds TIB and keeps its profiles in the     *)
(* collection itself (src/backends/mongo.go).                              *)
(*                                                                         *)
(* Neither uses transactions.  A flush deletes every record and inserts    *)
(* the list it took before, one record after the other; SetKey deletes the *)
(* records of a key and inserts the new one:                               *)
(*                                                                         *)
(*   flush:  Change -> Snapshot -> Erase -> Insert ... -> Finish           *)
(*   SetKey, DeleteKey:            Erase -> Insert ... -> Finish           *)
(*                                                                         *)
(* Records are profiles of one organisation, reduced to a key, which is    *)
(* their ID, and a value.  Records that are equal count once: reading is   *)
(* all that could tell them apart, and it returns one of them.             *)
(***************************************************************************)
EXTENDS Naturals

CONSTANTS
    Requests,      \* what clients ask of the two programs
    Ids,           \* profile keys
    Vals,          \* what a profile holds beside its key
    NoProfile,     \* no profile, in memory or as the result of a read
    Forms,         \* the forms of requests clients send, a set of FormType
    NoForm,        \* the form of a request not received yet
    InitialColls,  \* what the collection may hold at first
    Faults,        \* which calls to the database may fail
    MaxCrashes     \* bound: how often one of the programs is killed

FlushOps == {"put", "remove"}            \* the profile API of the broker
BackendOps == {"set", "delete", "get"}   \* MongoBackend of the other program
FormType == [op : FlushOps \cup BackendOps, key : Ids, val : Vals]

Docs == [id : Ids, val : Vals]
Registry == [Ids -> Vals \cup {NoProfile}]
NoProfiles == [i \in Ids |-> NoProfile]
\* Wrong: a key that was deleted is listed with an empty profile.
DocsOfAll(reg) == {[id |-> i, val |-> reg[i]] : i \in Ids}

\* GetAll of the memory.
DocsOf(reg) == {d \in Docs : reg[d.id] = d.val}

ASSUME ConstantsAssumption ==
    /\ NoProfile \notin Vals
    /\ Forms \subseteq FormType
    /\ NoForm \notin FormType
    /\ InitialColls \subseteq SUBSET Docs
    /\ Faults \subseteq {"connect", "query", "delete", "insert"}
    /\ MaxCrashes \in Nat

VARIABLES
    coll,     \* the records of the collection
    phase,    \* of the broker: starting, or serving requests
    retried,  \* MongoLoader.Init has failed since the broker was started
    loader,   \* MongoLoader.store
    kv,       \* the broker's InMemoryBackend
    pc,       \* the next step of each request
    form,     \* what each request asks for
    plan,     \* Flush's updatedSet, or the profile of SetKey
    todo,     \* the part of the plan not inserted yet
    reply,    \* what each request was answered
    result,   \* what each read returned
    crashes,  \* how often a program has been killed
    given,    \* history: the records any client asked to be kept
    mixed,    \* history: writers that met another one or failed to delete
    settled,  \* history: keys whose last writer was undisturbed and succeeded
    saved     \* history: the records those writers left

broker == <<phase, retried, loader>>
locals == <<form, plan, todo>>
answers == <<reply, result>>
ghosts == <<mixed, settled, saved>>
vars == <<coll, broker, kv, pc, locals, answers, crashes, given, ghosts>>

PCs == {"idle", "change", "snapshot", "erase", "insert", "read", "done"}
Replies == {"none", "ok", "failed", "aborted", "dropped"}

TypeOK ==
    /\ coll \in SUBSET Docs
    /\ phase \in {"down", "connect", "load", "serving"}
    /\ retried \in BOOLEAN
    /\ loader \in {"unset", "connected", "failed"}
    /\ kv \in Registry
    /\ pc \in [Requests -> PCs]
    /\ form \in [Requests -> Forms \cup {NoForm}]
    /\ plan \in [Requests -> SUBSET Docs]
    /\ todo \in [Requests -> SUBSET Docs]
    /\ reply \in [Requests -> Replies]
    /\ result \in [Requests -> Vals \cup {NoProfile}]
    /\ crashes \in 0 .. MaxCrashes
    /\ given \in SUBSET Docs
    /\ mixed \in SUBSET Requests
    /\ settled \in SUBSET Ids
    /\ saved \in SUBSET Docs

(***************************************************************************)
(* Writers                                                                 *)
(***************************************************************************)

\* The keys a writer deletes and writes: all of them for a flush, "as we don't
\* know what was removed, updated or added", else the one of its filter: the ID
\* and the organisation or, if that has no name, the ID alone.
ScopeOf(f) == IF f.op \in FlushOps THEN Ids ELSE {f.key}
Scope(r) == ScopeOf(form[r])
On(keys, docs) == {d \in docs : d.id \in keys}

Writing == {r \in Requests : pc[r] \in {"erase", "insert"}}

\* A request becomes a writer of the given keys.
Begin(r, keys) ==
    LET met == {q \in Writing : Scope(q) \cap keys # {}}
    IN  /\ mixed' = mixed \cup met \cup (IF met = {} THEN {} ELSE {r})
        /\ settled' = settled \ keys
        /\ UNCHANGED saved

Goto(r, from, to) ==
    /\ pc[r] = from
    /\ form[r].op \in FlushOps => phase = "serving"
    /\ pc' = [pc EXCEPT ![r] = to]

End(r, from, what) ==
    /\ Goto(r, from, "done")
    /\ reply' = [reply EXCEPT ![r] = what]
    /\ UNCHANGED <<broker, kv, locals, result, crashes, given>>

(***************************************************************************)
(* Requests                                                                *)
(***************************************************************************)

ReceiveFlush(r, f) ==
    /\ f.op \in FlushOps
    /\ phase = "serving"
    /\ pc' = [pc EXCEPT ![r] = "change"]
    /\ UNCHANGED <<plan, todo, given, ghosts>>

\* SetKey(key, org, profile) and DeleteKey(key, org).
ReceiveWrite(r, f) ==
    LET docs == IF f.op = "set" THEN {[id |-> f.key, val |-> f.val]} ELSE {}
    IN  /\ f.op \in {"set", "delete"}
        /\ pc' = [pc EXCEPT ![r] = "erase"]
        /\ plan' = [plan EXCEPT ![r] = docs]
        /\ todo' = [todo EXCEPT ![r] = docs]
        /\ given' = given \cup docs
        /\ Begin(r, {f.key})

ReceiveRead(r, f) ==
    /\ f.op = "get"
    /\ pc' = [pc EXCEPT ![r] = "read"]
    /\ UNCHANGED <<plan, todo, given, ghosts>>

Receive(r) ==
    /\ pc[r] = "idle"
    /\ \E f \in Forms :
          /\ form' = [form EXCEPT ![r] = f]
          /\ ReceiveFlush(r, f) \/ ReceiveWrite(r, f) \/ ReceiveRead(r, f)
    /\ UNCHANGED <<coll, broker, kv, answers, crashes>>

\* AddProfile, UpdateProfile or DeleteProfile changes the memory.
Change(r) ==
    /\ Goto(r, "change", "snapshot")
    /\ kv' = [kv EXCEPT ![form[r].key] =
                IF form[r].op = "put" THEN form[r].val ELSE NoProfile]
    /\ given' = given \cup DocsOf(kv')
    /\ UNCHANGED <<coll, broker, locals, answers, crashes, ghosts>>

\* updatedSet := store.GetAll("").
Snapshot(r) ==
    /\ Goto(r, "snapshot", "erase")
    /\ plan' = [plan EXCEPT ![r] = DocsOf(kv)]
    /\ todo' = [todo EXCEPT ![r] = DocsOf(kv)]
    /\ Begin(r, Ids)
    /\ UNCHANGED <<coll, broker, kv, form, answers, crashes, given>>

\* Line 89 calls a method of a store that was never connected.
EraseUnset(r) ==
    /\ form[r].op \in FlushOps
    /\ loader # "connected"
    /\ End(r, "erase", "aborted")
    /\ UNCHANGED <<coll, ghosts>>

\* The database is there to be called.
Usable(r) == form[r].op \in FlushOps => loader = "connected"

\* Wrong: the delete of a flush leaves out what the flush does not know.
EraseKnown(r) ==
    /\ Usable(r)
    /\ form[r].op = "delete" => On(Scope(r), coll) # {}
    /\ Goto(r, "erase", "insert")
    /\ coll' = coll \ On({d.id : d \in plan[r]}, coll)
    /\ UNCHANGED <<broker, kv, locals, answers, crashes, given, ghosts>>

\* Delete(filter) succeeds, or finds nothing, which only DeleteKey minds.
EraseDone(r) ==
    /\ Usable(r)
    /\ form[r].op = "delete" => On(Scope(r), coll) # {}
    /\ Goto(r, "erase", "insert")
    /\ coll' = coll \ On(Scope(r), coll)
    /\ UNCHANGED <<broker, kv, locals, answers, crashes, given, ghosts>>

EraseNothing(r) ==
    /\ form[r].op = "delete"
    /\ On(Scope(r), coll) = {}
    /\ End(r, "erase", "failed")
    /\ UNCHANGED <<coll, ghosts>>

\* Delete fails before, after or in the middle of its work.  A flush and
\* DeleteKey return the error; SetKey logs it and goes on.
EraseFails(r) ==
    /\ "delete" \in Faults
    /\ pc[r] = "erase"
    /\ Usable(r)
    /\ \E left \in SUBSET On(Scope(r), coll) :
          /\ coll' = (coll \ On(Scope(r), coll)) \cup left
          /\ mixed' = mixed \cup {r}
    /\ UNCHANGED <<settled, saved>>
    /\ \/ /\ form[r].op # "set"
          /\ End(r, "erase", "failed")
       \/ /\ form[r].op = "set"
          /\ Goto(r, "erase", "insert")
          /\ UNCHANGED <<broker, kv, locals, answers, crashes, given>>

Erase(r) ==
    /\ pc[r] = "erase"
    /\ EraseUnset(r) \/ EraseDone(r) \/ EraseNothing(r)

\* Wrong: the profile a record is decoded into is declared outside of the
\* loop and keeps what an earlier record left in it.
InsertReused(r) ==
    /\ Goto(r, "insert", "insert")
    /\ \E d \in todo[r], e \in plan[r] :
          /\ coll' = coll \cup {[id |-> d.id, val |-> e.val]}
          /\ todo' = [todo EXCEPT ![r] = @ \ {d}]
    /\ UNCHANGED <<broker, kv, form, plan, answers, crashes, given, ghosts>>

\* One record, in the order in which a map is ranged over, which is none.
Insert(r) ==
    /\ Goto(r, "insert", "insert")
    /\ \E d \in todo[r] :
          /\ coll' = coll \cup {d}
          /\ todo' = [todo EXCEPT ![r] = @ \ {d}]
    /\ UNCHANGED <<broker, kv, form, plan, answers, crashes, given, ghosts>>

\* Wrong: an insert that fails is logged and the request answered ok.
InsertFailsLogged(r) ==
    /\ "insert" \in Faults
    /\ \E d \in todo[r] :
          /\ coll' \in {coll, coll \cup {d}}
          /\ todo' = [todo EXCEPT ![r] = @ \ {d}]
    /\ Goto(r, "insert", "insert")
    /\ UNCHANGED <<broker, kv, form, plan, answers, crashes, given, ghosts>>

\* Wrong: after an insert that fails the request starts over.
InsertFailsRetrying(r) ==
    /\ "insert" \in Faults
    /\ todo[r] # {}
    /\ todo' = [todo EXCEPT ![r] = plan[r]]
    /\ Goto(r, "insert", "erase")
    /\ UNCHANGED <<coll, broker, kv, form, plan, answers, crashes, given, ghosts>>

\* Insert fails, or its answer is lost; the rest of the list is not written.
InsertFails(r) ==
    /\ "insert" \in Faults
    /\ \E d \in todo[r] : coll' \in {coll, coll \cup {d}}
    /\ End(r, "insert", "failed")
    /\ UNCHANGED ghosts

\* The whole plan is written.
Finish(r) ==
    /\ todo[r] = {}
    /\ End(r, "insert", "ok")
    /\ IF r \in mixed
         THEN UNCHANGED <<settled, saved>>
         ELSE /\ settled' = settled \cup Scope(r)
              /\ saved' = (saved \ On(Scope(r), saved)) \cup plan[r]
    /\ UNCHANGED <<coll, mixed>>

\* GetKey: one of the records of the key; the error of a query is overwritten,
\* and no record and no answer are an empty profile and no error.
Found(key) == {d.val : d \in On({key}, coll)}

Read(r) ==
    /\ Goto(r, "read", "done")
    /\ \E v \in Vals \cup {NoProfile} :
          /\ \/ v \in Found(form[r].key)
             \/ v = NoProfile /\ Found(form[r].key) = {}
             \/ v = NoProfile /\ "query" \in Faults
          /\ result' = [result EXCEPT ![r] = v]
    /\ reply' = [reply EXCEPT ![r] = "ok"]
    /\ UNCHANGED <<coll, broker, kv, locals, crashes, given, ghosts>>

Step(r) ==
    \/ Change(r) \/ Snapshot(r) \/ Erase(r) \/ Insert(r) \/ Finish(r)
    \/ Read(r)

(***************************************************************************)
(* The broker starts                                                       *)
(***************************************************************************)

\* NewPersistentStorage fails: Init sleeps and calls itself.
ConnectFails ==
    /\ phase = "connect"
    /\ "connect" \in Faults
    /\ retried' = TRUE
    /\ UNCHANGED <<coll, phase, loader, kv, pc, locals, answers, crashes, given,
                   ghosts>>

\* Wrong: the connected store is assigned to a local variable only.
ConnectShadowed ==
    /\ phase = "connect"
    /\ loader' = "unset"
    /\ phase' = IF retried THEN "serving" ELSE "load"
    /\ UNCHANGED <<coll, retried, kv, pc, locals, answers, crashes, given,
                   ghosts>>

\* The innermost call of Init connects; each call around it then puts the
\* store it failed to connect in its place and returns its error, and init()
\* returns early.
Connect ==
    /\ phase = "connect"
    /\ loader' = IF retried THEN "failed" ELSE "connected"
    /\ phase' = IF retried THEN "serving" ELSE "load"
    /\ UNCHANGED <<coll, retried, kv, pc, locals, answers, crashes, given,
                   ghosts>>

\* Wrong: all keys are set to the variable of the loop.
LoadedFromLast(docs) ==
    {reg \in Registry :
        /\ \A i \in Ids : reg[i] = NoProfile <=> On({i}, docs) = {}
        /\ \A i \in Ids : reg[i] # NoProfile => \E d \in docs : \A j \in Ids :
              reg[j] \in {NoProfile, d.val}}

\* LoadIntoStore: every record is set under its ID, the last one stays.  It is
\* the ID without the organisation, so that here too there is one of them.
LoadedFrom(docs) ==
    {reg \in Registry : \A i \in Ids :
        IF On({i}, docs) = {} THEN reg[i] = NoProfile
        ELSE [id |-> i, val |-> reg[i]] \in docs}

Load ==
    /\ phase = "load"
    /\ phase' = "serving"
    /\ \/ kv' \in LoadedFrom(coll)
       \/ "query" \in Faults /\ kv' = NoProfiles
    /\ given' = given \cup DocsOf(kv')
    /\ UNCHANGED <<coll, retried, loader, pc, locals, answers, crashes, ghosts>>

(***************************************************************************)
(* Crashes                                                                 *)
(***************************************************************************)

\* The requests of one of the programs end without an answer.
Kill(ops) ==
    LET lost == {r \in Requests : pc[r] \notin {"idle", "done"}
                                  /\ form[r].op \in ops}
    IN  /\ crashes < MaxCrashes
        /\ crashes' = crashes + 1
        /\ pc' = [r \in Requests |-> IF r \in lost THEN "done" ELSE pc[r]]
        /\ reply' = [r \in Requests |->
                       IF r \in lost THEN "dropped" ELSE reply[r]]
        /\ UNCHANGED <<coll, locals, result, given, ghosts>>

CrashBroker ==
    /\ phase # "down"
    /\ Kill(FlushOps)
    /\ phase' = "down"
    /\ retried' = FALSE
    /\ loader' = "unset"
    /\ kv' = NoProfiles

CrashOther == Kill(BackendOps) /\ UNCHANGED <<broker, kv>>

Restart ==
    /\ phase = "down"
    /\ phase' = "connect"
    /\ UNCHANGED <<coll, retried, loader, kv, pc, locals, answers, crashes,
                   given, ghosts>>

Init ==
    /\ coll \in InitialColls
    /\ phase = "connect"
    /\ retried = FALSE
    /\ loader = "unset"
    /\ kv = NoProfiles
    /\ pc = [r \in Requests |-> "idle"]
    /\ form = [r \in Requests |-> NoForm]
    /\ plan = [r \in Requests |-> {}]
    /\ todo = [r \in Requests |-> {}]
    /\ reply = [r \in Requests |-> "none"]
    /\ result = [r \in Requests |-> NoProfile]
    /\ crashes = 0
    /\ given = coll
    /\ mixed = {}
    /\ settled = Ids
    /\ saved = coll

Next ==
    \/ \E r \in Requests :
          Receive(r) \/ Step(r) \/ EraseFails(r) \/ InsertFails(r)
    \/ ConnectFails \/ Connect \/ Load
    \/ CrashBroker \/ CrashOther \/ Restart

\* A goroutine that can run is run, and calls to the database return; that
\* one of them fails is never assumed.
Fair(r) == WF_vars(Step(r))
Fairness == \A r \in Requests : Fair(r)

Spec == Init /\ [][Next]_vars
FairSpec == Spec /\ Fairness

(***************************************************************************)
(* Properties                                                              *)
(***************************************************************************)

\* However writers overlap, fail and are killed, the collection holds no
\* record that nobody asked to keep: Flush and SetKey insert the profiles they
\* were given and never parts of two (mongo_loader.go 94-107).
OnlyGiven == coll \subseteq given

\* A write that was answered ok, whose delete succeeded and that met no other
\* writer of its keys left exactly its records there, and nothing changes them
\* until the next writer of the key begins, whatever fails or is killed
\* meanwhile (mongo_loader.go 83-115, backends/mongo.go 25-48).
SettledIsStored ==
    \A d \in Docs : d.id \in settled => (d \in coll <=> d \in saved)

\* Who reads a settled key, a client of GetKey or the broker at its start,
\* finds what was written last, or finds nothing if the query failed (mongo_loader.go 51-70, backends/mongo.go 50-80).
LastWritten(i, v) ==
    \/ [id |-> i, val |-> v] \in saved
    \/ v = NoProfile /\ On({i}, saved) = {}

FindsSettled ==
    /\ \A r \in Requests :
         (reply[r] = "none" /\ reply'[r] = "ok" /\ form[r].op = "get"
           /\ form[r].key \in settled)
         => \/ LastWritten(form[r].key, result'[r])
            \/ result'[r] = NoProfile /\ "query" \in Faults
    /\ (phase = "load" /\ phase' = "serving")
       => \/ \A i \in settled : LastWritten(i, kv'[i])
          \/ kv' = NoProfiles /\ "query" \in Faults
ReadersFindSettled == [][FindsSettled]_vars

\* A request for a change is cut off without an answer only if the broker that
\* serves it had to retry its connection when it started: Init then leaves the
\* store unusable that the inner call had connected (mongo_loader.go 39-47).
AbortedAfterRetry ==
    [][\A r \in Requests :
         reply[r] # "aborted" /\ reply'[r] = "aborted" => retried]_vars

\* The collection as registers: those at rest are the settled keys, and hold
\* what the collection holds of them.
WriterKeys == [r \in Requests |-> IF r \in Writing THEN Scope(r) ELSE {}]
WriterDocs == [r \in Requests |-> IF r \in Writing THEN plan[r] ELSE {}]
Registers == INSTANCE SafeRegisters
  WITH Clients <- Requests, MayFail <- "query" \in Faults,
       keys <- WriterKeys, docs <- WriterDocs,
       resting <- settled, stored <- On(settled, coll), heard <- result

\* Neither program uses transactions, and yet a writer that has its keys for
\* itself writes them as if at once: no other writer, reader, failure or crash
\* shows or spoils a part of it (mongo_loader.go 83-115, backends/mongo.go
\* 25-118).
ImplementsRegisters == Registers!Spec

\* No request waits for another one: whatever the database answers and
\* whichever other requests are under way, each of them can go on
\* (mongo_loader.go 83-115, backends/mongo.go 25-118).
NeverStuck ==
    \A r \in Requests :
        pc[r] \notin {"idle", "done"} => ENABLED <<Step(r)>>_vars

\* Every request is answered, or ends with the program that serves it.
Served == \A r \in Requests : pc[r] \notin {"idle", "done"} ~> pc[r] = "done"

\* Both: no handler ever waits for another request, and each gets to its end.
Answered == []NeverStuck /\ Served
===============================================================================
