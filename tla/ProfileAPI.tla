------------------------------ MODULE ProfileAPI ------------------------------
(***************************************************************************)
(* The profile management API over the in-memory store and the file        *)
(* loader: src/api.go, src/tap/profileActions.go,                          *)
(* src/backends/in_memory.go and src/data_loader/file_loader.go.           *)
(*                                                                         *)
(* net/http runs each request in a goroutine of its own.  A lock guards    *)
(* one access to the store, never the check, the change and the flush of a *)
(* request together, and nothing guards the files.  A request is therefore *)
(* a sequence of steps between which any other request may run:            *)
(*                                                                         *)
(*   Receive -> Check -> Change -> ReadOld -> OpenBackup -> WriteBackup    *)
(*           -> TakeSnapshot -> OpenSave -> WriteSave                      *)
(*                                                                         *)
(* ioutil.WriteFile is two steps, an open that truncates and a write.      *)
(***************************************************************************)
EXTENDS Naturals

CONSTANTS
    Requests,      \* the HTTP requests the service ever receives
    Ids,           \* profile IDs
    Vals,          \* what a profile holds beside its ID
    NoProfile,     \* the ID is not in the store
    Forms,         \* the forms of request clients send, a set of FormType
    NoForm,        \* the form of a request not received yet
    Absent,        \* a file that does not exist
    Empty,         \* a file that was truncated and not written yet
    Torn,          \* a file whose content is not a JSON profile list
    InitialFiles,  \* what the profiles file may hold before the first start
    SamePath,      \* path.Join(ProfileDir, FileName) is the file FileName
    Faults,        \* the file operations that may fail
    Sequential,    \* clients wait for the answer before the next request
    MaxClock,      \* bound: the last second of the clock
    MaxCrashes     \* bound: how often the process is killed

FormType == [op : {"add", "update", "delete"}, key : Ids, id : Ids,
             val : Vals, auth : BOOLEAN]

Registry == [Ids -> Vals \cup {NoProfile}]
NoProfiles == [i \in Ids |-> NoProfile]
Content == Registry \cup {Absent, Empty, Torn}

\* What ioutil.ReadFile returns without an error.
Readable == Content \ {Absent}
Seconds == 0 .. MaxClock
Paths == {"FileName", "ProfileDir"}

ASSUME ConstantsAssumption ==
    /\ NoProfile \notin Vals
    /\ Absent \notin Registry /\ Empty \notin Registry /\ Torn \notin Registry
    /\ Absent # Empty /\ Empty # Torn /\ Absent # Torn
    /\ Forms \subseteq FormType
    /\ NoForm \notin FormType
    /\ InitialFiles \subseteq Content
    /\ SamePath \in BOOLEAN
    /\ Sequential \in BOOLEAN
    /\ Faults \subseteq {"read", "backup", "save"}
    /\ MaxClock \in Nat
    /\ MaxCrashes \in Nat

VARIABLES
    kv,       \* InMemoryBackend.kv: the profile of each ID
    disk,     \* the file profiles are loaded from, the file they are saved to
    backups,  \* profiles_backup_<second>.json in ProfileDir
    now,      \* time.Now().Unix()
    up,       \* the process is running and serves requests
    crashes,  \* how often it has been killed
    pc,       \* the next step of each request's handler
    form,     \* what each request asks for
    oldSet,   \* Flush's local oldSet: what it read from FileName
    stamp,    \* Flush's local ts: the second in its backup's name
    newSet,   \* Flush's local newSet: what GetAll returned
    reply,    \* what each request was answered
    changed,  \* history: the requests that have changed the store
    held      \* history: the registries the store has held

files == <<disk, backups>>
process == <<now, up, crashes>>
locals == <<form, oldSet, stamp, newSet>>
vars == <<kv, files, process, pc, locals, reply, changed, held>>

PCs == {"idle", "check", "change", "readold", "openbackup", "writebackup",
        "snapshot", "opensave", "writesave", "done"}
Replies == {"none", "ok", "unauthorised", "mismatch", "exists", "notfound",
            "flushfailed", "dropped"}

\* Answers that say the request was not carried out.
Rejections == {"unauthorised", "mismatch", "exists", "notfound"}

InFlight == {r \in Requests : pc[r] \notin {"idle", "done"}}

\* Where Flush saves: path.Join(ProfileDir, FileName).
SavePath == IF SamePath THEN "FileName" ELSE "ProfileDir"

(***************************************************************************)
(* Files                                                                   *)
(***************************************************************************)

\* The store after LoadIntoStore read c.  A file that is not JSON is logged
\* and reported as no error, a missing one ends init() early: the service
\* starts with no profiles in both cases.
Loaded(c) == IF c \in Registry THEN c ELSE NoProfiles

\* The file after data is written at its beginning over what is there: nothing
\* if it is empty, else what another writer put there since both truncated it.
\* The tail of a longer text remains, and what is then there is not JSON.
Overwritten(was, data) ==
    IF data = Empty THEN {was}
    ELSE IF was \in {Empty, data} THEN {data}
    ELSE {data, Torn}

(***************************************************************************)
(* Handlers                                                                *)
(***************************************************************************)

Goto(r, from, to) ==
    /\ up
    /\ pc[r] = from
    /\ pc' = [pc EXCEPT ![r] = to]

\* The handler returns; its locals are gone.
Answer(r, from, what) ==
    /\ Goto(r, from, "done")
    /\ reply' = [reply EXCEPT ![r] = what]
    /\ oldSet' = [oldSet EXCEPT ![r] = Empty]
    /\ stamp' = [stamp EXCEPT ![r] = 0]
    /\ newSet' = [newSet EXCEPT ![r] = NoProfiles]
    /\ UNCHANGED <<form, process>>

\* IsAuthenticated, then the comparison of the body's ID with the URL's.
Screened(f) ==
    IF ~f.auth THEN "unauthorised"
    ELSE IF f.op # "delete" /\ f.id # f.key THEN "mismatch"
    ELSE "none"

Receive(r) ==
    /\ up
    /\ pc[r] = "idle"
    /\ Sequential => InFlight = {}
    /\ \E f \in Forms :
          /\ form' = [form EXCEPT ![r] = f]
          /\ reply' = [reply EXCEPT ![r] = Screened(f)]
          /\ pc' = [pc EXCEPT
                     ![r] = IF Screened(f) = "none" THEN "check" ELSE "done"]
    /\ UNCHANGED <<kv, files, process, oldSet, stamp, newSet, changed, held>>

\* GetKey finds the profile.
Present(r) == kv[form[r].key] # NoProfile

\* Wrong: the store is written before the check, as in a put-if-absent whose
\* two steps were swapped.
RejectLate(r) ==
    /\ IF form[r].op = "add"
         THEN Present(r) /\ Answer(r, "check", "exists")
         ELSE ~Present(r) /\ Answer(r, "check", "notfound")
    /\ kv' = [kv EXCEPT ![form[r].key] = form[r].val]
    /\ held' = held \cup {kv'}
    /\ UNCHANGED <<files, changed>>

Reject(r) ==
    /\ IF form[r].op = "add"
         THEN Present(r) /\ Answer(r, "check", "exists")
         ELSE ~Present(r) /\ Answer(r, "check", "notfound")
    /\ UNCHANGED <<kv, files, changed, held>>

\* Wrong: an add does not look whether the ID is in use.
AcceptAnyAdd(r) ==
    /\ form[r].op = "add" \/ Present(r)
    /\ Goto(r, "check", "change")
    /\ UNCHANGED <<kv, files, process, locals, reply, changed, held>>

Accept(r) ==
    /\ form[r].op = "add" <=> ~Present(r)
    /\ Goto(r, "check", "change")
    /\ UNCHANGED <<kv, files, process, locals, reply, changed, held>>

Check(r) == pc[r] = "check" /\ (Reject(r) \/ Accept(r))

\* SetKey or DeleteKey.
Change(r) ==
    /\ Goto(r, "change", "readold")
    /\ kv' = [kv EXCEPT ![form[r].key] =
                IF form[r].op = "delete" THEN NoProfile ELSE form[r].val]
    /\ changed' = changed \cup {r}
    /\ held' = held \cup {kv'}
    /\ UNCHANGED <<files, process, locals, reply>>

FlushFailed(r, from) ==
    /\ Answer(r, from, "flushfailed")
    /\ UNCHANGED <<kv, changed, held>>

\* Wrong: the error of ReadFile is not looked at.
ReadOldUnchecked(r) ==
    /\ Goto(r, "readold", "openbackup")
    /\ oldSet' = [oldSet EXCEPT ![r] = disk["FileName"]]
    /\ UNCHANGED <<kv, files, process, form, stamp, newSet, reply, changed, held>>

ReadOld(r) ==
    \/ /\ disk["FileName"] \in Readable
       /\ Goto(r, "readold", "openbackup")
       /\ oldSet' = [oldSet EXCEPT ![r] = disk["FileName"]]
       /\ UNCHANGED <<kv, files, process, form, stamp, newSet, reply, changed,
                      held>>
    \/ /\ disk["FileName"] = Absent \/ "read" \in Faults
       /\ FlushFailed(r, "readold")
       /\ UNCHANGED files

\* Wrong: a flush whose backup fails starts over.
OpenBackupRetrying(r) ==
    \/ /\ Goto(r, "openbackup", "writebackup")
       /\ stamp' = [stamp EXCEPT ![r] = now]
       /\ backups' = [backups EXCEPT ![now] = Empty]
       /\ UNCHANGED <<kv, disk, process, form, oldSet, newSet, reply, changed,
                      held>>
    \/ /\ "backup" \in Faults
       /\ Goto(r, "openbackup", "readold")
       /\ UNCHANGED <<kv, files, process, locals, reply, changed, held>>

OpenBackup(r) ==
    \/ /\ Goto(r, "openbackup", "writebackup")
       /\ stamp' = [stamp EXCEPT ![r] = now]
       /\ backups' = [backups EXCEPT ![now] = Empty]
       /\ UNCHANGED <<kv, disk, process, form, oldSet, newSet, reply, changed,
                      held>>
    \/ /\ "backup" \in Faults
       /\ FlushFailed(r, "openbackup")
       /\ UNCHANGED files

\* Wrong: a backup that failed does not stop the flush, the slip line 92 has
\* for the save.
WriteBackupUnchecked(r) ==
    /\ Goto(r, "writebackup", "snapshot")
    /\ \E c \in Overwritten(backups[stamp[r]], oldSet[r]) \cup
               (IF "backup" \in Faults THEN {Torn} ELSE {}) :
          backups' = [backups EXCEPT ![stamp[r]] = c]
    /\ UNCHANGED <<kv, disk, process, locals, reply, changed, held>>

WriteBackup(r) ==
    \/ /\ Goto(r, "writebackup", "snapshot")
       /\ \E c \in Overwritten(backups[stamp[r]], oldSet[r]) :
             backups' = [backups EXCEPT ![stamp[r]] = c]
       /\ UNCHANGED <<kv, disk, process, locals, reply, changed, held>>
    \/ /\ "backup" \in Faults
       /\ FlushFailed(r, "writebackup")
       /\ \E c \in {backups[stamp[r]], Torn} :
             backups' = [backups EXCEPT ![stamp[r]] = c]
       /\ UNCHANGED disk

\* Wrong: the flush overlays its own change on the list it read before.
TakeOverlay(r) ==
    /\ Goto(r, "snapshot", "opensave")
    /\ newSet' = [newSet EXCEPT ![r] =
                    IF oldSet[r] \in Registry
                      THEN [oldSet[r] EXCEPT ![form[r].key] = kv[form[r].key]]
                      ELSE kv]
    /\ UNCHANGED <<kv, files, process, form, oldSet, stamp, reply, changed, held>>

\* store.GetAll and json.Marshal.
TakeSnapshot(r) ==
    /\ Goto(r, "snapshot", "opensave")
    /\ newSet' = [newSet EXCEPT ![r] = kv]
    /\ UNCHANGED <<kv, files, process, form, oldSet, stamp, reply, changed,
                   held>>

\* Line 92 tests the error of the backup again, so a failed save is answered
\* as a success.
OpenSave(r) ==
    \/ /\ Goto(r, "opensave", "writesave")
       /\ disk' = [disk EXCEPT ![SavePath] = Empty]
       /\ UNCHANGED <<kv, backups, process, locals, reply, changed, held>>
    \/ /\ "save" \in Faults
       /\ Answer(r, "opensave", "ok")
       /\ UNCHANGED <<kv, files, changed, held>>

\* Wrong: the two buffers are swapped and the old list is saved again.
WriteSaveOld(r) ==
    /\ Answer(r, "writesave", "ok")
    /\ disk' = [disk EXCEPT ![SavePath] = oldSet[r]]
    /\ UNCHANGED <<kv, backups, changed, held>>

WriteSave(r) ==
    /\ Answer(r, "writesave", "ok")
    /\ \/ \E c \in Overwritten(disk[SavePath], newSet[r]) :
             disk' = [disk EXCEPT ![SavePath] = c]
       \/ /\ "save" \in Faults
          /\ \E c \in {disk[SavePath], Torn} :
                disk' = [disk EXCEPT ![SavePath] = c]
    /\ UNCHANGED <<kv, backups, changed, held>>

Step(r) ==
    \/ Check(r) \/ Change(r) \/ ReadOld(r) \/ OpenBackup(r) \/ WriteBackup(r)
    \/ TakeSnapshot(r) \/ OpenSave(r) \/ WriteSave(r)

(***************************************************************************)
(* The process and the clock                                               *)
(***************************************************************************)

Tick ==
    /\ now < MaxClock
    /\ now' = now + 1
    /\ UNCHANGED <<kv, files, up, crashes, pc, locals, reply, changed, held>>

\* The process is killed: the store and every handler are gone, the files stay
\* as they are, and the clients waiting for an answer get none.
Crash ==
    /\ up
    /\ crashes < MaxCrashes
    /\ up' = FALSE
    /\ crashes' = crashes + 1
    /\ kv' = NoProfiles
    /\ pc' = [r \in Requests |-> IF r \in InFlight THEN "done" ELSE pc[r]]
    /\ reply' = [r \in Requests |->
                   IF r \in InFlight THEN "dropped" ELSE reply[r]]
    /\ oldSet' = [r \in Requests |-> Empty]
    /\ stamp' = [r \in Requests |-> 0]
    /\ newSet' = [r \in Requests |-> NoProfiles]
    /\ UNCHANGED <<files, now, form, changed, held>>

\* init() loads the file, then main() serves whatever init() met.
Restart ==
    /\ ~up
    /\ up' = TRUE
    /\ kv' = Loaded(disk["FileName"])
    /\ held' = held \cup {kv'}
    /\ UNCHANGED <<files, now, crashes, pc, locals, reply, changed>>

Init ==
    /\ \E c \in InitialFiles :
          /\ disk = [p \in Paths |-> IF p = "FileName" THEN c ELSE Absent]
          /\ kv = Loaded(c)
          /\ held = {NoProfiles, Loaded(c)}
    /\ backups = [t \in Seconds |-> Absent]
    /\ now = 0
    /\ up = TRUE
    /\ crashes = 0
    /\ pc = [r \in Requests |-> "idle"]
    /\ form = [r \in Requests |-> NoForm]
    /\ oldSet = [r \in Requests |-> Empty]
    /\ stamp = [r \in Requests |-> 0]
    /\ newSet = [r \in Requests |-> NoProfiles]
    /\ reply = [r \in Requests |-> "none"]
    /\ changed = {}

Next ==
    \/ \E r \in Requests : Receive(r) \/ Step(r)
    \/ Tick
    \/ Crash
    \/ Restart

\* A goroutine that can run is run; clients, the clock and crashes are free.
Fair(r) == WF_vars(Step(r))
Fairness == \A r \in Requests : Fair(r)

Spec == Init /\ [][Next]_vars
FairSpec == Spec /\ Fairness
===============================================================================
