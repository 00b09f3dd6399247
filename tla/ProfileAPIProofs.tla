--------------------------- MODULE ProfileAPIProofs ---------------------------
(***************************************************************************)
(* Proofs about the profile management API for every number of overlapping *)
(* requests, every set of profiles and first files, every fault and any    *)
(* number of crashes.  The argument is layered: types and the state of a   *)
(* handler first, then where the content of files comes from, then where   *)
(* the content of the store comes from.                                    *)
(***************************************************************************)
EXTENDS ProfileAPIProps, TLAPS

\* What a handler has got past at each step, and what it has answered.
HandlerState ==
    \A r \in Requests :
        /\ pc[r] # "idle" => form[r] \in Forms
        /\ pc[r] \notin {"idle", "done"} =>
              /\ reply[r] = "none"
              /\ form[r].auth
              /\ form[r].op # "delete" => form[r].id = form[r].key
        /\ r \in changed => pc[r] \notin {"idle", "check", "change"}
        /\ r \in changed => reply[r] \notin Rejections

Inv1 == TypeOK /\ HandlerState

\* Every registry a buffer or a file may hold is in the history.
HeldAll ==
    /\ NoProfiles \in held
    /\ kv \in held
    /\ \A r \in Requests : newSet[r] \in held

Inv2 == Inv1 /\ HeldAll /\ FilesAreSnapshots

Inv3 == Inv2 /\ RejectedLeavesNoTrace

-------------------------------------------------------------------------------
(***************************************************************************)
(* Facts about the operators                                               *)
(***************************************************************************)

\* An empty list of profiles is a registry.
LEMMA NoProfilesType == NoProfiles \in Registry
BY DEF NoProfiles, Registry

\* Whatever a file holds, the store loaded from it is a registry.
LEMMA LoadedType == \A c : Loaded(c) \in Registry
BY NoProfilesType DEF Loaded

\* Writing readable content leaves readable content, and a profile list found
\* afterwards was there before or is the one written.
LEMMA OverwrittenType ==
    ASSUME NEW was \in Content, NEW data \in Content,
           NEW c \in Overwritten(was, data)
    PROVE  /\ c \in Content
           /\ c \in Registry => c \in {was, data}
BY ConstantsAssumption DEF Overwritten, Content

\* The file Flush saves to is one of the two paths.
LEMMA SavePathType == SavePath \in Paths
BY DEF SavePath, Paths

\* A request's form has the fields the handlers read.
LEMMA FormFields ==
    ASSUME NEW f \in Forms
    PROVE  /\ f \in FormType
           /\ f.key \in Ids /\ f.id \in Ids /\ f.val \in Vals
           /\ f.auth \in BOOLEAN
BY ConstantsAssumption DEF FormType

-------------------------------------------------------------------------------
(***************************************************************************)
(* Types and the state of a handler                                        *)
(***************************************************************************)

LEMMA Inv1Init == Init => Inv1
<1> SUFFICES ASSUME Init PROVE Inv1
  OBVIOUS
<1>1. TypeOK
  BY ConstantsAssumption, NoProfilesType, LoadedType
  DEF Init, TypeOK, Content, Readable, Seconds, PCs, Replies, Paths
<1>2. HandlerState
  BY DEF Init, HandlerState
<1> QED
  BY <1>1, <1>2 DEF Inv1

LEMMA Inv1Receive ==
    ASSUME Inv1, NEW r \in Requests, Receive(r)
    PROVE  Inv1'
<1> USE DEF Inv1
<1>1. PICK f \in Forms :
        /\ form' = [form EXCEPT ![r] = f]
        /\ reply' = [reply EXCEPT ![r] = Screened(f)]
        /\ pc' = [pc EXCEPT
                   ![r] = IF Screened(f) = "none" THEN "check" ELSE "done"]
  BY DEF Receive
<1>2. Screened(f) \in Replies
  BY DEF Screened, Replies
<1>3. TypeOK'
  BY <1>1, <1>2 DEF TypeOK, Receive, files, process, PCs
<1>4. r \notin changed
  BY DEF Receive, HandlerState
<1>5. HandlerState'
  BY <1>1, <1>4, FormFields
  DEF TypeOK, HandlerState, Receive, Screened
<1> QED
  BY <1>3, <1>5

LEMMA Inv1Answer ==
    ASSUME Inv1, NEW r \in Requests, NEW from, NEW what \in Replies,
           from \notin {"idle", "done"},
           Answer(r, from, what),
           what \in Rejections => from = "check",
           UNCHANGED <<kv, changed, held>>,
           disk' \in [Paths -> Content], backups' \in [Seconds -> Content]
    PROVE  Inv1'
<1>1. TypeOK'
  BY NoProfilesType, ConstantsAssumption
  DEF Inv1, TypeOK, Answer, Goto, process, PCs, Content, Readable, Seconds
<1>2. HandlerState'
  BY DEF Inv1, TypeOK, HandlerState, Answer, Goto, Rejections
<1> QED
  BY <1>1, <1>2 DEF Inv1

LEMMA Inv1Check ==
    ASSUME Inv1, NEW r \in Requests, Check(r)
    PROVE  Inv1'
<1>1. CASE Reject(r)
  <2>1. PICK what \in {"exists", "notfound"} : Answer(r, "check", what)
    BY <1>1 DEF Reject
  <2>2. what \in Replies
    BY <2>1 DEF Replies
  <2>3. /\ UNCHANGED <<kv, changed, held>>
        /\ disk' \in [Paths -> Content] /\ backups' \in [Seconds -> Content]
    BY <1>1 DEF Reject, Inv1, TypeOK, files
  <2> QED
    BY <2>1, <2>2, <2>3, Inv1Answer
<1>2. CASE Accept(r)
  <2>1. TypeOK'
    BY <1>2 DEF Accept, Inv1, TypeOK, Goto, files, process, locals, PCs
  <2>2. HandlerState'
    BY <1>2 DEF Accept, Inv1, TypeOK, HandlerState, Goto, locals
  <2> QED
    BY <2>1, <2>2 DEF Inv1
<1> QED
  BY <1>1, <1>2 DEF Check

\* What the store holds after a change.
LEMMA ChangedStore ==
    ASSUME Inv1, NEW r \in Requests, Change(r)
    PROVE  /\ form[r] \in Forms
           /\ kv' \in Registry
           /\ \A i \in Ids :
                \/ kv'[i] = kv[i]
                \/ kv'[i] = NoProfile
                \/ /\ form[r].op # "delete"
                   /\ i = form[r].key /\ kv'[i] = form[r].val
<1>1. form[r] \in Forms
  BY DEF Change, Goto, Inv1, HandlerState
<1> QED
  BY <1>1, FormFields DEF Change, Inv1, TypeOK, Registry

LEMMA Inv1Change ==
    ASSUME Inv1, NEW r \in Requests, Change(r)
    PROVE  Inv1'
<1>1. TypeOK'
  BY ChangedStore DEF Change, Inv1, TypeOK, Goto, files, process, locals, PCs
<1>2. HandlerState'
  BY DEF Change, Inv1, TypeOK, HandlerState, Goto, locals, Rejections
<1> QED
  BY <1>1, <1>2 DEF Inv1

\* A step of Flush that goes on to the next one and fills a local.
LEMMA Inv1Flush ==
    ASSUME Inv1, NEW r \in Requests, NEW from, NEW to,
           from \notin {"idle", "check", "change", "done"},
           to \in PCs \ {"idle", "check", "change", "done"},
           Goto(r, from, to),
           UNCHANGED <<kv, process, form, reply, changed, held>>,
           disk' \in [Paths -> Content], backups' \in [Seconds -> Content],
           oldSet' \in [Requests -> Readable], stamp' \in [Requests -> Seconds],
           newSet' \in [Requests -> Registry]
    PROVE  Inv1'
<1>1. TypeOK'
  BY DEF Inv1, TypeOK, Goto, process
<1>2. HandlerState'
  BY DEF Inv1, TypeOK, HandlerState, Goto
<1> QED
  BY <1>1, <1>2 DEF Inv1

LEMMA Inv1ReadOld ==
    ASSUME Inv1, NEW r \in Requests, ReadOld(r)
    PROVE  Inv1'
<1>1. CASE FlushFailed(r, "readold") /\ UNCHANGED files
  BY <1>1, Inv1Answer
  DEF FlushFailed, Replies, Rejections, files, Inv1, TypeOK
<1>2. CASE /\ disk["FileName"] \in Readable
           /\ Goto(r, "readold", "openbackup")
           /\ oldSet' = [oldSet EXCEPT ![r] = disk["FileName"]]
           /\ UNCHANGED <<kv, files, process, form, stamp, newSet, reply,
                          changed, held>>
  <2>1. /\ disk' \in [Paths -> Content] /\ backups' \in [Seconds -> Content]
        /\ oldSet' \in [Requests -> Readable]
        /\ stamp' \in [Requests -> Seconds] /\ newSet' \in [Requests -> Registry]
    BY <1>2 DEF Inv1, TypeOK, files
  <2> QED
    BY <1>2, <2>1, Inv1Flush DEF PCs
<1> QED
  BY <1>1, <1>2 DEF ReadOld

LEMMA Inv1OpenBackup ==
    ASSUME Inv1, NEW r \in Requests, OpenBackup(r)
    PROVE  Inv1'
<1>1. CASE FlushFailed(r, "openbackup") /\ UNCHANGED files
  BY <1>1, Inv1Answer
  DEF FlushFailed, Replies, Rejections, files, Inv1, TypeOK
<1>2. CASE /\ Goto(r, "openbackup", "writebackup")
           /\ stamp' = [stamp EXCEPT ![r] = now]
           /\ backups' = [backups EXCEPT ![now] = Empty]
           /\ UNCHANGED <<kv, disk, process, form, oldSet, newSet, reply,
                          changed, held>>
  <2>1. /\ disk' \in [Paths -> Content] /\ backups' \in [Seconds -> Content]
        /\ oldSet' \in [Requests -> Readable]
        /\ stamp' \in [Requests -> Seconds] /\ newSet' \in [Requests -> Registry]
    BY <1>2 DEF Inv1, TypeOK, Content
  <2> QED
    BY <1>2, <2>1, Inv1Flush DEF PCs
<1> QED
  BY <1>1, <1>2 DEF OpenBackup

LEMMA Inv1WriteBackup ==
    ASSUME Inv1, NEW r \in Requests, WriteBackup(r)
    PROVE  Inv1'
<1>1. CASE /\ "backup" \in Faults
           /\ FlushFailed(r, "writebackup")
           /\ \E c \in {backups[stamp[r]], Torn} :
                 backups' = [backups EXCEPT ![stamp[r]] = c]
           /\ UNCHANGED disk
  <2>1. disk' \in [Paths -> Content] /\ backups' \in [Seconds -> Content]
    BY <1>1 DEF Inv1, TypeOK, Content
  <2> QED
    BY <1>1, <2>1, Inv1Answer DEF FlushFailed, Replies, Rejections
<1>2. CASE /\ Goto(r, "writebackup", "snapshot")
           /\ \E c \in Overwritten(backups[stamp[r]], oldSet[r]) :
                 backups' = [backups EXCEPT ![stamp[r]] = c]
           /\ UNCHANGED <<kv, disk, process, locals, reply, changed, held>>
  <2>1. backups[stamp[r]] \in Content /\ oldSet[r] \in Content
    BY DEF Inv1, TypeOK, Readable
  <2>2. backups' \in [Seconds -> Content]
    BY <1>2, <2>1, OverwrittenType DEF Inv1, TypeOK
  <2>3. /\ disk' \in [Paths -> Content]
        /\ oldSet' \in [Requests -> Readable]
        /\ stamp' \in [Requests -> Seconds] /\ newSet' \in [Requests -> Registry]
        /\ UNCHANGED <<kv, process, form, reply, changed, held>>
    BY <1>2 DEF Inv1, TypeOK, locals
  <2> QED
    BY <1>2, <2>2, <2>3, Inv1Flush DEF PCs
<1> QED
  BY <1>1, <1>2 DEF WriteBackup

LEMMA Inv1TakeSnapshot ==
    ASSUME Inv1, NEW r \in Requests, TakeSnapshot(r)
    PROVE  Inv1'
<1>1. /\ disk' \in [Paths -> Content] /\ backups' \in [Seconds -> Content]
      /\ oldSet' \in [Requests -> Readable]
      /\ stamp' \in [Requests -> Seconds] /\ newSet' \in [Requests -> Registry]
  BY DEF TakeSnapshot, Inv1, TypeOK, files
<1> QED
  BY <1>1, Inv1Flush DEF TakeSnapshot, PCs

LEMMA Inv1OpenSave ==
    ASSUME Inv1, NEW r \in Requests, OpenSave(r)
    PROVE  Inv1'
<1>1. CASE /\ Answer(r, "opensave", "ok")
           /\ UNCHANGED <<kv, files, changed, held>>
  BY <1>1, Inv1Answer DEF Replies, Rejections, files, Inv1, TypeOK
<1>2. CASE /\ Goto(r, "opensave", "writesave")
           /\ disk' = [disk EXCEPT ![SavePath] = Empty]
           /\ UNCHANGED <<kv, backups, process, locals, reply, changed, held>>
  <2>1. /\ disk' \in [Paths -> Content] /\ backups' \in [Seconds -> Content]
        /\ oldSet' \in [Requests -> Readable]
        /\ stamp' \in [Requests -> Seconds] /\ newSet' \in [Requests -> Registry]
    BY <1>2, SavePathType DEF Inv1, TypeOK, Content, locals
  <2> QED
    BY <1>2, <2>1, Inv1Flush DEF PCs, locals
<1> QED
  BY <1>1, <1>2 DEF OpenSave

\* What a save leaves: the old content, a torn one, or the snapshot.
LEMMA SavedContent ==
    ASSUME Inv1, NEW r \in Requests, WriteSave(r)
    PROVE  \E c \in Content :
              /\ disk' = [disk EXCEPT ![SavePath] = c]
              /\ c \in Registry => c \in {disk[SavePath], newSet[r]}
<1>1. disk[SavePath] \in Content /\ newSet[r] \in Content
  BY SavePathType DEF Inv1, TypeOK, Content
<1>2. Torn \in Content \ Registry
  BY ConstantsAssumption DEF Content
<1>3. CASE \E c \in Overwritten(disk[SavePath], newSet[r]) :
              disk' = [disk EXCEPT ![SavePath] = c]
  BY <1>1, <1>3, OverwrittenType
<1>4. CASE \E c \in {disk[SavePath], Torn} :
              disk' = [disk EXCEPT ![SavePath] = c]
  BY <1>1, <1>2, <1>4
<1> QED
  BY <1>3, <1>4 DEF WriteSave

LEMMA Inv1WriteSave ==
    ASSUME Inv1, NEW r \in Requests, WriteSave(r)
    PROVE  Inv1'
<1>1. disk' \in [Paths -> Content] /\ backups' \in [Seconds -> Content]
  BY SavedContent, SavePathType DEF WriteSave, Inv1, TypeOK
<1> QED
  BY <1>1, Inv1Answer DEF WriteSave, Replies, Rejections

LEMMA Inv1Tick ==
    ASSUME Inv1, Tick
    PROVE  Inv1'
<1>1. TypeOK'
  BY ConstantsAssumption DEF Tick, Inv1, TypeOK, files, locals, Seconds
<1>2. HandlerState'
  BY DEF Tick, Inv1, HandlerState, locals
<1> QED
  BY <1>1, <1>2 DEF Inv1

LEMMA Inv1Crash ==
    ASSUME Inv1, Crash
    PROVE  Inv1'
<1>1. crashes' \in 0 .. MaxCrashes /\ 0 \in Seconds
  BY ConstantsAssumption DEF Crash, Inv1, TypeOK, Seconds
<1>2. /\ oldSet' \in [Requests -> Readable]
      /\ stamp' \in [Requests -> Seconds]
      /\ newSet' \in [Requests -> Registry]
  BY <1>1, ConstantsAssumption, NoProfilesType DEF Crash, Content, Readable
<1>3. pc' \in [Requests -> PCs] /\ reply' \in [Requests -> Replies]
  BY DEF Crash, Inv1, TypeOK, PCs, Replies
<1>4. TypeOK'
  BY <1>1, <1>2, <1>3, NoProfilesType DEF Crash, Inv1, TypeOK, files
<1>5. HandlerState'
  BY DEF Crash, Inv1, TypeOK, HandlerState, InFlight, Rejections
<1> QED
  BY <1>4, <1>5 DEF Inv1

LEMMA Inv1Restart ==
    ASSUME Inv1, Restart
    PROVE  Inv1'
<1>1. TypeOK'
  BY LoadedType DEF Restart, Inv1, TypeOK, files, locals
<1>2. HandlerState'
  BY DEF Restart, Inv1, HandlerState, locals
<1> QED
  BY <1>1, <1>2 DEF Inv1

LEMMA Inv1Next == Inv1 /\ [Next]_vars => Inv1'
<1> SUFFICES ASSUME Inv1, [Next]_vars PROVE Inv1'
  OBVIOUS
<1>1. ASSUME NEW r \in Requests, Receive(r) PROVE Inv1'
  BY <1>1, Inv1Receive
<1>2. ASSUME NEW r \in Requests, Step(r) PROVE Inv1'
  BY <1>2, Inv1Check, Inv1Change, Inv1ReadOld, Inv1OpenBackup,
     Inv1WriteBackup, Inv1TakeSnapshot, Inv1OpenSave, Inv1WriteSave
  DEF Step
<1>3. CASE UNCHANGED vars
  BY <1>3 DEF vars, files, process, locals, Inv1, TypeOK, HandlerState
<1> QED
  BY <1>1, <1>2, <1>3, Inv1Tick, Inv1Crash, Inv1Restart DEF Next

LEMMA Inv1Always == Spec => []Inv1
BY Inv1Init, Inv1Next, PTL DEF Spec

\* Every variable keeps its type, whatever requests, faults and crashes do.
THEOREM Typing == Spec => []TypeOK
<1>1. Inv1 => TypeOK
  BY DEF Inv1
<1> QED
  BY <1>1, Inv1Always, PTL

-------------------------------------------------------------------------------
(***************************************************************************)
(* Where the content of files comes from                                   *)
(***************************************************************************)

LEMMA Inv2Init == Init => Inv2
<1> SUFFICES ASSUME Init PROVE Inv2
  OBVIOUS
<1>1. PICK c \in InitialFiles :
        /\ disk = [p \in Paths |-> IF p = "FileName" THEN c ELSE Absent]
        /\ kv = Loaded(c)
        /\ held = {NoProfiles, Loaded(c)}
  BY DEF Init
<1>2. HeldAll
  BY <1>1 DEF Init, HeldAll
<1>3. FilesAreSnapshots
  BY <1>1, ConstantsAssumption
  DEF Init, FilesAreSnapshots, Loaded, Content
<1> QED
  BY <1>2, <1>3, Inv1Init DEF Inv2

\* A step that adds nothing to the store, the files or the buffers.
LEMMA Inv2Quiet ==
    ASSUME Inv2, Inv1', UNCHANGED <<kv, disk, held>>,
           \A t \in Seconds : backups'[t] \in {backups[t], Empty, Torn},
           \A q \in Requests : oldSet'[q] \in {oldSet[q], Empty},
           \A q \in Requests : newSet'[q] \in {newSet[q], NoProfiles}
    PROVE  Inv2'
<1>1. HeldAll'
  BY DEF Inv2, HeldAll
<1>2. FilesAreSnapshots'
  BY ConstantsAssumption DEF Inv2, FilesAreSnapshots
<1> QED
  BY <1>1, <1>2 DEF Inv2

LEMMA Inv2Answer ==
    ASSUME Inv2, Inv1', NEW r \in Requests, NEW from, NEW what,
           Answer(r, from, what), UNCHANGED <<kv, disk, held>>,
           \A t \in Seconds : backups'[t] \in {backups[t], Empty, Torn}
    PROVE  Inv2'
<1>1. /\ \A q \in Requests : oldSet'[q] \in {oldSet[q], Empty}
      /\ \A q \in Requests : newSet'[q] \in {newSet[q], NoProfiles}
  BY DEF Answer, Inv2, Inv1, TypeOK
<1> QED
  BY <1>1, Inv2Quiet

LEMMA Inv2Receive ==
    ASSUME Inv2, NEW r \in Requests, Receive(r)
    PROVE  Inv2'
<1>1. Inv1'
  BY Inv1Receive DEF Inv2
<1> QED
  BY <1>1, Inv2Quiet DEF Receive, files

LEMMA Inv2Check ==
    ASSUME Inv2, NEW r \in Requests, Check(r)
    PROVE  Inv2'
<1>1. Inv1'
  BY Inv1Check DEF Inv2
<1>2. CASE Reject(r)
  BY <1>1, <1>2, Inv2Answer DEF Reject, files
<1>3. CASE Accept(r)
  BY <1>1, <1>3, Inv2Quiet DEF Accept, files, locals
<1> QED
  BY <1>2, <1>3 DEF Check

LEMMA Inv2Change ==
    ASSUME Inv2, NEW r \in Requests, Change(r)
    PROVE  Inv2'
<1>1. Inv1'
  BY Inv1Change DEF Inv2
<1>2. HeldAll'
  BY DEF Change, Inv2, HeldAll, locals
<1>3. FilesAreSnapshots'
  BY DEF Change, Inv2, FilesAreSnapshots, files, locals
<1> QED
  BY <1>1, <1>2, <1>3 DEF Inv2

LEMMA Inv2ReadOld ==
    ASSUME Inv2, NEW r \in Requests, ReadOld(r)
    PROVE  Inv2'
<1>1. Inv1'
  BY Inv1ReadOld DEF Inv2
<1>2. CASE FlushFailed(r, "readold") /\ UNCHANGED files
  BY <1>1, <1>2, Inv2Answer DEF FlushFailed, files
<1>3. CASE /\ oldSet' = [oldSet EXCEPT ![r] = disk["FileName"]]
           /\ UNCHANGED <<kv, files, process, form, stamp, newSet, reply,
                          changed, held>>
  <2>1. HeldAll'
    BY <1>3 DEF Inv2, HeldAll
  <2>2. FilesAreSnapshots'
    BY <1>3 DEF Inv2, Inv1, TypeOK, FilesAreSnapshots, files, Paths
  <2> QED
    BY <1>1, <2>1, <2>2 DEF Inv2
<1> QED
  BY <1>2, <1>3 DEF ReadOld

LEMMA Inv2OpenBackup ==
    ASSUME Inv2, NEW r \in Requests, OpenBackup(r)
    PROVE  Inv2'
<1>1. Inv1'
  BY Inv1OpenBackup DEF Inv2
<1>2. CASE FlushFailed(r, "openbackup") /\ UNCHANGED files
  BY <1>1, <1>2, Inv2Answer DEF FlushFailed, files
<1>3. CASE /\ backups' = [backups EXCEPT ![now] = Empty]
           /\ UNCHANGED <<kv, disk, process, form, oldSet, newSet, reply,
                          changed, held>>
  BY <1>1, <1>3, Inv2Quiet DEF Inv2, Inv1, TypeOK
<1> QED
  BY <1>2, <1>3 DEF OpenBackup

LEMMA Inv2WriteBackup ==
    ASSUME Inv2, NEW r \in Requests, WriteBackup(r)
    PROVE  Inv2'
<1>1. Inv1'
  BY Inv1WriteBackup DEF Inv2
<1>2. CASE /\ FlushFailed(r, "writebackup")
           /\ \E c \in {backups[stamp[r]], Torn} :
                 backups' = [backups EXCEPT ![stamp[r]] = c]
           /\ UNCHANGED disk
  <2>1. \A t \in Seconds : backups'[t] \in {backups[t], Empty, Torn}
    BY <1>2 DEF Inv2, Inv1, TypeOK
  <2> QED
    BY <1>1, <1>2, <2>1, Inv2Answer DEF FlushFailed
<1>3. CASE /\ \E c \in Overwritten(backups[stamp[r]], oldSet[r]) :
                 backups' = [backups EXCEPT ![stamp[r]] = c]
           /\ UNCHANGED <<kv, disk, process, locals, reply, changed, held>>
  <2>1. /\ backups[stamp[r]] \in Content /\ oldSet[r] \in Content
        /\ stamp[r] \in Seconds
    BY DEF Inv2, Inv1, TypeOK, Readable
  <2>2. PICK c \in Overwritten(backups[stamp[r]], oldSet[r]) :
          backups' = [backups EXCEPT ![stamp[r]] = c]
    BY <1>3
  <2>3. c \in Registry => c \in held
    BY <2>1, <2>2, OverwrittenType DEF Inv2, FilesAreSnapshots
  <2>4. FilesAreSnapshots'
    BY <1>3, <2>2, <2>3 DEF Inv2, Inv1, TypeOK, FilesAreSnapshots, locals
  <2>5. HeldAll'
    BY <1>3 DEF Inv2, HeldAll, locals
  <2> QED
    BY <1>1, <2>4, <2>5 DEF Inv2
<1> QED
  BY <1>2, <1>3 DEF WriteBackup

LEMMA Inv2TakeSnapshot ==
    ASSUME Inv2, NEW r \in Requests, TakeSnapshot(r)
    PROVE  Inv2'
<1>1. Inv1'
  BY Inv1TakeSnapshot DEF Inv2
<1>2. HeldAll'
  BY DEF TakeSnapshot, Inv2, Inv1, TypeOK, HeldAll
<1>3. FilesAreSnapshots'
  BY DEF TakeSnapshot, Inv2, FilesAreSnapshots, files
<1> QED
  BY <1>1, <1>2, <1>3 DEF Inv2

LEMMA Inv2OpenSave ==
    ASSUME Inv2, NEW r \in Requests, OpenSave(r)
    PROVE  Inv2'
<1>1. Inv1'
  BY Inv1OpenSave DEF Inv2
<1>2. CASE /\ Answer(r, "opensave", "ok")
           /\ UNCHANGED <<kv, files, changed, held>>
  BY <1>1, <1>2, Inv2Answer DEF files
<1>3. CASE /\ disk' = [disk EXCEPT ![SavePath] = Empty]
           /\ UNCHANGED <<kv, backups, process, locals, reply, changed, held>>
  <2>1. HeldAll'
    BY <1>3 DEF Inv2, HeldAll, locals
  <2>2. FilesAreSnapshots'
    BY <1>3, ConstantsAssumption
    DEF Inv2, Inv1, TypeOK, FilesAreSnapshots, locals
  <2> QED
    BY <1>1, <2>1, <2>2 DEF Inv2
<1> QED
  BY <1>2, <1>3 DEF OpenSave

LEMMA Inv2WriteSave ==
    ASSUME Inv2, NEW r \in Requests, WriteSave(r)
    PROVE  Inv2'
<1>1. Inv1'
  BY Inv1WriteSave DEF Inv2
<1>2. PICK c \in Content :
        /\ disk' = [disk EXCEPT ![SavePath] = c]
        /\ c \in Registry => c \in {disk[SavePath], newSet[r]}
  BY SavedContent DEF Inv2
<1>3. c \in Registry => c \in held
  BY <1>2, SavePathType DEF Inv2, HeldAll, FilesAreSnapshots
<1>4. /\ \A q \in Requests : oldSet'[q] \in {oldSet[q], Empty}
      /\ \A q \in Requests : newSet'[q] \in {newSet[q], NoProfiles}
      /\ UNCHANGED <<kv, backups, held>>
  BY DEF WriteSave, Answer, Inv2, Inv1, TypeOK
<1>5. HeldAll'
  BY <1>4 DEF Inv2, HeldAll
<1>6. FilesAreSnapshots'
  BY <1>2, <1>3, <1>4, ConstantsAssumption
  DEF Inv2, Inv1, TypeOK, FilesAreSnapshots
<1> QED
  BY <1>1, <1>5, <1>6 DEF Inv2

LEMMA Inv2Tick ==
    ASSUME Inv2, Tick
    PROVE  Inv2'
<1>1. Inv1'
  BY Inv1Tick DEF Inv2
<1> QED
  BY <1>1, Inv2Quiet DEF Tick, files, locals

LEMMA Inv2Crash ==
    ASSUME Inv2, Crash
    PROVE  Inv2'
<1>1. Inv1'
  BY Inv1Crash DEF Inv2
<1>2. HeldAll'
  BY DEF Crash, Inv2, HeldAll
<1>3. FilesAreSnapshots'
  BY ConstantsAssumption DEF Crash, Inv2, FilesAreSnapshots, files
<1> QED
  BY <1>1, <1>2, <1>3 DEF Inv2

\* A restart loads nothing the store has not held before.
LEMMA RestartHeld ==
    ASSUME Inv2, Restart
    PROVE  kv' \in held /\ held' = held
<1>1. "FileName" \in Paths
  BY DEF Paths
<1> QED
  BY <1>1 DEF Restart, Loaded, Inv2, HeldAll, FilesAreSnapshots

LEMMA Inv2Restart ==
    ASSUME Inv2, Restart
    PROVE  Inv2'
<1>1. Inv1'
  BY Inv1Restart DEF Inv2
<1>2. HeldAll'
  BY RestartHeld DEF Restart, Inv2, HeldAll, locals
<1>3. FilesAreSnapshots'
  BY RestartHeld DEF Restart, Inv2, FilesAreSnapshots, files, locals
<1> QED
  BY <1>1, <1>2, <1>3 DEF Inv2

LEMMA Inv2Next == Inv2 /\ [Next]_vars => Inv2'
<1> SUFFICES ASSUME Inv2, [Next]_vars PROVE Inv2'
  OBVIOUS
<1>1. ASSUME NEW r \in Requests, Receive(r) PROVE Inv2'
  BY <1>1, Inv2Receive
<1>2. ASSUME NEW r \in Requests, Step(r) PROVE Inv2'
  BY <1>2, Inv2Check, Inv2Change, Inv2ReadOld, Inv2OpenBackup,
     Inv2WriteBackup, Inv2TakeSnapshot, Inv2OpenSave, Inv2WriteSave
  DEF Step
<1>3. CASE UNCHANGED vars
  <2>1. Inv1'
    BY <1>3, Inv1Next DEF Inv2
  <2> QED
    BY <1>3, <2>1 DEF vars, files, locals, Inv2, HeldAll, FilesAreSnapshots
<1> QED
  BY <1>1, <1>2, <1>3, Inv2Tick, Inv2Crash, Inv2Restart DEF Next

LEMMA Inv2Always == Spec => []Inv2
BY Inv2Init, Inv2Next, PTL DEF Spec

\* No file, backup or buffer ever reads as a list of profiles the store did not
\* hold as a whole at some moment, however requests overlap and fail.
THEOREM Snapshots == Spec => []FilesAreSnapshots
<1>1. Inv2 => FilesAreSnapshots
  BY DEF Inv2
<1> QED
  BY <1>1, Inv2Always, PTL

-------------------------------------------------------------------------------
(***************************************************************************)
(* Where the content of the store comes from                               *)
(***************************************************************************)

LEMMA Inv3Init == Init => Inv3
<1> SUFFICES ASSUME Init PROVE RejectedLeavesNoTrace
  BY Inv2Init DEF Inv3
<1>1. PICK c \in InitialFiles : held = {NoProfiles, Loaded(c)}
  BY DEF Init
<1>2. ASSUME NEW i \in Ids, Loaded(c)[i] # NoProfile
      PROVE  Shipped(i, Loaded(c)[i])
  BY <1>2 DEF Loaded, NoProfiles, Shipped
<1>3. \A i \in Ids : NoProfiles[i] = NoProfile
  BY DEF NoProfiles
<1> QED
  BY <1>1, <1>2, <1>3 DEF RejectedLeavesNoTrace

\* A request that is answered otherwise than with a refusal, or whose client is
\* cut off, is still one that was allowed to write.
LEMMA AllowedStays ==
    ASSUME changed \subseteq changed',
           \A q \in changed :
              form'[q] = form[q] /\ (reply'[q] \in Rejections =>
                                       reply[q] \in Rejections)
    PROVE  \A i \in Ids, x \in Vals : Allowed(i, x) => Allowed(i, x)'
BY DEF Allowed

\* Without a new registry in the history there is nothing new to justify.
LEMMA Inv3NothingHeld ==
    ASSUME Inv3, held' = held,
           \A i \in Ids, x \in Vals : Allowed(i, x) => Allowed(i, x)'
    PROVE  RejectedLeavesNoTrace'
<1>1. \A m \in held, i \in Ids : m[i] # NoProfile => m[i] \in Vals
  BY DEF Inv3, Inv2, Inv1, TypeOK, Registry
<1> QED
  BY <1>1 DEF Inv3, RejectedLeavesNoTrace, Shipped

\* Only Change and Restart add to the history; no step takes back what allowed
\* an earlier write.
LEMMA HistoryStep ==
    ASSUME Inv3, [Next]_vars
    PROVE  /\ changed \subseteq changed'
           /\ \A q \in changed :
                form'[q] = form[q] /\ (reply'[q] \in Rejections =>
                                         reply[q] \in Rejections)
           /\ \/ held' = held
              \/ \E r \in Requests : Change(r)
<1> USE DEF Inv3, Inv2, Inv1, TypeOK
<1>1. ASSUME NEW r \in Requests, Receive(r)
      PROVE  /\ UNCHANGED <<changed, held>>
             /\ \A q \in changed : form'[q] = form[q] /\ reply'[q] = reply[q]
  BY <1>1 DEF Receive, HandlerState
<1>2. ASSUME NEW r \in Requests, NEW from, NEW what,
             Answer(r, from, what), what \in Rejections => from = "check"
      PROVE  /\ form' = form
             /\ \A q \in changed : reply'[q] \in Rejections =>
                                     reply[q] \in Rejections
  BY <1>2 DEF Answer, Goto, HandlerState
<1>3. ASSUME NEW r \in Requests, Check(r)
      PROVE  /\ UNCHANGED <<changed, held, form>>
             /\ \A q \in changed : reply'[q] \in Rejections =>
                                     reply[q] \in Rejections
  BY <1>2, <1>3 DEF Check, Reject, Accept, locals
<1>4. ASSUME NEW r \in Requests, Change(r)
      PROVE  changed \subseteq changed' /\ UNCHANGED <<form, reply>>
  BY <1>4 DEF Change, locals
<1>5. ASSUME NEW r \in Requests, NEW from, FlushFailed(r, from),
             from \notin {"idle", "check", "change"}
      PROVE  /\ UNCHANGED <<changed, held, form>>
             /\ \A q \in changed : reply'[q] \in Rejections =>
                                     reply[q] \in Rejections
  BY <1>2, <1>5 DEF FlushFailed, Rejections
<1>6. ASSUME NEW r \in Requests,
             \/ ReadOld(r) \/ OpenBackup(r) \/ WriteBackup(r)
             \/ TakeSnapshot(r) \/ OpenSave(r) \/ WriteSave(r)
      PROVE  /\ UNCHANGED <<changed, held, form>>
             /\ \A q \in changed : reply'[q] \in Rejections =>
                                     reply[q] \in Rejections
  <2>1. CASE ReadOld(r)
    BY <1>5, <2>1 DEF ReadOld
  <2>2. CASE OpenBackup(r)
    BY <1>5, <2>2 DEF OpenBackup
  <2>3. CASE WriteBackup(r)
    BY <1>5, <2>3 DEF WriteBackup, locals
  <2>4. CASE TakeSnapshot(r)
    BY <2>4 DEF TakeSnapshot
  <2>5. CASE OpenSave(r)
    BY <1>2, <2>5 DEF OpenSave, locals, Rejections
  <2>6. CASE WriteSave(r)
    BY <1>2, <2>6 DEF WriteSave, Rejections
  <2> QED
    BY <1>6, <2>1, <2>2, <2>3, <2>4, <2>5, <2>6
<1>7. CASE Tick
  BY <1>7 DEF Tick, locals
<1>8. CASE Crash
  BY <1>8 DEF Crash, Rejections
<1>9. CASE Restart
  BY <1>9, RestartHeld DEF Restart, locals
<1>10. CASE UNCHANGED vars
  BY <1>10 DEF vars, locals
<1> QED
  BY <1>1, <1>3, <1>4, <1>6, <1>7, <1>8, <1>9, <1>10 DEF Next, Step

\* A change puts a profile into the store only for a request that passed the
\* screening and the check.
LEMMA Inv3Change ==
    ASSUME Inv3, NEW r \in Requests, Change(r),
           \A i \in Ids, x \in Vals : Allowed(i, x) => Allowed(i, x)'
    PROVE  RejectedLeavesNoTrace'
<1>1. \A m \in held, i \in Ids : m[i] # NoProfile => m[i] \in Vals
  BY DEF Inv3, Inv2, Inv1, TypeOK, Registry
<1>2. ASSUME NEW m \in held, NEW i \in Ids, m[i] # NoProfile
      PROVE  Shipped(i, m[i]) \/ Allowed(i, m[i])'
  BY <1>1, <1>2 DEF Inv3, RejectedLeavesNoTrace
<1>3. ASSUME NEW i \in Ids, NEW x \in Vals, kv'[i] = x
      PROVE  Shipped(i, x) \/ Allowed(i, x)'
  <2>1. CASE kv'[i] = kv[i]
    <3>1. kv \in held
      BY DEF Inv3, Inv2, HeldAll
    <3> QED
      BY <1>2, <1>3, <2>1, <3>1, ConstantsAssumption
  <2>2. CASE form[r].op # "delete" /\ i = form[r].key /\ kv'[i] = form[r].val
    <3>1. /\ r \in changed' /\ form'[r] = form[r] /\ reply'[r] = reply[r]
          /\ pc[r] = "change"
      BY DEF Change, Goto, locals
    <3>2. /\ form[r] \in Forms /\ form[r].auth /\ reply[r] = "none"
          /\ form[r].id = form[r].key
      BY <2>2, <3>1 DEF Inv3, Inv2, Inv1, HandlerState
    <3>3. form[r] # NoForm
      BY <3>2, ConstantsAssumption
    <3> QED
      BY <1>3, <2>2, <3>1, <3>2, <3>3 DEF Allowed, Rejections
  <2>3. x # NoProfile
    BY ConstantsAssumption
  <2> QED
    BY <1>3, <2>1, <2>2, <2>3, ChangedStore DEF Inv3, Inv2
<1>4. held' = held \cup {kv'} /\ kv' \in Registry
  BY ChangedStore DEF Change, Inv3, Inv2
<1>5. ASSUME NEW m \in held', NEW i \in Ids, m[i] # NoProfile
      PROVE  Shipped(i, m[i]) \/ Allowed(i, m[i])'
  <2>1. CASE m \in held
    BY <1>2, <1>5, <2>1
  <2>2. CASE m = kv'
    <3>1. m[i] \in Vals /\ kv'[i] = m[i]
      BY <1>4, <1>5, <2>2 DEF Registry
    <3> QED
      BY <1>3, <3>1
  <2> QED
    BY <1>4, <2>1, <2>2
<1> QED
  BY <1>5 DEF RejectedLeavesNoTrace, Shipped

LEMMA Inv3Next == Inv3 /\ [Next]_vars => Inv3'
<1> SUFFICES ASSUME Inv3, [Next]_vars PROVE Inv3'
  OBVIOUS
<1>1. Inv2'
  BY Inv2Next DEF Inv3
<1>2. \A i \in Ids, x \in Vals : Allowed(i, x) => Allowed(i, x)'
  BY HistoryStep, AllowedStays
<1>3. RejectedLeavesNoTrace'
  BY <1>2, HistoryStep, Inv3NothingHeld, Inv3Change
<1> QED
  BY <1>1, <1>3 DEF Inv3

\* Whatever profile the store ever held came from the first profiles file or
\* from a request that carried the secret, named one ID and was not refused:
\* a refused request leaves no trace, not even after a crash and a restart.
THEOREM NoTrace == Spec => []RejectedLeavesNoTrace
<1>1. Inv3 => RejectedLeavesNoTrace
  BY DEF Inv3
<1> QED
  BY <1>1, Inv3Init, Inv3Next, PTL DEF Spec

-------------------------------------------------------------------------------
(***************************************************************************)
(* Progress.                                                               *)
(***************************************************************************)

\* The steps that may follow a step of a handler.
After(at) ==
    CASE at = "idle" -> {"check", "done"}
      [] at = "check" -> {"change", "done"}
      [] at = "change" -> {"readold"}
      [] at = "readold" -> {"openbackup", "done"}
      [] at = "openbackup" -> {"writebackup", "done"}
      [] at = "writebackup" -> {"snapshot", "done"}
      [] at = "snapshot" -> {"opensave"}
      [] at = "opensave" -> {"writesave", "done"}
      [] at = "writesave" -> {"done"}
      [] OTHER -> {}

LEMMA StepGoesOn ==
    ASSUME TypeOK, NEW r \in Requests, Step(r)
    PROVE  /\ pc'[r] \in After(pc[r])
           /\ \A q \in Requests \ {r} : pc'[q] = pc[q]
BY DEF Step, Check, Reject, Accept, Change, ReadOld, FlushFailed, OpenBackup,
       WriteBackup, TakeSnapshot, OpenSave, WriteSave, Answer, Goto, TypeOK, After

\* Nobody takes a handler back to a step it has made.
LEMMA NeverBack ==
    ASSUME TypeOK, [Next]_vars, NEW r \in Requests
    PROVE  pc'[r] = pc[r] \/ pc'[r] \in After(pc[r]) \/ pc'[r] = "done"
<1>1. ASSUME NEW q \in Requests, Receive(q)
      PROVE  pc'[r] = pc[r] \/ pc'[r] \in After(pc[r])
  BY <1>1 DEF Receive, TypeOK, After
<1>2. ASSUME NEW q \in Requests, Step(q)
      PROVE  pc'[r] = pc[r] \/ pc'[r] \in After(pc[r])
  BY <1>2, StepGoesOn
<1>3. CASE Crash
  BY <1>3 DEF Crash
<1> QED
  BY <1>1, <1>2, <1>3 DEF Next, Tick, Restart, vars

\* If every call returns and no handler is ever stuck, every request that is let
\* in is answered: it takes eight steps at most, whatever other requests do.
THEOREM EveryRequestAnswered == FairSpec /\ []NeverStuck => Served
<1> SUFFICES ASSUME NEW r \in Requests
             PROVE  FairSpec /\ []NeverStuck
                      => (pc[r] = "check" ~> pc[r] = "done")
  BY DEF Served
<1> DEFINE S8 == pc[r] = "writesave"
           S7 == pc[r] = "opensave" \/ S8
           S6 == pc[r] = "snapshot" \/ S7
           S5 == pc[r] = "writebackup" \/ S6
           S4 == pc[r] = "openbackup" \/ S5
           S3 == pc[r] = "readold" \/ S4
           S2 == pc[r] = "change" \/ S3
           S1 == pc[r] = "check" \/ S2
           Over == pc[r] = "done"
<1>1. FairSpec => Fair(r)
  BY DEF FairSpec, Fairness
<1>2. NeverStuck => (S1 => ENABLED <<Step(r)>>_vars)
  BY DEF NeverStuck, InFlight
<1>3. TypeOK /\ [Next]_vars =>
        /\ S1 => S1' \/ Over'
        /\ S2 => S2' \/ Over'
        /\ S3 => S3' \/ Over'
        /\ S4 => S4' \/ Over'
        /\ S5 => S5' \/ Over'
        /\ S6 => S6' \/ Over'
        /\ S7 => S7' \/ Over'
        /\ S8 => S8' \/ Over'
  BY NeverBack DEF After
<1>4. TypeOK /\ <<Step(r)>>_vars =>
        /\ S1 => S2' \/ Over'
        /\ S2 => S3' \/ Over'
        /\ S3 => S4' \/ Over'
        /\ S4 => S5' \/ Over'
        /\ S5 => S6' \/ Over'
        /\ S6 => S7' \/ Over'
        /\ S7 => S8' \/ Over'
        /\ S8 => Over'
  BY StepGoesOn DEF After
<1>5. /\ pc[r] = "check" => S1
      /\ S2 \/ S3 \/ S4 \/ S5 \/ S6 \/ S7 \/ S8 => S1
  OBVIOUS
<1> QED
  BY <1>1, <1>2, <1>3, <1>4, <1>5, Typing, PTL DEF FairSpec, Fair, Spec
===============================================================================
