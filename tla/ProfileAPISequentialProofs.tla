---------------------- MODULE ProfileAPISequentialProofs ----------------------
(***************************************************************************)
(* Proofs about the profile management API for clients that wait for each  *)
(* answer: no list is lost but by reusing the name of a backup, what is     *)
(* answered ok is on disk, and the API implements the atomic registry.     *)
(***************************************************************************)
EXTENDS ProfileAPIProofs

\* At most one request is in flight, none while the process is down.
OneAtATime ==
    /\ \A r, q \in Requests : r \in InFlight /\ q \in InFlight => r = q
    /\ ~up => InFlight = {}

\* What the request in flight has read is still so when it acts on it: no other
\* request has come between.
StillTrue ==
    \A r \in Requests :
        /\ pc[r] = "change" =>
              (form[r].op = "add" <=> kv[form[r].key] = NoProfile)
        /\ pc[r] \in {"opensave", "writesave"} => newSet[r] = kv
        /\ pc[r] = "writebackup" => backups[stamp[r]] = Empty
        /\ pc[r] = "writesave" => disk[SavePath] = Empty

\* From the end of the backup until the save is over the backup holds what the
\* flush has read, and until the file is truncated the file holds it as well.
BackedUpBeforeTruncate ==
    \A r \in Requests :
        /\ pc[r] \in {"snapshot", "opensave", "writesave"} =>
              backups[stamp[r]] = oldSet[r]
        /\ pc[r] \in {"openbackup", "writebackup", "snapshot", "opensave"} =>
              disk["FileName"] = oldSet[r]

SInv == Inv1 /\ OneAtATime /\ StillTrue /\ BackedUpBeforeTruncate

-------------------------------------------------------------------------------

LEMMA SInvInit == Init => SInv
<1> SUFFICES ASSUME Init PROVE OneAtATime /\ StillTrue /\ BackedUpBeforeTruncate
  BY Inv1Init DEF SInv
<1> QED
  BY DEF Init, OneAtATime, StillTrue, BackedUpBeforeTruncate, InFlight

\* While r is in flight no other request is at any step.
LEMMA OthersIdle ==
    ASSUME OneAtATime, NEW r \in Requests, pc[r] \notin {"idle", "done"},
           NEW q \in Requests, q # r
    PROVE  pc[q] \in {"idle", "done"}
BY DEF OneAtATime, InFlight

LEMMA SInvReceive ==
    ASSUME Sequential, SInv, NEW r \in Requests, Receive(r)
    PROVE  SInv'
<1>1. Inv1'
  BY Inv1Receive DEF SInv
<1>2. \A q \in Requests :
        /\ pc[q] \in {"idle", "done"}
        /\ pc'[q] \in {"idle", "done", "check"}
        /\ q # r => pc'[q] = pc[q]
  BY DEF SInv, Inv1, TypeOK, Receive, InFlight
<1>3. OneAtATime'
  BY <1>2 DEF OneAtATime, InFlight, Receive, process
<1>4. StillTrue' /\ BackedUpBeforeTruncate'
  BY <1>2 DEF StillTrue, BackedUpBeforeTruncate
<1> QED
  BY <1>1, <1>3, <1>4 DEF SInv

\* The request in flight takes a step: only its own facts are at stake.
LEMMA SInvStep ==
    ASSUME SInv, Inv1', NEW r \in Requests, NEW from, NEW to,
           from \notin {"idle", "done"},
           Goto(r, from, to), UNCHANGED up,
           /\ to = "change" =>
                 (form'[r].op = "add" <=> kv'[form'[r].key] = NoProfile)
           /\ to \in {"opensave", "writesave"} => newSet'[r] = kv'
           /\ to = "writebackup" => backups'[stamp'[r]] = Empty
           /\ to = "writesave" => disk'[SavePath] = Empty
           /\ to \in {"snapshot", "opensave", "writesave"} =>
                 backups'[stamp'[r]] = oldSet'[r]
           /\ to \in {"openbackup", "writebackup", "snapshot", "opensave"} =>
                 disk'["FileName"] = oldSet'[r]
    PROVE  SInv'
<1>1. \A q \in Requests : q # r => pc[q] \in {"idle", "done"} /\ pc'[q] = pc[q]
  BY OthersIdle DEF SInv, Inv1, TypeOK, Goto
<1>2. pc'[r] = to
  BY DEF SInv, Inv1, TypeOK, Goto
<1>3. OneAtATime'
  BY <1>1 DEF OneAtATime, InFlight, Goto
<1>4. StillTrue' /\ BackedUpBeforeTruncate'
  BY <1>1, <1>2 DEF StillTrue, BackedUpBeforeTruncate
<1> QED
  BY <1>3, <1>4 DEF SInv

LEMMA SInvAnswer ==
    ASSUME SInv, Inv1', NEW r \in Requests, NEW from, NEW what,
           from \notin {"idle", "done"}, Answer(r, from, what)
    PROVE  SInv'
BY SInvStep DEF Answer, process

LEMMA SInvHandler ==
    ASSUME SInv, NEW r \in Requests, Step(r)
    PROVE  SInv'
<1> USE DEF SInv
<1>1. CASE Check(r)
  <2>1. Inv1'
    BY <1>1, Inv1Check
  <2>2. CASE Reject(r)
    BY <2>1, <2>2, SInvAnswer DEF Reject
  <2>3. CASE Accept(r)
    BY <2>1, <2>3, SInvStep DEF Accept, Present, process, locals
  <2> QED
    BY <1>1, <2>2, <2>3 DEF Check
<1>2. CASE Change(r)
  BY <1>2, Inv1Change, SInvStep DEF Change, process
<1>3. CASE ReadOld(r)
  <2>1. Inv1'
    BY <1>3, Inv1ReadOld
  <2>2. CASE FlushFailed(r, "readold")
    BY <2>1, <2>2, SInvAnswer DEF FlushFailed
  <2>3. CASE /\ Goto(r, "readold", "openbackup")
             /\ oldSet' = [oldSet EXCEPT ![r] = disk["FileName"]]
             /\ UNCHANGED <<files, process>>
    BY <2>1, <2>3, SInvStep DEF files, process, Inv1, TypeOK
  <2> QED
    BY <1>3, <2>2, <2>3 DEF ReadOld
<1>4. CASE OpenBackup(r)
  <2>1. Inv1'
    BY <1>4, Inv1OpenBackup
  <2>2. CASE FlushFailed(r, "openbackup")
    BY <2>1, <2>2, SInvAnswer DEF FlushFailed
  <2>3. CASE /\ Goto(r, "openbackup", "writebackup")
             /\ stamp' = [stamp EXCEPT ![r] = now]
             /\ backups' = [backups EXCEPT ![now] = Empty]
             /\ UNCHANGED <<disk, process, oldSet>>
    <3>1. backups'[stamp'[r]] = Empty
      BY <2>3 DEF Inv1, TypeOK
    <3>2. disk'["FileName"] = oldSet'[r]
      BY <2>3 DEF Goto, BackedUpBeforeTruncate
    <3> QED
      BY <2>1, <2>3, <3>1, <3>2, SInvStep DEF process
  <2> QED
    BY <1>4, <2>2, <2>3 DEF OpenBackup
<1>5. CASE WriteBackup(r)
  <2>1. Inv1'
    BY <1>5, Inv1WriteBackup
  <2>2. CASE FlushFailed(r, "writebackup")
    BY <2>1, <2>2, SInvAnswer DEF FlushFailed
  <2>3. CASE /\ Goto(r, "writebackup", "snapshot")
             /\ \E c \in Overwritten(backups[stamp[r]], oldSet[r]) :
                   backups' = [backups EXCEPT ![stamp[r]] = c]
             /\ UNCHANGED <<disk, process, locals>>
    <3>1. backups[stamp[r]] = Empty /\ disk["FileName"] = oldSet[r]
      BY <2>3 DEF Goto, StillTrue, BackedUpBeforeTruncate
    <3>2. Overwritten(backups[stamp[r]], oldSet[r]) = {oldSet[r]}
      BY <3>1 DEF Overwritten
    <3>3. /\ backups'[stamp'[r]] = oldSet'[r]
          /\ disk'["FileName"] = oldSet'[r]
      BY <2>3, <3>1, <3>2 DEF Inv1, TypeOK, locals
    <3> QED
      BY <2>1, <2>3, <3>3, SInvStep DEF process
  <2> QED
    BY <1>5, <2>2, <2>3 DEF WriteBackup
<1>6. CASE TakeSnapshot(r)
  <2>1. /\ newSet'[r] = kv'
        /\ backups'[stamp'[r]] = oldSet'[r]
        /\ disk'["FileName"] = oldSet'[r]
    BY <1>6 DEF TakeSnapshot, Goto, BackedUpBeforeTruncate, files, Inv1, TypeOK
  <2> QED
    BY <1>6, <2>1, Inv1TakeSnapshot, SInvStep DEF TakeSnapshot, process
<1>7. CASE OpenSave(r)
  <2>1. Inv1'
    BY <1>7, Inv1OpenSave
  <2>2. CASE Answer(r, "opensave", "ok")
    BY <2>1, <2>2, SInvAnswer
  <2>3. CASE /\ Goto(r, "opensave", "writesave")
             /\ disk' = [disk EXCEPT ![SavePath] = Empty]
             /\ UNCHANGED <<kv, backups, process, locals>>
    <3>1. /\ newSet'[r] = kv'
          /\ backups'[stamp'[r]] = oldSet'[r]
          /\ disk'[SavePath] = Empty
      BY <2>3, SavePathType
      DEF Goto, StillTrue, BackedUpBeforeTruncate, Inv1, TypeOK, locals
    <3> QED
      BY <2>1, <2>3, <3>1, SInvStep DEF process
  <2> QED
    BY <1>7, <2>2, <2>3 DEF OpenSave
<1>8. CASE WriteSave(r)
  BY <1>8, Inv1WriteSave, SInvAnswer DEF WriteSave
<1> QED
  BY <1>1, <1>2, <1>3, <1>4, <1>5, <1>6, <1>7, <1>8 DEF Step

LEMMA SInvNext == Sequential /\ SInv /\ [Next]_vars => SInv'
<1> SUFFICES ASSUME Sequential, SInv, [Next]_vars PROVE SInv'
  OBVIOUS
<1>1. ASSUME NEW r \in Requests, Receive(r) PROVE SInv'
  BY <1>1, SInvReceive
<1>2. ASSUME NEW r \in Requests, Step(r) PROVE SInv'
  BY <1>2, SInvHandler
<1>3. CASE Tick
  BY <1>3, Inv1Tick
  DEF Tick, SInv, OneAtATime, StillTrue, BackedUpBeforeTruncate, InFlight,
      files, locals
<1>4. CASE Crash
  <2>1. \A r \in Requests : pc'[r] \in {"idle", "done"}
    BY <1>4 DEF Crash, InFlight
  <2> QED
    BY <1>4, <2>1, Inv1Crash
    DEF SInv, OneAtATime, StillTrue, BackedUpBeforeTruncate, InFlight
<1>5. CASE Restart
  <2>1. \A r \in Requests : pc'[r] \in {"idle", "done"}
    BY <1>5 DEF Restart, SInv, OneAtATime, InFlight
  <2> QED
    BY <1>5, <2>1, Inv1Restart
    DEF SInv, OneAtATime, StillTrue, BackedUpBeforeTruncate, InFlight
<1>6. CASE UNCHANGED vars
  BY <1>6, Inv1Next
  DEF vars, files, process, locals, SInv, OneAtATime, StillTrue,
      BackedUpBeforeTruncate, InFlight
<1> QED
  BY <1>1, <1>2, <1>3, <1>4, <1>5, <1>6 DEF Next

LEMMA SInvAlways == ASSUME Sequential PROVE Spec => []SInv
<1>1. SInv /\ [Next]_vars => SInv'
  BY SInvNext
<1> QED
  BY <1>1, SInvInit, PTL DEF Spec

-------------------------------------------------------------------------------
(***************************************************************************)
(* No list is lost                                                         *)
(***************************************************************************)

\* What a step of the flush does to a list that is in the file or in a backup.
LEMMA KeptByStep ==
    ASSUME SInv, NEW r \in Requests, Step(r), NEW m \in Registry, Kept(m)
    PROVE  Kept(m)' \/ (backups[now] = m /\ OpenBackup(r))
<1> USE DEF SInv
<1>1. CASE UNCHANGED files
  BY <1>1 DEF files, Kept
<1>2. m \notin {Absent, Empty, Torn}
  BY ConstantsAssumption
<1>3. ASSUME UNCHANGED disk, NEW t \in Seconds, NEW c,
             backups' = [backups EXCEPT ![t] = c], backups[t] # m
      PROVE  Kept(m)'
  BY <1>3 DEF Kept, Inv1, TypeOK
<1>4. ASSUME UNCHANGED backups, NEW c, disk' = [disk EXCEPT ![SavePath] = c],
             \/ disk["FileName"] # m
             \/ \E t \in Seconds : backups[t] = m
      PROVE  Kept(m)'
  <2>1. CASE \E t \in Seconds : backups[t] = m
    BY <1>4, <2>1 DEF Kept
  <2>2. CASE disk["FileName"] # m
    BY <1>4, <2>2 DEF Kept
  <2> QED
    BY <1>4, <2>1, <2>2
<1>5. CASE OpenBackup(r)
  <2>1. CASE backups[now] = m
    BY <1>5, <2>1
  <2>2. CASE backups[now] # m
    BY <1>1, <1>3, <1>5, <2>2 DEF OpenBackup, Inv1, TypeOK
  <2> QED
    BY <2>1, <2>2
<1>6. CASE WriteBackup(r)
  <2>1. backups[stamp[r]] = Empty /\ stamp[r] \in Seconds
    BY <1>6
    DEF WriteBackup, FlushFailed, Answer, Goto, StillTrue, Inv1, TypeOK
  <2>2. backups[stamp[r]] # m /\ UNCHANGED disk
    BY <1>2, <1>6, <2>1 DEF WriteBackup
  <2>3. \E c : backups' = [backups EXCEPT ![stamp[r]] = c]
    BY <1>6 DEF WriteBackup
  <2> QED
    BY <1>3, <2>1, <2>2, <2>3
<1>7. CASE OpenSave(r)
  <2>1. CASE UNCHANGED files
    BY <1>1, <2>1
  <2>2. CASE disk' = [disk EXCEPT ![SavePath] = Empty] /\ UNCHANGED backups
    <3>1. /\ stamp[r] \in Seconds
          /\ backups[stamp[r]] = disk["FileName"]
      BY <1>7
      DEF OpenSave, Answer, Goto, BackedUpBeforeTruncate, Inv1, TypeOK
    <3> QED
      BY <1>4, <2>2, <3>1
  <2> QED
    BY <1>7, <2>1, <2>2 DEF OpenSave
<1>8. CASE WriteSave(r)
  <2>1. disk[SavePath] = Empty
    BY <1>8 DEF WriteSave, Answer, Goto, StillTrue
  <2>2. /\ UNCHANGED backups
        /\ \E c : disk' = [disk EXCEPT ![SavePath] = c]
    BY <1>8 DEF WriteSave
  <2>3. CASE SavePath = "FileName"
    BY <1>2, <1>4, <2>1, <2>2, <2>3
  <2>4. CASE SavePath # "FileName"
    BY <2>2, <2>4 DEF Kept, Inv1, TypeOK
  <2> QED
    BY <2>3, <2>4
<1>9. CASE Check(r) \/ Change(r) \/ ReadOld(r) \/ TakeSnapshot(r)
  BY <1>1, <1>9
  DEF Check, Reject, Accept, Change, ReadOld, FlushFailed, TakeSnapshot, files
<1> QED
  BY <1>5, <1>6, <1>7, <1>8, <1>9 DEF Step

\* One request at a time, whatever fails and whenever the process is killed,
\* the last copy of a list is destroyed only by a flush that reuses the name of
\* the backup it is in.
THEOREM ListsAreKept ==
    ASSUME Sequential
    PROVE  Spec => NothingLost
<1> DEFINE Safe == \A m \in Registry :
                     Kept(m) =>
                       \/ Kept(m)'
                       \/ backups[now] = m /\ \E r \in Requests : OpenBackup(r)
<1>1. ASSUME SInv, Next PROVE Safe
  <2> SUFFICES ASSUME NEW m \in Registry, Kept(m)
               PROVE  \/ Kept(m)'
                      \/ backups[now] = m /\ \E r \in Requests : OpenBackup(r)
    OBVIOUS
  <2>1. ASSUME NEW r \in Requests, Step(r)
        PROVE  Kept(m)' \/ (backups[now] = m /\ OpenBackup(r))
    BY <1>1, <2>1, KeptByStep
  <2>2. CASE UNCHANGED files
    BY <2>2 DEF files, Kept
  <2>3. (\E r \in Requests : Step(r)) \/ UNCHANGED files
    BY <1>1 DEF Next, Receive, Tick, Crash, Restart
  <2> QED
    BY <2>1, <2>2, <2>3
<1>2. SInv /\ [Next]_vars => [Safe]_vars
  BY <1>1
<1> QED
  BY <1>2, SInvAlways, PTL DEF Spec, NothingLost

-------------------------------------------------------------------------------
(***************************************************************************)
(* What is answered ok is on disk                                          *)
(***************************************************************************)

\* One request at a time, saving to the file that is loaded and without failing
\* writes of it, every answer ok means that a restart would find exactly the
\* store's profiles.
THEOREM AckedIsDurable ==
    ASSUME Sequential, SamePath, "save" \notin Faults
    PROVE  Spec => AckedIsOnDisk
<1> DEFINE Acked == \A r \in Requests :
                      reply[r] # "ok" /\ reply'[r] = "ok"
                      => disk'["FileName"] = kv'
<1>1. ASSUME SInv, Next PROVE Acked
  <2> SUFFICES ASSUME NEW r \in Requests, reply[r] # "ok", reply'[r] = "ok"
               PROVE  disk'["FileName"] = kv'
    OBVIOUS
  <2>1. PICK q \in Requests : Receive(q) \/ Step(q)
    BY <1>1
    DEF Next, Tick, Crash, Restart, SInv, Inv1, TypeOK, locals
  <2>2. ASSUME NEW what, what # "ok", reply' = [reply EXCEPT ![q] = what]
        PROVE  FALSE
    BY <1>1, <2>2 DEF SInv, Inv1, TypeOK
  <2>3. ~Receive(q) /\ ~Check(q) /\ ~Change(q)
    BY <2>2
    DEF Receive, Screened, Check, Reject, Accept, Answer, Change, locals
  <2>4. ~ReadOld(q) /\ ~OpenBackup(q) /\ ~WriteBackup(q) /\ ~TakeSnapshot(q)
    BY <2>2
    DEF ReadOld, OpenBackup, WriteBackup, TakeSnapshot, FlushFailed, Answer,
        locals
  <2>5. ~OpenSave(q)
    BY DEF OpenSave, locals
  <2>6. WriteSave(q)
    BY <2>1, <2>3, <2>4, <2>5 DEF Step
  <2>7. disk[SavePath] = Empty /\ newSet[q] = kv
    BY <1>1, <2>6 DEF WriteSave, Answer, Goto, SInv, StillTrue
  <2>8. disk' = [disk EXCEPT ![SavePath] = kv]
    <3>1. kv # Empty
      BY <1>1, ConstantsAssumption DEF SInv, Inv1, TypeOK
    <3> QED
      BY <2>6, <2>7, <3>1 DEF WriteSave, Overwritten
  <2> QED
    BY <1>1, <2>6, <2>8
    DEF WriteSave, SavePath, SInv, Inv1, TypeOK, Paths
<1>2. SInv /\ [Next]_vars => [Acked]_vars
  BY <1>1
<1> QED
  BY <1>2, SInvAlways, PTL DEF Spec, AckedIsOnDisk

-------------------------------------------------------------------------------
(***************************************************************************)
(* The atomic registry                                                     *)
(***************************************************************************)

LEMMA AbstractInit == Init => Abstract!Init
<1> SUFFICES ASSUME Init PROVE Abstract!Init
  OBVIOUS
<1>1. PICK c \in InitialFiles : disk["FileName"] = c /\ kv = Loaded(c)
  BY DEF Init, Paths
<1> QED
  BY <1>1, ConstantsAssumption
  DEF Init, Abstract!Init, Done, Abstract!Recovered, Abstract!Registries,
      Abstract!Nothing, SavedCopy, Loaded, NoProfiles, Registry

\* A request has made its change once it is in changed, and its form stays.
LEMMA DoneStays ==
    ASSUME UNCHANGED changed, \A q \in changed : form'[q] = form[q]
    PROVE  Done' = Done
BY DEF Done

\* The change of the request in flight is an add of a free ID, or an update or
\* a removal of one in use.
LEMMA AbstractChange ==
    ASSUME SInv, NEW r \in Requests, Change(r)
    PROVE  Abstract!Next
<1>1. /\ form[r] \in Forms /\ up
      /\ form[r].op = "add" <=> kv[form[r].key] = NoProfile
  BY ChangedStore DEF Change, Goto, SInv, StillTrue
<1>2. /\ form[r].key \in Ids /\ form[r].val \in Vals
      /\ form[r].op \in {"add", "update", "delete"}
  BY <1>1, FormFields DEF FormType
<1>3. UNCHANGED <<SavedCopy, up>>
  BY DEF Change, files, process, SavedCopy
<1>7. Done[r] = "none" /\ Done' = [Done EXCEPT ![r] = form[r].op]
  <2>1. r \notin changed /\ changed' = changed \cup {r} /\ form' = form
    BY DEF Change, Goto, locals, SInv, Inv1, HandlerState
  <2> QED
    BY <2>1 DEF Done
<1>4. CASE form[r].op = "add"
  <2>1. Abstract!Add(r, form[r].key, form[r].val)
    BY <1>1, <1>3, <1>7, <1>4 DEF Change, Abstract!Add, Abstract!Put
  <2> QED
    BY <1>2, <2>1 DEF Abstract!Next
<1>5. CASE form[r].op = "update"
  <2>1. Abstract!Update(r, form[r].key, form[r].val)
    BY <1>1, <1>3, <1>7, <1>5 DEF Change, Abstract!Update, Abstract!Put
  <2> QED
    BY <1>2, <2>1 DEF Abstract!Next
<1>6. CASE form[r].op = "delete"
  <2>1. Abstract!Remove(r, form[r].key)
    BY <1>1, <1>3, <1>7, <1>6 DEF Change, Abstract!Remove, Abstract!Put
  <2> QED
    BY <1>2, <2>1 DEF Abstract!Next
<1> QED
  BY <1>2, <1>4, <1>5, <1>6

\* Truncating the file is damage to the saved copy, or concerns another file.
LEMMA AbstractOpenSave ==
    ASSUME SInv, NEW r \in Requests, OpenSave(r)
    PROVE  [Abstract!Next]_(Abstract!vars)
<1>0. Done' = Done
  BY DoneStays DEF OpenSave, Answer, locals
<1>1. CASE UNCHANGED <<kv, disk, up>>
  BY <1>0, <1>1 DEF Abstract!vars, SavedCopy
<1>2. CASE disk' = [disk EXCEPT ![SavePath] = Empty] /\ UNCHANGED <<kv, up>>
  <2>1. SavedCopy' \in {SavedCopy, Torn}
    BY <1>2, ConstantsAssumption DEF SavedCopy, SInv, Inv1, TypeOK, Paths
  <2>2. up
    BY DEF OpenSave, Answer, Goto
  <2> QED
    BY <1>0, <1>2, <2>1, <2>2 DEF Abstract!vars, Abstract!Next, Abstract!Damage
<1> QED
  BY <1>1, <1>2 DEF OpenSave, Answer, files, process

\* Writing the file saves the registry of that moment, or fails and leaves the
\* copy damaged, or concerns another file.
LEMMA AbstractWriteSave ==
    ASSUME SInv, NEW r \in Requests, WriteSave(r)
    PROVE  [Abstract!Next]_(Abstract!vars)
<1>1. up /\ UNCHANGED <<kv, up>> /\ Done' = Done
  BY DoneStays DEF WriteSave, Answer, Goto, process
<1>2. disk[SavePath] = Empty /\ newSet[r] = kv
  BY DEF WriteSave, Answer, Goto, SInv, StillTrue
<1>3. PICK c \in {Empty, Torn, kv} : disk' = [disk EXCEPT ![SavePath] = c]
  BY <1>2 DEF WriteSave, Overwritten
<1>4. SavedCopy' \in {SavedCopy, Torn, kv}
  BY <1>3, ConstantsAssumption DEF SavedCopy, SInv, Inv1, TypeOK, Paths
<1> QED
  BY <1>1, <1>4
  DEF Abstract!vars, Abstract!Next, Abstract!Damage, Abstract!Save

LEMMA AbstractStep ==
    ASSUME SInv, [Next]_vars
    PROVE  [Abstract!Next]_(Abstract!vars)
<1>1. CASE UNCHANGED <<kv, disk, up>> /\ Done' = Done
  BY <1>1 DEF Abstract!vars, SavedCopy
<1>2. ASSUME NEW r \in Requests, Receive(r) \/ Step(r)
      PROVE  [Abstract!Next]_(Abstract!vars)
  <2>1. CASE UNCHANGED <<kv, disk, up, changed>>
             /\ \A q \in changed : form'[q] = form[q]
    BY <1>1, <2>1, DoneStays
  <2>2. CASE Receive(r)
    <3>1. r \notin changed
      BY <2>2 DEF Receive, SInv, Inv1, HandlerState
    <3> QED
      BY <2>1, <2>2, <3>1 DEF Receive, files, process, SInv, Inv1, TypeOK
  <2>3. \/ Receive(r) \/ UNCHANGED <<kv, disk, up, changed, form>>
        \/ Change(r) \/ OpenSave(r) \/ WriteSave(r)
    BY <1>2
    DEF Step, Check, Reject, Accept, ReadOld, OpenBackup, WriteBackup,
        TakeSnapshot, FlushFailed, Answer, files, process, locals
  <2> QED
    BY <2>1, <2>2, <2>3, AbstractChange, AbstractOpenSave, AbstractWriteSave
<1>3. CASE Tick
  BY <1>1, <1>3, DoneStays DEF Tick, files, locals
<1>4. CASE Crash
  <2>1. Abstract!Stop
    BY <1>4, DoneStays
    DEF Crash, files, Abstract!Stop, Abstract!Nothing, NoProfiles, SavedCopy
  <2> QED
    BY <2>1 DEF Abstract!Next
<1>5. CASE Restart
  <2>1. kv' = Abstract!Recovered
    BY <1>5, ConstantsAssumption
    DEF Restart, Loaded, Abstract!Recovered, Abstract!Nothing, NoProfiles,
        SavedCopy
  <2>2. Abstract!Start
    BY <1>5, <2>1, DoneStays
    DEF Restart, files, locals, Abstract!Start, SavedCopy
  <2> QED
    BY <2>2 DEF Abstract!Next
<1>6. CASE UNCHANGED vars
  BY <1>1, <1>6, DoneStays DEF vars, files, process, locals
<1> QED
  BY <1>2, <1>3, <1>4, <1>5, <1>6 DEF Next

\* One request at a time, the API is the atomic registry, whatever fails and
\* whenever the process is killed: no update brings a deleted profile back, no
\* add replaces one, and a restart finds the registry of the last save.
THEOREM RegistryImplemented ==
    ASSUME Sequential
    PROVE  Spec => ImplementsRegistry
<1>1. SInv /\ [Next]_vars => [Abstract!Next]_(Abstract!vars)
  BY AbstractStep
<1> QED
  BY <1>1, AbstractInit, SInvAlways, PTL
  DEF Spec, ImplementsRegistry, Abstract!Spec
===============================================================================
