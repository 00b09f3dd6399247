---------------------------- MODULE ProfileAPIProps ----------------------------
(***************************************************************************)
(* What is asked of the profile management API.  The first group holds     *)
(* however requests overlap, the second for clients that send one request  *)
(* after the other.                                                        *)
(***************************************************************************)
EXTENDS ProfileAPI

TypeOK ==
    /\ kv \in Registry
    /\ disk \in [Paths -> Content]
    /\ backups \in [Seconds -> Content]
    /\ now \in Seconds
    /\ up \in BOOLEAN
    /\ crashes \in 0 .. MaxCrashes
    /\ pc \in [Requests -> PCs]
    /\ form \in [Requests -> Forms \cup {NoForm}]
    /\ oldSet \in [Requests -> Readable]
    /\ stamp \in [Requests -> Seconds]
    /\ newSet \in [Requests -> Registry]
    /\ reply \in [Requests -> Replies]
    /\ changed \subseteq Requests
    /\ held \subseteq Registry

(***************************************************************************)
(* Requests in any order                                                   *)
(***************************************************************************)

\* A file, backup or buffer that reads as a profile list is one the store held
\* as a whole at some moment.  GetAll reads the store under its lock, so
\* overlapping requests, failed writes and restarts may lose changes or leave
\* an unreadable file, but never a list no administrator ever had.
FilesAreSnapshots ==
    /\ \A p \in Paths : disk[p] \in Registry => disk[p] \in held
    /\ \A t \in Seconds : backups[t] \in Registry => backups[t] \in held
    /\ \A r \in Requests : oldSet[r] \in Registry => oldSet[r] \in held

\* The first profiles file holds v under i.
Shipped(i, v) == \E c \in InitialFiles : c \in Registry /\ c[i] = v

\* Some request was allowed to store v under i: it carried the secret, named
\* the same ID in its URL and its body, and was not answered that it failed.
Allowed(i, v) ==
    \E r \in changed :
        /\ form[r] # NoForm
        /\ form[r].op # "delete" /\ form[r].auth
        /\ form[r].key = i /\ form[r].id = i /\ form[r].val = v
        /\ reply[r] \notin Rejections

\* A request that is refused (401, 400 for an ID mismatch or an ID in use, 404)
\* leaves no trace: whatever a profile ever was in the store, and by
\* FilesAreSnapshots in a file, even after restarts, a request that was not
\* refused had put there.
RejectedLeavesNoTrace ==
    \A m \in held, i \in Ids :
        m[i] # NoProfile => Shipped(i, m[i]) \/ Allowed(i, m[i])

\* No handler ever waits for another one or for a file to become readable: as
\* long as the process lives, each request that was let in can go on.
NeverStuck == \A r \in InFlight : ENABLED <<Step(r)>>_vars

\* Every request the service accepts is answered, or its client is cut off by
\* the end of the process: no step waits for another request.
Served == \A r \in Requests : pc[r] = "check" ~> pc[r] = "done"

\* Both: no handler ever waits for another request, and each gets to its end.
Answered == []NeverStuck /\ Served

(***************************************************************************)
(* One request after the other                                             *)
(***************************************************************************)

\* The list m is still somewhere: in the profiles file or in a backup.
Kept(m) == disk["FileName"] = m \/ \E t \in Seconds : backups[t] = m

\* No step destroys the last copy of a list that was once saved, a kill between
\* the steps of a flush and a failing call included: the file is only truncated
\* when its list is in a backup, and a backup is only truncated by a flush of
\* the same second, whose backup has the same name (file_loader.go 59-97).  That
\* may be the only copy, if the process was killed between the truncation and
\* the write: README.md 1229 says "backed up to a new file", which it is not.
NothingLost ==
    [][\A m \in Registry :
         Kept(m) =>
            \/ Kept(m)'
            \/ backups[now] = m /\ \E r \in Requests : OpenBackup(r)]_vars

\* At the moment a request is answered ok, the file a restart loads holds what
\* the store holds, changes of earlier requests whose flush failed included.
\* README.md 1229: "the current profiles data in memory will be flushed to
\* disk as the new profiles.json file".
AckedIsOnDisk ==
    [][\A r \in Requests :
         reply[r] # "ok" /\ reply'[r] = "ok" => disk'["FileName"] = kv']_vars

\* The same promise once everything is at rest: every change was answered ok
\* and no request is in flight.
SettledIsOnDisk ==
    /\ up /\ InFlight = {} /\ changed # {}
    /\ \A r \in changed : reply[r] = "ok"
    => disk["FileName"] = kv

\* The API implements the atomic registry: each request changes it at most
\* once, an add only fills a free ID, an update or a delete only touches one in
\* use, what is saved is the registry of that moment, and a restart finds what
\* was saved.
SavedCopy == IF disk["FileName"] \in Registry THEN disk["FileName"] ELSE Torn
Done == [r \in Requests |-> IF r \in changed THEN form[r].op ELSE "none"]
Abstract == INSTANCE Registry
              WITH reg <- kv, done <- Done, saved <- SavedCopy, running <- up,
                   Clients <- Requests, Unreadable <- Torn
ImplementsRegistry == Abstract!Spec
===============================================================================
