------------------------------ MODULE PortalLogin ------------------------------
(***************************************************************************)
(* Logins to the dashboard and to the developer portal:                    *)
(* CompleteIdentityActionForDashboard and CompleteIdentityActionForPortal  *)
(* of src/tap/identity-handlers/tyk_handler.go, with the calls they make   *)
(* to the Tyk dashboard (src/tyk-api/tyk_api.go).                          *)
(*                                                                         *)
(* A login asks for a nonce.  For the portal it then looks for the record  *)
(* of the developer and writes it back as a whole with the nonce in it, or *)
(* creates one.  The browser is redirected with the nonce, which the       *)
(* portal looks for in its records.                                        *)
(***************************************************************************)

CONSTANTS
    Logins,      \* the logins that ever reach the handlers
    Users,       \* who may log in, told apart by their SSO key
    Developers,  \* those whose profile leads to the portal, not the dashboard
    NoLogin,     \* no login, the empty nonce
    NoRecord,    \* no developer record
    Faults       \* what may go wrong with a call to the dashboard

\* A call may be refused or not arrive, be refused with status 401, be carried
\* out and its answer lost, be answered with something that is not the expected
\* JSON, or, where 200 is expected, with status 201.
FaultKinds == {"refused", "unauthorised", "lost", "garbled", "created"}

ASSUME ConstantsAssumption ==
    /\ Developers \subseteq Users
    /\ Logins \cap Users = {}
    /\ NoLogin \notin Logins
    /\ Faults \subseteq FaultKinds

\* A record has the name of the developer it was there for from the beginning,
\* or of the login that created it; a nonce that of the login it was made for.
Records == Developers \cup Logins
Record == [user : Users, nonce : Logins \cup {NoLogin}, data : {"plain", "edited"}]

ASSUME MarkersAssumption == NoRecord \notin Record /\ NoRecord \notin Records

VARIABLES
    devs,       \* external: the developer records of the dashboard
    returnURL,  \* profile.ReturnURL is set, never changed
    pc,         \* the next step of each login
    who,        \* the user each login is for
    found,      \* the record the login has read, its thisUser.Id
    copy,       \* the handlers' local thisUser
    outcome,    \* what each user was answered
    edited,     \* history: records with a change no login's copy predates
    disturbed,  \* history: logins whose nonce may have been overwritten, or whose answer was lost
    doubtful    \* history: users whom a lookup wrongly took for unknown

login == <<pc, who, found, copy, outcome>>
vars == <<devs, returnURL, login, edited, disturbed, doubtful>>

PCs == {"idle", "nonce", "admin", "lookup", "create", "update", "redirect", "away", "done"}

\* The steps of the handlers: their goroutine has something to do.
Serving == {"nonce", "admin", "lookup", "create", "update", "redirect"}
Outcomes == {"none", "in", "rejected", "failed", "stranded", "aborted", "dropped"}

Goto(l, from, to) ==
    /\ pc[l] = from
    /\ pc' = [pc EXCEPT ![l] = to]

Answer(l, from, what) ==
    /\ Goto(l, from, "done")
    /\ outcome' = [outcome EXCEPT ![l] = what]

RecordsOf(u) == {d \in Records : devs[d] # NoRecord /\ devs[d].user = u}

\* The records the nonce of a login is in.
Holding(l) == {d \in Records : devs[d] # NoRecord /\ devs[d].nonce = l}

(***************************************************************************)
(* The nonce                                                               *)
(***************************************************************************)

\* An identity provider has confirmed who the user is.
Start(l) ==
    /\ Goto(l, "idle", "nonce")
    /\ UNCHANGED <<devs, returnURL, who, found, copy, outcome, edited, disturbed,
                   doubtful>>

\* CreateIdentity has a nonce.
HasNonce(l, from) ==
    /\ Goto(l, from, IF who[l] \in Developers THEN "lookup" ELSE "redirect")
    /\ UNCHANGED outcome

\* CreateSSONonce: any status but 200 is taken for a failure and leads to the
\* admin API.  A body that ends early is an error in spite of its status 200,
\* and one that is not JSON a type assertion that fails.
AskRegular(l) ==
    /\ \/ HasNonce(l, "nonce")
       \/ /\ Faults \cap {"refused", "unauthorised", "lost", "created"} # {}
          /\ Goto(l, "nonce", "admin")
          /\ UNCHANGED outcome
       \/ "lost" \in Faults /\ Answer(l, "nonce", "failed")
       \/ "garbled" \in Faults /\ Answer(l, "nonce", "aborted")
    /\ UNCHANGED <<devs, returnURL, who, found, copy, edited, disturbed, doubtful>>

\* Wrong: the admin API is asked until it answers.
AskAdminForever(l) ==
    /\ \/ HasNonce(l, "admin")
       \/ "refused" \in Faults /\ Goto(l, "admin", "nonce") /\ UNCHANGED outcome
    /\ UNCHANGED <<devs, returnURL, who, found, copy, edited, disturbed, doubtful>>

\* CreateAdminSSONonce: with status 201 there is no error to log, and none that
\* the message can be taken from.
AskAdmin(l) ==
    /\ \/ HasNonce(l, "admin")
       \/ /\ Faults \cap {"refused", "unauthorised", "lost"} # {}
          /\ Answer(l, "admin", "failed")
       \/ /\ Faults \cap {"created", "garbled"} # {}
          /\ Answer(l, "admin", "aborted")
    /\ UNCHANGED <<devs, returnURL, who, found, copy, edited, disturbed, doubtful>>

(***************************************************************************)
(* The developer record                                                    *)
(***************************************************************************)

\* The login goes on with a record the dashboard has for its user.
Read(l) ==
    \E d \in RecordsOf(who[l]) :
        /\ Goto(l, "lookup", "update")
        /\ found' = [found EXCEPT ![l] = d]
        /\ copy' = [copy EXCEPT ![l] = devs[d]]
        /\ UNCHANGED <<outcome, doubtful>>

\* The user counts as unknown: there is no record, or an error other than 401.
\* That is wrong if there is a record, or about to be one.
Unknown(l) ==
    /\ RecordsOf(who[l]) = {} \/ Faults \cap {"refused", "lost"} # {}
    /\ Goto(l, "lookup", "create")
    /\ doubtful' = IF \/ RecordsOf(who[l]) # {}
                      \/ \E k \in Logins : pc[k] = "create" /\ who[k] = who[l]
                     THEN doubtful \cup {who[l]} ELSE doubtful
    /\ UNCHANGED <<found, copy, outcome>>

\* The error of Decode is dropped, and the empty record goes on.  An answer is
\* taken to be readable as a whole or not at all: of one that is JSON with a field
\* of another type, the code would keep the other fields.
Undecoded(l) ==
    /\ "garbled" \in Faults
    /\ Goto(l, "lookup", "update")
    /\ found' = [found EXCEPT ![l] = NoRecord]
    /\ copy' = [copy EXCEPT ![l] = NoRecord]
    /\ UNCHANGED <<outcome, doubtful>>

\* Wrong: the record is looked for without the SSO key.
LookupAnyone(l) ==
    /\ \E d \in Records :
          /\ devs[d] # NoRecord
          /\ Goto(l, "lookup", "update")
          /\ found' = [found EXCEPT ![l] = d]
          /\ copy' = [copy EXCEPT ![l] = devs[d]]
    /\ UNCHANGED <<devs, returnURL, who, outcome, edited, disturbed, doubtful>>

\* GetDeveloperBySSOKey.
Lookup(l) ==
    /\ \/ Read(l)
       \/ Unknown(l)
       \/ Undecoded(l)
       \/ /\ "unauthorised" \in Faults
          /\ Answer(l, "lookup", "failed")
          /\ UNCHANGED <<found, copy, doubtful>>
    /\ UNCHANGED <<devs, returnURL, who, edited, disturbed>>

\* What the login's write was answered: the dashboard has carried it out.
Written(l, from) ==
    \/ Goto(l, from, "redirect") /\ UNCHANGED outcome
    \/ "lost" \in Faults /\ Answer(l, from, "failed")

\* The logins whose nonce a write of l may replace, and l if its answer is lost.
Overwrites(l) ==
    disturbed' = disturbed
        \cup {k \in Logins \ {l} : pc[k] \in {"redirect", "away"} /\ who[k] = who[l]}
        \cup (IF pc'[l] = "done" THEN {l} ELSE {})

\* Wrong: the record is created without its SSO key.
CreateKeyless(l) ==
    /\ Written(l, "create")
    /\ devs' = [devs EXCEPT ![l] = [user |-> NoLogin, nonce |-> l, data |-> "plain"]]
    /\ Overwrites(l)
    /\ UNCHANGED <<returnURL, who, found, copy, edited, doubtful>>

\* Wrong: the test of the error is the wrong way round.
CreateInverted(l) ==
    /\ Answer(l, "create", "failed")
    /\ devs' = [devs EXCEPT ![l] = [user |-> who[l], nonce |-> l, data |-> "plain"]]
    /\ UNCHANGED <<returnURL, who, found, copy, edited, disturbed, doubtful>>

\* CreateDeveloper.  The dashboard may not take a second record of a user.
Create(l) ==
    /\ \/ /\ Written(l, "create")
          /\ devs' = [devs EXCEPT ![l] = [user |-> who[l], nonce |-> l, data |-> "plain"]]
          /\ Overwrites(l)
       \/ /\ \/ Faults \cap {"refused", "unauthorised"} # {}
             \/ RecordsOf(who[l]) # {}
          /\ Answer(l, "create", "failed")
          /\ UNCHANGED <<devs, disturbed>>
    /\ UNCHANGED <<returnURL, who, found, copy, edited, doubtful>>

\* Wrong: what the developer has changed is not written back.
UpdateAnew(l) ==
    /\ Written(l, "update")
    /\ found[l] # NoRecord
    /\ devs' = [devs EXCEPT ![found[l]] =
                  [user |-> who[l], nonce |-> l, data |-> "plain"]]
    /\ Overwrites(l)
    /\ UNCHANGED <<returnURL, who, found, copy, edited, doubtful>>

\* Wrong: the record is written back without the nonce.
UpdateNothing(l) ==
    /\ Written(l, "update")
    /\ found[l] # NoRecord
    /\ devs' = [devs EXCEPT ![found[l]] = copy[l]]
    /\ Overwrites(l)
    /\ UNCHANGED <<returnURL, who, found, copy, edited, doubtful>>

\* Wrong: the record is sent with POST, which makes a new one.
UpdateByPost(l) ==
    /\ Written(l, "update")
    /\ found[l] # NoRecord
    /\ devs' = [devs EXCEPT ![l] = [copy[l] EXCEPT !.nonce = l]]
    /\ Overwrites(l)
    /\ UNCHANGED <<returnURL, who, found, copy, edited, doubtful>>

\* UpdateDeveloper writes back the whole of what was read, with the nonce in it;
\* an empty mail address and password are filled in, which no record here has.
\* A record without an ID is no record of the dashboard.
Update(l) ==
    /\ \/ /\ found[l] # NoRecord
          /\ Written(l, "update")
          /\ devs' = [devs EXCEPT ![found[l]] = [copy[l] EXCEPT !.nonce = l]]
          /\ Overwrites(l)
       \/ /\ found[l] = NoRecord \/ Faults \cap {"refused", "unauthorised"} # {}
          /\ Answer(l, "update", "failed")
          /\ UNCHANGED <<devs, disturbed>>
    /\ UNCHANGED <<returnURL, who, found, copy, edited, doubtful>>

\* The browser is sent to the return URL, if there is one.
Redirect(l) ==
    /\ IF returnURL
         THEN Goto(l, "redirect", "away") /\ UNCHANGED outcome
         ELSE Answer(l, "redirect", "stranded")
    /\ UNCHANGED <<devs, returnURL, who, found, copy, edited, disturbed, doubtful>>

(***************************************************************************)
(* The dashboard, the portal and the process                               *)
(***************************************************************************)

\* The browser arrives with its nonce, which can be used once.
Redeem(l) ==
    /\ IF who[l] \in Developers /\ Holding(l) = {}
         THEN Answer(l, "away", "rejected")
         ELSE Answer(l, "away", "in")
    /\ devs' = [d \in Records |-> IF d \in Holding(l)
                                    THEN [devs[d] EXCEPT !.nonce = NoLogin]
                                    ELSE devs[d]]
    /\ UNCHANGED <<returnURL, who, found, copy, edited, disturbed, doubtful>>

\* The developer or an administrator changes something else in a record.
Edit(d) ==
    /\ devs[d] # NoRecord
    /\ devs[d].data = "plain"
    /\ devs' = [devs EXCEPT ![d].data = "edited"]
    /\ edited' = IF \E l \in Logins : pc[l] = "update" /\ found[l] = d
                   THEN edited ELSE edited \cup {d}
    /\ UNCHANGED <<returnURL, login, disturbed, doubtful>>

\* The broker is killed, and with it every login it is working on.
Crash ==
    /\ \E l \in Logins : pc[l] \in Serving
    /\ pc' = [l \in Logins |-> IF pc[l] \in Serving THEN "done" ELSE pc[l]]
    /\ outcome' = [l \in Logins |->
                     IF pc[l] \in Serving THEN "dropped" ELSE outcome[l]]
    /\ UNCHANGED <<devs, returnURL, who, found, copy, edited, disturbed, doubtful>>

\* A handler's next step.
Step(l) ==
    \/ AskRegular(l) \/ AskAdmin(l)
    \/ Lookup(l) \/ Create(l) \/ Update(l)
    \/ Redirect(l)

Init ==
    /\ \E known \in SUBSET Developers :
          devs = [d \in Records |->
                    IF d \in known
                      THEN [user |-> d, nonce |-> NoLogin, data |-> "plain"]
                      ELSE NoRecord]
    /\ returnURL \in BOOLEAN
    /\ pc = [l \in Logins |-> "idle"]
    /\ who \in [Logins -> Users]
    /\ found = [l \in Logins |-> NoRecord]
    /\ copy = [l \in Logins |-> NoRecord]
    /\ outcome = [l \in Logins |-> "none"]
    /\ edited = {}
    /\ disturbed = {}
    /\ doubtful = {}

Next ==
    \/ \E l \in Logins : Start(l) \/ Step(l) \/ Redeem(l)
    \/ \E d \in Records : Edit(d)
    \/ Crash

\* Every call returns with an answer or an error.  Browsers may never arrive.
Spec == Init /\ [][Next]_vars
Fair(l) == WF_vars(Step(l))
FairSpec == Spec /\ \A l \in Logins : Fair(l)

(***************************************************************************)
(* Properties                                                              *)
(***************************************************************************)

TypeOK ==
    /\ devs \in [Records -> Record \cup {NoRecord}]
    /\ returnURL \in BOOLEAN
    /\ pc \in [Logins -> PCs]
    /\ who \in [Logins -> Users]
    /\ found \in [Logins -> Records \cup {NoRecord}]
    /\ copy \in [Logins -> Record \cup {NoRecord}]
    /\ \A l \in Logins : copy[l] = NoRecord <=> found[l] = NoRecord
    /\ outcome \in [Logins -> Outcomes]
    /\ edited \subseteq Records
    /\ disturbed \subseteq Logins
    /\ doubtful \subseteq Developers

\* A nonce stands only in a record of the user it was made for, whoever else
\* logs in at the same time and whatever is read, written back and lost.
OwnNonces ==
    \A d \in Records, l \in Logins : d \in Holding(l) => devs[d].user = who[l]

\* A user who was told that the login failed has left no nonce that could still
\* be used, unless it was an answer of the dashboard that was lost.
FailedLeavesNothing ==
    \A l \in Logins \ disturbed :
        outcome[l] \in {"failed", "aborted"} => Holding(l) = {}

\* The nonce a browser is sent to the portal with is one the portal will find,
\* unless another login of the same user wrote a record before it arrived.
RedirectedIsAdmitted ==
    \A l \in Logins \ disturbed : outcome[l] # "rejected"

\* A user has one record, unless a lookup took the user for unknown who was not.
OneRecordPerUser ==
    \A u \in Users \ doubtful : \A d, e \in RecordsOf(u) : d = e

\* A login changes nothing in a record but the nonce: what the developer has
\* changed while no login was between its reading and its writing stays.
EditsKept == \A d \in edited : devs[d] # NoRecord /\ devs[d].data = "edited"

\* tyk_handler.go 257: "it will AddOrUpdate that user depnding on if they exist
\* or not".
CreatesUnknownOnly ==
    \A l \in Logins : pc[l] = "create" => RecordsOf(who[l]) = {}

\* Whatever the dashboard has answered and whatever records other logins have
\* written, the handler of a login can go on.
NeverStuck == \A l \in Logins : pc[l] \in Serving => ENABLED <<Step(l)>>_vars

\* Every request is answered or cut off by the end of the process.
Served == \A l \in Logins : pc[l] \in Serving ~> pc[l] \in {"away", "done"}

\* Both: no handler ever waits for another login, and each gets to its end.
Answered == []NeverStuck /\ Served
===============================================================================
