--------------------------- MODULE PortalLoginProofs ---------------------------
(***************************************************************************)
(* Proofs about PortalLogin, for any logins, users and faults.             *)
(***************************************************************************)
EXTENDS PortalLogin, TLAPS

-------------------------------------------------------------------------------
(***************************************************************************)
(* Types                                                                   *)
(***************************************************************************)

\* Only logins to the portal work on developer records.
Portal == \A l \in Logins :
            pc[l] \in {"lookup", "create", "update"} => who[l] \in Developers

TInv == TypeOK /\ Portal

LEMMA TInvInit == Init => TInv
<1> SUFFICES ASSUME Init PROVE TInv
  OBVIOUS
<1>1. devs \in [Records -> Record \cup {NoRecord}]
  BY ConstantsAssumption DEF Init, Record, Records
<1> QED
  BY <1>1 DEF Init, TInv, TypeOK, Portal, PCs, Outcomes

LEMMA TAsk ==
    ASSUME TInv, NEW l \in Logins, Start(l) \/ AskRegular(l) \/ AskAdmin(l)
    PROVE  TInv'
BY DEF Start, AskRegular, AskAdmin, HasNonce, Answer, Goto, TInv, TypeOK, Portal,
       PCs, Outcomes

LEMMA TLookup ==
    ASSUME TInv, NEW l \in Logins, Lookup(l)
    PROVE  TInv'
<1>1. CASE Read(l)
  BY <1>1, MarkersAssumption
  DEF Lookup, Read, RecordsOf, Goto, TInv, TypeOK, Portal, PCs
<1>2. CASE Unknown(l)
  BY <1>2 DEF Lookup, Unknown, Goto, TInv, TypeOK, Portal, PCs
<1>3. CASE Undecoded(l)
  BY <1>3 DEF Lookup, Undecoded, Goto, TInv, TypeOK, Portal, PCs
<1>4. CASE Answer(l, "lookup", "failed") /\ UNCHANGED <<found, copy, doubtful>>
  BY <1>4 DEF Lookup, Answer, Goto, TInv, TypeOK, Portal, PCs, Outcomes
<1> QED
  BY <1>1, <1>2, <1>3, <1>4 DEF Lookup

\* What a login writes is a record.
LEMMA WritesRecord ==
    ASSUME TInv, NEW l \in Logins
    PROVE  /\ [user |-> who[l], nonce |-> l, data |-> "plain"] \in Record
           /\ found[l] # NoRecord => [copy[l] EXCEPT !.nonce = l] \in Record
BY DEF TInv, TypeOK, Record

LEMMA TWrite ==
    ASSUME TInv, NEW l \in Logins, Create(l) \/ Update(l)
    PROVE  TInv'
<1>1. devs' \in [Records -> Record \cup {NoRecord}]
  <2> DEFINE new == [user |-> who[l], nonce |-> l, data |-> "plain"]
             old == [copy[l] EXCEPT !.nonce = l]
  <2>1. devs \in [Records -> Record \cup {NoRecord}] /\ new \in Record
        /\ l \in Records /\ found[l] \in Records \cup {NoRecord}
        /\ (found[l] # NoRecord => old \in Record)
    BY WritesRecord DEF TInv, TypeOK, Records
  <2>2. \/ UNCHANGED devs
        \/ devs' = [devs EXCEPT ![l] = new]
        \/ found[l] # NoRecord /\ devs' = [devs EXCEPT ![found[l]] = old]
    BY DEF Create, Update
  <2> HIDE DEF new, old
  <2> QED
    BY <2>1, <2>2
<1>2. disturbed' \subseteq Logins
  BY DEF Create, Update, Overwrites, TInv, TypeOK
<1>3. /\ \E to \in {"redirect", "done"} : pc' = [pc EXCEPT ![l] = to]
      /\ outcome' \in [Logins -> Outcomes]
  BY DEF Create, Update, Written, Answer, Goto, TInv, TypeOK, Outcomes
<1> QED
  BY <1>1, <1>2, <1>3 DEF Create, Update, TInv, TypeOK, Portal, PCs

LEMMA TLeave ==
    ASSUME TInv, NEW l \in Logins, Redirect(l) \/ Redeem(l)
    PROVE  TInv'
<1>1. devs' \in [Records -> Record \cup {NoRecord}]
  BY DEF Redirect, Redeem, Holding, TInv, TypeOK, Record
<1> QED
  BY <1>1
  DEF Redirect, Redeem, Answer, Goto, TInv, TypeOK, Portal, PCs, Outcomes

LEMMA TOthers ==
    ASSUME TInv, (\E d \in Records : Edit(d)) \/ Crash \/ UNCHANGED vars
    PROVE  TInv'
<1>1. CASE \E d \in Records : Edit(d)
  BY <1>1 DEF Edit, login, TInv, TypeOK, Portal, Record
<1>2. CASE Crash
  BY <1>2 DEF Crash, TInv, TypeOK, Portal, PCs, Outcomes
<1>3. CASE UNCHANGED vars
  BY <1>3 DEF vars, login, TInv, TypeOK, Portal
<1> QED
  BY <1>1, <1>2, <1>3

LEMMA TInvNext == TInv /\ [Next]_vars => TInv'
BY TAsk, TLookup, TWrite, TLeave, TOthers DEF Next, Step

\* The handlers keep their types: what is written to the dashboard is a record
\* that was read there, or a new one with its SSO key.
THEOREM PortalTyping == Spec => []TypeOK
<1>1. TInv => TypeOK
  BY DEF TInv
<1> QED
  BY <1>1, TInvInit, TInvNext, PTL DEF Spec
-------------------------------------------------------------------------------
(***************************************************************************)
(* Nonces                                                                  *)
(***************************************************************************)

\* The login has written no record yet.
Before == {"idle", "nonce", "admin", "lookup", "create", "update"}

Fresh(l) ==
    /\ pc[l] # "done" => outcome[l] = "none"
    /\ pc[l] \in Before => devs[l] = NoRecord

\* What a login has read is a record of its user.
OwnCopy(l) ==
    pc[l] = "update" /\ found[l] # NoRecord =>
        /\ copy[l].user = who[l]
        /\ devs[found[l]] # NoRecord
        /\ devs[found[l]].user = who[l]

\* A nonce in a record is that of a login of its user, which has written it.
OwnNonce(d) ==
    devs[d] # NoRecord /\ devs[d].nonce # NoLogin =>
        /\ devs[d].user = who[devs[d].nonce]
        /\ pc[devs[d].nonce] \notin Before

Inv ==
    /\ TInv
    /\ \A l \in Logins : Fresh(l) /\ OwnCopy(l)
    /\ \A d \in Records : OwnNonce(d)

LEMMA InvInit == Init => Inv
<1> SUFFICES ASSUME Init PROVE Inv
  OBVIOUS
<1>1. \A l \in Logins : devs[l] = NoRecord
  BY ConstantsAssumption DEF Init, Records
<1>2. \A d \in Records : devs[d] # NoRecord => devs[d].nonce = NoLogin
  BY DEF Init
<1> QED
  BY <1>1, <1>2, TInvInit DEF Init, Inv, Fresh, OwnCopy, OwnNonce

\* What a step of a login may do to the records: a new record under its own
\* name, a nonce of its own in the record it has read, or a nonce taken out.
Wrote(l) ==
    \/ UNCHANGED devs
    \/ /\ pc[l] = "create"
       /\ devs' = [devs EXCEPT ![l] = [user |-> who[l], nonce |-> l, data |-> "plain"]]
    \/ /\ pc[l] = "update"
       /\ found[l] # NoRecord
       /\ devs' = [devs EXCEPT ![found[l]] = [copy[l] EXCEPT !.nonce = l]]
    \/ /\ pc[l] = "away"
       /\ devs' = [d \in Records |-> IF d \in Holding(l)
                                       THEN [devs[d] EXCEPT !.nonce = NoLogin]
                                       ELSE devs[d]]

LEMMA StepWrites ==
    ASSUME TInv, NEW l \in Logins, Start(l) \/ Step(l) \/ Redeem(l)
    PROVE  Wrote(l)
BY DEF Wrote, Start, Step, AskRegular, AskAdmin, Lookup, Create, Update, Redirect,
       Redeem, Goto, Answer, Written

\* Records stay, and keep their users.
LEMMA UsersStay ==
    ASSUME Inv, [Next]_vars, NEW d \in Records, devs[d] # NoRecord
    PROVE  devs'[d] # NoRecord /\ devs'[d].user = devs[d].user
<1>1. ASSUME NEW l \in Logins, Wrote(l)
      PROVE  devs'[d] # NoRecord /\ devs'[d].user = devs[d].user
  <2>1. devs[d] \in Record /\ l \in Records
    BY DEF Inv, TInv, TypeOK, Records
  <2>2. CASE UNCHANGED devs
    BY <2>2
  <2>3. CASE /\ pc[l] = "create"
             /\ devs' = [devs EXCEPT ![l] = [user |-> who[l], nonce |-> l, data |-> "plain"]]
    BY <2>3 DEF Inv, Fresh, Before, TInv, TypeOK
  <2>4. CASE /\ pc[l] = "update"
             /\ found[l] # NoRecord
             /\ devs' = [devs EXCEPT ![found[l]] = [copy[l] EXCEPT !.nonce = l]]
    <3>1. /\ copy[l] \in Record /\ copy[l].user = who[l]
          /\ devs[found[l]].user = who[l]
      BY <2>4 DEF Inv, OwnCopy, TInv, TypeOK
    <3>2. /\ [copy[l] EXCEPT !.nonce = l] \in Record
          /\ [copy[l] EXCEPT !.nonce = l].user = who[l]
      BY <3>1 DEF Record
    <3> DEFINE new == [copy[l] EXCEPT !.nonce = l]
    <3>3. CASE d = found[l]
      <4>1. devs'[d] = new
        BY <2>4, <3>3 DEF Inv, TInv, TypeOK
      <4> QED
        BY <4>1, <3>1, <3>2, <3>3, MarkersAssumption
    <3>4. CASE d # found[l]
      BY <2>4, <3>4 DEF Inv, TInv, TypeOK
    <3> QED
      BY <3>3, <3>4
  <2>5. CASE devs' = [e \in Records |-> IF e \in Holding(l)
                                       THEN [devs[e] EXCEPT !.nonce = NoLogin]
                                       ELSE devs[e]]
    <3>1. devs'[d] \in {devs[d], [devs[d] EXCEPT !.nonce = NoLogin]}
      BY <2>5
    <3>2. [devs[d] EXCEPT !.nonce = NoLogin] \in Record
      BY <2>1 DEF Record
    <3> QED
      BY <2>1, <3>1, <3>2, MarkersAssumption DEF Record
  <2> QED
    BY <1>1, <2>2, <2>3, <2>4, <2>5 DEF Wrote
<1>2. CASE \E e \in Records : Edit(e)
  <2>1. devs'[d] \in {devs[d], [devs[d] EXCEPT !.data = "edited"]}
    BY <1>2 DEF Edit, Inv, TInv, TypeOK
  <2>2. devs[d] \in Record /\ [devs[d] EXCEPT !.data = "edited"] \in Record
    BY DEF Inv, TInv, TypeOK, Record
  <2> QED
    BY <2>1, <2>2, MarkersAssumption DEF Record
<1>3. CASE Crash \/ UNCHANGED vars
  BY <1>3 DEF Crash, vars
<1> QED
  BY <1>1, <1>2, <1>3, StepWrites DEF Inv, Next
\* A step of a login moves that login alone, and never back to before its write.
LEMMA StepMoves ==
    ASSUME TInv, NEW l \in Logins, Start(l) \/ Step(l) \/ Redeem(l)
    PROVE  /\ pc[l] # "done"
           /\ \E to \in PCs, o \in Outcomes :
                /\ pc' = [pc EXCEPT ![l] = to]
                /\ \/ UNCHANGED outcome
                   \/ to = "done" /\ outcome' = [outcome EXCEPT ![l] = o]
                /\ pc[l] \notin Before => to \notin Before
                /\ to \in Before => UNCHANGED devs
           /\ UNCHANGED <<who, returnURL>>
<1>1. CASE Start(l) \/ AskRegular(l) \/ AskAdmin(l)
  BY <1>1
  DEF Start, AskRegular, AskAdmin, HasNonce, Answer, Goto, Before, PCs, Outcomes,
      TInv, TypeOK
<1>2. CASE Lookup(l)
  BY <1>2
  DEF Lookup, Read, Unknown, Undecoded, Answer, Goto, Before, PCs, Outcomes,
      TInv, TypeOK
<1>3. CASE Create(l) \/ Update(l)
  BY <1>3
  DEF Create, Update, Written, Answer, Goto, Before, PCs, Outcomes, TInv, TypeOK
<1>4. CASE Redirect(l) \/ Redeem(l)
  BY <1>4 DEF Redirect, Redeem, Answer, Goto, Before, PCs, Outcomes, TInv, TypeOK
<1> QED
  BY <1>1, <1>2, <1>3, <1>4 DEF Step

\* No login moves back to before its write, and the user of a login stays.
LEMMA Moves ==
    ASSUME TInv, [Next]_vars, NEW l \in Logins
    PROVE  /\ pc[l] \notin Before => pc'[l] \notin Before
           /\ pc[l] = "done" => pc'[l] = "done"
           /\ who' = who
<1>1. ASSUME NEW k \in Logins, Start(k) \/ Step(k) \/ Redeem(k)
      PROVE  /\ pc[l] \notin Before => pc'[l] \notin Before
             /\ pc[l] = "done" => pc'[l] = "done"
             /\ who' = who
  BY <1>1, StepMoves DEF TInv, TypeOK
<1>2. CASE Crash
  BY <1>2 DEF Crash, Serving, Before, TInv, TypeOK
<1>3. CASE (\E d \in Records : Edit(d)) \/ UNCHANGED vars
  BY <1>3 DEF Edit, vars, login
<1> QED
  BY <1>1, <1>2, <1>3 DEF Next

\* A record appears only under the name of the login that creates it.
LEMMA Appears ==
    ASSUME Inv, [Next]_vars, NEW d \in Records,
           devs[d] = NoRecord, devs'[d] # NoRecord
    PROVE  /\ d \in Logins
           /\ pc[d] = "create" /\ pc'[d] \notin Before
           /\ devs' = [devs EXCEPT ![d] = [user |-> who[d], nonce |-> d, data |-> "plain"]]
<1>1. ~Crash /\ ~UNCHANGED vars
  BY DEF Crash, vars
<1>2. ~\E e \in Records : Edit(e)
  BY DEF Edit, Inv, TInv, TypeOK
<1>3. PICK l \in Logins : Start(l) \/ Step(l) \/ Redeem(l)
  BY <1>1, <1>2 DEF Next
<1>4. Wrote(l) /\ (pc'[l] \in Before => UNCHANGED devs)
  BY <1>3, StepWrites, StepMoves DEF Inv, TInv, TypeOK
<1>5. /\ pc[l] = "create"
      /\ devs' = [devs EXCEPT ![l] = [user |-> who[l], nonce |-> l, data |-> "plain"]]
  BY <1>4 DEF Wrote, Holding, Inv, OwnCopy, TInv, TypeOK
<1> QED
  BY <1>4, <1>5 DEF Inv, TInv, TypeOK

LEMMA FreshNext ==
    ASSUME Inv, [Next]_vars, NEW l \in Logins
    PROVE  Fresh(l)'
<1>1. pc'[l] # "done" => outcome'[l] = "none"
  <2>1. ASSUME NEW k \in Logins, Start(k) \/ Step(k) \/ Redeem(k)
        PROVE  pc'[l] # "done" => outcome'[l] = "none"
    BY <2>1, StepMoves DEF Inv, Fresh, TInv, TypeOK
  <2>2. CASE Crash
    BY <2>2 DEF Crash, Inv, Fresh, TInv, TypeOK
  <2>3. CASE (\E d \in Records : Edit(d)) \/ UNCHANGED vars
    BY <2>3 DEF Edit, vars, login, Inv, Fresh
  <2> QED
    BY <2>1, <2>2, <2>3 DEF Next
<1>2. pc'[l] \in Before => devs'[l] = NoRecord
  BY Moves, Appears DEF Inv, Fresh, Records
<1> QED
  BY <1>1, <1>2 DEF Fresh

\* A login reads its copy at its lookup and keeps it until it has written.
LEMMA CopyStays ==
    ASSUME TInv, [Next]_vars, NEW l \in Logins, pc'[l] = "update"
    PROVE  \/ /\ pc[l] = "update"
              /\ found'[l] = found[l] /\ copy'[l] = copy[l]
           \/ /\ pc[l] = "lookup" /\ UNCHANGED devs
              /\ \/ found'[l] = NoRecord
                 \/ /\ found'[l] \in RecordsOf(who[l])
                    /\ copy'[l] = devs[found'[l]]
<1>1. CASE Lookup(l)
  BY <1>1 DEF Lookup, Read, Unknown, Undecoded, Answer, Goto, TInv, TypeOK, PCs
<1>2. ASSUME NEW k \in Logins, Start(k) \/ Step(k) \/ Redeem(k), ~Lookup(l)
      PROVE  pc[l] = "update" /\ found'[l] = found[l] /\ copy'[l] = copy[l]
  <2>1. CASE k = l
    BY <1>2, <2>1
    DEF Start, Step, AskRegular, AskAdmin, HasNonce, Create, Update, Written,
        Redirect, Redeem, Answer, Goto, TInv, TypeOK
  <2>2. CASE k # l
    <3>1. pc[l] = "update"
      BY <1>2, <2>2, StepMoves DEF TInv, TypeOK
    <3>2. CASE Lookup(k)
      BY <2>2, <3>1, <3>2
      DEF Lookup, Read, Unknown, Undecoded, Answer, Goto, TInv, TypeOK
    <3>3. CASE ~Lookup(k)
      BY <1>2, <3>1, <3>3
      DEF Start, Step, AskRegular, AskAdmin, Create, Update, Redirect, Redeem
    <3> QED
      BY <3>2, <3>3
  <2> QED
    BY <2>1, <2>2
<1>3. CASE Crash
  BY <1>3 DEF Crash, TInv, TypeOK
<1>4. CASE (\E d \in Records : Edit(d)) \/ UNCHANGED vars
  BY <1>4 DEF Edit, vars, login
<1> QED
  BY <1>1, <1>2, <1>3, <1>4 DEF Next

LEMMA OwnCopyNext ==
    ASSUME Inv, [Next]_vars, NEW l \in Logins
    PROVE  OwnCopy(l)'
<1> SUFFICES ASSUME pc'[l] = "update", found'[l] # NoRecord
             PROVE  /\ copy'[l].user = who[l]
                    /\ devs'[found'[l]] # NoRecord
                    /\ devs'[found'[l]].user = who[l]
  BY Moves DEF OwnCopy, Inv
<1>1. found'[l] \in Records
  BY TInvNext DEF Inv, TInv, TypeOK
<1>2. CASE pc[l] = "update" /\ found'[l] = found[l] /\ copy'[l] = copy[l]
  BY <1>1, <1>2, UsersStay DEF Inv, OwnCopy
<1>3. CASE /\ UNCHANGED devs
           /\ found'[l] \in RecordsOf(who[l])
           /\ copy'[l] = devs[found'[l]]
  BY <1>3 DEF RecordsOf
<1> QED
  BY <1>2, <1>3, CopyStays DEF Inv

\* A nonce comes into a record by the write of its login, or was there before.
LEMMA NonceComes ==
    ASSUME Inv, [Next]_vars, NEW d \in Records, devs'[d] # NoRecord
    PROVE  \/ devs'[d].nonce = NoLogin
           \/ devs[d] # NoRecord /\ devs'[d].nonce = devs[d].nonce
           \/ \E l \in Logins : /\ devs'[d].nonce = l
                                /\ pc[l] \in {"create", "update"}
                                /\ pc'[l] \notin Before
                                /\ devs'[d].user = who[l]
<1>1. CASE devs[d] = NoRecord
  BY <1>1, Appears DEF Inv, TInv, TypeOK
<1>2. CASE devs[d] # NoRecord
  <2>1. devs[d] \in Record
    BY <1>2 DEF Inv, TInv, TypeOK
  <2>2. CASE Crash \/ UNCHANGED vars
    BY <1>2, <2>2 DEF Crash, vars
  <2>3. CASE \E e \in Records : Edit(e)
    <3>1. devs'[d] \in {devs[d], [devs[d] EXCEPT !.data = "edited"]}
      BY <2>3 DEF Edit, Inv, TInv, TypeOK
    <3> QED
      BY <1>2, <2>1, <3>1 DEF Record
  <2>4. ASSUME NEW l \in Logins, Start(l) \/ Step(l) \/ Redeem(l)
        PROVE  \/ devs'[d].nonce = NoLogin
               \/ devs'[d].nonce = devs[d].nonce
               \/ /\ devs'[d].nonce = l
                  /\ pc[l] \in {"create", "update"}
                  /\ pc'[l] \notin Before
                  /\ devs'[d].user = who[l]
    <3>1. Wrote(l) /\ (pc'[l] \in Before => UNCHANGED devs)
      BY <2>4, StepWrites, StepMoves DEF Inv, TInv, TypeOK
    <3>2. CASE UNCHANGED devs
      BY <3>2
    <3>3. CASE /\ pc[l] = "create"
               /\ devs' = [devs EXCEPT ![l] = [user |-> who[l], nonce |-> l, data |-> "plain"]]
      BY <1>2, <3>3 DEF Inv, Fresh, Before, TInv, TypeOK
    <3>4. CASE /\ pc[l] = "update"
               /\ found[l] # NoRecord
               /\ devs' = [devs EXCEPT ![found[l]] = [copy[l] EXCEPT !.nonce = l]]
      <4>1. copy[l] \in Record /\ copy[l].user = who[l]
        BY <3>4 DEF Inv, OwnCopy, TInv, TypeOK
      <4>2. /\ [copy[l] EXCEPT !.nonce = l].nonce = l
            /\ [copy[l] EXCEPT !.nonce = l].user = who[l]
        BY <4>1 DEF Record
      <4>3. devs'[d] \in {devs[d], [copy[l] EXCEPT !.nonce = l]}
        BY <3>4 DEF Inv, TInv, TypeOK
      <4> QED
        BY <3>1, <3>4, <4>2, <4>3
    <3>5. CASE devs' = [e \in Records |-> IF e \in Holding(l)
                                            THEN [devs[e] EXCEPT !.nonce = NoLogin]
                                            ELSE devs[e]]
      <4>1. devs'[d] \in {devs[d], [devs[d] EXCEPT !.nonce = NoLogin]}
        BY <3>5
      <4> QED
        BY <2>1, <4>1 DEF Record
    <3> QED
      BY <3>1, <3>2, <3>3, <3>4, <3>5 DEF Wrote
  <2> QED
    BY <1>2, <2>2, <2>3, <2>4 DEF Next
<1> QED
  BY <1>1, <1>2

LEMMA OwnNonceNext ==
    ASSUME Inv, [Next]_vars, NEW d \in Records
    PROVE  OwnNonce(d)'
<1> SUFFICES ASSUME devs'[d] # NoRecord, devs'[d].nonce # NoLogin
             PROVE  /\ devs'[d].user = who'[devs'[d].nonce]
                    /\ pc'[devs'[d].nonce] \notin Before
  BY DEF OwnNonce
<1>1. CASE devs[d] # NoRecord /\ devs'[d].nonce = devs[d].nonce
  <2>1. devs[d].nonce \in Logins
    BY <1>1 DEF Inv, TInv, TypeOK, Record
  <2> QED
    BY <1>1, <2>1, UsersStay, Moves DEF Inv, OwnNonce
<1>2. CASE \E l \in Logins : /\ devs'[d].nonce = l
                             /\ pc'[l] \notin Before
                             /\ devs'[d].user = who[l]
  BY <1>2, Moves DEF Inv
<1> QED
  BY <1>1, <1>2, NonceComes

LEMMA InvNext == Inv /\ [Next]_vars => Inv'
BY TInvNext, FreshNext, OwnCopyNext, OwnNonceNext DEF Inv

\* A nonce stands only in a record of the user it was made for.
THEOREM NoncesApart == Spec => []OwnNonces
<1>1. Inv => OwnNonces
  BY ConstantsAssumption DEF Inv, OwnNonce, OwnNonces, Holding
<1> QED
  BY <1>1, InvInit, InvNext, PTL DEF Spec

-------------------------------------------------------------------------------
(***************************************************************************)
(* One record for a user                                                   *)
(***************************************************************************)

\* A user no lookup was wrong about has at most one record, and none while a
\* login, the only one, is about to create it.
Single(u) ==
    /\ \A d, e \in RecordsOf(u) : d = e
    /\ \A l \in Logins : pc[l] = "create" /\ who[l] = u =>
          /\ RecordsOf(u) = {}
          /\ \A k \in Logins : pc[k] = "create" /\ who[k] = u => k = l

OInv == Inv /\ \A u \in Users \ doubtful : Single(u)

LEMMA OInvInit == Init => OInv
<1> SUFFICES ASSUME Init, NEW u \in Users PROVE Single(u)
  BY InvInit DEF OInv
<1>1. \A d \in RecordsOf(u) : d = u
  BY DEF Init, RecordsOf
<1> QED
  BY <1>1 DEF Init, Single

\* A login is about to create a record because its user counts as unknown.
LEMMA CreateComes ==
    ASSUME TInv, [Next]_vars, NEW l \in Logins, pc'[l] = "create"
    PROVE  \/ pc[l] = "create"
           \/ Unknown(l) /\ UNCHANGED <<devs, who>> /\ pc' = [pc EXCEPT ![l] = "create"]
<1>1. ASSUME NEW k \in Logins, Start(k) \/ Step(k) \/ Redeem(k), k # l
      PROVE  pc[l] = "create"
  BY <1>1, StepMoves DEF TInv, TypeOK
<1>2. CASE Lookup(l)
  BY <1>2 DEF Lookup, Read, Unknown, Undecoded, Answer, Goto, TInv, TypeOK
<1>3. ~Start(l) /\ ~AskRegular(l) /\ ~AskAdmin(l) /\ ~Redirect(l) /\ ~Redeem(l)
  BY DEF Start, AskRegular, AskAdmin, HasNonce, Redirect, Redeem, Answer, Goto,
         TInv, TypeOK
<1>4. ~Create(l) /\ ~Update(l)
  BY DEF Create, Update, Written, Answer, Goto, TInv, TypeOK
<1>5. CASE Crash
  BY <1>5 DEF Crash, TInv, TypeOK
<1>6. CASE (\E d \in Records : Edit(d)) \/ UNCHANGED vars
  BY <1>6 DEF Edit, vars, login
<1> QED
  BY <1>1, <1>2, <1>3, <1>4, <1>5, <1>6 DEF Next, Step

LEMMA DoubtStays ==
    ASSUME [Next]_vars
    PROVE  doubtful \subseteq doubtful'
<1>1. ASSUME NEW l \in Logins, Start(l) \/ Step(l) \/ Redeem(l)
      PROVE  doubtful \subseteq doubtful'
  <2>1. CASE Lookup(l)
    BY <2>1 DEF Lookup, Read, Unknown, Undecoded
  <2>2. CASE ~Lookup(l)
    BY <1>1, <2>2
    DEF Start, Step, AskRegular, AskAdmin, Create, Update, Redirect, Redeem
  <2> QED
    BY <2>1, <2>2
<1> QED
  BY <1>1 DEF Next, Edit, Crash, vars

LEMMA SingleNext ==
    ASSUME OInv, [Next]_vars, NEW u \in Users \ doubtful'
    PROVE  Single(u)'
<1>1. Single(u)
  BY DoubtStays DEF OInv
<1>2. \A d \in Records : devs[d] # NoRecord =>
        devs'[d] # NoRecord /\ devs'[d].user = devs[d].user
  BY UsersStay DEF OInv
<1>3. CASE \E d \in Records : devs[d] = NoRecord /\ devs'[d] # NoRecord
  <2>1. PICK d \in Records : devs[d] = NoRecord /\ devs'[d] # NoRecord
    BY <1>3
  <2>2. /\ d \in Logins /\ pc[d] = "create" /\ pc'[d] # "create"
        /\ devs' = [devs EXCEPT ![d] = [user |-> who[d], nonce |-> d, data |-> "plain"]]
    BY <2>1, Appears DEF OInv, Before
  <2>3. \A l \in Logins : pc'[l] = "create" => pc[l] = "create" /\ l # d
    BY <2>1, <2>2, CreateComes DEF OInv, Inv
  <2>4. \A e \in Records : e # d => devs'[e] = devs[e]
    BY <2>2 DEF OInv, Inv, TInv, TypeOK
  <2>5. devs'[d].user = who[d] /\ who' = who
    BY <2>1, <2>2, Moves DEF OInv, Inv, TInv, TypeOK
  <2>6. CASE who[d] = u
    <3>1. RecordsOf(u) = {} /\ \A l \in Logins : pc'[l] = "create" => who[l] # u
      BY <1>1, <2>2, <2>3, <2>6 DEF Single
    <3>2. \A e \in RecordsOf(u)' : e = d
      BY <2>4, <3>1 DEF RecordsOf
    <3> QED
      BY <2>5, <3>1, <3>2 DEF Single
  <2>7. CASE who[d] # u
    <3>1. RecordsOf(u)' = RecordsOf(u)
      BY <2>1, <2>4, <2>5, <2>7 DEF RecordsOf
    <3> QED
      BY <1>1, <2>3, <2>5, <3>1 DEF Single
  <2> QED
    BY <2>6, <2>7
<1>4. CASE \A d \in Records : devs[d] = NoRecord => devs'[d] = NoRecord
  <2>1. RecordsOf(u)' = RecordsOf(u)
    BY <1>2, <1>4 DEF RecordsOf
  <2>2. CASE \A l \in Logins : pc'[l] = "create" => pc[l] = "create"
    BY <1>1, <2>1, <2>2, Moves DEF Single, OInv, Inv
  <2>3. CASE \E l \in Logins : pc'[l] = "create" /\ pc[l] # "create"
    <3>1. PICK l \in Logins : /\ Unknown(l) /\ UNCHANGED <<devs, who>>
                              /\ pc' = [pc EXCEPT ![l] = "create"]
      BY <2>3, CreateComes DEF OInv, Inv
    <3>2. who[l] = u => /\ RecordsOf(u) = {}
                        /\ \A k \in Logins : ~(pc[k] = "create" /\ who[k] = u)
      BY <3>1 DEF Unknown
    <3>3. \A k \in Logins : pc'[k] = "create" => pc[k] = "create" \/ k = l
      BY <3>1 DEF OInv, Inv, TInv, TypeOK
    <3> QED
      BY <1>1, <2>1, <3>1, <3>2, <3>3 DEF Single
  <2> QED
    BY <2>2, <2>3
<1> QED
  BY <1>3, <1>4

\* A user has one record, unless a lookup took the user for unknown who was not.
THEOREM OneRecord == Spec => []OneRecordPerUser
<1>1. OInv => OneRecordPerUser
  BY DEF OInv, Single, OneRecordPerUser
<1>2. OInv /\ [Next]_vars => OInv'
  BY InvNext, SingleNext DEF OInv
<1> QED
  BY <1>1, <1>2, OInvInit, PTL DEF Spec

-------------------------------------------------------------------------------
(***************************************************************************)
(* The nonce in the redirect                                               *)
(***************************************************************************)

\* Where the nonce of a login is that nothing has disturbed.
Held(l) ==
    /\ pc[l] \in {"redirect", "away"} /\ who[l] \in Developers => Holding(l) # {}
    /\ outcome[l] # "rejected"
    /\ outcome[l] \in {"failed", "aborted"} => Holding(l) = {}

HInv == Inv /\ \A l \in Logins \ disturbed : Held(l)

LEMMA HInvInit == Init => HInv
<1> SUFFICES ASSUME Init, NEW l \in Logins PROVE Held(l)
  BY InvInit DEF HInv
<1> QED
  BY DEF Init, Held

\* A login that has not written a record is in none.
LEMMA NothingBefore ==
    ASSUME Inv, NEW l \in Logins, pc[l] \in Before
    PROVE  Holding(l) = {}
BY ConstantsAssumption DEF Inv, OwnNonce, Holding

LEMMA DisturbedStays ==
    ASSUME [Next]_vars
    PROVE  disturbed \subseteq disturbed'
BY DEF Next, Start, Step, AskRegular, AskAdmin, Lookup, Create, Update, Overwrites,
       Redirect, Redeem, Edit, Crash, vars

\* A step of another login leaves the nonce of an undisturbed one where it is.
LEMMA HeldByOthers ==
    ASSUME HInv, NEW k \in Logins, Start(k) \/ Step(k) \/ Redeem(k),
           NEW l \in Logins \ disturbed', l # k, Held(l)
    PROVE  Held(l)'
<1>1. pc'[l] = pc[l] /\ outcome'[l] = outcome[l] /\ who' = who
  BY StepMoves DEF HInv, Inv, TInv, TypeOK
<1>2. pc[l] \in {"redirect", "away"} => Holding(l) \subseteq Holding(l)'
  <2> SUFFICES ASSUME pc[l] \in {"redirect", "away"}, NEW d \in Holding(l)
               PROVE  devs'[d] # NoRecord /\ devs'[d].nonce = l
    BY DEF Holding
  <2>1. d \in Records /\ devs[d] # NoRecord /\ devs[d].nonce = l
    BY DEF Holding
  <2>2. devs[d].user = who[l]
    BY <2>1, ConstantsAssumption DEF HInv, Inv, OwnNonce
  <2>3. Wrote(k)
    BY StepWrites DEF HInv, Inv
  <2>4. CASE UNCHANGED devs
    BY <2>1, <2>4
  <2>5. CASE /\ pc[k] = "create"
             /\ devs' = [devs EXCEPT ![k] = [user |-> who[k], nonce |-> k, data |-> "plain"]]
    BY <2>1, <2>5 DEF HInv, Inv, Fresh, Before, TInv, TypeOK
  <2>6. CASE /\ pc[k] = "update"
             /\ found[k] # NoRecord
             /\ devs' = [devs EXCEPT ![found[k]] = [copy[k] EXCEPT !.nonce = k]]
    <3>1. devs[found[k]].user = who[k]
      BY <2>6 DEF HInv, Inv, OwnCopy
    <3>2. CASE d = found[k]
      <4>1. who[k] = who[l]
        BY <2>2, <3>1, <3>2
      <4>2. devs' = devs \/ Overwrites(k)
        BY <2>6
        DEF Start, Step, AskRegular, AskAdmin, Lookup, Create, Update, Redirect,
            Redeem, HasNonce, Answer, Goto
      <4> QED
        BY <2>1, <4>1, <4>2 DEF Overwrites
    <3>3. CASE d # found[k]
      BY <2>1, <2>6, <3>3 DEF HInv, Inv, TInv, TypeOK
    <3> QED
      BY <3>2, <3>3
  <2>7. CASE devs' = [e \in Records |-> IF e \in Holding(k)
                                          THEN [devs[e] EXCEPT !.nonce = NoLogin]
                                          ELSE devs[e]]
    BY <2>1, <2>7 DEF Holding
  <2> QED
    BY <2>3, <2>4, <2>5, <2>6, <2>7 DEF Wrote
<1>3. pc[l] = "done" => Holding(l)' \subseteq Holding(l)
  <2> SUFFICES ASSUME pc[l] = "done", NEW d \in Holding(l)'
               PROVE  d \in Holding(l)
    OBVIOUS
  <2>1. d \in Records /\ devs'[d] # NoRecord /\ devs'[d].nonce = l /\ [Next]_vars
    BY DEF Holding, Next
  <2>2. devs[d] # NoRecord /\ devs[d].nonce = l
    BY <2>1, NonceComes, ConstantsAssumption DEF HInv
  <2> QED
    BY <2>1, <2>2 DEF Holding
<1>4. outcome[l] # "none" => pc[l] = "done"
  BY DEF HInv, Inv, Fresh
<1> QED
  BY <1>1, <1>2, <1>3, <1>4 DEF Held

\* A login's own step leaves its nonce in a record, or the login fails.
LEMMA HeldByItself ==
    ASSUME HInv, NEW l \in Logins \ disturbed', Held(l),
           Start(l) \/ Step(l) \/ Redeem(l)
    PROVE  Held(l)'
<1>1. outcome[l] = "none" /\ (pc[l] \in Before => Holding(l) = {})
  BY StepMoves, NothingBefore DEF HInv, Inv, Fresh
<1>2. CASE Start(l) \/ AskRegular(l) \/ AskAdmin(l)
  <2>1. pc[l] \in Before /\ UNCHANGED <<devs, who>>
    BY <1>2 DEF Start, AskRegular, AskAdmin, HasNonce, Answer, Goto, Before
  <2>2. Holding(l)' = {}
    BY <1>1, <2>1 DEF Holding
  <2> QED
    BY <1>1, <1>2, <2>1, <2>2
    DEF Start, AskRegular, AskAdmin, HasNonce, Answer, Goto, Held, HInv, Inv,
        TInv, TypeOK
<1>3. CASE Lookup(l)
  <2>1. pc[l] \in Before /\ UNCHANGED <<devs, who>>
    BY <1>3 DEF Lookup, Read, Unknown, Undecoded, Answer, Goto, Before
  <2>2. Holding(l)' = {}
    BY <1>1, <2>1 DEF Holding
  <2> QED
    BY <1>1, <1>3, <2>1, <2>2
    DEF Lookup, Read, Unknown, Undecoded, Answer, Goto, Held, HInv, Inv, TInv,
        TypeOK
<1>4. CASE Create(l) \/ Update(l)
  <2>1. pc[l] \in Before
    BY <1>4 DEF Create, Update, Written, Answer, Goto, Before
  <2>2. \/ UNCHANGED devs /\ Answer(l, pc[l], "failed")
        \/ /\ Goto(l, pc[l], "redirect") /\ UNCHANGED outcome
           /\ \/ devs' = [devs EXCEPT ![l] = [user |-> who[l], nonce |-> l, data |-> "plain"]]
              \/ /\ found[l] # NoRecord
                 /\ devs' = [devs EXCEPT ![found[l]] = [copy[l] EXCEPT !.nonce = l]]
    BY <1>4
    DEF Create, Update, Written, Answer, Goto, Overwrites, HInv, Inv, TInv, TypeOK
  <2>3. CASE UNCHANGED devs /\ Answer(l, pc[l], "failed")
    <3>1. Holding(l)' = {}
      BY <1>1, <2>1, <2>3 DEF Holding
    <3> QED
      BY <2>3, <3>1 DEF Answer, Goto, Held, HInv, Inv, TInv, TypeOK
  <2>4. CASE /\ Goto(l, pc[l], "redirect") /\ UNCHANGED outcome
             /\ \/ devs' = [devs EXCEPT ![l] = [user |-> who[l], nonce |-> l, data |-> "plain"]]
                \/ /\ found[l] # NoRecord
                   /\ devs' = [devs EXCEPT ![found[l]] = [copy[l] EXCEPT !.nonce = l]]
    <3>1. /\ l \in Records /\ found[l] \in Records \cup {NoRecord}
          /\ found[l] # NoRecord => copy[l] \in Record
      BY DEF Records, HInv, Inv, TInv, TypeOK
    <3>2. [user |-> who[l], nonce |-> l, data |-> "plain"] \in Record
      BY WritesRecord DEF HInv, Inv
    <3>3. found[l] # NoRecord => /\ [copy[l] EXCEPT !.nonce = l] \in Record
                                 /\ [copy[l] EXCEPT !.nonce = l].nonce = l
      BY <3>1 DEF Record, HInv, Inv, TInv, TypeOK
    <3>4. \E d \in Records : devs'[d] \in Record /\ devs'[d].nonce = l
      <4>1. CASE devs' = [devs EXCEPT ![l] = [user |-> who[l], nonce |-> l, data |-> "plain"]]
        BY <3>1, <3>2, <4>1 DEF HInv, Inv, TInv, TypeOK
      <4>2. CASE /\ found[l] # NoRecord
                 /\ devs' = [devs EXCEPT ![found[l]] = [copy[l] EXCEPT !.nonce = l]]
        <5>1. devs'[found[l]] = [copy[l] EXCEPT !.nonce = l]
          BY <3>1, <4>2 DEF HInv, Inv, TInv, TypeOK
        <5> QED
          BY <3>1, <3>3, <4>2, <5>1
      <4> QED
        BY <2>4, <4>1, <4>2
    <3>5. Holding(l)' # {}
      BY <3>4, MarkersAssumption DEF Holding
    <3> QED
      BY <1>1, <2>4, <3>5 DEF Held
  <2> QED
    BY <2>2, <2>3, <2>4
<1>5. CASE Redirect(l)
  <2>1. /\ UNCHANGED <<devs, who>> /\ pc[l] = "redirect"
        /\ outcome'[l] \in {"none", "stranded"}
    BY <1>1, <1>5 DEF Redirect, Answer, Goto, HInv, Inv, TInv, TypeOK
  <2> QED
    BY <2>1 DEF Held, Holding
<1>6. CASE Redeem(l)
  <2>1. outcome'[l] = "in" /\ pc'[l] = "done"
    BY <1>6 DEF Redeem, Answer, Goto, Held, HInv, Inv, TInv, TypeOK
  <2> QED
    BY <2>1 DEF Held
<1> QED
  BY <1>2, <1>3, <1>4, <1>5, <1>6 DEF Step

LEMMA HInvNext == HInv /\ [Next]_vars => HInv'
<1> SUFFICES ASSUME HInv, [Next]_vars, NEW l \in Logins \ disturbed'
             PROVE  Held(l)'
  BY InvNext DEF HInv
<1>1. Held(l)
  BY DisturbedStays DEF HInv
<1>2. CASE \E d \in Records : Edit(d)
  <2>1. UNCHANGED login
    BY <1>2 DEF Edit
  <2>2. \A e \in Records : devs'[e] \in {devs[e], [devs[e] EXCEPT !.data = "edited"]}
    BY <1>2 DEF Edit, HInv, Inv, TInv, TypeOK
  <2>3. \A e \in Records : devs[e] # NoRecord =>
          devs'[e] # NoRecord /\ devs'[e].nonce = devs[e].nonce
    <3> SUFFICES ASSUME NEW e \in Records, devs[e] # NoRecord
                 PROVE  devs'[e] # NoRecord /\ devs'[e].nonce = devs[e].nonce
      OBVIOUS
    <3>1. devs[e] \in Record
      BY DEF HInv, Inv, TInv, TypeOK
    <3> QED
      BY <2>2, <3>1, UsersStay DEF HInv, Record
  <2>4. \A e \in Records : devs[e] = NoRecord => devs'[e] = NoRecord
    BY <1>2 DEF Edit, HInv, Inv, TInv, TypeOK
  <2>5. Holding(l)' = Holding(l)
    BY <2>3, <2>4 DEF Holding
  <2> QED
    BY <1>1, <2>1, <2>5 DEF Held, login
<1>3. CASE Crash
  <2>1. /\ UNCHANGED <<devs, who>>
        /\ pc'[l] \in {pc[l], "done"} /\ outcome'[l] \in {outcome[l], "dropped"}
    BY <1>3 DEF Crash, HInv, Inv, TInv, TypeOK
  <2> QED
    BY <1>1, <2>1 DEF Held, Holding
<1>4. CASE UNCHANGED vars
  BY <1>1, <1>4 DEF vars, login, Held, Holding
<1> QED
  BY <1>1, <1>2, <1>3, <1>4, HeldByOthers, HeldByItself DEF Next

\* The portal finds the nonce of every browser it is sent, unless another login
\* of the same user wrote a record before it arrived.
THEOREM Admitted == Spec => []RedirectedIsAdmitted
<1>1. HInv => RedirectedIsAdmitted
  BY DEF HInv, Held, RedirectedIsAdmitted
<1> QED
  BY <1>1, HInvInit, HInvNext, PTL DEF Spec

\* A failed login leaves no nonce behind, unless an answer was lost.
THEOREM NothingLeft == Spec => []FailedLeavesNothing
<1>1. HInv => FailedLeavesNothing
  BY DEF HInv, Held, FailedLeavesNothing
<1> QED
  BY <1>1, HInvInit, HInvNext, PTL DEF Spec

-------------------------------------------------------------------------------
(***************************************************************************)
(* What developers change                                                  *)
(***************************************************************************)

\* The change is in the record and in every copy that may be written back.
Kept(d) ==
    /\ devs[d] # NoRecord
    /\ devs[d].data = "edited"
    /\ \A l \in Logins : pc[l] = "update" /\ found[l] = d => copy[l].data = "edited"

EInv == Inv /\ \A d \in edited : Kept(d)

\* A step of a login leaves a change where it is.
LEMMA KeptByLogins ==
    ASSUME EInv, [Next]_vars, NEW l \in Logins, Start(l) \/ Step(l) \/ Redeem(l),
           NEW d \in edited, Kept(d)
    PROVE  devs'[d] # NoRecord /\ devs'[d].data = "edited"
<1>1. Wrote(l)
  BY StepWrites DEF EInv, Inv
<1>2. /\ d \in Records /\ devs[d] \in Record /\ devs[d].data = "edited"
      /\ devs'[d] # NoRecord
  BY UsersStay DEF Kept, EInv, Inv, TInv, TypeOK
<1>3. CASE UNCHANGED devs
  BY <1>2, <1>3
<1>4. CASE /\ pc[l] = "create"
           /\ devs' = [devs EXCEPT ![l] = [user |-> who[l], nonce |-> l, data |-> "plain"]]
  BY <1>2, <1>4 DEF Kept, EInv, Inv, Fresh, Before, TInv, TypeOK
<1>5. CASE /\ pc[l] = "update"
           /\ found[l] # NoRecord
           /\ devs' = [devs EXCEPT ![found[l]] = [copy[l] EXCEPT !.nonce = l]]
  <2>1. copy[l] \in Record
    BY <1>5 DEF EInv, Inv, TInv, TypeOK
  <2>2. [copy[l] EXCEPT !.nonce = l].data = copy[l].data
    BY <2>1 DEF Record
  <2>3. CASE d = found[l]
    <3>1. devs'[d] = [copy[l] EXCEPT !.nonce = l]
      BY <1>2, <1>5, <2>3 DEF EInv, Inv, TInv, TypeOK
    <3> QED
      BY <1>2, <1>5, <2>2, <2>3, <3>1 DEF Kept
  <2>4. CASE d # found[l]
    BY <1>2, <1>5, <2>4 DEF EInv, Inv, TInv, TypeOK
  <2> QED
    BY <2>3, <2>4
<1>6. CASE devs' = [e \in Records |-> IF e \in Holding(l)
                                        THEN [devs[e] EXCEPT !.nonce = NoLogin]
                                        ELSE devs[e]]
  <2>1. devs'[d] \in {devs[d], [devs[d] EXCEPT !.nonce = NoLogin]}
    BY <1>2, <1>6
  <2> QED
    BY <1>2, <2>1 DEF Record
<1> QED
  BY <1>1, <1>3, <1>4, <1>5, <1>6 DEF Wrote

LEMMA EInvNext == EInv /\ [Next]_vars => EInv'
<1> SUFFICES ASSUME EInv, [Next]_vars, NEW d \in edited'
             PROVE  Kept(d)'
  BY InvNext DEF EInv
<1>1. CASE \E e \in Records : Edit(e)
  <2>1. PICK e \in Records : Edit(e)
    BY <1>1
  <2>2. UNCHANGED login
    BY <2>1 DEF Edit
  <2>3. CASE d = e
    <3>1. devs[e] \in Record /\ devs'[e] = [devs[e] EXCEPT !.data = "edited"]
      BY <2>1 DEF Edit, EInv, Inv, TInv, TypeOK
    <3>2. devs'[e] # NoRecord
      BY <2>1, UsersStay DEF Edit, EInv
    <3>3. e \notin edited
      BY <2>1 DEF Edit, EInv, Kept
    <3>4. \A l \in Logins : ~(pc[l] = "update" /\ found[l] = e)
      BY <2>1, <2>3, <3>3 DEF Edit
    <3> QED
      BY <2>2, <2>3, <3>1, <3>2, <3>4 DEF Kept, login, Record
  <2>4. CASE d # e
    BY <2>1, <2>2, <2>4 DEF Edit, EInv, Inv, TInv, TypeOK, Kept, login
  <2> QED
    BY <2>3, <2>4
<1>2. ASSUME NEW l \in Logins, Start(l) \/ Step(l) \/ Redeem(l)
      PROVE  Kept(d)'
  <2>1. edited' = edited
    BY <1>2
    DEF Start, Step, AskRegular, AskAdmin, Lookup, Create, Update, Redirect, Redeem
  <2>2. Kept(d) /\ devs'[d] # NoRecord /\ devs'[d].data = "edited"
    BY <1>2, <2>1, KeptByLogins DEF EInv
  <2>3. ASSUME NEW k \in Logins, pc'[k] = "update", found'[k] = d
        PROVE  copy'[k].data = "edited"
    <3>1. CASE pc[k] = "update" /\ found'[k] = found[k] /\ copy'[k] = copy[k]
      BY <2>2, <2>3, <3>1 DEF Kept
    <3>2. CASE found'[k] = NoRecord
      BY <2>1, <2>3, <3>2, MarkersAssumption DEF EInv, Inv, TInv, TypeOK
    <3>3. CASE copy'[k] = devs[found'[k]]
      BY <2>2, <2>3, <3>3 DEF Kept
    <3> QED
      BY <2>3, <3>1, <3>2, <3>3, CopyStays DEF EInv, Inv
  <2> QED
    BY <2>2, <2>3 DEF Kept
<1>3. CASE Crash
  BY <1>3 DEF Crash, EInv, Inv, TInv, TypeOK, Kept
<1>4. CASE UNCHANGED vars
  BY <1>4 DEF vars, login, EInv, Kept
<1> QED
  BY <1>1, <1>2, <1>3, <1>4 DEF Next

\* A login changes nothing in a record but the nonce, unless the record was
\* changed between its reading and its writing.
THEOREM ChangesKept == Spec => []EditsKept
<1>1. Init => EInv
  BY InvInit DEF Init, EInv
<1>2. EInv => EditsKept
  BY DEF EInv, Kept, EditsKept
<1> QED
  BY <1>1, <1>2, EInvNext, PTL DEF Spec

-------------------------------------------------------------------------------
(***************************************************************************)
(* Progress.                                                               *)
(***************************************************************************)

\* The calls that may follow a call of a login, and where it leaves its handler.
After(at) ==
    CASE at = "nonce" -> {"admin", "lookup", "redirect", "done"}
      [] at = "admin" -> {"lookup", "redirect", "done"}
      [] at = "lookup" -> {"create", "update", "done"}
      [] at \in {"create", "update"} -> {"redirect", "done"}
      [] at = "redirect" -> {"away", "done"}
      [] OTHER -> {}

LEMMA StepGoesOn ==
    ASSUME TypeOK, NEW l \in Logins, Step(l)
    PROVE  /\ pc'[l] \in After(pc[l])
           /\ \A k \in Logins \ {l} : pc'[k] = pc[k]
BY DEF Step, AskRegular, AskAdmin, HasNonce, Lookup, Read, Unknown, Undecoded,
       Create, Update, Written, Redirect, Answer, Goto, TypeOK, After

\* Nobody else moves a login that is being served, except to its end.
LEMMA NeverBack ==
    ASSUME TypeOK, [Next]_vars, NEW l \in Logins, pc[l] \in Serving
    PROVE  pc'[l] = pc[l] \/ pc'[l] \in After(pc[l]) \/ pc'[l] = "done"
<1>1. ASSUME NEW k \in Logins, Start(k) \/ Redeem(k) PROVE pc'[l] = pc[l]
  BY <1>1 DEF Start, Redeem, Answer, Goto, TypeOK, Serving
<1>2. ASSUME NEW k \in Logins, Step(k)
      PROVE  pc'[l] = pc[l] \/ pc'[l] \in After(pc[l])
  BY <1>2, StepGoesOn
<1>3. CASE Crash
  BY <1>3 DEF Crash
<1>4. CASE UNCHANGED vars \/ \E d \in Records : Edit(d)
  BY <1>4 DEF Edit, login, vars
<1> QED
  BY <1>1, <1>2, <1>3, <1>4 DEF Next

\* If every call returns and no handler is ever stuck, every login is sent on or
\* answered: it makes five calls at most, whatever the dashboard answers.
THEOREM EveryLoginAnswered == FairSpec /\ []NeverStuck => Served
<1> SUFFICES ASSUME NEW l \in Logins
             PROVE  FairSpec /\ []NeverStuck
                      => (pc[l] \in Serving ~> pc[l] \in {"away", "done"})
  BY DEF Served
<1> DEFINE S5 == pc[l] = "redirect"
           S4 == pc[l] \in {"create", "update"} \/ S5
           S3 == pc[l] = "lookup" \/ S4
           S2 == pc[l] = "admin" \/ S3
           S1 == pc[l] \in Serving
           Ended == pc[l] \in {"away", "done"}
<1>1. FairSpec => Fair(l)
  BY DEF FairSpec
<1>2. NeverStuck => (S1 => ENABLED <<Step(l)>>_vars)
  BY DEF NeverStuck
<1>3. TypeOK /\ [Next]_vars =>
        /\ S1 => S1' \/ Ended'
        /\ S2 => S2' \/ Ended'
        /\ S3 => S3' \/ Ended'
        /\ S4 => S4' \/ Ended'
        /\ S5 => S5' \/ Ended'
  BY NeverBack DEF After, Serving
<1>4. TypeOK /\ <<Step(l)>>_vars =>
        /\ S1 => S2' \/ Ended'
        /\ S2 => S3' \/ Ended'
        /\ S3 => S4' \/ Ended'
        /\ S4 => S5' \/ Ended'
        /\ S5 => Ended'
  BY StepGoesOn DEF After, Serving
<1>5. S2 \/ S3 \/ S4 \/ S5 => S1
  BY DEF Serving
<1> QED
  BY <1>1, <1>2, <1>3, <1>4, <1>5, PortalTyping, PTL DEF FairSpec, Fair, Spec
===============================================================================
