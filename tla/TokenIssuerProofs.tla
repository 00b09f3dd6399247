--------------------------- MODULE TokenIssuerProofs ---------------------------
(***************************************************************************)
(* Proofs about the token handlers for any number of logins, identities,   *)
(* tokens, failures and crashes.                                           *)
(***************************************************************************)
EXTENDS TokenIssuer, TLAPS

\* Who a login is for is known once it has started, and every reference, in
\* the store or in a handler, is to a token of the same identity.
Owners ==
    /\ \A i \in Identities : store[i] # NoToken => issued[store[i]] = i
    /\ \A t \in live : issued[t] # NoIdentity
    /\ \A l \in Logins :
          /\ pc[l] # "idle" => who[l] \in Identities
          /\ pc[l] = "invalidate" =>
                value[l] \in Tokens /\ issued[value[l]] = who[l]
          /\ pc[l] = "store" =>
                resp[l] \in Tokens /\ issued[resp[l]] = who[l]

Inv == TypeOK /\ Owners

LEMMA InvInit == Init => Inv
BY ConstantsAssumption DEF Init, Inv, TypeOK, Owners, PCs, Outcomes

LEMMA InvStart ==
    ASSUME Inv, NEW l \in Logins, Start(l)
    PROVE  Inv'
BY DEF Start, Goto, Inv, TypeOK, Owners, PCs

LEMMA InvLookup ==
    ASSUME Inv, NEW l \in Logins, Lookup(l)
    PROVE  Inv'
<1>1. who[l] \in Identities
  BY DEF Lookup, Looked, Goto, Inv, Owners
<1>2. CASE /\ Looked(l, "invalidate")
           /\ Found(who[l])
           /\ value' = [value EXCEPT ![l] = store[who[l]]]
           /\ UNCHANGED leaked
  <2>1. store[who[l]] \in Tokens
    BY <1>1, <1>2 DEF Found, Inv, TypeOK
  <2> QED
    BY <1>1, <1>2, <2>1, ConstantsAssumption
    DEF Looked, Goto, Found, Inv, TypeOK, Owners, PCs
<1>3. CASE /\ Looked(l, "issue")
           /\ \/ UNCHANGED leaked
              \/ leaked' = leaked \cup {who[l]}
           /\ UNCHANGED value
  BY <1>1, <1>3 DEF Looked, Goto, Inv, TypeOK, Owners, PCs
<1> QED
  BY <1>2, <1>3 DEF Lookup

LEMMA InvInvalidate ==
    ASSUME Inv, NEW l \in Logins, Invalidate(l)
    PROVE  Inv'
<1>1. who[l] \in Identities
  BY DEF Invalidate, Revoked, NotRevoked, Unauthorised, Answer, Goto, Inv, Owners
<1>2. CASE Revoked(l)
  BY <1>2 DEF Invalidate, Revoked, Goto, Inv, TypeOK, Owners, PCs
<1>3. CASE NotRevoked(l)
  BY <1>1, <1>3 DEF Invalidate, NotRevoked, Goto, Inv, TypeOK, Owners, PCs
<1>4. CASE Unauthorised(l)
  <2>1. CASE who[l] \in OAuthIds
    BY <1>1, <1>4, <2>1
    DEF Invalidate, Unauthorised, Goto, Inv, TypeOK, Owners, PCs
  <2>2. CASE who[l] \notin OAuthIds
    BY <1>1, <1>4, <2>2
    DEF Invalidate, Unauthorised, Answer, Goto, Inv, TypeOK, Owners, PCs,
        Outcomes
  <2> QED
    BY <2>1, <2>2
<1> QED
  BY <1>2, <1>3, <1>4 DEF Invalidate

\* A token that is issued is one no reference names yet.
LEMMA FreshUnknown ==
    ASSUME Inv, NEW t \in Fresh
    PROVE  /\ t \in Tokens /\ t \notin live
           /\ \A i \in Identities : store[i] # t
           /\ \A l \in Logins :
                /\ pc[l] = "invalidate" => value[l] # t
                /\ pc[l] = "store" => resp[l] # t
BY ConstantsAssumption DEF Fresh, Inv, Owners, TypeOK

LEMMA InvIssue ==
    ASSUME Inv, NEW l \in Logins, Issue(l)
    PROVE  Inv'
<1>1. who[l] \in Identities
  BY DEF Issue, Answer, Goto, Inv, Owners
<1>2. ASSUME NEW t \in Fresh, Make(l, t),
             UNCHANGED <<store, who, value, crashes>>,
             Goto(l, "issue", "store"),
             resp' = [resp EXCEPT ![l] = t],
             UNCHANGED <<outcome, leaked>>
      PROVE  Inv'
  <2>1. TypeOK'
    BY <1>1, <1>2, FreshUnknown DEF Make, Goto, Inv, TypeOK, PCs
  <2>2. Owners'
    BY <1>1, <1>2, FreshUnknown, ConstantsAssumption
    DEF Make, Goto, Inv, TypeOK, Owners
  <2> QED
    BY <2>1, <2>2 DEF Inv
<1>3. ASSUME NEW t \in Fresh, Make(l, t),
             UNCHANGED <<store, who, value, crashes>>,
             NEW what \in {"blank", "failed"}, Answer(l, "issue", what),
             leaked' = leaked \cup {who[l]},
             UNCHANGED resp
      PROVE  Inv'
  <2>1. TypeOK'
    BY <1>1, <1>3, FreshUnknown DEF Make, Answer, Goto, Inv, TypeOK, PCs, Outcomes
  <2>2. Owners'
    BY <1>1, <1>3, FreshUnknown, ConstantsAssumption
    DEF Make, Answer, Goto, Inv, TypeOK, Owners
  <2> QED
    BY <2>1, <2>2 DEF Inv
<1>4. CASE /\ Answer(l, "issue", "failed")
           /\ UNCHANGED <<store, live, issued, who, value, resp, leaked, crashes>>
  BY <1>4 DEF Answer, Goto, Inv, TypeOK, Owners, PCs, Outcomes
<1> QED
  BY <1>2, <1>3, <1>4 DEF Issue

LEMMA InvSave ==
    ASSUME Inv, NEW l \in Logins, Save(l)
    PROVE  Inv'
<1>1. /\ who[l] \in Identities
      /\ resp[l] \in Tokens /\ issued[resp[l]] = who[l]
  BY DEF Save, Answer, Goto, Inv, Owners
<1> QED
  BY <1>1 DEF Save, Answer, Goto, Inv, TypeOK, Owners, PCs, Outcomes

LEMMA InvCrash ==
    ASSUME Inv, Crash
    PROVE  Inv'
<1>1. TypeOK'
  <2>1. crashes' \in 0 .. MaxCrashes
    BY ConstantsAssumption DEF Crash, Inv, TypeOK
  <2>2. leaked' \subseteq Identities
    BY DEF Crash, Inv, TypeOK, Owners
  <2>3. pc' \in [Logins -> PCs] /\ outcome' \in [Logins -> Outcomes]
    BY DEF Crash, Inv, TypeOK, PCs, Outcomes
  <2> QED
    BY <2>1, <2>2, <2>3 DEF Crash, Inv, TypeOK
<1>2. Owners'
  BY DEF Crash, Inv, TypeOK, Owners
<1> QED
  BY <1>1, <1>2 DEF Inv

LEMMA InvNext == Inv /\ [Next]_vars => Inv'
<1> SUFFICES ASSUME Inv, [Next]_vars PROVE Inv'
  OBVIOUS
<1>1. ASSUME NEW l \in Logins, Start(l) \/ Step(l) PROVE Inv'
  BY <1>1, InvStart, InvLookup, InvInvalidate, InvIssue, InvSave DEF Step
<1>2. ASSUME NEW t \in Tokens, Expire(t) PROVE Inv'
  BY <1>2 DEF Expire, login, Inv, TypeOK, Owners
<1>3. CASE UNCHANGED vars
  BY <1>3 DEF vars, login, Inv, TypeOK, Owners
<1> QED
  BY <1>1, <1>2, <1>3, InvCrash DEF Next

LEMMA InvAlways == Spec => []Inv
BY InvInit, InvNext, PTL DEF Spec

\* Every variable keeps its type.
THEOREM TokenTyping == Spec => []TypeOK
<1>1. Inv => TypeOK
  BY DEF Inv
<1> QED
  BY <1>1, InvAlways, PTL

\* With either store, overlapping logins, failing calls and crashes, no login
\* ever revokes a token of another identity.
THEOREM OwnTokensOnly == Spec => RevokesOnlyOwn
<1> DEFINE Lawful(t) ==
             \/ Expire(t)
             \/ \E l \in Logins :
                   Invalidate(l) /\ value[l] = t /\ who[l] = issued[t]
<1>1. ASSUME Inv, Next, NEW t \in live \ live' PROVE Lawful(t)
  <2>1. ASSUME NEW l \in Logins, Invalidate(l) PROVE Lawful(t)
    <3>1. Revoked(l)
      BY <1>1, <2>1 DEF Invalidate, NotRevoked, Unauthorised
    <3>2. t = value[l]
      BY <1>1, <3>1 DEF Revoked
    <3>3. who[l] = issued[value[l]]
      BY <1>1, <3>1 DEF Revoked, Goto, Inv, Owners
    <3> QED
      BY <2>1, <3>2, <3>3
  <2>2. ASSUME NEW l \in Logins, Start(l) \/ Lookup(l) \/ Issue(l) \/ Save(l)
        PROVE  FALSE
    BY <1>1, <2>2 DEF Start, Lookup, Looked, Issue, Make, Save
  <2>3. ASSUME NEW s \in Tokens, Expire(s) PROVE Lawful(t)
    <3>1. s = t
      BY <1>1, <2>3 DEF Expire
    <3> QED
      BY <2>3, <3>1
  <2>4. ~Crash
    BY <1>1 DEF Crash
  <2> QED
    BY <1>1, <2>1, <2>2, <2>3, <2>4 DEF Next, Step
<1>2. Inv /\ [Next]_vars => [\A t \in live \ live' : Lawful(t)]_vars
  BY <1>1
<1> QED
  BY <1>2, InvAlways, PTL DEF Spec, RevokesOnlyOwn

-------------------------------------------------------------------------------
(***************************************************************************)
(* One token per identity: the memory store, the policy switched on, and   *)
(* logins of one identity that do not overlap.                             *)
(***************************************************************************)

Policy == Backend = "memory" /\ OneTokenPerAPI /\ ~Overlapping

\* An identity has one login in flight at most, which revokes what the store
\* refers to.
Alone ==
    \A l \in Logins :
        /\ pc[l] \notin {"idle", "done"} =>
              \A k \in InFlight(who[l]) : k = l
        /\ pc[l] = "invalidate" => value[l] = store[who[l]]

Saving(i) == \E l \in Logins : pc[l] = "store" /\ who[l] = i

\* The one token of an identity no failure befell is the one the store refers
\* to or, until it is stored, the one its login has just been given; while a
\* new one is asked for there is none.
Kept ==
    \A i \in Identities \ leaked : \A t \in LiveTokens(i) :
        /\ ~Saving(i) => t = store[i]
        /\ \A l \in Logins : who[l] = i =>
              /\ pc[l] # "issue"
              /\ pc[l] = "store" => t = resp[l]

PInv == Inv /\ Alone /\ Kept

LEMMA PInvInit == Init => PInv
BY InvInit DEF Init, PInv, Alone, Kept, LiveTokens

\* A login that moves between calls leaves the others alone.
LEMMA AloneStep ==
    ASSUME Inv, Alone, NEW l \in Logins, NEW from \in PCs \ {"idle", "done"},
           NEW to, Goto(l, from, to),
           UNCHANGED <<who, store>>,
           \A k \in Logins : k # l => value'[k] = value[k],
           to = "invalidate" => value'[l] = store[who[l]]
    PROVE  Alone'
BY DEF Inv, TypeOK, Alone, InFlight, Goto

LEMMA PInvStart ==
    ASSUME Policy, PInv, NEW l \in Logins, Start(l)
    PROVE  PInv'
<1>1. PICK i \in Identities :
        InFlight(i) = {} /\ who' = [who EXCEPT ![l] = i]
  BY DEF Start, Policy
<1>2. /\ pc[l] = "idle" /\ pc' = [pc EXCEPT ![l] = "lookup"]
      /\ UNCHANGED <<store, live, issued, value, resp, leaked>>
  BY DEF Start, Goto, Policy
<1>3. Alone'
  BY <1>1, <1>2 DEF PInv, Inv, TypeOK, Alone, InFlight
<1>4. Kept'
  <2> SUFFICES ASSUME NEW j \in Identities \ leaked, NEW t \in LiveTokens(j)
               PROVE  /\ ~Saving(j)' => t = store[j]
                      /\ \A k \in Logins : who'[k] = j =>
                            /\ pc'[k] # "issue"
                            /\ pc'[k] = "store" => t = resp[k]
    BY <1>2 DEF Kept, LiveTokens
  <2>1. Saving(j) => Saving(j)'
    BY <1>1, <1>2 DEF Saving, PInv, Inv, TypeOK
  <2> QED
    BY <1>1, <1>2, <2>1 DEF PInv, Kept, Inv, TypeOK
<1> QED
  BY <1>3, <1>4, InvStart DEF PInv

LEMMA PInvLookup ==
    ASSUME Policy, PInv, NEW l \in Logins, Lookup(l)
    PROVE  PInv'
<1>1. /\ who[l] \in Identities /\ pc[l] = "lookup"
      /\ UNCHANGED <<store, live, issued, who, resp>>
  BY DEF Lookup, Looked, Goto, PInv, Inv, Owners
<1>2. CASE /\ Looked(l, "invalidate")
           /\ value' = [value EXCEPT ![l] = store[who[l]]]
           /\ UNCHANGED leaked
  <2>1. Alone'
    BY <1>1, <1>2, AloneStep DEF Looked, PInv, PCs, Inv, TypeOK
  <2>2. Kept'
    BY <1>1, <1>2
    DEF Looked, Goto, PInv, Inv, TypeOK, Kept, LiveTokens, Saving
  <2> QED
    BY <2>1, <2>2, InvLookup DEF PInv
<1>3. CASE /\ Looked(l, "issue")
           /\ \/ ~Found(who[l]) /\ UNCHANGED leaked
              \/ leaked' = leaked \cup {who[l]}
           /\ UNCHANGED value
  <2>1. Alone'
    BY <1>1, <1>3, AloneStep DEF Looked, PInv, PCs
  <2>2. ~Saving(who[l])
    BY <1>1 DEF Saving, PInv, Alone, InFlight
  <2>3. who[l] \notin leaked' => LiveTokens(who[l]) = {}
    <3>1. SUFFICES ASSUME ~Found(who[l]), who[l] \notin leaked,
                          NEW t \in LiveTokens(who[l])
                   PROVE  FALSE
      BY <1>3
    <3>2. t = store[who[l]] /\ t \in Tokens
      BY <1>1, <2>2, <3>1 DEF PInv, Kept, Inv, TypeOK, LiveTokens
    <3> QED
      BY <3>1, <3>2, ConstantsAssumption DEF Found, Policy
  <2>4. Kept'
    BY <1>1, <1>3, <2>3
    DEF Looked, Goto, PInv, Inv, TypeOK, Kept, LiveTokens, Saving
  <2> QED
    BY <2>1, <2>4, InvLookup DEF PInv
<1> QED
  BY <1>2, <1>3 DEF Lookup

LEMMA PInvInvalidate ==
    ASSUME Policy, PInv, NEW l \in Logins, Invalidate(l)
    PROVE  PInv'
<1>1. /\ who[l] \in Identities /\ pc[l] = "invalidate"
      /\ UNCHANGED <<store, issued, who, value, resp>>
  BY DEF Invalidate, Revoked, NotRevoked, Unauthorised, Answer, Goto, PInv, Inv,
         Owners
<1>2. \E to \in {"issue", "done"} : Goto(l, "invalidate", to)
  BY DEF Invalidate, Revoked, NotRevoked, Unauthorised, Answer
<1>3. Alone'
  BY <1>1, <1>2, AloneStep DEF PInv, PCs
<1>4. ~Saving(who[l])
  BY <1>1 DEF Saving, PInv, Alone, InFlight
<1>5. CASE Revoked(l)
  <2>1. LiveTokens(who[l])' = {} \/ who[l] \in leaked
    BY <1>1, <1>4, <1>5 DEF Revoked, LiveTokens, PInv, Alone, Kept
  <2>2. Kept'
    BY <1>1, <1>5, <2>1
    DEF Revoked, Goto, PInv, Inv, TypeOK, Kept, LiveTokens, Saving
  <2> QED
    BY <1>3, <2>2, InvInvalidate DEF PInv
<1>6. CASE live' = live /\ leaked' = leaked \cup {who[l]}
  <2>1. Kept'
    BY <1>1, <1>2, <1>6 DEF Goto, PInv, Inv, TypeOK, Kept, LiveTokens, Saving
  <2> QED
    BY <1>3, <2>1, InvInvalidate DEF PInv
<1>7. CASE Goto(l, "invalidate", "done") /\ UNCHANGED <<live, leaked>>
  <2>1. Kept'
    BY <1>1, <1>7 DEF Goto, PInv, Inv, TypeOK, Kept, LiveTokens, Saving
  <2> QED
    BY <1>3, <2>1, InvInvalidate DEF PInv
<1> QED
  BY <1>5, <1>6, <1>7 DEF Invalidate, NotRevoked, Unauthorised, Answer

LEMMA PInvIssue ==
    ASSUME Policy, PInv, NEW l \in Logins, Issue(l)
    PROVE  PInv'
<1>1. /\ who[l] \in Identities /\ pc[l] = "issue"
      /\ UNCHANGED <<store, who, value>>
  BY DEF Issue, Answer, Goto, PInv, Inv, Owners
<1>2. \E to \in {"store", "done"} : Goto(l, "issue", to)
  BY DEF Issue, Answer
<1>3. Alone'
  BY <1>1, <1>2, AloneStep DEF PInv, PCs
<1>4. LiveTokens(who[l]) = {} \/ who[l] \in leaked
  BY <1>1 DEF PInv, Kept
<1>5. ASSUME NEW t \in Fresh, Make(l, t), Goto(l, "issue", "store"),
             resp' = [resp EXCEPT ![l] = t], UNCHANGED leaked
      PROVE  Kept'
  <2>1. \A i \in Identities \ leaked :
           IF i = who[l] THEN LiveTokens(i)' \subseteq {t}
                         ELSE LiveTokens(i)' = LiveTokens(i)
    BY <1>1, <1>4, <1>5, ConstantsAssumption
    DEF Make, LiveTokens, PInv, Inv, TypeOK, Owners, Fresh
  <2>2. \A i \in Identities : i = who[l] => Saving(i)'
    BY <1>1, <1>5 DEF Goto, Saving, PInv, Inv, TypeOK
  <2>3. \A k \in Logins : k # l /\ who[k] = who[l] => pc[k] \in {"idle", "done"}
    BY <1>1 DEF PInv, Alone, InFlight
  <2>4. \A i \in Identities : Saving(i) => Saving(i)'
    BY <1>1, <1>5 DEF Goto, Saving, PInv, Inv, TypeOK
  <2> SUFFICES ASSUME NEW i \in Identities \ leaked, NEW s \in LiveTokens(i)'
               PROVE  /\ ~Saving(i)' => s = store[i]
                      /\ \A k \in Logins : who[k] = i =>
                            /\ pc'[k] # "issue"
                            /\ pc'[k] = "store" => s = resp'[k]
    BY <1>1, <1>5 DEF Kept
  <2>5. CASE i = who[l]
    BY <1>5, <2>1, <2>2, <2>3, <2>5 DEF Goto, PInv, Inv, TypeOK
  <2>6. CASE i # who[l]
    <3>1. s \in LiveTokens(i)
      BY <2>1, <2>6
    <3>2. ~Saving(i)' => s = store[i]
      BY <2>4, <3>1 DEF PInv, Kept
    <3>3. ASSUME NEW k \in Logins, who[k] = i
          PROVE  pc'[k] = pc[k] /\ resp'[k] = resp[k]
      BY <1>5, <2>6, <3>3 DEF Goto, PInv, Inv, TypeOK
    <3> QED
      BY <3>1, <3>2, <3>3 DEF PInv, Kept
  <2> QED
    BY <2>5, <2>6
<1>6. ASSUME NEW t \in Fresh, Make(l, t), Goto(l, "issue", "done"),
             UNCHANGED resp, leaked' = leaked \cup {who[l]}
      PROVE  Kept'
  <2>1. \A i \in Identities : i # who[l] => LiveTokens(i)' = LiveTokens(i)
    BY <1>1, <1>6, ConstantsAssumption
    DEF Make, LiveTokens, PInv, Inv, TypeOK, Owners, Fresh
  <2>2. \A i \in Identities : Saving(i)' <=> Saving(i)
    BY <1>1, <1>6 DEF Goto, Saving, PInv, Inv, TypeOK
  <2> QED
    BY <1>1, <1>6, <2>1, <2>2 DEF Goto, PInv, Inv, TypeOK, Kept
<1>7. ASSUME Goto(l, "issue", "done"), UNCHANGED <<live, issued, resp, leaked>>
      PROVE  Kept'
  <2> SUFFICES ASSUME NEW i \in Identities \ leaked, NEW s \in LiveTokens(i)
               PROVE  /\ ~Saving(i)' => s = store[i]
                      /\ \A k \in Logins : who[k] = i =>
                            /\ pc'[k] # "issue"
                            /\ pc'[k] = "store" => s = resp[k]
    BY <1>1, <1>7 DEF Kept, LiveTokens
  <2>1. Saving(i) => Saving(i)'
    BY <1>1, <1>7 DEF Goto, Saving, PInv, Inv, TypeOK
  <2>2. \A k \in Logins : pc'[k] \in {pc[k], "done"}
    BY <1>7 DEF Goto, PInv, Inv, TypeOK
  <2> QED
    BY <2>1, <2>2 DEF PInv, Kept
<1>8. Kept'
  <2>1. CASE UNCHANGED <<live, issued>>
    <3>1. \A t \in Fresh : ~Make(l, t)
      BY <2>1, FreshUnknown DEF Make, PInv
    <3>2. Goto(l, "issue", "done") /\ UNCHANGED <<resp, leaked>>
      BY <3>1 DEF Issue, Answer
    <3> QED
      BY <1>7, <2>1, <3>2
  <2>2. CASE ~UNCHANGED <<live, issued>>
    <3>1. PICK t \in Fresh :
            /\ Make(l, t)
            /\ \/ /\ Goto(l, "issue", "store")
                  /\ resp' = [resp EXCEPT ![l] = t]
                  /\ UNCHANGED <<outcome, leaked>>
               \/ /\ \E what \in {"blank", "failed"} : Answer(l, "issue", what)
                  /\ leaked' = leaked \cup {who[l]}
                  /\ UNCHANGED resp
      BY <2>2 DEF Issue
    <3> QED
      BY <1>5, <1>6, <3>1 DEF Answer
  <2> QED
    BY <2>1, <2>2
<1> QED
  BY <1>3, <1>8, InvIssue DEF PInv

LEMMA PInvSave ==
    ASSUME Policy, PInv, NEW l \in Logins, Save(l)
    PROVE  PInv'
<1>1. /\ who[l] \in Identities /\ pc[l] = "store"
      /\ pc' = [pc EXCEPT ![l] = "done"]
      /\ UNCHANGED <<live, issued, who, value, resp>>
  BY DEF Save, Answer, Goto, PInv, Inv, Owners
<1>2. \A k \in Logins : k # l /\ who[k] = who[l] => pc[k] \in {"idle", "done"}
  BY <1>1 DEF PInv, Alone, InFlight
<1>3. \A i \in Identities : i # who[l] => store'[i] = store[i]
  BY <1>1 DEF Save, PInv, Inv, TypeOK
<1>4. Alone'
  <2>1. ASSUME NEW k \in Logins, pc'[k] \notin {"idle", "done"}
        PROVE  k # l /\ pc'[k] = pc[k] /\ who[k] # who[l]
               /\ who[k] \in Identities
    BY <1>1, <1>2, <2>1 DEF PInv, Inv, TypeOK, Owners
  <2> QED
    BY <1>1, <1>3, <2>1 DEF PInv, Alone, InFlight
<1>5. \A i \in Identities : i # who[l] => (Saving(i) => Saving(i)')
  BY <1>1 DEF Saving, PInv, Inv, TypeOK
<1>6. who[l] \notin leaked' => store'[who[l]] = resp[l]
  BY <1>1 DEF Save, PInv, Inv, TypeOK
<1>7. Kept'
  <2> SUFFICES ASSUME NEW i \in Identities \ leaked', NEW t \in LiveTokens(i)
               PROVE  /\ ~Saving(i)' => t = store'[i]
                      /\ \A k \in Logins : who[k] = i =>
                            /\ pc'[k] # "issue"
                            /\ pc'[k] = "store" => t = resp[k]
    BY <1>1 DEF Kept, LiveTokens
  <2>1. i \notin leaked
    BY DEF Save
  <2>2. CASE i = who[l]
    BY <1>1, <1>2, <1>6, <2>1, <2>2 DEF PInv, Inv, TypeOK, Kept
  <2>3. CASE i # who[l]
    BY <1>1, <1>3, <1>5, <2>1, <2>3 DEF PInv, Inv, TypeOK, Kept
  <2> QED
    BY <2>2, <2>3
<1> QED
  BY <1>4, <1>7, InvSave DEF PInv

LEMMA PInvExpire ==
    ASSUME PInv, NEW t \in Tokens, Expire(t)
    PROVE  PInv'
<1>1. Inv'
  BY InvNext DEF Next, PInv
<1> QED
  BY <1>1
  DEF Expire, login, PInv, Alone, InFlight, Kept, LiveTokens, Saving

\* The memory store loses every reference: each identity it knew has a stray
\* token now, and one whose login was about to store its token as well.
LEMMA PInvCrash ==
    ASSUME Policy, PInv, Crash
    PROVE  PInv'
<1>1. Inv'
  BY InvCrash DEF PInv
<1>2. \A l \in Logins : pc'[l] \in {"idle", "done"}
  BY DEF Crash
<1>3. ASSUME NEW i \in Identities \ leaked' PROVE LiveTokens(i) = {}
  <2> SUFFICES ASSUME NEW t \in LiveTokens(i) PROVE FALSE
    OBVIOUS
  <2>1. i \notin leaked /\ store[i] = NoToken /\ ~Saving(i)
    BY <1>3 DEF Crash, Policy, Saving
  <2>2. t = NoToken /\ t \in Tokens
    BY <2>1 DEF PInv, Inv, TypeOK, Kept, LiveTokens
  <2> QED
    BY <2>2, ConstantsAssumption
<1>4. \A i \in Identities : LiveTokens(i)' = LiveTokens(i)
  BY DEF Crash, LiveTokens
<1> QED
  BY <1>1, <1>2, <1>3, <1>4 DEF PInv, Alone, Kept

LEMMA PInvNext == Policy /\ PInv /\ [Next]_vars => PInv'
<1> SUFFICES ASSUME Policy, PInv, [Next]_vars PROVE PInv'
  OBVIOUS
<1>1. ASSUME NEW l \in Logins, Start(l) \/ Step(l) PROVE PInv'
  BY <1>1, PInvStart, PInvLookup, PInvInvalidate, PInvIssue, PInvSave DEF Step
<1>2. CASE UNCHANGED vars
  <2>1. Inv'
    BY <1>2, InvNext DEF PInv
  <2> QED
    BY <1>2, <2>1
    DEF vars, login, PInv, Alone, InFlight, Kept, LiveTokens, Saving
<1> QED
  BY <1>1, <1>2, PInvExpire, PInvCrash DEF Next

LEMMA OneToken ==
    ASSUME PInv, NEW i \in Identities \ leaked,
           NEW s \in LiveTokens(i), NEW t \in LiveTokens(i)
    PROVE  s = t
<1>1. CASE Saving(i)
  BY <1>1 DEF Saving, PInv, Kept
<1>2. CASE ~Saving(i)
  BY <1>2 DEF PInv, Kept
<1> QED
  BY <1>1, <1>2

\* With the memory store and logins of one identity one after the other, no
\* identity ever has two tokens, unless a call failed or the broker was killed
\* during one of its logins.
THEOREM PolicyHolds == ASSUME Policy PROVE Spec => []OneTokenPerUser
<1>1. PInv => OneTokenPerUser
  BY OneToken DEF OneTokenPerUser
<1>2. PInv /\ [Next]_vars => PInv'
  BY PInvNext
<1> QED
  BY <1>1, <1>2, PInvInit, PTL DEF Spec

\* Under the same policy a user who is turned away because the old token could
\* not be revoked keeps it, and has been given no other.
THEOREM RefusedHasItsToken == ASSUME Policy PROVE Spec => RefusedKeepsToken
<1> DEFINE Turned(l) == outcome[l] # "refused" /\ outcome'[l] = "refused"
           Undone(l) ==
             /\ store'[who[l]] = value[l]
             /\ LiveTokens(who[l])' \subseteq {value[l]} \/ who[l] \in leaked'
<1>1. ASSUME PInv, Next, NEW l \in Logins, Turned(l) PROVE Undone(l)
  <2>1. ASSUME NEW k \in Logins, Start(k) \/ Lookup(k) PROVE FALSE
    BY <1>1, <2>1 DEF Start, Lookup, Looked
  <2>2. ASSUME NEW k \in Logins, Issue(k) \/ Save(k) PROVE FALSE
    BY <1>1, <2>2 DEF Issue, Save, Answer, PInv, Inv, TypeOK
  <2>3. ASSUME NEW t \in Tokens, Expire(t) PROVE FALSE
    BY <1>1, <2>3 DEF Expire, login
  <2>4. ~Crash
    BY <1>1 DEF Crash
  <2>5. PICK k \in Logins : Invalidate(k)
    BY <1>1, <2>1, <2>2, <2>3, <2>4 DEF Next, Step
  <2>6. k = l /\ pc[l] = "invalidate"
        /\ UNCHANGED <<store, live, issued, who, value, leaked>>
    BY <1>1, <2>5
    DEF Invalidate, Revoked, NotRevoked, Unauthorised, Answer, Goto,
        PInv, Inv, TypeOK
  <2>7. who[l] \in Identities /\ value[l] = store[who[l]]
    BY <1>1, <2>6 DEF PInv, Inv, Owners, Alone
  <2>8. ~Saving(who[l])
    <3> SUFFICES ASSUME NEW m \in Logins, pc[m] = "store", who[m] = who[l]
                 PROVE  FALSE
      BY DEF Saving
    <3>1. m = l
      BY <1>1, <2>6 DEF PInv, Alone, InFlight
    <3> QED
      BY <2>6, <3>1
  <2>9. who[l] \notin leaked => LiveTokens(who[l]) \subseteq {value[l]}
    BY <1>1, <2>7, <2>8 DEF PInv, Kept
  <2> QED
    BY <2>6, <2>7, <2>9 DEF LiveTokens
<1>2. PInv /\ [Next]_vars
        => [\A l \in Logins : Turned(l) => Undone(l)]_vars
  BY <1>1
<1>3. PInv /\ [Next]_vars => PInv'
  BY PInvNext
<1> QED
  BY <1>2, <1>3, PInvInit, PTL DEF Spec, RefusedKeepsToken

-------------------------------------------------------------------------------
(***************************************************************************)
(* The token ledger, under the same policy.                                *)
(***************************************************************************)

LEMMA LedgerInit == Init => Ledger!Init
BY DEF Init, Ledger!Init, Books, Given, LiveTokens

\* The books after a step.
LEMMA BooksNext ==
    \A i \in Identities :
        Books'[i] = IF i \in leaked' THEN {} ELSE LiveTokens(i)'
BY DEF Books, LiveTokens

\* Steps that make and take no token, and fail no one.
LEMMA LedgerQuiet ==
    ASSUME UNCHANGED <<live, issued, leaked>>
    PROVE  UNCHANGED Ledger!vars
BY DEF Ledger!vars, Books, Given, LiveTokens

\* Calls that fail.
LEMMA LedgerMislay ==
    ASSUME NEW gone \in SUBSET Identities,
           leaked' = leaked \cup gone, UNCHANGED <<live, issued>>
    PROVE  Ledger!Next
<1>1. Ledger!Mislay(gone)
  BY DEF Ledger!Mislay, Ledger!StrikeOff, Books, Given, LiveTokens
<1> QED
  BY <1>1 DEF Ledger!Next

\* The one token of an identity is revoked or expires.
LEMMA LedgerWithdraw ==
    ASSUME PInv, NEW t \in live,
           live' = live \ {t}, UNCHANGED <<issued, leaked>>
    PROVE  Ledger!Next
<1> DEFINE i == issued[t]
<1>1. i \in Identities /\ t \in LiveTokens(i)
  BY DEF PInv, Inv, TypeOK, Owners, LiveTokens
<1>2. ASSUME i \notin leaked PROVE LiveTokens(i)' = {}
  BY <1>1, <1>2, OneToken DEF LiveTokens
<1>3. \A j \in Identities \ {i} : LiveTokens(j)' = LiveTokens(j)
  BY DEF LiveTokens
<1>4. Ledger!Withdraw(i)
  BY <1>1, <1>2, <1>3 DEF Ledger!Withdraw, Books, Given
<1> QED
  BY <1>1, <1>4 DEF Ledger!Next

\* A fresh token is made for one identity: if that holds a token already, or is
\* not told of this one, a failure has befallen it.
LEMMA LedgerMake ==
    ASSUME PInv, NEW l \in Logins, pc[l] = "issue", NEW t \in Fresh, Make(l, t),
           NEW i, i = who[l], leaked' = leaked \/ leaked' = leaked \cup {i}
    PROVE  Ledger!Next
<1>1. i \in Identities /\ t \in Tokens /\ i # NoIdentity
  BY ConstantsAssumption DEF PInv, Inv, Owners, Fresh
<1>2. t \notin Given /\ Given' = Given \cup {t}
  BY <1>1 DEF Make, Fresh, Given, PInv, Inv, TypeOK
<1>3. \A j \in Identities \ {i} : LiveTokens(j)' = LiveTokens(j)
  BY <1>1, ConstantsAssumption
  DEF Make, LiveTokens, Fresh, PInv, Inv, TypeOK, Owners
<1>4. CASE i \in leaked'
  <2>1. leaked' = leaked \cup {i}
    BY <1>4
  <2>2. Books' = [j \in Identities |-> IF j \in {i} THEN {} ELSE Books[j]]
    <3>1. \A j \in Identities : Books'[j] = IF j \in {i} THEN {} ELSE Books[j]
      BY <1>3, <2>1, BooksNext DEF Books
    <3> QED
      BY <3>1 DEF Books
  <2>3. Ledger!Overdraw(i, t)
    BY <1>2, <2>1, <2>2 DEF Ledger!Overdraw, Ledger!StrikeOff
  <2> QED
    BY <1>1, <2>3 DEF Ledger!Next
<1>5. CASE i \notin leaked'
  <2>1. i \notin leaked /\ leaked' = leaked
    BY <1>5
  <2>2. LiveTokens(i) = {}
    BY <1>1, <2>1 DEF PInv, Kept
  <2>3. LiveTokens(i)' = {t}
    BY <1>1, <2>2 DEF Make, LiveTokens, PInv, Inv, TypeOK
  <2>4. Books[i] = {}
    BY <1>1, <2>2 DEF Books
  <2>5. Books' = [Books EXCEPT ![i] = {t}]
    <3>1. \A j \in Identities : Books'[j] = IF j = i THEN {t} ELSE Books[j]
      BY <1>3, <2>1, <2>3, BooksNext DEF Books
    <3> QED
      BY <1>1, <3>1 DEF Books
  <2>6. Ledger!Grant(i, t)
    BY <1>2, <2>1, <2>4, <2>5 DEF Ledger!Grant
  <2> QED
    BY <1>1, <2>6 DEF Ledger!Next
<1> QED
  BY <1>4, <1>5

LEMMA LedgerStep ==
    ASSUME Policy, PInv, [Next]_vars
    PROVE  [Ledger!Next]_(Ledger!vars)
<1>1. ASSUME NEW l \in Logins, Start(l)
      PROVE  UNCHANGED Ledger!vars
  BY <1>1, LedgerQuiet DEF Start
<1>2. ASSUME NEW l \in Logins, Lookup(l) \/ Save(l)
      PROVE  [Ledger!Next]_(Ledger!vars)
  <2>1. who[l] \in Identities /\ UNCHANGED <<live, issued>>
    BY <1>2 DEF Lookup, Looked, Save, Answer, Goto, PInv, Inv, Owners
  <2>2. leaked' = leaked \/ leaked' = leaked \cup {who[l]}
    BY <1>2 DEF Lookup, Save
  <2> QED
    BY <2>1, <2>2, LedgerQuiet, LedgerMislay
<1>3. ASSUME NEW l \in Logins, Invalidate(l)
      PROVE  [Ledger!Next]_(Ledger!vars)
  <2>1. who[l] \in Identities /\ UNCHANGED issued
    BY <1>3
    DEF Invalidate, Revoked, NotRevoked, Unauthorised, Answer, Goto, PInv, Inv,
        Owners
  <2>2. CASE Revoked(l)
    <3>1. CASE value[l] \in live
      BY <2>1, <2>2, <3>1, LedgerWithdraw DEF Revoked
    <3>2. CASE value[l] \notin live
      BY <2>1, <2>2, <3>2, LedgerQuiet DEF Revoked
    <3> QED
      BY <3>1, <3>2
  <2>3. CASE NotRevoked(l) \/ Unauthorised(l)
    <3>1. /\ UNCHANGED live
          /\ leaked' = leaked \/ leaked' = leaked \cup {who[l]}
      BY <2>3 DEF NotRevoked, Unauthorised
    <3> QED
      BY <2>1, <3>1, LedgerQuiet, LedgerMislay
  <2> QED
    BY <1>3, <2>2, <2>3 DEF Invalidate
<1>4. ASSUME NEW l \in Logins, Issue(l)
      PROVE  [Ledger!Next]_(Ledger!vars)
  <2>1. CASE \E t \in Fresh : Make(l, t)
    <3>1. PICK t \in Fresh : Make(l, t)
      BY <2>1
    <3>2. pc[l] = "issue"
          /\ (leaked' = leaked \/ leaked' = leaked \cup {who[l]})
      BY <1>4 DEF Issue, Answer, Goto
    <3> QED
      BY <3>1, <3>2, LedgerMake
  <2>2. CASE ~\E t \in Fresh : Make(l, t)
    BY <1>4, <2>2, LedgerQuiet DEF Issue
  <2> QED
    BY <2>1, <2>2
<1>5. ASSUME NEW t \in Tokens, Expire(t) PROVE Ledger!Next
  BY <1>5, LedgerWithdraw DEF Expire
<1>6. CASE Crash
  <2> DEFINE gone == {who[l] : l \in {k \in Logins : pc[k] = "store"}}
                     \cup {i \in Identities : store[i] # NoToken}
  <2>1. leaked' = leaked \cup gone /\ UNCHANGED <<live, issued>>
    BY <1>6 DEF Crash, Policy
  <2>2. gone \in SUBSET Identities
    BY DEF PInv, Inv, Owners
  <2> QED
    BY <2>1, <2>2, LedgerMislay
<1>7. CASE UNCHANGED vars
  BY <1>7, LedgerQuiet DEF vars
<1> QED
  BY <1>1, <1>2, <1>3, <1>4, <1>5, <1>6, <1>7 DEF Next, Step

\* Where the policy can hold, the handlers keep the ledger: an identity's token
\* is withdrawn before the next one is granted, and no login touches another
\* identity's, whatever fails (tyk_handler.go 340-496).
THEOREM LedgerImplemented == ASSUME Policy PROVE Spec => ImplementsLedger
<1>1. PInv /\ [Next]_vars => PInv'
  BY PInvNext
<1>2. PInv /\ [Next]_vars => [Ledger!Next]_(Ledger!vars)
  BY LedgerStep
<1> QED
  BY <1>1, <1>2, PInvInit, LedgerInit, PTL
  DEF Spec, ImplementsLedger, Ledger!Spec

-------------------------------------------------------------------------------
(***************************************************************************)
(* The Redis store.                                                        *)
(***************************************************************************)

\* With the Redis store no login ever revokes anything, whatever it is asked to
\* enforce: GetKey decodes what SetKey did not encode, its error counts as "no
\* token", and every login adds one (redis.go 127-160, tyk_handler.go 340-380).
THEOREM RedisNeverRevokes ==
    ASSUME Backend = "redis"
    PROVE  Spec => [][\A t \in live \ live' : Expire(t)]_vars
<1> DEFINE Idle == \A l \in Logins : pc[l] # "invalidate"
<1>1. Init => Idle
  BY DEF Init
<1>2. TypeOK /\ Idle /\ [Next]_vars => Idle'
  <2>1. ASSUME TypeOK, Idle, NEW l \in Logins, Start(l) \/ Step(l) PROVE Idle'
    BY <2>1
    DEF Start, Step, Lookup, Looked, Found, Invalidate, Revoked, NotRevoked,
        Unauthorised, Issue, Save, Answer, Goto, TypeOK
  <2> QED
    BY <2>1 DEF Next, Expire, Crash, login, vars
<1>3. TypeOK /\ Idle /\ [Next]_vars => [\A t \in live \ live' : Expire(t)]_vars
  <2> SUFFICES ASSUME TypeOK, Idle, Next, NEW t \in live \ live' PROVE Expire(t)
    OBVIOUS
  <2>1. ASSUME NEW l \in Logins, Start(l) \/ Step(l) PROVE FALSE
    BY <2>1
    DEF Start, Step, Lookup, Looked, Invalidate, Revoked, NotRevoked,
        Unauthorised, Issue, Make, Save, Answer, Goto
  <2>2. ASSUME NEW s \in Tokens, Expire(s) PROVE s = t
    BY <2>2 DEF Expire
  <2> QED
    BY <2>1, <2>2 DEF Next, Crash
<1> QED
  BY <1>1, <1>2, <1>3, TokenTyping, PTL DEF Spec

-------------------------------------------------------------------------------
(***************************************************************************)
(* Progress.                                                               *)
(***************************************************************************)

\* The calls that may follow a call of a login, and its end.
After(at) ==
    CASE at = "idle" -> {"lookup", "issue"}
      [] at = "lookup" -> {"invalidate", "issue", "done"}
      [] at = "invalidate" -> {"issue", "done"}
      [] at = "issue" -> {"store", "done"}
      [] at = "store" -> {"done"}
      [] OTHER -> {}

LEMMA StepGoesOn ==
    ASSUME TypeOK, NEW l \in Logins, Step(l)
    PROVE  /\ pc'[l] \in After(pc[l])
           /\ \A k \in Logins \ {l} : pc'[k] = pc[k]
BY DEF Step, Lookup, Looked, Invalidate, Revoked, NotRevoked, Unauthorised, Issue,
       Save, Answer, Goto, TypeOK, After

\* Nobody takes a login back to a call it has made.
LEMMA NeverBack ==
    ASSUME TypeOK, [Next]_vars, NEW l \in Logins
    PROVE  pc'[l] = pc[l] \/ pc'[l] \in After(pc[l])
<1>1. ASSUME NEW k \in Logins, Start(k)
      PROVE  pc'[l] = pc[l] \/ pc'[l] \in After(pc[l])
  BY <1>1 DEF Start, Goto, TypeOK, After
<1>2. ASSUME NEW k \in Logins, Step(k)
      PROVE  pc'[l] = pc[l] \/ pc'[l] \in After(pc[l])
  BY <1>2, StepGoesOn
<1>3. CASE Crash
  BY <1>3 DEF Crash, TypeOK, PCs, After
<1> QED
  BY <1>1, <1>2, <1>3 DEF Next, Expire, login, vars

\* If every call returns and no login is ever stuck, every login is answered:
\* a login makes at most four calls, whatever fails and however often.
THEOREM EveryLoginAnswered == FairSpec /\ []NeverStuck => Served
<1> SUFFICES ASSUME NEW l \in Logins
             PROVE  FairSpec /\ []NeverStuck
                      => (pc[l] \notin {"idle", "done"} ~> pc[l] = "done")
  BY DEF Served
<1> DEFINE Busy == pc[l] \notin {"idle", "done"}
           Late == pc[l] \in {"invalidate", "issue", "store"}
           Later == pc[l] \in {"issue", "store"}
           Last == pc[l] = "store"
           Done == pc[l] = "done"
<1>1. FairSpec => Fair(l)
  BY DEF FairSpec
<1>2. NeverStuck => (Busy => ENABLED <<Step(l)>>_vars)
  BY DEF NeverStuck
<1>3. TypeOK /\ [Next]_vars =>
        /\ Busy => Busy' \/ Done'
        /\ Late => Late' \/ Done'
        /\ Later => Later' \/ Done'
        /\ Last => Last' \/ Done'
  BY NeverBack DEF After, TypeOK, PCs
<1>4. TypeOK /\ <<Step(l)>>_vars =>
        /\ Busy => Late' \/ Done'
        /\ Late => Later' \/ Done'
        /\ Later => Last' \/ Done'
        /\ Last => Done'
  BY StepGoesOn DEF After, TypeOK, PCs
<1>5. Late \/ Later \/ Last => Busy
  OBVIOUS
<1> QED
  BY <1>1, <1>2, <1>3, <1>4, <1>5, TokenTyping, PTL DEF FairSpec, Fair, Spec
===============================================================================
