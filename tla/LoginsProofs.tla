----------------------------- MODULE LoginsProofs -----------------------------
(***************************************************************************)
(* Proofs about logins of all kinds, for any number of logins, people,     *)
(* names and profiles, any edits, closed accounts, failing calls, crashes  *)
(* and any number of connections.                                          *)
(*                                                                         *)
(* A step of one login leaves what the others hold alone (Others), so that *)
(* what each login holds at each of its steps (Local) is preserved by a    *)
(* proof about the login that steps.  Accounts only close.                 *)
(***************************************************************************)
EXTENDS Logins, TLAPS, FiniteSetTheorems

Has(l, provider) ==
    /\ held[l] # NoProfile
    /\ held[l].provider = provider
    /\ held[l].setup = "good"

\* What a login with a connection, or on its way to one, holds.
LocalLDAP(l) ==
    /\ pc[l] \in {"dial", "bind", "search", "rebind"} => Has(l, "ldap")
    /\ pc[l] \in {"bind", "search", "rebind"} =>
         /\ form[l].name \in Names
         /\ l \notin conns => l \in disturbed
    /\ (pc[l] = "search" /\ ~held[l].admin) =>
         form[l].secret = AccountOf[form[l].name]
    /\ pc[l] = "rebind" =>
         /\ held[l].admin
         /\ found[l] \in EntriesOf[form[l].name]
         /\ Matches(l) \subseteq {found[l]}
    /\ l \in conns =>
         /\ Has(l, "ldap")
         /\ \/ pc[l] \in {"bind", "search", "rebind", "complete"}
            \/ pc[l] = "done" /\ outcome[l] \in {"failed", "aborted"}

\* What a login at an identity provider holds.
LocalSAML(l) ==
    /\ pc[l] \in {"redirect", "parse", "describe"} =>
         /\ Has(l, "saml")
         /\ ~SetUpPanics(held[l])
         /\ middleware[l] \in {Leaves(held[l], TRUE), Leaves(held[l], FALSE)}
         /\ l \notin disturbed => middleware[l] = Leaves(held[l], TRUE)
    /\ pc[l] = "away" => sentTo[l] \in IdPs
    /\ pc[l] \in {"callback", "parse"} => assertion[l].idp \in IdPs

LocalFlow(l) ==
    /\ pc[l] \in {"idle", "auth", "metadata", "redirect", "away", "callback"} =>
         form[l] = NoForm
    /\ pc[l] \notin {"complete", "done"} => identity[l] = NoIdentity
    /\ pc[l] # "done" => outcome[l] = "none"
    /\ pc[l] = "forward" => Has(l, "proxy")
    /\ pc[l] = "complete" => held[l] # NoProfile

\* What is known of an identity, beyond that it is vouched for.
Known(l) ==
    identity[l] # NoIdentity =>
        /\ Vouched(l)
        /\ identity[l].provider = "proxy" =>
             identity[l].user \in Names \cup {NoName, l}
        /\ (identity[l].provider = "ldap" /\ held[l].admin) =>
             Matches(l) \subseteq {identity[l].mail}

Earned(l) ==
    outcome[l] \in {"failed", "blank", "aborted"} /\ Deserving(l)
    => l \in disturbed

Local(l) ==
    LocalLDAP(l) /\ LocalSAML(l) /\ LocalFlow(l) /\ Known(l) /\ Earned(l)

Finite == IsFiniteSet(conns) /\ Cardinality(conns) <= MaxConns

\* Two logins with one name at one LDAP server.
ApartByLDAP(l, k) ==
    (/\ SameKey(l, k) /\ identity[l].provider = "ldap"
     /\ held[l].admin /\ held[k].admin
     /\ form[l].name = form[k].name)
    => identity[l].mail = identity[k].mail

Inv ==
    /\ TypeOK
    /\ Finite
    /\ \A l \in Logins : Local(l)
    /\ \A l, k \in Logins : ApartByLDAP(l, k)

\* What the invariant says of a login has not changed.
Same(l) ==
    /\ pc'[l] = pc[l]
    /\ form'[l] = form[l]
    /\ held'[l] = held[l]
    /\ identity'[l] = identity[l]
    /\ outcome'[l] = outcome[l]
    /\ middleware'[l] = middleware[l]
    /\ sentTo'[l] = sentTo[l]
    /\ assertion'[l] = assertion[l]
    /\ found'[l] = found[l]
    /\ l \in conns' <=> l \in conns
    /\ l \in disturbed' <=> l \in disturbed

\* A step of a login, or one it makes its user take.
StepOf(l) ==
    \/ Ask(l) /\ UNCHANGED <<ldap, saml>>
    \/ Initiate(l) /\ UNCHANGED ldap
    \/ Authenticate(l) /\ UNCHANGED ldap
    \/ Step(l)

-------------------------------------------------------------------------------
(***************************************************************************)
(* Logins that do not step                                                 *)
(***************************************************************************)

LEMMA LocalSame ==
    ASSUME NEW l \in Logins, Local(l), Same(l), accounts' \subseteq accounts
    PROVE  Local(l)'
<1>1. LocalLDAP(l)'
  BY DEF Local, LocalLDAP, Same, Has, Matches
<1>2. LocalSAML(l)'
  BY DEF Local, LocalSAML, Same, Has
<1>3. LocalFlow(l)'
  BY DEF Local, LocalFlow, Same, Has
<1>4. Known(l)'
  BY DEF Local, Known, Same, Vouched, VouchedByLDAP, VouchedByTarget,
         VouchedByIdP, UserName, Matches
<1>5. Earned(l)'
  BY DEF Local, Earned, Same, Deserving, Incomplete
<1> QED
  BY <1>1, <1>2, <1>3, <1>4, <1>5 DEF Local

LEMMA InvInit == Init => Inv
<1> SUFFICES ASSUME Init PROVE Inv
  OBVIOUS
<1> USE DEF Init, InitFlow, InitLDAP, InitSAML
<1>1. TypeFlow
  BY LoginAssumption DEF TypeFlow, PCs, FormType, NoForm, Outcomes
<1>2. TypeLDAP /\ TypeSAML
  BY DEF TypeLDAP, TypeSAML, Middlewares
<1>3. Finite
  BY FS_EmptySet, LDAPAssumption DEF Finite
<1>4. ASSUME NEW l \in Logins PROVE Local(l)
  BY DEF Local, LocalLDAP, LocalSAML, LocalFlow, Known, Earned
<1>5. \A l, k \in Logins : ApartByLDAP(l, k)
  BY DEF ApartByLDAP, SameKey
<1> QED
  BY <1>1, <1>2, <1>3, <1>4, <1>5 DEF Inv, TypeOK
LEMMA Others ==
    ASSUME NEW r \in Logins, NEW k \in Logins, k # r, TypeOK, StepOf(r)
    PROVE  Same(k) /\ accounts' = accounts
<1> USE DEF TypeOK, TypeFlow, TypeLDAP, TypeSAML, Same, Goto, End, Excuse, flow,
            store, ldap, saml
<1>1. CASE (Ask(r) /\ UNCHANGED <<ldap, saml>>) \/ (Initiate(r) /\ UNCHANGED ldap)
  BY <1>1 DEF Ask, Initiate
<1>2. CASE Authenticate(r) /\ UNCHANGED ldap
  BY <1>2 DEF Authenticate
<1>3. CASE Dispatch(r) /\ UNCHANGED <<ldap, saml>>
  BY <1>3 DEF Dispatch, Unusable, Unsupported
<1>4. CASE LDAPStep(r) /\ UNCHANGED saml
  <2>1. CASE Submit(r, "ldap", "dial") /\ UNCHANGED ldap
    BY <1>4, <2>1 DEF Submit
  <2>2. CASE Dial(r)
    BY <1>4, <2>2 DEF Dial
  <2>3. CASE Bind(r)
    BY <1>4, <2>3 DEF Bind
  <2>4. CASE Search(r)
    BY <1>4, <2>4 DEF Search, Identify, AttributePanics
  <2>5. CASE Rebind(r)
    BY <1>4, <2>5 DEF Rebind, Identify, AttributePanics
  <2>6. CASE CompleteLDAP(r)
    BY <1>4, <2>6 DEF CompleteLDAP
  <2> QED
    BY <1>4, <2>1, <2>2, <2>3, <2>4, <2>5, <2>6 DEF LDAPStep
<1>5. CASE ProxyStep(r) /\ UNCHANGED <<ldap, saml>>
  BY <1>5 DEF ProxyStep, Submit, Forward, Identify
<1>6. CASE SAMLStep(r) /\ UNCHANGED ldap
  <2>1. ASSUME NEW entry, NEW to, SetUp(r, entry, to)
        PROVE  Same(k) /\ accounts' = accounts
    BY <1>6, <2>1 DEF SetUp
  <2>2. CASE Redirect(r)
    BY <1>6, <2>2 DEF Redirect
  <2>3. CASE Parse(r)
    BY <1>6, <2>3 DEF Parse, Identify
  <2>4. CASE Describe(r)
    BY <1>6, <2>4 DEF Describe
  <2> QED
    BY <1>6, <2>1, <2>2, <2>3, <2>4 DEF SAMLStep
<1>7. CASE Complete(r) /\ UNCHANGED <<ldap, saml>>
  BY <1>7 DEF Complete
<1> QED
  BY <1>1, <1>2, <1>3, <1>4, <1>5, <1>6, <1>7 DEF StepOf, Step

-------------------------------------------------------------------------------
(***************************************************************************)
(* Users and entry points                                                  *)
(***************************************************************************)

LEMMA ProfileFields ==
    ASSUME NEW p \in Profiles
    PROVE  /\ p \in ProfileType
           /\ p.provider \in {"ldap", "proxy", "saml", "invalid"}
           /\ p.provider = "saml" =>
                p.idp \in IdPs /\ p.cert \in Certs /\ p.claims \subseteq {"names", "mail"}
<1>1. p \in ProfileType
  BY LoginAssumption
<1> QED
  BY <1>1 DEF ProfileType

LEMMA AskKeeps ==
    ASSUME NEW r \in Logins, TypeOK, Finite, Local(r),
           Ask(r), UNCHANGED <<ldap, saml>>
    PROVE  TypeOK' /\ Finite' /\ Local(r)'
<1> USE DEF Ask, Goto, store, ldap, saml
<1>1. TypeOK' /\ Finite'
  BY DEF TypeOK, TypeFlow, TypeLDAP, TypeSAML, PCs, Serving, Entries, Finite
<1>2. /\ pc[r] = "idle" /\ pc'[r] \in {"auth", "metadata"}
      /\ r \notin conns' /\ identity'[r] = NoIdentity /\ outcome'[r] = "none"
      /\ form'[r] = NoForm
  BY DEF TypeOK, TypeFlow, Local, LocalLDAP, LocalFlow
<1> QED
  BY <1>1, <1>2 DEF Local, LocalLDAP, LocalSAML, LocalFlow, Known, Earned

LEMMA InitiateKeeps ==
    ASSUME NEW r \in Logins, TypeOK, Finite, Local(r),
           Initiate(r), UNCHANGED ldap
    PROVE  TypeOK' /\ Finite' /\ Local(r)'
<1> USE DEF Initiate, Goto, store, ldap
<1>1. PICK i \in IdPs, p \in accounts :
         assertion' = [assertion EXCEPT ![r] = [idp |-> i, person |-> p]]
  OBVIOUS
<1>2. [idp |-> i, person |-> p] \in Assertions
  BY DEF Assertions, TypeOK, TypeFlow
<1>3. TypeOK' /\ Finite'
  BY <1>1, <1>2 DEF TypeOK, TypeFlow, TypeLDAP, TypeSAML, PCs, Serving, Entries,
                    Finite
<1>4. /\ pc[r] = "idle" /\ pc'[r] = "callback" /\ assertion'[r].idp \in IdPs
      /\ r \notin conns' /\ identity'[r] = NoIdentity /\ outcome'[r] = "none"
      /\ form'[r] = NoForm
  BY <1>1 DEF TypeOK, TypeFlow, TypeSAML, Local, LocalLDAP, LocalFlow
<1> QED
  BY <1>3, <1>4 DEF Local, LocalLDAP, LocalSAML, LocalFlow, Known, Earned

LEMMA AuthenticateKeeps ==
    ASSUME NEW r \in Logins, TypeOK, Finite, Local(r),
           Authenticate(r), UNCHANGED ldap
    PROVE  TypeOK' /\ Finite' /\ Local(r)'
<1> USE DEF Authenticate, Goto, store, ldap
<1>1. PICK p \in accounts \cup {Nobody} :
         assertion' = [assertion EXCEPT ![r] = [idp |-> sentTo[r], person |-> p]]
  OBVIOUS
<1>2. sentTo[r] \in IdPs
  BY DEF Local, LocalSAML
<1>3. [idp |-> sentTo[r], person |-> p] \in Assertions
  BY <1>2 DEF Assertions, TypeOK, TypeFlow
<1>4. TypeOK' /\ Finite'
  BY <1>1, <1>3 DEF TypeOK, TypeFlow, TypeLDAP, TypeSAML, PCs, Serving, Entries,
                    Finite
<1>5. /\ pc[r] = "away" /\ pc'[r] = "callback" /\ assertion'[r].idp \in IdPs
      /\ r \notin conns' /\ identity'[r] = NoIdentity /\ outcome'[r] = "none"
      /\ form'[r] = NoForm
  BY <1>1, <1>2 DEF TypeOK, TypeFlow, TypeSAML, Local, LocalLDAP, LocalFlow
<1> QED
  BY <1>4, <1>5 DEF Local, LocalLDAP, LocalSAML, LocalFlow, Known, Earned

LEMMA DispatchKeeps ==
    ASSUME NEW r \in Logins, TypeOK, Finite, Local(r),
           Dispatch(r), UNCHANGED <<ldap, saml>>
    PROVE  TypeOK' /\ Finite' /\ Local(r)'
<1>1. PICK entry \in Entries, what \in Unsuccessful :
         /\ End(r, entry, what)
         /\ held' = [held EXCEPT ![r] = profile]
         /\ UNCHANGED <<form, disturbed>>
         /\ \/ profile = NoProfile
            \/ /\ profile # NoProfile
               /\ profile.provider = "invalid" \/ profile.setup # "good"
            \/ /\ profile # NoProfile
               /\ profile.provider \in {"ldap", "proxy"}
  <2>1. PICK entry \in Entries : \/ Unusable(r, entry)
                                \/ Unsupported(r, entry, "ldap")
                                \/ Unsupported(r, entry, "proxy")
    BY DEF Dispatch
  <2>2. CASE Unusable(r, entry)
    BY <2>2 DEF Unusable, Refusal, Unsuccessful
  <2>3. CASE Unsupported(r, entry, "ldap") \/ Unsupported(r, entry, "proxy")
    BY <2>3 DEF Unsupported, Finds, Unsuccessful
  <2> QED
    BY <2>1, <2>2, <2>3
<1> USE DEF Goto, End, store, ldap, saml
<1>2. TypeOK' /\ Finite'
  BY <1>1 DEF Dispatch, TypeOK, TypeFlow, TypeLDAP, TypeSAML, PCs, Finite, Outcomes
<1>3. /\ pc[r] \in Entries /\ pc'[r] = "done"
      /\ r \notin conns' /\ identity'[r] = NoIdentity
      /\ form'[r] = NoForm /\ held'[r] = profile
  BY <1>1 DEF Dispatch, TypeOK, TypeFlow, Local, LocalLDAP, LocalFlow, Entries
<1>4. ~Deserving(r)'
  BY <1>1, <1>3 DEF Deserving, Incomplete, NoForm
<1> QED
  BY <1>2, <1>3, <1>4 DEF Local, LocalLDAP, LocalSAML, LocalFlow, Known, Earned

LEMMA SubmitKeeps ==
    ASSUME NEW r \in Logins, TypeOK, Finite, Local(r), NEW provider, NEW to,
           <<provider, to>> \in {<<"ldap", "dial">>, <<"proxy", "forward">>},
           Submit(r, provider, to), UNCHANGED <<ldap, saml>>
    PROVE  TypeOK' /\ Finite' /\ Local(r)'
<1> USE DEF Submit, Goto, store, ldap, saml
<1>1. PICK f \in Forms : form' = [form EXCEPT ![r] = f]
  OBVIOUS
<1>2. TypeOK' /\ Finite'
  BY <1>1, LoginAssumption
  DEF TypeOK, TypeFlow, TypeLDAP, TypeSAML, PCs, Serving, Finite
<1>3. /\ pc[r] = "auth" /\ pc'[r] = to
      /\ r \notin conns' /\ identity'[r] = NoIdentity /\ outcome'[r] = "none"
      /\ held'[r] = profile
  BY DEF TypeOK, TypeFlow, Local, LocalLDAP, LocalFlow
<1>4. held'[r] # NoProfile /\ held'[r].provider = provider /\ held'[r].setup = "good"
  BY <1>3 DEF Finds
<1> QED
  BY <1>2, <1>3, <1>4
  DEF Local, LocalLDAP, LocalSAML, LocalFlow, Known, Earned, Has
-------------------------------------------------------------------------------
(***************************************************************************)
(* LDAP                                                                    *)
(***************************************************************************)

LEMMA DialKeeps ==
    ASSUME NEW r \in Logins, TypeOK, Finite, Local(r), Dial(r), UNCHANGED saml
    PROVE  TypeOK' /\ Finite' /\ Local(r)'
<1> USE DEF Dial, Goto, End, Excuse, store, saml
<1>1. /\ pc[r] = "dial" /\ Has(r, "ldap")
      /\ r \notin conns /\ identity[r] = NoIdentity /\ outcome[r] = "none"
  BY DEF Local, LocalLDAP, LocalFlow
<1>2. TypeOK'
  BY DEF TypeOK, TypeFlow, TypeLDAP, TypeSAML, PCs, Serving, Outcomes, Unsuccessful
<1>3. Finite'
  <2>1. CASE Cardinality(conns) < MaxConns /\ conns' = conns \cup {r}
    <3>1. IsFiniteSet(conns') /\ Cardinality(conns') = Cardinality(conns) + 1
      BY <1>1, <2>1, FS_AddElement DEF Finite
    <3>2. Cardinality(conns) \in Nat
      BY FS_CardinalityType DEF Finite
    <3> QED
      BY <2>1, <3>1, <3>2, LDAPAssumption DEF Finite
  <2>2. CASE UNCHANGED conns
    BY <2>2 DEF Finite
  <2> QED
    BY <2>1, <2>2
<1>4. /\ held'[r] = held[r] /\ form'[r] = form[r] /\ identity'[r] = NoIdentity
      /\ r \notin conns' => r \in disturbed'
      /\ accounts' = accounts
  BY <1>1 DEF TypeOK, TypeFlow
<1>5. CASE Incomplete(r)
  <2>1. pc'[r] = "done" /\ outcome'[r] = "failed"
    BY <1>5 DEF TypeOK, TypeFlow
  <2>2. ~Deserving(r)'
    BY <1>1, <1>4, <1>5 DEF Deserving, Has, Incomplete
  <2> QED
    BY <1>1, <1>2, <1>3, <1>4, <2>1, <2>2
    DEF Local, LocalLDAP, LocalSAML, LocalFlow, Known, Earned, Has
<1>6. CASE ~Incomplete(r)
  <2>1. pc'[r] = "bind" /\ outcome'[r] = "none"
    BY <1>1, <1>6 DEF TypeOK, TypeFlow
  <2>2. form[r].name \in Names
    BY <1>6 DEF Incomplete, TypeOK, TypeFlow, FormType
  <2> QED
    BY <1>1, <1>2, <1>3, <1>4, <2>1, <2>2
    DEF Local, LocalLDAP, LocalSAML, LocalFlow, Known, Earned, Has
<1> QED
  BY <1>5, <1>6

LEMMA BindKeeps ==
    ASSUME NEW r \in Logins, TypeOK, Finite, Local(r), Bind(r), UNCHANGED saml
    PROVE  TypeOK' /\ Finite' /\ Local(r)'
<1> USE DEF Bind, Goto, End, Excuse, store, saml, ldap
<1>1. /\ pc[r] = "bind" /\ Has(r, "ldap")
      /\ form[r].name \in Names /\ (r \notin conns => r \in disturbed)
      /\ identity[r] = NoIdentity /\ outcome[r] = "none"
  BY DEF Local, LocalLDAP, LocalFlow
<1>2. TypeOK' /\ Finite'
  BY DEF TypeOK, TypeFlow, TypeLDAP, TypeSAML, PCs, Serving, Outcomes,
         Unsuccessful, Finite
<1>3. /\ held'[r] = held[r] /\ form'[r] = form[r] /\ identity'[r] = NoIdentity
      /\ accounts' = accounts /\ conns' = conns
      /\ r \in disturbed => r \in disturbed'
  BY <1>1 DEF TypeOK, TypeFlow
<1>4. CASE r \in conns /\ BindAccepted(r) /\ pc' = [pc EXCEPT ![r] = "search"]
  <2>1. pc'[r] = "search" /\ outcome'[r] = "none"
    BY <1>1, <1>4 DEF TypeOK, TypeFlow
  <2>2. ~held[r].admin => form[r].secret = AccountOf[form[r].name]
    BY <1>4 DEF BindAccepted, Accepts
  <2> QED
    BY <1>1, <1>2, <1>3, <1>4, <2>1, <2>2
    DEF Local, LocalLDAP, LocalSAML, LocalFlow, Known, Earned, Has
<1>5. CASE ~(r \in conns /\ BindAccepted(r) /\ pc' = [pc EXCEPT ![r] = "search"])
  <2>1. pc'[r] = "done" /\ outcome'[r] \in {"failed", "aborted"}
    BY <1>5 DEF TypeOK, TypeFlow
  <2>2. Deserving(r)' => BindAccepted(r)
    BY <1>1, <1>3 DEF Deserving, Has, BindAccepted, Accepts
  <2>3. Deserving(r)' => r \in disturbed'
    BY <1>1, <1>3, <1>5, <2>2
  <2> QED
    BY <1>1, <1>2, <1>3, <2>1, <2>3
    DEF Local, LocalLDAP, LocalSAML, LocalFlow, Known, Earned, Has
<1> QED
  BY <1>4, <1>5

LEMMA SearchKeeps ==
    ASSUME NEW r \in Logins, TypeOK, Finite, Local(r), Search(r), UNCHANGED saml
    PROVE  TypeOK' /\ Finite' /\ Local(r)'
<1> USE DEF Search, Goto, End, Identify, Excuse, AttributePanics, store, saml
<1>1. /\ pc[r] = "search" /\ Has(r, "ldap")
      /\ form[r].name \in Names /\ (r \notin conns => r \in disturbed)
      /\ ~held[r].admin => form[r].secret = AccountOf[form[r].name]
      /\ identity[r] = NoIdentity /\ outcome[r] = "none"
  BY DEF Local, LocalLDAP, LocalFlow
<1>2. /\ held' = held /\ form' = form /\ accounts' = accounts /\ conns' = conns
      /\ r \in disturbed => r \in disturbed'
      /\ profile' = profile /\ edits' = edits
  BY DEF TypeOK, TypeFlow
<1>3. Finite'
  BY <1>2 DEF Finite
<1>4. ASSUME NEW p \in People, Matches(r) = {p},
             found' = [found EXCEPT ![r] = p], held[r].admin,
             Goto(r, "search", "rebind"),
             UNCHANGED <<form, held, identity, outcome, disturbed>>
      PROVE  TypeOK' /\ Local(r)'
  <2>1. TypeOK'
    BY <1>2, <1>4
    DEF TypeOK, TypeFlow, TypeLDAP, TypeSAML, PCs, Serving
  <2>2. /\ pc'[r] = "rebind" /\ outcome'[r] = "none" /\ identity'[r] = NoIdentity
        /\ found'[r] = p
    BY <1>1, <1>4 DEF TypeOK, TypeFlow, TypeLDAP
  <2>3. Matches(r)' = {p} /\ p \in EntriesOf[form[r].name]
    BY <1>2, <1>4 DEF Matches
  <2> QED
    BY <1>1, <1>2, <1>4, <2>1, <2>2, <2>3
    DEF Local, LocalLDAP, LocalSAML, LocalFlow, Known, Earned, Has
<1>5. ASSUME NEW p \in People, Matches(r) = {p},
             found' = [found EXCEPT ![r] = p], ~held[r].admin,
             Identify(r, "search", LDAPIdentity(r, p))
      PROVE  TypeOK' /\ Local(r)'
  <2>1. LDAPIdentity(r, p) \in Identities
    BY <1>1, LDAPAssumption DEF Identities, LDAPIdentity, UserName
  <2>2. TypeOK'
    BY <1>2, <1>5, <2>1
    DEF TypeOK, TypeFlow, TypeLDAP, TypeSAML, PCs, Serving
  <2>3. /\ pc'[r] = "complete" /\ outcome'[r] = "none"
        /\ identity'[r] = LDAPIdentity(r, p)
    BY <1>1, <1>5 DEF TypeOK, TypeFlow
  <2>4. /\ p \in EntriesOf[form[r].name]
        /\ form[r].secret \in EntriesOf[form[r].name] \cap accounts
             => form[r].secret = p
    BY <1>5 DEF Matches
  <2>5. Vouched(r)'
    BY <1>1, <1>2, <1>5, <2>3, <2>4
    DEF Vouched, VouchedByLDAP, LDAPIdentity, UserName, Has
  <2>6. Known(r)'
    BY <1>2, <1>5, <2>3, <2>5 DEF Known, LDAPIdentity
  <2> QED
    BY <1>1, <1>2, <1>5, <2>2, <2>3, <2>6
    DEF Local, LocalLDAP, LocalSAML, LocalFlow, Earned, Has
<1>6. ASSUME NEW what \in {"failed", "aborted"}, End(r, "search", what),
             \/ \A p \in People : Matches(r) # {p}
             \/ r \in disturbed',
             found' = found, disturbed' \in {disturbed, disturbed \cup {r}}
      PROVE  TypeOK' /\ Local(r)'
  <2>1. TypeOK'
    BY <1>2, <1>6
    DEF TypeOK, TypeFlow, TypeLDAP, TypeSAML, PCs, Serving, Outcomes, Unsuccessful
  <2>2. /\ pc'[r] = "done" /\ outcome'[r] = what /\ identity'[r] = NoIdentity
    BY <1>1, <1>6 DEF TypeOK, TypeFlow
  <2>3. Deserving(r)' => \E p \in People : Matches(r) = {p}
    BY <1>1, <1>2 DEF Deserving, Has, Matches, TypeOK, TypeFlow
  <2> QED
    BY <1>1, <1>2, <1>6, <2>1, <2>2, <2>3
    DEF Local, LocalLDAP, LocalSAML, LocalFlow, Known, Earned, Has
<1> QED
  BY <1>3, <1>4, <1>5, <1>6 DEF TypeOK, TypeFlow

LEMMA RebindKeeps ==
    ASSUME NEW r \in Logins, TypeOK, Finite, Local(r), Rebind(r), UNCHANGED saml
    PROVE  TypeOK' /\ Finite' /\ Local(r)'
<1> USE DEF Rebind, Goto, End, Identify, Excuse, AttributePanics, store, saml, ldap
<1>1. /\ pc[r] = "rebind" /\ Has(r, "ldap") /\ held[r].admin
      /\ form[r].name \in Names /\ (r \notin conns => r \in disturbed)
      /\ found[r] \in EntriesOf[form[r].name] /\ Matches(r) \subseteq {found[r]}
      /\ identity[r] = NoIdentity /\ outcome[r] = "none"
  BY DEF Local, LocalLDAP, LocalFlow
<1>2. /\ held' = held /\ form' = form /\ accounts' = accounts /\ conns' = conns
      /\ profile' = profile /\ edits' = edits /\ found' = found
      /\ r \in disturbed => r \in disturbed'
  OBVIOUS
<1>3. Finite'
  BY <1>2 DEF Finite
<1>4. CASE Accepts(r, found[r]) /\ Identify(r, "rebind", LDAPIdentity(r, found[r]))
  <2>1. LDAPIdentity(r, found[r]) \in Identities
    BY <1>1, LDAPAssumption DEF Identities, LDAPIdentity, UserName
  <2>2. TypeOK'
    BY <1>2, <1>4, <2>1
    DEF TypeOK, TypeFlow, TypeLDAP, TypeSAML, PCs, Serving
  <2>3. /\ pc'[r] = "complete" /\ outcome'[r] = "none"
        /\ identity'[r] = LDAPIdentity(r, found[r])
    BY <1>1, <1>4 DEF TypeOK, TypeFlow
  <2>4. Vouched(r)'
    BY <1>1, <1>2, <1>4, <2>3
    DEF Vouched, VouchedByLDAP, LDAPIdentity, UserName, Has, Accepts
  <2>5. Known(r)'
    BY <1>1, <1>2, <2>3, <2>4 DEF Known, LDAPIdentity, Matches
  <2> QED
    BY <1>1, <1>2, <1>3, <1>4, <2>2, <2>3, <2>5
    DEF Local, LocalLDAP, LocalSAML, LocalFlow, Earned, Has
<1>5. CASE ~(Accepts(r, found[r]) /\ Identify(r, "rebind", LDAPIdentity(r, found[r])))
  <2>1. TypeOK'
    BY <1>2, <1>5
    DEF TypeOK, TypeFlow, TypeLDAP, TypeSAML, PCs, Serving, Outcomes, Unsuccessful
  <2>2. /\ pc'[r] = "done" /\ outcome'[r] \in {"failed", "aborted"}
        /\ identity'[r] = NoIdentity
    BY <1>1, <1>5 DEF TypeOK, TypeFlow
  <2>3. Deserving(r)' => Accepts(r, found[r])
    BY <1>1, <1>2 DEF Deserving, Has, Accepts
  <2>4. Deserving(r)' => r \in disturbed'
    BY <1>5, <2>3
  <2> QED
    BY <1>1, <1>2, <1>3, <2>1, <2>2, <2>4
    DEF Local, LocalLDAP, LocalSAML, LocalFlow, Known, Earned, Has
<1> QED
  BY <1>4, <1>5

LEMMA CompleteLDAPKeeps ==
    ASSUME NEW r \in Logins, TypeOK, Finite, Local(r),
           CompleteLDAP(r), UNCHANGED saml
    PROVE  TypeOK' /\ Finite' /\ Local(r)'
<1> USE DEF CompleteLDAP, Goto, End, Excuse, store, saml
<1>1. TypeOK'
  BY DEF TypeOK, TypeFlow, TypeLDAP, TypeSAML, PCs, Outcomes, Unsuccessful
<1>2. Finite'
  <2>1. CASE conns' = conns \ {r}
    BY <2>1, FS_Subset, FS_CardinalityType, LDAPAssumption DEF Finite
  <2>2. CASE UNCHANGED conns
    BY <2>2 DEF Finite
  <2> QED
    BY <2>1, <2>2
<1>3. /\ pc[r] = "complete" /\ pc'[r] = "done"
      /\ held' = held /\ form' = form /\ identity' = identity
      /\ accounts' = accounts /\ found' = found
      /\ \/ outcome'[r] = "ok" /\ r \notin conns'
         \/ outcome'[r] = "aborted" /\ r \in disturbed' /\ conns' = conns
  BY DEF TypeOK, TypeFlow
<1>4. Known(r)'
  BY <1>3 DEF Local, Known, Vouched, VouchedByLDAP, VouchedByTarget, VouchedByIdP,
              UserName, Matches
<1> QED
  BY <1>1, <1>2, <1>3, <1>4
  DEF Local, LocalLDAP, LocalSAML, LocalFlow, Earned, Has
-------------------------------------------------------------------------------
(***************************************************************************)
(* Proxy, SAML, and the end of their logins                                *)
(***************************************************************************)

LEMMA ForwardKeeps ==
    ASSUME NEW r \in Logins, TypeOK, Finite, Local(r),
           Forward(r), UNCHANGED <<ldap, saml>>
    PROVE  TypeOK' /\ Finite' /\ Local(r)'
<1> USE DEF Forward, Goto, End, Identify, Excuse, store, saml, ldap
<1>1. /\ pc[r] = "forward" /\ Has(r, "proxy") /\ r \notin conns
      /\ identity[r] = NoIdentity /\ outcome[r] = "none"
  BY DEF Local, LocalLDAP, LocalFlow
<1>2. /\ held' = held /\ form' = form /\ accounts' = accounts /\ conns' = conns
      /\ profile' = profile /\ edits' = edits /\ found' = found
  OBVIOUS
<1>3. Finite'
  BY <1>2 DEF Finite
<1>4. ASSUME NEW a \in Answers(r), Passes(held[r], a),
             Identify(r, "forward", ProxyIdentity(r, a))
      PROVE  TypeOK' /\ Local(r)'
  <2>1. /\ form[r].name \in Names \cup {NoName}
        /\ a.user \in Names \cup {NoName, NoField}
    BY ProxyAssumption DEF TypeOK, TypeFlow, FormType, Answers, Welcomes, AnswerType
  <2>2. /\ ProxyUser(r, a) \in Names \cup {NoName, r}
        /\ ProxyUser(r, a) = NoName => held[r].json
    BY <2>1, LoginAssumption DEF ProxyUser, HeaderName
  <2>3. ProxyIdentity(r, a) \in Identities
    BY <2>2 DEF Identities, ProxyIdentity
  <2>4. TypeOK'
    BY <1>2, <1>4, <2>3
    DEF TypeOK, TypeFlow, TypeLDAP, TypeSAML, PCs, Serving
  <2>5. /\ pc'[r] = "complete" /\ outcome'[r] = "none"
        /\ identity'[r] = ProxyIdentity(r, a)
    BY <1>1, <1>4 DEF TypeOK, TypeFlow
  <2>6. Discriminates(held[r]) => Authentic(r) /\ a \in Welcomes(r)
    BY <1>4 DEF Discriminates, Answers
  <2>7. Discriminates(held[r]) =>
          /\ form[r].secret = AccountOf[form[r].name]
          /\ ProxyUser(r, a) \in Names => AccountOf[ProxyUser(r, a)] = form[r].secret
    <3>1. r \notin Names
      BY LoginAssumption
    <3>2. Discriminates(held[r]) /\ a.user \in Names =>
             AccountOf[a.user] = form[r].secret
      BY <2>1, <2>6, LoginAssumption, ProxyAssumption DEF Welcomes
    <3> QED
      BY <2>1, <2>6, <3>1, <3>2 DEF Authentic, ProxyUser, HeaderName
  <2>8. Vouched(r)'
    BY <1>1, <1>2, <2>2, <2>5, <2>7
    DEF Vouched, VouchedByTarget, ProxyIdentity, Has, Discriminates
  <2>9. Known(r)'
    BY <1>2, <2>2, <2>5, <2>8 DEF Known, ProxyIdentity
  <2> QED
    BY <1>1, <1>2, <2>4, <2>5, <2>9
    DEF Local, LocalLDAP, LocalSAML, LocalFlow, Earned, Has
<1>5. ASSUME End(r, "forward", "failed"),
             \/ \E a \in Answers(r) : ~Passes(held[r], a)
             \/ r \in disturbed',
             disturbed' \in {disturbed, disturbed \cup {r}}
      PROVE  TypeOK' /\ Local(r)'
  <2>1. TypeOK'
    BY <1>2, <1>5
    DEF TypeOK, TypeFlow, TypeLDAP, TypeSAML, PCs, Serving, Outcomes, Unsuccessful
  <2>2. /\ pc'[r] = "done" /\ outcome'[r] = "failed" /\ identity'[r] = NoIdentity
    BY <1>1, <1>5 DEF TypeOK, TypeFlow
  <2>3. Deserving(r)' => Authentic(r) /\ "broken" \notin held[r].gates
    BY <1>1, <1>2 DEF Deserving, Has, Authentic
  <2>4. (Authentic(r) /\ "broken" \notin held[r].gates) =>
           \A a \in Answers(r) : Passes(held[r], a)
    BY DEF Answers, Welcomes, Passes
  <2> QED
    BY <1>1, <1>2, <1>5, <2>1, <2>2, <2>3, <2>4
    DEF Local, LocalLDAP, LocalSAML, LocalFlow, Known, Earned, Has
<1> QED
  BY <1>3, <1>4, <1>5

LEMMA SetUpKeeps ==
    ASSUME NEW r \in Logins, TypeOK, Finite, Local(r), NEW entry, NEW to,
           <<entry, to>> \in {<<"auth", "redirect">>, <<"callback", "parse">>,
                             <<"metadata", "describe">>},
           SetUp(r, entry, to), UNCHANGED ldap
    PROVE  TypeOK' /\ Finite' /\ Local(r)'
<1> USE DEF SetUp, Goto, End, Excuse, store, ldap
<1>1. /\ pc[r] = entry /\ entry \in Entries /\ r \notin conns
      /\ identity[r] = NoIdentity /\ outcome[r] = "none"
      /\ form[r] = NoForm
      /\ to = "parse" => assertion[r].idp \in IdPs
  BY DEF Local, LocalLDAP, LocalSAML, LocalFlow, Entries
<1>2. /\ held' = [held EXCEPT ![r] = profile] /\ form' = form
      /\ accounts' = accounts /\ conns' = conns /\ found' = found
      /\ assertion' = assertion /\ sentTo' = sentTo
      /\ profile' = profile /\ edits' = edits
      /\ Finds(profile, "saml")
  OBVIOUS
<1>3. Finite'
  BY <1>2 DEF Finite
<1>4. /\ held'[r] = profile
      /\ held'[r] # NoProfile /\ held'[r].provider = "saml" /\ held'[r].setup = "good"
  BY <1>2 DEF TypeOK, TypeFlow, Finds
<1>5. CASE SetUpPanics(profile) /\ End(r, entry, "aborted")
           /\ UNCHANGED <<disturbed, middleware>>
  <2>1. TypeOK'
    BY <1>2, <1>5
    DEF TypeOK, TypeFlow, TypeLDAP, TypeSAML, PCs, Outcomes, Unsuccessful
  <2>2. /\ pc'[r] = "done" /\ outcome'[r] = "aborted" /\ identity'[r] = NoIdentity
    BY <1>1, <1>5 DEF TypeOK, TypeFlow
  <2>3. ~Deserving(r)'
    BY <1>4, <1>5 DEF Deserving, SetUpPanics
  <2> QED
    BY <1>1, <1>2, <1>3, <2>1, <2>2, <2>3
    DEF Local, LocalLDAP, LocalSAML, LocalFlow, Known, Earned
<1>6. ASSUME NEW fetched \in BOOLEAN, ~SetUpPanics(profile),
             middleware' = [middleware EXCEPT ![r] = Leaves(profile, fetched)],
             Goto(r, entry, to), UNCHANGED <<identity, outcome>>,
             IF fetched THEN UNCHANGED disturbed ELSE Excuse(r)
      PROVE  TypeOK' /\ Local(r)'
  <2>1. Leaves(profile, fetched) \in Middlewares
    BY DEF Leaves, Middlewares
  <2>2. to \in PCs
    BY DEF PCs, Serving
  <2>3. disturbed' \in SUBSET Logins
    BY <1>6 DEF TypeOK, TypeFlow
  <2>4. TypeOK'
    BY <1>2, <1>6, <2>1, <2>2, <2>3 DEF TypeOK, TypeFlow, TypeLDAP, TypeSAML
  <2>5. /\ pc'[r] = to /\ outcome'[r] = "none" /\ identity'[r] = NoIdentity
        /\ middleware'[r] = Leaves(profile, fetched)
    BY <1>1, <1>6 DEF TypeOK, TypeFlow, TypeSAML
  <2>6. /\ middleware'[r] \in {Leaves(held'[r], TRUE), Leaves(held'[r], FALSE)}
        /\ r \notin disturbed' => middleware'[r] = Leaves(held'[r], TRUE)
        /\ ~SetUpPanics(held'[r])
    BY <1>4, <1>6, <2>5
  <2>7. LocalSAML(r)'
    BY <1>1, <1>2, <1>4, <2>5, <2>6 DEF LocalSAML, Has
  <2> QED
    BY <1>1, <1>2, <1>4, <2>4, <2>5, <2>7
    DEF Local, LocalLDAP, LocalFlow, Known, Earned
<1> QED
  BY <1>3, <1>5, <1>6

LEMMA RedirectKeeps ==
    ASSUME NEW r \in Logins, TypeOK, Finite, Local(r), Redirect(r), UNCHANGED ldap
    PROVE  TypeOK' /\ Finite' /\ Local(r)'
<1> USE DEF Redirect, Goto, End, Excuse, store, ldap
<1>1. /\ pc[r] = "redirect" /\ Has(r, "saml") /\ r \notin conns
      /\ identity[r] = NoIdentity /\ outcome[r] = "none" /\ form[r] = NoForm
      /\ r \notin disturbed => middleware[r] = Leaves(held[r], TRUE)
  BY DEF Local, LocalLDAP, LocalSAML, LocalFlow
<1>2. /\ held' = held /\ form' = form /\ accounts' = accounts /\ conns' = conns
      /\ found' = found /\ assertion' = assertion /\ middleware' = middleware
      /\ profile' = profile /\ edits' = edits
      /\ r \in disturbed => r \in disturbed'
  OBVIOUS
<1>3. Finite'
  BY <1>2 DEF Finite
<1>4. CASE middleware[r] = "ready" /\ held[r].binding /\ Goto(r, "redirect", "away")
           /\ sentTo' = [sentTo EXCEPT ![r] = held[r].idp]
           /\ UNCHANGED <<identity, outcome, disturbed>>
  <2>1. held[r].idp \in IdPs
    BY <1>1, ProfileFields DEF Has, TypeOK, TypeFlow
  <2>2. TypeOK'
    BY <1>2, <1>4, <2>1 DEF TypeOK, TypeFlow, TypeLDAP, TypeSAML, PCs
  <2>3. /\ pc'[r] = "away" /\ outcome'[r] = "none" /\ identity'[r] = NoIdentity
        /\ sentTo'[r] \in IdPs
    BY <1>1, <1>4, <2>1 DEF TypeOK, TypeFlow, TypeSAML
  <2> QED
    BY <1>1, <1>2, <1>3, <2>2, <2>3
    DEF Local, LocalLDAP, LocalSAML, LocalFlow, Known, Earned
<1>5. ASSUME NEW what \in {"blank", "aborted", "failed"}, End(r, "redirect", what),
             \/ middleware[r] # "ready"
             \/ ~held[r].binding
             \/ r \in disturbed',
             sentTo' = sentTo, disturbed' \in {disturbed, disturbed \cup {r}}
      PROVE  TypeOK' /\ Local(r)'
  <2>1. TypeOK'
    BY <1>2, <1>5
    DEF TypeOK, TypeFlow, TypeLDAP, TypeSAML, PCs, Outcomes, Unsuccessful
  <2>2. /\ pc'[r] = "done" /\ outcome'[r] = what /\ identity'[r] = NoIdentity
    BY <1>1, <1>5 DEF TypeOK, TypeFlow
  <2>3. Deserving(r)' => Leaves(held[r], TRUE) = "ready" /\ held[r].binding
    BY <1>1, <1>2 DEF Deserving, Has, Leaves
  <2>4. Deserving(r)' => r \in disturbed'
    BY <1>1, <1>2, <1>5, <2>3
  <2> QED
    BY <1>1, <1>2, <2>1, <2>2, <2>4
    DEF Local, LocalLDAP, LocalSAML, LocalFlow, Known, Earned
<1> QED
  BY <1>3, <1>4, <1>5

LEMMA ParseKeeps ==
    ASSUME NEW r \in Logins, TypeOK, Finite, Local(r), Parse(r), UNCHANGED ldap
    PROVE  TypeOK' /\ Finite' /\ Local(r)'
<1> USE DEF Parse, Goto, End, Identify, Excuse, store, ldap, saml
<1>1. /\ pc[r] = "parse" /\ Has(r, "saml") /\ r \notin conns
      /\ identity[r] = NoIdentity /\ outcome[r] = "none"
      /\ r \notin disturbed => middleware[r] = Leaves(held[r], TRUE)
      /\ assertion[r].idp \in IdPs
  BY DEF Local, LocalLDAP, LocalSAML, LocalFlow
<1>2. /\ held' = held /\ form' = form /\ accounts' = accounts /\ conns' = conns
      /\ found' = found /\ assertion' = assertion /\ middleware' = middleware
      /\ sentTo' = sentTo /\ profile' = profile /\ edits' = edits
      /\ r \in disturbed => r \in disturbed'
  OBVIOUS
<1>3. Finite'
  BY <1>2 DEF Finite
<1>4. CASE Valid(r) /\ Identify(r, "parse", SAMLIdentity(r, assertion[r].person))
  <2> DEFINE p == assertion[r].person
  <2>1. p \in People
    BY <1>4 DEF Valid, TypeOK, TypeSAML, Assertions, NoAssertion
  <2>2. /\ SAMLUser(r, p) \in {p, FullNameOf[p], NoName}
        /\ SAMLMail(r, p) \in {p, Nobody}
    BY DEF SAMLUser, SAMLMail
  <2>3. SAMLUser(r, p) = NoName => held[r].claims = {}
    <3>1. held[r].claims \subseteq {"names", "mail"}
      BY <1>1, ProfileFields DEF Has, TypeOK, TypeFlow
    <3>2. FullNameOf[p] # NoName /\ p # NoName
      BY <2>1, LoginAssumption, SAMLAssumption
    <3> QED
      BY <3>1, <3>2 DEF SAMLUser
  <2>4. SAMLIdentity(r, p) \in Identities
    BY <2>1, <2>2, SAMLAssumption DEF Identities, SAMLIdentity
  <2>5. TypeOK'
    BY <1>2, <1>4, <2>4
    DEF TypeOK, TypeFlow, TypeLDAP, TypeSAML, PCs, Serving
  <2>6. /\ pc'[r] = "complete" /\ outcome'[r] = "none"
        /\ identity'[r] = SAMLIdentity(r, p)
    BY <1>1, <1>4 DEF TypeOK, TypeFlow
  <2>7. Known(r)'
    BY <1>1, <1>2, <1>4, <2>1, <2>2, <2>3, <2>6, LoginAssumption
    DEF Known, Vouched, VouchedByIdP, SAMLIdentity, Has, Valid
  <2> QED
    BY <1>1, <1>2, <1>3, <2>5, <2>6, <2>7
    DEF Local, LocalLDAP, LocalSAML, LocalFlow, Earned, Has
<1>5. ASSUME NEW what \in {"aborted", "failed"}, End(r, "parse", what),
             \/ middleware[r] # "ready"
             \/ ~Valid(r)
             \/ r \in disturbed',
             disturbed' \in {disturbed, disturbed \cup {r}}
      PROVE  TypeOK' /\ Local(r)'
  <2>1. TypeOK'
    BY <1>2, <1>5
    DEF TypeOK, TypeFlow, TypeLDAP, TypeSAML, PCs, Outcomes, Unsuccessful
  <2>2. /\ pc'[r] = "done" /\ outcome'[r] = what /\ identity'[r] = NoIdentity
    BY <1>1, <1>5 DEF TypeOK, TypeFlow
  <2>3. assertion[r] # NoAssertion
    BY <1>1, LoginAssumption DEF NoAssertion
  <2>4. Deserving(r)' => Leaves(held[r], TRUE) = "ready" /\ Valid(r)
    BY <1>1, <1>2, <2>3 DEF Deserving, Has, Leaves, Valid
  <2>5. Deserving(r)' => r \in disturbed'
    BY <1>1, <1>2, <1>5, <2>4
  <2> QED
    BY <1>1, <1>2, <2>1, <2>2, <2>5
    DEF Local, LocalLDAP, LocalSAML, LocalFlow, Known, Earned
<1> QED
  BY <1>3, <1>4, <1>5

LEMMA DescribeKeeps ==
    ASSUME NEW r \in Logins, TypeOK, Finite, Local(r), Describe(r), UNCHANGED ldap
    PROVE  TypeOK' /\ Finite' /\ Local(r)'
<1> USE DEF Describe, Goto, End, store, ldap, saml
<1>1. /\ pc[r] = "describe" /\ Has(r, "saml") /\ r \notin conns
      /\ identity[r] = NoIdentity
      /\ r \notin disturbed => middleware[r] = Leaves(held[r], TRUE)
  BY DEF Local, LocalLDAP, LocalSAML, LocalFlow
<1>2. TypeOK' /\ Finite'
  BY DEF TypeOK, TypeFlow, TypeLDAP, TypeSAML, PCs, Outcomes, Unsuccessful, Finite
<1>3. /\ pc'[r] = "done" /\ identity'[r] = NoIdentity
      /\ outcome'[r] = IF middleware[r] = "nil" THEN "aborted" ELSE "described"
  BY <1>1 DEF TypeOK, TypeFlow
<1>4. Deserving(r)' => Leaves(held[r], TRUE) = "ready"
  BY <1>1 DEF Deserving, Has, Leaves
<1>5. Earned(r)'
  <2>1. outcome'[r] \in {"failed", "blank", "aborted"} => middleware[r] # "ready"
    BY <1>3
  <2>2. disturbed' = disturbed
    OBVIOUS
  <2> QED
    BY <1>1, <1>4, <2>1, <2>2 DEF Earned
<1> QED
  BY <1>1, <1>2, <1>3, <1>5
  DEF Local, LocalLDAP, LocalSAML, LocalFlow, Known

LEMMA CompleteKeeps ==
    ASSUME NEW r \in Logins, TypeOK, Finite, Local(r),
           Complete(r), UNCHANGED <<ldap, saml>>
    PROVE  TypeOK' /\ Finite' /\ Local(r)'
<1> USE DEF Complete, Goto, End, Excuse, store, ldap, saml
<1>1. TypeOK' /\ Finite'
  BY DEF TypeOK, TypeFlow, TypeLDAP, TypeSAML, PCs, Outcomes, Unsuccessful, Finite
<1>2. /\ pc[r] = "complete" /\ pc'[r] = "done" /\ r \notin conns
      /\ held' = held /\ form' = form /\ identity' = identity
      /\ accounts' = accounts /\ found' = found /\ conns' = conns
      /\ assertion' = assertion
      /\ outcome'[r] = "ok" \/ (outcome'[r] = "aborted" /\ r \in disturbed')
  BY DEF TypeOK, TypeFlow, Local, LocalLDAP, Has
<1>3. Known(r)'
  BY <1>2 DEF Local, Known, Vouched, VouchedByLDAP, VouchedByTarget, VouchedByIdP,
              UserName, Matches
<1>4. LocalLDAP(r)' /\ LocalSAML(r)' /\ LocalFlow(r)'
  BY <1>2 DEF LocalLDAP, LocalSAML, LocalFlow
<1>5. Earned(r)'
  BY <1>2 DEF Earned
<1> QED
  BY <1>1, <1>3, <1>4, <1>5 DEF Local
-------------------------------------------------------------------------------
(***************************************************************************)
(* All steps                                                               *)
(***************************************************************************)

LEMMA StepKeeps ==
    ASSUME NEW r \in Logins, TypeOK, Finite, Local(r), StepOf(r)
    PROVE  TypeOK' /\ Finite' /\ Local(r)'
<1>1. CASE \/ Ask(r) /\ UNCHANGED <<ldap, saml>>
           \/ Initiate(r) /\ UNCHANGED ldap
           \/ Authenticate(r) /\ UNCHANGED ldap
  BY <1>1, AskKeeps, InitiateKeeps, AuthenticateKeeps
<1>2. CASE Dispatch(r) /\ UNCHANGED <<ldap, saml>>
  BY <1>2, DispatchKeeps
<1>3. CASE LDAPStep(r) /\ UNCHANGED saml
  <2>1. CASE Submit(r, "ldap", "dial") /\ UNCHANGED ldap
    <3>1. <<"ldap", "dial">> \in {<<"ldap", "dial">>, <<"proxy", "forward">>}
      OBVIOUS
    <3>2. UNCHANGED <<ldap, saml>>
      BY <1>3, <2>1
    <3> QED
      BY <2>1, <3>1, <3>2, SubmitKeeps
  <2>2. CASE Dial(r)
    BY <1>3, <2>2, DialKeeps
  <2>3. CASE Bind(r)
    BY <1>3, <2>3, BindKeeps
  <2>4. CASE Search(r)
    BY <1>3, <2>4, SearchKeeps
  <2>5. CASE Rebind(r)
    BY <1>3, <2>5, RebindKeeps
  <2>6. CASE CompleteLDAP(r)
    BY <1>3, <2>6, CompleteLDAPKeeps
  <2> QED
    BY <1>3, <2>1, <2>2, <2>3, <2>4, <2>5, <2>6 DEF LDAPStep
<1>4. CASE ProxyStep(r) /\ UNCHANGED <<ldap, saml>>
  <2>1. CASE Submit(r, "proxy", "forward")
    <3>1. <<"proxy", "forward">> \in {<<"ldap", "dial">>, <<"proxy", "forward">>}
      OBVIOUS
    <3> QED
      BY <1>4, <2>1, <3>1, SubmitKeeps
  <2>2. CASE Forward(r)
    BY <1>4, <2>2, ForwardKeeps
  <2> QED
    BY <1>4, <2>1, <2>2 DEF ProxyStep
<1>5. CASE SAMLStep(r) /\ UNCHANGED ldap
  <2>1. ASSUME NEW entry, NEW to, SetUp(r, entry, to),
               <<entry, to>> \in {<<"auth", "redirect">>, <<"callback", "parse">>,
                                 <<"metadata", "describe">>}
        PROVE  TypeOK' /\ Finite' /\ Local(r)'
    BY <1>5, <2>1, SetUpKeeps
  <2>2. CASE Redirect(r)
    BY <1>5, <2>2, RedirectKeeps
  <2>3. CASE Parse(r)
    BY <1>5, <2>3, ParseKeeps
  <2>4. CASE Describe(r)
    BY <1>5, <2>4, DescribeKeeps
  <2> QED
    BY <1>5, <2>1, <2>2, <2>3, <2>4 DEF SAMLStep
<1>6. CASE Complete(r) /\ UNCHANGED <<ldap, saml>>
  BY <1>6, CompleteKeeps
<1> QED
  BY <1>1, <1>2, <1>3, <1>4, <1>5, <1>6 DEF StepOf, Step

\* A step leaves the identity of its login as it is, or gives it one: where the
\* administrator searched, of the only entry that was found.
LEMMA Identified ==
    ASSUME NEW r \in Logins, TypeOK, Local(r), StepOf(r)
    PROVE  \/ identity'[r] = NoIdentity
           \/ /\ identity'[r] = identity[r]
              /\ held'[r] = held[r] /\ form'[r] = form[r]
           \/ identity'[r].provider # "ldap"
           \/ ~held'[r].admin
           \/ /\ held'[r] = held[r] /\ form'[r] = form[r]
              /\ identity'[r].mail \in Matches(r)
<1> USE DEF TypeOK, TypeFlow, Local, LocalFlow, LocalLDAP, Goto, End, flow,
            store, ldap, saml
<1>1. CASE \/ Ask(r) /\ UNCHANGED <<ldap, saml>>
           \/ Initiate(r) /\ UNCHANGED ldap
           \/ Authenticate(r) /\ UNCHANGED ldap
  BY <1>1 DEF Ask, Initiate, Authenticate
<1>2. CASE Dispatch(r) /\ UNCHANGED <<ldap, saml>>
  BY <1>2 DEF Dispatch, Unusable, Unsupported, Entries
<1>3. CASE LDAPStep(r) /\ UNCHANGED saml
  <2>1. CASE Submit(r, "ldap", "dial") \/ Dial(r) \/ Bind(r)
    BY <1>3, <2>1 DEF Submit, Dial, Bind
  <2>2. CASE Search(r)
    <3>1. CASE held[r].admin
      BY <2>2, <3>1 DEF Search
    <3>2. CASE ~held[r].admin
      BY <2>2, <3>2 DEF Search, Identify, AttributePanics
    <3> QED
      BY <3>1, <3>2
  <2>3. CASE Rebind(r)
    <3>1. CASE Accepts(r, found[r]) /\ Identify(r, "rebind", LDAPIdentity(r, found[r]))
      <4>1. identity'[r].mail = found[r] /\ held' = held /\ form' = form
        BY <3>1 DEF Identify, LDAPIdentity
      <4>2. found[r] \in Matches(r)
        BY <2>3, <3>1 DEF Rebind, Accepts, Matches
      <4> QED
        BY <4>1, <4>2
    <3>2. CASE End(r, "rebind", "failed") \/ End(r, "rebind", "aborted")
      BY <2>3, <3>2 DEF Rebind
    <3> QED
      BY <2>3, <3>1, <3>2 DEF Rebind, AttributePanics
  <2>4. CASE CompleteLDAP(r)
    BY <2>4 DEF CompleteLDAP
  <2> QED
    BY <1>3, <2>1, <2>2, <2>3, <2>4 DEF LDAPStep
<1>4. CASE ProxyStep(r) /\ UNCHANGED <<ldap, saml>>
  BY <1>4 DEF ProxyStep, Submit, Forward, Identify, ProxyIdentity
<1>5. CASE SAMLStep(r) /\ UNCHANGED ldap
  <2>1. CASE \/ SetUp(r, "auth", "redirect")
             \/ SetUp(r, "callback", "parse")
             \/ SetUp(r, "metadata", "describe")
    BY <1>5, <2>1 DEF SetUp
  <2>2. CASE Redirect(r) \/ Parse(r) \/ Describe(r)
    BY <1>5, <2>2 DEF Redirect, Parse, Describe, Identify, SAMLIdentity
  <2> QED
    BY <1>5, <2>1, <2>2 DEF SAMLStep
<1>6. CASE Complete(r) /\ UNCHANGED <<ldap, saml>>
  BY <1>6 DEF Complete
<1> QED
  BY <1>1, <1>2, <1>3, <1>4, <1>5, <1>6 DEF StepOf, Step

LEMMA ApartSame ==
    ASSUME NEW l \in Logins, NEW k \in Logins, ApartByLDAP(l, k),
           identity'[l] = identity[l], identity'[k] = identity[k],
           held'[l] = held[l], held'[k] = held[k],
           form'[l] = form[l], form'[k] = form[k]
    PROVE  ApartByLDAP(l, k)'
BY DEF ApartByLDAP, SameKey

\* The entry that a login is identified by is the only one that matches, and
\* so it is for another login with the same name.
LEMMA ApartStep ==
    ASSUME NEW r \in Logins, NEW k \in Logins, k # r, Inv, StepOf(r)
    PROVE  ApartByLDAP(r, k)' /\ ApartByLDAP(k, r)'
<1>1. Local(r) /\ Local(k) /\ TypeOK /\ ApartByLDAP(r, k) /\ ApartByLDAP(k, r)
  BY DEF Inv
<1>2. Same(k)
  BY <1>1, Others
<1>3. CASE identity'[r] = NoIdentity \/ identity'[r].provider # "ldap" \/ ~held'[r].admin
  BY <1>3 DEF ApartByLDAP, SameKey
<1>4. CASE identity'[r] = identity[r] /\ held'[r] = held[r] /\ form'[r] = form[r]
  BY <1>1, <1>2, <1>4, ApartSame DEF Same
<1>5. CASE /\ held'[r] = held[r] /\ form'[r] = form[r]
           /\ identity'[r].mail \in Matches(r)
  <2>1. ASSUME identity[k] # NoIdentity, identity[k].provider = "ldap",
               held[k].admin, form[r].name = form[k].name
        PROVE  identity'[r].mail = identity[k].mail
    <3>1. Matches(k) \subseteq {identity[k].mail}
      BY <1>1, <2>1 DEF Local, Known
    <3>2. Matches(k) = Matches(r)
      BY <2>1 DEF Matches
    <3> QED
      BY <1>5, <3>1, <3>2
  <2> QED
    BY <1>2, <1>5, <2>1 DEF ApartByLDAP, SameKey, Same
<1> QED
  BY <1>1, <1>3, <1>4, <1>5, Identified

LEMMA InvNext == Inv /\ [Next]_vars => Inv'
<1> SUFFICES ASSUME Inv, [Next]_vars PROVE Inv'
  OBVIOUS
<1>1. ASSUME NEW r \in Logins, StepOf(r) PROVE Inv'
  <2>1. TypeOK' /\ Finite' /\ Local(r)'
    BY <1>1, StepKeeps DEF Inv
  <2>2. ASSUME NEW k \in Logins, k # r
        PROVE  Same(k) /\ Local(k)'
    BY <1>1, <2>2, Others, LocalSame DEF Inv
  <2>3. ASSUME NEW l \in Logins, NEW k \in Logins PROVE ApartByLDAP(l, k)'
    <3>1. CASE l = k
      BY <3>1 DEF ApartByLDAP
    <3>2. CASE l # k /\ (l = r \/ k = r)
      BY <1>1, <3>2, ApartStep
    <3>3. CASE l # r /\ k # r
      BY <2>2, <3>3, ApartSame DEF Inv, Same
    <3> QED
      BY <3>1, <3>2, <3>3
  <2> QED
    BY <2>1, <2>2, <2>3 DEF Inv
<1>2. ASSUME \A l \in Logins : Same(l), accounts' \subseteq accounts,
             TypeOK', conns' = conns
      PROVE  Inv'
  <2>1. \A l \in Logins : Local(l)'
    BY <1>2, LocalSame DEF Inv
  <2>2. \A l, k \in Logins : ApartByLDAP(l, k)'
    BY <1>2, ApartSame DEF Inv, Same
  <2> QED
    BY <1>2, <2>1, <2>2 DEF Inv, Finite
<1>3. CASE Edit /\ UNCHANGED <<ldap, saml>>
  <2>1. TypeOK'
    BY <1>3, LoginAssumption
    DEF Edit, Inv, TypeOK, TypeFlow, TypeLDAP, TypeSAML, flow, ldap, saml
  <2> QED
    BY <1>2, <1>3, <2>1 DEF Edit, Same, flow, ldap, saml
<1>4. ASSUME NEW p \in People, Close(p), UNCHANGED <<ldap, saml>> PROVE Inv'
  <2>1. TypeOK'
    BY <1>4 DEF Close, Inv, TypeOK, TypeFlow, TypeLDAP, TypeSAML, flow, ldap, saml
  <2> QED
    BY <1>2, <1>4, <2>1 DEF Close, Same, flow, ldap, saml
<1>5. CASE Crash /\ CrashLDAP /\ UNCHANGED saml
  <2>1. TypeOK'
    BY <1>5 DEF Crash, CrashLDAP, Inv, TypeOK, TypeFlow, TypeLDAP, TypeSAML, PCs,
                Outcomes, Unsuccessful, store, saml
  <2>2. Finite'
    BY <1>5, FS_EmptySet, LDAPAssumption DEF CrashLDAP, Finite
  <2>3. ASSUME NEW l \in Logins PROVE Local(l)'
    <3>1. /\ Local(l) /\ l \notin conns'
          /\ \/ pc'[l] = "done" /\ outcome'[l] = "dropped"
             \/ pc'[l] = pc[l] /\ outcome'[l] = outcome[l] /\ pc[l] \notin Serving
      BY <1>5 DEF Crash, CrashLDAP, Inv
    <3>2. /\ form' = form /\ held' = held /\ identity' = identity
          /\ disturbed' = disturbed /\ accounts' = accounts /\ found' = found
          /\ middleware' = middleware /\ assertion' = assertion /\ sentTo' = sentTo
      BY <1>5 DEF Crash, CrashLDAP, store, saml
    <3>3. LocalLDAP(l)' /\ LocalSAML(l)' /\ LocalFlow(l)'
      BY <3>1, <3>2 DEF Local, LocalLDAP, LocalSAML, LocalFlow, Serving, Entries
    <3>4. Known(l)'
      BY <3>1, <3>2 DEF Local, Known, Vouched, VouchedByLDAP, VouchedByTarget,
                        VouchedByIdP, UserName, Matches
    <3>5. Earned(l)'
      BY <3>1, <3>2 DEF Local, Earned, Deserving, Incomplete
    <3> QED
      BY <3>3, <3>4, <3>5 DEF Local
  <2>4. \A l, k \in Logins : ApartByLDAP(l, k)'
    BY <1>5, ApartSame DEF Crash, Inv
  <2> QED
    BY <2>1, <2>2, <2>3, <2>4 DEF Inv
<1>6. ASSUME NEW r \in Logins, Reap(r), UNCHANGED saml PROVE Inv'
  <2> USE DEF Reap, flow, store, saml
  <2>1. TypeOK'
    BY <1>6 DEF Inv, TypeOK, TypeFlow, TypeLDAP, TypeSAML
  <2>2. Finite'
    <3>1. conns' \subseteq conns /\ Finite
      BY <1>6 DEF Inv
    <3>2. IsFiniteSet(conns') /\ Cardinality(conns') <= Cardinality(conns)
      BY <3>1, FS_Subset DEF Finite
    <3>3. Cardinality(conns') \in Nat /\ Cardinality(conns) \in Nat
      BY <3>1, <3>2, FS_CardinalityType DEF Finite
    <3> QED
      BY <3>1, <3>2, <3>3, LDAPAssumption DEF Finite
  <2>3. ASSUME NEW l \in Logins PROVE Local(l)'
    <3>1. CASE l = r
      <4>1. LocalLDAP(l)'
        BY <1>6, <3>1 DEF LocalLDAP
      <4>2. Local(l)
        BY DEF Inv
      <4>3. LocalSAML(l)' /\ LocalFlow(l)'
        BY <1>6, <4>2 DEF Local, LocalSAML, LocalFlow, Has
      <4>4. Known(l)'
        BY <1>6, <4>2
        DEF Local, Known, Vouched, VouchedByLDAP, VouchedByTarget, VouchedByIdP,
            UserName, Matches
      <4>5. Earned(l)'
        BY <1>6, <4>2 DEF Local, Earned, Deserving, Incomplete
      <4> QED
        BY <4>1, <4>3, <4>4, <4>5 DEF Local
    <3>2. CASE l # r
      BY <1>6, <3>2, LocalSame DEF Inv, Same
    <3> QED
      BY <3>1, <3>2
  <2>4. \A l, k \in Logins : ApartByLDAP(l, k)'
    BY <1>6, ApartSame DEF Inv
  <2> QED
    BY <2>1, <2>2, <2>3, <2>4 DEF Inv
<1>7. CASE UNCHANGED vars
  <2>1. TypeOK'
    BY <1>7 DEF Inv, TypeOK, TypeFlow, TypeLDAP, TypeSAML, vars, flow, store, ldap, saml
  <2> QED
    BY <1>2, <1>7, <2>1 DEF Same, vars, flow, store, ldap, saml
<1> QED
  BY <1>1, <1>3, <1>4, <1>5, <1>6, <1>7 DEF Next, StepOf
-------------------------------------------------------------------------------
(***************************************************************************)
(* Theorems                                                                *)
(***************************************************************************)

\* The conjunction of the facts about single logins, of the number of open
\* connections and of pairs of logins holds of every reachable state, of logins
\* by LDAP, by a proxied server and by SAML together.
THEOREM Invariance == Spec => []Inv
BY InvInit, InvNext, PTL DEF Spec

\* Every login is at a step of its provider with an identity of that provider,
\* and keeps to the sets the state is made of.
THEOREM LoginTyping == Spec => []TypeOK
<1>1. Inv => TypeOK
  BY DEF Inv
<1> QED
  BY <1>1, Invariance, PTL

\* The identity handler is called only with what the server of the profile has
\* answered to this login: the name whose password was right or the entry of the
\* password's owner, which without administrator may be another's only if the
\* filter does not find the owner's, the user the target has let in, the person
\* that was asserted, with no other's name or mail, and with an empty name only
\* where the answer or the mapping has none (active_directory.go 193-339,
\* proxy.go 82-199, saml.go 271-339).
THEOREM VouchedLogins == Spec => []OnlyVouched
<1>1. Inv => OnlyVouched
  BY DEF Inv, Local, Known, OnlyVouched
<1> QED
  BY <1>1, Invariance, PTL

\* Open connections to the LDAP server are as many as the server has at most,
\* and those that outlive their login are of logins that failed
\* (active_directory.go 273-338).
THEOREM ConnectionsKept == Spec => []ConnectionsAccounted
<1>1. Inv => ConnectionsAccounted
  BY DEF Inv, Finite, Local, LocalLDAP, Has, ConnectionsAccounted, TypeOK,
         TypeLDAP, Serving
<1> QED
  BY <1>1, Invariance, PTL

\* A login that could succeed fails only if a call of its own failed
\* (http_handlers.go 28-82, saml.go 96-187).
THEOREM UndisturbedLoginsSucceed == Spec => []UndisturbedSucceeds
<1>1. Inv => UndisturbedSucceeds
  BY DEF Inv, Local, Earned, UndisturbedSucceeds
<1> QED
  BY <1>1, Invariance, PTL

\* What is known of two logins tells their keys apart, by provider.
LEMMA LDAPApart ==
    ASSUME NEW l \in Logins, NEW k \in Logins, Inv, SameKey(l, k),
           identity[l].provider = "ldap"
    PROVE  Subject(l) = Subject(k) \/ Alike(l, k)
<1> SUFFICES ASSUME ~Alike(l, k) PROVE Subject(l) = Subject(k)
  OBVIOUS
<1>1. /\ Vouched(l) /\ Vouched(k) /\ identity[k].provider = "ldap"
      /\ identity[l].user = identity[k].user
  BY DEF Inv, Local, Known, SameKey
<1>2. VouchedByLDAP(l) /\ VouchedByLDAP(k)
  BY <1>1 DEF Vouched
<1>3. held[l].admin = held[k].admin
  BY DEF Alike
<1>4. form[l].name = form[k].name
  BY <1>1, <1>2 DEF Alike, VouchedByLDAP, UserName
<1>5. CASE held[l].admin
  <2>1. identity[l].mail = identity[k].mail
    BY <1>3, <1>4, <1>5 DEF Inv, ApartByLDAP
  <2> QED
    BY <1>1, <1>2, <1>3, <1>5, <2>1 DEF VouchedByLDAP, Subject
<1>6. CASE ~held[l].admin
  BY <1>1, <1>2, <1>3, <1>4, <1>6 DEF VouchedByLDAP, Subject
<1> QED
  BY <1>5, <1>6

LEMMA ProxyApart ==
    ASSUME NEW l \in Logins, NEW k \in Logins, Inv, SameKey(l, k),
           identity[l].provider = "proxy"
    PROVE  Subject(l) = Subject(k) \/ Alike(l, k)
<1> SUFFICES ASSUME ~Alike(l, k) PROVE Subject(l) = Subject(k)
  OBVIOUS
<1>1. /\ Vouched(l) /\ Vouched(k) /\ identity[k].provider = "proxy"
      /\ identity[l].user = identity[k].user
      /\ identity[l].user \in Names \cup {l}
      /\ identity[k].user \in Names \cup {k}
  BY DEF Inv, Local, Known, SameKey, Alike
<1>2. /\ VouchedByTarget(l) /\ VouchedByTarget(k)
      /\ Discriminates(held[l]) /\ Discriminates(held[k])
  BY <1>1 DEF Vouched, Alike
<1>3. CASE identity[l].user \in Names
  BY <1>1, <1>2, <1>3 DEF VouchedByTarget, Subject
<1>4. CASE identity[l].user \notin Names
  <2>1. l = k
    BY <1>1, <1>4
  <2> QED
    BY <2>1
<1> QED
  BY <1>3, <1>4

LEMMA SAMLApart ==
    ASSUME NEW l \in Logins, NEW k \in Logins, Inv, SameKey(l, k),
           identity[l].provider = "saml"
    PROVE  Subject(l) = Subject(k) \/ Alike(l, k)
<1> SUFFICES ASSUME ~Alike(l, k) PROVE Subject(l) = Subject(k)
  OBVIOUS
<1>1. /\ Vouched(l) /\ Vouched(k) /\ identity[k].provider = "saml"
      /\ identity[l].user = identity[k].user
  BY DEF Inv, Local, Known, SameKey
<1>2. VouchedByIdP(l) /\ VouchedByIdP(k)
  BY <1>1 DEF Vouched
<1> DEFINE p == assertion[l].person
           o == assertion[k].person
<1>3. p \in People /\ o \in People
  BY <1>2 DEF VouchedByIdP, Inv, TypeOK, TypeSAML, Assertions, NoAssertion
<1>4. /\ Subject(l) = p /\ Subject(k) = o
      /\ identity[l].user \in {p, FullNameOf[p]}
      /\ identity[k].user \in {o, FullNameOf[o]}
  BY <1>1, <1>2 DEF VouchedByIdP, Subject, Alike
<1>5. FullNameOf[p] \notin People /\ FullNameOf[o] \notin People
  BY <1>3, LoginAssumption, SAMLAssumption
<1>6. FullNameOf[p] # FullNameOf[o]
  BY <1>4 DEF Alike
<1> QED
  BY <1>1, <1>3, <1>4, <1>5, <1>6

\* Two logins of different people share an SSO key only for one of the reasons in
\* Alike, the empty name that all of them may be given among them: there is no
\* other way to a shared key (active_directory.go 153-164, proxy.go 152-185,
\* saml.go 320-336, 368-403).
THEOREM KeysApart == Spec => []IdentitiesApart
<1>1. Inv => IdentitiesApart
  <2> SUFFICES ASSUME Inv, NEW l \in Logins, NEW k \in Logins, SameKey(l, k)
               PROVE  Subject(l) = Subject(k) \/ Alike(l, k)
    BY DEF IdentitiesApart
  <2>1. identity[l].provider \in {"ldap", "proxy", "saml"}
    BY DEF Inv, Local, Known, Vouched, SameKey
  <2> QED
    BY <2>1, LDAPApart, ProxyApart, SAMLApart
<1> QED
  BY <1>1, Invariance, PTL

-------------------------------------------------------------------------------
(***************************************************************************)
(* Progress.                                                               *)
(***************************************************************************)

\* Where a request may be after a step of the broker.
After(at) ==
    CASE at \in Entries ->
            {"dial", "forward", "redirect", "parse", "describe", "done"}
      [] at = "dial" -> {"bind", "done"}
      [] at = "bind" -> {"search", "done"}
      [] at = "search" -> {"rebind", "complete", "done"}
      [] at \in {"rebind", "forward", "parse"} -> {"complete", "done"}
      [] at = "redirect" -> {"away", "done"}
      [] at \in {"describe", "complete"} -> {"done"}
      [] OTHER -> {}

LEMMA StepGoesOn ==
    ASSUME TypeOK, NEW l \in Logins, Step(l)
    PROVE  pc'[l] \in After(pc[l])
<1> USE DEF TypeOK, TypeFlow, Goto, End, After, Entries
<1>1. CASE Dispatch(l)
  BY <1>1 DEF Dispatch, Unusable, Unsupported
<1>2. CASE LDAPStep(l)
  BY <1>2
  DEF LDAPStep, Submit, Dial, Bind, Search, Rebind, CompleteLDAP, Identify,
      AttributePanics
<1>3. CASE ProxyStep(l)
  BY <1>3 DEF ProxyStep, Submit, Forward, Identify
<1>4. CASE SAMLStep(l)
  BY <1>4 DEF SAMLStep, SetUp, Redirect, Parse, Describe, Identify
<1>5. CASE Complete(l)
  BY <1>5 DEF Complete
<1> QED
  BY <1>1, <1>2, <1>3, <1>4, <1>5 DEF Step

\* Nobody else moves a request that is in flight, except to its end.
LEMMA NeverBack ==
    ASSUME TypeOK, [Next]_vars, NEW l \in Logins, pc[l] \in Serving
    PROVE  pc'[l] = pc[l] \/ pc'[l] \in After(pc[l]) \/ pc'[l] = "done"
<1>1. ASSUME NEW k \in Logins, StepOf(k)
      PROVE  pc'[l] = pc[l] \/ pc'[l] \in After(pc[l])
  <2>1. CASE k # l
    BY <1>1, <2>1, Others DEF Same
  <2>2. CASE k = l
    <3>1. Step(l)
      BY <1>1, <2>2
      DEF StepOf, Ask, Initiate, Authenticate, Goto, Serving, Entries
    <3> QED
      BY <3>1, StepGoesOn
  <2> QED
    BY <2>1, <2>2
<1>2. CASE Crash
  BY <1>2 DEF Crash
<1>3. CASE \/ UNCHANGED vars
           \/ Edit
           \/ \E p \in People : Close(p)
           \/ \E k \in Logins : Reap(k)
  BY <1>3 DEF Edit, Close, Reap, flow, vars
<1> QED
  BY <1>1, <1>2, <1>3 DEF Next, StepOf

\* If every call returns and no request is ever stuck, every request is
\* answered: it takes six steps at most, whatever is edited or closed meanwhile.
THEOREM EveryRequestAnswered == FairSpec /\ []NeverStuck => Served
<1> SUFFICES ASSUME NEW l \in Logins
             PROVE  FairSpec /\ []NeverStuck
                      => (pc[l] \in Serving ~> pc[l] \notin Serving)
  BY DEF Served
<1> DEFINE S6 == pc[l] \in {"complete", "describe"}
           S5 == pc[l] \in {"rebind", "forward", "parse", "redirect"} \/ S6
           S4 == pc[l] = "search" \/ S5
           S3 == pc[l] = "bind" \/ S4
           S2 == pc[l] = "dial" \/ S3
           S1 == pc[l] \in Serving
           Ended == pc[l] \notin Serving
<1>1. FairSpec => Fair(l)
  BY DEF FairSpec, Fairness
<1>2. NeverStuck => (S1 => ENABLED <<Step(l)>>_vars)
  BY DEF NeverStuck
<1>3. TypeOK /\ [Next]_vars =>
        /\ S1 => S1' \/ Ended'
        /\ S2 => S2' \/ Ended'
        /\ S3 => S3' \/ Ended'
        /\ S4 => S4' \/ Ended'
        /\ S5 => S5' \/ Ended'
        /\ S6 => S6' \/ Ended'
  BY NeverBack DEF After, Serving, Entries
<1>4. TypeOK /\ <<Step(l)>>_vars =>
        /\ S1 => S2' \/ Ended'
        /\ S2 => S3' \/ Ended'
        /\ S3 => S4' \/ Ended'
        /\ S4 => S5' \/ Ended'
        /\ S5 => S6' \/ Ended'
        /\ S6 => Ended'
  BY StepGoesOn DEF After, Serving, Entries
<1>5. S2 \/ S3 \/ S4 \/ S5 \/ S6 => S1
  BY DEF Serving, Entries
<1> QED
  BY <1>1, <1>2, <1>3, <1>4, <1>5, LoginTyping, PTL DEF FairSpec, Fair, Spec

-------------------------------------------------------------------------------
(***************************************************************************)
(* The LDAP server when it is full                                         *)
(***************************************************************************)

\* A login that has got past its first bind has a connection of its own.
Connected(l) ==
    \/ pc[l] \in {"search", "rebind"}
    \/ pc[l] = "complete" /\ held[l].provider = "ldap"
    => l \in conns

LEMMA ConnectedStep ==
    ASSUME Inv, NEW r \in Logins, Connected(r), StepOf(r)
    PROVE  Connected(r)'
<1> USE DEF Inv, TypeOK, TypeFlow, TypeLDAP, Connected, Goto, End
<1>1. CASE LDAPStep(r)
  BY <1>1
  DEF LDAPStep, Submit, Dial, Bind, Search, Rebind, CompleteLDAP, Identify,
      AttributePanics, ldap
<1>2. CASE ProxyStep(r) /\ UNCHANGED <<ldap, saml>>
  <2>1. pc[r] = "forward" => Has(r, "proxy")
    BY DEF Local, LocalFlow
  <2> QED
    BY <1>2, <2>1 DEF ProxyStep, Submit, Forward, Identify, Has
<1>3. CASE SAMLStep(r) /\ UNCHANGED ldap
  <2>1. pc[r] = "parse" => Has(r, "saml")
    BY DEF Local, LocalSAML
  <2> QED
    BY <1>3, <2>1
    DEF SAMLStep, SetUp, Redirect, Parse, Describe, Identify, Has
<1>4. CASE Dispatch(r) \/ Complete(r) \/ Ask(r) \/ Initiate(r) \/ Authenticate(r)
  BY <1>4
  DEF Dispatch, Unusable, Unsupported, Complete, Ask, Initiate, Authenticate,
      Entries
<1> QED
  BY <1>1, <1>2, <1>3, <1>4 DEF StepOf, Step

LEMMA ConnectedInvariant == Spec => [](\A l \in Logins : Connected(l))
<1> DEFINE C == \A l \in Logins : Connected(l)
<1>1. Init => C
  BY DEF Init, InitFlow, Connected
<1>2. Inv /\ C /\ [Next]_vars => C'
  <2> SUFFICES ASSUME Inv, C, [Next]_vars, NEW l \in Logins PROVE Connected(l)'
    OBVIOUS
  <2>1. ASSUME NEW r \in Logins, StepOf(r) PROVE Connected(l)'
    <3>1. CASE r = l
      BY <2>1, <3>1, ConnectedStep
    <3>2. CASE r # l
      BY <2>1, <3>2, Others DEF Inv, Same, Connected
    <3> QED
      BY <3>1, <3>2
  <2>2. CASE Crash
    BY <2>2 DEF Crash, Connected, Serving
  <2>3. CASE \/ UNCHANGED vars
             \/ Edit /\ UNCHANGED <<ldap, saml>>
             \/ \E p \in People : Close(p) /\ UNCHANGED <<ldap, saml>>
    BY <2>3 DEF Edit, Close, flow, ldap, vars, Connected
  <2>4. CASE \E r \in Logins : Reap(r)
    BY <2>4 DEF Reap, flow, Connected
  <2> QED
    BY <2>1, <2>2, <2>3, <2>4 DEF Next, StepOf
<1> QED
  BY <1>1, <1>2, Invariance, PTL DEF Spec

\* Only a dial and a login that succeeds change what is connected.
LEMMA ConnectionsChange ==
    ASSUME NEW r \in Logins, StepOf(r)
    PROVE  \/ conns' = conns
           \/ Cardinality(conns) < MaxConns
           \/ CompleteLDAP(r)
<1>1. CASE LDAPStep(r)
  BY <1>1 DEF LDAPStep, Dial, Bind, Search, Rebind, ldap
<1> QED
  BY <1>1 DEF StepOf, Step, ldap

\* Once failed logins have taken all the places at the LDAP server, nobody logs
\* in by LDAP until the broker is restarted or the server closes one of those
\* connections, which the broker itself never does (active_directory.go 85-97,
\* 273-338).
THEOREM ExhaustedUntilRestart == Spec => ExhaustedForGood
<1> DEFINE C == \A l \in Logins : Connected(l)
           Lasts ==
             Exhausted =>
               /\ Exhausted' \/ conns' = {} \/ \E l \in Logins : Reap(l)
               /\ \A l \in Logins : outcome[l] # "ok" /\ outcome'[l] = "ok"
                                    => held[l].provider # "ldap"
<1>1. Inv /\ C /\ [Next]_vars => [Lasts]_vars
  <2> SUFFICES ASSUME Inv, C, Next, Exhausted PROVE Lasts
    OBVIOUS
  <2>1. ASSUME NEW r \in Logins, StepOf(r) PROVE Lasts
    <3>1. ~CompleteLDAP(r)
      BY DEF CompleteLDAP, End, Goto, Connected, Exhausted
    <3>2. Cardinality(conns) \in Nat
      BY FS_CardinalityType DEF Inv, Finite
    <3>3. conns' = conns
      BY <2>1, <3>1, <3>2, ConnectionsChange, LDAPAssumption DEF Exhausted
    <3>4. ASSUME NEW k \in conns PROVE pc'[k] = "done"
      <4>1. k \in Logins /\ pc[k] = "done"
        BY DEF Inv, TypeOK, TypeLDAP, Exhausted
      <4>2. CASE k = r
        <5>1. ~Step(r)
          BY <4>1, <4>2, StepGoesOn DEF Inv, After, Entries
        <5> QED
          BY <2>1, <4>1, <4>2, <5>1
          DEF StepOf, Ask, Initiate, Authenticate, Goto
      <4>3. CASE k # r
        BY <2>1, <4>1, <4>3, Others DEF Inv, Same
      <4> QED
        BY <4>2, <4>3
    <3>5. ASSUME NEW l \in Logins, outcome[l] # "ok", outcome'[l] = "ok"
          PROVE  held[l].provider # "ldap"
      <4>1. l = r
        BY <2>1, <3>5, Others DEF Inv, Same
      <4> USE DEF Inv, TypeOK, TypeFlow, End
      <4>2. ~LDAPStep(r)
        BY <3>1, <3>5, <4>1
        DEF LDAPStep, Submit, Dial, Bind, Search, Rebind, Identify, AttributePanics
      <4>3. ~ProxyStep(r) /\ ~SAMLStep(r)
        BY <3>5, <4>1
        DEF ProxyStep, Submit, Forward, SAMLStep, SetUp, Redirect, Parse,
            Describe, Identify
      <4>4. ~Dispatch(r)
        BY <3>5, <4>1 DEF Dispatch, Unusable, Unsupported, Refusal
      <4>5. ~Ask(r) /\ ~Initiate(r) /\ ~Authenticate(r)
        BY <3>5, <4>1 DEF Ask, Initiate, Authenticate
      <4> QED
        BY <2>1, <4>1, <4>2, <4>3, <4>4, <4>5 DEF StepOf, Step, Complete
    <3> QED
      BY <3>3, <3>4, <3>5 DEF Exhausted
  <2>2. CASE Crash /\ CrashLDAP
    BY <2>2 DEF Crash, CrashLDAP
  <2>3. CASE \/ Edit /\ UNCHANGED <<ldap, saml>>
             \/ \E p \in People : Close(p) /\ UNCHANGED <<ldap, saml>>
    BY <2>3 DEF Edit, Close, flow, ldap, Exhausted
  <2>4. CASE \E r \in Logins : Reap(r)
    BY <2>4 DEF Reap, flow
  <2> QED
    BY <2>1, <2>2, <2>3, <2>4 DEF Next, StepOf
<1> QED
  BY <1>1, Invariance, ConnectedInvariant, PTL DEF Spec, ExhaustedForGood
===============================================================================
