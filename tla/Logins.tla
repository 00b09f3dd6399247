-------------------------------- MODULE Logins --------------------------------
(***************************************************************************)
(* Logins of all kinds under one profile: the entry points with the LDAP,  *)
(* the proxy and the SAML provider behind them.                            *)
(*                                                                         *)
(* A login is one request, or two for SAML, which an edit of the profile,  *)
(* a change of the accounts, a crash and other logins may come between.    *)
(***************************************************************************)
EXTENDS LDAPLogin, ProxyLogin, SAMLLogin

vars == <<flow, store, ldap, saml>>

\* CompleteIdentityAction, which may panic, is the end of the other logins.
Complete(l) ==
    /\ held[l] # NoProfile /\ held[l].provider # "ldap"
    /\ \/ End(l, "complete", "ok") /\ UNCHANGED disturbed
       \/ "action" \in Faults /\ End(l, "complete", "aborted") /\ Excuse(l)
    /\ UNCHANGED <<store, form, held>>

\* The steps of the broker.
Step(l) ==
    \/ Dispatch(l) /\ UNCHANGED <<ldap, saml>>
    \/ LDAPStep(l) /\ UNCHANGED saml
    \/ ProxyStep(l) /\ UNCHANGED <<ldap, saml>>
    \/ SAMLStep(l) /\ UNCHANGED ldap
    \/ Complete(l) /\ UNCHANGED <<ldap, saml>>

Init == InitFlow /\ InitLDAP /\ InitSAML

Next ==
    \/ \E l \in Logins :
          \/ Ask(l) /\ UNCHANGED <<ldap, saml>>
          \/ Initiate(l) /\ UNCHANGED ldap
          \/ Authenticate(l) /\ UNCHANGED ldap
          \/ Reap(l) /\ UNCHANGED saml
          \/ Step(l)
    \/ Edit /\ UNCHANGED <<ldap, saml>>
    \/ \E p \in People : Close(p) /\ UNCHANGED <<ldap, saml>>
    \/ Crash /\ CrashLDAP /\ UNCHANGED saml

\* A goroutine that can run is run, and the servers that are called answer or
\* refuse.  Users need not come back.
Fair(l) == WF_vars(Step(l))
Fairness == \A l \in Logins : Fair(l)

Spec == Init /\ [][Next]_vars
FairSpec == Spec /\ Fairness

(***************************************************************************)
(* Properties                                                              *)
(***************************************************************************)

TypeOK == TypeFlow /\ TypeLDAP /\ TypeSAML

\* The password is of the name that was typed or, where the administrator
\* searches, of the person whose entry was found.  Without administrator the
\* entry is another person's only if the filter does not find the entry of the
\* one who has bound, or no longer does.
VouchedByLDAP(l) ==
    LET f == form[l]
        id == identity[l]
    IN  /\ id.user = UserName(l)
        /\ id.mail \in EntriesOf[f.name]
        /\ IF held[l].admin THEN f.secret = id.mail
           ELSE /\ f.secret = AccountOf[f.name]
                /\ \/ id.mail = f.secret
                   \/ f.secret \notin EntriesOf[f.name] \cap accounts

\* If the gates tell who is turned down, the target has let the user in, whom
\* its name for them is of, and there is none only if it gives an empty one.
VouchedByTarget(l) ==
    LET id == identity[l]
    IN  Discriminates(held[l]) =>
            /\ form[l].secret = AccountOf[form[l].name]
            /\ id.user \in Names => AccountOf[id.user] = form[l].secret
            /\ id.user = NoName => held[l].json

\* The identity provider of the profile has asserted a person, and the identity
\* names no other; it has no name only if the profile's mapping finds nothing.
VouchedByIdP(l) ==
    LET person == assertion[l].person
        id == identity[l]
    IN  /\ assertion[l].idp = held[l].idp
        /\ person # Nobody
        /\ id.mail \in {person, Nobody}
        /\ id.user \in {person, FullNameOf[person], NoName}
        /\ id.user = NoName => held[l].claims = {}

Vouched(l) ==
    \/ /\ identity[l].provider = "ldap"
       /\ held[l].provider = "ldap"
       /\ VouchedByLDAP(l)
    \/ /\ identity[l].provider = "proxy"
       /\ held[l].provider = "proxy"
       /\ VouchedByTarget(l)
    \/ /\ identity[l].provider = "saml"
       /\ held[l].provider = "saml"
       /\ VouchedByIdP(l)

\* CompleteIdentityAction is called only with what the server of the profile has
\* answered to the password or the assertion of this very login, and under the
\* profile of this very request, however many requests, edits, closed accounts
\* and crashes come between (active_directory.go 272-339, proxy.go 82-199,
\* saml.go 271-339).  Whom it vouches for is stated per provider above.
OnlyVouched == \A l \in Logins : identity[l] # NoIdentity => Vouched(l)

\* Every open connection to the LDAP server belongs to a login in flight or to
\* one that failed, whose connection the broker does not close
\* (active_directory.go 273-338).
ConnectionsAccounted ==
    /\ Cardinality(conns) <= MaxConns
    /\ \A l \in conns :
          /\ held[l] # NoProfile /\ held[l].provider = "ldap"
          /\ pc[l] \in Serving \/ outcome[l] \in {"failed", "aborted"}

\* Every place at the LDAP server is taken by a login that is over.
Exhausted ==
    /\ Cardinality(conns) >= MaxConns
    /\ \A l \in conns : pc[l] = "done"

\* That state lasts until the broker is restarted or the server closes an idle
\* connection, and no login by LDAP succeeds meanwhile: the broker never closes
\* what a failed login has left open, and a login without a connection of its
\* own gets no further than its first bind (active_directory.go 85-97, 273-338).
ExhaustedForGood ==
    [][Exhausted =>
         /\ Exhausted' \/ conns' = {} \/ \E l \in Logins : Reap(l)
         /\ \A l \in Logins :
               outcome[l] # "ok" /\ outcome'[l] = "ok"
               => held[l].provider # "ldap"]_vars

\* What a login needs to succeed, from its user and from the profile.
Deserving(l) ==
    LET f == form[l]
        c == held[l]
    IN  /\ c # NoProfile /\ c.provider # "invalid" /\ c.setup = "good"
        /\ c.provider \in {"ldap", "proxy"} =>
             /\ f.name # NoName
             /\ f.secret \in accounts
        /\ c.provider = "ldap" =>
             /\ ~Incomplete(l)
             /\ IF c.admin THEN EntriesOf[f.name] = {f.secret}
                ELSE /\ AccountOf[f.name] = f.secret
                     /\ \E p \in accounts : EntriesOf[f.name] = {p}
        /\ c.provider = "proxy" =>
             AccountOf[f.name] = f.secret /\ "broken" \notin c.gates
        /\ c.provider = "saml" =>
             /\ c.cert = "good" /\ c.url /\ c.binding
             /\ \/ assertion[l] = NoAssertion
                \/ /\ assertion[l].person # Nobody
                   /\ assertion[l].idp = c.idp

\* A login fails, is cut off or gets an empty answer only if a call of its own
\* failed, a connection refused by a server that is full included, or if the
\* user or the profile it was loaded with could not succeed: an edit, another
\* login or a restart between its two requests does not cost it its success
\* (http_handlers.go 28-82, saml.go 96-187).
UndisturbedSucceeds ==
    \A l \in Logins :
        outcome[l] \in {"failed", "blank", "aborted"} /\ Deserving(l)
        => l \in disturbed

\* Whose login it is.
Subject(l) ==
    IF identity[l].provider = "saml" THEN assertion[l].person ELSE form[l].secret

\* Names that the provider or the profile makes equal: the empty name, which a
\* slug, a field of the target's answer or an assertion without mapped claims
\* may be; slugs of different names; a name that was given another meaning by
\* an edit; namesakes.
Alike(l, k) ==
    \/ identity[l].user = NoName
    \/ /\ identity[l].provider = "ldap"
       /\ \/ form[l].name # form[k].name /\ (held[l].slug \/ held[k].slug)
          \/ held[l].admin # held[k].admin
    \/ /\ identity[l].provider = "proxy"
       /\ ~Discriminates(held[l]) \/ ~Discriminates(held[k])
    \/ /\ identity[l].provider = "saml"
       /\ FullNameOf[Subject(l)] = FullNameOf[Subject(k)]

SameKey(l, k) ==
    /\ identity[l] # NoIdentity /\ identity[k] # NoIdentity
    /\ identity[l].provider = identity[k].provider
    /\ identity[l].user = identity[k].user

\* Two logins are given one SSO key, and so one developer record and one token
\* in Tyk, only if they are of one person or for a reason in Alike: these are
\* all the ways in which different people share a key, however logins, edits
\* and closed accounts mix (active_directory.go 153-164, proxy.go 152-185,
\* saml.go 320-336, tap/identity_handler.go 22-25).
IdentitiesApart ==
    \A l, k \in Logins :
        SameKey(l, k) => Subject(l) = Subject(k) \/ Alike(l, k)

\* A request can go on whatever its profile holds or has been edited to,
\* whatever the accounts are now and however many connections are open.
NeverStuck == \A l \in Logins : pc[l] \in Serving => ENABLED <<Step(l)>>_vars

\* Every request is answered or cut off.
Served == \A l \in Logins : pc[l] \in Serving ~> pc[l] \notin Serving

\* Both: no handler ever waits for another request, and each gets to its end.
Answered == []NeverStuck /\ Served
===============================================================================
