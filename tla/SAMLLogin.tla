------------------------------- MODULE SAMLLogin -------------------------------
(***************************************************************************)
(* Logins at a SAML identity provider: src/providers/saml.go.              *)
(*                                                                         *)
(*   Redirect, then Authenticate at the identity provider, then Parse      *)
(*                                                                         *)
(* Each request sets up a middleware of its own, in Init, and each set-up  *)
(* fetches the metadata of the identity provider.  Init reports no error:  *)
(* it panics, or the handlers find what it has left.  A set-up reads the   *)
(* profile of its request, so the two requests of a login may be set up    *)
(* for different identity providers.                                       *)
(***************************************************************************)
EXTENDS LoginFlows

CONSTANTS
    FullNameOf  \* forename and surname of each person

ASSUME SAMLAssumption == FullNameOf \in [People -> Names]

VARIABLES
    middleware, \* what Init has left to each login's last request
    sentTo,     \* the identity provider the browser was redirected to
    assertion   \* the answer the browser brings back from there

saml == <<middleware, sentTo, assertion>>

\* No middleware, one without metadata, one without private key.
Middlewares == {"nil", "blind", "keyless", "ready"}
Assertions == [idp : IdPs, person : People \cup {Nobody}]
NoAssertion == [idp |-> NoIdP, person |-> Nobody]

\* initialiseSAMLMiddleware panics: there is no first certificate, an address
\* cannot be parsed, or the key is not one for RSA.
SetUpPanics(p) == p.cert \in {"none", "not RSA"} \/ ~p.url

\* What it leaves otherwise, with the metadata fetched or not.
Leaves(p, fetched) ==
    IF p.cert = "unloaded" THEN "nil"
    ELSE IF ~fetched THEN "blind"
    ELSE IF p.cert = "keyless" THEN "keyless"
    ELSE "ready"

SetUp(l, entry, to) ==
    /\ \/ /\ Finds(profile, "saml")
          /\ SetUpPanics(profile)
          /\ held' = [held EXCEPT ![l] = profile]
          /\ End(l, entry, "aborted")
          /\ UNCHANGED <<form, disturbed, middleware>>
       \/ \E fetched \in BOOLEAN :
             /\ Finds(profile, "saml")
             /\ ~SetUpPanics(profile)
             /\ fetched \/ "metadata" \in Faults
             /\ middleware' =
                  [middleware EXCEPT ![l] = Leaves(profile, fetched)]
             /\ held' = [held EXCEPT ![l] = profile]
             /\ Goto(l, entry, to)
             /\ IF fetched THEN UNCHANGED disturbed ELSE Excuse(l)
             /\ UNCHANGED <<form, identity, outcome>>
    /\ UNCHANGED <<store, sentTo, assertion>>

\* Handle.
Redirect(l) ==
    /\ pc[l] = "redirect"
    /\ \/ /\ middleware[l] = "nil"
          /\ End(l, "redirect", "blank")
          /\ UNCHANGED <<disturbed, sentTo>>
       \/ /\ middleware[l] \in {"blind", "keyless"}
          /\ End(l, "redirect", "aborted")
          /\ UNCHANGED <<disturbed, sentTo>>
       \/ /\ middleware[l] = "ready"
          /\ held[l].binding
          /\ Goto(l, "redirect", "away")
          /\ sentTo' = [sentTo EXCEPT ![l] = held[l].idp]
          /\ UNCHANGED <<identity, outcome, disturbed>>
       \/ /\ middleware[l] = "ready"
          /\ ~held[l].binding
          /\ End(l, "redirect", "blank")
          /\ UNCHANGED <<disturbed, sentTo>>
       \/ /\ middleware[l] = "ready"
          /\ "track" \in Faults
          /\ End(l, "redirect", "failed")
          /\ Excuse(l)
          /\ UNCHANGED sentTo
    /\ UNCHANGED <<store, form, held, middleware, assertion>>

\* External: the user proves to be somebody, or declines to.
Authenticate(l) ==
    /\ Goto(l, "away", "callback")
    /\ \E p \in accounts \cup {Nobody} :
          assertion' = [assertion EXCEPT ![l] = [idp |-> sentTo[l], person |-> p]]
    /\ UNCHANGED <<store, form, held, identity, outcome, disturbed, middleware,
                   sentTo>>

\* External: a login that is begun at an identity provider.
Initiate(l) ==
    /\ Goto(l, "idle", "callback")
    /\ \E i \in IdPs, p \in accounts :
          assertion' = [assertion EXCEPT ![l] = [idp |-> i, person |-> p]]
    /\ UNCHANGED <<store, form, held, identity, outcome, disturbed, middleware,
                   sentTo>>

\* ReadEmailFromClaims.
SAMLMail(l, p) == IF "mail" \in held[l].claims THEN p ELSE Nobody

\* ReadNamesFromClaims: without forename and surname the user is called by the
\* mail address, and without that by the empty name.
SAMLUser(l, p) ==
    IF "names" \in held[l].claims THEN FullNameOf[p]
    ELSE IF "mail" \in held[l].claims THEN p
    ELSE NoName

SAMLIdentity(l, p) ==
    [provider |-> "saml", user |-> SAMLUser(l, p), mail |-> SAMLMail(l, p)]

\* Wrong: only the answers to requests of this broker are taken.
ValidTracked(l) ==
    /\ assertion[l].person # Nobody
    /\ assertion[l].idp = held[l].idp
    /\ sentTo[l] = held[l].idp

\* ParseResponse, with the metadata of this request.
Valid(l) ==
    assertion[l].person # Nobody /\ assertion[l].idp = held[l].idp

\* HandleCallback.
Parse(l) ==
    /\ pc[l] = "parse"
    /\ \/ /\ middleware[l] \in {"nil", "blind", "keyless"}
          /\ End(l, "parse", "aborted")
          /\ UNCHANGED <<form, held, disturbed>>
       \/ /\ middleware[l] = "blind"
          /\ End(l, "parse", "failed")
          /\ UNCHANGED <<form, held, disturbed>>
       \/ /\ middleware[l] \in {"keyless", "ready"}
          /\ Valid(l)
          /\ Identify(l, "parse", SAMLIdentity(l, assertion[l].person))
       \/ /\ middleware[l] \in {"keyless", "ready"}
          /\ ~Valid(l)
          /\ End(l, "parse", "failed")
          /\ UNCHANGED <<form, held, disturbed>>
       \/ /\ middleware[l] \in {"keyless", "ready"}
          /\ "response" \in Faults
          /\ End(l, "parse", "failed")
          /\ Excuse(l)
          /\ UNCHANGED <<form, held>>
    /\ UNCHANGED <<store, saml>>

\* HandleMetadata, which needs no metadata of the other side.
Describe(l) ==
    /\ End(l, "describe", IF middleware[l] = "nil" THEN "aborted" ELSE "described")
    /\ UNCHANGED <<store, form, held, disturbed, saml>>

SAMLStep(l) ==
    \/ SetUp(l, "auth", "redirect")
    \/ SetUp(l, "callback", "parse")
    \/ SetUp(l, "metadata", "describe")
    \/ Redirect(l) \/ Parse(l) \/ Describe(l)

InitSAML ==
    /\ middleware = [l \in Logins |-> "nil"]
    /\ sentTo = [l \in Logins |-> NoIdP]
    /\ assertion = [l \in Logins |-> NoAssertion]

TypeSAML ==
    /\ middleware \in [Logins -> Middlewares]
    /\ sentTo \in [Logins -> IdPs \cup {NoIdP}]
    /\ assertion \in [Logins -> Assertions \cup {NoAssertion}]
===============================================================================
