------------------------------ MODULE SocialAuth ------------------------------
(***************************************************************************)
(* Social logins: src/http_handlers.go, src/providers/social.go and        *)
(* src/tothic/tothic.go.                                                   *)
(*                                                                         *)
(* A login is two requests of one browser.  The first stores the provider  *)
(* named in its URL under a key of the profile, reads the name back and    *)
(* redirects the browser to that provider.  The second, the callback,      *)
(* reads the name again, whichever provider the browser comes from.  The   *)
(* key is the same for all users of a profile, the session cookie for all  *)
(* logins of a browser.                                                    *)
(***************************************************************************)
EXTENDS Naturals

CONSTANTS
    Logins,      \* the logins that are ever begun
    Browsers,
    Asked,       \* what the logins' first requests may ask for
    Profiles,    \* profile IDs
    Providers,   \* gplus, github, ...
    NoProvider,  \* no provider, the empty string
    Configs,     \* what a social profile may hold, a set of ConfigType
    NoConfig,    \* the profile does not exist
    Loaded,      \* the profiles the broker may start with
    Accounts,    \* users of the providers
    Members,     \* the accounts whose email is in the profiles' domain
    NoAccount,   \* the user did not log in at the provider
    NoLogin,     \* a browser without session cookie
    Faults,      \* what may fail
    MaxEdits,    \* bound: how often profiles are edited
    MaxCrashes   \* bound: how often the broker is killed

ConfigType == [providers : SUBSET Providers, domain : BOOLEAN]
FaultKinds == {"init", "store", "provider", "load"}

Requests == [browser : Browsers, profile : Profiles, provider : Providers]

ASSUME ConstantsAssumption ==
    /\ Asked \subseteq [Logins -> Requests]
    /\ NoProvider \notin Providers
    /\ Configs \subseteq ConfigType
    /\ NoConfig \notin ConfigType
    /\ Loaded \subseteq [Profiles -> Configs \cup {NoConfig}]
    /\ Members \subseteq Accounts
    /\ NoAccount \notin Accounts
    /\ NoLogin \notin Logins
    /\ Faults \subseteq FaultKinds
    /\ MaxEdits \in Nat
    /\ MaxCrashes \in Nat

VARIABLES
    profiles,   \* the profile store
    params,     \* tothic.pathParams: the provider stored for each profile
    prepared,   \* init() got as far as the session store and the error handler
    cookie,     \* the login whose session each browser's cookie holds
    pc,         \* where each login is
    want,       \* the browser, profile and provider of each login, never changed
    config,     \* the profile as the request in flight has loaded it
    sentTo,     \* the provider the browser was redirected to
    account,    \* who logged in there
    outcome,    \* how the login ended
    identity,   \* whom CompleteIdentityAction was called with
    disturbed,  \* history: logins that a fault or somebody else has interfered with
    edits,      \* how often profiles have been edited
    crashes     \* how often the broker has been killed

login == <<pc, want, config, sentTo, account, outcome, identity>>
bounds == <<edits, crashes>>
vars == <<profiles, params, prepared, cookie, login, disturbed, bounds>>

PCs == {"idle", "setparams", "begin", "away", "back", "resolve", "done"}

\* The steps at which a request is in flight.
Serving == {"setparams", "begin", "resolve"}
Outcomes == {"none", "blank", "failed", "refused", "ok", "aborted", "dropped"}
Identities == [provider : Providers, account : Accounts]
Nobody == [provider |-> NoProvider, account |-> NoAccount]

Goto(l, from, to) ==
    /\ pc[l] = from
    /\ pc' = [pc EXCEPT ![l] = to]

End(l, from, what) ==
    /\ Goto(l, from, "done")
    /\ outcome' = [outcome EXCEPT ![l] = what]

\* An error is written to the browser, unless the handler for errors was never
\* set: then net/http recovers from the panic and drops the connection.
Fail(l, from) == End(l, from, IF prepared THEN "failed" ELSE "aborted")

\* The logins of profile f that have stored their provider and still need it.
Begun(f) == {k \in Logins : pc[k] \in {"begin", "away", "back", "resolve"}
                            /\ want[k].profile = f}

Disturb(who) == disturbed' = disturbed \cup who

(***************************************************************************)
(* The first request                                                       *)
(***************************************************************************)

\* HandleAuth: a profile or provider that cannot be set up ends the request
\* without a word, and an action that no handler is known for with a panic.
Arrive(l) ==
    LET f == want[l].profile
    IN  /\ \/ /\ profiles[f] # NoConfig
              /\ Goto(l, "idle", "setparams")
              /\ config' = [config EXCEPT ![l] = profiles[f]]
              /\ UNCHANGED outcome
           \/ /\ profiles[f] = NoConfig \/ "init" \in Faults
              /\ End(l, "idle", "blank")
              /\ UNCHANGED config
           \/ /\ profiles[f] # NoConfig /\ "init" \in Faults
              /\ End(l, "idle", "aborted")
              /\ UNCHANGED config
        /\ UNCHANGED <<profiles, params, prepared, cookie, want, sentTo, account,
                       identity, disturbed, bounds>>

\* Wrong: what is stored already is kept.
SetParamsOnce(l) ==
    LET f == want[l].profile
        p == want[l].provider
    IN  /\ Goto(l, "setparams", "begin")
        /\ params' = [params EXCEPT ![f] = IF @ = NoProvider THEN p ELSE @]
        /\ Disturb({k \in Begun(f) : want[k].provider # p})
        /\ UNCHANGED <<profiles, prepared, cookie, want, config, sentTo, account,
                       outcome, identity, bounds>>

\* SetPathParams: an error is logged, and what an earlier login stored stays.
SetParams(l) ==
    LET f == want[l].profile
        p == want[l].provider
    IN  /\ Goto(l, "setparams", "begin")
        /\ \/ /\ params' = [params EXCEPT ![f] = p]
              /\ Disturb({k \in Begun(f) : want[k].provider # p})
           \/ /\ "store" \in Faults
              /\ Disturb({l})
              /\ UNCHANGED params
        /\ UNCHANGED <<profiles, prepared, cookie, want, config, sentTo, account,
                       outcome, identity, bounds>>

\* GetProviderName.
Provider(l) == params[want[l].profile]

\* Init builds the providers of the profile, and GetProvider finds this one.
Offered(l) == Provider(l) \in config[l].providers

\* GetAuthURL and the redirect, with the cookie.
Redirect(l) ==
    /\ Goto(l, "begin", "away")
    /\ prepared
    /\ Offered(l)
    /\ sentTo' = [sentTo EXCEPT ![l] = Provider(l)]
    /\ cookie' = [cookie EXCEPT ![want[l].browser] = l]
    /\ Disturb({k \in Logins \ {l} : pc[k] \in {"away", "back", "resolve"}
                                    /\ want[k].browser = want[l].browser})
    /\ UNCHANGED outcome

\* The name cannot be read, or the provider or the session cannot be used.
BeginFault(l) ==
    /\ Faults \cap {"store", "provider"} # {}
    /\ Fail(l, "begin")
    /\ Disturb({l})

Begin(l) ==
    /\ \/ Redirect(l)
       \/ /\ \/ /\ Fail(l, "begin")
                /\ ~prepared \/ ~Offered(l)
                /\ UNCHANGED disturbed
             \/ BeginFault(l)
          /\ UNCHANGED <<sentTo, cookie>>
    /\ UNCHANGED <<profiles, params, prepared, want, config, account, identity,
                   bounds>>

\* External: the user logs in at the provider, or declines to.
Authenticate(l) ==
    /\ Goto(l, "away", "back")
    /\ \E a \in Accounts \cup {NoAccount} :
          account' = [account EXCEPT ![l] = a]
    /\ UNCHANGED <<profiles, params, prepared, cookie, want, config, sentTo,
                   outcome, identity, disturbed, bounds>>

(***************************************************************************)
(* The callback                                                            *)
(***************************************************************************)

\* Wrong: a profile that is gone does not end the request.
ReturnUnchecked(l) ==
    /\ Goto(l, "back", "resolve")
    /\ config' = [config EXCEPT ![l] = profiles[want[l].profile]]
    /\ UNCHANGED <<profiles, params, prepared, cookie, want, sentTo, account,
                   outcome, identity, disturbed, bounds>>

\* HandleAuthCallback loads the profile again.
Return(l) ==
    LET f == want[l].profile
    IN  /\ \/ /\ profiles[f] # NoConfig
              /\ Goto(l, "back", "resolve")
              /\ config' = [config EXCEPT ![l] = profiles[f]]
              /\ UNCHANGED <<outcome, disturbed>>
           \/ /\ profiles[f] = NoConfig
              /\ End(l, "back", "failed")
              /\ UNCHANGED <<config, disturbed>>
           \/ /\ "init" \in Faults
              /\ \/ End(l, "back", "failed")
                 \/ profiles[f] # NoConfig /\ End(l, "back", "aborted")
              /\ Disturb({l})
              /\ UNCHANGED config
        /\ UNCHANGED <<profiles, params, prepared, cookie, want, sentTo, account,
                       identity, bounds>>

\* Wrong: the error of Authorize is not looked at.
AuthorizedUnchecked(l) == account[l] # NoAccount

\* sess.Authorize: a code is accepted only by the provider that issued it.
Authorized(l) == Provider(l) = sentTo[l] /\ account[l] # NoAccount

\* checkConstraints.
Admitted(l) == config[l].domain => account[l] \in Members

\* FetchUser asks the provider in the session; a session of another login is
\* no hindrance, except to a provider that keeps its request token in it.
Complete(l) ==
    /\ pc[l] = "resolve"
    /\ prepared
    /\ Offered(l)
    /\ cookie[want[l].browser] # NoLogin
    /\ Authorized(l)
    /\ IF Admitted(l)
         THEN /\ End(l, "resolve", "ok")
              /\ identity' = [identity EXCEPT
                                ![l] = [provider |-> Provider(l),
                                        account |-> account[l]]]
         ELSE End(l, "resolve", "refused") /\ UNCHANGED identity

\* CompleteUserAuth ends in an error, or without a session store in a panic.
Incomplete(l) ==
    \/ /\ End(l, "resolve", "failed")
       /\ ~Offered(l)
    \/ /\ Fail(l, "resolve")
       /\ Offered(l)
       /\ ~prepared \/ cookie[want[l].browser] # l \/ ~Authorized(l)

ResolveFault(l) ==
    /\ "store" \in Faults \/ ("provider" \in Faults /\ prepared)
    /\ End(l, "resolve", "failed")
    /\ Disturb({l})

\* Wrong: a callback whose calls fail is handled again.
ResolveRetrying(l) ==
    /\ \/ Complete(l) /\ UNCHANGED disturbed
       \/ Incomplete(l) /\ UNCHANGED <<identity, disturbed>>
       \/ /\ "store" \in Faults \/ "provider" \in Faults
          /\ Goto(l, "resolve", "back")
          /\ UNCHANGED <<outcome, identity, disturbed>>
    /\ UNCHANGED <<profiles, params, prepared, cookie, want, config, sentTo,
                   account, bounds>>

Resolve(l) ==
    /\ \/ Complete(l) /\ UNCHANGED disturbed
       \/ Incomplete(l) /\ UNCHANGED <<identity, disturbed>>
       \/ ResolveFault(l) /\ UNCHANGED identity
    /\ UNCHANGED <<profiles, params, prepared, cookie, want, config, sentTo,
                   account, bounds>>

\* A goroutine of the broker has something to do.
Serve(l) == SetParams(l) \/ Begin(l) \/ Return(l) \/ Resolve(l)

(***************************************************************************)
(* The administrator and the process                                       *)
(***************************************************************************)

\* The profile API changes a profile in memory.
Edit(f) ==
    /\ edits < MaxEdits
    /\ edits' = edits + 1
    /\ \E c \in Configs \cup {NoConfig} :
          profiles' = [profiles EXCEPT ![f] = c]
    /\ Disturb({l \in Logins : pc[l] \notin {"idle", "done"}
                               /\ want[l].profile = f})
    /\ UNCHANGED <<params, prepared, cookie, login, crashes>>

\* The broker is killed and started again.  Redis and the browsers keep what
\* they have.  If the profiles cannot be loaded, init() returns before it sets
\* up the session store, and main() serves all the same.
Crash ==
    /\ crashes < MaxCrashes
    /\ crashes' = crashes + 1
    /\ pc' = [l \in Logins |-> IF pc[l] \in Serving THEN "done" ELSE pc[l]]
    /\ outcome' = [l \in Logins |->
                     IF pc[l] \in Serving THEN "dropped" ELSE outcome[l]]
    /\ \/ UNCHANGED <<profiles, disturbed>> /\ prepared' = TRUE
       \/ /\ "load" \in Faults
          /\ prepared' = FALSE
          /\ profiles' = [f \in Profiles |-> NoConfig]
          /\ Disturb({l \in Logins : pc[l] \in {"away", "back"}})
    /\ UNCHANGED <<params, cookie, want, config, sentTo, account, identity, edits>>

Init ==
    /\ profiles \in Loaded
    /\ params = [f \in Profiles |-> NoProvider]
    /\ prepared = TRUE
    /\ cookie = [b \in Browsers |-> NoLogin]
    /\ pc = [l \in Logins |-> "idle"]
    /\ want \in Asked
    /\ config = [l \in Logins |-> NoConfig]
    /\ sentTo = [l \in Logins |-> NoProvider]
    /\ account = [l \in Logins |-> NoAccount]
    /\ outcome = [l \in Logins |-> "none"]
    /\ identity = [l \in Logins |-> Nobody]
    /\ disturbed = {}
    /\ edits = 0
    /\ crashes = 0

Next ==
    \/ \E l \in Logins : Arrive(l) \/ Serve(l) \/ Authenticate(l)
    \/ \E f \in Profiles : Edit(f)
    \/ Crash

\* Handlers run, and every call returns with an answer or an error.  Users may
\* never come back, and the administrator and crashes are free.
Spec == Init /\ [][Next]_vars
Going(l) == SetParams(l) \/ Begin(l) \/ Resolve(l)
Fair(l) == WF_vars(Going(l))
FairSpec == Spec /\ \A l \in Logins : Fair(l)

(***************************************************************************)
(* Properties                                                              *)
(***************************************************************************)

TypeOK ==
    /\ profiles \in [Profiles -> Configs \cup {NoConfig}]
    /\ params \in [Profiles -> Providers \cup {NoProvider}]
    /\ prepared \in BOOLEAN
    /\ cookie \in [Browsers -> Logins \cup {NoLogin}]
    /\ pc \in [Logins -> PCs]
    /\ want \in [Logins -> Requests]
    /\ config \in [Logins -> Configs \cup {NoConfig}]
    /\ \A l \in Logins : pc[l] \in Serving => config[l] \in Configs
    /\ sentTo \in [Logins -> Providers \cup {NoProvider}]
    /\ account \in [Logins -> Accounts \cup {NoAccount}]
    /\ outcome \in [Logins -> Outcomes]
    /\ identity \in [Logins -> Identities \cup {Nobody}]
    /\ disturbed \subseteq Logins
    /\ edits \in 0 .. MaxEdits
    /\ crashes \in 0 .. MaxCrashes

\* However logins of a profile, a browser and two providers mix, a login that
\* ends well is for the account that was used, at the provider that was used,
\* and the profile it was completed under offers that provider and admits that
\* account.
MixupsFailClosed ==
    \A l \in Logins : outcome[l] = "ok" =>
        /\ identity[l] = [provider |-> sentTo[l], account |-> account[l]]
        /\ sentTo[l] \in config[l].providers
        /\ config[l].domain => account[l] \in Members

\* The login was never possible: its provider is not one of the profile's, or
\* the user did not log in there.
Hopeless(l) ==
    \/ want[l].provider \notin config[l].providers
    \/ account[l] = NoAccount

\* A login goes to the provider it asked for, and does not fail if it could
\* succeed, unless a fault, an edit of its profile, a login of the profile at
\* another provider or another login of its browser interferes: whatever logins
\* of other profiles do in other browsers, and even if the broker is restarted
\* in between.
UndisturbedSucceeds ==
    \A l \in Logins \ disturbed :
        /\ sentTo[l] \in {NoProvider, want[l].provider}
        /\ outcome[l] = "failed" => Hopeless(l)

\* tothic.go 117: "BeginAuthHandler will redirect the user to the appropriate
\* authentication end-point for the requested provider."
SentWhereAsked ==
    \A l \in Logins : sentTo[l] \in {NoProvider, want[l].provider}

\* Whatever provider is stored for the profile, whatever session the cookie
\* holds, and with or without session store, a request in flight can go on.
NeverStuck == \A l \in Logins : pc[l] \in Serving => ENABLED <<Going(l)>>_vars

\* Every request is answered or cut off by the end of the process: the browser
\* is redirected, or the login ends.
Served == \A l \in Logins : pc[l] \in Serving ~> pc[l] \in {"away", "done"}

\* Both: no handler ever waits for another request, and each gets to its end.
Answered == []NeverStuck /\ Served
===============================================================================
