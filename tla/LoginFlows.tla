------------------------------ MODULE LoginFlows ------------------------------
(***************************************************************************)
(* The entry points of a login and the choice of its provider:             *)
(* src/http_handlers.go and src/providers/tapProvider.go.                  *)
(*                                                                         *)
(* Each request looks its profile up and builds a provider object of its   *)
(* own, so that what two logins share is outside of the broker: the        *)
(* profile, and the servers that know the users.  What follows the lookup  *)
(* is the providers' business: LDAPLogin, ProxyLogin and SAMLLogin, which  *)
(* Logins composes.  (SocialAuth models the social provider.)              *)
(***************************************************************************)
EXTENDS Naturals

CONSTANTS
    Logins,      \* the logins that are ever begun
    People,      \* who has an account somewhere
    Leavers,     \* whose accounts may be closed
    Nobody,      \* no person
    Names,       \* what users type, and what servers call them
    NoName,      \* no name, the empty string
    AccountOf,   \* whose account a name is, nobody's if there is none
    Forms,       \* what users may send, a set of FormType
    NoSecret,    \* no password
    Wrong,       \* a password of nobody
    IdPs,        \* SAML identity providers
    NoIdP,
    Profiles,    \* what the profile may hold, a set of ProfileType
    Loaded,      \* what it holds at first
    NoProfile,   \* the profile does not exist
    NoIdentity,  \* CompleteIdentityAction was not called
    Faults,      \* what may fail
    MaxEdits     \* bound: how often the profile is edited

\* Whether GetTAProvider succeeds: an unknown action has no handler, and the
\* configuration may not be one of the provider.  Of SAML assertions, claims is
\* what the mapping of the profile finds in those of its identity provider.
Setups == {"good", "unknown action", "unreadable"}
Certs == {"good", "none", "unloaded", "keyless", "not RSA"}

ProfileType ==
    [provider : {"ldap"}, setup : Setups, admin : BOOLEAN, slug : BOOLEAN,
     basic : BOOLEAN]
      \cup
    [provider : {"proxy"}, setup : Setups, gates : SUBSET {"code", "body", "broken"},
     header : BOOLEAN, json : BOOLEAN]
      \cup
    [provider : {"saml"}, setup : Setups, cert : Certs, url : BOOLEAN,
     binding : BOOLEAN, idp : IdPs, claims : SUBSET {"names", "mail"}]
      \cup
    [provider : {"invalid"}, setup : Setups]

\* A password is reduced to the person it belongs to and whether it has a colon.
FormType == [name : Names \cup {NoName}, secret : People \cup {NoSecret, Wrong},
             colon : BOOLEAN]

\* The name in the Authorization header, the second colon of which leaves the
\* parser with no name and no password.
HeaderName(f) == IF f.colon THEN NoName ELSE f.name

\* tap.GenerateSSOKey is of the provider and the user, whose name may be empty.
\* The mail stands for the person whose data it is with, if any.
\* RandStringRunes(12) gives each login a name that no other has.
Identities ==
    [provider : {"ldap"}, user : Names \cup {NoName}, mail : People] \cup
    [provider : {"proxy"}, user : Names \cup Logins \cup {NoName},
     mail : {Nobody}] \cup
    [provider : {"saml"}, user : Names \cup People \cup {NoName},
     mail : People \cup {Nobody}]

FaultKinds == {"dial", "bind", "search", "attribute", "target", "metadata",
               "track", "response", "action"}

ASSUME LoginAssumption ==
    /\ Nobody \notin People
    /\ Leavers \subseteq People
    /\ NoName \notin Names \cup Logins \cup People
    /\ Names \cap (Logins \cup People) = {}
    /\ AccountOf \in [Names -> People \cup {Nobody}]
    /\ Forms \subseteq FormType
    /\ NoSecret \notin People /\ Wrong \notin People /\ NoSecret # Wrong
    /\ NoIdP \notin IdPs
    /\ Profiles \subseteq ProfileType
    /\ Loaded \subseteq Profiles
    /\ NoProfile \notin ProfileType
    /\ NoIdentity \notin Identities
    /\ Faults \subseteq FaultKinds
    /\ MaxEdits \in Nat

VARIABLES
    profile,    \* the stored profile
    edits,      \* how often it has been edited
    accounts,   \* the people whose accounts have not been closed
    pc,         \* where each login is
    form,       \* what each login has sent
    held,       \* the profile as its last request loaded it
    identity,   \* whom CompleteIdentityAction is called with
    outcome,    \* how the login ended
    disturbed   \* history: logins that a failing call has interfered with

flow == <<pc, form, held, identity, outcome, disturbed>>
store == <<profile, edits, accounts>>

\* Requests that have just arrived, at the three handlers.
Entries == {"auth", "callback", "metadata"}

\* The steps at which a request is in flight.
Serving == Entries \cup {"dial", "bind", "search", "rebind", "forward",
                         "redirect", "parse", "describe", "complete"}
PCs == Serving \cup {"idle", "away", "done"}

\* Ways to end without having logged anybody in: an error, an empty answer, a
\* connection cut by net/http after a panic or by a crash.
Unsuccessful == {"failed", "blank", "aborted", "dropped"}
Outcomes == Unsuccessful \cup {"none", "ok", "described"}

Goto(l, from, to) ==
    /\ pc[l] = from
    /\ pc' = [pc EXCEPT ![l] = to]

End(l, from, what) ==
    /\ Goto(l, from, "done")
    /\ outcome' = [outcome EXCEPT ![l] = what]
    /\ UNCHANGED identity

\* A call fails for no reason of the login's.
Excuse(l) == disturbed' = disturbed \cup {l}

\* The user has proved to be somebody.
Identify(l, from, id) ==
    /\ Goto(l, from, "complete")
    /\ identity' = [identity EXCEPT ![l] = id]
    /\ UNCHANGED <<form, held, outcome, disturbed>>

(***************************************************************************)
(* HandleAuth, HandleAuthCallback, HandleMetadata                          *)
(***************************************************************************)

\* What HandleAuth answers if the lookup fails: nothing.
Refusal(entry) == IF entry = "auth" THEN "blank" ELSE "failed"

\* GetTapProfile gets as far as Init of the given provider.
Finds(p, provider) ==
    /\ p # NoProfile
    /\ p.provider = provider
    /\ p.setup = "good"

\* GetTapProfile fails, or panics on the handler it does not have.
Unusable(l, entry) ==
    /\ held' = [held EXCEPT ![l] = profile]
    /\ UNCHANGED disturbed
    /\ \/ /\ \/ profile = NoProfile
             \/ profile # NoProfile /\ profile.provider = "invalid"
             \/ /\ profile # NoProfile
                /\ profile.provider # "invalid"
                /\ profile.setup = "unreadable"
          /\ End(l, entry, Refusal(entry))
       \/ /\ profile # NoProfile
          /\ profile.provider # "invalid"
          /\ profile.setup = "unknown action"
          /\ End(l, entry, "aborted")
    /\ UNCHANGED form

\* The request goes to a provider that reads what the user has sent.
Submit(l, provider, to) ==
    /\ Finds(profile, provider)
    /\ held' = [held EXCEPT ![l] = profile]
    /\ \E f \in Forms : form' = [form EXCEPT ![l] = f]
    /\ Goto(l, "auth", to)
    /\ UNCHANGED <<store, identity, outcome, disturbed>>

\* Callbacks and metadata of a provider that has none.
Unsupported(l, entry, provider) ==
    /\ entry # "auth"
    /\ Finds(profile, provider)
    /\ held' = [held EXCEPT ![l] = profile]
    /\ End(l, entry, "blank")
    /\ UNCHANGED <<form, disturbed>>

\* A request to log in, or for the metadata, arrives.
Ask(l) ==
    /\ \E entry \in {"auth", "metadata"} : Goto(l, "idle", entry)
    /\ UNCHANGED <<store, form, held, identity, outcome, disturbed>>

Dispatch(l) ==
    /\ \E entry \in Entries :
          \/ Unusable(l, entry)
          \/ Unsupported(l, entry, "ldap")
          \/ Unsupported(l, entry, "proxy")
    /\ UNCHANGED store

(***************************************************************************)
(* The environment                                                         *)
(***************************************************************************)

\* The profile is added, updated or deleted by the API.
Edit ==
    /\ edits < MaxEdits
    /\ edits' = edits + 1
    /\ profile' \in (Profiles \cup {NoProfile}) \ {profile}
    /\ UNCHANGED <<accounts, flow>>

\* External: an account is closed where the users are known.
Close(p) ==
    /\ p \in accounts \cap Leavers
    /\ accounts' = accounts \ {p}
    /\ UNCHANGED <<profile, edits, flow>>

\* The broker is killed: requests in flight end, users that are away do not
\* notice.
Crash ==
    /\ pc' = [l \in Logins |-> IF pc[l] \in Serving THEN "done" ELSE pc[l]]
    /\ outcome' = [l \in Logins |->
                     IF pc[l] \in Serving THEN "dropped" ELSE outcome[l]]
    /\ UNCHANGED <<store, form, held, identity, disturbed>>

NoForm == [name |-> NoName, secret |-> NoSecret, colon |-> FALSE]

InitFlow ==
    /\ profile \in Loaded
    /\ accounts = People
    /\ form = [l \in Logins |-> NoForm]
    /\ edits = 0
    /\ pc = [l \in Logins |-> "idle"]
    /\ held = [l \in Logins |-> NoProfile]
    /\ identity = [l \in Logins |-> NoIdentity]
    /\ outcome = [l \in Logins |-> "none"]
    /\ disturbed = {}

TypeFlow ==
    /\ profile \in Profiles \cup {NoProfile}
    /\ edits \in 0 .. MaxEdits
    /\ accounts \in SUBSET People
    /\ pc \in [Logins -> PCs]
    /\ form \in [Logins -> FormType]
    /\ held \in [Logins -> Profiles \cup {NoProfile}]
    /\ identity \in [Logins -> Identities \cup {NoIdentity}]
    /\ outcome \in [Logins -> Outcomes]
    /\ disturbed \in SUBSET Logins
===============================================================================
