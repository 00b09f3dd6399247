------------------------------ MODULE TokenIssuer ------------------------------
(***************************************************************************)
(* The two identity handlers that give a user an API token:                *)
(* CompleteIdentityActionForOAuth and CompleteIdentityActionForTokenAuth   *)
(* of src/tap/identity-handlers/tyk_handler.go, with the calls they make   *)
(* to Tyk (src/tyk-api/tyk_api.go) and to the identity store               *)
(* (src/backends).                                                         *)
(*                                                                         *)
(* A login looks up the token its identity was given last, revokes it at   *)
(* the dashboard, asks for a new one and stores a reference to it.  Every  *)
(* step is a call to another process, so logins interleave between them    *)
(* and each call may fail or lose its answer.                              *)
(***************************************************************************)
EXTENDS Naturals

CONSTANTS
    Logins,        \* the logins that ever reach the handlers
    Identities,    \* keys of the store: profile ID "-" user ID @ provider
    OAuthIds,      \* the identities whose profile has the OAuth action
    Tokens,        \* tokens Tyk can issue
    NoToken,       \* no token, the empty string
    NoIdentity,    \* no identity
    Backend,       \* the identity store: "memory" or "redis"
    OneTokenPerAPI,\* not profile.DisableOneTokenPerAPI
    Faults,        \* the calls that may fail
    Overlapping,   \* logins of the same identity may overlap
    MaxCrashes     \* bound: how often the broker is killed

FaultKinds == {"lookup", "unauthorised", "invalidate", "issue", "store"}

ASSUME ConstantsAssumption ==
    /\ NoToken \notin Tokens
    /\ NoIdentity \notin Identities
    /\ OAuthIds \subseteq Identities
    /\ Backend \in {"memory", "redis"}
    /\ OneTokenPerAPI \in BOOLEAN
    /\ Overlapping \in BOOLEAN
    /\ Faults \subseteq FaultKinds
    /\ MaxCrashes \in Nat

VARIABLES
    store,    \* IdentityKeyStore: the token reference under each key
    live,     \* external: the tokens Tyk accepts
    issued,   \* history: the identity each token was issued for
    pc,       \* the next call of each login
    who,      \* the identity each login is for
    value,    \* the handlers' local value: the token found in the store
    resp,     \* the handlers' local resp: the token in the answer
    outcome,  \* what each user was answered
    leaked,   \* history: identities a failed call left with a stray token
    crashes   \* how often the broker has been killed

login == <<pc, who, value, resp, outcome>>
vars == <<store, live, issued, login, leaked, crashes>>

PCs == {"idle", "lookup", "invalidate", "issue", "store", "done"}
Outcomes == {"none", "ok", "blank", "failed", "refused", "dropped"}

InFlight(i) == {l \in Logins : pc[l] \notin {"idle", "done"} /\ who[l] = i}

\* The tokens that give access in the name of i.
LiveTokens(i) == {t \in live : issued[t] = i}

Goto(l, from, to) ==
    /\ pc[l] = from
    /\ pc' = [pc EXCEPT ![l] = to]

Answer(l, from, what) ==
    /\ Goto(l, from, "done")
    /\ outcome' = [outcome EXCEPT ![l] = what]

\* An identity provider has confirmed who the user is.
Start(l) ==
    /\ \E i \in Identities :
          /\ Overlapping \/ InFlight(i) = {}
          /\ who' = [who EXCEPT ![l] = i]
    /\ Goto(l, "idle", IF OneTokenPerAPI THEN "lookup" ELSE "issue")
    /\ UNCHANGED <<store, live, issued, value, resp, outcome, leaked, crashes>>

(***************************************************************************)
(* The identity store                                                      *)
(***************************************************************************)

\* GetKey gives back the token SetKey was given.  The memory store encodes
\* every value as JSON and decodes it again.  The Redis store encodes every
\* value but a string, and decodes them all: a token is not a JSON text, so
\* GetKey ends in an error.
Found(i) == Backend = "memory" /\ store[i] # NoToken

\* The login goes on to make one of the two calls to Tyk.
Looked(l, to) ==
    /\ Goto(l, "lookup", to)
    /\ UNCHANGED <<store, live, issued, who, resp, outcome, crashes>>

\* Wrong: the key leaves out the user, so the last token of the profile is found.
LookupAnyUser(l) ==
    /\ \/ /\ Looked(l, "invalidate")
          /\ \E i \in Identities :
                Found(i) /\ value' = [value EXCEPT ![l] = store[i]]
       \/ /\ Looked(l, "issue")
          /\ \A i \in Identities : ~Found(i)
          /\ UNCHANGED value
    /\ UNCHANGED leaked

\* Store.GetKey: any error counts as no token.
Lookup(l) ==
    \/ /\ Looked(l, "invalidate")
       /\ Found(who[l])
       /\ value' = [value EXCEPT ![l] = store[who[l]]]
       /\ UNCHANGED leaked
    \/ /\ Looked(l, "issue")
       /\ \/ ~Found(who[l]) /\ UNCHANGED leaked
          \/ Found(who[l]) /\ "lookup" \in Faults
             /\ leaked' = leaked \cup {who[l]}
       /\ UNCHANGED value

\* Wrong: key and value of SetKey are swapped.
SaveSwapped(l) ==
    /\ Answer(l, "store", "ok")
    /\ store' = [store EXCEPT ![who[l]] = who[l]]
    /\ UNCHANGED <<live, issued, who, value, resp, leaked, crashes>>

\* Wrong: a reference that exists already is kept.
SaveOnce(l) ==
    /\ Answer(l, "store", "ok")
    /\ store' = [store EXCEPT ![who[l]] = IF @ = NoToken THEN resp[l] ELSE @]
    /\ UNCHANGED <<live, issued, who, value, resp, leaked, crashes>>

\* Store.SetKey: its error is not looked at.
Save(l) ==
    /\ Answer(l, "store", "ok")
    /\ \/ /\ store' = [store EXCEPT ![who[l]] = resp[l]]
          /\ UNCHANGED leaked
       \/ /\ "store" \in Faults
          /\ leaked' = leaked \cup {who[l]}
          /\ UNCHANGED store
    /\ UNCHANGED <<live, issued, who, value, resp, crashes>>

(***************************************************************************)
(* Tyk                                                                     *)
(***************************************************************************)

\* DELETE of the token was carried out: a 200, or a 404 if Tyk has dropped it,
\* or an answer that was lost.
Revoked(l) ==
    /\ Goto(l, "invalidate", "issue")
    /\ live' = live \ {value[l]}
    /\ UNCHANGED <<outcome, leaked>>

\* Any error but 401 is logged; the token may live on.
NotRevoked(l) ==
    /\ "invalidate" \in Faults
    /\ Goto(l, "invalidate", "issue")
    /\ leaked' = leaked \cup {who[l]}
    /\ UNCHANGED <<live, outcome>>

\* A 401 ends a login of the token action, and is only logged by the OAuth one.
Unauthorised(l) ==
    /\ "unauthorised" \in Faults
    /\ IF who[l] \in OAuthIds
         THEN /\ Goto(l, "invalidate", "issue")
              /\ leaked' = leaked \cup {who[l]}
              /\ UNCHANGED outcome
         ELSE /\ Answer(l, "invalidate", "refused")
              /\ UNCHANGED leaked
    /\ UNCHANGED live

\* Wrong: the reference is dropped before the answer to the DELETE is known.
InvalidateForgetting(l) ==
    /\ Revoked(l) \/ NotRevoked(l) \/ Unauthorised(l)
    /\ store' = [store EXCEPT ![who[l]] = NoToken]
    /\ UNCHANGED <<issued, who, value, resp, crashes>>

\* Wrong: a revocation that fails is tried again, from the lookup.
InvalidateRetrying(l) ==
    /\ \/ Revoked(l) \/ Unauthorised(l)
       \/ /\ "invalidate" \in Faults
          /\ Goto(l, "invalidate", "lookup")
          /\ UNCHANGED <<live, outcome, leaked>>
    /\ UNCHANGED <<store, issued, who, value, resp, crashes>>

Invalidate(l) ==
    /\ Revoked(l) \/ NotRevoked(l) \/ Unauthorised(l)
    /\ UNCHANGED <<store, issued, who, value, resp, crashes>>

\* A token Tyk has not issued before.
Fresh == {t \in Tokens : issued[t] = NoIdentity}

\* The gateway or the dashboard makes token t.
Make(l, t) ==
    /\ live' = live \cup {t}
    /\ issued' = [issued EXCEPT ![t] = who[l]]

\* RequestOAuthToken or RequestStandardToken.  An answer that cannot be decoded
\* is taken for a token that is the empty string; one that is lost, for a
\* failure.
Issue(l) ==
    /\ \/ \E t \in Fresh :
             /\ Make(l, t)
             /\ \/ /\ Goto(l, "issue", "store")
                   /\ resp' = [resp EXCEPT ![l] = t]
                   /\ UNCHANGED <<outcome, leaked>>
                \/ /\ "issue" \in Faults
                   /\ \E what \in {"blank", "failed"} : Answer(l, "issue", what)
                   /\ leaked' = leaked \cup {who[l]}
                   /\ UNCHANGED resp
       \/ /\ "issue" \in Faults
          /\ Answer(l, "issue", "failed")
          /\ UNCHANGED <<live, issued, resp, leaked>>
    /\ UNCHANGED <<store, who, value, crashes>>

\* A token reaches the end of its life.
Expire(t) ==
    /\ t \in live
    /\ live' = live \ {t}
    /\ UNCHANGED <<store, issued, login, leaked, crashes>>

Step(l) == Lookup(l) \/ Invalidate(l) \/ Issue(l) \/ Save(l)

\* The broker is killed and started again.  Redis keeps the references, the
\* memory store does not.
Crash ==
    /\ crashes < MaxCrashes
    /\ crashes' = crashes + 1
    /\ pc' = [l \in Logins |-> IF pc[l] = "idle" THEN "idle" ELSE "done"]
    /\ outcome' = [l \in Logins |-> IF pc[l] \in {"idle", "done"}
                                      THEN outcome[l] ELSE "dropped"]
    /\ leaked' = leaked
         \cup {who[l] : l \in {k \in Logins : pc[k] = "store"}}
         \cup (IF Backend = "memory"
                 THEN {i \in Identities : store[i] # NoToken} ELSE {})
    /\ store' = IF Backend = "memory"
                  THEN [i \in Identities |-> NoToken] ELSE store
    /\ UNCHANGED <<live, issued, who, value, resp>>

Init ==
    /\ store = [i \in Identities |-> NoToken]
    /\ live = {}
    /\ issued = [t \in Tokens |-> NoIdentity]
    /\ pc = [l \in Logins |-> "idle"]
    /\ who = [l \in Logins |-> NoIdentity]
    /\ value = [l \in Logins |-> NoToken]
    /\ resp = [l \in Logins |-> NoToken]
    /\ outcome = [l \in Logins |-> "none"]
    /\ leaked = {}
    /\ crashes = 0

Next ==
    \/ \E l \in Logins : Start(l) \/ Step(l)
    \/ \E t \in Tokens : Expire(t)
    \/ Crash

\* Handlers run and every call to Tyk and the store returns, with an answer or
\* an error; users, token lifetimes and crashes are free.
Spec == Init /\ [][Next]_vars
Fair(l) == WF_vars(Step(l))
FairSpec == Spec /\ \A l \in Logins : Fair(l)

(***************************************************************************)
(* Properties                                                              *)
(***************************************************************************)

TypeOK ==
    /\ store \in [Identities -> Tokens \cup {NoToken}]
    /\ live \subseteq Tokens
    /\ issued \in [Tokens -> Identities \cup {NoIdentity}]
    /\ pc \in [Logins -> PCs]
    /\ who \in [Logins -> Identities \cup {NoIdentity}]
    /\ value \in [Logins -> Tokens \cup {NoToken}]
    /\ resp \in [Logins -> Tokens \cup {NoToken}]
    /\ outcome \in [Logins -> Outcomes]
    /\ leaked \subseteq Identities
    /\ crashes \in 0 .. MaxCrashes

\* README.md 222: "it is possible to enforce a "One token per provider, per
\* user" policy".  Only a call that failed, or a crash, leaves an identity with
\* a second token, and an identity that none befell never has two.
OneTokenPerUser ==
    OneTokenPerAPI =>
        \A i \in Identities \ leaked :
            \A s, t \in LiveTokens(i) : s = t

\* A login only ever revokes a token of its own identity, whatever overlaps,
\* fails or crashes; all other tokens live until they expire.
RevokesOnlyOwn ==
    [][\A t \in live \ live' :
         \/ Expire(t)
         \/ \E l \in Logins :
               Invalidate(l) /\ value[l] = t /\ who[l] = issued[t]]_vars

\* A user of the token action who was turned away because the old token could
\* not be revoked has not been given another one: the identity's references
\* and tokens are as the login found them.
RefusedKeepsToken ==
    [][\A l \in Logins :
         outcome[l] # "refused" /\ outcome'[l] = "refused" =>
            /\ store'[who[l]] = value[l]
            /\ LiveTokens(who[l])' \subseteq {value[l]}
               \/ who[l] \in leaked']_vars

\* What the policy says of the tokens of the identities that no failure befell.
Books == [i \in Identities |-> IF i \in leaked THEN {} ELSE LiveTokens(i)]
Given == {t \in Tokens : issued[t] # NoIdentity}
Ledger == INSTANCE TokenLedger
            WITH held <- Books, stray <- leaked, used <- Given

\* README.md 222, step by step: a login takes the old token away before it asks
\* for the new one, never gives one identity the token of another, and takes
\* nothing from the others meanwhile (tyk_handler.go 340-496).
ImplementsLedger == Ledger!Spec

\* No call of a handler waits for another login: whatever Tyk and the store have
\* answered so far, and whatever the others do, each login in flight can go on.
NeverStuck ==
    \A l \in Logins :
        pc[l] \notin {"idle", "done"} => ENABLED <<Step(l)>>_vars

\* Every login that starts is answered, or ends with the process.
Served == \A l \in Logins : pc[l] \notin {"idle", "done"} ~> pc[l] = "done"

\* Both: no handler ever waits for another login, and each gets to its end.
Answered == []NeverStuck /\ Served
===============================================================================
