------------------------------- MODULE LDAPLogin -------------------------------
(***************************************************************************)
(* Logins with a user name and a password that an LDAP server checks:      *)
(* src/providers/active_directory.go.                                      *)
(*                                                                         *)
(*   Dial -> Bind -> Search -> (Rebind ->) CompleteLDAP                    *)
(*                                                                         *)
(* Without LDAPAdminUser the user binds, with a DN made of the name, and   *)
(* the search finds the data.  With it the administrator binds, the search *)
(* finds the entry, and the user binds to the DN of the entry.  Every      *)
(* login has a connection of its own, which is closed after the action.    *)
(***************************************************************************)
EXTENDS LoginFlows, FiniteSets

CONSTANTS
    EntriesOf,  \* whose entries the base DN and the filter find for a name
    SlugOf,     \* Slug: the user name made of what was typed
    MaxConns    \* how many connections the LDAP server serves

ASSUME LDAPAssumption ==
    /\ EntriesOf \in [Names -> SUBSET People]
    /\ SlugOf \in [Names -> Names \cup {NoName}]
    /\ MaxConns \in Nat

VARIABLES
    conns,      \* the logins whose connection is open
    found       \* whose entry each login's search has found

ldap == <<conns, found>>

\* No name or no password has been read from the form or from the header.
Incomplete(l) ==
    \/ form[l].name = NoName
    \/ form[l].secret = NoSecret
    \/ held[l].basic /\ HeaderName(form[l]) = NoName

\* connect, and the check of the form, which an empty name or password fails.
\* The connection is opened first; Dial leaves none where it fails.
Dial(l) ==
    /\ pc[l] = "dial"
    /\ \/ /\ Cardinality(conns) < MaxConns
          /\ conns' = conns \cup {l}
          /\ UNCHANGED disturbed
       \/ /\ "dial" \in Faults \/ Cardinality(conns) >= MaxConns
          /\ Excuse(l)
          /\ UNCHANGED conns
    /\ IF Incomplete(l)
         THEN End(l, "dial", "failed")
         ELSE Goto(l, "dial", "bind") /\ UNCHANGED <<identity, outcome>>
    /\ UNCHANGED <<store, form, held, found>>

\* A bind of a person's DN with the password sent.
Accepts(l, p) == p \in accounts /\ form[l].secret = p

\* External: the LDAP server lets the administrator in, or the user whose DN
\* the name stands for.
BindAccepted(l) == held[l].admin \/ Accepts(l, AccountOf[form[l].name])

\* Wrong: a login without connection dials again.
BindRedialling(l) ==
    /\ pc[l] = "bind"
    /\ IF l \in conns
         THEN IF BindAccepted(l)
                THEN Goto(l, "bind", "search") /\ UNCHANGED <<identity, outcome>>
                ELSE End(l, "bind", "failed")
         ELSE Goto(l, "bind", "dial") /\ UNCHANGED <<identity, outcome>>
    /\ UNCHANGED <<store, form, held, disturbed, ldap>>

\* Wrong: only the password is looked at.
BindUnconnected(l) ==
    /\ pc[l] = "bind"
    /\ IF BindAccepted(l)
         THEN Goto(l, "bind", "search") /\ UNCHANGED <<identity, outcome>>
         ELSE End(l, "bind", "failed")
    /\ UNCHANGED <<store, form, held, disturbed, ldap>>

\* Bind on a nil connection panics.
Bind(l) ==
    /\ pc[l] = "bind"
    /\ \/ /\ l \notin conns
          /\ End(l, "bind", "aborted")
          /\ UNCHANGED disturbed
       \/ /\ l \in conns
          /\ BindAccepted(l)
          /\ Goto(l, "bind", "search")
          /\ UNCHANGED <<identity, outcome, disturbed>>
       \/ /\ l \in conns
          /\ ~BindAccepted(l)
          /\ End(l, "bind", "failed")
          /\ UNCHANGED disturbed
       \/ /\ l \in conns
          /\ "bind" \in Faults
          /\ End(l, "bind", "failed")
          /\ Excuse(l)
    /\ UNCHANGED <<store, form, held, ldap>>

\* getUserData: the user is called what was typed, or its slug, which is empty
\* for a name without letters and digits.
UserName(l) ==
    IF held[l].slug THEN SlugOf[form[l].name] ELSE form[l].name

LDAPIdentity(l, p) == [provider |-> "ldap", user |-> UserName(l), mail |-> p]

Matches(l) == EntriesOf[form[l].name] \cap accounts

\* Wrong: only a second entry is an error.
SearchUnchecked(l) ==
    /\ pc[l] = "search"
    /\ \/ \E p \in People \cup {Nobody} :
             /\ Matches(l) = IF p = Nobody THEN {} ELSE {p}
             /\ found' = [found EXCEPT ![l] = p]
             /\ IF held[l].admin
                  THEN /\ Goto(l, "search", "rebind")
                       /\ UNCHANGED <<form, held, identity, outcome, disturbed>>
                  ELSE Identify(l, "search", LDAPIdentity(l, p))
       \/ /\ Cardinality(Matches(l)) > 1
          /\ End(l, "search", "failed")
          /\ UNCHANGED <<form, held, disturbed, found>>
    /\ UNCHANGED <<store, conns>>

\* The entry has an attribute without values, whose first one is read.
AttributePanics(l, from) ==
    /\ "attribute" \in Faults
    /\ End(l, from, "aborted")
    /\ Excuse(l)
    /\ UNCHANGED <<form, held>>

\* One entry, or else an error.
Search(l) ==
    /\ pc[l] = "search"
    /\ \/ \E p \in People :
             /\ Matches(l) = {p}
             /\ found' = [found EXCEPT ![l] = p]
             /\ IF held[l].admin
                  THEN /\ Goto(l, "search", "rebind")
                       /\ UNCHANGED <<form, held, identity, outcome, disturbed>>
                  ELSE Identify(l, "search", LDAPIdentity(l, p))
       \/ /\ \A p \in People : Matches(l) # {p}
          /\ End(l, "search", "failed")
          /\ UNCHANGED <<form, held, disturbed, found>>
       \/ /\ "search" \in Faults
          /\ End(l, "search", "failed")
          /\ Excuse(l)
          /\ UNCHANGED <<form, held, found>>
       \/ /\ ~held[l].admin
          /\ Cardinality(Matches(l)) = 1
          /\ AttributePanics(l, "search")
          /\ UNCHANGED found
    /\ UNCHANGED <<store, conns>>

\* Wrong: that the entry is there is enough.
RebindUnchecked(l) ==
    /\ pc[l] = "rebind"
    /\ Identify(l, "rebind", LDAPIdentity(l, found[l]))
    /\ UNCHANGED <<store, ldap>>

\* The user binds to the entry found.
Rebind(l) ==
    /\ pc[l] = "rebind"
    /\ \/ /\ Accepts(l, found[l])
          /\ Identify(l, "rebind", LDAPIdentity(l, found[l]))
       \/ /\ ~Accepts(l, found[l])
          /\ End(l, "rebind", "failed")
          /\ UNCHANGED <<form, held, disturbed>>
       \/ /\ "bind" \in Faults
          /\ End(l, "rebind", "failed")
          /\ Excuse(l)
          /\ UNCHANGED <<form, held>>
       \/ Accepts(l, found[l]) /\ AttributePanics(l, "rebind")
    /\ UNCHANGED <<store, ldap>>

\* Wrong: the connection is left to the garbage collector.
CompleteUnclosed(l) ==
    /\ held[l] # NoProfile /\ held[l].provider = "ldap"
    /\ End(l, "complete", "ok")
    /\ UNCHANGED <<store, form, held, disturbed, ldap>>

\* The action is carried out and the connection closed, unless the action
\* panics.
CompleteLDAP(l) ==
    /\ held[l] # NoProfile /\ held[l].provider = "ldap"
    /\ \/ /\ End(l, "complete", "ok")
          /\ conns' = conns \ {l}
          /\ UNCHANGED disturbed
       \/ /\ "action" \in Faults
          /\ End(l, "complete", "aborted")
          /\ Excuse(l)
          /\ UNCHANGED conns
    /\ UNCHANGED <<store, form, held, found>>

LDAPStep(l) ==
    \/ Submit(l, "ldap", "dial") /\ UNCHANGED ldap
    \/ Dial(l) \/ Bind(l) \/ Search(l) \/ Rebind(l) \/ CompleteLDAP(l)

\* External: the server closes a connection that a login has left behind and
\* that has been idle for as long as it allows, if it does so at all.
Reap(l) ==
    /\ pc[l] = "done"
    /\ l \in conns
    /\ conns' = conns \ {l}
    /\ UNCHANGED <<store, flow, found>>

\* The connections of a process end with it.
CrashLDAP == conns' = {} /\ UNCHANGED found

InitLDAP ==
    /\ conns = {}
    /\ found = [l \in Logins |-> Nobody]

TypeLDAP ==
    /\ conns \in SUBSET Logins
    /\ found \in [Logins -> People \cup {Nobody}]
===============================================================================
