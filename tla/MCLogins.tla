------------------------------- MODULE MCLogins -------------------------------
(***************************************************************************)
(* An instance of Logins for TLC: two logins under a profile that is       *)
(* edited once, with a name of each kind.                                  *)
(***************************************************************************)
EXTENDS Logins, TLC

CONSTANTS p, q, one, both, hidden, i, j

\* The name both finds two entries, and has the slug of the name one.  Without
\* administrator its owner q may bind and the entry of p be found.  The filter
\* finds nobody by the name hidden, of which no letter or digit is left in a slug.
MCAccountOf == (one :> p) @@ (both :> q) @@ (hidden :> p)
MCEntriesOf == (one :> {p}) @@ (both :> {p, q}) @@ (hidden :> {})
MCSlugOf == (one :> one) @@ (both :> one) @@ (hidden :> NoName)
MCFullNameOf == (p :> one) @@ (q :> both)

MCForms ==
    {[name |-> one, secret |-> p, colon |-> FALSE],
     [name |-> one, secret |-> q, colon |-> FALSE],
     [name |-> both, secret |-> q, colon |-> TRUE],
     [name |-> hidden, secret |-> p, colon |-> FALSE],
     [name |-> both, secret |-> NoSecret, colon |-> FALSE]}

LDAPProfile(admin, slug, basic) ==
    [provider |-> "ldap", setup |-> "good", admin |-> admin, slug |-> slug,
     basic |-> basic]
ProxyProfile(gates, header, json) ==
    [provider |-> "proxy", setup |-> "good", gates |-> gates,
     header |-> header, json |-> json]
SAMLProfile(cert, idp, claims) ==
    [provider |-> "saml", setup |-> "good", cert |-> cert, url |-> TRUE,
     binding |-> TRUE, idp |-> idp, claims |-> claims]

MCLoaded == {LDAPProfile(FALSE, FALSE, FALSE),
             SAMLProfile("good", i, {"names"})}

MCProfiles ==
    MCLoaded \cup
    {LDAPProfile(TRUE, TRUE, TRUE), ProxyProfile({"code", "body"}, FALSE, TRUE),
     ProxyProfile({"code"}, TRUE, FALSE), ProxyProfile({"broken"}, TRUE, FALSE),
     [SAMLProfile("good", j, {}) EXCEPT !.binding = FALSE],
     SAMLProfile("keyless", j, {"mail"}),
     SAMLProfile("unloaded", i, {}), SAMLProfile("none", i, {}),
     [LDAPProfile(TRUE, TRUE, TRUE) EXCEPT !.setup = "unknown action"]}

\* The target turns users down with an error, with a redirect or in words,
\* which OKCode alone does not tell from a welcome.
MCRejections ==
    {[code |-> "error", body |-> "other", user |-> NoField],
     [code |-> "other", body |-> "other", user |-> NoField],
     [code |-> "expected", body |-> "other", user |-> NoField]}
===============================================================================
