------------------------------ MODULE ProxyLogin ------------------------------
(***************************************************************************)
(* Logins that another web server decides: src/providers/proxy.go.  The    *)
(* request is forwarded to the target of the profile and the answer is     *)
(* held against the configured gates.                                      *)
(***************************************************************************)
EXTENDS LoginFlows

CONSTANTS
    NoField,    \* the answer has no user field, or one that is not a string
    Rejections  \* how the target turns users down, a set of AnswerType

\* What of an answer the gates can tell apart, and the name it gives the user.
AnswerType == [code : {"expected", "other", "error"}, body : {"expected", "other"},
               user : Names \cup {NoName, NoField}]

ASSUME ProxyAssumption ==
    /\ NoField \notin Names \cup {NoName}
    /\ Rejections \subseteq AnswerType

\* External: the target lets a person with an open account in, under a name of
\* theirs, an empty one or none, and turns everybody else down.  ReverseProxy
\* answers 502 when it cannot be reached.
Authentic(l) ==
    /\ form[l].name # NoName
    /\ form[l].secret \in accounts
    /\ AccountOf[form[l].name] = form[l].secret

Welcomes(l) ==
    [code : {"expected"}, body : {"expected"},
     user : {n \in Names : AccountOf[n] = form[l].secret} \cup {NoName, NoField}]

Answers(l) == IF Authentic(l) THEN Welcomes(l) ELSE Rejections

Unreached == [code |-> "error", body |-> "other", user |-> NoField]

\* Line 101, OKCode, and OKResponse and OKRegex.  A target or an expression that
\* cannot be parsed lets nobody pass.
Passes(c, a) ==
    /\ "broken" \notin c.gates
    /\ a.code # "error"
    /\ "code" \in c.gates => a.code = "expected"
    /\ "body" \in c.gates => a.body = "expected"

\* Wrong: the generator of random names is started the same way each time.
ProxyUserUnseeded(l, a) ==
    IF held[l].json /\ a.user # NoField THEN a.user
    ELSE IF held[l].header /\ HeaderName(form[l]) # NoName
      THEN HeaderName(form[l])
    ELSE CHOOSE k \in Logins : TRUE

\* The JSON field, if the answer has it and be it empty, goes before the name in
\* the header, and that, unless it is empty, before a random one.
ProxyUser(l, a) ==
    IF held[l].json /\ a.user # NoField THEN a.user
    ELSE IF held[l].header /\ HeaderName(form[l]) # NoName
      THEN HeaderName(form[l])
    ELSE l

ProxyIdentity(l, a) ==
    [provider |-> "proxy", user |-> ProxyUser(l, a), mail |-> Nobody]

Forward(l) ==
    /\ pc[l] = "forward"
    /\ \/ \E a \in Answers(l) :
             \/ /\ Passes(held[l], a)
                /\ Identify(l, "forward", ProxyIdentity(l, a))
             \/ /\ ~Passes(held[l], a)
                /\ End(l, "forward", "failed")
                /\ UNCHANGED <<form, held, disturbed>>
       \/ /\ "target" \in Faults
          /\ ~Passes(held[l], Unreached)
          /\ End(l, "forward", "failed")
          /\ Excuse(l)
          /\ UNCHANGED <<form, held>>
    /\ UNCHANGED store

ProxyStep(l) ==
    \/ Submit(l, "proxy", "forward")
    \/ Forward(l)

\* The gates of a profile tell everybody who is turned down.
Discriminates(c) == \A a \in Rejections : ~Passes(c, a)
===============================================================================
