--------------------------- MODULE SocialAuthProofs ---------------------------
(***************************************************************************)
(* Proofs about social logins for any number of logins, browsers, profiles *)
(* and providers, with any faults, edits and restarts.                     *)
(***************************************************************************)
EXTENDS SocialAuth, TLAPS

\* A login that ended well has reached its end, where nothing touches it.
EndedOnce == \A l \in Logins : outcome[l] # "none" => pc[l] = "done"

Inv == TypeOK /\ EndedOnce

LEMMA InvInit == Init => Inv
BY ConstantsAssumption
DEF Init, Inv, TypeOK, EndedOnce, PCs, Outcomes, Serving, Nobody

LEMMA InvArrive ==
    ASSUME Inv, NEW l \in Logins, Arrive(l)
    PROVE  Inv'
<1>1. want[l].profile \in Profiles
  BY DEF Inv, TypeOK, Requests
<1> QED
  BY <1>1
  DEF Arrive, Goto, End, bounds, Inv, TypeOK, EndedOnce, PCs, Outcomes, Serving

LEMMA InvSetParams ==
    ASSUME Inv, NEW l \in Logins, SetParams(l)
    PROVE  Inv'
<1>1. want[l].profile \in Profiles /\ want[l].provider \in Providers
  BY DEF Inv, TypeOK, Requests
<1> QED
  BY <1>1
  DEF SetParams, Goto, Disturb, Begun, bounds, Inv, TypeOK, EndedOnce, PCs,
      Serving

LEMMA InvBegin ==
    ASSUME Inv, NEW l \in Logins, Begin(l)
    PROVE  Inv'
<1>1. /\ want[l].profile \in Profiles /\ want[l].browser \in Browsers
      /\ Provider(l) \in Providers \cup {NoProvider}
  BY DEF Inv, TypeOK, Requests, Provider
<1>2. CASE Redirect(l)
  BY <1>1, <1>2
  DEF Begin, Redirect, Goto, Disturb, bounds, Inv, TypeOK, EndedOnce, PCs,
      Serving
<1>3. CASE BeginFault(l) /\ UNCHANGED <<sentTo, cookie>>
  BY <1>3
  DEF Begin, BeginFault, Fail, End, Goto, Disturb, bounds, Inv, TypeOK,
      EndedOnce, PCs, Outcomes, Serving
<1>4. CASE Fail(l, "begin") /\ UNCHANGED <<disturbed, sentTo, cookie>>
  BY <1>4
  DEF Begin, Fail, End, Goto, bounds, Inv, TypeOK, EndedOnce, PCs, Outcomes,
      Serving
<1> QED
  BY <1>2, <1>3, <1>4 DEF Begin

LEMMA InvAuthenticate ==
    ASSUME Inv, NEW l \in Logins, Authenticate(l)
    PROVE  Inv'
BY DEF Authenticate, Goto, bounds, Inv, TypeOK, EndedOnce, PCs, Serving

LEMMA InvReturn ==
    ASSUME Inv, NEW l \in Logins, Return(l)
    PROVE  Inv'
<1>1. want[l].profile \in Profiles
  BY DEF Inv, TypeOK, Requests
<1> QED
  BY <1>1
  DEF Return, Goto, End, Disturb, bounds, Inv, TypeOK, EndedOnce, PCs, Outcomes,
      Serving

LEMMA InvResolve ==
    ASSUME Inv, NEW l \in Logins, Resolve(l)
    PROVE  Inv'
<1>1. Offered(l) /\ pc[l] = "resolve"
        => Provider(l) \in Providers
  BY ConstantsAssumption DEF Inv, TypeOK, Serving, ConfigType, Offered
<1>2. CASE Complete(l) /\ UNCHANGED disturbed
  <2>1. account[l] \in Accounts /\ Provider(l) \in Providers
    BY <1>1, <1>2 DEF Complete, Authorized, Inv, TypeOK
  <2> QED
    BY <1>2, <2>1
    DEF Resolve, Complete, End, Goto, bounds, Inv, TypeOK, EndedOnce, PCs,
        Outcomes, Serving, Identities
<1>3. CASE Incomplete(l) /\ UNCHANGED <<identity, disturbed>>
  BY <1>3
  DEF Resolve, Incomplete, Fail, End, Goto, bounds, Inv, TypeOK, EndedOnce, PCs,
      Outcomes, Serving
<1>4. CASE ResolveFault(l) /\ UNCHANGED identity
  BY <1>4
  DEF Resolve, ResolveFault, End, Goto, Disturb, bounds, Inv, TypeOK, EndedOnce,
      PCs, Outcomes, Serving
<1> QED
  BY <1>2, <1>3, <1>4 DEF Resolve

LEMMA InvEdit ==
    ASSUME Inv, NEW f \in Profiles, Edit(f)
    PROVE  Inv'
BY ConstantsAssumption
DEF Edit, Disturb, login, Inv, TypeOK, EndedOnce

LEMMA InvCrash ==
    ASSUME Inv, Crash
    PROVE  Inv'
<1>1. /\ pc' \in [Logins -> PCs]
      /\ \A l \in Logins : pc'[l] \notin Serving
  BY DEF Crash, Inv, TypeOK, PCs, Serving
<1>2. outcome' \in [Logins -> Outcomes]
  BY DEF Crash, Inv, TypeOK, Outcomes
<1>3. EndedOnce'
  BY DEF Crash, Inv, TypeOK, EndedOnce, Serving
<1>4. /\ profiles' \in [Profiles -> Configs \cup {NoConfig}]
      /\ prepared' \in BOOLEAN /\ disturbed' \subseteq Logins
  BY DEF Crash, Disturb, Inv, TypeOK
<1>5. crashes' \in 0 .. MaxCrashes
  BY ConstantsAssumption DEF Crash, Inv, TypeOK
<1> QED
  BY <1>1, <1>2, <1>3, <1>4, <1>5 DEF Crash, Inv, TypeOK

LEMMA InvNext == Inv /\ [Next]_vars => Inv'
<1> SUFFICES ASSUME Inv, [Next]_vars PROVE Inv'
  OBVIOUS
<1>1. CASE UNCHANGED vars
  BY <1>1 DEF vars, login, bounds, Inv, TypeOK, EndedOnce
<1> QED
  BY <1>1, InvArrive, InvSetParams, InvBegin, InvAuthenticate, InvReturn,
     InvResolve, InvEdit, InvCrash
  DEF Next, Serve

LEMMA InvAlways == Spec => []Inv
BY InvInit, InvNext, PTL DEF Spec

\* TypeOK holds in every reachable state; in particular no request goes on with
\* a profile that does not exist.
THEOREM SocialTyping == Spec => []TypeOK
BY InvAlways, PTL DEF Inv

-------------------------------------------------------------------------------
(***************************************************************************)
(* Whom a login is completed for                                           *)
(***************************************************************************)

\* What MixupsFailClosed says of one login, in terms of what no step changes
\* once the login has ended.
Genuine(l) ==
    /\ identity[l] = [provider |-> sentTo[l], account |-> account[l]]
    /\ sentTo[l] \in config[l].providers
    /\ config[l].domain => account[l] \in Members

LEMMA Untouched ==
    ASSUME Inv, [Next]_vars, NEW l \in Logins, pc[l] = "done"
    PROVE  /\ outcome'[l] = outcome[l] /\ identity'[l] = identity[l]
           /\ sentTo'[l] = sentTo[l] /\ account'[l] = account[l]
           /\ config'[l] = config[l]
<1>1. ASSUME NEW k \in Logins, Arrive(k) \/ Serve(k) \/ Authenticate(k)
      PROVE  /\ k # l
             /\ outcome'[l] = outcome[l] /\ identity'[l] = identity[l]
             /\ sentTo'[l] = sentTo[l] /\ account'[l] = account[l]
             /\ config'[l] = config[l]
  <2>1. k # l
    BY <1>1
    DEF Arrive, Serve, Authenticate, SetParams, Begin, Return, Resolve,
        Redirect, BeginFault, Complete, Incomplete, ResolveFault, Fail, End, Goto
  <2>2. CASE Arrive(k) \/ SetParams(k) \/ Authenticate(k) \/ Return(k)
    BY <2>1, <2>2
    DEF Arrive, SetParams, Authenticate, Return, End, Inv, TypeOK
  <2>3. CASE Begin(k)
    BY <2>1, <2>3 DEF Begin, Redirect, BeginFault, Fail, End, Inv, TypeOK
  <2>4. CASE Resolve(k)
    BY <2>1, <2>4
    DEF Resolve, Complete, Incomplete, ResolveFault, Fail, End, Inv, TypeOK
  <2> QED
    BY <1>1, <2>1, <2>2, <2>3, <2>4 DEF Serve
<1>2. CASE Crash
  BY <1>2 DEF Crash, Serving, Inv, TypeOK
<1>3. CASE (\E f \in Profiles : Edit(f)) \/ UNCHANGED vars
  BY <1>3 DEF Edit, vars, login
<1> QED
  BY <1>1, <1>2, <1>3 DEF Next

\* A step that ends a login well is Complete, with an account the provider has
\* authorised and the profile admits.
LEMMA EndsWell ==
    ASSUME Inv, [Next]_vars, NEW l \in Logins,
           outcome[l] # "ok", outcome'[l] = "ok"
    PROVE  Genuine(l)'
<1>1. Complete(l) /\ Resolve(l) /\ Admitted(l)
  <2>1. ASSUME NEW k \in Logins, k # l \/ ~Complete(k),
               Arrive(k) \/ Serve(k) \/ Authenticate(k)
        PROVE  FALSE
    BY <2>1
    DEF Arrive, Serve, Authenticate, SetParams, Begin, Return, Resolve,
        Redirect, BeginFault, Complete, Incomplete, ResolveFault, Fail, End,
        Inv, TypeOK
  <2>2. ~Crash
    BY DEF Crash, Inv, TypeOK
  <2>3. ~(\E f \in Profiles : Edit(f)) /\ ~UNCHANGED vars
    BY DEF Edit, vars, login
  <2>4. Complete(l) /\ (Arrive(l) \/ Serve(l) \/ Authenticate(l))
    BY <2>1, <2>2, <2>3 DEF Next
  <2>5. Resolve(l)
    BY <2>4
    DEF Complete, Serve, Arrive, Authenticate, SetParams, Begin, Redirect,
        BeginFault, Fail, Return, End, Goto
  <2>6. Admitted(l)
    BY <2>4 DEF Complete, End, Inv, TypeOK
  <2> QED
    BY <2>4, <2>5, <2>6
<1> QED
  BY <1>1
  DEF Complete, Resolve, Admitted, Authorized, Offered, End, Goto, Genuine, Inv,
      TypeOK

\* Whatever mixes, a login is only ever completed for the account that was used
\* at the provider that was used, under a profile that allows both.
THEOREM FailsClosed == Spec => []MixupsFailClosed
<1> DEFINE G == Inv /\ \A l \in Logins : outcome[l] = "ok" => Genuine(l)
<1>1. Init => G
  BY InvInit DEF Init
<1>2. G /\ [Next]_vars => G'
  <2> SUFFICES ASSUME G, [Next]_vars, NEW l \in Logins, outcome'[l] = "ok"
               PROVE  Genuine(l)'
    BY InvNext
  <2>1. CASE outcome[l] = "ok"
    <3>1. pc[l] = "done" /\ Genuine(l)
      BY <2>1 DEF Inv, EndedOnce
    <3> QED
      BY <3>1, Untouched DEF Genuine
  <2>2. CASE outcome[l] # "ok"
    BY <2>2, EndsWell
  <2> QED
    BY <2>1, <2>2
<1>3. G => MixupsFailClosed
  BY DEF MixupsFailClosed, Genuine
<1> QED
  BY <1>1, <1>2, <1>3, PTL DEF Spec

-------------------------------------------------------------------------------
(***************************************************************************)
(* Logins nobody interferes with                                           *)
(***************************************************************************)

Waiting == {"away", "back", "resolve"}

\* What the next request of an undisturbed login will find.
OnTrack(l) ==
    /\ pc[l] \notin {"idle", "done"} => profiles[want[l].profile] # NoConfig
    /\ pc[l] \in Waiting \cup {"begin"} => Provider(l) = want[l].provider
    /\ pc[l] \in Waiting => /\ cookie[want[l].browser] = l
                            /\ sentTo[l] = want[l].provider
    /\ sentTo[l] \in {NoProvider, want[l].provider}
    /\ outcome[l] = "failed" => Hopeless(l)

UInv == Inv /\ \A l \in Logins \ disturbed : OnTrack(l)

LEMMA UInvInit == Init => UInv
BY InvInit DEF Init, UInv, OnTrack, Waiting

\* A login that has ended, or has not begun, stays on track.
LEMMA RestStays ==
    ASSUME Inv, [Next]_vars, UNCHANGED want,
           NEW l \in Logins, pc[l] = "done", OnTrack(l)
    PROVE  OnTrack(l)'
<1>1. pc'[l] = "done"
  <2>1. ASSUME NEW k \in Logins, Arrive(k) \/ Serve(k) \/ Authenticate(k)
        PROVE  pc'[l] = "done"
    <3>1. pc[k] # "done" /\ \E to \in PCs : pc' = [pc EXCEPT ![k] = to]
      BY <2>1
      DEF Arrive, Serve, Authenticate, SetParams, Begin, Return, Resolve,
          Redirect, BeginFault, Complete, Incomplete, ResolveFault, Fail, End,
          Goto, PCs
    <3> QED
      BY <3>1 DEF Inv, TypeOK
  <2>2. CASE Crash
    BY <2>2 DEF Crash, Inv, TypeOK
  <2>3. CASE (\E f \in Profiles : Edit(f)) \/ UNCHANGED vars
    BY <2>3 DEF Edit, vars, login
  <2> QED
    BY <2>1, <2>2, <2>3 DEF Next
<1> QED
  BY <1>1, Untouched DEF OnTrack, Waiting, Hopeless

LEMMA UArrive ==
    ASSUME UInv, NEW k \in Logins, Arrive(k), NEW l \in Logins \ disturbed,
           pc[l] # "done"
    PROVE  OnTrack(l)'
<1>1. CASE l = k
  <2>1. /\ sentTo'[l] \in {NoProvider, want'[l].provider}
        /\ outcome'[l] # "failed"
    BY <1>1
    DEF Arrive, End, Goto, UInv, Inv, TypeOK, OnTrack, EndedOnce
  <2>2. \/ pc'[l] = "done"
        \/ pc'[l] = "setparams" /\ profiles'[want'[l].profile] # NoConfig
    BY <1>1 DEF Arrive, End, Goto, UInv, Inv, TypeOK
  <2> QED
    BY <2>1, <2>2 DEF OnTrack, Waiting
<1>2. CASE l # k
  BY <1>2
  DEF Arrive, End, Goto, bounds, UInv, Inv, TypeOK, OnTrack, Waiting, Hopeless,
      Provider
<1> QED
  BY <1>1, <1>2

LEMMA USetParams ==
    ASSUME UInv, NEW k \in Logins, SetParams(k), NEW l \in Logins \ disturbed',
           pc[l] # "done"
    PROVE  OnTrack(l)'
<1>1. /\ l \notin disturbed /\ OnTrack(l)
      /\ want[l].profile \in Profiles /\ want[k].profile \in Profiles
  BY DEF SetParams, Disturb, UInv, Inv, TypeOK, Requests
<1>2. \/ params' = [params EXCEPT ![want[k].profile] = want[k].provider]
      \/ l # k /\ UNCHANGED params
  BY DEF SetParams, Disturb
<1>3. CASE l = k
  BY <1>1, <1>2, <1>3
  DEF SetParams, Goto, UInv, Inv, TypeOK, OnTrack, Waiting, Hopeless, Provider
<1>4. CASE l # k
  <2>1. pc[l] \in Waiting \cup {"begin"} => Provider(l)' = want[l].provider
    BY <1>1, <1>2, <1>4
    DEF SetParams, Disturb, Begun, UInv, Inv, TypeOK, Provider, OnTrack, Waiting
  <2> QED
    BY <1>1, <1>4, <2>1
    DEF SetParams, Goto, UInv, Inv, TypeOK, OnTrack, Waiting, Hopeless
<1> QED
  BY <1>3, <1>4

LEMMA UBegin ==
    ASSUME UInv, NEW k \in Logins, Begin(k), NEW l \in Logins \ disturbed',
           pc[l] # "done"
    PROVE  OnTrack(l)'
<1>1. /\ l \notin disturbed /\ OnTrack(l)
      /\ want[l].browser \in Browsers /\ want[k].browser \in Browsers
  BY DEF Begin, Redirect, BeginFault, Disturb, UInv, Inv, TypeOK, Requests
<1>2. CASE l = k
  <2>1. pc[l] = "begin" /\ ~BeginFault(k)
    BY <1>2 DEF Begin, Redirect, BeginFault, Disturb, Fail, End, Goto
  <2>2. CASE Redirect(k)
    BY <1>1, <1>2, <2>1, <2>2
    DEF Begin, Redirect, Goto, UInv, Inv, TypeOK, OnTrack, Waiting, Hopeless,
        Provider, Outcomes
  <2>3. CASE /\ Fail(k, "begin") /\ UNCHANGED <<sentTo, cookie>>
             /\ ~prepared \/ ~Offered(k)
    BY <1>1, <1>2, <2>1, <2>3
    DEF Begin, Fail, End, Goto, UInv, Inv, TypeOK, OnTrack, Waiting, Hopeless,
        Offered
  <2> QED
    BY <2>1, <2>2, <2>3 DEF Begin
<1>3. CASE l # k
  <2>1. pc[l] \in Waiting => cookie'[want[l].browser] = cookie[want[l].browser]
    BY <1>1, <1>3
    DEF Begin, Redirect, BeginFault, Disturb, UInv, Inv, TypeOK, Waiting
  <2>2. /\ pc'[l] = pc[l] /\ sentTo'[l] = sentTo[l] /\ outcome'[l] = outcome[l]
        /\ UNCHANGED <<profiles, params, want, config, account>>
    BY <1>3 DEF Begin, Redirect, BeginFault, Fail, End, Goto, UInv, Inv, TypeOK
  <2> QED
    BY <1>1, <2>1, <2>2 DEF OnTrack, Hopeless, Provider
<1> QED
  BY <1>2, <1>3

LEMMA UAuthenticate ==
    ASSUME UInv, NEW k \in Logins, Authenticate(k),
           NEW l \in Logins \ disturbed, pc[l] # "done"
    PROVE  OnTrack(l)'
<1>1. outcome[l] = "none"
  BY DEF UInv, Inv, EndedOnce
<1> QED
  BY <1>1
  DEF Authenticate, Goto, UInv, Inv, TypeOK, OnTrack, Waiting, Provider

LEMMA UReturn ==
    ASSUME UInv, NEW k \in Logins, Return(k), NEW l \in Logins \ disturbed',
           pc[l] # "done"
    PROVE  OnTrack(l)'
<1>1. l \notin disturbed /\ OnTrack(l) /\ outcome[l] = "none"
  BY DEF Return, Disturb, UInv, Inv, EndedOnce
<1>2. CASE l = k
  BY <1>1, <1>2
  DEF Return, Disturb, End, Goto, bounds, UInv, Inv, TypeOK, OnTrack, Waiting,
      Provider
<1>3. CASE l # k
  BY <1>1, <1>3
  DEF Return, End, Goto, UInv, Inv, TypeOK, OnTrack, Waiting, Provider
<1> QED
  BY <1>2, <1>3

LEMMA UResolve ==
    ASSUME UInv, NEW k \in Logins, Resolve(k), NEW l \in Logins \ disturbed',
           pc[l] # "done"
    PROVE  OnTrack(l)'
<1>1. l \notin disturbed /\ OnTrack(l) /\ outcome[l] = "none"
  BY DEF Resolve, ResolveFault, Disturb, UInv, Inv, EndedOnce
<1>2. CASE l = k
  <2>1. pc[l] = "resolve" /\ ~ResolveFault(k) /\ (Complete(k) \/ Incomplete(k))
    BY <1>2
    DEF Resolve, Complete, Incomplete, ResolveFault, Disturb, Fail, End, Goto
  <2>2. pc'[l] = "done"
    BY <1>2, <2>1 DEF Complete, Incomplete, Fail, End, Goto, UInv, Inv, TypeOK
  <2>3. outcome'[l] = "failed" => Hopeless(l)
    BY <1>1, <1>2, <2>1
    DEF Complete, Incomplete, Fail, End, UInv, Inv, TypeOK, OnTrack, Waiting,
        Hopeless, Authorized, Offered
  <2> QED
    BY <1>1, <2>2, <2>3 DEF Resolve, OnTrack, Waiting, Hopeless
<1>3. CASE l # k
  <2>1. pc'[l] = pc[l] /\ outcome'[l] = outcome[l]
    BY <1>3
    DEF Resolve, Complete, Incomplete, ResolveFault, Fail, End, Goto, UInv, Inv,
        TypeOK
  <2> QED
    BY <1>1, <2>1 DEF Resolve, OnTrack, Hopeless, Provider
<1> QED
  BY <1>2, <1>3

LEMMA UEdit ==
    ASSUME UInv, NEW f \in Profiles, Edit(f), NEW l \in Logins \ disturbed',
           pc[l] # "done"
    PROVE  OnTrack(l)'
<1>1. l \notin disturbed /\ OnTrack(l)
  BY DEF Edit, Disturb, UInv
<1>2. pc[l] # "idle" => profiles'[want[l].profile] = profiles[want[l].profile]
  BY <1>1 DEF Edit, Disturb, UInv, Inv, TypeOK
<1> QED
  BY <1>1, <1>2 DEF Edit, login, OnTrack, Waiting, Hopeless, Provider

LEMMA UCrash ==
    ASSUME UInv, Crash, NEW l \in Logins \ disturbed', pc[l] # "done"
    PROVE  OnTrack(l)'
<1>1. l \notin disturbed /\ OnTrack(l) /\ outcome[l] = "none"
  BY DEF Crash, Disturb, UInv, Inv, EndedOnce
<1>2. pc[l] \in {"idle", "setparams", "begin", "away", "back", "resolve"}
  BY DEF UInv, Inv, TypeOK, PCs
<1> QED
  BY <1>1, <1>2
  DEF Crash, Disturb, Serving, UInv, Inv, TypeOK, OnTrack, Waiting, Provider

LEMMA UInvNext == UInv /\ [Next]_vars => UInv'
<1> SUFFICES ASSUME UInv, [Next]_vars, NEW l \in Logins \ disturbed'
             PROVE  OnTrack(l)'
  BY InvNext DEF UInv
<1>1. disturbed \subseteq disturbed' /\ UNCHANGED want
  BY DEF Next, Serve, Arrive, Authenticate, SetParams, Begin, Return, Resolve,
         Redirect, BeginFault, ResolveFault, Disturb, Edit, Crash, vars, login
<1>2. CASE pc[l] = "done"
  BY <1>1, <1>2, RestStays DEF UInv
<1>3. CASE pc[l] # "done" /\ UNCHANGED vars
  BY <1>1, <1>3 DEF vars, login, UInv, OnTrack, Hopeless, Provider
<1>4. CASE pc[l] # "done" /\ Next
  BY <1>1, <1>4, UArrive, USetParams, UBegin, UAuthenticate, UReturn, UResolve,
     UEdit, UCrash
  DEF Next, Serve
<1> QED
  BY <1>2, <1>3, <1>4

\* A login that no fault, edit or other login interferes with goes where it
\* asked to go, and fails only if it was never possible.
THEOREM UndisturbedLogins == Spec => []UndisturbedSucceeds
<1>1. UInv => UndisturbedSucceeds
  BY DEF UInv, OnTrack, UndisturbedSucceeds
<1> QED
  BY <1>1, UInvInit, UInvNext, PTL DEF Spec

-------------------------------------------------------------------------------
(***************************************************************************)
(* Progress.                                                               *)
(***************************************************************************)

LEMMA GoesOn ==
    ASSUME TypeOK, NEW l \in Logins, Going(l)
    PROVE  /\ pc[l] = "setparams" => pc'[l] = "begin"
           /\ pc[l] = "begin" => pc'[l] \in {"away", "done"}
           /\ pc[l] = "resolve" => pc'[l] = "done"
           /\ pc[l] \in Serving
           /\ \A k \in Logins \ {l} : pc'[k] = pc[k]
BY DEF Going, SetParams, Begin, Redirect, BeginFault, Fail, Resolve, Complete,
       Incomplete, ResolveFault, End, Goto, Serving, TypeOK

\* Nobody else moves a login whose request is in flight, except to its end.
LEMMA NeverBack ==
    ASSUME TypeOK, [Next]_vars, NEW l \in Logins, pc[l] \in Serving
    PROVE  Going(l) \/ pc'[l] = pc[l] \/ pc'[l] = "done"
<1>1. ASSUME NEW k \in Logins, Arrive(k) \/ Authenticate(k) \/ Return(k)
      PROVE  pc'[l] = pc[l]
  BY <1>1 DEF Arrive, Authenticate, Return, Goto, End, TypeOK, Serving
<1>2. ASSUME NEW k \in Logins \ {l}, Going(k) PROVE pc'[l] = pc[l]
  BY <1>2, GoesOn
<1>3. CASE Crash
  BY <1>3 DEF Crash
<1>4. CASE UNCHANGED vars \/ \E f \in Profiles : Edit(f)
  BY <1>4 DEF Edit, login, vars
<1> QED
  BY <1>1, <1>2, <1>3, <1>4 DEF Next, Serve, Going

\* If every call returns and no request is ever stuck, every request is
\* answered, whatever other logins put under the profile and into the cookie.
THEOREM EveryRequestAnswered == FairSpec /\ []NeverStuck => Served
<1> SUFFICES ASSUME NEW l \in Logins
             PROVE  FairSpec /\ []NeverStuck
                      => (pc[l] \in Serving ~> pc[l] \in {"away", "done"})
  BY DEF Served
<1> DEFINE Flying == pc[l] \in Serving
           First == pc[l] = "setparams"
           Rest == pc[l] \in {"begin", "resolve"}
           Ended == pc[l] \in {"away", "done"}
<1>1. FairSpec => Fair(l)
  BY DEF FairSpec
<1>2. NeverStuck => (Flying => ENABLED <<Going(l)>>_vars)
  BY DEF NeverStuck
<1>3. TypeOK /\ [Next]_vars =>
        /\ First => First' \/ Rest' \/ Ended'
        /\ Rest => Rest' \/ Ended'
  BY NeverBack, GoesOn DEF Serving
<1>4. TypeOK /\ <<Going(l)>>_vars =>
        /\ First => Rest'
        /\ Rest => Ended'
  BY GoesOn
<1>5. Flying <=> First \/ Rest
  BY DEF Serving
<1> QED
  BY <1>1, <1>2, <1>3, <1>4, <1>5, SocialTyping, PTL DEF FairSpec, Fair, Spec
===============================================================================
