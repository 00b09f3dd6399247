----------------------------- MODULE MCSocialAuth -----------------------------
(***************************************************************************)
(* Instances of SocialAuth for TLC.                                        *)
(***************************************************************************)
EXTENDS SocialAuth, TLC

CONSTANTS l1, l2, b1, f1, f2, p1, p2

\* A profile open to the users of two providers, and one that offers a single
\* provider to the members of a domain.
Open == [providers |-> {p1, p2}, domain |-> FALSE]
Closed == [providers |-> {p1}, domain |-> TRUE]
MCConfigs == {Open, Closed}
MCLoaded == {f1 :> Open @@ f2 :> Closed}

\* The browser of the first login is called b1.
MCAsked == {r \in [Logins -> Requests] : r[l1].browser = b1}
===============================================================================
