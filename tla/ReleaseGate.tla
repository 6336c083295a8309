----------------------------- MODULE ReleaseGate -----------------------------
(***************************************************************************)
(* What the release lifecycle promises to the users of an application: one *)
(* operation at a time may put a release on trial; when the operation is   *)
(* over, the release that is live is one that passed its health gate or    *)
(* the one that was live before.                                           *)
(***************************************************************************)
CONSTANTS
    Releases,
    NoRelease   \* not one of them

VARIABLES
    live,  \* the release users are served
    base,  \* the release that was live when the operation began
    good,  \* releases that passed their health gate
    busy   \* an operation is under way

gateVars == <<live, base, good, busy>>

GateInit ==
    /\ live = NoRelease
    /\ base = NoRelease
    /\ good = {}
    /\ busy = FALSE

Acquire ==
    /\ ~busy
    /\ busy' = TRUE
    /\ UNCHANGED <<live, base, good>>

\* One release takes the place of the one that was live.
Try(r) ==
    /\ busy
    /\ live = base /\ r # base
    /\ live' = r
    /\ UNCHANGED <<base, good, busy>>

Accept ==
    /\ busy
    /\ live \in Releases /\ live # base
    /\ good' = good \cup {live}
    /\ UNCHANGED <<live, base, busy>>

Restore ==
    /\ busy
    /\ live' = base
    /\ UNCHANGED <<base, good, busy>>

\* The operation ends with the accepted release, or with the old one.
Finish ==
    /\ busy
    /\ live' \in {live, base} \cap (good \cup {base})
    /\ base' = live'
    /\ busy' = FALSE
    /\ UNCHANGED good

GateNext == Acquire \/ (\E r \in Releases : Try(r)) \/ Accept \/ Restore \/ Finish

GateSpec == GateInit /\ [][GateNext]_gateVars
=============================================================================
