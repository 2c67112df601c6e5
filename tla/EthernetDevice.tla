--------------------------- MODULE EthernetDevice ---------------------------
(***************************************************************************)
(* The switch of an Ethernet device                                        *)
(* (src/src/services/network_manager/network_manager_service.cpp).         *)
(*                                                                         *)
(* Enabling the device activates one of the connection profiles that       *)
(* NetworkManager offers for it, which the service picks.                  *)
(***************************************************************************)
EXTENDS Naturals, Sequences

CONSTANT MaxProfiles  \* bound on the profiles offered

VARIABLES
  offered,  \* the profiles offered for the device, in order
  active    \* the one that is active on it, or 0

vars == <<offered, active>>

\* NetworkManager offers no profile that names another interface.
Profile == [bound : BOOLEAN, autoconnect : BOOLEAN]
Offers == UNION {[1 .. n -> Profile] : n \in 0 .. MaxProfiles}

Init == offered \in Offers /\ active = 0

Unpicked == [best |-> 0, auto |-> 0, iface |-> 0]

PickInOrder(acc, i) ==
  LET p == offered[i]
  IN [best |-> IF acc.best = 0 THEN i ELSE acc.best,
      auto |-> IF p.autoconnect /\ acc.auto = 0 THEN i ELSE acc.auto,
      iface |-> IF acc.iface = 0 /\ p.bound THEN i ELSE acc.iface]

\* One turn of the loop: a profile that names the interface and may connect by
\* itself takes the place of any other, the rest come first if they are first.
Pick(acc, i) ==
  LET p == offered[i]
  IN [best |-> IF acc.best = 0 THEN i ELSE acc.best,
      auto |-> IF p.autoconnect /\ (p.bound \/ acc.auto = 0) THEN i ELSE acc.auto,
      iface |-> IF acc.iface = 0 /\ p.bound THEN i ELSE acc.iface]

\* What the loop has picked after n turns.
Found[n \in 0 .. Len(offered)] == IF n = 0 THEN Unpicked ELSE Pick(Found[n - 1], n)

Best ==
  LET found == Found[Len(offered)]
  IN  IF found.auto # 0 THEN found.auto ELSE IF found.iface # 0 THEN found.iface ELSE found.best

\* A connection that is active stays, and without a profile the call fails.
Enable == active = 0 /\ offered # <<>> /\ active' = Best /\ UNCHANGED offered
Disable == active # 0 /\ active' = 0 /\ UNCHANGED offered

\* NetworkManager offers other profiles, or another one becomes active.
OffersChange == active = 0 /\ offered' \in Offers /\ UNCHANGED active

Next == Enable \/ Disable \/ OffersChange

Spec == Init /\ [][Next]_vars
-----------------------------------------------------------------------------
(* Properties *)

TypeOK == offered \in Offers /\ active \in 0 .. Len(offered)

Rank(p) == (IF p.autoconnect THEN 2 ELSE 0) + (IF p.bound THEN 1 ELSE 0)

\* No profile that is offered is better than the one activated: one that may
\* connect by itself comes first, and of two alike one that names the interface,
\* in whichever order they are offered.
ProfilePreferred ==
  active # 0 => \A i \in DOMAIN offered : Rank(offered[i]) <= Rank(offered[active])
=============================================================================
