--------------------------- MODULE PeerstateAbstract ---------------------------
(***************************************************************************)
(* What the peerstate store promises (specification, section 4.1 and its *)
(* rationale): trust updates are time-monotonic.  For every address the    *)
(* store holds a key, a preference and the time of the header they came    *)
(* from.  A header replaces all three only if it is not older than the one *)
(* stored and not dated after the present; a peer that stops sending      *)
(* headers is degraded to preference "no" with its key and header time    *)
(* kept; a row is never removed.                                           *)
(***************************************************************************)
EXTENDS Naturals

CONSTANTS Addrs, Keys, Prefs, Times, Absent

VARIABLES
    trust,  \* trust[a]: [key, prefer, time] of address a, or Absent
    clock   \* the present

vars == <<trust, clock>>

\* A header of a for key k, preference p, dated t, is adopted.
Adopt(a, k, p, t) ==
    /\ t <= clock
    /\ trust[a] = Absent \/ trust[a].time <= t
    /\ trust' = [trust EXCEPT ![a] = [key |-> k, prefer |-> p, time |-> t]]
    /\ UNCHANGED clock

\* The peer is no longer believed to want encryption.
Degrade(a) ==
    /\ trust[a] # Absent
    /\ trust' = [trust EXCEPT ![a].prefer = "no"]
    /\ UNCHANGED clock

Advance ==
    /\ clock' \in Times /\ clock' > clock
    /\ UNCHANGED trust

Init ==
    /\ trust = [a \in Addrs |-> Absent]
    /\ clock \in Times

Next ==
    \/ \E a \in Addrs, k \in Keys, p \in Prefs, t \in Times : Adopt(a, k, p, t)
    \/ \E a \in Addrs : Degrade(a)
    \/ Advance

Spec == Init /\ [][Next]_vars

=============================================================================
