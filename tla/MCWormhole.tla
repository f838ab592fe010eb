----------------------------- MODULE MCWormhole -----------------------------
(* The two halves of a wormhole: sessions that look for each other, and two *)
(* that are open. A behaviour is of one or of the other.                    *)
EXTENDS Rendezvous, Wormhole

CONSTANTS a1, b1, b2

MCUserOf == [s \in Sessions |-> IF s = a1 THEN "alice" ELSE "bob"]

\* One user types two messages, or both type one.
MCTyping == {[s \in Sides |-> IF s = a1 THEN 2 ELSE 0], [s \in Sides |-> 1]}

\* Nobody talks while the sessions look for each other ...
Mute == /\ typed = [s \in Sides |-> 0]
        /\ sent = typed
        /\ rpc = [s \in Sides |-> "ended"]
        /\ main = [s \in Sides |-> NoPacket]
        /\ reader = [s \in Sides |-> [pc |-> "ended", packet |-> NoPacket]]
        /\ bye = [s \in Sides |-> [k \in Closers |-> Silent]]
        /\ count = [s \in Sides |-> [out |-> 0, in |-> 0]]
        /\ wire = [s \in Sides |-> <<>>]
        /\ got = [s \in Sides |-> <<>>]
        /\ acked = [s \in Sides |-> {}]

MCSpec == /\ \/ Init /\ Mute
             \/ Apart /\ faults = 0 /\ Open
          /\ [][\/ Next /\ UNCHANGED talk /\ typed = [s \in Sides |-> 0]
                \/ Talk /\ UNCHANGED vars]_<<vars, talk>>
          /\ Fairness /\ TalkFairness
=============================================================================
