----------------------------- MODULE MCSigchain -----------------------------
(* Values for the constants of Sigchain that a configuration cannot state. *)
EXTENDS Sigchain, TLC, FiniteSets

CONSTANTS d1, d2, c1, c2, c3, h1, h2

\* One call at a time on each of two devices.
HomeTwoDevices == (c1 :> d1) @@ (c2 :> d2)

\* Two concurrent calls on one device.
HomeOneDevice == (c1 :> d1) @@ (c2 :> d1)

\* Two concurrent calls on one device and one on another.
HomeThreeCalls == (c1 :> d1) @@ (c2 :> d1) @@ (c3 :> d2)

\* Swapping the devices together with their calls, and swapping the handlers.
TwoDevices == {(d1 :> d1) @@ (d2 :> d2) @@ (c1 :> c1) @@ (c2 :> c2),
               (d1 :> d2) @@ (d2 :> d1) @@ (c1 :> c2) @@ (c2 :> c1)}

TwoDeviceSymmetry == {p @@ q : p \in TwoDevices, q \in Permutations({h1, h2})}

\* Swapping the calls of the one device, and swapping the handlers.
OneDeviceSymmetry == {p @@ q : p \in Permutations({c1, c2}),
                               q \in Permutations({h1, h2})}
=============================================================================
