---------------------------- MODULE MCMessages ------------------------------
(* Values for the constants of Messages that a configuration cannot state. *)
EXTENDS Messages, TLC

CONSTANTS alice, bob, charlie, p1, p2, p3, h1, h2

\* One conversation, written from one side.
OneWay == {<<alice, bob>>}

\* One conversation, and notes to oneself.
OneWayAndSelf == {<<alice, bob>>, <<bob, bob>>}

\* Two people write to alice.
TwoToOne == {<<bob, alice>>, <<charlie, alice>>}

\* bob's device lists his side of the conversation twice at once.
AskBobTwice == (p2 :> <<bob, alice>>) @@ (p3 :> <<bob, alice>>)

\* bob's device lists his side.
AskOnce == p2 :> <<bob, alice>>

\* alice's device lists both of her conversations.
AskBothRecipients == (p1 :> <<alice, bob>>) @@ (p2 :> <<alice, charlie>>)

\* Swapping the two requests, and the two calls of bob's device.
Symmetry == {q @@ r : q \in Permutations({h1, h2}), r \in Permutations({p2, p3})}
=============================================================================
