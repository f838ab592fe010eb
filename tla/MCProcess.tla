----------------------------- MODULE MCProcess -----------------------------
(* keysd and the commands that start it, alone. *)
EXTENDS Process

CONSTANTS u1, u2

MCVersionOf == [u \in Users |-> IF u = u1 THEN "new" ELSE "old"]

\* Two users at the same time on a new machine.
MCFirst == [users : {{u1, u2}}, cert : {None}, running : {FALSE}, faults : {0}]
=============================================================================
