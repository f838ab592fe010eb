---------------------------- MODULE SigchainLog ----------------------------
(***************************************************************************)
(* What the sigchain service promises for one key, without servers,        *)
(* requests or failures: a log of signed statements that only ever grows   *)
(* at its end, each entry naming the entry before it, and one copy per     *)
(* device which only ever holds entries of the log.                        *)
(***************************************************************************)
EXTENDS Naturals

CONSTANTS
    Devices,     \* machines that keep a copy of the log
    Entries,     \* every statement there may ever be
    Limit        \* length at which the log stops growing

VARIABLES
    log,         \* the set of entries of the log
    copy         \* copy[d]: the entries device d holds

vars == <<log, copy>>

Extends(e) ==
    \/ log = {} /\ e.seq = 1 /\ e.prev = 0
    \/ \E last \in log : /\ \A other \in log : other.seq <= last.seq
                         /\ e.seq = last.seq + 1
                         /\ e.prev = last.id

Append(e) == /\ e.seq <= Limit
             /\ Extends(e)
             /\ log' = log \cup {e}
             /\ UNCHANGED copy

Fetch(d, e) == /\ copy' = [copy EXCEPT ![d] = @ \cup {e}]
               /\ UNCHANGED log

Forget(d) == /\ copy' = [copy EXCEPT ![d] = {}]
             /\ UNCHANGED log

Init == /\ log = {}
        /\ copy = [d \in Devices |-> {}]

Next == \/ \E d \in Devices : Forget(d) \/ \E e \in log : Fetch(d, e)
        \/ \E e \in Entries : Append(e)

Spec == Init /\ [][Next]_vars
=============================================================================
