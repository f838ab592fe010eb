----------------------------- MODULE Handshake ------------------------------
(***************************************************************************)
(* The handshake two peers do over UDP before they start SCTP.  Each side  *)
(* has a goroutine that keeps sending what the variable send holds, and    *)
(* one that reads packets and assigns send.  The two share send without a  *)
(* lock: a write reads it, and the test that ends the writer reads it      *)
(* again, so an assignment may fall between.                               *)
(*                                                                         *)
(* UDP loses, repeats and reorders packets.  A handshake that times out    *)
(* leaves both goroutines running until the socket is closed.              *)
(***************************************************************************)
EXTENDS Naturals

CONSTANT MaxFaults  \* bound on packets lost, repeated or garbled, on timeouts
                    \* and on closed sockets

ASSUME FaultsAssumption == MaxFaults \in Nat

VARIABLES
    send,    \* send[s]: the packet side s sends next
    writer,  \* writer[s]: where the goroutine that writes is
    reader,  \* reader[s]: where the goroutine that reads is
    net,     \* net[s]: kinds of packets on their way to s
    result,  \* result[s]: what handshake returned
    heard,   \* history: packets s has read
    faults

vars == <<send, writer, reader, net, result, heard, faults>>

-----------------------------------------------------------------------------
Sides   == {"client", "server"}
Packets == {"syn", "syn-ack", "ack"}

\* The client is the initiator.
Peer(s) == IF s = "client" THEN "server" ELSE "client"

Fault == faults < MaxFaults /\ faults' = faults + 1

\* A packet leaves the socket.  Copies on their way count once: whether one
\* or two arrive makes a difference to nobody (and Receive can repeat one).
Transmit(s, p) == net' = [net EXCEPT ![Peer(s)] = @ \cup {p}]

-----------------------------------------------------------------------------
(* The goroutine that writes.                                              *)

Write(s) ==
    /\ writer[s] = "write"
    /\ Transmit(s, send[s])
    /\ writer' = [writer EXCEPT ![s] = "check"]
    /\ UNCHANGED <<send, reader, result, heard, faults>>

\* A read of send that races an assignment may see the pointer of one string
\* and the length of the other: "syn-ack" cut to "syn", or bytes that are no
\* packet at all.
WriteTorn(s) ==
    /\ Fault
    /\ writer[s] = "write" /\ send[s] # "syn"
    /\ Transmit(s, "syn") \/ UNCHANGED net
    /\ writer' = [writer EXCEPT ![s] = "check"]
    /\ UNCHANGED <<send, reader, result, heard>>

\* if send == "ack" { break }, else sleep and write again.
Check(s) ==
    /\ writer[s] = "check"
    /\ writer' = [writer EXCEPT ![s] = IF send[s] = "ack" THEN "done" ELSE "write"]
    /\ UNCHANGED <<send, reader, net, result, heard, faults>>

-----------------------------------------------------------------------------
(* The goroutine that reads.                                               *)

\* Mutant of Last: the server is content with a syn-ack.
LastEither(s, p) == p \in {"syn-ack", "ack"}

\* The packet that ends the loop: ack, and for the initiator syn-ack.
Last(s, p) == p = "ack" \/ (p = "syn-ack" /\ s = "client")

\* What to send after a packet.
Answer(p) == IF p = "syn" THEN "syn-ack" ELSE "ack"

Receive(s) ==
    \E p \in net[s] :
        /\ reader[s] = "read"
        /\ \/ net' = [net EXCEPT ![s] = @ \ {p}] /\ UNCHANGED faults
           \/ Fault /\ UNCHANGED net
        /\ send' = [send EXCEPT ![s] = Answer(p)]
        /\ reader' = [reader EXCEPT ![s] = IF Last(s, p) THEN "done" ELSE "read"]
        /\ heard' = [heard EXCEPT ![s] = @ \cup {p}]
        /\ UNCHANGED <<writer, result>>

-----------------------------------------------------------------------------
(* The function that waits for both goroutines, and the network.           *)

Established(s) ==
    /\ result[s] = "none"
    /\ writer[s] = "done" /\ reader[s] = "done"
    /\ result' = [result EXCEPT ![s] = "ok"]
    /\ UNCHANGED <<send, writer, reader, net, heard, faults>>

\* Ten seconds have passed, or the context is done; both goroutines go on.
Timeout(s) ==
    /\ Fault
    /\ result[s] = "none"
    /\ result' = [result EXCEPT ![s] = "timeout"]
    /\ UNCHANGED <<send, writer, reader, net, heard>>

\* Close after a failed handshake: read and write return errors.
Close(s) ==
    /\ Fault
    /\ result[s] = "timeout"
    /\ writer' = [writer EXCEPT ![s] = "done"]
    /\ reader' = [reader EXCEPT ![s] = IF @ = "done" THEN @ ELSE "error"]
    /\ net' = [net EXCEPT ![s] = {}]
    /\ UNCHANGED <<send, result, heard>>

\* The network drops a packet (or the goroutine STUN left behind reads it).
Lose(s) ==
    /\ Fault
    /\ \E p \in net[s] : net' = [net EXCEPT ![s] = @ \ {p}]
    /\ UNCHANGED <<send, writer, reader, result, heard>>

-----------------------------------------------------------------------------
\* Mutant of Init: the server answers before it has heard anything.
InitAnswering ==
    /\ send = [client |-> "syn", server |-> "syn-ack"]
    /\ writer = [s \in Sides |-> "write"]
    /\ reader = [s \in Sides |-> "read"]
    /\ net = [s \in Sides |-> {}]
    /\ result = [s \in Sides |-> "none"]
    /\ heard = [s \in Sides |-> {}]
    /\ faults = 0

Init ==
    /\ send = [s \in Sides |-> "syn"]
    /\ writer = [s \in Sides |-> "write"]
    /\ reader = [s \in Sides |-> "read"]
    /\ net = [s \in Sides |-> {}]
    /\ result = [s \in Sides |-> "none"]
    /\ heard = [s \in Sides |-> {}]
    /\ faults = 0

Step(s) == Write(s) \/ Check(s) \/ Receive(s) \/ Established(s)

Next == \E s \in Sides : \/ Step(s)
                         \/ WriteTorn(s) \/ Timeout(s) \/ Close(s) \/ Lose(s)

Spec == Init /\ [][Next]_vars

\* Goroutines are scheduled, and a packet that is not lost arrives.
Fairness ==
    \A s \in Sides : /\ WF_vars(Write(s)) /\ WF_vars(Check(s))
                     /\ WF_vars(Receive(s)) /\ WF_vars(Established(s))

FairSpec == Spec /\ Fairness

-----------------------------------------------------------------------------
(* Properties.                                                             *)

\* Every variable keeps its type.
TypeOK ==
    /\ send \in [Sides -> Packets]
    /\ writer \in [Sides -> {"write", "check", "done"}]
    /\ reader \in [Sides -> {"read", "done", "error"}]
    /\ net \in [Sides -> SUBSET Packets]
    /\ result \in [Sides -> {"none", "ok", "timeout"}]
    /\ heard \in [Sides -> SUBSET Packets]
    /\ faults \in 0..MaxFaults

\* A side that is established has heard its peer, and its peer has heard it:
\* the handshake proves that packets pass in both directions, whatever was
\* lost, repeated or reordered on the way.
BothWays == \A s \in Sides : result[s] = "ok" => heard[s] # {} /\ heard[Peer(s)] # {}

\* The server is established only after the client has read all it needs: the
\* server is never left in SCTP with a client that still waits for packets.
ServerLast == result["server"] = "ok" => reader["client"] = "done"

\* On a network that loses nothing, with no time limit, both sides are
\* established.
BothEstablished == <>(\A s \in Sides : result[s] = "ok")
=============================================================================
