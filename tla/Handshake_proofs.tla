-------------------------- MODULE Handshake_proofs --------------------------
(***************************************************************************)
(* Proofs about Handshake, for any number of faults.  The invariants hold  *)
(* because a packet says what its sender had heard: a syn-ack is only sent *)
(* by a side that heard something, an ack only by one that heard a syn-ack *)
(* or an ack, and a packet in flight keeps saying so after its sender went *)
(* on, timed out or was closed.                                            *)
(***************************************************************************)
EXTENDS Handshake, TLAPS

USE FaultsAssumption

LEMMA PeerFacts ==
    \A s \in Sides : Peer(s) \in Sides /\ Peer(Peer(s)) = s /\ Peer(s) # s
  BY DEF Sides, Peer

LEMMA TypeInit == Init => TypeOK
  BY DEF Init, TypeOK, Sides, Packets

LEMMA TypeStep == TypeOK /\ [Next]_vars => TypeOK'
  <1> SUFFICES ASSUME TypeOK, [Next]_vars PROVE TypeOK'
    OBVIOUS
  <1> USE DEF TypeOK
  <1>1. ASSUME NEW s \in Sides, Write(s) \/ Check(s) \/ WriteTorn(s)
        PROVE  TypeOK'
    BY <1>1, PeerFacts DEF Write, Check, WriteTorn, Transmit, Fault, Packets
  <1>2. ASSUME NEW s \in Sides, Receive(s) PROVE TypeOK'
    BY <1>2 DEF Receive, Answer, Fault, Packets
  <1>3. ASSUME NEW s \in Sides, Established(s) \/ Timeout(s) PROVE TypeOK'
    BY <1>3 DEF Established, Timeout, Fault
  <1>4. ASSUME NEW s \in Sides, Close(s) \/ Lose(s) PROVE TypeOK'
    BY <1>4 DEF Close, Lose, Fault
  <1>5. CASE UNCHANGED vars
    BY <1>5 DEF vars
  <1> QED BY <1>1, <1>2, <1>3, <1>4, <1>5 DEF Next, Step

-----------------------------------------------------------------------------
\* What a side must have heard to send a packet.
MaySend(p, said) ==
    /\ p = "syn-ack" => said # {}
    /\ p = "ack" => "syn-ack" \in said \/ "ack" \in said

HeardInv ==
    \A s \in Sides :
        /\ MaySend(send[s], heard[s])
        /\ \A p \in net[Peer(s)] \cup heard[Peer(s)] : MaySend(p, heard[s])
        /\ reader[s] = "done" => \E p \in heard[s] : Last(s, p)
        /\ \A p \in heard[s] : Last(s, p) => reader[s] = "done"
        /\ result[s] = "ok" => reader[s] = "done"

LEMMA HeardInit == Init => HeardInv
  BY DEF Init, HeardInv, MaySend, Sides, Peer

LEMMA HeardReceive ==
    ASSUME TypeOK, HeardInv, NEW s \in Sides, Receive(s)
    PROVE  HeardInv'
  <1>1. PICK p \in net[s] :
           /\ reader[s] = "read"
           /\ net' = [net EXCEPT ![s] = @ \ {p}] \/ net' = net
           /\ send' = [send EXCEPT ![s] = Answer(p)]
           /\ reader' = [reader EXCEPT ![s] = IF Last(s, p) THEN "done" ELSE "read"]
           /\ heard' = [heard EXCEPT ![s] = @ \cup {p}]
           /\ result' = result
    BY DEF Receive
  <1>2. p \in Packets
    BY DEF TypeOK
  <1>3. /\ heard'[s] = heard[s] \cup {p}
        /\ \A t \in Sides \ {s} : heard'[t] = heard[t]
        /\ \A t \in Sides : net'[t] \subseteq net[t] /\ heard[t] \subseteq heard'[t]
    BY <1>1 DEF TypeOK
  <1>4. \A t \in Sides : MaySend(send'[t], heard'[t])
    <2>1. MaySend(Answer(p), heard'[s])
      BY <1>2, <1>3 DEF MaySend, Answer, Packets
    <2>2. \A t \in Sides \ {s} : send'[t] = send[t]
      BY <1>1 DEF TypeOK
    <2>3. send'[s] = Answer(p)
      BY <1>1 DEF TypeOK
    <2> QED BY <2>1, <2>2, <2>3, <1>3 DEF HeardInv, MaySend
  <1>5. ASSUME NEW t \in Sides, NEW q \in net'[Peer(t)] \cup heard'[Peer(t)]
        PROVE  MaySend(q, heard'[t])
    <2>1. q \in net[Peer(t)] \cup heard[Peer(t)]
      BY <1>1, <1>3, <1>5, PeerFacts
    <2>2. MaySend(q, heard[t])
      BY <2>1 DEF HeardInv
    <2> QED BY <2>2, <1>3 DEF MaySend
  <1>6. ASSUME NEW t \in Sides
        PROVE  /\ reader'[t] = "done" => \E q \in heard'[t] : Last(t, q)
               /\ \A q \in heard'[t] : Last(t, q) => reader'[t] = "done"
               /\ result'[t] = "ok" => reader'[t] = "done"
    <2>1. CASE t = s
      <3>1. reader'[s] = IF Last(s, p) THEN "done" ELSE "read"
        BY <1>1 DEF TypeOK
      <3>2. \A q \in heard[s] : ~Last(s, q)
        BY <1>1 DEF HeardInv
      <3>3. result'[s] # "ok"
        BY <1>1 DEF HeardInv
      <3> QED BY <2>1, <3>1, <3>2, <3>3, <1>3
    <2>2. CASE t # s
      BY <2>2, <1>1, <1>3 DEF HeardInv, TypeOK
    <2> QED BY <2>1, <2>2
  <1> QED BY <1>4, <1>5, <1>6 DEF HeardInv

LEMMA HeardStep == TypeOK /\ HeardInv /\ [Next]_vars => HeardInv'
  <1> SUFFICES ASSUME TypeOK, HeardInv, [Next]_vars PROVE HeardInv'
    OBVIOUS
  <1>m. MaySend("syn", {}) /\ \A said : MaySend("syn", said)
    BY DEF MaySend
  <1>1. ASSUME NEW s \in Sides, Write(s) \/ WriteTorn(s) PROVE HeardInv'
    <2>1. /\ net' = [net EXCEPT ![Peer(s)] = @ \cup {send[s]}]
             \/ net' = [net EXCEPT ![Peer(s)] = @ \cup {"syn"}]
             \/ net' = net
          /\ UNCHANGED <<send, reader, result, heard>>
      BY <1>1 DEF Write, WriteTorn, Transmit
    <2>2. ASSUME NEW t \in Sides, NEW q \in net'[Peer(t)]
          PROVE  MaySend(q, heard[t])
      <3>1. q \in net[Peer(t)] \/ q = "syn" \/ (t = s /\ q = send[s])
        BY <2>1, <2>2, PeerFacts DEF TypeOK
      <3> QED BY <3>1, <1>m DEF HeardInv
    <2> QED BY <2>1, <2>2 DEF HeardInv
  <1>2. ASSUME NEW s \in Sides, Check(s) \/ Lose(s) \/ Timeout(s) PROVE HeardInv'
    <2>1. /\ UNCHANGED <<send, reader, heard>>
          /\ \A t \in Sides : net'[t] \subseteq net[t]
          /\ \A t \in Sides : result'[t] = "ok" => result[t] = "ok"
      BY <1>2 DEF Check, Lose, Timeout, TypeOK
    <2> QED BY <2>1, PeerFacts DEF HeardInv
  <1>3. ASSUME NEW s \in Sides, Established(s) PROVE HeardInv'
    <2>1. /\ UNCHANGED <<send, reader, heard, net>>
          /\ \A t \in Sides : result'[t] = "ok" => result[t] = "ok" \/ reader[t] = "done"
      BY <1>3 DEF Established, TypeOK
    <2> QED BY <2>1 DEF HeardInv
  <1>4. ASSUME NEW s \in Sides, Close(s) PROVE HeardInv'
    <2>1. /\ UNCHANGED <<send, heard, result>>
          /\ \A t \in Sides : net'[t] \subseteq net[t]
          /\ \A t \in Sides : reader'[t] = "done" <=> reader[t] = "done"
      BY <1>4 DEF Close, TypeOK
    <2> QED BY <2>1, PeerFacts DEF HeardInv
  <1>5. CASE UNCHANGED vars
    BY <1>5 DEF vars, HeardInv
  <1> QED BY <1>1, <1>2, <1>3, <1>4, <1>5, HeardReceive DEF Next, Step

LEMMA HandshakeInv == Spec => [](TypeOK /\ HeardInv)
  <1>1. TypeOK /\ HeardInv /\ [Next]_vars => (TypeOK /\ HeardInv)'
    BY TypeStep, HeardStep
  <1> QED BY TypeInit, HeardInit, <1>1, PTL DEF Spec

\* A side that is established and its peer have heard each other.
THEOREM BothWaysCorrect == Spec => []BothWays
  <1>1. TypeOK /\ HeardInv => BothWays
    <2> SUFFICES ASSUME TypeOK, HeardInv, NEW s \in Sides, result[s] = "ok"
                 PROVE  heard[s] # {} /\ heard[Peer(s)] # {}
      BY DEF BothWays
    <2>1. PICK p \in heard[s] : Last(s, p)
      BY DEF HeardInv
    <2>2. MaySend(p, heard[Peer(s)])
      BY <2>1, PeerFacts DEF HeardInv
    <2> QED BY <2>1, <2>2 DEF Last, MaySend
  <1> QED BY <1>1, HandshakeInv, PTL

\* The server is established only after the client has read all it needs.
THEOREM ServerLastCorrect == Spec => []ServerLast
  <1>1. TypeOK /\ HeardInv => ServerLast
    <2> SUFFICES ASSUME TypeOK, HeardInv, result["server"] = "ok"
                 PROVE  reader["client"] = "done"
      BY DEF ServerLast
    <2>1. "server" \in Sides /\ "client" \in Sides /\ Peer("server") = "client"
          /\ Peer("client") = "server"
      BY DEF Sides, Peer
    <2>2. "ack" \in heard["server"]
      BY <2>1 DEF HeardInv, Last
    <2>3. MaySend("ack", heard["client"])
      BY <2>1, <2>2 DEF HeardInv
    <2>4. \E p \in heard["client"] : Last("client", p)
      BY <2>3 DEF MaySend, Last
    <2> QED BY <2>1, <2>4 DEF HeardInv
  <1> QED BY <1>1, HandshakeInv, PTL

\* Every variable keeps its type.
THEOREM TypeCorrect == Spec => []TypeOK
  BY HandshakeInv, PTL
=============================================================================
