-------------------------- MODULE Wormhole_proofs --------------------------
(***************************************************************************)
(* Proofs about the offers of any number of sessions, at the end, and      *)
(* about an open wormhole, for any number of messages.                     *)
(*                                                                         *)
(* What a user is shown follows from what is on its way: the messages on   *)
(* the stream go up by one from the first that is not shown yet, and those *)
(* that are missing were cut off its end.  An acknowledgement that is on   *)
(* its way is of a message shown, or about to be.  And while one user      *)
(* types and nobody closes, what is on its way carries the counts that the *)
(* reader's cipher expects, in order.                                      *)
(***************************************************************************)
EXTENDS Rendezvous, Wormhole, TLAPS

Packets == [typ : {"none", "message", "ack", "closed"}, id : Nat, nonce : Nat]
ReaderPCs == {"read", "ack", "deliver", "lost", "ended"}
ByePCs == {"none", "say", "send", "wait", "hung"}

Types ==
  /\ typed \in [Sides -> Nat] /\ sent \in [Sides -> Nat]
  /\ rpc \in [Sides -> {"open", "cancelled", "ended"}]
  /\ main \in [Sides -> Packets]
  /\ reader \in [Sides -> [pc : ReaderPCs, packet : Packets]]
  /\ bye \in [Sides -> [Closers -> [pc : ByePCs, nonce : Nat]]]
  /\ count \in [Sides -> [out : Nat, in : Nat]]
  /\ wire \in [Sides -> Seq(Packets)]
  /\ got \in [Sides -> Seq(Nat)]
  /\ acked \in [Sides -> SUBSET Nat]

\* Each Close is called once, by a goroutine that does nothing else any more; and
\* the main loop holds the last message it took.
Once ==
  \A s \in Sides :
    /\ bye[s]["rpc"].pc # "none" => rpc[s] = "ended"
    /\ bye[s]["reader"].pc # "none" => reader[s].pc = "ended"
    /\ sent[s] <= typed[s]
    /\ main[s].id # 0 => /\ main[s].typ = "message" /\ main[s].id = sent[s]
                         /\ rpc[s] # "ended"
    /\ reader[s].pc = "ack" => reader[s].packet.typ = "ack"

(* Messages on their way: those after n, up to p, in order. *)

IsMessage(w, j, m) == w[j].typ = "message" /\ w[j].id = m
Ordered(w, n, p) ==
  \A i \in 1..Len(w) : w[i].typ = "message" =>
    /\ n < w[i].id /\ w[i].id <= p
    /\ \A j \in 1..(i - 1) : w[j].typ = "message" => w[j].id < w[i].id
    /\ \A m \in (n + 1)..(w[i].id - 1) : \E j \in 1..(i - 1) : IsMessage(w, j, m)
Complete(w, n, p) == \A m \in (n + 1)..p : \E j \in 1..Len(w) : IsMessage(w, j, m)

Holds(o) == \/ reader[o].pc = "ack"
            \/ reader[o].pc = "deliver" /\ reader[o].packet.typ = "message"
Received(o) == IF Holds(o) THEN Len(got[o]) + 1 ELSE Len(got[o])
Pushed(s) == IF main[s].id = 0 THEN sent[s] ELSE sent[s] - 1
Reads(o) == reader[o].pc \in {"read", "ack", "deliver"}

Flows(s) == ~Hung(s) /\ rpc[s] # "ended"

\* Messages from s to o.
OrderInv(s, o) ==
  /\ \A i \in 1..Len(got[o]) : got[o][i] = i
  /\ Holds(o) => reader[o].packet.id = Len(got[o]) + 1
  /\ Reads(o) => /\ Received(o) <= Pushed(s)
                 /\ Ordered(wire[s], Received(o), Pushed(s))
                 /\ Flows(s) => Complete(wire[s], Received(o), Pushed(s))

\* Acknowledgements by o for s.
Shown(o, id) == \/ id \in Range(got[o])
                \/ reader[o].pc = "deliver" /\ reader[o].packet = Packet("message", id, 0)
                \/ Cancelled(o)
AckInv(s, o) ==
  /\ \A id \in acked[s] : Shown(o, id)
  /\ \A i \in 1..Len(wire[o]) : wire[o][i].typ = "ack" => Shown(o, wire[o][i].id)
  /\ reader[s].pc = "deliver" /\ reader[s].packet.typ = "ack" => Shown(o, reader[s].packet.id)

\* What s encrypted, as o expects it.
Calm == (\E s \in Sides : typed[s] = 0) /\ \A s \in Sides : ~Closing(s)
Pending(s) == main[s].id # 0 \/ reader[s].pc = "ack"
StepInv(s, o) ==
  /\ reader[s].pc # "lost"
  /\ \A i \in 1..Len(wire[s]) : wire[s][i].nonce = count[o].in + i - 1
  /\ main[s].id # 0 => main[s].nonce = count[o].in + Len(wire[s])
  /\ reader[s].pc = "ack" => reader[s].packet.nonce = count[o].in + Len(wire[s])
  /\ Pending(s) => count[s].out = count[o].in + Len(wire[s]) + 1
  /\ ~Pending(s) /\ (typed[s] > 0 \/ reader[s].pc # "ended") =>
       count[s].out = count[o].in + Len(wire[s])
  /\ typed[s] = 0 => /\ reader[o].pc # "ack"
                     /\ \A i \in 1..Len(wire[s]) : wire[s][i].typ # "message"

-----------------------------------------------------------------------------
LEMMA OtherSide == ASSUME NEW s \in Sides
                   PROVE  /\ Other(s) \in Sides /\ Other(s) # s /\ Other(Other(s)) = s
                          /\ \A r \in Sides : r # s => r = Other(s)
  BY SidesAssumption DEF Other

LEMMA CloseStep ==
    ASSUME Types, NEW s \in Sides, NEW k \in Closers, Close(s, k)
    PROVE  /\ bye' \in [Sides -> [Closers -> [pc : ByePCs, nonce : Nat]]]
           /\ bye'[s][k].pc = "say"
           /\ \A r \in Sides, j \in Closers : r # s \/ j # k => bye'[r][j] = bye[r][j]
<1> DEFINE new == [bye[s][k] EXCEPT !.pc = "say"]
<1>1. bye[s] \in [Closers -> [pc : ByePCs, nonce : Nat]] /\ bye[s][k] \in [pc : ByePCs, nonce : Nat]
  BY DEF Types
<1>2. new \in [pc : ByePCs, nonce : Nat] /\ new.pc = "say"
  BY <1>1 DEF ByePCs
<1>3. bye' = [bye EXCEPT ![s] = [bye[s] EXCEPT ![k] = new]]
  BY DEF Close
<1> HIDE DEF new
<1> QED
  BY <1>1, <1>2, <1>3 DEF Types

LEMMA SendStep ==
    ASSUME Types, NEW s \in Sides, NEW p \in Packets, Send(s, p)
    PROVE  /\ wire' \in [Sides -> Seq(Packets)]
           /\ wire'[s] = Append(wire[s], p)
           /\ \A r \in Sides : r # s => wire'[r] = wire[r]
  BY DEF Types, Send

LEMMA EncryptStep ==
    ASSUME Types, NEW s \in Sides, Encrypt(s)
    PROVE  /\ count' \in [Sides -> [out : Nat, in : Nat]]
           /\ count'[s].out = count[s].out + 1 /\ count'[s].in = count[s].in
           /\ \A r \in Sides : r # s => count'[r] = count[r]
<1> DEFINE new == [out |-> count[s].out + 1, in |-> count[s].in]
<1>1. count[s] \in [out : Nat, in : Nat] /\ count \in [Sides -> [out : Nat, in : Nat]]
  BY DEF Types
<1>2. count' = [count EXCEPT ![s] = new]
  <2>1. [count[s] EXCEPT !.out = @ + 1] = new
    BY <1>1
  <2> QED
    BY <2>1 DEF Encrypt
<1>3. new \in [out : Nat, in : Nat]
  BY <1>1
<1> QED
  BY <1>1, <1>2, <1>3

LEMMA CountStep ==
    ASSUME Types, NEW s \in Sides, Count(s)
    PROVE  /\ count' \in [Sides -> [out : Nat, in : Nat]]
           /\ count'[s].in = count[s].in + 1 /\ count'[s].out = count[s].out
           /\ \A r \in Sides : r # s => count'[r] = count[r]
<1> DEFINE new == [out |-> count[s].out, in |-> count[s].in + 1]
<1>1. count[s] \in [out : Nat, in : Nat] /\ count \in [Sides -> [out : Nat, in : Nat]]
  BY DEF Types
<1>2. count' = [count EXCEPT ![s] = new]
  <2>1. [count[s] EXCEPT !.in = @ + 1] = new
    BY <1>1
  <2> QED
    BY <2>1 DEF Count
<1>3. new \in [out : Nat, in : Nat]
  BY <1>1
<1> QED
  BY <1>1, <1>2, <1>3

LEMMA CountBothStep ==
    ASSUME Types, NEW s \in Sides,
           count' = [count EXCEPT ![s].in = @ + 1, ![s].out = @ + 1]
    PROVE  /\ count' \in [Sides -> [out : Nat, in : Nat]]
           /\ count'[s].in = count[s].in + 1 /\ count'[s].out = count[s].out + 1
           /\ \A r \in Sides : r # s => count'[r] = count[r]
<1> DEFINE mid == [count[s] EXCEPT !.in = @ + 1]
           new == [mid EXCEPT !.out = @ + 1]
<1>1. count[s] \in [out : Nat, in : Nat] /\ count \in [Sides -> [out : Nat, in : Nat]]
  BY DEF Types
<1>2. count' = [count EXCEPT ![s] = new]
  BY <1>1
<1>3. /\ mid \in [out : Nat, in : Nat]
      /\ mid.in = count[s].in + 1 /\ mid.out = count[s].out
  BY <1>1
<1> HIDE DEF mid
<1>4. /\ new \in [out : Nat, in : Nat]
      /\ new.in = mid.in /\ new.out = mid.out + 1
  BY <1>3
<1> HIDE DEF new
<1> QED
  BY <1>1, <1>2, <1>3, <1>4

LEMMA GoesStep ==
    ASSUME Types, NEW s \in Sides, NEW pc \in ReaderPCs, NEW p \in Packets,
           ReaderGoes(s, pc, p)
    PROVE  /\ reader' \in [Sides -> [pc : ReaderPCs, packet : Packets]]
           /\ reader'[s].pc = pc /\ reader'[s].packet = p
           /\ \A r \in Sides : r # s => reader'[r] = reader[r]
  BY DEF Types, ReaderGoes

LEMMA PacketType ==
    /\ \A typ \in {"none", "message", "ack", "closed"}, id, nonce \in Nat :
         Packet(typ, id, nonce) \in Packets
    /\ NoPacket \in Packets /\ NoPacket.typ = "none" /\ NoPacket.id = 0
  BY DEF Packet, NoPacket, Packets

\* The four ways of a packet that is read.
ReadLost(s) == /\ ReaderGoes(s, "lost", NoPacket) /\ UNCHANGED <<count, bye>>
               /\ Head(wire[Other(s)]).nonce # count[s].in
ReadMessage(s) == LET p == Head(wire[Other(s)]) IN
  /\ p.nonce = count[s].in /\ p.typ = "message"
  /\ ReaderGoes(s, "ack", Packet("ack", p.id, count[s].out))
  /\ count' = [count EXCEPT ![s].in = @ + 1, ![s].out = @ + 1]
  /\ UNCHANGED bye
ReadAck(s) == LET p == Head(wire[Other(s)]) IN
  /\ p.nonce = count[s].in /\ p.typ = "ack"
  /\ ReaderGoes(s, "deliver", p) /\ Count(s) /\ UNCHANGED bye
ReadClosed(s) == LET p == Head(wire[Other(s)]) IN
  /\ p.nonce = count[s].in /\ p.typ = "closed"
  /\ Close(s, "reader") /\ ReaderGoes(s, "ended", NoPacket) /\ Count(s)

LEMMA ReadStep ==
    ASSUME Types, NEW s \in Sides, ReadPacket(s)
    PROVE  /\ reader[s].pc = "read" /\ wire[Other(s)] # <<>>
           /\ Head(wire[Other(s)]) \in Packets
           /\ wire' \in [Sides -> Seq(Packets)]
           /\ wire'[Other(s)] = Tail(wire[Other(s)]) /\ wire'[s] = wire[s]
           /\ UNCHANGED <<typed, sent, rpc, main, got, acked>>
           /\ ReadLost(s) \/ ReadMessage(s) \/ ReadAck(s) \/ ReadClosed(s)
<1>1. wire[Other(s)] \in Seq(Packets) /\ wire[Other(s)] # <<>>
  BY OtherSide DEF ReadPacket, Types
<1>2. Head(wire[Other(s)]) \in Packets /\ Tail(wire[Other(s)]) \in Seq(Packets)
  BY <1>1
<1>3. wire' = [wire EXCEPT ![Other(s)] = Tail(@)]
  BY DEF ReadPacket
<1>4. wire' \in [Sides -> Seq(Packets)] /\ wire'[Other(s)] = Tail(wire[Other(s)])
      /\ wire'[s] = wire[s]
  BY <1>2, <1>3, OtherSide DEF Types
<1>5. ReadLost(s) \/ ReadMessage(s) \/ ReadAck(s) \/ ReadClosed(s)
  BY DEF ReadPacket, ReadLost, ReadMessage, ReadAck, ReadClosed
<1> QED
  BY <1>1, <1>2, <1>4, <1>5 DEF ReadPacket, Reading, ReaderAt

LEMMA CutStep ==
    ASSUME Types, NEW s \in Sides, Cut(s)
    PROVE  /\ wire' \in [Sides -> Seq(Packets)]
           /\ \E n \in 0..Len(wire[s]) : wire'[s] = SubSeq(wire[s], 1, n)
           /\ \A r \in Sides : r # s => wire'[r] = wire[r]
<1>1. PICK n \in 0..Len(wire[s]) : wire' = [wire EXCEPT ![s] = SubSeq(@, 1, n)]
  BY DEF Cut
<1>2. wire[s] \in Seq(Packets)
  BY DEF Types
<1>3. SubSeq(wire[s], 1, n) \in Seq(Packets)
  BY <1>1, <1>2
<1> QED
  BY <1>1, <1>3 DEF Types

-----------------------------------------------------------------------------
(* Every variable keeps its type, and each Close is called once. *)

Base == Types /\ Once

LEMMA BaseInit == Open => Base
<1> SUFFICES ASSUME Open PROVE Base
  OBVIOUS
<1>1. typed \in [Sides -> Nat]
  BY TypingAssumption DEF Open
<1>2. NoPacket \in Packets /\ NoPacket.id = 0
  BY PacketType
<1>3. Silent \in [pc : ByePCs, nonce : Nat] /\ Silent.pc = "none"
  BY DEF Silent, ByePCs
<1>4. bye = [s \in Sides |-> [k \in Closers |-> Silent]]
  BY DEF Open
<1>5. bye \in [Sides -> [Closers -> [pc : ByePCs, nonce : Nat]]]
  BY <1>3, <1>4
<1>6. Types
  BY <1>1, <1>2, <1>5 DEF Open, Types, ReaderPCs
<1>7. \A s \in Sides, k \in Closers : bye[s][k].pc = "none"
  BY <1>3, <1>4
<1>8. Once
  BY <1>1, <1>2, <1>7 DEF Open, Once, Closers
<1> QED
  BY <1>6, <1>8 DEF Base

LEMMA BaseNext == Base /\ [Talk]_talk => Base'
<1> SUFFICES ASSUME Types, Once, [Talk]_talk PROVE Types' /\ Once'
  BY DEF Base
<1>1. ASSUME NEW s \in Sides, Input(s) PROVE Types' /\ Once'
  <2>1. Encrypt(s)
    BY <1>1 DEF Input
  <2>2. Packet("message", sent[s] + 1, count[s].out) \in Packets
    BY PacketType DEF Types
  <2>3. main' = [main EXCEPT ![s] = Packet("message", sent[s] + 1, count[s].out)]
        /\ sent' = [sent EXCEPT ![s] = @ + 1] /\ sent[s] < typed[s] /\ rpc[s] = "open"
    BY <1>1 DEF Input
  <2>4. Types'
    BY SMTT(30), <1>1, <2>1, <2>2, <2>3, EncryptStep DEF Input, Types
  <2>5. Once'
    BY <1>1, <2>3 DEF Input, Types, Once, Packet
  <2> QED
    BY <2>4, <2>5
<1>2. ASSUME NEW s \in Sides, Write(s) PROVE Types' /\ Once'
  <2>1. main[s] \in Packets /\ main' = [main EXCEPT ![s] = NoPacket] /\ NoPacket.id = 0
        /\ NoPacket \in Packets
    BY <1>2, PacketType DEF Write, Types
  <2>2. CASE Send(s, main[s]) /\ UNCHANGED <<rpc, bye>>
    <3>1. Types'
      BY SMTT(30), <1>2, <2>1, <2>2, SendStep DEF Write, Types
    <3> QED
      <4>1. /\ UNCHANGED <<typed, sent, reader, rpc, bye>>
            /\ main'[s].id = 0 /\ \A r \in Sides : r # s => main'[r] = main[r]
        BY <1>2, <2>1, <2>2 DEF Write, Types
      <4> QED
        BY <3>1, <4>1 DEF Once
  <2>3. CASE rpc' = [rpc EXCEPT ![s] = "ended"] /\ Close(s, "rpc") /\ UNCHANGED wire
    <3>1. "rpc" \in Closers /\ "reader" \in Closers
      BY DEF Closers
    <3>2. Types'
      BY SMTT(30), <1>2, <2>1, <2>3, <3>1, CloseStep DEF Write, Types
    <3>3. \A r \in Sides, j \in Closers : r # s \/ j # "rpc" => bye'[r][j] = bye[r][j]
      BY <2>3, <3>1, CloseStep
    <3>4. /\ UNCHANGED <<typed, sent, reader>>
          /\ rpc'[s] = "ended" /\ main'[s].id = 0
          /\ \A r \in Sides : r # s => rpc'[r] = rpc[r] /\ main'[r] = main[r]
      BY <1>2, <2>1, <2>3 DEF Write, Types
    <3> QED
      BY <3>1, <3>2, <3>3, <3>4 DEF Once
  <2> QED
    BY <1>2, <2>2, <2>3 DEF Write
<1>3. ASSUME NEW s \in Sides, ClientExits(s) PROVE Types' /\ Once'
  BY <1>3 DEF ClientExits, Types, Once
<1>4. ASSUME NEW s \in Sides, RPCEnds(s) PROVE Types' /\ Once'
  <2>1. "rpc" \in Closers /\ "reader" \in Closers
    BY DEF Closers
  <2>2. Types'
    BY <1>4, <2>1, CloseStep DEF RPCEnds, Types
  <2>3. \A r \in Sides, j \in Closers : r # s \/ j # "rpc" => bye'[r][j] = bye[r][j]
    BY <1>4, <2>1, CloseStep DEF RPCEnds
  <2> QED
    <3>1. /\ UNCHANGED <<typed, sent, reader, main>> /\ main[s].id = 0
          /\ rpc'[s] = "ended" /\ \A r \in Sides : r # s => rpc'[r] = rpc[r]
      BY <1>4 DEF RPCEnds, Types
    <3> QED
      BY <2>1, <2>2, <2>3, <3>1 DEF Once
<1>5. ASSUME NEW s \in Sides, ReadPacket(s) PROVE Types' /\ Once'
  <2> DEFINE p == Head(wire[Other(s)])
  <2>1. p \in Packets
    BY <1>5, ReadStep
  <2>2. Packet("ack", p.id, count[s].out) \in Packets /\ NoPacket \in Packets
    BY <2>1, PacketType DEF Types, Packets
  <2>3. reader' \in [Sides -> [pc : ReaderPCs, packet : Packets]]
        /\ \A r \in Sides : r # s => reader'[r] = reader[r]
    BY <1>5, <2>1, <2>2, ReadStep, GoesStep DEF ReadLost, ReadMessage, ReadAck, ReadClosed, ReaderPCs
  <2>4. count' \in [Sides -> [out : Nat, in : Nat]]
    <3>1. CASE count' = count
      BY <3>1 DEF Types
    <3>2. CASE ReadMessage(s)
      BY <3>2, CountBothStep DEF ReadMessage
    <3>3. CASE Count(s)
      BY <3>3, CountStep
    <3> QED
      BY <1>5, <3>1, <3>2, <3>3, ReadStep DEF ReadLost, ReadAck, ReadClosed
  <2>5. CASE UNCHANGED bye
    <3>1. Types'
      BY <1>5, <2>3, <2>4, <2>5, ReadStep DEF Types
    <3>2. reader[s].pc # "ended"
      BY <1>5, ReadStep
    <3>3. UNCHANGED <<typed, sent, rpc, main>>
      BY <1>5, ReadStep
    <3>4. bye[s]["reader"].pc = "none"
      BY <3>2 DEF Once
    <3>5. reader'[s].pc = "ack" => reader'[s].packet.typ = "ack"
      <4>1. CASE ReadMessage(s)
        BY <2>2, <4>1, GoesStep DEF ReadMessage, Packet, ReaderPCs
      <4>2. CASE ReadLost(s)
        BY <2>2, <4>2, GoesStep DEF ReadLost, ReaderPCs
      <4>3. CASE ReadAck(s)
        BY <2>1, <4>3, GoesStep DEF ReadAck, ReaderPCs
      <4>4. CASE ReadClosed(s)
        BY <2>2, <4>4, GoesStep DEF ReadClosed, ReaderPCs
      <4> QED
        BY <1>5, <4>1, <4>2, <4>3, <4>4, ReadStep
    <3> QED
      BY <2>3, <2>5, <3>1, <3>3, <3>4, <3>5 DEF Once
  <2>6. CASE ReadClosed(s)
    <3>1. "rpc" \in Closers /\ "reader" \in Closers
      BY DEF Closers
    <3>2. bye' \in [Sides -> [Closers -> [pc : ByePCs, nonce : Nat]]]
          /\ \A r \in Sides, j \in Closers : r # s \/ j # "reader" => bye'[r][j] = bye[r][j]
      BY <2>6, <3>1, CloseStep DEF ReadClosed
    <3>3. Types'
      BY <1>5, <2>3, <2>4, <3>2, ReadStep DEF Types
    <3>4. reader'[s].pc = "ended"
      BY <2>2, <2>6, GoesStep DEF ReadClosed, ReaderPCs
    <3>5. UNCHANGED <<typed, sent, rpc, main>>
      BY <1>5, ReadStep
    <3> QED
      BY SMTT(30), <2>3, <3>1, <3>2, <3>3, <3>4, <3>5 DEF Once
  <2> QED
    BY <1>5, <2>5, <2>6, ReadStep DEF ReadLost, ReadMessage, ReadAck
<1>6. ASSUME NEW s \in Sides, WriteAck(s) PROVE Types' /\ Once'
  <2>1. reader[s].packet \in Packets /\ reader[s].packet.id \in Nat /\ reader[s].pc = "ack"
    BY <1>6 DEF WriteAck, ReaderAt, Types, Packets
  <2>2. Packet("message", reader[s].packet.id, 0) \in Packets /\ NoPacket \in Packets
    BY <2>1, PacketType
  <2>3. reader' \in [Sides -> [pc : ReaderPCs, packet : Packets]]
        /\ \A r \in Sides : r # s => reader'[r] = reader[r]
    BY <1>6, <2>2, GoesStep DEF WriteAck, ReaderPCs
  <2>4. Types'
    BY <1>6, <2>1, <2>3, SendStep DEF WriteAck, Types
  <2> QED
    <3>1. reader'[s].pc \in {"deliver", "ended"}
      BY <1>6, <2>2, GoesStep DEF WriteAck, ReaderPCs
    <3>2. UNCHANGED <<typed, sent, rpc, main, bye>>
      BY <1>6 DEF WriteAck
    <3> QED
      BY <2>1, <2>3, <2>4, <3>1, <3>2 DEF Once
<1>7. ASSUME NEW s \in Sides, Deliver(s) PROVE Types' /\ Once'
  <2>1. reader[s].packet \in Packets /\ reader[s].packet.id \in Nat /\ reader[s].pc = "deliver"
    BY <1>7 DEF Deliver, ReaderAt, Types, Packets
  <2>2. NoPacket \in Packets
    BY PacketType
  <2>3. reader' \in [Sides -> [pc : ReaderPCs, packet : Packets]]
        /\ \A r \in Sides : r # s => reader'[r] = reader[r]
    BY <1>7, <2>2, GoesStep DEF Deliver, ReaderPCs
  <2>4. got' \in [Sides -> Seq(Nat)] /\ acked' \in [Sides -> SUBSET Nat]
    <3>1. CASE got' = [got EXCEPT ![s] = Append(@, reader[s].packet.id)] /\ acked' = acked
      <4>1. Append(got[s], reader[s].packet.id) \in Seq(Nat)
        BY <2>1 DEF Types
      <4> QED
        BY <3>1, <4>1 DEF Types
    <3>2. CASE acked' = [acked EXCEPT ![s] = @ \cup {reader[s].packet.id}] /\ got' = got
      BY <2>1, <3>2 DEF Types
    <3> QED
      BY <1>7, <3>1, <3>2 DEF Deliver, Types
  <2>5. Types'
    BY <1>7, <2>3, <2>4 DEF Deliver, Types
  <2> QED
    <3>1. reader'[s].pc \in {"read", "ended"}
      BY <1>7, <2>2, GoesStep DEF Deliver, ReaderPCs
    <3>2. UNCHANGED <<typed, sent, rpc, main, bye>>
      BY <1>7 DEF Deliver
    <3> QED
      BY <2>1, <2>3, <2>5, <3>1, <3>2 DEF Once
<1>8. ASSUME NEW s \in Sides, ReaderEnds(s) PROVE Types' /\ Once'
  <2>1. reader' \in [Sides -> [pc : ReaderPCs, packet : Packets]] /\ reader'[s].pc = "ended"
        /\ \A r \in Sides : r # s => reader'[r] = reader[r]
    BY <1>8, PacketType, GoesStep DEF ReaderEnds, ReaderPCs
  <2>2. Types'
    BY <1>8, <2>1 DEF ReaderEnds, Types
  <2> QED
    BY ZenonT(30), <1>8, <2>1, <2>2 DEF ReaderEnds, Types, Once
<1>9. ASSUME NEW s \in Sides, NEW k \in Closers, Goodbye(s, k) PROVE Types' /\ Once'
  <2>0. bye[s][k] \in [pc : ByePCs, nonce : Nat] /\ bye[s] \in [Closers -> [pc : ByePCs, nonce : Nat]]
    BY DEF Types
  <2>1. /\ UNCHANGED <<typed, sent, rpc, main, reader, got, acked>>
        /\ bye' \in [Sides -> [Closers -> [pc : ByePCs, nonce : Nat]]]
        /\ bye[s][k].pc # "none"
        /\ \A r \in Sides, j \in Closers : r # s \/ j # k => bye'[r][j] = bye[r][j]
    <3>1. CASE SayClosed(s, k)
      <4>1. [pc |-> "send", nonce |-> count[s].out] \in [pc : ByePCs, nonce : Nat]
        BY DEF Types, ByePCs
      <4> QED
        BY <2>0, <3>1, <4>1 DEF SayClosed, Saying, Types
    <3>2. CASE SendClosed(s, k)
      <4>1. [pc |-> "wait", nonce |-> 0] \in [pc : ByePCs, nonce : Nat]
        BY DEF ByePCs
      <4> QED
        BY <2>0, <3>2, <4>1 DEF SendClosed, Saying, Types
    <3>3. CASE HangUp(s, k)
      <4>1. [bye[s][k] EXCEPT !.pc = "hung"] \in [pc : ByePCs, nonce : Nat]
        BY <2>0 DEF ByePCs
      <4>2. bye' = [bye EXCEPT ![s] = [bye[s] EXCEPT ![k] = [bye[s][k] EXCEPT !.pc = "hung"]]]
        BY <3>3 DEF HangUp
      <4> QED
        BY <2>0, <3>3, <4>1, <4>2 DEF HangUp, Saying, Types
    <3> QED
      BY <1>9, <3>1, <3>2, <3>3 DEF Goodbye
  <2>2. wire' \in [Sides -> Seq(Packets)]
    <3>1. Packet("closed", 0, bye[s][k].nonce) \in Packets
      BY <2>0, PacketType
    <3> QED
      BY <1>9, <3>1, SendStep, CutStep DEF Goodbye, SayClosed, SendClosed, HangUp, Types
  <2>3. count' \in [Sides -> [out : Nat, in : Nat]]
    BY <1>9, EncryptStep DEF Goodbye, SayClosed, SendClosed, HangUp, Types
  <2>4. Types'
    BY <2>1, <2>2, <2>3 DEF Types
  <2> QED
    BY <2>0, <2>1, <2>4 DEF Once, Closers
<1>10. ASSUME UNCHANGED talk PROVE Types' /\ Once'
  BY <1>10 DEF talk, Types, Once
<1> QED
  BY <1>1, <1>2, <1>3, <1>4, <1>5, <1>6, <1>7, <1>8, <1>9, <1>10 DEF Talk, Main, Reader

-----------------------------------------------------------------------------
(* Messages on their way *)

LEMMA OrderedMore ==
    ASSUME NEW w \in Seq(Packets), NEW n \in Nat, NEW p \in Nat, NEW q \in Nat, p <= q,
           Ordered(w, n, p)
    PROVE  Ordered(w, n, q)
<1>1. \A i \in 1..Len(w) : w[i] \in Packets
  OBVIOUS
<1>2. \A i \in 1..Len(w) : w[i].id \in Nat
  BY <1>1 DEF Packets
<1>3. \A i \in 1..Len(w) : w[i].id <= p => w[i].id <= q
  BY <1>2
<1> DEFINE Rest(i) == /\ n < w[i].id
                      /\ \A j \in 1..(i - 1) : w[j].typ = "message" => w[j].id < w[i].id
                      /\ \A m \in (n + 1)..(w[i].id - 1) : \E j \in 1..(i - 1) : IsMessage(w, j, m)
<1>4. \A i \in 1..Len(w) : w[i].typ = "message" => w[i].id <= p /\ Rest(i)
  BY DEF Ordered
<1> HIDE DEF Rest
<1>5. \A i \in 1..Len(w) : w[i].typ = "message" => w[i].id <= q /\ Rest(i)
  BY <1>3, <1>4
<1> QED
  BY <1>5 DEF Ordered, Rest

LEMMA AppendMessage ==
    ASSUME NEW w \in Seq(Packets), NEW n \in Nat, NEW p \in Nat, n <= p,
           NEW e \in Packets, e.typ = "message", e.id = p + 1,
           Ordered(w, n, p), Complete(w, n, p)
    PROVE  Ordered(Append(w, e), n, p + 1) /\ Complete(Append(w, e), n, p + 1)
<1> DEFINE v == Append(w, e)
<1>1. /\ v \in Seq(Packets) /\ Len(v) = Len(w) + 1 /\ Len(w) \in Nat /\ v[Len(w) + 1] = e
      /\ \A i \in 1..Len(w) : v[i] = w[i] /\ w[i] \in Packets
  OBVIOUS
<1> HIDE DEF v
<1>2. \A i \in 1..Len(w) : w[i].id \in Nat
  BY <1>1 DEF Packets
<1>3. ASSUME NEW m \in (n + 1)..p PROVE \E j \in 1..Len(w) : IsMessage(v, j, m)
  BY <1>1 DEF Complete, IsMessage
<1>4. Complete(v, n, p + 1)
  <2> SUFFICES ASSUME NEW m \in (n + 1)..(p + 1) PROVE \E j \in 1..Len(v) : IsMessage(v, j, m)
    BY DEF Complete
  <2>1. CASE m \in (n + 1)..p
    BY <1>1, <1>3, <2>1
  <2>2. CASE m = p + 1
    BY <1>1, <2>2 DEF IsMessage
  <2> QED
    BY <2>1, <2>2
<1>5. Ordered(v, n, p + 1)
  <2> SUFFICES ASSUME NEW i \in 1..Len(v), v[i].typ = "message"
               PROVE  /\ n < v[i].id /\ v[i].id <= p + 1
                      /\ \A j \in 1..(i - 1) : v[j].typ = "message" => v[j].id < v[i].id
                      /\ \A m \in (n + 1)..(v[i].id - 1) : \E j \in 1..(i - 1) : IsMessage(v, j, m)
    BY DEF Ordered
  <2>1. CASE i = Len(w) + 1
    <3>1. \A j \in 1..Len(w) : v[j].typ = "message" => v[j].id < p + 1
      BY <1>1, <1>2 DEF Ordered
    <3> QED
      BY <1>1, <1>3, <2>1, <3>1
  <2>2. CASE i \in 1..Len(w)
    <3>1. \A j \in 1..(i - 1) : j \in 1..Len(w) /\ v[j] = w[j]
      BY <1>1, <2>2
    <3>2. v[i] = w[i] /\ w[i].id \in Nat
      BY <1>1, <1>2, <2>2
    <3> QED
      BY SMTT(30), <2>2, <3>1, <3>2 DEF Ordered, IsMessage
  <2> QED
    BY <1>1, <2>1, <2>2
<1> QED
  BY <1>4, <1>5 DEF v

LEMMA AppendOther ==
    ASSUME NEW w \in Seq(Packets), NEW n \in Nat, NEW p \in Nat,
           NEW e \in Packets, e.typ # "message"
    PROVE  /\ Ordered(w, n, p) => Ordered(Append(w, e), n, p)
           /\ Complete(w, n, p) => Complete(Append(w, e), n, p)
<1> DEFINE v == Append(w, e)
<1>1. /\ Len(v) = Len(w) + 1 /\ Len(w) \in Nat /\ v[Len(w) + 1] = e
      /\ \A i \in 1..Len(w) : v[i] = w[i]
  OBVIOUS
<1> HIDE DEF v
<1>2. Complete(w, n, p) => Complete(v, n, p)
  <2>1. \A j \in 1..Len(w) : j \in 1..Len(v) /\ \A m : IsMessage(w, j, m) => IsMessage(v, j, m)
    BY <1>1 DEF IsMessage
  <2> QED
    BY <2>1 DEF Complete
<1>3. ASSUME Ordered(w, n, p), NEW i \in 1..Len(v), v[i].typ = "message"
      PROVE  /\ n < v[i].id /\ v[i].id <= p
             /\ \A j \in 1..(i - 1) : v[j].typ = "message" => v[j].id < v[i].id
             /\ \A m \in (n + 1)..(v[i].id - 1) : \E j \in 1..(i - 1) : IsMessage(v, j, m)
  <2>1. i \in 1..Len(w)
    BY <1>1, <1>3
  <2>2. v[i] = w[i] /\ \A j \in 1..(i - 1) : j \in 1..Len(w) /\ v[j] = w[j]
    BY <1>1, <2>1
  <2> QED
    BY <1>3, <2>1, <2>2 DEF Ordered, IsMessage
<1> QED
  BY <1>2, <1>3 DEF Ordered, v

LEMMA PrefixOrdered ==
    ASSUME NEW w \in Seq(Packets), NEW n \in Nat, NEW p \in Nat, NEW k \in 0..Len(w),
           Ordered(w, n, p)
    PROVE  Ordered(SubSeq(w, 1, k), n, p)
<1> DEFINE v == SubSeq(w, 1, k)
<1>1. Len(v) = k /\ k \in Nat /\ k <= Len(w) /\ \A i \in 1..k : v[i] = w[i]
  OBVIOUS
<1> HIDE DEF v
<1>2. ASSUME NEW i \in 1..Len(v), v[i].typ = "message"
      PROVE  /\ n < v[i].id /\ v[i].id <= p
             /\ \A j \in 1..(i - 1) : v[j].typ = "message" => v[j].id < v[i].id
             /\ \A m \in (n + 1)..(v[i].id - 1) : \E j \in 1..(i - 1) : IsMessage(v, j, m)
  <2>1. i \in 1..Len(w) /\ v[i] = w[i] /\ \A j \in 1..(i - 1) : v[j] = w[j]
    BY <1>1
  <2> QED
    BY SMTT(30), <1>2, <2>1 DEF Ordered, IsMessage
<1> QED
  BY <1>2 DEF Ordered, v

LEMMA TailFacts ==
    ASSUME NEW w \in Seq(Packets), w # <<>>, NEW v, v = Tail(w)
    PROVE  /\ v \in Seq(Packets) /\ Len(w) \in Nat \ {0} /\ Len(v) = Len(w) - 1
           /\ Head(w) = w[1] /\ \A i \in 1..Len(v) : v[i] = w[i + 1]
  OBVIOUS

\* The first message on the way is the next.
LEMMA TailMessage ==
    ASSUME NEW w \in Seq(Packets), w # <<>>, NEW n \in Nat, NEW p \in Nat,
           Head(w).typ = "message", Ordered(w, n, p)
    PROVE  /\ Head(w).id = n + 1 /\ n + 1 <= p
           /\ Ordered(Tail(w), n + 1, p)
           /\ Complete(w, n, p) => Complete(Tail(w), n + 1, p)
<1> DEFINE v == Tail(w)
<1>0. /\ Len(w) \in Nat \ {0} /\ Len(v) = Len(w) - 1
      /\ Head(w) = w[1] /\ \A i \in 1..Len(v) : v[i] = w[i + 1]
  BY TailFacts
<1>00. \A i \in 1..Len(w) : w[i].id \in Nat
  <2>1. \A i \in 1..Len(w) : w[i] \in Packets
    OBVIOUS
  <2> QED
    BY <2>1 DEF Packets
<1> HIDE DEF v
<1>1. w[1].typ = "message" /\ w[1].id = n + 1 /\ n + 1 <= p
  BY <1>0, <1>00 DEF Ordered
<1>2. Complete(w, n, p) => Complete(v, n + 1, p)
  <2> SUFFICES ASSUME Complete(w, n, p), NEW m \in (n + 2)..p
               PROVE  \E j \in 1..Len(v) : IsMessage(v, j, m)
    BY DEF Complete
  <2>1. PICK j \in 1..Len(w) : IsMessage(w, j, m)
    BY DEF Complete
  <2>2. j # 1
    BY <1>1, <2>1 DEF IsMessage
  <2>3. j - 1 \in 1..Len(v) /\ v[j - 1] = w[j]
    BY <1>0, <2>1, <2>2
  <2> QED
    BY <2>1, <2>3 DEF IsMessage
<1>3. ASSUME NEW i \in 1..Len(v), v[i].typ = "message"
      PROVE  /\ n + 1 < v[i].id /\ v[i].id <= p
             /\ \A j \in 1..(i - 1) : v[j].typ = "message" => v[j].id < v[i].id
             /\ \A m \in (n + 2)..(v[i].id - 1) : \E j \in 1..(i - 1) : IsMessage(v, j, m)
  <2>1. i + 1 \in 1..Len(w) /\ v[i] = w[i + 1] /\ v[i].id \in Nat /\ 1 \in 1..i
    BY <1>0, <1>00
  <2>2. n + 1 < v[i].id /\ v[i].id <= p
    BY <1>1, <1>3, <2>1 DEF Ordered
  <2>3. \A j \in 1..(i - 1) : v[j] = w[j + 1] /\ j + 1 \in 1..i
    BY <1>0
  <2>4. \A j \in 1..(i - 1) : v[j].typ = "message" => v[j].id < v[i].id
    <3>1. (i + 1) - 1 = i
      OBVIOUS
    <3>2. \A j \in 1..i : w[j].typ = "message" => w[j].id < w[i + 1].id
      BY <1>3, <2>1, <3>1 DEF Ordered
    <3> QED
      BY <2>1, <2>3, <3>2
  <2>5. ASSUME NEW m \in (n + 2)..(v[i].id - 1) PROVE \E j \in 1..(i - 1) : IsMessage(v, j, m)
    <3>1. m \in (n + 1)..(w[i + 1].id - 1)
      BY <2>1
    <3>2. PICK j \in 1..i : IsMessage(w, j, m)
      BY <1>3, <2>1, <3>1 DEF Ordered
    <3>3. j # 1
      BY <1>1, <3>2 DEF IsMessage
    <3>4. j - 1 \in 1..(i - 1) /\ v[j - 1] = w[j]
      BY <2>3, <3>2, <3>3
    <3> QED
      BY <3>2, <3>4 DEF IsMessage
  <2> QED
    BY <2>2, <2>4, <2>5
<1>4. Ordered(v, n + 1, p)
  BY <1>3 DEF Ordered
<1> QED
  BY <1>0, <1>1, <1>2, <1>4 DEF v

LEMMA TailOther ==
    ASSUME NEW w \in Seq(Packets), w # <<>>, NEW n \in Nat, NEW p \in Nat,
           Head(w).typ # "message", Ordered(w, n, p)
    PROVE  /\ Ordered(Tail(w), n, p)
           /\ Complete(w, n, p) => Complete(Tail(w), n, p)
<1> DEFINE v == Tail(w)
<1>0. /\ Len(w) \in Nat \ {0} /\ Len(v) = Len(w) - 1
      /\ w[1].typ # "message" /\ \A i \in 1..Len(v) : v[i] = w[i + 1]
  BY TailFacts
<1> HIDE DEF v
<1>1. ASSUME NEW j \in 1..Len(w), NEW m, IsMessage(w, j, m)
      PROVE  j - 1 \in 1..Len(v) /\ IsMessage(v, j - 1, m)
  <2>1. j # 1
    BY <1>0, <1>1 DEF IsMessage
  <2>2. j - 1 \in 1..Len(v) /\ v[j - 1] = w[j]
    BY <1>0, <2>1
  <2> QED
    BY <1>1, <2>2 DEF IsMessage
<1>2. Complete(w, n, p) => Complete(v, n, p)
  BY <1>1 DEF Complete
<1>3. ASSUME NEW i \in 1..Len(v), v[i].typ = "message"
      PROVE  /\ n < v[i].id /\ v[i].id <= p
             /\ \A j \in 1..(i - 1) : v[j].typ = "message" => v[j].id < v[i].id
             /\ \A m \in (n + 1)..(v[i].id - 1) : \E j \in 1..(i - 1) : IsMessage(v, j, m)
  <2>1. i + 1 \in 1..Len(w) /\ v[i] = w[i + 1]
    BY <1>0
  <2>2. \A j \in 1..(i - 1) : v[j] = w[j + 1] /\ j + 1 \in 1..i
    BY <1>0
  <2>3. \A j \in 1..(i - 1) : v[j].typ = "message" => v[j].id < v[i].id
    BY SMTT(30), <1>3, <2>1, <2>2 DEF Ordered
  <2>4. ASSUME NEW m \in (n + 1)..(v[i].id - 1) PROVE \E j \in 1..(i - 1) : IsMessage(v, j, m)
    <3>1. PICK j \in 1..i : IsMessage(w, j, m)
      BY <1>3, <2>1 DEF Ordered
    <3>2. j # 1
      BY <1>0, <3>1 DEF IsMessage
    <3>3. j - 1 \in 1..(i - 1) /\ v[j - 1] = w[j]
      BY <2>2, <3>1, <3>2
    <3> QED
      BY <3>1, <3>3 DEF IsMessage
  <2> QED
    BY <1>3, <2>1, <2>3, <2>4 DEF Ordered
<1> QED
  BY <1>2, <1>3 DEF Ordered, v

-----------------------------------------------------------------------------
(* Messages are shown in order. *)

\* A stream that is closed, and an RPC that ended, stay so.
LEMMA FlowsBefore == ASSUME Base, [Talk]_talk, NEW s \in Sides, Flows(s)'
                     PROVE  Flows(s)
<1> USE DEF Base
<1>0. "rpc" \in Closers /\ "reader" \in Closers /\ \A k \in Closers : k \in {"rpc", "reader"}
  BY DEF Closers
<1>1. ASSUME bye'[s] = bye[s], rpc[s] = "ended" => rpc'[s] = "ended" PROVE Flows(s)
  BY <1>1 DEF Flows, Hung
<1>2. ASSUME NEW k \in Closers, bye[s][k].pc # "hung",
             \A j \in Closers : j # k => bye'[s][j] = bye[s][j],
             rpc[s] = "ended" => rpc'[s] = "ended"
      PROVE  Flows(s)
  BY <1>2 DEF Flows, Hung
<1>3. ASSUME NEW r \in Sides, Input(r) \/ ClientExits(r) \/ WriteAck(r) \/ Deliver(r) \/ ReaderEnds(r)
      PROVE  Flows(s)
  BY <1>1, <1>3 DEF Input, ClientExits, WriteAck, Deliver, ReaderEnds, Types
<1>4. ASSUME NEW r \in Sides, Write(r) PROVE Flows(s)
  <2>1. CASE UNCHANGED <<rpc, bye>>
    BY <1>1, <2>1
  <2>2. CASE rpc' = [rpc EXCEPT ![r] = "ended"] /\ Close(r, "rpc")
    <3>1. CASE r = s
      BY <2>2, <3>1 DEF Flows, Types
    <3>2. CASE r # s
      BY <1>0, <1>1, <2>2, <3>2 DEF Close, Types
    <3> QED
      BY <3>1, <3>2
  <2> QED
    BY <1>4, <2>1, <2>2 DEF Write
<1>5. ASSUME NEW r \in Sides, RPCEnds(r) PROVE Flows(s)
  <2>1. CASE r = s
    BY <1>5, <2>1 DEF RPCEnds, Flows, Types
  <2>2. CASE r # s
    BY <1>1, <1>5, <2>2 DEF RPCEnds, Close, Types
  <2> QED
    BY <2>1, <2>2
<1>6. ASSUME NEW r \in Sides, ReadPacket(r) PROVE Flows(s)
  <2>1. reader[r].pc = "read" /\ UNCHANGED rpc
    BY <1>6, ReadStep
  <2>2. bye[r]["reader"].pc = "none"
    BY <2>1 DEF Once
  <2>3. CASE UNCHANGED bye
    BY <1>1, <2>1, <2>3
  <2>4. CASE Close(r, "reader")
    <3>1. \A q \in Sides, j \in Closers : q # r \/ j # "reader" => bye'[q][j] = bye[q][j]
      BY <1>0, <2>4, CloseStep
    <3>2. CASE r = s
      BY <1>0, <1>2, <2>1, <2>2, <3>1, <3>2
    <3>3. CASE r # s
      BY <1>1, <2>1, <2>4, <3>3 DEF Close, Types
    <3> QED
      BY <3>2, <3>3
  <2> QED
    BY <1>6, <2>3, <2>4, ReadStep DEF ReadLost, ReadMessage, ReadAck, ReadClosed
<1>7. ASSUME NEW r \in Sides, NEW k \in Closers, Goodbye(r, k) PROVE Flows(s)
  <2>1. /\ UNCHANGED rpc /\ bye[r][k].pc # "hung"
        /\ \A j \in Closers : j # k => bye'[r][j] = bye[r][j]
        /\ r # s => bye'[s] = bye[s]
    BY <1>7 DEF Goodbye, SayClosed, SendClosed, HangUp, Saying, Types
  <2> QED
    BY <1>1, <1>2, <2>1
<1>8. ASSUME UNCHANGED talk PROVE Flows(s)
  BY <1>1, <1>8 DEF talk
<1> QED
  BY <1>3, <1>4, <1>5, <1>6, <1>7, <1>8 DEF Talk, Main, Reader

LEMMA PushedType == ASSUME Base, NEW s \in Sides
                    PROVE  /\ Pushed(s) \in Nat
                           /\ main[s].id # 0 => Pushed(s) + 1 = sent[s]
<1>1. main[s] \in Packets /\ sent[s] \in Nat
  BY DEF Base, Types
<1>2. main[s].id \in Nat /\ (main[s].id # 0 => main[s].id = sent[s])
  BY <1>1 DEF Packets, Base, Once
<1> QED
  BY <1>1, <1>2 DEF Pushed

LEMMA ReceivedType == ASSUME Types, NEW o \in Sides PROVE Received(o) \in Nat
<1>1. got[o] \in Seq(Nat)
  BY DEF Types
<1>2. Len(got[o]) \in Nat
  BY <1>1
<1> QED
  BY <1>2 DEF Received

\* A step of the sender.
LEMMA SenderStep ==
    ASSUME NEW s \in Sides, NEW o \in Sides, OrderInv(s, o),
           got'[o] = got[o], reader'[o] = reader[o],
           Reads(o) => /\ Received(o) <= Pushed(s)'
                       /\ Ordered(wire'[s], Received(o), Pushed(s)')
                       /\ Flows(s)' => Complete(wire'[s], Received(o), Pushed(s)')
    PROVE  OrderInv(s, o)'
  BY DEF OrderInv, Holds, Received, Reads

\* A step that says nothing about these messages.
LEMMA OtherStep ==
    ASSUME NEW s \in Sides, NEW o \in Sides, OrderInv(s, o), Flows(s)' => Flows(s),
           got'[o] = got[o], reader'[o] = reader[o], wire'[s] = wire[s], Pushed(s)' = Pushed(s)
    PROVE  OrderInv(s, o)'
<1>1. Reads(o) => /\ Received(o) <= Pushed(s)'
                  /\ Ordered(wire'[s], Received(o), Pushed(s)')
                  /\ Flows(s)' => Complete(wire'[s], Received(o), Pushed(s)')
  BY DEF OrderInv
<1> QED
  BY <1>1, SenderStep

LEMMA OrderInit == ASSUME Open, Base, NEW s \in Sides, NEW o \in Sides PROVE OrderInv(s, o)
<1>1. /\ got[o] = <<>> /\ reader[o].pc = "read" /\ wire[s] = <<>> /\ sent[s] = 0
      /\ main[s] = NoPacket
  BY DEF Open
<1>2. Received(o) = 0 /\ Pushed(s) = 0
  BY <1>1, PacketType DEF Received, Holds, Pushed
<1>3. Ordered(<<>>, 0, 0) /\ Complete(<<>>, 0, 0)
  BY DEF Ordered, Complete
<1> QED
  BY <1>1, <1>2, <1>3 DEF OrderInv, Holds

LEMMA OrderNext ==
    ASSUME Base, Base', [Talk]_talk, NEW s \in Sides, NEW o \in Sides, o = Other(s),
           OrderInv(s, o)
    PROVE  OrderInv(s, o)'
<1>0. /\ o # s /\ s = Other(o) /\ \A r \in Sides : r # s => r = o
      /\ Types /\ wire[s] \in Seq(Packets)
      /\ Pushed(s) \in Nat /\ Received(o) \in Nat /\ (Flows(s)' => Flows(s))
  BY OtherSide, PushedType, ReceivedType, FlowsBefore DEF Base, Types
<1> DEFINE n == Received(o)
           w == wire[s]
<1>1. CASE Input(s)
  <2>1. Pushed(s)' = Pushed(s)
    <3>1. main[s].id = 0 /\ main'[s].id = sent[s] + 1 /\ sent'[s] = sent[s] + 1 /\ sent[s] \in Nat
      BY <1>1 DEF Input, Packet, Base, Types
    <3> QED
      BY <3>1 DEF Pushed
  <2> QED
    BY <1>0, <1>1, <2>1, OtherStep DEF Input
<1>2. CASE Write(s)
  <2>1. main[s] \in Packets /\ main[s].id # 0 /\ main'[s].id = 0 /\ sent' = sent
        /\ main[s].typ = "message" /\ main[s].id = sent[s] /\ rpc[s] # "ended"
        /\ got' = got /\ reader' = reader
    BY SMTT(30), <1>2, PacketType DEF Write, Base, Types, Once
  <2>2. Pushed(s)' = Pushed(s) + 1 /\ main[s].id = Pushed(s) + 1
    <3>1. Pushed(s) + 1 = sent[s]
      BY <2>1, PushedType
    <3>2. Pushed(s)' = sent[s]
      BY <2>1 DEF Pushed
    <3> QED
      BY <2>1, <3>1, <3>2
  <2>3. CASE ~Hung(s) /\ Send(s, main[s])
    <3>1. wire'[s] = Append(w, main[s]) /\ Flows(s)
      BY <1>0, <2>1, <2>3, SendStep DEF Flows
    <3>2. ASSUME Reads(o)
          PROVE  /\ n <= Pushed(s)'
                 /\ Ordered(wire'[s], n, Pushed(s)') /\ Complete(wire'[s], n, Pushed(s)')
      <4>1. n <= Pushed(s) /\ Ordered(w, n, Pushed(s)) /\ Complete(w, n, Pushed(s))
        BY <3>1, <3>2 DEF OrderInv
      <4>2. Ordered(Append(w, main[s]), n, Pushed(s) + 1)
            /\ Complete(Append(w, main[s]), n, Pushed(s) + 1)
        BY <1>0, <2>1, <2>2, <4>1, AppendMessage
      <4> QED
        BY <1>0, <2>2, <3>1, <4>1, <4>2
    <3> QED
      BY <2>1, <3>2, SenderStep
  <2>4. CASE rpc' = [rpc EXCEPT ![s] = "ended"] /\ UNCHANGED wire
    <3>1. ~Flows(s)'
      BY <2>4 DEF Flows, Base, Types
    <3>2. ASSUME Reads(o) PROVE n <= Pushed(s)' /\ Ordered(wire'[s], n, Pushed(s)')
      <4>1. n <= Pushed(s) /\ Ordered(w, n, Pushed(s))
        BY <3>2 DEF OrderInv
      <4>2. Ordered(w, n, Pushed(s) + 1)
        BY <1>0, <4>1, OrderedMore
      <4> QED
        BY <1>0, <2>2, <2>4, <4>1, <4>2
    <3> QED
      BY <2>1, <3>1, <3>2, SenderStep
  <2> QED
    BY <1>2, <2>3, <2>4 DEF Write
<1>3. CASE ClientExits(s) \/ RPCEnds(s)
  <2>1. Pushed(s)' = Pushed(s)
    BY <1>3 DEF ClientExits, RPCEnds, Pushed
  <2> QED
    BY <1>0, <1>3, <2>1, OtherStep DEF ClientExits, RPCEnds
<1>4. CASE ReadPacket(s)
  <2>1. Pushed(s)' = Pushed(s)
    BY <1>0, <1>4, ReadStep DEF Pushed
  <2>2. reader'[o] = reader[o]
    <3>1. ASSUME NEW pc, NEW p, ReaderGoes(s, pc, p) PROVE reader'[o] = reader[o]
      BY <1>0, <3>1 DEF ReaderGoes, Types
    <3> QED
      BY <1>0, <1>4, <3>1, ReadStep DEF ReadLost, ReadMessage, ReadAck, ReadClosed
  <2> QED
    BY <1>0, <1>4, <2>1, <2>2, ReadStep, OtherStep
<1>5. CASE WriteAck(s)
  <2>1. Pushed(s)' = Pushed(s)
    BY <1>5 DEF WriteAck, Pushed
  <2>2. got'[o] = got[o] /\ reader'[o] = reader[o]
    BY <1>0, <1>5 DEF WriteAck, ReaderGoes, Types
  <2>3. CASE wire' = wire
    BY <1>0, <2>1, <2>2, <2>3, OtherStep
  <2>4. CASE Send(s, reader[s].packet)
    <3> DEFINE e == reader[s].packet
    <3>1. e \in Packets /\ e.typ # "message"
      BY <1>0, <1>5 DEF WriteAck, ReaderAt, Base, Types, Once
    <3>2. wire'[s] = Append(w, e)
      BY <1>0, <2>4, <3>1, SendStep
    <3> HIDE DEF e
    <3>3. /\ Ordered(w, n, Pushed(s)) => Ordered(wire'[s], n, Pushed(s))
          /\ Complete(w, n, Pushed(s)) => Complete(wire'[s], n, Pushed(s))
      BY <1>0, <3>1, <3>2, AppendOther
    <3>4. Reads(o) => /\ n <= Pushed(s)' /\ Ordered(wire'[s], n, Pushed(s)')
                      /\ Flows(s)' => Complete(wire'[s], n, Pushed(s)')
      BY <1>0, <2>1, <3>3 DEF OrderInv
    <3> QED
      BY <2>1, <2>2, <3>4, SenderStep
  <2> QED
    BY <1>5, <2>3, <2>4 DEF WriteAck
<1>6. CASE Deliver(s) \/ ReaderEnds(s)
  <2>1. Pushed(s)' = Pushed(s)
    BY <1>6 DEF Deliver, ReaderEnds, Pushed
  <2>2. got'[o] = got[o] /\ reader'[o] = reader[o]
    BY <1>0, <1>6 DEF Deliver, ReaderEnds, ReaderGoes, Types
  <2> QED
    BY <1>0, <1>6, <2>1, <2>2, OtherStep DEF Deliver, ReaderEnds
<1>7. ASSUME NEW k \in Closers, Goodbye(s, k) PROVE OrderInv(s, o)'
  <2>1. Pushed(s)' = Pushed(s) /\ got'[o] = got[o] /\ reader'[o] = reader[o]
    BY <1>7 DEF Goodbye, SayClosed, SendClosed, HangUp, Pushed
  <2>2. CASE wire' = wire
    BY <1>0, <2>1, <2>2, OtherStep
  <2>3. CASE Send(s, Packet("closed", 0, bye[s][k].nonce))
    <3> DEFINE e == Packet("closed", 0, bye[s][k].nonce)
    <3>1. e \in Packets /\ e.typ # "message"
      <4>1. bye[s][k].nonce \in Nat
        BY <1>0 DEF Types
      <4> QED
        BY <4>1, PacketType DEF Packet
    <3>2. wire'[s] = Append(w, e)
      BY <1>0, <2>3, <3>1, SendStep
    <3> HIDE DEF e
    <3>3. /\ Ordered(w, n, Pushed(s)) => Ordered(wire'[s], n, Pushed(s))
          /\ Complete(w, n, Pushed(s)) => Complete(wire'[s], n, Pushed(s))
      BY <1>0, <3>1, <3>2, AppendOther
    <3>4. Reads(o) => /\ n <= Pushed(s)' /\ Ordered(wire'[s], n, Pushed(s)')
                      /\ Flows(s)' => Complete(wire'[s], n, Pushed(s)')
      BY <1>0, <2>1, <3>3 DEF OrderInv
    <3> QED
      BY <2>1, <3>4, SenderStep
  <2>4. CASE HangUp(s, k)
    <3>1. ~Flows(s)'
      <4>1. bye'[s][k].pc = "hung"
        BY <1>0, <2>4 DEF HangUp, Types
      <4> QED
        BY <4>1 DEF Flows, Hung
    <3>2. PICK m \in 0..Len(w) : wire'[s] = SubSeq(w, 1, m)
      BY <1>0, <2>4, CutStep DEF HangUp
    <3>3. Reads(o) => n <= Pushed(s)' /\ Ordered(wire'[s], n, Pushed(s)')
      BY <1>0, <2>1, <3>2, PrefixOrdered DEF OrderInv
    <3> QED
      BY <2>1, <3>1, <3>3, SenderStep
  <2> QED
    BY <1>7, <2>2, <2>3, <2>4 DEF Goodbye, SayClosed, SendClosed
<1>8. CASE \/ Input(o) \/ Write(o) \/ ClientExits(o) \/ RPCEnds(o)
           \/ \E k \in Closers : Goodbye(o, k)
  <2>1. got' = got /\ reader' = reader
    BY <1>8 DEF Input, Write, ClientExits, RPCEnds, Goodbye, SayClosed, SendClosed, HangUp
  <2>2. Pushed(s)' = Pushed(s)
    BY <1>0, <1>8 DEF Input, Write, ClientExits, RPCEnds, Goodbye, SayClosed, SendClosed, HangUp,
       Pushed, Types
  <2>3. wire'[s] = wire[s]
    BY <1>0, <1>8 DEF Input, Write, ClientExits, RPCEnds, Goodbye, SayClosed, SendClosed, HangUp,
       Send, Cut, Types
  <2> QED
    BY <1>0, <2>1, <2>2, <2>3, OtherStep
<1>9. CASE ReadPacket(o)
  <2> DEFINE p == Head(w)
  <2>1. /\ reader[o].pc = "read" /\ w # <<>> /\ p \in Packets /\ wire'[s] = Tail(w)
        /\ Pushed(s)' = Pushed(s) /\ got' = got
        /\ ReadLost(o) \/ ReadMessage(o) \/ ReadAck(o) \/ ReadClosed(o)
    BY <1>0, <1>9, ReadStep DEF Pushed
  <2>2. n = Len(got[o]) /\ n <= Pushed(s) /\ Ordered(w, n, Pushed(s))
        /\ (Flows(s) => Complete(w, n, Pushed(s)))
    BY <2>1 DEF OrderInv, Reads, Holds, Received
  <2>3. p.id \in Nat /\ count[o].out \in Nat
    BY <1>0, <2>1 DEF Packets, Types
  <2>4. CASE ReadLost(o) \/ ReadClosed(o)
    <3>1. reader'[o].pc \in {"lost", "ended"}
      BY <1>0, <2>4, PacketType, GoesStep DEF ReadLost, ReadClosed, ReaderPCs
    <3> QED
      BY <2>1, <3>1 DEF OrderInv, Reads, Holds
  <2>5. CASE ReadMessage(o)
    <3>1. reader'[o].pc = "ack" /\ reader'[o].packet.id = p.id /\ p.typ = "message"
      <4>1. Packet("ack", p.id, count[o].out) \in Packets
        BY <2>3, PacketType
      <4>2. reader'[o].packet = Packet("ack", p.id, count[o].out)
        BY <1>0, <2>5, <4>1, GoesStep DEF ReadMessage, ReaderPCs
      <4> QED
        BY <1>0, <2>5, <4>1, <4>2, GoesStep DEF ReadMessage, ReaderPCs, Packet
    <3>2. /\ p.id = n + 1 /\ n + 1 <= Pushed(s) /\ Ordered(Tail(w), n + 1, Pushed(s))
          /\ Complete(w, n, Pushed(s)) => Complete(Tail(w), n + 1, Pushed(s))
      BY <1>0, <2>1, <2>2, <3>1, TailMessage
    <3>3. Received(o)' = n + 1
      BY <2>1, <2>2, <3>1 DEF Received, Holds
    <3> QED
      BY <1>0, <2>1, <2>2, <3>1, <3>2, <3>3 DEF OrderInv
  <2>6. CASE ReadAck(o)
    <3>1. reader'[o].pc = "deliver" /\ reader'[o].packet = p /\ p.typ = "ack"
      BY <1>0, <2>1, <2>6, GoesStep DEF ReadAck, ReaderPCs
    <3>2. Ordered(Tail(w), n, Pushed(s))
          /\ (Complete(w, n, Pushed(s)) => Complete(Tail(w), n, Pushed(s)))
      BY <1>0, <2>1, <2>2, <3>1, TailOther
    <3>3. Received(o)' = n /\ ~Holds(o)'
      BY <2>1, <2>2, <3>1 DEF Received, Holds
    <3> QED
      BY <1>0, <2>1, <2>2, <3>2, <3>3 DEF OrderInv
  <2> QED
    BY <2>1, <2>4, <2>5, <2>6
<1>10. CASE WriteAck(o)
  <2>1. /\ reader[o].pc = "ack" /\ reader[o].packet \in Packets /\ reader[o].packet.id \in Nat
        /\ got' = got /\ Pushed(s)' = Pushed(s)
    BY <1>0, <1>10 DEF WriteAck, ReaderAt, Types, Pushed, Packets
  <2>2. wire'[s] = wire[s]
    BY <1>0, <1>10 DEF WriteAck, Send, Types
  <2>3. CASE ReaderGoes(o, "deliver", Packet("message", reader[o].packet.id, 0))
    <3>1. Packet("message", reader[o].packet.id, 0) \in Packets
      BY <2>1, PacketType
    <3>2. reader'[o].pc = "deliver" /\ reader'[o].packet = Packet("message", reader[o].packet.id, 0)
      BY <1>0, <2>3, <3>1, GoesStep DEF ReaderPCs
    <3>3. Holds(o) /\ Holds(o)' /\ reader'[o].packet.id = reader[o].packet.id
      BY <2>1, <3>2 DEF Holds, Packet
    <3>4. Received(o)' = n
      BY <2>1, <3>3 DEF Received
    <3> QED
      BY <1>0, <2>1, <2>2, <3>3, <3>4 DEF OrderInv, Reads
  <2>4. CASE ReaderGoes(o, "ended", NoPacket)
    <3>1. reader'[o].pc = "ended"
      BY <1>0, <2>4, PacketType, GoesStep DEF ReaderPCs
    <3> QED
      BY <2>1, <3>1 DEF OrderInv, Reads, Holds
  <2> QED
    BY <1>10, <2>3, <2>4 DEF WriteAck
<1>11. CASE Deliver(o)
  <2>1. /\ reader[o].pc = "deliver" /\ reader[o].packet.id \in Nat /\ got[o] \in Seq(Nat)
        /\ wire' = wire /\ Pushed(s)' = Pushed(s)
    BY <1>0, <1>11 DEF Deliver, ReaderAt, Types, Pushed, Packets
  <2>2. CASE reader[o].packet.typ = "ack" /\ ReaderGoes(o, "read", NoPacket) /\ got' = got
    <3>1. reader'[o].pc = "read"
      BY <1>0, <2>2, PacketType, GoesStep DEF ReaderPCs
    <3>2. ~Holds(o)' /\ Received(o)' = n
      BY <2>1, <2>2, <3>1 DEF Holds, Received
    <3> QED
      BY <1>0, <2>1, <2>2, <3>2 DEF OrderInv, Reads
  <2>3. CASE /\ reader[o].packet.typ = "message" /\ ReaderGoes(o, "read", NoPacket)
             /\ got' = [got EXCEPT ![o] = Append(@, reader[o].packet.id)]
    <3>1. reader'[o].pc = "read"
      BY <1>0, <2>3, PacketType, GoesStep DEF ReaderPCs
    <3>2. /\ Holds(o) /\ n = Len(got[o]) + 1 /\ reader[o].packet.id = Len(got[o]) + 1
          /\ Len(got[o]) \in Nat
      BY <2>1, <2>3 DEF Holds, Received, OrderInv
    <3>3. got'[o] = Append(got[o], reader[o].packet.id)
      BY <1>0, <2>3 DEF Types
    <3>4. Len(got'[o]) = n /\ \A i \in 1..Len(got'[o]) : got'[o][i] = i
      BY <2>1, <3>2, <3>3 DEF OrderInv
    <3>5. ~Holds(o)' /\ Received(o)' = n
      BY <3>1, <3>4 DEF Holds, Received
    <3> QED
      BY <1>0, <2>1, <3>4, <3>5 DEF OrderInv, Reads
  <2>4. CASE ReaderGoes(o, "ended", NoPacket) /\ got' = got
    <3>1. reader'[o].pc = "ended"
      BY <1>0, <2>4, PacketType, GoesStep DEF ReaderPCs
    <3> QED
      BY <2>4, <3>1 DEF OrderInv, Reads, Holds
  <2> QED
    BY <1>11, <2>2, <2>3, <2>4 DEF Deliver
<1>12. CASE ReaderEnds(o)
  <2>1. reader'[o].pc = "ended" /\ got' = got
    BY <1>0, <1>12, PacketType, GoesStep DEF ReaderEnds, ReaderPCs
  <2> QED
    BY <2>1 DEF OrderInv, Reads, Holds
<1>13. CASE UNCHANGED talk
  BY <1>0, <1>13, OtherStep DEF talk, Pushed
<1> QED
  BY <1>0, <1>1, <1>2, <1>3, <1>4, <1>5, <1>6, <1>7, <1>8, <1>9, <1>10, <1>11, <1>12, <1>13
     DEF Talk, Main, Reader

-----------------------------------------------------------------------------
(* Acknowledged is shown. *)

ShownNext(o, id) ==
  \/ id \in Range(got'[o])
  \/ reader'[o].pc = "deliver" /\ reader'[o].packet = Packet("message", id, 0)
  \/ rpc'[o] # "open"

LEMMA ShownKept == ASSUME Base, [Talk]_talk, NEW o \in Sides, NEW id, Shown(o, id)
                   PROVE  ShownNext(o, id)
<1>0. Types /\ got[o] \in Seq(Nat) /\ reader[o].packet.id \in Nat
  BY DEF Base, Types, Packets
<1>1. ASSUME UNCHANGED <<got, rpc, reader>> PROVE ShownNext(o, id)
  BY <1>1 DEF Shown, ShownNext, Cancelled
<1>2. ASSUME NEW r \in Sides, \/ Input(r) \/ \E k \in Closers : Goodbye(r, k)
      PROVE  ShownNext(o, id)
  BY <1>1, <1>2 DEF Input, Goodbye, SayClosed, SendClosed, HangUp
<1>3. ASSUME NEW r \in Sides, Write(r) \/ ClientExits(r) \/ RPCEnds(r) PROVE ShownNext(o, id)
  <2>1. UNCHANGED <<got, reader>> /\ (Cancelled(o) => Cancelled(o)')
    BY <1>0, <1>3 DEF Write, ClientExits, RPCEnds, Cancelled, Types
  <2> QED
    BY <2>1 DEF Shown, ShownNext, Cancelled
<1>4. ASSUME UNCHANGED <<got, rpc>>, reader[o].pc # "deliver" \/ reader'[o] = reader[o]
      PROVE  ShownNext(o, id)
  BY <1>4 DEF Shown, ShownNext, Cancelled
<1>5. ASSUME NEW r \in Sides, ReadPacket(r) \/ WriteAck(r) \/ ReaderEnds(r) PROVE ShownNext(o, id)
  <2>1. UNCHANGED <<got, rpc>>
    BY <1>0, <1>5, ReadStep DEF WriteAck, ReaderEnds
  <2>2. reader[r].pc # "deliver"
    BY <1>0, <1>5, ReadStep DEF WriteAck, ReaderEnds, ReaderAt
  <2>3. ASSUME NEW pc, NEW p, ReaderGoes(r, pc, p), r # o PROVE reader'[o] = reader[o]
    BY <1>0, <2>3 DEF ReaderGoes, Types
  <2>4. r # o => reader'[o] = reader[o]
    BY <1>0, <1>5, <2>3, ReadStep DEF ReadLost, ReadMessage, ReadAck, ReadClosed, WriteAck, ReaderEnds
  <2> QED
    BY <1>4, <2>1, <2>2, <2>4
<1>6. ASSUME NEW r \in Sides, Deliver(r) PROVE ShownNext(o, id)
  <2>1. rpc' = rpc
    BY <1>6 DEF Deliver
  <2>2. CASE r # o
    BY <1>0, <1>4, <1>6, <2>1, <2>2 DEF Deliver, ReaderGoes, Types, Shown, ShownNext, Cancelled
  <2>3. CASE r = o /\ Cancelled(o)
    BY <2>1, <2>3 DEF Shown, ShownNext, Cancelled
  <2>4. CASE /\ r = o /\ reader[o].packet.typ = "message"
             /\ got' = [got EXCEPT ![o] = Append(@, reader[o].packet.id)]
    <3>1. got'[o] = Append(got[o], reader[o].packet.id)
      BY <1>0, <2>4 DEF Types
    <3>2. Range(got[o]) \cup {reader[o].packet.id} \subseteq Range(got'[o])
      BY SMTT(30), <1>0, <3>1 DEF Range
    <3>3. reader[o].packet = Packet("message", id, 0) => reader[o].packet.id = id
      BY DEF Packet
    <3> QED
      BY <2>1, <3>2, <3>3 DEF Shown, ShownNext, Cancelled
  <2>5. CASE r = o /\ reader[o].packet.typ = "ack" /\ got' = got
    <3>1. reader[o].packet # Packet("message", id, 0)
      BY <2>5 DEF Packet
    <3> QED
      BY <2>1, <2>5, <3>1 DEF Shown, ShownNext, Cancelled
  <2> QED
    BY <1>6, <2>2, <2>3, <2>4, <2>5 DEF Deliver
<1>7. ASSUME UNCHANGED talk PROVE ShownNext(o, id)
  BY <1>1, <1>7 DEF talk
<1> QED
  BY <1>2, <1>3, <1>5, <1>6, <1>7 DEF Talk, Main, Reader

LEMMA AckInit == ASSUME Open, NEW s \in Sides, NEW o \in Sides PROVE AckInv(s, o)
  BY DEF Open, AckInv

LEMMA AckNext ==
    ASSUME Base, Base', [Talk]_talk, NEW s \in Sides, NEW o \in Sides, o = Other(s),
           AckInv(s, o)
    PROVE  AckInv(s, o)'
<1>0. /\ o # s /\ s = Other(o) /\ \A r \in Sides : r # s => r = o
      /\ Types /\ wire[o] \in Seq(Packets) /\ Len(wire[o]) \in Nat
  <2>1. Types /\ wire[o] \in Seq(Packets)
    BY DEF Base, Types
  <2>2. Len(wire[o]) \in Nat
    BY <2>1
  <2> QED
    BY <2>1, <2>2, OtherSide
<1> DEFINE w == wire[o]
           OnTheWay == \A i \in 1..Len(wire'[o]) :
                         wire'[o][i].typ = "ack" => ShownNext(o, wire'[o][i].id)
           AtReader == reader'[s].pc = "deliver" /\ reader'[s].packet.typ = "ack"
                         => ShownNext(o, reader'[s].packet.id)
<1>1. \A id : Shown(o, id) => ShownNext(o, id)
  BY ShownKept
<1>2. wire'[o] = w => OnTheWay
  BY <1>1 DEF AckInv
<1>3. ASSUME NEW e \in Packets, e.typ = "ack" => ShownNext(o, e.id), wire'[o] = Append(w, e)
      PROVE  OnTheWay
  <2>1. Len(wire'[o]) = Len(w) + 1 /\ wire'[o][Len(w) + 1] = e
        /\ \A i \in 1..Len(w) : wire'[o][i] = w[i]
    BY <1>0, <1>3
  <2>2. ASSUME NEW i \in 1..Len(wire'[o]), i # Len(w) + 1 PROVE i \in 1..Len(w)
    BY <1>0, <2>1, <2>2
  <2> QED
    BY <1>1, <1>3, <2>1, <2>2 DEF AckInv
<1>4. ASSUME NEW k \in 0..Len(w), wire'[o] = SubSeq(w, 1, k) PROVE OnTheWay
  <2>1. Len(wire'[o]) = k /\ \A i \in 1..k : wire'[o][i] = w[i] /\ i \in 1..Len(w)
    BY <1>0, <1>4
  <2> QED
    BY <1>1, <2>1 DEF AckInv
<1>5. w # <<>> /\ wire'[o] = Tail(w) => OnTheWay
  <2> SUFFICES ASSUME w # <<>>, wire'[o] = Tail(w) PROVE OnTheWay
    OBVIOUS
  <2>1. Len(w) \in Nat \ {0} /\ Len(wire'[o]) = Len(w) - 1
        /\ \A i \in 1..Len(wire'[o]) : wire'[o][i] = w[i + 1]
    BY <1>0, TailFacts
  <2>2. \A i \in 1..Len(wire'[o]) : i + 1 \in 1..Len(w)
    BY <2>1
  <2> QED
    BY <1>1, <2>1, <2>2 DEF AckInv
<1>6. reader'[s] = reader[s] => AtReader
  BY <1>1 DEF AckInv
<1>7. acked'[s] = acked[s] /\ OnTheWay /\ AtReader => AckInv(s, o)'
  BY <1>1 DEF AckInv, Shown, ShownNext, Cancelled
<1> HIDE DEF OnTheWay, AtReader
<1>8. CASE Input(s) \/ Write(s) \/ ClientExits(s) \/ RPCEnds(s) \/ \E k \in Closers : Goodbye(s, k)
  <2>1. acked' = acked /\ reader' = reader
    BY <1>8 DEF Input, Write, ClientExits, RPCEnds, Goodbye, SayClosed, SendClosed, HangUp
  <2>2. wire'[o] = w
    BY <1>0, <1>8 DEF Input, Write, ClientExits, RPCEnds, Goodbye, SayClosed, SendClosed, HangUp,
       Send, Cut, Types
  <2> QED
    BY <1>2, <1>6, <1>7, <2>1, <2>2
<1>9. CASE ReadPacket(s)
  <2>1. acked' = acked /\ w # <<>> /\ wire'[o] = Tail(w) /\ Head(w) \in Packets /\ Head(w) = w[1]
        /\ Len(w) \in Nat \ {0}
    BY <1>0, <1>9, ReadStep, TailFacts
  <2>2. AtReader
    <3>1. Head(w).id \in Nat /\ count[s].out \in Nat
      BY <1>0, <2>1 DEF Packets, Types
    <3>2. CASE ReadAck(s)
      <4>1. reader'[s].packet = w[1] /\ w[1].typ = "ack"
        BY <1>0, <2>1, <3>2, GoesStep DEF ReadAck, ReaderPCs
      <4>2. Shown(o, w[1].id)
        BY <2>1, <4>1 DEF AckInv
      <4> QED
        BY <1>1, <4>1, <4>2 DEF AtReader
    <3>3. CASE ReadMessage(s)
      <4>1. Packet("ack", Head(w).id, count[s].out) \in Packets
        BY <3>1, PacketType
      <4>2. reader'[s].pc = "ack"
        BY <1>0, <3>3, <4>1, GoesStep DEF ReadMessage, ReaderPCs
      <4> QED
        BY <4>2 DEF AtReader
    <3>4. CASE ReadLost(s) \/ ReadClosed(s)
      <4>1. reader'[s].pc \in {"lost", "ended"}
        BY <1>0, <3>4, PacketType, GoesStep DEF ReadLost, ReadClosed, ReaderPCs
      <4> QED
        BY <4>1 DEF AtReader
    <3> QED
      BY <1>0, <1>9, <3>2, <3>3, <3>4, ReadStep
  <2> QED
    BY <1>5, <1>7, <2>1, <2>2
<1>10. CASE WriteAck(s)
  <2>1. reader[s].packet.id \in Nat /\ acked' = acked
    BY <1>0, <1>10 DEF WriteAck, Types, Packets
  <2>2. wire'[o] = w
    BY <1>0, <1>10 DEF WriteAck, Send, Types
  <2>3. AtReader
    <3>1. Packet("message", reader[s].packet.id, 0) \in Packets
      BY <2>1, PacketType
    <3>2. \/ reader'[s].pc = "deliver" /\ reader'[s].packet = Packet("message", reader[s].packet.id, 0)
          \/ reader'[s].pc = "ended"
      BY <1>0, <1>10, <3>1, PacketType, GoesStep DEF WriteAck, ReaderPCs
    <3> QED
      BY <3>2 DEF AtReader, Packet
  <2> QED
    BY <1>2, <1>7, <2>1, <2>2, <2>3
<1>11. CASE Deliver(s) \/ ReaderEnds(s)
  <2>1. wire' = wire /\ reader'[s].pc \in {"read", "ended"}
    BY <1>0, <1>11, PacketType, GoesStep DEF Deliver, ReaderEnds, ReaderPCs
  <2>2. AtReader
    BY <2>1 DEF AtReader
  <2>3. CASE acked' = acked
    BY <1>2, <1>7, <2>1, <2>2, <2>3
  <2>4. CASE /\ reader[s].pc = "deliver" /\ reader[s].packet.typ = "ack"
             /\ acked' = [acked EXCEPT ![s] = @ \cup {reader[s].packet.id}]
    <3>1. acked'[s] = acked[s] \cup {reader[s].packet.id}
      BY <1>0, <2>4 DEF Types
    <3>2. \A id \in acked'[s] : ShownNext(o, id)
      BY <1>1, <2>4, <3>1 DEF AckInv
    <3> QED
      BY <1>2, <2>1, <2>2, <3>2 DEF AckInv, OnTheWay, AtReader, Shown, ShownNext, Cancelled
  <2> QED
    BY <1>11, <2>3, <2>4 DEF Deliver, ReaderEnds, ReaderAt
<1>12. CASE Input(o) \/ ClientExits(o) \/ RPCEnds(o)
  BY <1>2, <1>6, <1>7, <1>12 DEF Input, ClientExits, RPCEnds
<1>13. CASE Write(o)
  <2>1. /\ acked' = acked /\ reader' = reader /\ main[o] \in Packets
        /\ main[o].typ = "message"
    BY <1>0, <1>13 DEF Write, Types, Base, Once
  <2>2. wire'[o] = w \/ wire'[o] = Append(w, main[o])
    BY <1>0, <1>13, <2>1, SendStep DEF Write
  <2>3. OnTheWay
    BY <1>2, <1>3, <2>1, <2>2
  <2> QED
    BY <1>6, <1>7, <2>1, <2>3
<1>14. ASSUME NEW k \in Closers, Goodbye(o, k) PROVE AckInv(s, o)'
  <2>1. acked' = acked /\ reader' = reader
    BY <1>14 DEF Goodbye, SayClosed, SendClosed, HangUp
  <2> DEFINE e == Packet("closed", 0, bye[o][k].nonce)
  <2>2. e \in Packets /\ e.typ # "ack"
    <3>1. bye[o][k].nonce \in Nat
      BY <1>0 DEF Types
    <3> QED
      BY <3>1, PacketType DEF Packet
  <2>3. \/ wire'[o] = w \/ wire'[o] = Append(w, e)
        \/ \E m \in 0..Len(w) : wire'[o] = SubSeq(w, 1, m)
    BY <1>0, <1>14, <2>2, SendStep, CutStep DEF Goodbye, SayClosed, SendClosed, HangUp
  <2> HIDE DEF e
  <2>4. OnTheWay
    BY <1>2, <1>3, <1>4, <2>2, <2>3
  <2> QED
    BY <1>6, <1>7, <2>1, <2>4
<1>15. CASE ReadPacket(o)
  <2>1. acked' = acked /\ wire'[o] = w
    BY <1>0, <1>15, ReadStep
  <2>2. ASSUME NEW pc, NEW p, ReaderGoes(o, pc, p) PROVE reader'[s] = reader[s]
    BY <1>0, <2>2 DEF ReaderGoes, Types
  <2>3. reader'[s] = reader[s]
    BY <1>0, <1>15, <2>2, ReadStep DEF ReadLost, ReadMessage, ReadAck, ReadClosed
  <2> QED
    BY <1>2, <1>6, <1>7, <2>1, <2>3
<1>16. CASE WriteAck(o)
  <2>1. /\ acked' = acked /\ reader[o].packet \in Packets /\ reader[o].packet.id \in Nat
        /\ reader'[s] = reader[s]
    BY <1>0, <1>16 DEF WriteAck, ReaderGoes, Types, Packets
  <2>2. CASE wire' = wire
    BY <1>2, <1>6, <1>7, <2>1, <2>2
  <2>3. CASE /\ Send(o, reader[o].packet)
             /\ ReaderGoes(o, "deliver", Packet("message", reader[o].packet.id, 0))
    <3>1. wire'[o] = Append(w, reader[o].packet)
      BY <1>0, <2>1, <2>3, SendStep
    <3>2. Packet("message", reader[o].packet.id, 0) \in Packets
      BY <2>1, PacketType
    <3>3. reader'[o].pc = "deliver" /\ reader'[o].packet = Packet("message", reader[o].packet.id, 0)
      BY <1>0, <2>3, <3>2, GoesStep DEF ReaderPCs
    <3>4. ShownNext(o, reader[o].packet.id)
      BY <3>3 DEF ShownNext
    <3> QED
      BY <1>3, <1>6, <1>7, <2>1, <3>1, <3>4
  <2> QED
    BY <1>16, <2>2, <2>3 DEF WriteAck
<1>17. CASE Deliver(o) \/ ReaderEnds(o)
  <2>1. wire' = wire /\ reader'[s] = reader[s] /\ acked'[s] = acked[s]
    BY <1>0, <1>17 DEF Deliver, ReaderEnds, ReaderGoes, Types
  <2> QED
    BY <1>2, <1>6, <1>7, <2>1
<1>18. CASE UNCHANGED talk
  BY <1>2, <1>6, <1>7, <1>18 DEF talk
<1> QED
  BY <1>0, <1>8, <1>9, <1>10, <1>11, <1>12, <1>13, <1>14, <1>15, <1>16, <1>17, <1>18
     DEF Talk, Main, Reader

-----------------------------------------------------------------------------
(* While one user types and nobody closes, ciphers agree. *)

LEMMA TypedStays == [Talk]_talk => typed' = typed
<1>1. ASSUME NEW r \in Sides, ReadPacket(r) PROVE typed' = typed
  BY <1>1 DEF ReadPacket
<1>2. ASSUME NEW r \in Sides, NEW k \in Closers, Goodbye(r, k) PROVE typed' = typed
  BY <1>2 DEF Goodbye, SayClosed, SendClosed, HangUp
<1>3. ASSUME NEW r \in Sides, Main(r) \/ ClientExits(r) PROVE typed' = typed
  BY <1>3 DEF Main, Input, Write, RPCEnds, ClientExits
<1>4. ASSUME NEW r \in Sides, WriteAck(r) \/ Deliver(r) \/ ReaderEnds(r) PROVE typed' = typed
  BY <1>4 DEF WriteAck, Deliver, ReaderEnds
<1> QED
  BY <1>1, <1>2, <1>3, <1>4 DEF Talk, talk, Reader

LEMMA CalmBefore == Base /\ [Talk]_talk /\ Calm' => Calm
<1> SUFFICES ASSUME Base, [Talk]_talk, NEW s \in Sides, NEW k \in Closers, bye[s][k].pc # "none"
             PROVE  bye'[s][k].pc # "none"
  <2>1. [Talk]_talk => typed' = typed
    BY TypedStays
  <2> QED
    BY <2>1 DEF Calm, Closing
<1>0. bye \in [Sides -> [Closers -> [pc : ByePCs, nonce : Nat]]]
  BY DEF Base, Types
<1>1. ASSUME NEW r \in Sides, NEW j \in Closers, Close(r, j) PROVE bye'[s][k].pc # "none"
  BY <1>1, CloseStep DEF Base
<1>2. ASSUME UNCHANGED bye PROVE bye'[s][k].pc # "none"
  BY <1>2
<1>3. ASSUME NEW r \in Sides, NEW j \in Closers, Goodbye(r, j) PROVE bye'[s][k].pc # "none"
  <2>1. CASE SayClosed(r, j)
    <3>1. bye' = [bye EXCEPT ![r][j] = [pc |-> "send", nonce |-> count[r].out]]
      BY <2>1 DEF SayClosed
    <3>2. bye'[s][k] = bye[s][k] \/ bye'[s][k] = [pc |-> "send", nonce |-> count[r].out]
      BY <1>0, <3>1
    <3> QED
      BY <3>2
  <2>2. CASE SendClosed(r, j)
    <3>1. bye' = [bye EXCEPT ![r][j] = [pc |-> "wait", nonce |-> 0]]
      BY <2>2 DEF SendClosed
    <3>2. bye'[s][k] = bye[s][k] \/ bye'[s][k] = [pc |-> "wait", nonce |-> 0]
      BY <1>0, <3>1
    <3> QED
      BY <3>2
  <2>3. CASE HangUp(r, j)
    <3>1. bye' = [bye EXCEPT ![r] = [bye[r] EXCEPT ![j] = [bye[r][j] EXCEPT !.pc = "hung"]]]
      BY <2>3 DEF HangUp
    <3>2. bye[r] \in [Closers -> [pc : ByePCs, nonce : Nat]]
          /\ bye[r][j] \in [pc : ByePCs, nonce : Nat]
      BY <1>0
    <3> DEFINE one == [bye[r][j] EXCEPT !.pc = "hung"]
               all == [bye[r] EXCEPT ![j] = one]
    <3>3. one.pc = "hung"
      BY <3>2
    <3>4. \A i \in Closers : all[i] = bye[r][i] \/ all[i] = one
      BY <3>2
    <3>5. bye'[s] = bye[s] \/ (s = r /\ bye'[s] = all)
      BY <1>0, <3>1
    <3> HIDE DEF one, all
    <3> QED
      BY <3>3, <3>4, <3>5
  <2> QED
    BY <1>3, <2>1, <2>2, <2>3 DEF Goodbye
<1>4. "rpc" \in Closers /\ "reader" \in Closers
  BY DEF Closers
<1>5. ASSUME NEW r \in Sides, ReadPacket(r) PROVE bye'[s][k].pc # "none"
  BY <1>1, <1>2, <1>4, <1>5, ReadStep DEF Base, ReadLost, ReadMessage, ReadAck, ReadClosed
<1> QED
  BY <1>1, <1>2, <1>3, <1>4, <1>5
     DEF Talk, talk, Main, Reader, Input, Write, RPCEnds, ClientExits, WriteAck, Deliver, ReaderEnds

LEMMA StepInit == ASSUME Open, NEW s \in Sides, NEW o \in Sides PROVE StepInv(s, o)
<1>1. /\ wire[s] = <<>> /\ count[s].out = 0 /\ count[o].in = 0 /\ main[s].id = 0
      /\ reader[s].pc = "read" /\ reader[o].pc = "read"
  BY PacketType DEF Open
<1> QED
  BY <1>1 DEF StepInv, Pending

\* A packet that is read was the next.
LEMMA StepTail ==
    ASSUME NEW w \in Seq(Packets), w # <<>>, NEW n \in Nat,
           \A i \in 1..Len(w) : w[i].nonce = n + i - 1
    PROVE  /\ Head(w).nonce = n /\ Len(w) \in Nat /\ n + Len(w) = (n + 1) + Len(Tail(w))
           /\ \A i \in 1..Len(Tail(w)) : Tail(w)[i].nonce = (n + 1) + i - 1
           /\ Head(w) = w[1] /\ 1 \in 1..Len(w)
           /\ \A i \in 1..Len(Tail(w)) : i + 1 \in 1..Len(w) /\ Tail(w)[i] = w[i + 1]
<1> DEFINE v == Tail(w)
<1>1. /\ Len(w) \in Nat \ {0} /\ Len(v) = Len(w) - 1
      /\ Head(w) = w[1] /\ \A i \in 1..Len(v) : v[i] = w[i + 1]
  BY TailFacts
<1> HIDE DEF v
<1>2. \A i \in 1..Len(v) : i + 1 \in 1..Len(w)
  BY <1>1
<1>3. Head(w).nonce = n
  BY <1>1
<1>4. \A i \in 1..Len(v) : v[i].nonce = (n + 1) + i - 1
  <2> SUFFICES ASSUME NEW i \in 1..Len(v) PROVE v[i].nonce = (n + 1) + i - 1
    OBVIOUS
  <2>1. v[i] = w[i + 1] /\ i + 1 \in 1..Len(w)
    BY <1>1, <1>2
  <2>2. w[i + 1].nonce = n + (i + 1) - 1
    BY <2>1
  <2>3. i \in Int
    OBVIOUS
  <2> QED
    BY <2>1, <2>2, <2>3
<1> QED
  BY <1>1, <1>2, <1>3, <1>4 DEF v

LEMMA StepAppend ==
    ASSUME NEW w \in Seq(Packets), NEW n \in Nat, NEW e \in Packets, e.nonce = n + Len(w),
           \A i \in 1..Len(w) : w[i].nonce = n + i - 1
    PROVE  /\ Len(w) \in Nat /\ Len(Append(w, e)) = Len(w) + 1
           /\ \A i \in 1..Len(Append(w, e)) : Append(w, e)[i].nonce = n + i - 1
           /\ \A i \in 1..Len(Append(w, e)) : Append(w, e)[i] = e \/ \E j \in 1..Len(w) : Append(w, e)[i] = w[j]
<1> DEFINE v == Append(w, e)
<1>1. /\ Len(v) = Len(w) + 1 /\ Len(w) \in Nat /\ v[Len(w) + 1] = e
      /\ \A i \in 1..Len(w) : v[i] = w[i]
  OBVIOUS
<1> HIDE DEF v
<1>2. \A i \in 1..Len(v) : i \in 1..Len(w) \/ i = Len(w) + 1
  BY <1>1
<1> QED
  BY <1>1, <1>2 DEF v

LEMMA StepNext ==
    ASSUME Base, Base', [Talk]_talk, Calm', NEW s \in Sides, NEW o \in Sides, o = Other(s),
           StepInv(s, o), StepInv(o, s)
    PROVE  StepInv(s, o)'
<1>0. /\ o # s /\ s = Other(o) /\ \A r \in Sides : r # s => r = o
      /\ Types /\ Calm /\ wire[s] \in Seq(Packets) /\ wire[o] \in Seq(Packets)
      /\ count[s].out \in Nat /\ count[o].in \in Nat /\ count[s].in \in Nat
  BY OtherSide, CalmBefore DEF Base, Types
<1>00. Len(wire[s]) \in Nat
  BY <1>0
<1> DEFINE n == count[o].in
           w == wire[s]
\* Only one of them types.
<1>1. /\ typed[s] = 0 \/ typed[o] = 0
      /\ typed[s] \in Nat /\ sent[s] \in Nat /\ sent[s] <= typed[s]
      /\ main[s].id \in Nat /\ (main[s].id # 0 => main[s].id = sent[s])
      /\ typed[s] = 0 => main[s].id = 0
  <2>1. main[s] \in Packets /\ typed[s] \in Nat /\ sent[s] \in Nat /\ sent[s] <= typed[s]
        /\ (main[s].id # 0 => main[s].id = sent[s])
    BY DEF Base, Types, Once
  <2>2. typed[s] = 0 \/ typed[o] = 0
    BY <1>0 DEF Calm
  <2> QED
    BY <2>1, <2>2 DEF Packets
<1>2. /\ reader[s].pc = "ack" => typed[s] = 0 /\ main[s].id = 0
      /\ (\E i \in 1..Len(wire[o]) : wire[o][i].typ = "message") => typed[s] = 0
  BY <1>1 DEF StepInv
<1>3. typed' = typed
  BY TypedStays
<1>4. ~ \E r \in Sides, k \in Closers : Close(r, k)
  BY <1>0, CloseStep DEF Calm, Closing
<1>5. ASSUME NEW r \in Sides, NEW k \in Closers, Goodbye(r, k) PROVE FALSE
  BY <1>0, <1>5 DEF Goodbye, SayClosed, SendClosed, HangUp, Saying, Calm, Closing
<1>6. "rpc" \in Closers /\ "reader" \in Closers
  BY DEF Closers
\* Steps of s.
<1>7. CASE Input(s)
  <2>1. /\ main'[s].id = sent[s] + 1 /\ main'[s].nonce = count[s].out /\ main[s].id = 0
        /\ sent[s] < typed[s] /\ wire' = wire /\ reader' = reader
    BY <1>0, <1>7 DEF Input, Packet, Types
  <2>2. count'[s].out = count[s].out + 1 /\ count'[o] = count[o]
    BY <1>0, <1>7, EncryptStep DEF Input
  <2>3. ~Pending(s) /\ count[s].out = n + Len(w)
    BY <1>1, <1>2, <2>1 DEF StepInv, Pending
  <2>4. Pending(s)' /\ typed[s] > 0
    BY <1>1, <2>1 DEF Pending
  <2> QED
    BY <1>0, <1>00, <1>3, <2>1, <2>2, <2>3, <2>4, <1>1, <1>2 DEF StepInv
<1>8. CASE Write(s)
  <2>1. /\ Send(s, main[s]) /\ main[s].id # 0 /\ main'[s].id = 0 /\ main[s] \in Packets
        /\ reader' = reader /\ count' = count
    BY <1>0, <1>4, <1>6, <1>8, PacketType DEF Write, Types
  <2>2. wire'[s] = Append(w, main[s])
    BY <1>0, <2>1, SendStep
  <2>3. main[s].nonce = n + Len(w) /\ count[s].out = n + Len(w) + 1 /\ typed[s] # 0
        /\ reader[s].pc # "ack"
    BY <1>1, <1>2, <2>1 DEF StepInv, Pending
  <2>4. /\ Len(wire'[s]) = Len(w) + 1
        /\ \A i \in 1..Len(wire'[s]) : wire'[s][i].nonce = n + i - 1
    BY SMTT(30), <1>0, <2>1, <2>2, <2>3, StepAppend DEF StepInv
  <2>5. ~Pending(s)'
    BY <2>1, <2>3 DEF Pending
  <2> QED
    <3>1. /\ reader'[s].pc # "lost" /\ reader'[s].pc # "ack" /\ main'[s].id = 0
          /\ typed'[s] # 0
      BY <1>3, <2>1, <2>3 DEF StepInv
    <3>2. /\ count'[o].in = n /\ count'[s].out = n + Len(wire'[s])
      <4>1. count' = count /\ count[s].out = n + Len(w) + 1 /\ n \in Nat /\ Len(w) \in Nat
        BY <1>0, <1>00, <2>1, <2>3
      <4>2. Len(wire'[s]) = Len(w) + 1
        BY <2>4
      <4> HIDE DEF w
      <4> QED
        BY <4>1, <4>2
    <3>3. \A i \in 1..Len(wire'[s]) : wire'[s][i].nonce = count'[o].in + i - 1
      BY <2>4, <3>2
    <3> QED
      BY <2>5, <3>1, <3>2, <3>3 DEF StepInv
<1>9. CASE ClientExits(s)
  BY <1>9 DEF ClientExits, StepInv, Pending
<1>10. ASSUME NEW r \in Sides, RPCEnds(r) PROVE FALSE
  BY <1>4, <1>6, <1>10 DEF RPCEnds
<1>11. CASE ReadPacket(s)
  <2> DEFINE p == Head(wire[o])
  <2>1. /\ reader[s].pc = "read" /\ wire[o] # <<>> /\ p \in Packets /\ wire'[s] = w
        /\ main' = main
        /\ ReadLost(s) \/ ReadMessage(s) \/ ReadAck(s) \/ ReadClosed(s)
    BY <1>0, <1>11, ReadStep
  <2>2. p.nonce = count[s].in /\ p = wire[o][1] /\ 1 \in 1..Len(wire[o])
    BY <1>0, <2>1, StepTail DEF StepInv
  <2>3. ASSUME NEW pc, NEW q, ReaderGoes(s, pc, q) PROVE reader'[o] = reader[o]
    BY <1>0, <2>3 DEF ReaderGoes, Types
  <2>4. CASE ReadLost(s) \/ ReadClosed(s)
    BY <1>0, <1>4, <1>6, <2>2, <2>4 DEF ReadLost, ReadClosed
  <2>5. CASE ReadMessage(s)
    <3> DEFINE a == Packet("ack", p.id, count[s].out)
    <3>1. a \in Packets /\ a.nonce = count[s].out
      BY <1>0, <2>1, PacketType DEF Packets, Packet
    <3>2. reader'[s].pc = "ack" /\ reader'[s].packet = a /\ reader'[o] = reader[o]
      BY <1>0, <2>3, <2>5, <3>1, GoesStep DEF ReadMessage, ReaderPCs
    <3>3. count'[s].out = count[s].out + 1 /\ count'[o] = count[o]
      BY <1>0, <2>5, CountBothStep DEF ReadMessage
    <3>4. typed[s] = 0 /\ main[s].id = 0
      BY <1>0, <1>1, <1>2, <2>2, <2>5 DEF ReadMessage
    <3>5. ~Pending(s) /\ Pending(s)'
      BY <2>1, <3>2, <3>4 DEF Pending
    <3>6. count[s].out = n + Len(w)
      BY <2>1, <3>5 DEF StepInv
    <3> HIDE DEF a
    <3> QED
      BY <1>00, <1>0, <1>3, <2>1, <3>1, <3>2, <3>3, <3>4, <3>5, <3>6 DEF StepInv
  <2>6. CASE ReadAck(s)
    <3>1. reader'[s].pc = "deliver" /\ reader'[o] = reader[o]
      BY <1>0, <2>1, <2>3, <2>6, GoesStep DEF ReadAck, ReaderPCs
    <3>2. count'[s].out = count[s].out /\ count'[o] = count[o]
      BY <1>0, <2>6, CountStep DEF ReadAck
    <3>3. Pending(s)' = Pending(s)
      BY <2>1, <3>1 DEF Pending
    <3> QED
      BY <1>3, <2>1, <3>1, <3>2, <3>3 DEF StepInv
  <2> QED
    BY <2>1, <2>4, <2>5, <2>6
<1>12. CASE WriteAck(s)
  <2>1. /\ reader[s].pc = "ack" /\ reader[s].packet \in Packets /\ reader[s].packet.id \in Nat
        /\ reader[s].packet.typ = "ack" /\ main' = main /\ count' = count
        /\ reader'[o] = reader[o]
    BY ZenonT(30), <1>0, <1>12 DEF WriteAck, ReaderAt, ReaderGoes, Types, Packets, Base, Once
  <2>2. typed[s] = 0 /\ main[s].id = 0 /\ reader[s].packet.nonce = n + Len(w)
        /\ count[s].out = n + Len(w) + 1
    BY <1>1, <1>2, <2>1 DEF StepInv, Pending
  <2>3. CASE /\ Send(s, reader[s].packet)
             /\ ReaderGoes(s, "deliver", Packet("message", reader[s].packet.id, 0))
    <3>1. wire'[s] = Append(w, reader[s].packet)
      BY <1>0, <2>1, <2>3, SendStep
    <3>2. Packet("message", reader[s].packet.id, 0) \in Packets
      BY <2>1, PacketType
    <3>3. reader'[s].pc = "deliver"
      BY <1>0, <2>3, <3>2, GoesStep DEF ReaderPCs
    <3>4. /\ Len(wire'[s]) = Len(w) + 1
          /\ \A i \in 1..Len(wire'[s]) : wire'[s][i].nonce = n + i - 1
          /\ \A i \in 1..Len(wire'[s]) :
               wire'[s][i] = reader[s].packet \/ \E j \in 1..Len(w) : wire'[s][i] = w[j]
      <4> DEFINE e == reader[s].packet
      <4>1. e \in Packets /\ e.nonce = n + Len(w) /\ wire'[s] = Append(w, e)
        BY <2>1, <2>2, <3>1
      <4>2. w \in Seq(Packets) /\ n \in Nat /\ \A i \in 1..Len(w) : w[i].nonce = n + i - 1
        BY <1>0 DEF StepInv
      <4> HIDE DEF e, n, w
      <4>3. /\ Len(Append(w, e)) = Len(w) + 1
            /\ \A i \in 1..Len(Append(w, e)) : Append(w, e)[i].nonce = n + i - 1
            /\ \A i \in 1..Len(Append(w, e)) :
                 Append(w, e)[i] = e \/ \E j \in 1..Len(w) : Append(w, e)[i] = w[j]
        BY <4>1, <4>2, StepAppend
      <4>4. /\ Len(wire'[s]) = Len(w) + 1
            /\ \A i \in 1..Len(wire'[s]) : wire'[s][i].nonce = n + i - 1
            /\ \A i \in 1..Len(wire'[s]) : wire'[s][i] = e \/ \E j \in 1..Len(w) : wire'[s][i] = w[j]
        BY <4>1, <4>3, Zenon
      <4> QED
        BY <4>4 DEF e
    <3>5. ~Pending(s)'
      BY <2>1, <2>2, <3>3 DEF Pending
    <3>6. \A i \in 1..Len(wire'[s]) : wire'[s][i].typ # "message"
      BY <2>1, <2>2, <3>4 DEF StepInv
    <3> QED
      <4>1. /\ reader'[s].pc # "lost" /\ reader'[s].pc # "ack" /\ main'[s].id = 0
            /\ reader'[o].pc # "ack"
        BY <1>0, <2>1, <2>2, <3>3 DEF StepInv
      <4>2. /\ count'[o].in = n /\ count'[s].out = n + Len(wire'[s])
        <5>1. count' = count /\ count[s].out = n + Len(w) + 1 /\ n \in Nat /\ Len(w) \in Nat
          BY <1>0, <1>00, <2>1, <2>2
        <5>2. Len(wire'[s]) = Len(w) + 1
          BY <3>4
        <5> HIDE DEF w
        <5> QED
          BY <5>1, <5>2
      <4>3. \A i \in 1..Len(wire'[s]) : wire'[s][i].nonce = count'[o].in + i - 1
        BY <3>4, <4>2
      <4> QED
        BY <3>5, <3>6, <4>1, <4>2, <4>3 DEF StepInv
  <2>4. CASE ReaderGoes(s, "ended", NoPacket) /\ UNCHANGED wire
    <3>1. reader'[s].pc = "ended"
      BY <1>0, <2>4, PacketType, GoesStep DEF ReaderPCs
    <3>2. ~Pending(s)'
      BY <2>1, <2>2, <3>1 DEF Pending
    <3> QED
      BY <1>3, <2>1, <2>2, <2>4, <3>1, <3>2 DEF StepInv
  <2> QED
    BY <1>12, <2>3, <2>4 DEF WriteAck
<1>13. CASE Deliver(s) \/ ReaderEnds(s)
  <2>1. /\ UNCHANGED <<typed, main, count, wire>> /\ reader'[o] = reader[o]
        /\ reader[s].pc \in {"deliver", "read"}
    BY <1>0, <1>13 DEF Deliver, ReaderEnds, ReaderAt, ReaderGoes, Types
  <2>2. reader'[s].pc \in {"read", "ended"}
    BY <1>0, <1>13, PacketType, GoesStep DEF Deliver, ReaderEnds, ReaderPCs
  <2>3. Pending(s)' = Pending(s)
    BY <2>1, <2>2 DEF Pending
  <2> QED
    BY <2>1, <2>2, <2>3 DEF StepInv
\* Steps of o.
<1>14. CASE Input(o) \/ Write(o) \/ ClientExits(o)
  <2>1. /\ reader' = reader /\ main'[s] = main[s] /\ wire'[s] = wire[s]
    BY <1>0, <1>14 DEF Input, Write, ClientExits, Send, Types
  <2>2. count'[s] = count[s] /\ count'[o].in = count[o].in
    BY <1>0, <1>14, EncryptStep DEF Input, Write, ClientExits
  <2>3. Pending(s)' = Pending(s)
    BY <2>1 DEF Pending
  <2> QED
    BY <1>3, <2>1, <2>2, <2>3 DEF StepInv
<1>15. CASE ReadPacket(o)
  <2> DEFINE p == Head(w)
  <2>1. /\ reader[o].pc = "read" /\ w # <<>> /\ p \in Packets /\ wire'[s] = Tail(w)
        /\ main' = main
        /\ ReadLost(o) \/ ReadMessage(o) \/ ReadAck(o) \/ ReadClosed(o)
    BY <1>0, <1>15, ReadStep
  <2>2. /\ p.nonce = n /\ n + Len(w) = (n + 1) + Len(Tail(w))
        /\ \A i \in 1..Len(Tail(w)) : Tail(w)[i].nonce = (n + 1) + i - 1
        /\ p = w[1] /\ 1 \in 1..Len(w)
        /\ \A i \in 1..Len(Tail(w)) : i + 1 \in 1..Len(w) /\ Tail(w)[i] = w[i + 1]
    BY <1>0, <2>1, StepTail DEF StepInv
  <2>3. ReadMessage(o) \/ ReadAck(o)
    BY <1>0, <1>4, <1>6, <2>1, <2>2 DEF ReadLost, ReadClosed
  <2>4. reader'[s] = reader[s]
    <3>1. ASSUME NEW pc, NEW q, ReaderGoes(o, pc, q) PROVE reader'[s] = reader[s]
      BY <1>0, <3>1 DEF ReaderGoes, Types
    <3> QED
      BY <2>3, <3>1 DEF ReadMessage, ReadAck
  <2>5. count'[o].in = n + 1 /\ count'[s] = count[s]
    BY <1>0, <2>3, CountStep, CountBothStep DEF ReadMessage, ReadAck
  <2>6. typed[s] = 0 => reader'[o].pc # "ack"
    <3>1. CASE ReadMessage(o)
      BY <1>0, <2>2, <3>1 DEF ReadMessage, StepInv
    <3>2. CASE ReadAck(o)
      BY <1>0, <2>1, <3>2, GoesStep DEF ReadAck, ReaderPCs
    <3> QED
      BY <2>3, <3>1, <3>2
  <2>7. Pending(s)' = Pending(s)
    BY <2>1, <2>4 DEF Pending
  <2>8. typed[s] = 0 => \A i \in 1..Len(Tail(w)) : Tail(w)[i].typ # "message"
    BY <2>2 DEF StepInv
  <2> QED
    BY <1>3, <2>1, <2>2, <2>4, <2>5, <2>6, <2>7, <2>8 DEF StepInv
<1>16. CASE WriteAck(o) \/ Deliver(o) \/ ReaderEnds(o)
  <2>1. /\ UNCHANGED <<main, count>> /\ wire'[s] = w /\ reader'[s] = reader[s]
    BY <1>0, <1>16 DEF WriteAck, Deliver, ReaderEnds, ReaderGoes, Send, Types
  <2>2. reader'[o].pc # "ack"
    <3>1. ASSUME NEW pc \in {"read", "deliver", "ended"}, NEW q, ReaderGoes(o, pc, q)
          PROVE  reader'[o].pc # "ack"
      BY <1>0, <3>1 DEF ReaderGoes, Types
    <3> QED
      BY <1>16, <3>1 DEF WriteAck, Deliver, ReaderEnds
  <2>3. Pending(s)' = Pending(s)
    BY <2>1 DEF Pending
  <2> QED
    BY <1>3, <2>1, <2>2, <2>3 DEF StepInv
<1>17. CASE UNCHANGED talk
  BY <1>17 DEF talk, StepInv, Pending
<1> QED
  BY <1>0, <1>5, <1>7, <1>8, <1>9, <1>10, <1>11, <1>12, <1>13, <1>14, <1>15, <1>16, <1>17
     DEF Talk, Main, Reader

-----------------------------------------------------------------------------
Inv == /\ Base
       /\ \A s \in Sides : OrderInv(s, Other(s)) /\ AckInv(s, Other(s))
       /\ Calm => \A s \in Sides : StepInv(s, Other(s))

LEMMA InvInit == Open => Inv
  BY BaseInit, OtherSide, OrderInit, AckInit, StepInit DEF Inv

LEMMA InvNext == Inv /\ [Talk]_talk => Inv'
<1> SUFFICES ASSUME Inv, [Talk]_talk PROVE Inv'
  OBVIOUS
<1>1. Base /\ Base'
  BY BaseNext DEF Inv
<1>2. ASSUME NEW s \in Sides PROVE OrderInv(s, Other(s))' /\ AckInv(s, Other(s))'
  <2>1. PICK o \in Sides : o = Other(s)
    BY OtherSide
  <2>2. OrderInv(s, o) /\ AckInv(s, o)
    BY <2>1 DEF Inv
  <2>3. OrderInv(s, o)' /\ AckInv(s, o)'
    BY <1>1, <2>1, <2>2, OrderNext, AckNext
  <2> QED
    BY <2>1, <2>3
<1>3. ASSUME Calm', NEW s \in Sides PROVE StepInv(s, Other(s))'
  <2>1. PICK o \in Sides : o = Other(s) /\ s = Other(o)
    BY OtherSide
  <2>2. StepInv(s, o) /\ StepInv(o, s)
    BY <1>1, <1>3, <2>1, CalmBefore DEF Inv
  <2>3. StepInv(s, o)'
    BY <1>1, <1>3, <2>1, <2>2, StepNext
  <2> QED
    BY <2>1, <2>3
<1> QED
  BY <1>1, <1>2, <1>3 DEF Inv

LEMMA InvAlways == TalkSpec => []Inv
  BY InvInit, InvNext, PTL DEF TalkSpec

\* What a user is shown is a beginning of what the other typed, in order, whatever
\* is cut off, cancelled or closed.
THEOREM InOrderCorrect == TalkSpec => []InOrder
<1>1. Inv => InOrder
  <2> SUFFICES ASSUME Inv, NEW o \in Sides PROVE \A i \in 1..Len(got[o]) : got[o][i] = i
    BY DEF InOrder
  <2>1. PICK s \in Sides : o = Other(s)
    BY OtherSide
  <2> QED
    BY <2>1 DEF Inv, OrderInv
<1> QED
  BY <1>1, InvAlways, PTL

\* A message is shown as acknowledged only if it was shown, or is about to be, to a
\* user who has not left.
THEOREM AckedWasReadCorrect == TalkSpec => []AckedWasRead
<1>1. Inv => AckedWasRead
  BY OtherSide DEF Inv, AckInv, Shown, AckedWasRead, ReaderAt
<1> QED
  BY <1>1, InvAlways, PTL

\* While only one user types and nobody closes, every packet decrypts.
THEOREM InStepCorrect == TalkSpec => []InStep
<1>1. Inv => InStep
  BY DEF Inv, Calm, StepInv, InStep, ReaderAt
<1> QED
  BY <1>1, InvAlways, PTL

-----------------------------------------------------------------------------
(* Offers of sessions that look for each other *)

Lives == [addr : Sessions \cup {None}, life : Nat]
Writers == [at : {"done", "set", "expire", "wait"}, wait : Nat]

\* What the proof needs of the types, and that who waits has just written: another
\* writer sets a new entry, and gives an entry of anyone's a whole life.
Expiring ==
  /\ disco \in [{"offer", "answer"} -> Lives]
  /\ writer \in [Sessions -> Writers]
  /\ \A s \in Sessions : Writing(s, "wait") => writer[s].wait <= OfferEvery
  /\ OfferStays

LEMMA Times == /\ OfferLife \in Nat /\ OfferEvery \in Nat /\ AnswerLife \in Nat
               /\ OfferEvery < OfferLife /\ Forever \in Nat /\ OfferEvery < Forever
  BY TimeAssumption DEF Forever

LEMMA ExpiringInit == Init => Expiring
  BY NoneAssumption DEF Init, Apart, NoEntry, Stopped, Lives, Writers, Writing, OfferStays, Expiring

\* Entries and writers after a step of a session: writers only stop.
LEMMA WriterStops ==
    ASSUME Expiring, disco' = disco \/ (\E typ \in {"offer", "answer"} : Delete(typ)),
           writer' \in [Sessions -> Writers],
           \A s \in Sessions : writer'[s] = writer[s] \/ writer'[s].at # "wait"
    PROVE  Expiring'
<1>1. disco' \in [{"offer", "answer"} -> Lives]
  BY DEF Expiring, Delete, NoEntry, Lives
<1>2. disco'["offer"] = disco["offer"] \/ disco'["offer"].addr = None
  BY DEF Expiring, Delete, NoEntry
<1>3. \A s \in Sessions : Writing(s, "wait")' => /\ Writing(s, "wait") /\ writer'[s] = writer[s]
  BY DEF Writing
<1>4. \A s \in Sessions : Writing(s, "wait")' => writer'[s].wait <= OfferEvery
  BY <1>3 DEF Expiring
<1>5. OfferStays'
  BY <1>2, <1>3, NoneAssumption DEF Expiring, OfferStays
<1> QED
  BY <1>1, <1>4, <1>5 DEF Expiring

LEMMA ExpiringNext == Expiring /\ [Next]_vars => Expiring'
<1> SUFFICES ASSUME Expiring, [Next]_vars PROVE Expiring'
  OBVIOUS
<1>0. /\ disco \in [{"offer", "answer"} -> Lives] /\ writer \in [Sessions -> Writers]
      /\ disco["offer"].addr \in Sessions \cup {None} /\ disco["offer"].life \in Nat
      /\ \A s \in Sessions : writer[s].wait \in Nat
  BY DEF Expiring, Lives, Writers
<1>1. \A s \in Sessions : [writer EXCEPT ![s].at = "set"] \in [Sessions -> Writers]
  BY <1>0 DEF Writers
<1>2. Stopped \in Writers /\ Stopped.at = "done"
  BY DEF Stopped, Writers
\* Steps that write no entry.
<1>3. ASSUME NEW s \in Sessions,
             \/ writer' = writer
             \/ \E w \in {Stopped, [writer[s] EXCEPT !.at = "set"]} : writer' = [writer EXCEPT ![s] = w],
             disco' = disco \/ (\E typ \in {"offer", "answer"} : Delete(typ))
      PROVE  Expiring'
  <2>1. [writer[s] EXCEPT !.at = "set"] \in Writers /\ [writer[s] EXCEPT !.at = "set"].at = "set"
    BY <1>0 DEF Writers
  <2>2. writer' \in [Sessions -> Writers]
        /\ \A r \in Sessions : writer'[r] = writer[r] \/ writer'[r].at # "wait"
    BY ZenonT(30), <1>0, <1>2, <1>3, <2>1
  <2> QED
    BY <1>3, <2>2, WriterStops
<1>4. ASSUME NEW s \in Sessions, Ended(s), UNCHANGED disco PROVE Expiring'
  BY <1>0, <1>3, <1>4 DEF Ended
<1>5. ASSUME NEW s \in Sessions, Begin(s) \/ Runs(s) \/ CloserRuns(s) \/ Fail(s) \/ GiveUp(s) \/ Crash(s)
             , ~WriteAnswer(s), ~ExpireAnswer(s)
      PROVE  Expiring'
  <2>1. CASE Timeout(s) \/ Fail(s)
    BY <1>4, <2>1 DEF Timeout, Fail
  <2>2. CASE GiveUp(s)
    BY <1>3, <1>4, <2>2 DEF GiveUp
  <2>3. CASE \/ Begin(s) \/ FindOffer(s) \/ TakeOffer(s) \/ CreateOffer(s) \/ ReadAnswer(s)
             \/ TakeAnswer(s) \/ Crash(s) \/ CloserRuns(s)
             \/ \E r \in Sessions : Handshake(s, r) \/ Associate(s, r)
    <3>1. \/ writer' = writer
          \/ writer' = [writer EXCEPT ![s] = Stopped]
          \/ writer' = [writer EXCEPT ![s].at = "set"]
          \/ writer' = [writer EXCEPT ![s] = writer[s]]
      BY <2>3 DEF Begin, FindOffer, TakeOffer, CreateOffer, ReadAnswer, TakeAnswer, Crash,
         CloserRuns, DeleteOffer, DeleteAnswer, Handshake, Associate
    <3>2. disco' = disco \/ (\E typ \in {"offer", "answer"} : Delete(typ))
      BY <2>3 DEF Begin, FindOffer, TakeOffer, CreateOffer, ReadAnswer, TakeAnswer, Crash,
         CloserRuns, DeleteOffer, DeleteAnswer, Handshake, Associate
    <3>3. writer' = [writer EXCEPT ![s] = writer[s]] => writer' = writer
      BY <1>0
    <3>4. writer' = [writer EXCEPT ![s].at = "set"] =>
            writer' = [writer EXCEPT ![s] = [writer[s] EXCEPT !.at = "set"]]
      BY <1>0
    <3> QED
      BY <1>3, <3>1, <3>2, <3>3, <3>4
  <2> QED
    BY <1>5, <2>1, <2>2, <2>3 DEF Runs
\* The answer's entry is another.
<1>6. ASSUME NEW s \in Sessions, WriteAnswer(s) \/ ExpireAnswer(s) PROVE Expiring'
  <2>1. disco' \in [{"offer", "answer"} -> Lives] /\ disco'["offer"] = disco["offer"]
    BY <1>0, <1>6, Times, TimeAssumption DEF WriteAnswer, ExpireAnswer, Set, Expire, Lives
  <2>2. writer' = writer
    BY <1>6 DEF WriteAnswer, ExpireAnswer
  <2> QED
    BY <2>1, <2>2 DEF Expiring, OfferStays, Writing
\* The offer is set: it stays, or is another's.
<1>7. ASSUME NEW s \in Sessions, WriteOffer(s) PROVE Expiring'
  <2>1. CASE Set("offer", s) /\ writer' = [writer EXCEPT ![s].at = "expire"]
    <3>1. disco' \in [{"offer", "answer"} -> Lives] /\ disco'["offer"].life = Forever
      BY <1>0, <2>1, Times DEF Set, Lives
    <3>2. writer' \in [Sessions -> Writers] /\ writer'[s].at = "expire"
          /\ \A r \in Sessions : r # s => writer'[r] = writer[r]
      BY <1>0, <2>1 DEF Writers
    <3>3. \A r \in Sessions : Writing(r, "wait")' => /\ writer'[r].wait <= OfferEvery
                                                    /\ writer'[r].wait \in Nat
      BY <1>0, <3>2 DEF Expiring, Writing
    <3>4. OfferStays'
      BY <3>1, <3>3, Times DEF OfferStays
    <3> QED
      BY <3>1, <3>2, <3>3, <3>4 DEF Expiring
  <2>2. CASE disco' = disco /\ writer' = [writer EXCEPT ![s] = Stopped]
    BY <1>3, <2>2
  <2> QED
    BY <1>7, <2>1, <2>2 DEF WriteOffer
<1>8. ASSUME NEW s \in Sessions, ExpireOffer(s) PROVE Expiring'
  <2>1. /\ disco' \in [{"offer", "answer"} -> Lives]
        /\ disco'["offer"].addr # None => disco'["offer"].life = OfferLife
    BY <1>0, <1>8, Times DEF ExpireOffer, Expire, Lives
  <2>2. PICK w \in {Stopped, [at |-> "wait", wait |-> OfferEvery]} :
          writer' = [writer EXCEPT ![s] = w]
    BY <1>8 DEF ExpireOffer
  <2>3. w \in Writers /\ (w.at = "wait" => w.wait = OfferEvery)
    BY <1>2, <2>2, Times DEF Writers
  <2>4. writer' \in [Sessions -> Writers] /\ writer'[s] = w
        /\ \A r \in Sessions : r # s => writer'[r] = writer[r]
    BY <1>0, <2>2, <2>3
  <2>5. \A r \in Sessions : Writing(r, "wait")' => writer'[r].wait <= OfferEvery /\ writer'[r].wait \in Nat
    BY <1>0, <2>3, <2>4, Times DEF Expiring, Writing
  <2>6. OfferStays'
    BY <2>1, <2>5, Times, NoneAssumption DEF OfferStays
  <2> QED
    BY <2>1, <2>4, <2>5, <2>6 DEF Expiring
<1>9. ASSUME NEW s \in Sessions, WriteAgain(s) PROVE Expiring'
  <2>1. writer' = [writer EXCEPT ![s] = [writer[s] EXCEPT !.at = "set"]]
    BY <1>0, <1>9 DEF WriteAgain
  <2> QED
    BY <1>3, <1>9, <2>1 DEF WriteAgain
\* Time passes only while who waits has not waited long enough.
<1>10. CASE Tick
  <2>1. writer' \in [Sessions -> Writers]
        /\ \A s \in Sessions : /\ writer'[s].at = writer[s].at
                               /\ writer'[s].wait = Less(writer[s].wait)
    <3>1. \A s \in Sessions : Less(writer[s].wait) \in Nat
      BY <1>0 DEF Less
    <3>2. writer' = [s \in Sessions |-> [writer[s] EXCEPT !.wait = Less(@)]]
      BY <1>10 DEF Tick
    <3> QED
      BY <1>0, <3>1, <3>2 DEF Writers
  <2>2. \A s \in Sessions : Writing(s, "wait") => writer[s].wait > 0
    BY <1>10 DEF Tick, Waits, Writing
  <2>3. /\ disco' \in [{"offer", "answer"} -> Lives]
        /\ \/ disco'["offer"].addr = None
           \/ disco'["offer"] = disco["offer"] /\ disco["offer"].life = Forever
           \/ /\ disco'["offer"].addr = disco["offer"].addr
              /\ disco'["offer"].life = disco["offer"].life - 1
    <3>1. DOMAIN disco = {"offer", "answer"}
      BY <1>0
    <3> DEFINE Next1(typ) == IF disco[typ].life \in {0, 1} THEN NoEntry
                             ELSE [disco[typ] EXCEPT !.life = IF @ = Forever THEN @ ELSE @ - 1]
    <3>2. disco' = [typ \in {"offer", "answer"} |-> Next1(typ)]
      BY <1>10, <3>1 DEF Tick
    <3>3. ASSUME NEW typ \in {"offer", "answer"}
          PROVE  /\ Next1(typ) \in Lives
                 /\ \/ Next1(typ).addr = None
                    \/ Next1(typ) = disco[typ] /\ disco[typ].life = Forever
                    \/ Next1(typ).addr = disco[typ].addr /\ Next1(typ).life = disco[typ].life - 1
      <4>1. disco[typ] \in Lives /\ disco[typ].life \in Nat
        BY <1>0 DEF Lives
      <4>2. NoEntry \in Lives /\ NoEntry.addr = None
        BY DEF NoEntry, Lives
      <4> QED
        BY <4>1, <4>2 DEF Lives
    <3> HIDE DEF Next1
    <3> QED
      BY <3>2, <3>3
  <2>4. \A s \in Sessions : Writing(s, "wait") => /\ writer[s].wait \in Nat
                                                 /\ writer'[s].wait = writer[s].wait - 1
                                                 /\ writer'[s].wait <= OfferEvery
    BY <1>0, <2>1, <2>2, Times DEF Expiring, Less
  <2>5. OfferStays'
    <3> SUFFICES ASSUME NEW s \in Sessions, disco'["offer"].addr = s, Writing(s, "wait")'
                 PROVE  disco'["offer"].life > writer'[s].wait
      BY DEF OfferStays
    <3>1. Writing(s, "wait")
      BY <2>1 DEF Writing
    <3>2. disco["offer"].addr = s /\ (\/ disco'["offer"].life = Forever
                                      \/ disco'["offer"].life = disco["offer"].life - 1)
      BY <2>3, NoneAssumption
    <3>3. disco["offer"].life > writer[s].wait
      BY <3>1, <3>2 DEF Expiring, OfferStays
    <3> QED
      BY <1>0, <2>4, <3>1, <3>2, <3>3, Times
  <2> QED
    BY <2>1, <2>3, <2>4, <2>5 DEF Expiring, Writing
<1>11. CASE UNCHANGED vars
  BY <1>11 DEF vars, Expiring, OfferStays, Writing
<1> QED
  BY <1>5, <1>6, <1>7, <1>8, <1>9, <1>10, <1>11 DEF Next, WriterRuns

\* An offer never expires while its writer waits to write it again.
THEOREM OfferStaysCorrect == Spec => []OfferStays
<1>1. Expiring => OfferStays
  BY DEF Expiring
<1> QED
  BY <1>1, ExpiringInit, ExpiringNext, PTL DEF Spec
=============================================================================
