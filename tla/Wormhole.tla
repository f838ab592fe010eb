----------------------------- MODULE Wormhole -----------------------------
(***************************************************************************)
(* A wormhole that is open (wormhole/wormhole.go, service/wormhole.go,     *)
(* service/cmd_wormhole.go): each side's RPC writes what its user types    *)
(* from one goroutine, reads, acknowledges and delivers what the other     *)
(* side sent from a second, and says goodbye from a third. All three       *)
(* encrypt with one cipher, which counts, and then write to one stream,    *)
(* with nothing held in between. The stream keeps the order. A reader      *)
(* whose packet is not the next by its cipher's count ends, and neither    *)
(* side's user hears of it.                                                *)
(*                                                                         *)
(* External: SCTP's stream and the noise cipher, one step for each         *)
(* Encrypt, Decrypt and Write.                                             *)
(***************************************************************************)
EXTENDS Naturals, Sequences, SequencesExt

CONSTANTS Sides,      \* the two sessions
          Typing      \* how many messages each user types; a set of choices

ASSUME SidesAssumption == \E r, s \in Sides : r # s /\ Sides = {r, s}
ASSUME TypingAssumption == Typing \subseteq [Sides -> Nat]

VARIABLES typed,   \* how many messages each user types
          sent,    \* how many of them the RPC took
          rpc,     \* each side's RPC, and its client
          main,    \* the goroutine that writes messages
          reader,  \* the goroutine that reads
          bye,     \* the goroutines of each Close
          count,   \* the cipher's count of what was encrypted, of what was read
          wire,    \* packets on their way from each side
          got,     \* messages shown to the user, in order
          acked    \* the user's own messages shown as acknowledged

talk == <<typed, sent, rpc, main, reader, bye, count, wire, got, acked>>

Other(s) == CHOOSE r \in Sides : r # s
Packet(typ, id, nonce) == [typ |-> typ, id |-> id, nonce |-> nonce]

\* Close is called by the reader, and when the RPC ends. Each call tells the
\* client, and says goodbye in a goroutine of its own.
Closers == {"reader", "rpc"}
Silent == [pc |-> "none", nonce |-> 0]
Close(s, k) == bye' = [bye EXCEPT ![s][k].pc = "say"]
Hung(s) == \E k \in Closers : bye[s][k].pc = "hung"
Closing(s) == \E k \in Closers : bye[s][k].pc # "none"
Cancelled(s) == rpc[s] # "open"

\* The cipher encrypts the next packet: who does takes its count along.
Encrypt(s) == count' = [count EXCEPT ![s].out = @ + 1]
Send(s, packet) == wire' = [wire EXCEPT ![s] = Append(@, packet)]

----------------------------------------------------------------------------
(* The RPC's main loop *)

\* wormholeInput: WriteMessage encrypts ...
Input(s) ==
  /\ rpc[s] = "open" /\ main[s].id = 0 /\ sent[s] < typed[s]
  /\ main' = [main EXCEPT ![s] = Packet("message", sent[s] + 1, count[s].out)]
  /\ sent' = [sent EXCEPT ![s] = @ + 1]
  /\ Encrypt(s)
  /\ UNCHANGED <<typed, rpc, reader, bye, wire, got, acked>>

NoPacket == Packet("none", 0, 0)

\* Mutant of Write: what is written counts as acknowledged.
WriteAcked(s) ==
  /\ main[s].id # 0 /\ ~Hung(s)
  /\ Send(s, main[s])
  /\ main' = [main EXCEPT ![s] = NoPacket]
  /\ acked' = [acked EXCEPT ![s] = @ \cup {main[s].id}]
  /\ UNCHANGED <<typed, sent, rpc, reader, bye, count, got>>

\* ... and writes, unless the stream is closed or the call is cancelled: an
\* error ends the RPC.
Write(s) ==
  /\ main[s].id # 0
  /\ main' = [main EXCEPT ![s] = NoPacket]
  /\ \/ ~Hung(s) /\ Send(s, main[s]) /\ UNCHANGED <<rpc, bye>>
     \/ /\ Hung(s) \/ Cancelled(s)
        /\ rpc' = [rpc EXCEPT ![s] = "ended"] /\ Close(s, "rpc")
        /\ UNCHANGED wire
  /\ UNCHANGED <<typed, sent, reader, count, got, acked>>

\* The client exits: at the end of its input, or told that the wormhole closed.
\* What it sent and the RPC did not read yet is lost.
ClientExits(s) ==
  /\ rpc[s] = "open"
  /\ rpc' = [rpc EXCEPT ![s] = "cancelled"]
  /\ UNCHANGED <<typed, sent, main, reader, bye, count, wire, got, acked>>

\* The loop ends, and the deferred Close runs.
RPCEnds(s) ==
  /\ rpc[s] = "cancelled" /\ main[s].id = 0
  /\ rpc' = [rpc EXCEPT ![s] = "ended"]
  /\ Close(s, "rpc")
  /\ UNCHANGED <<typed, sent, main, reader, count, wire, got, acked>>

----------------------------------------------------------------------------
(* The reader *)

ReaderAt(s, pc) == reader[s].pc = pc
Reading(s) == ReaderAt(s, "read")
ReaderGoes(s, pc, packet) == reader' = [reader EXCEPT ![s] = [pc |-> pc, packet |-> packet]]
Count(s) == count' = [count EXCEPT ![s].in = @ + 1]

\* Mutant of ReadPacket: an unordered stream, and a cipher that does not count.
ReadUnordered(s) ==
  /\ Reading(s)
  /\ \E i \in 1..Len(wire[Other(s)]) :
       LET p == wire[Other(s)][i]
       IN /\ wire' = [wire EXCEPT ![Other(s)] = RemoveAt(@, i)]
          /\ CASE p.typ = "message" ->
                    /\ ReaderGoes(s, "ack", Packet("ack", p.id, count[s].out))
                    /\ Encrypt(s) /\ UNCHANGED bye
               [] p.typ = "ack" -> ReaderGoes(s, "deliver", p) /\ Count(s) /\ UNCHANGED bye
               [] p.typ = "closed" ->
                    Close(s, "reader") /\ ReaderGoes(s, "ended", NoPacket) /\ Count(s)
  /\ UNCHANGED <<typed, sent, rpc, main, got, acked>>

\* Mutant of ReadPacket: the cipher counts messages only.
ReadCountMessages(s) ==
  /\ Reading(s) /\ wire[Other(s)] # <<>>
  /\ LET p == Head(wire[Other(s)])
     IN IF p.nonce # count[s].in THEN ReaderGoes(s, "lost", NoPacket) /\ UNCHANGED <<count, bye>>
        ELSE CASE p.typ = "message" ->
                    /\ ReaderGoes(s, "ack", Packet("ack", p.id, count[s].out))
                    /\ count' = [count EXCEPT ![s].in = @ + 1, ![s].out = @ + 1]
                    /\ UNCHANGED bye
               [] p.typ = "ack" -> ReaderGoes(s, "deliver", p) /\ UNCHANGED <<count, bye>>
               [] p.typ = "closed" ->
                    Close(s, "reader") /\ ReaderGoes(s, "ended", NoPacket) /\ UNCHANGED count
  /\ wire' = [wire EXCEPT ![Other(s)] = Tail(@)]
  /\ UNCHANGED <<typed, sent, rpc, main, got, acked>>

\* ReadMessage: a message is acknowledged before it is delivered. A packet out
\* of the cipher's order does not decrypt, and ends the reader.
ReadPacket(s) ==
  /\ Reading(s) /\ wire[Other(s)] # <<>>
  /\ LET p == Head(wire[Other(s)])
     IN \/ /\ p.nonce # count[s].in
           /\ ReaderGoes(s, "lost", NoPacket) /\ UNCHANGED <<count, bye>>
        \/ /\ p.nonce = count[s].in /\ p.typ = "message"
           /\ ReaderGoes(s, "ack", Packet("ack", p.id, count[s].out))
           /\ count' = [count EXCEPT ![s].in = @ + 1, ![s].out = @ + 1]
           /\ UNCHANGED bye
        \/ /\ p.nonce = count[s].in /\ p.typ = "ack"
           /\ ReaderGoes(s, "deliver", p) /\ Count(s) /\ UNCHANGED bye
        \/ /\ p.nonce = count[s].in /\ p.typ = "closed"
           /\ Close(s, "reader") /\ ReaderGoes(s, "ended", NoPacket) /\ Count(s)
  /\ wire' = [wire EXCEPT ![Other(s)] = Tail(@)]
  /\ UNCHANGED <<typed, sent, rpc, main, got, acked>>

\* writeAck; when it fails the message is not delivered.
WriteAck(s) ==
  /\ ReaderAt(s, "ack")
  /\ \/ /\ ~Hung(s) /\ Send(s, reader[s].packet)
        /\ ReaderGoes(s, "deliver", Packet("message", reader[s].packet.id, 0))
     \/ /\ Hung(s) \/ Cancelled(s)
        /\ ReaderGoes(s, "ended", NoPacket) /\ UNCHANGED wire
  /\ UNCHANGED <<typed, sent, rpc, main, bye, count, got, acked>>

\* Mutant of Deliver: one message is read, not one after the other.
DeliverOne(s) ==
  /\ ReaderAt(s, "deliver") /\ ~Cancelled(s)
  /\ LET p == reader[s].packet
     IN IF p.typ = "ack" THEN acked' = [acked EXCEPT ![s] = @ \cup {p.id}] /\ UNCHANGED got
        ELSE got' = [got EXCEPT ![s] = Append(@, p.id)] /\ UNCHANGED acked
  /\ ReaderGoes(s, "ended", NoPacket)
  /\ UNCHANGED <<typed, sent, rpc, main, bye, count, wire>>

\* wormholeReadSend gives it to the client, if there still is one.
Deliver(s) ==
  /\ ReaderAt(s, "deliver")
  /\ LET p == reader[s].packet
     IN \/ /\ p.typ = "ack" /\ acked' = [acked EXCEPT ![s] = @ \cup {p.id}]
           /\ ReaderGoes(s, "read", NoPacket) /\ UNCHANGED got
        \/ /\ p.typ = "message" /\ got' = [got EXCEPT ![s] = Append(@, p.id)]
           /\ ReaderGoes(s, "read", NoPacket) /\ UNCHANGED acked
        \/ Cancelled(s) /\ ReaderGoes(s, "ended", NoPacket) /\ UNCHANGED <<got, acked>>
  /\ UNCHANGED <<typed, sent, rpc, main, bye, count, wire>>

\* The call is cancelled, or the stream is at its end.
ReaderEnds(s) ==
  /\ ReaderAt(s, "read")
  /\ Cancelled(s) \/ Hung(s) \/ (Hung(Other(s)) /\ wire[Other(s)] = <<>>)
  /\ ReaderGoes(s, "ended", NoPacket)
  /\ UNCHANGED <<typed, sent, rpc, main, bye, count, wire, got, acked>>

----------------------------------------------------------------------------
(* Saying goodbye *)

Saying(s, k, pc) == bye[s][k].pc = pc

\* writeClosed encrypts and writes like the others; its errors are ignored.
SayClosed(s, k) ==
  /\ Saying(s, k, "say")
  /\ bye' = [bye EXCEPT ![s][k] = [pc |-> "send", nonce |-> count[s].out]]
  /\ Encrypt(s)
  /\ UNCHANGED <<typed, sent, rpc, main, reader, wire, got, acked>>

SendClosed(s, k) ==
  /\ Saying(s, k, "send")
  /\ IF Hung(s) THEN UNCHANGED wire ELSE Send(s, Packet("closed", 0, bye[s][k].nonce))
  /\ bye' = [bye EXCEPT ![s][k] = [pc |-> "wait", nonce |-> 0]]
  /\ UNCHANGED <<typed, sent, rpc, main, reader, count, got, acked>>

\* What did not arrive when the connection is closed never will; that is also all
\* the other side sees of a keysd that dies.
Cut(s) == \E n \in 0..Len(wire[s]) : wire' = [wire EXCEPT ![s] = SubSeq(@, 1, n)]

\* A second later the connection is closed.
HangUp(s, k) ==
  /\ Saying(s, k, "wait")
  /\ bye' = [bye EXCEPT ![s][k].pc = "hung"]
  /\ Cut(s)
  /\ UNCHANGED <<typed, sent, rpc, main, reader, count, got, acked>>

----------------------------------------------------------------------------
Open ==
  /\ typed \in Typing
  /\ sent = [s \in Sides |-> 0]
  /\ rpc = [s \in Sides |-> "open"]
  /\ main = [s \in Sides |-> NoPacket]
  /\ reader = [s \in Sides |-> [pc |-> "read", packet |-> NoPacket]]
  /\ bye = [s \in Sides |-> [k \in Closers |-> Silent]]
  /\ count = [s \in Sides |-> [out |-> 0, in |-> 0]]
  /\ wire = [s \in Sides |-> <<>>]
  /\ got = [s \in Sides |-> <<>>]
  /\ acked = [s \in Sides |-> {}]

Main(s) == Input(s) \/ Write(s) \/ RPCEnds(s)
Reader(s) == ReadPacket(s) \/ WriteAck(s) \/ Deliver(s)
Goodbye(s, k) == SayClosed(s, k) \/ SendClosed(s, k) \/ HangUp(s, k)

Talk == \E s \in Sides :
          \/ Main(s) \/ ClientExits(s)
          \/ Reader(s) \/ ReaderEnds(s)
          \/ \E k \in Closers : Goodbye(s, k)

TalkSpec == Open /\ [][Talk]_talk

\* Both sides' goroutines run on.
TalkFairness == WF_talk(\E s \in Sides : Main(s) \/ Reader(s))

----------------------------------------------------------------------------
\* What a user is shown is a beginning of what the other user typed, in order.
InOrder == \A s \in Sides : \A i \in 1..Len(got[s]) : got[s][i] = i

\* A message is shown as acknowledged only if it was shown to the other user, or
\* is about to be, or the other user has left.
AckedWasRead ==
  \A s \in Sides : \A id \in acked[s] :
    \/ id \in Range(got[Other(s)])
    \/ ReaderAt(Other(s), "deliver") /\ reader[Other(s)].packet = Packet("message", id, 0)
    \/ Cancelled(Other(s))

\* While only one user types and nobody closes, no reader gets out of step with
\* its peer's cipher: only one goroutine of each side writes.
InStep ==
  (\E s \in Sides : typed[s] = 0) =>
     \A s \in Sides : ReaderAt(s, "lost") => \E r \in Sides : Closing(r)

\* Every message typed is shown as acknowledged in the end, unless a user leaves or
\* dies, or a reader is out of step.
Left(s) == rpc[s] # "open" \/ Closing(s)

Answered ==
  (\E s \in Sides : typed[s] > 0) ~> \/ \A s \in Sides : acked[s] = 1..typed[s]
                                     \/ \E s \in Sides : Left(s) \/ ReaderAt(s, "lost")
=============================================================================
