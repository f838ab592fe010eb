---------------------------- MODULE Rendezvous ----------------------------
(***************************************************************************)
(* How two users of a wormhole find each other (wormhole/wormhole.go,      *)
(* service/wormhole.go, http/server/disco.go, memcache.go).                *)
(*                                                                         *)
(* A session looks for an offer of its peer on the server. Without one it  *)
(* makes an offer of its own address, writes it again and again, each time *)
(* with a short life, and polls for an answer; with one it writes an       *)
(* answer and listens. Both then try a handshake over UDP for a while, and *)
(* then associate: the one that listened waits for that without end.       *)
(* A session that ends deletes offer and answer in the background. The     *)
(* server keeps one offer and one answer for a pair of users, whichever of *)
(* them wrote it, in entries that are read and deleted, or set and given   *)
(* their expiry, in two steps.                                             *)
(*                                                                         *)
(* A clock ticks about as often as an answer is polled for. A request is   *)
(* shorter than a tick: no tick comes while a step of a session waits.     *)
(***************************************************************************)
EXTENDS Naturals, FiniteSets

CONSTANTS Sessions, None,
          UserOf,           \* the user of each session
          OfferLife,        \* how long an offer lives (15 s)
          OfferEvery,       \* how often it is written (10 s)
          AnswerLife,       \* how long an answer lives (1 min)
          ConnectTimeout,   \* how long a session waits for an answer (60 s)
          HandshakeTimeout, \* how long a handshake may take (10 s)
          MaxFaults         \* bound: requests and handshakes that fail,
                            \* sessions that are given up, processes that die

ASSUME TimeAssumption ==
  /\ {OfferLife, OfferEvery, AnswerLife, ConnectTimeout, HandshakeTimeout} \subseteq Nat \ {0}
  /\ OfferEvery < OfferLife /\ HandshakeTimeout > 1
ASSUME NoneAssumption == None \notin Sessions

VARIABLES disco,    \* the entries of the pair in the server's cache
          session,  \* where each session is
          writer,   \* its goroutine that writes the offer
          closer,   \* its goroutine that removes offer and answer
          faults

vars == <<disco, session, writer, closer, faults>>

\* An entry holds the address of a session; without expiry it stays.
NoEntry == [addr |-> None, life |-> 0]
Forever == OfferLife + AnswerLife
Idle == [pc |-> "idle", seen |-> None, timer |-> 0, polled |-> FALSE]
Stopped == [at |-> "done", wait |-> 0]

At(s, pc) == session[s].pc = pc
Writing(s, at) == writer[s].at = at
Goto(s, pc) == session' = [session EXCEPT ![s].pc = pc]
Leave(s, pc) == session' = [session EXCEPT ![s] = [Idle EXCEPT !.pc = pc]]
Over(s) == session[s].pc \in {"idle", "closed", "stuck", "crashed"}
Fault == faults > 0 /\ faults' = faults - 1

\* memCache: Set drops the expiry; Expire fails when the entry is gone (the
\* cache of the tests) or does nothing (the one of the deployed server).
Set(typ, s) == disco' = [disco EXCEPT ![typ] = [addr |-> s, life |-> Forever]]
Expire(typ, life) ==
  disco' = [disco EXCEPT ![typ].life = IF disco[typ].addr = None THEN 0 ELSE life]
Delete(typ) == disco' = [disco EXCEPT ![typ] = NoEntry]

----------------------------------------------------------------------------
(* Closing *)

\* Mutant of Ended: offer and answer are left to expire.
EndedLeaving(s) ==
  /\ Leave(s, "closed")
  /\ closer' = closer
  /\ writer' = [writer EXCEPT ![s] = IF Writing(s, "wait") THEN Stopped ELSE @]

\* Close: whoever came to write an offer or an answer deletes both, in the
\* background. A write of the offer on its way may still reach the server.
Ended(s) ==
  /\ Leave(s, "closed")
  /\ \/ closer' = [closer EXCEPT ![s] = "offer"] /\ session[s].pc \notin {"find", "take", "stun"}
     \/ UNCHANGED closer /\ session[s].pc \in {"find", "take", "stun", "answer"}
  /\ writer' = [writer EXCEPT ![s] = IF Writing(s, "wait") THEN Stopped ELSE @]

DeleteOffer(s) ==
  /\ closer[s] = "offer"
  /\ \/ Delete("offer") /\ closer' = [closer EXCEPT ![s] = "answer"] /\ UNCHANGED faults
     \/ Fault /\ closer' = [closer EXCEPT ![s] = "failed"] /\ UNCHANGED disco
  /\ UNCHANGED <<session, writer>>

DeleteAnswer(s) ==
  /\ closer[s] = "answer"
  /\ Delete("answer")
  /\ closer' = [closer EXCEPT ![s] = "done"]
  /\ UNCHANGED <<session, writer, faults>>

\* The user gives up or is done. AcceptStream does not hear of it.
GiveUp(s) ==
  /\ ~Over(s)
  /\ IF At(s, "open") THEN UNCHANGED faults ELSE Fault
  /\ IF At(s, "accept") THEN Leave(s, "stuck") /\ UNCHANGED <<writer, closer>> ELSE Ended(s)
  /\ UNCHANGED disco

\* keysd dies; log.Fatal in ListenForPeer ends it too.

Crash(s) ==
  /\ ~Over(s) /\ Fault
  /\ Leave(s, "crashed")
  /\ writer' = [writer EXCEPT ![s] = IF Writing(s, "wait") THEN Stopped ELSE @]
  /\ UNCHANGED <<disco, closer>>

----------------------------------------------------------------------------
(* Finding the peer *)

\* Users run one session at a time.
Begin(s) ==
  /\ At(s, "idle")
  /\ \A r \in Sessions \ {s} : UserOf[r] = UserOf[s] => Over(r)
  /\ Goto(s, "find")
  /\ UNCHANGED <<disco, writer, closer, faults>>

\* FindOffer: the server reads the entry ...
FindOffer(s) ==
  /\ At(s, "find")
  /\ IF disco["offer"].addr = None THEN Goto(s, "stun")
     ELSE session' = [session EXCEPT ![s].pc = "take", ![s].seen = disco["offer"].addr]
  /\ UNCHANGED <<disco, writer, closer, faults>>

\* ... and then deletes what is there by now.
TakeOffer(s) ==
  /\ At(s, "take")
  /\ Delete("offer")
  /\ Goto(s, "answer")
  /\ UNCHANGED <<writer, closer, faults>>

\* CreateOffer, and the start of Connect.
CreateOffer(s) ==
  /\ At(s, "stun")
  /\ session' = [session EXCEPT ![s].pc = "offer", ![s].timer = ConnectTimeout]
  /\ writer' = [writer EXCEPT ![s].at = "set"]
  /\ UNCHANGED <<disco, closer, faults>>

\* A request or STUN fails; so does the session.
Fail(s) ==
  /\ session[s].pc \in {"find", "take", "stun", "offer", "takeAnswer", "answer", "expire"}
  /\ Fault /\ Ended(s)
  /\ UNCHANGED disco

----------------------------------------------------------------------------
(* Connect: the goroutine that writes the offer *)

WriteOffer(s) ==
  /\ Writing(s, "set")
  /\ \/ Set("offer", s) /\ writer' = [writer EXCEPT ![s].at = "expire"] /\ UNCHANGED faults
     \/ Fault /\ writer' = [writer EXCEPT ![s] = Stopped] /\ UNCHANGED disco
     \/ ~At(s, "offer") /\ writer' = [writer EXCEPT ![s] = Stopped]
        /\ UNCHANGED <<disco, faults>>
  /\ UNCHANGED <<session, closer>>

\* Mutant of ExpireOffer: the next write comes when the offer has expired.
ExpireOfferLate(s) ==
  /\ Writing(s, "expire")
  /\ Expire("offer", OfferLife)
  /\ writer' = [writer EXCEPT ![s] = IF At(s, "offer")
                                     THEN [at |-> "wait", wait |-> OfferLife] ELSE Stopped]
  /\ UNCHANGED <<session, closer, faults>>

\* The loop ends when the session is no longer waiting for an answer, and at the
\* first write that fails.
ExpireOffer(s) ==
  /\ Writing(s, "expire")
  /\ Expire("offer", OfferLife)
  /\ \/ writer' = [writer EXCEPT ![s] = IF At(s, "offer")
                     THEN [at |-> "wait", wait |-> OfferEvery] ELSE Stopped]
     \/ disco["offer"].addr = None /\ writer' = [writer EXCEPT ![s] = Stopped]
  /\ UNCHANGED <<session, closer, faults>>

WriteAgain(s) ==
  /\ Writing(s, "wait") /\ writer[s].wait = 0
  /\ writer' = [writer EXCEPT ![s].at = "set"]
  /\ UNCHANGED <<disco, session, closer, faults>>

----------------------------------------------------------------------------
(* Connect: polling for the answer; Listen: writing it *)

ReadAnswer(s) ==
  /\ At(s, "offer") /\ ~session[s].polled
  /\ session' = IF disco["answer"].addr = None
                THEN [session EXCEPT ![s].polled = TRUE]
                ELSE [session EXCEPT ![s].pc = "takeAnswer",
                                     ![s].seen = disco["answer"].addr]
  /\ UNCHANGED <<disco, writer, closer, faults>>

\* With the answer the offer is no longer written.
TakeAnswer(s) ==
  /\ At(s, "takeAnswer")
  /\ Delete("answer")
  /\ session' = [session EXCEPT ![s].pc = "connect", ![s].timer = HandshakeTimeout]
  /\ writer' = [writer EXCEPT ![s] = IF Writing(s, "wait") THEN Stopped ELSE @]
  /\ UNCHANGED <<closer, faults>>

WriteAnswer(s) ==
  /\ At(s, "answer")
  /\ Set("answer", s) /\ Goto(s, "expire")
  /\ UNCHANGED <<writer, closer, faults>>

ExpireAnswer(s) ==
  /\ At(s, "expire")
  /\ Expire("answer", AnswerLife)
  /\ session' = [session EXCEPT ![s].pc = "listen", ![s].timer = HandshakeTimeout]
  /\ UNCHANGED <<writer, closer, faults>>

\* The handshake over UDP needs one side of each kind, and each with the address
\* of the other.
Meeting(c, l) == /\ At(c, "connect") /\ At(l, "listen")
                 /\ session[c].seen = l /\ session[l].seen = c

Handshake(c, l) ==
  /\ Meeting(c, l)
  /\ session' = [session EXCEPT ![c].pc = "associate", ![c].timer = HandshakeTimeout,
                                ![l].pc = "accept", ![l].timer = 0]
  /\ UNCHANGED <<disco, writer, closer, faults>>

\* SCTP opens a stream, and noise agrees on the keys.
Associating(c, l) == At(c, "associate") /\ At(l, "accept") /\ session[l].seen = c

Associate(c, l) ==
  /\ Associating(c, l)
  /\ session' = [session EXCEPT ![c] = [Idle EXCEPT !.pc = "open"],
                                ![l] = [Idle EXCEPT !.pc = "open"]]
  /\ UNCHANGED <<disco, writer, closer, faults>>

\* Mutant of Timeout: waiting for an answer has no end.
TimeoutHandshake(s) ==
  /\ session[s].pc \in {"connect", "listen"} /\ session[s].timer = 0
  /\ Ended(s)
  /\ UNCHANGED <<disco, faults>>

\* No answer in time, or no handshake; or it fails, however late. Accepting the
\* stream has no timeout.
Timeout(s) ==
  /\ \/ /\ session[s].pc \in {"offer", "connect", "listen", "associate"}
        /\ session[s].timer = 0 /\ UNCHANGED faults
     \/ session[s].pc \in {"connect", "listen", "associate", "accept"} /\ Fault
  /\ Ended(s)
  /\ UNCHANGED disco

----------------------------------------------------------------------------
\* Who is waiting for an answer, or for a peer.
Waits(s) ==
  /\ \/ Over(s) \/ At(s, "open") \/ At(s, "accept")
     \/ At(s, "offer") /\ session[s].polled /\ session[s].timer > 0
     \/ session[s].pc \in {"connect", "listen", "associate"} /\ session[s].timer > 0
  /\ \A r \in Sessions : ~Meeting(s, r) /\ ~Associating(s, r)
  /\ Writing(s, "done") \/ (Writing(s, "wait") /\ writer[s].wait > 0)
  /\ closer[s] \in {"done", "failed"}

Less(n) == IF n = 0 THEN 0 ELSE n - 1

\* Time passes where it matters: while someone waits or an entry may expire.
Tick ==
  /\ \A s \in Sessions : Waits(s)
  /\ disco' = [typ \in DOMAIN disco |->
       IF disco[typ].life \in {0, 1} THEN NoEntry
       ELSE [disco[typ] EXCEPT !.life = IF @ = Forever THEN @ ELSE @ - 1]]
  /\ session' = [s \in Sessions |->
       [session[s] EXCEPT !.timer = Less(@), !.polled = FALSE]]
  /\ writer' = [s \in Sessions |-> [writer[s] EXCEPT !.wait = Less(@)]]
  /\ UNCHANGED <<closer, faults>>

Apart ==
  /\ disco = [typ \in {"offer", "answer"} |-> NoEntry]
  /\ session = [s \in Sessions |-> Idle]
  /\ writer = [s \in Sessions |-> Stopped]
  /\ closer = [s \in Sessions |-> "done"]

Init == Apart /\ faults = MaxFaults

\* The steps of a session that do not wait for anything.
Runs(s) ==
  \/ FindOffer(s) \/ TakeOffer(s) \/ CreateOffer(s)
  \/ ReadAnswer(s) \/ TakeAnswer(s) \/ WriteAnswer(s) \/ ExpireAnswer(s)
  \/ \E r \in Sessions : Handshake(s, r) \/ Associate(s, r)
  \/ Timeout(s)

WriterRuns(s) == WriteOffer(s) \/ ExpireOffer(s) \/ WriteAgain(s)
CloserRuns(s) == DeleteOffer(s) \/ DeleteAnswer(s)

Next == \/ \E s \in Sessions : \/ Begin(s) \/ Runs(s) \/ WriterRuns(s) \/ CloserRuns(s)
                               \/ Fail(s) \/ GiveUp(s) \/ Crash(s)
        \/ Tick

\* Goroutines run on, and time passes. No goroutine can take steps for ever, so
\* it is enough that one of them goes on.
Fairness == /\ WF_vars(Tick)
            /\ WF_vars(\E s \in Sessions : Runs(s) \/ WriterRuns(s) \/ CloserRuns(s))

Spec == Init /\ [][Next]_vars /\ Fairness

----------------------------------------------------------------------------
Entry == {NoEntry} \cup [addr : Sessions, life : 1..Forever]

\* Every variable keeps its type; only what is there expires.
TypeOK ==
  /\ disco \in [{"offer", "answer"} -> Entry]
  /\ session \in [Sessions ->
       [pc : {"idle", "find", "take", "stun", "offer", "takeAnswer", "answer", "expire",
              "connect", "listen", "associate", "accept", "open",
              "closed", "stuck", "crashed"},
        seen : Sessions \cup {None}, timer : Nat, polled : BOOLEAN]]
  /\ writer \in [Sessions -> [at : {"done", "set", "expire", "wait"}, wait : Nat]]
  /\ closer \in [Sessions -> {"done", "failed", "offer", "answer"}]
  /\ faults \in 0..MaxFaults

\* An offer outlives the wait for its next write, whoever set, replaced or deleted
\* offers in between and whosever expiry reached it: it never expires meanwhile.
OfferStays ==
  \A s \in Sessions : disco["offer"].addr = s /\ Writing(s, "wait")
                        => disco["offer"].life > writer[s].wait

\* No session stays on the way: it is opened, or ends, or its peer ended after
\* the handshake, when accepting the stream does not.
Stranded(s) == At(s, "accept") /\ \A c \in Sessions : ~Associating(c, s)

SessionsSettle ==
  \A s \in Sessions : At(s, "find") ~> Over(s) \/ At(s, "open") \/ Stranded(s)

\* Two users meet when the second comes while the offer of the first is there
\* and has time left, nothing fails any more, and all sessions before them were
\* closed and had their requests answered: nothing they leave is in the way.
Met(a, b) ==
  /\ At(a, "offer") /\ session[a].timer > 1
  /\ disco["offer"].addr = a /\ Writing(a, "wait")
  /\ At(b, "find") /\ faults = 0
  /\ \A s \in Sessions \ {a, b} :
       session[s].pc \in {"idle", "closed"} /\ closer[s] = "done" /\ Writing(s, "done")

Meets == \A a \in Sessions :
           (\E b \in {s \in Sessions : UserOf[s] # UserOf[a]} : Met(a, b)) ~> At(a, "open")
=============================================================================
