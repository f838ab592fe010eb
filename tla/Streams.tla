------------------------------ MODULE Streams ------------------------------
(***************************************************************************)
(* `keys encrypt`, `sign`, `decrypt` and `verify` from standard input to   *)
(* standard output (service/cmd_encrypt.go, cmd_sign.go, cmd_verify.go and *)
(* the stream RPCs of encrypt.go, sign.go, decrypt.go, verify.go).         *)
(*                                                                         *)
(* One goroutine of the command feeds stdin to the RPC, another prints     *)
(* what comes back, and keysd reads and answers in one loop, all through   *)
(* windows of bounded size. keysd may die and the user may interrupt.      *)
(*                                                                         *)
(* A chunk is a number: of what is read in, and of the output it becomes.  *)
(* External: saltpack, which may hold chunks back until it has more, hands *)
(* out only what it verified and knows the last chunk from a missing one;  *)
(* gRPC streams, which keep the order.                                     *)
(***************************************************************************)
EXTENDS Naturals, Sequences, SequencesExt

CONSTANTS Jobs,     \* what is asked, of which input: [kind, chunks, end, bad, signer]
          Window    \* messages under way in one direction before Send blocks

(* kind:   "write" encrypts or signs, "read" decrypts or verifies,          *)
(*         "detached" verifies a signature from a file                      *)
(* end:    how stdin ends: "eof", "cut" (eof, the last chunk is missing),   *)
(*         "fail" (reading it fails)                                        *)
(* bad:    the first chunk that does not verify, or 0                       *)
(* signer: "right", "wrong" (another than the command expects), "unknown"   *)
(*         (keysd finds no such key, or fails to look it up)                *)

ASSUME JobsAssumption ==
  /\ \A j \in Jobs : /\ j.kind \in {"write", "read", "detached"}
                     /\ j.chunks \in Nat /\ j.bad \in 0..j.chunks
                     /\ j.end \in {"eof", "cut", "fail"}
                     /\ j.signer \in {"right", "wrong", "unknown"}
                     /\ j.kind = "write" => j.end # "cut" /\ j.signer # "wrong"
  /\ Window \in Nat \ {0}

VARIABLES job,
          fed,      \* chunks read from stdin
          feeder,   \* the goroutine that reads stdin
          failed,   \* readErr, openErr, outErr: set by both goroutines
          up,       \* messages on their way to keysd, 0 the options
          upEnd,    \* CloseSend was called
          server,   \* the RPC in keysd
          held,     \* chunks saltpack has taken and not handed out
          down,     \* messages on their way back: each a sequence of chunks
          downEnd,  \* how the RPC ended: not yet, ok, error
          printer,  \* the goroutine that prints
          stdout,   \* the chunks printed
          result    \* what the command returned

stream == <<job, fed, feeder, failed, up, upEnd, server, held, down, downEnd,
            printer, stdout, result>>

Header == 0
Footer == job.chunks + 1
Kept == 2            \* bound: chunks saltpack keeps before it hands one out
Empty == <<>>        \* empty data: "denotes EOF"

----------------------------------------------------------------------------
(* The command *)

Feed(pc) == feeder' = pc

\* readFrom: a chunk, the end, or an error, which ends it without CloseSend.
ReadStdin ==
  /\ result = "none" /\ feeder = "read"
  /\ IF fed < job.chunks THEN fed' = fed + 1 /\ Feed("send") /\ UNCHANGED failed
     ELSE IF job.end = "fail" THEN Feed("ended") /\ failed' = TRUE /\ UNCHANGED fed
     ELSE Feed("close") /\ UNCHANGED <<fed, failed>>
  /\ UNCHANGED <<job, up, upEnd, server, held, down, downEnd, printer, stdout, result>>

\* Send blocks while the window is full, and fails once the RPC is over.
SendChunk ==
  /\ result = "none" /\ feeder = "send"
  /\ IF downEnd # "none" THEN Feed("ended") /\ failed' = TRUE /\ UNCHANGED up
     ELSE /\ Len(up) < Window
          /\ up' = Append(up, fed) /\ Feed("read") /\ UNCHANGED failed
  /\ UNCHANGED <<job, fed, upEnd, server, held, down, downEnd, printer, stdout, result>>

CloseSend ==
  /\ result = "none" /\ feeder = "close"
  /\ Feed("ended")
  /\ upEnd' = TRUE
  /\ UNCHANGED <<job, fed, failed, up, server, held, down, downEnd, printer, stdout, result>>

\* A detached signature is verified in one goroutine: it feeds, then receives.
Receiving == /\ result = "none" /\ printer = "recv"
             /\ job.kind = "detached" => feeder = "ended" /\ ~failed

Break(err) == printer' = "return" /\ failed' = (failed \/ err)

\* Mutant of Receive: it waits for the feeder first.
ReceiveAfter ==
  /\ Receiving /\ feeder = "ended" /\ down # <<>>
  /\ down' = Tail(down)
  /\ IF job.signer = "wrong" /\ job.kind # "write" THEN Break(TRUE) /\ UNCHANGED stdout
     ELSE IF Head(down) = Empty THEN Break(FALSE) /\ UNCHANGED stdout
     ELSE stdout' = stdout \o Head(down) /\ UNCHANGED <<printer, failed>>
  /\ UNCHANGED <<job, fed, feeder, up, upEnd, server, held, downEnd, result>>

\* What comes is printed once its signer is the expected one, up to the empty
\* message, which follows the last chunk that was verified.
Receive ==
  /\ Receiving /\ down # <<>>
  /\ down' = Tail(down)
  /\ IF job.signer = "wrong" /\ job.kind # "write" THEN Break(TRUE) /\ UNCHANGED stdout
     ELSE IF Head(down) = Empty THEN Break(FALSE) /\ UNCHANGED stdout
     ELSE stdout' = stdout \o Head(down) /\ UNCHANGED <<printer, failed>>
  /\ UNCHANGED <<job, fed, feeder, up, upEnd, server, held, downEnd, result>>

\* Mutant of ReceiveEnd: an error is an end like any other.
ReceiveAnyEnd ==
  /\ Receiving /\ down = <<>> /\ downEnd # "none"
  /\ Break(FALSE)
  /\ UNCHANGED <<job, fed, feeder, up, upEnd, server, held, down, downEnd, stdout, result>>

ReceiveEnd ==
  /\ Receiving /\ down = <<>> /\ downEnd # "none"
  /\ Break(downEnd = "error")
  /\ UNCHANGED <<job, fed, feeder, up, upEnd, server, held, down, downEnd, stdout, result>>

\* The command returns the error either goroutine has set by now. The one that
\* verifies a detached signature also returns when it could not feed.
ReturnError ==
  /\ result = "none"
  /\ printer = "return" \/ (job.kind = "detached" /\ feeder = "ended" /\ failed)
  /\ result' = IF failed THEN "error" ELSE "ok"
  /\ UNCHANGED <<job, fed, feeder, failed, up, upEnd, server, held, down, downEnd,
                 printer, stdout>>

Interrupt ==
  /\ result = "none"
  /\ result' = "interrupted"
  /\ UNCHANGED <<job, fed, feeder, failed, up, upEnd, server, held, down, downEnd,
                 printer, stdout>>

----------------------------------------------------------------------------
(* keysd *)

Ends(how) == server' = "ended" /\ downEnd' = how

\* EncryptStream and SignStream: the first message has the options.
RecvOptions ==
  /\ server = "options" /\ up # <<>>
  /\ up' = Tail(up)
  /\ IF job.signer = "unknown" THEN Ends("error") /\ UNCHANGED held
     ELSE server' = "recv" /\ held' = <<Header>> /\ UNCHANGED downEnd
  /\ UNCHANGED <<job, fed, feeder, failed, upEnd, down, printer, stdout, result>>

\* Then each chunk is written to saltpack; what that hands out is sent.
RecvChunk ==
  /\ server = "recv" /\ job.kind = "write" /\ up # <<>>
  /\ up' = Tail(up)
  /\ held' = Append(held, Head(up))
  /\ server' = "encoded"
  /\ UNCHANGED <<job, fed, feeder, failed, upEnd, down, downEnd, printer, stdout, result>>

SendEncoded ==
  /\ server = "encoded" /\ result = "none"
  /\ \E k \in 0..Len(held) :
       /\ Len(held) - k < Kept
       /\ k > 0 => Len(down) < Window
       /\ down' = IF k > 0 THEN Append(down, SubSeq(held, 1, k)) ELSE down
       /\ held' = SubSeq(held, k + 1, Len(held))
  /\ server' = "recv"
  /\ UNCHANGED <<job, fed, feeder, failed, up, upEnd, downEnd, printer, stdout, result>>

\* At the end saltpack is closed, which hands out the rest and a footer.
SendLast ==
  /\ server = "recv" /\ job.kind = "write" /\ up = <<>> /\ upEnd /\ result = "none"
  /\ Len(down) < Window
  /\ down' = Append(down, Append(held, Footer))
  /\ held' = <<>>
  /\ Ends("ok")
  /\ UNCHANGED <<job, fed, feeder, failed, up, upEnd, printer, stdout, result>>

\* streamReader: a message is received when saltpack asks for more.
RecvInput ==
  /\ server \in {"header", "verify"} /\ up # <<>>
  /\ Len(held) < Kept
  /\ up' = Tail(up)
  /\ held' = Append(held, Head(up))
  /\ UNCHANGED <<job, fed, feeder, failed, upEnd, server, down, downEnd, printer, stdout,
                 result>>

AllRead == up = <<>> /\ upEnd

\* With the header, in the first chunk, the sender or signer is known, unless the
\* signature is detached.
FindSender ==
  /\ server = "header" /\ (held # <<>> \/ AllRead)
  /\ IF \/ held = <<>>
        \/ job.kind = "read" /\ (job.bad = 1 \/ job.signer = "unknown")
     THEN Ends("error")
     ELSE server' = "verify" /\ UNCHANGED downEnd
  /\ UNCHANGED <<job, fed, feeder, failed, up, upEnd, held, down, printer, stdout, result>>

\* readFromStream sends each chunk saltpack verified.
SendVerified ==
  /\ server = "verify" /\ job.kind = "read" /\ held # <<>> /\ result = "none"
  /\ IF Head(held) = job.bad THEN Ends("error") /\ UNCHANGED <<down, held>>
     ELSE /\ Len(down) < Window
          /\ down' = Append(down, <<Head(held)>>)
          /\ held' = Tail(held)
          /\ UNCHANGED <<server, downEnd>>
  /\ UNCHANGED <<job, fed, feeder, failed, up, upEnd, printer, stdout, result>>

\* After the last there is an empty message.
SendEmpty ==
  /\ server = "verify" /\ job.kind = "read" /\ held = <<>> /\ AllRead /\ result = "none"
  /\ IF job.end = "cut" THEN Ends("error") /\ UNCHANGED down
     ELSE /\ Len(down) < Window
          /\ down' = Append(down, Empty)
          /\ Ends("ok")
  /\ UNCHANGED <<job, fed, feeder, failed, up, upEnd, held, printer, stdout, result>>

\* VerifyDetachedStream reads all, then answers once, with the signer.
VerifyDetached ==
  /\ server = "verify" /\ job.kind = "detached" /\ result = "none"
  /\ IF held # <<>>
     THEN held' = Tail(held) /\ UNCHANGED <<down, server, downEnd>>
     ELSE /\ AllRead /\ UNCHANGED held
          /\ IF job.bad # 0 \/ job.end = "cut" \/ job.signer = "unknown"
             THEN Ends("error") /\ UNCHANGED down
             ELSE down' = Append(down, Empty) /\ Ends("ok")
  /\ UNCHANGED <<job, fed, feeder, failed, up, upEnd, printer, stdout, result>>

\* A command that is gone cancels its RPC, wherever that is.
Cancelled ==
  /\ result # "none" /\ server # "ended"
  /\ Ends("error")
  /\ UNCHANGED <<job, fed, feeder, failed, up, upEnd, held, down, printer, stdout, result>>

\* keysd dies: some of what it sent is lost, and the RPC fails.
Die ==
  /\ result = "none" /\ downEnd # "error"
  /\ Ends("error")
  /\ \E k \in 0..Len(down) : down' = SubSeq(down, 1, k)
  /\ UNCHANGED <<job, fed, feeder, failed, up, upEnd, held, printer, stdout, result>>

----------------------------------------------------------------------------
Opened(j) ==
  /\ job = j
  /\ fed = 0 /\ feeder = "read" /\ failed = FALSE
  /\ up = IF j.kind = "write" THEN <<0>> ELSE <<>>
  /\ upEnd = FALSE
  /\ server = IF j.kind = "write" THEN "options" ELSE "header"
  /\ held = <<>> /\ down = <<>> /\ downEnd = "none"
  /\ printer = "recv" /\ stdout = <<>> /\ result = "none"

Feeder == ReadStdin \/ SendChunk \/ CloseSend
Printer == Receive \/ ReceiveEnd \/ ReturnError
Server == \/ RecvOptions \/ RecvChunk \/ SendEncoded \/ SendLast
          \/ RecvInput \/ FindSender \/ SendVerified \/ SendEmpty \/ VerifyDetached
          \/ Cancelled

Streaming == Feeder \/ Printer \/ Server \/ Interrupt \/ Die

StreamSpec == (\E j \in Jobs : Opened(j)) /\ [][Streaming]_stream

\* All three goroutines run on.
StreamFairness == WF_stream(Feeder) /\ WF_stream(Printer) /\ WF_stream(Server)

----------------------------------------------------------------------------
Numbers(first, last) == [i \in 1..(last + 1 - first) |-> first + i - 1]

\* What the whole output is.
Whole == CASE job.kind = "write" -> Numbers(Header, Footer)
           [] job.kind = "read" -> Numbers(1, job.chunks)
           [] OTHER -> <<>>

Good == /\ job.end = "eof" /\ job.signer # "unknown"
        /\ job.kind # "write" => job.bad = 0 /\ job.signer = "right"

\* Whatever keysd and the two goroutines do in whatever order: what is printed is
\* a beginning of the output, of chunks that verified and a signer that is
\* expected; and when the command succeeds it is all of it.
PrintsVerified ==
  /\ IsPrefix(stdout, Whole)
  /\ job.kind = "read" => /\ job.bad # 0 => Len(stdout) < job.bad
                          /\ job.signer # "right" => stdout = <<>>
  /\ result = "ok" => Good /\ stdout = Whole

\* Both the command and its RPC end: neither waits for the other with full windows.
\* The exception is a stdin that fails to be read by a goroutine of its own: nobody
\* closes the stream, and both wait.
StreamsEnd == <>(\/ result # "none" /\ server = "ended"
                 \/ job.end = "fail" /\ feeder = "ended" /\ job.kind # "detached")
=============================================================================
