----------------------------- MODULE MCCommands -----------------------------
(* The `keys` commands: how they start and reach keysd, how they stream     *)
(* through it, and what keysd does to files for them. A behaviour is of one *)
(* of the three, and the other two stand still.                             *)
EXTENDS Process, Streams, Files

CONSTANTS u1, u2, k1, f1, f2

MCVersionOf == [u \in Users |-> IF u = u1 THEN "new" ELSE "old"]

\* One user alone, on a new machine or on one where keysd ran before ...
OneUser == [users : {{u1}}, cert : {None}, running : {FALSE}, faults : {3}]
             \cup [users : {{u1}}, cert : {k1}, running : BOOLEAN, faults : {3}]

\* ... or two at the same time where there is a certificate.
TwoUsers == [users : {{u1, u2}}, cert : {k1}, running : BOOLEAN, faults : {1}]

MCWorlds == OneUser \cup TwoUsers

\* Every command, with inputs that end well, too early or with an error, that verify or
\* not, from a signer or for a sender that is right or not; and five chunks, which
\* fill both windows and all saltpack keeps.
Short == [kind : {"write"}, chunks : 0..3, end : {"eof", "fail"}, bad : {0},
          signer : {"right", "unknown"}]
           \cup [kind : {"read", "detached"}, chunks : 0..3, end : {"eof", "cut", "fail"},
                 bad : 0..2, signer : {"right", "wrong", "unknown"}]
Long == [kind : {"write", "read", "detached"}, chunks : {5}, end : {"eof"}, bad : {0},
         signer : {"right"}]

MCJobs == {j \in Short \cup Long : j.bad <= j.chunks}

MCAsked == [kind : {"write"}, size : {1, 2}, input : {"good"}, known : {TRUE}]
             \cup [kind : {"write", "read"}, size : {2}, input : {"header", "body"},
                   known : {TRUE}]
             \cup [kind : {"read"}, size : {1}, input : {"good"}, known : BOOLEAN]

\* Nobody is there to run a command, no stream is open, and no call will be made.
NoUser == /\ users = {} /\ faults = 0
          /\ cmd = [u \in Users |-> Idle] /\ daemon = [d \in Daemons |-> Dead]
          /\ keyring = [private |-> None, public |-> None]
          /\ pem = None /\ pid = "none" /\ port = None

NoStream == /\ job = [kind |-> "write", chunks |-> 0, end |-> "eof", bad |-> 0,
                      signer |-> "right"]
            /\ fed = 0 /\ feeder = "ended" /\ failed = FALSE
            /\ up = <<>> /\ upEnd = TRUE
            /\ server = "ended" /\ held = <<>> /\ down = <<>> /\ downEnd = "error"
            /\ printer = "return" /\ stdout = <<>> /\ result = "interrupted"

NoCall == /\ name = [out |-> Missing, tmp |-> Missing]
          /\ inode = [i \in Inodes |-> Truncated]
          /\ call = [c \in FileCalls |-> [NotAsked EXCEPT !.pc = "ended"]]
          /\ alone = FileCalls

MCSpec ==
  /\ \/ Init /\ NoStream /\ NoCall
     \/ (\E j \in Jobs : Opened(j)) /\ NoUser /\ NoCall
     \/ FilesInit /\ NoUser /\ NoStream
  /\ [][\/ Next /\ UNCHANGED <<stream, disk>>
        \/ Streaming /\ UNCHANGED <<vars, disk>>
        \/ Filing /\ UNCHANGED <<vars, stream>>]_<<vars, stream, disk>>
  /\ Fairness /\ StreamFairness
=============================================================================
