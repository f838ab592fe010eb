------------------------------ MODULE Process ------------------------------
(***************************************************************************)
(* The keysd process and the `keys` commands that start, stop and reach    *)
(* it (service/autostart.go, run.go, cert.go, pid.go, install.go,          *)
(* client.go).                                                             *)
(*                                                                         *)
(* A keysd process tests its port, reads its certificate from the keyring  *)
(* or makes one, saves the public half where commands find it (ca.pem),    *)
(* listens, writes its pid file and serves. Every command but the ones     *)
(* that start and stop starts keysd when no process of that name runs,     *)
(* waits for a pid file, loads ca.pem and asks keysd for its version; when *)
(* it differs from its own it restarts keysd and asks again, once.         *)
(*                                                                         *)
(* Processes and commands interleave at every access to the process table, *)
(* the port, the keyring and the two files. keysd may die at any step.     *)
(***************************************************************************)
EXTENDS Naturals

CONSTANTS Users,      \* people (or scripts) who run `keys`, one command at a time
          Daemons,    \* slots for keysd processes: a process id is not reused
                      \* while a command still holds it
          Certs,      \* certificates that can be generated
          None,
          VersionOf,  \* the version of the binaries each user runs
          Worlds,     \* initial states: [users, cert, running, faults]
          MaxFaults   \* bound of a world's faults: crashes, slow starts, and
                      \* stop, start and restart commands

ASSUME NoneAssumption == None \notin Certs
ASSUME WorldsAssumption ==
  Worlds \subseteq [users : SUBSET Users, cert : Certs \cup {None}, running : BOOLEAN,
                   faults : 0..MaxFaults]

VARIABLES keyring,    \* .cert-private and .cert-public
          pem,        \* the file ca.pem
          pid,        \* the file pid: none, empty (being written), or a number
          port,       \* the process listening on the port, if any
          daemon,     \* the keysd processes
          cmd,        \* each user's command
          users,      \* the users of this machine
          faults      \* how many more there may be

vars == <<keyring, pem, pid, port, daemon, cmd, users, faults>>

Torn == "torn"        \* a file between its truncation and its write

Versions == {VersionOf[u] : u \in Users} \cup {"old"}

Dead == [pc |-> "dead", version |-> "old", private |-> None, cert |-> None]
Idle == [pc |-> "idle", op |-> "connect", target |-> None, pem |-> None,
         retry |-> FALSE, result |-> "none"]

Alive(d) == daemon[d].pc # "dead"
Starting(d) == Alive(d) /\ daemon[d].pc # "serving"

\* A certificate no one has.
Unused == Certs \ ({keyring.private, keyring.public, pem}
                     \cup {daemon[d].cert : d \in Daemons})

----------------------------------------------------------------------------
(* keysd *)

Step(d, from, to) == /\ daemon[d].pc = from
                     /\ daemon' = [daemon EXCEPT ![d].pc = to]

Exit(d) == daemon' = [daemon EXCEPT ![d] = Dead]

\* IsPortInUse listens and closes again: for a moment it holds the port.
IsPortInUse(d) ==
  /\ IF port = None THEN Step(d, "probe", "release") /\ port' = d
     ELSE daemon[d].pc = "probe" /\ Exit(d) /\ UNCHANGED port
  /\ UNCHANGED <<keyring, pem, pid, cmd, users, faults>>

ReleasePort(d) ==
  /\ Step(d, "release", "private")
  /\ port' = None
  /\ UNCHANGED <<keyring, pem, pid, cmd, users, faults>>

GetPrivate(d) ==
  /\ daemon[d].pc = "private"
  /\ daemon' = [daemon EXCEPT ![d].pc = "public", ![d].private = keyring.private]
  /\ UNCHANGED <<keyring, pem, pid, port, cmd, users, faults>>

\* Mutant of GetPublic: only the half that is missing is saved.
GetPublicHalf(d) ==
  /\ daemon[d].pc = "public"
  /\ \/ /\ None \notin {daemon[d].private, keyring.public}
        /\ daemon' = [daemon EXCEPT ![d].pc = "truncate", ![d].cert = keyring.public]
     \/ /\ None \in {daemon[d].private, keyring.public}
        /\ \E k \in Unused :
             daemon' = [daemon EXCEPT
               ![d].pc = IF daemon[d].private = None THEN "setPrivate" ELSE "setPublic",
               ![d].private = k, ![d].cert = k]
  /\ UNCHANGED <<keyring, pem, pid, port, cmd, users, faults>>

\* With both halves in the keyring they are used; else a new pair is made.
GetPublic(d) ==
  /\ daemon[d].pc = "public"
  /\ \/ /\ None \notin {daemon[d].private, keyring.public}
        /\ daemon' = [daemon EXCEPT ![d].pc = "truncate", ![d].cert = keyring.public]
     \/ /\ None \in {daemon[d].private, keyring.public}
        /\ \E k \in Unused :
             daemon' = [daemon EXCEPT ![d].pc = "setPrivate",
                                      ![d].private = k, ![d].cert = k]
  /\ UNCHANGED <<keyring, pem, pid, port, cmd, users, faults>>

SetPrivate(d) ==
  /\ Step(d, "setPrivate", "setPublic")
  /\ keyring' = [keyring EXCEPT !.private = daemon[d].private]
  /\ UNCHANGED <<pem, pid, port, cmd, users, faults>>

SetPublic(d) ==
  /\ Step(d, "setPublic", "truncate")
  /\ keyring' = [keyring EXCEPT !.public = daemon[d].cert]
  /\ UNCHANGED <<pem, pid, port, cmd, users, faults>>

\* Mutant of TruncatePEM: a certificate found in the keyring is not saved again.
TruncatePEMOnce(d) ==
  /\ IF pem = None THEN Step(d, "truncate", "write") /\ pem' = Torn
     ELSE Step(d, "truncate", "listen") /\ UNCHANGED pem
  /\ UNCHANGED <<keyring, pid, port, cmd, users, faults>>

TruncatePEM(d) ==
  /\ Step(d, "truncate", "write")
  /\ pem' = Torn
  /\ UNCHANGED <<keyring, pid, port, cmd, users, faults>>

\* Then the pair is loaded; two halves that do not belong together end keysd.
WritePEM(d) ==
  /\ daemon[d].pc = "write"
  /\ pem' = daemon[d].cert
  /\ IF daemon[d].private = daemon[d].cert THEN Step(d, "write", "listen") ELSE Exit(d)
  /\ UNCHANGED <<keyring, pid, port, cmd, users, faults>>

Listen(d) ==
  /\ IF port = None THEN Step(d, "listen", "truncatePID") /\ port' = d
     ELSE daemon[d].pc = "listen" /\ Exit(d) /\ UNCHANGED port
  /\ UNCHANGED <<keyring, pem, pid, cmd, users, faults>>

TruncatePID(d) ==
  /\ Step(d, "truncatePID", "writePID")
  /\ pid' = "empty"
  /\ UNCHANGED <<keyring, pem, port, cmd, users, faults>>

WritePID(d) ==
  /\ Step(d, "writePID", "serving")
  /\ pid' = "number"
  /\ UNCHANGED <<keyring, pem, port, cmd, users, faults>>

\* The process ends, and with it its hold on the port.
Kill(d) == /\ Exit(d)
           /\ port' = IF port = d THEN None ELSE port

Crash(d) ==
  /\ faults > 0 /\ Alive(d)
  /\ Kill(d)
  /\ faults' = faults - 1
  /\ UNCHANGED <<keyring, pem, pid, cmd, users>>

Daemon(d) ==
  \/ IsPortInUse(d) \/ ReleasePort(d) \/ GetPrivate(d) \/ GetPublic(d)
  \/ SetPrivate(d) \/ SetPublic(d) \/ TruncatePEM(d) \/ WritePEM(d)
  \/ Listen(d) \/ TruncatePID(d) \/ WritePID(d)

----------------------------------------------------------------------------
(* The commands *)

Goto(u, pc) == cmd' = [cmd EXCEPT ![u].pc = pc]
Return(u, result) == cmd' = [cmd EXCEPT ![u] = [Idle EXCEPT !.op = cmd[u].op,
                                                            !.result = result]]

\* Commands other than the ones that start and stop run as often as users like.
Begin(u, op) ==
  /\ cmd[u].pc = "idle" /\ u \in users
  /\ IF op = "connect" THEN UNCHANGED faults ELSE faults > 0 /\ faults' = faults - 1
  /\ cmd' = [cmd EXCEPT ![u] = [Idle EXCEPT
               !.op = op, !.retry = (op = "connect"),
               !.pc = IF op \in {"stop", "restart"} THEN "look" ELSE "find"]]
  /\ UNCHANGED <<keyring, pem, pid, port, daemon, users>>

\* Once keysd runs, or seems to, restart and start are done.
Up(u) == IF cmd[u].op = "connect" THEN Goto(u, "load") ELSE Return(u, "ok")

\* Mutant of FindToStart: a pid file is taken for a process that runs.
FindToStartByPID(u) ==
  /\ cmd[u].pc = "find"
  /\ IF pid = "number"
     THEN IF cmd[u].op = "start" THEN Return(u, "error") ELSE Up(u)
     ELSE Goto(u, "exec")
  /\ UNCHANGED <<keyring, pem, pid, port, daemon, users, faults>>

\* startProcess looks for a process by its name ...
FindToStart(u) ==
  /\ cmd[u].pc = "find"
  /\ IF \E d \in Daemons : Alive(d)
     THEN IF cmd[u].op = "start" THEN Return(u, "error") ELSE Up(u)
     ELSE Goto(u, "exec")
  /\ UNCHANGED <<keyring, pem, pid, port, daemon, users, faults>>

\* ... and starts one of its own version when there is none.
StartProcess(u) ==
  /\ cmd[u].pc = "exec"
  /\ \E d \in Daemons :
       /\ ~Alive(d) /\ \A v \in Users : cmd[v].target # d
       /\ daemon' = [daemon EXCEPT ![d] = [Dead EXCEPT !.pc = "probe",
                                                       !.version = VersionOf[u]]]
  /\ Goto(u, "wait")
  /\ UNCHANGED <<keyring, pem, pid, port, users, faults>>

\* waitForPID polls for the pid file, whoever wrote it and whenever.
WaitForPID(u) ==
  /\ cmd[u].pc = "wait"
  /\ \/ pid = "number" /\ Up(u)
     \/ pid = "empty" /\ Return(u, "error")
  /\ UNCHANGED <<keyring, pem, pid, port, daemon, users, faults>>

\* Mutant of WaitTimeout: it never gives up.
WaitForEver(u) == FALSE /\ UNCHANGED <<vars, u>>

\* It takes 10 seconds to give up: a process on its way makes it, or is slow.
WaitTimeout(u) ==
  /\ cmd[u].pc = "wait"
  /\ IF \E d \in Daemons : Starting(d)
     THEN faults > 0 /\ faults' = faults - 1 ELSE UNCHANGED faults
  /\ Return(u, "error")
  /\ UNCHANGED <<keyring, pem, pid, port, daemon, users>>

LoadCertificate(u) ==
  /\ cmd[u].pc = "load"
  /\ IF pem \in {None, Torn} THEN Return(u, "error")
     ELSE cmd' = [cmd EXCEPT ![u].pc = "status", ![u].pem = pem]
  /\ UNCHANGED <<keyring, pem, pid, port, daemon, users, faults>>

\* The RPC fails when nothing listens, or TLS does not know the certificate;
\* a process that listens and does not serve yet keeps it waiting.
RuntimeStatus(u) ==
  /\ cmd[u].pc = "status"
  /\ IF port = None \/ daemon[port].pc = "release" THEN Return(u, "error")
     ELSE /\ daemon[port].pc = "serving"
          /\ IF cmd[u].pem # daemon[port].cert THEN Return(u, "error")
             ELSE IF VersionOf[u] = daemon[port].version THEN Return(u, "ok")
             ELSE IF ~cmd[u].retry THEN Return(u, "error")
             ELSE cmd' = [cmd EXCEPT ![u].pc = "look", ![u].retry = FALSE]
  /\ UNCHANGED <<keyring, pem, pid, port, daemon, users, faults>>

\* stopProcess: the first process of that name, in no particular order.
FindToStop(u) ==
  /\ cmd[u].pc = "look"
  /\ \/ \E d \in Daemons :
          Alive(d) /\ cmd' = [cmd EXCEPT ![u].pc = "kill", ![u].target = d]
     \/ /\ \A d \in Daemons : ~Alive(d)
        /\ IF cmd[u].op = "stop" THEN Return(u, "error") ELSE Goto(u, "find")
  /\ UNCHANGED <<keyring, pem, pid, port, daemon, users, faults>>

\* stop then removes the pid file; restart leaves it where it is.
StopProcess(u) ==
  /\ cmd[u].pc = "kill"
  /\ LET d == cmd[u].target IN
       IF Alive(d)
       THEN /\ Kill(d)
            /\ cmd' = [cmd EXCEPT ![u].target = None,
                                  ![u].pc = IF cmd[u].op = "stop" THEN "remove" ELSE "find"]
       ELSE Return(u, "error") /\ UNCHANGED <<daemon, port>>
  /\ UNCHANGED <<keyring, pem, pid, users, faults>>

RemovePID(u) ==
  /\ cmd[u].pc = "remove"
  /\ pid' = "none"
  /\ Return(u, "ok")
  /\ UNCHANGED <<keyring, pem, port, daemon, users, faults>>

Command(u) ==
  \/ FindToStart(u) \/ StartProcess(u) \/ WaitForPID(u) \/ WaitTimeout(u)
  \/ LoadCertificate(u) \/ RuntimeStatus(u)
  \/ FindToStop(u) \/ StopProcess(u) \/ RemovePID(u)

----------------------------------------------------------------------------
Ops == {"connect", "start", "stop", "restart"}

\* A machine where keysd never ran, or ran before: with a certificate, perhaps
\* with a process of an older version still serving, or its pid file left over.
Init ==
  /\ cmd = [u \in Users |-> Idle]
  /\ \E w \in Worlds :
       /\ users = w.users /\ faults = w.faults
       /\ keyring = [private |-> w.cert, public |-> w.cert]
       /\ pem = w.cert
       /\ \E d0 \in Daemons :
            /\ daemon = [d \in Daemons |->
                 IF w.running /\ d = d0
                 THEN [pc |-> "serving", version |-> "old",
                       private |-> w.cert, cert |-> w.cert]
                 ELSE Dead]
            /\ port = IF w.running THEN d0 ELSE None
       /\ pid \in IF w.running THEN {"number"} ELSE {"none", "number"}

Next == \/ \E d \in Daemons : Daemon(d) \/ Crash(d)
        \/ \E u \in Users : Command(u) \/ \E op \in Ops : Begin(u, op)

\* Processes and commands run on; users go on using `keys`.
Fairness ==
  /\ \A d \in Daemons : WF_vars(Daemon(d))
  /\ \A u \in Users : WF_vars(Command(u)) /\ WF_vars(Begin(u, "connect"))

Spec == Init /\ [][Next]_vars /\ Fairness

----------------------------------------------------------------------------
CertOrNone == Certs \cup {None}

TypeOK ==
  /\ keyring \in [private : CertOrNone, public : CertOrNone]
  /\ pem \in CertOrNone \cup {Torn}
  /\ pid \in {"none", "empty", "number"}
  /\ port \in Daemons \cup {None}
  /\ daemon \in [Daemons -> [pc : {"dead", "probe", "release", "private", "public",
                                   "setPrivate", "setPublic", "truncate", "write",
                                   "listen", "truncatePID", "writePID", "serving"},
                             version : Versions, private : CertOrNone, cert : CertOrNone]]
  /\ cmd \in [Users -> [pc : {"idle", "find", "exec", "wait", "load", "status",
                              "look", "kill", "remove"},
                        op : Ops, target : Daemons \cup {None}, pem : CertOrNone,
                        retry : BOOLEAN, result : {"none", "ok", "error"}]]
  /\ users \subseteq Users
  /\ faults \in 0..MaxFaults

\* Whatever died at whatever step, and although two commands may start two
\* processes, the halves of the certificate in the keyring belong together when
\* no process is saving them, so keysd can always start again.
Generating == \E d \in Daemons : daemon[d].pc \in {"setPrivate", "setPublic"}
PairWhole == \/ Generating
             \/ None \in {keyring.private, keyring.public}
             \/ keyring.private = keyring.public

\* The certificate commands find in ca.pem is the one of the process that
\* serves: no process that came second, and lost the port, leaves another behind.
\* At worst, where a second user can start one, it leaves the file torn.
ServesWhatIsSaved ==
  \A d \in Daemons : daemon[d].pc = "serving" =>
    /\ pem = daemon[d].cert \/ (pem = Torn /\ \E u, v \in users : u # v)
    /\ keyring.public = daemon[d].cert

\* Every command ends, also the ones whose process dies or loses the port.
CommandsEnd == \A u \in Users : cmd[u].pc # "idle" ~> cmd[u].pc = "idle"

\* A user alone on the machine, who runs a command again when it failed, gets
\* through after the last fault: to a process of her version, made anew if none
\* runs, restarted if it was another's, whatever files a dead one left behind.
Connected(u) == cmd[u].pc = "idle" /\ cmd[u].op = "connect" /\ cmd[u].result = "ok"
GetsThrough == \A u \in Users : users = {u} => []<>Connected(u)
=============================================================================
