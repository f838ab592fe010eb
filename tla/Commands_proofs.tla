-------------------------- MODULE Commands_proofs --------------------------
(***************************************************************************)
(* Proofs about the `keys` commands, in three parts.                       *)
(*                                                                         *)
(* keysd's certificate: either the users of the machine are one person at  *)
(* most, and then at most one keysd process is alive; or the machine has a *)
(* certificate already, and then no process makes another.                 *)
(*                                                                         *)
(* Files: a call that nobody overlapped is the only one that runs, so      *)
(* {out}.tmp, whatever a dead call left there, is its own from Create on;  *)
(* and the path {out} names another file until Rename, when all is         *)
(* written.                                                                *)
(*                                                                         *)
(* Streams: what is printed, on its way back, held by saltpack and on its  *)
(* way to keysd is one run of chunks, each the next of the one before, and *)
(* the empty message comes after the last.                                 *)
(***************************************************************************)
EXTENDS Process, Files, Streams, SequenceTheorems, TLAPS

-----------------------------------------------------------------------------
(* keysd's certificate.                                                    *)

DaemonPCs == {"dead", "probe", "release", "private", "public", "setPrivate", "setPublic",
              "truncate", "write", "listen", "truncatePID", "writePID", "serving"}
CmdPCs == {"idle", "find", "exec", "wait", "load", "status", "look", "kill", "remove"}

DaemonType == [pc : DaemonPCs, version : Versions, private : CertOrNone, cert : CertOrNone]
CmdType == [pc : CmdPCs, op : Ops, target : Daemons \cup {None}, pem : CertOrNone,
            retry : BOOLEAN, result : {"none", "ok", "error"}]

\* What the proofs need of the types.
KeysdTypes ==
  /\ keyring \in [private : CertOrNone, public : CertOrNone]
  /\ daemon \in [Daemons -> DaemonType]
  /\ cmd \in [Users -> CmdType]
  /\ pem \in CertOrNone \cup {Torn}
  /\ users \subseteq Users

Lone == \A u, v \in users : u = v

\* Of one person's processes at most one is alive, and all follow the keyring.
LoneInv ==
  /\ \A u \in Users : cmd[u].pc # "idle" => u \in users
  /\ \A d, e \in Daemons : Alive(d) /\ Alive(e) => d = e
  /\ \A u \in Users : cmd[u].pc = "exec" => \A d \in Daemons : ~Alive(d)
  /\ keyring.public = None \/ keyring.private = keyring.public
  /\ \A d \in Daemons :
       /\ daemon[d].pc = "public" => daemon[d].private = keyring.private
       /\ daemon[d].pc = "setPrivate" => /\ daemon[d].private = daemon[d].cert
                                         /\ keyring.public = None
       /\ daemon[d].pc = "setPublic" => /\ daemon[d].private = daemon[d].cert
                                        /\ keyring.private = daemon[d].cert
       /\ daemon[d].pc \in {"truncate", "write", "listen", "truncatePID", "writePID", "serving"}
            => daemon[d].cert = keyring.public
       /\ daemon[d].pc \in {"listen", "truncatePID", "writePID", "serving"}
            => pem = daemon[d].cert

\* Where there is a certificate it stays, and ca.pem is at worst torn.
CertInv ==
  \E k \in Certs :
    /\ keyring.private = k /\ keyring.public = k
    /\ pem \in {k, Torn}
    /\ \A d \in Daemons :
         /\ daemon[d].pc \notin {"setPrivate", "setPublic"}
         /\ daemon[d].pc = "public" => daemon[d].private = k
         /\ daemon[d].pc \in {"truncate", "write", "listen", "truncatePID", "writePID", "serving"}
              => daemon[d].cert = k

KeysdInv == KeysdTypes /\ (Lone => LoneInv) /\ (~Lone => CertInv)

-----------------------------------------------------------------------------
(* Every variable keeps its type. *)

LEMMA DaemonSteps ==
    ASSUME KeysdTypes, NEW d \in Daemons, NEW from, NEW to \in DaemonPCs, Step(d, from, to) \/ Exit(d)
    PROVE  daemon' \in [Daemons -> DaemonType]
<1>1. CASE Step(d, from, to)
  BY <1>1 DEF KeysdTypes, DaemonType, Step
<1>2. Dead \in DaemonType
  BY DEF Dead, DaemonType, DaemonPCs, CertOrNone, Versions
<1>3. CASE Exit(d)
  BY <1>2, <1>3 DEF KeysdTypes, Exit
<1> QED BY <1>1, <1>3

LEMMA GotoStep ==
    ASSUME KeysdTypes, NEW u \in Users, NEW pc \in CmdPCs, Goto(u, pc)
    PROVE  /\ cmd' \in [Users -> CmdType] /\ cmd'[u].pc = pc
           /\ \A v \in Users : v # u => cmd'[v] = cmd[v]
BY DEF KeysdTypes, CmdType, Goto

LEMMA CommandReturns ==
    ASSUME KeysdTypes, NEW u \in Users, NEW r \in {"ok", "error"}, Return(u, r)
    PROVE  /\ cmd' \in [Users -> CmdType] /\ cmd'[u].pc = "idle"
           /\ \A v \in Users : v # u => cmd'[v] = cmd[v]
<1> DEFINE new == [Idle EXCEPT !.op = cmd[u].op, !.result = r]
<1>1. new \in CmdType /\ new.pc = "idle"
  BY DEF KeysdTypes, CmdType, CmdPCs, Idle, CertOrNone
<1>2. cmd' = [cmd EXCEPT ![u] = new]
  BY DEF Return
<1> HIDE DEF new
<1> QED BY <1>1, <1>2 DEF KeysdTypes

LEMMA DaemonTypes == ASSUME KeysdTypes, NEW d \in Daemons, Daemon(d) \/ Crash(d)
                     PROVE  KeysdTypes' /\ cmd' = cmd /\ users' = users
<1>1. cmd' = cmd /\ users' = users
  BY DEF Daemon, Crash, IsPortInUse, ReleasePort, GetPrivate, GetPublic, SetPrivate, SetPublic,
         TruncatePEM, WritePEM, Listen, TruncatePID, WritePID
<1>2. keyring' \in [private : CertOrNone, public : CertOrNone]
  BY DEF Daemon, Crash, IsPortInUse, ReleasePort, GetPrivate, GetPublic, SetPrivate, SetPublic,
         TruncatePEM, WritePEM, Listen, TruncatePID, WritePID, KeysdTypes, DaemonType
<1>3. pem' \in CertOrNone \cup {Torn}
  BY DEF Daemon, Crash, IsPortInUse, ReleasePort, GetPrivate, GetPublic, SetPrivate, SetPublic,
         TruncatePEM, WritePEM, Listen, TruncatePID, WritePID, KeysdTypes, DaemonType
<1>4. daemon' \in [Daemons -> DaemonType]
  <2>1. CASE GetPrivate(d)
    BY <2>1 DEF GetPrivate, KeysdTypes, DaemonType, DaemonPCs
  <2>2. CASE GetPublic(d)
    <3>1. CASE None \notin {daemon[d].private, keyring.public}
      <4>1. daemon' = [daemon EXCEPT ![d].pc = "truncate", ![d].cert = keyring.public]
        BY <2>2, <3>1 DEF GetPublic
      <4> QED BY <4>1 DEF KeysdTypes, DaemonType, DaemonPCs
    <3>2. CASE None \in {daemon[d].private, keyring.public}
      <4>1. PICK k \in Unused :
              daemon' = [daemon EXCEPT ![d].pc = "setPrivate", ![d].private = k, ![d].cert = k]
        BY <2>2, <3>2 DEF GetPublic
      <4>2. k \in CertOrNone
        BY DEF Unused, CertOrNone
      <4> QED BY ZenonT(30), <4>1, <4>2 DEF KeysdTypes, DaemonType, DaemonPCs
    <3> QED BY <3>1, <3>2
  <2>3. ASSUME ~GetPrivate(d), ~GetPublic(d)
        PROVE  \E from, to \in DaemonPCs : Step(d, from, to) \/ Exit(d)
    BY <2>3 DEF Daemon, Crash, Kill, IsPortInUse, ReleasePort, GetPrivate, GetPublic, SetPrivate, SetPublic,
         TruncatePEM, WritePEM, Listen, TruncatePID, WritePID, DaemonPCs
  <2> QED BY <2>1, <2>2, <2>3, DaemonSteps
<1> QED BY <1>1, <1>2, <1>3, <1>4 DEF KeysdTypes

\* A command moves no one else's, and is about to start a process only if none is alive.
LEMMA CommandTypes ==
    ASSUME KeysdTypes, NEW u \in Users, Command(u)
    PROVE  /\ KeysdTypes' /\ keyring' = keyring /\ pem' = pem /\ users' = users
           /\ cmd[u].pc # "idle"
           /\ \A v \in Users : v # u => cmd'[v] = cmd[v]
           /\ cmd'[u].pc = "exec" => daemon' = daemon /\ \A d \in Daemons : ~Alive(d)
<1>1. keyring' = keyring /\ pem' = pem /\ users' = users /\ cmd[u].pc # "idle"
  BY DEF Command, FindToStart, StartProcess, WaitForPID, WaitTimeout, LoadCertificate,
         RuntimeStatus, FindToStop, StopProcess, RemovePID
<1>2. daemon' \in [Daemons -> DaemonType]
  <2>1. CASE StartProcess(u)
    <3>1. PICK d \in Daemons :
            daemon' = [daemon EXCEPT ![d] = [Dead EXCEPT !.pc = "probe", !.version = VersionOf[u]]]
      BY <2>1 DEF StartProcess
    <3>2. [Dead EXCEPT !.pc = "probe", !.version = VersionOf[u]] \in DaemonType
      BY DEF Dead, DaemonType, DaemonPCs, CertOrNone, Versions
    <3> QED BY <3>1, <3>2 DEF KeysdTypes
  <2>2. CASE StopProcess(u)
    <3>1. daemon' = daemon \/ \E d \in Daemons : Exit(d)
      BY <2>2 DEF StopProcess, Kill, Exit, KeysdTypes, Alive, Dead
    <3> QED BY <3>1, DaemonSteps DEF KeysdTypes, DaemonPCs
  <2>3. ~StartProcess(u) /\ ~StopProcess(u) => daemon' = daemon
    BY DEF Command, FindToStart, WaitForPID, WaitTimeout, LoadCertificate, RuntimeStatus,
           FindToStop, RemovePID
  <2> QED BY <2>1, <2>2, <2>3 DEF KeysdTypes
<1> DEFINE Moves == /\ cmd' \in [Users -> CmdType]
                    /\ \A v \in Users : v # u => cmd'[v] = cmd[v]
                    /\ cmd'[u].pc = "exec" => daemon' = daemon /\ \A d \in Daemons : ~Alive(d)
<1>3. /\ \A pc \in CmdPCs \ {"exec"} : Goto(u, pc) => Moves
      /\ \A r \in {"ok", "error"} : Return(u, r) => Moves
  BY GotoStep, CommandReturns
<1> HIDE DEF Moves
<1>4. ASSUME FindToStart(u) PROVE Moves
  <2>1. CASE \E d \in Daemons : Alive(d)
    BY <2>1, <1>3, <1>4 DEF FindToStart, Up, CmdPCs
  <2>2. CASE \A d \in Daemons : ~Alive(d)
    <3>1. Goto(u, "exec") /\ daemon' = daemon
      BY <2>2, <1>4 DEF FindToStart
    <3> QED BY <2>2, <3>1, GotoStep DEF Moves, CmdPCs
  <2> QED BY <2>1, <2>2
<1>5. ASSUME StartProcess(u) \/ WaitForPID(u) \/ WaitTimeout(u) \/ RemovePID(u) PROVE Moves
  BY <1>3, <1>5 DEF StartProcess, WaitForPID, WaitTimeout, RemovePID, Up, CmdPCs
<1>6. ASSUME LoadCertificate(u) PROVE Moves
  <2>1. CASE Return(u, "error")
    BY <2>1, <1>3 DEF CmdPCs
  <2>2. CASE pem \notin {None, Torn} /\ cmd' = [cmd EXCEPT ![u].pc = "status", ![u].pem = pem]
    <3>1. cmd' \in [Users -> CmdType]
      <4> DEFINE new == [cmd[u] EXCEPT !.pc = "status", !.pem = pem]
      <4>1. cmd' = [cmd EXCEPT ![u] = new]
        BY <2>2 DEF KeysdTypes, CmdType
      <4>2. new \in CmdType
        BY <2>2 DEF KeysdTypes, CmdType, CmdPCs
      <4> HIDE DEF new
      <4> QED BY <4>1, <4>2 DEF KeysdTypes
    <3>2. cmd'[u].pc = "status" /\ \A v \in Users : v # u => cmd'[v] = cmd[v]
      BY <2>2 DEF KeysdTypes, CmdType
    <3> QED BY <3>1, <3>2 DEF Moves
  <2> QED BY <2>1, <2>2, <1>6 DEF LoadCertificate
<1>7. ASSUME RuntimeStatus(u) PROVE Moves
  <2>1. CASE Return(u, "error") \/ Return(u, "ok")
    BY <2>1, <1>3 DEF CmdPCs
  <2>2. CASE cmd' = [cmd EXCEPT ![u].pc = "look", ![u].retry = FALSE]
    <3>1. cmd' \in [Users -> CmdType]
      <4> DEFINE new == [cmd[u] EXCEPT !.pc = "look", !.retry = FALSE]
      <4>1. cmd' = [cmd EXCEPT ![u] = new]
        BY <2>2 DEF KeysdTypes, CmdType
      <4>2. new \in CmdType
        BY <2>2 DEF KeysdTypes, CmdType, CmdPCs
      <4> HIDE DEF new
      <4> QED BY <4>1, <4>2 DEF KeysdTypes
    <3>2. cmd'[u].pc = "look" /\ \A v \in Users : v # u => cmd'[v] = cmd[v]
      BY <2>2 DEF KeysdTypes, CmdType
    <3> QED BY <3>1, <3>2 DEF Moves
  <2> QED BY <2>1, <2>2, <1>7 DEF RuntimeStatus
<1>8. ASSUME FindToStop(u) PROVE Moves
  <2>1. CASE Return(u, "error") \/ Goto(u, "find")
    BY <2>1, <1>3 DEF CmdPCs
  <2>2. CASE \E d \in Daemons : cmd' = [cmd EXCEPT ![u].pc = "kill", ![u].target = d]
    <3>1. PICK d \in Daemons : cmd' = [cmd EXCEPT ![u].pc = "kill", ![u].target = d]
      BY <2>2
    <3>2. cmd' \in [Users -> CmdType]
      <4> DEFINE new == [cmd[u] EXCEPT !.pc = "kill", !.target = d]
      <4>1. cmd' = [cmd EXCEPT ![u] = new]
        BY <3>1 DEF KeysdTypes, CmdType
      <4>2. new \in CmdType
        BY <3>1 DEF KeysdTypes, CmdType, CmdPCs
      <4> HIDE DEF new
      <4> QED BY <4>1, <4>2 DEF KeysdTypes
    <3>3. cmd'[u].pc = "kill" /\ \A v \in Users : v # u => cmd'[v] = cmd[v]
      BY <3>1 DEF KeysdTypes, CmdType
    <3> QED BY <3>2, <3>3 DEF Moves
  <2> QED BY <2>1, <2>2, <1>8 DEF FindToStop
<1>9. ASSUME StopProcess(u) PROVE Moves
  <2>1. CASE Return(u, "error")
    BY <2>1, <1>3 DEF CmdPCs
  <2>2. CASE \E pc \in {"remove", "find"} : cmd' = [cmd EXCEPT ![u].target = None, ![u].pc = pc]
    <3>1. PICK pc \in {"remove", "find"} : cmd' = [cmd EXCEPT ![u].target = None, ![u].pc = pc]
      BY <2>2
    <3>2. cmd' \in [Users -> CmdType]
      <4> DEFINE new == [cmd[u] EXCEPT !.target = None, !.pc = pc]
      <4>1. cmd' = [cmd EXCEPT ![u] = new]
        BY <3>1 DEF KeysdTypes, CmdType
      <4>2. new \in CmdType
        BY <3>1 DEF KeysdTypes, CmdType, CmdPCs
      <4> HIDE DEF new
      <4> QED BY <4>1, <4>2 DEF KeysdTypes
    <3>3. cmd'[u].pc = pc /\ \A v \in Users : v # u => cmd'[v] = cmd[v]
      BY <3>1 DEF KeysdTypes, CmdType
    <3> QED BY <3>2, <3>3 DEF Moves
  <2> QED BY <2>1, <2>2, <1>9 DEF StopProcess
<1>10. Moves
  BY <1>4, <1>5, <1>6, <1>7, <1>8, <1>9 DEF Command
<1> QED BY <1>1, <1>2, <1>10 DEF Moves, KeysdTypes

LEMMA BeginTypes ==
    ASSUME KeysdTypes, NEW u \in Users, NEW op \in Ops, Begin(u, op)
    PROVE  /\ KeysdTypes' /\ keyring' = keyring /\ pem' = pem /\ users' = users /\ daemon' = daemon
           /\ u \in users /\ cmd'[u].pc # "exec"
           /\ \A v \in Users : v # u => cmd'[v] = cmd[v]
<1> DEFINE r == [Idle EXCEPT !.op = op, !.retry = (op = "connect"),
                             !.pc = IF op \in {"stop", "restart"} THEN "look" ELSE "find"]
<1>1. r \in CmdType /\ r.pc # "exec"
  BY DEF CmdType, CmdPCs, Idle, CertOrNone
<1>2. cmd' = [cmd EXCEPT ![u] = r] /\ UNCHANGED <<keyring, pem, users, daemon>> /\ u \in users
  BY DEF Begin
<1> HIDE DEF r
<1> QED BY <1>1, <1>2 DEF KeysdTypes

-----------------------------------------------------------------------------
(* One person. *)

LEMMA LoneNext == KeysdTypes /\ Lone /\ LoneInv /\ [Next]_vars => LoneInv'
<1> SUFFICES ASSUME KeysdTypes, Lone, LoneInv, [Next]_vars PROVE LoneInv'
  OBVIOUS
<1> USE DEF KeysdTypes, DaemonType, DaemonPCs, CmdType, CmdPCs, Lone, LoneInv, Alive, Step, Exit, Goto, Return, Dead, Idle
<1>1. ASSUME NEW d \in Daemons, Daemon(d) \/ Crash(d) PROVE LoneInv'
  <2>1. ASSUME IsPortInUse(d) PROVE LoneInv'
    BY <2>1 DEF IsPortInUse
  <2>2. ASSUME ReleasePort(d) PROVE LoneInv'
    BY <2>2 DEF ReleasePort
  <2>3. ASSUME GetPrivate(d) PROVE LoneInv'
    BY <2>3 DEF GetPrivate
  <2>4. ASSUME GetPublic(d) PROVE LoneInv'
    <3>1. PICK pc \in {"truncate", "setPrivate"} :
            /\ daemon'[d].pc = pc
            /\ pc = "truncate" => daemon'[d].cert = keyring.public
            /\ pc = "setPrivate" => /\ daemon'[d].private = daemon'[d].cert
                                    /\ None \in {keyring.private, keyring.public}
      <4>1. CASE None \in {daemon[d].private, keyring.public}
        <5>1. PICK k \in Unused :
                daemon' = [daemon EXCEPT ![d].pc = "setPrivate", ![d].private = k, ![d].cert = k]
          BY <2>4, <4>1 DEF GetPublic
        <5>2. daemon[d].private = keyring.private
          BY <2>4 DEF GetPublic
        <5> QED BY <4>1, <5>1, <5>2
      <4>2. CASE None \notin {daemon[d].private, keyring.public}
        <5>1. daemon' = [daemon EXCEPT ![d].pc = "truncate", ![d].cert = keyring.public]
          BY <2>4, <4>2 DEF GetPublic
        <5> QED BY <5>1
      <4> QED BY <4>1, <4>2
    <3>2. /\ UNCHANGED <<keyring, pem, users, cmd>> /\ daemon[d].pc = "public"
          /\ \A e \in Daemons : e # d => daemon'[e] = daemon[e]
      BY <2>4 DEF GetPublic
    <3> QED BY <3>1, <3>2
  <2>5. ASSUME SetPrivate(d) PROVE LoneInv'
    BY <2>5 DEF SetPrivate
  <2>6. ASSUME SetPublic(d) PROVE LoneInv'
    BY <2>6 DEF SetPublic
  <2>7. ASSUME TruncatePEM(d) PROVE LoneInv'
    BY <2>7 DEF TruncatePEM
  <2>8. ASSUME WritePEM(d) PROVE LoneInv'
    BY <2>8 DEF WritePEM
  <2>9. ASSUME Listen(d) PROVE LoneInv'
    BY <2>9 DEF Listen
  <2>10. ASSUME TruncatePID(d) PROVE LoneInv'
    BY <2>10 DEF TruncatePID
  <2>11. ASSUME WritePID(d) PROVE LoneInv'
    BY <2>11 DEF WritePID
  <2>12. ASSUME Crash(d) PROVE LoneInv'
    BY <2>12 DEF Crash, Kill
  <2> QED BY <1>1, <2>1, <2>2, <2>3, <2>4, <2>5, <2>6, <2>7, <2>8, <2>9, <2>10, <2>11, <2>12 DEF Daemon
<1>2. ASSUME NEW u \in Users, Command(u) PROVE LoneInv'
  <2>1. /\ keyring' = keyring /\ pem' = pem /\ users' = users /\ u \in users
        /\ \A v \in Users : v # u => cmd'[v] = cmd[v] /\ cmd[v].pc = "idle"
        /\ cmd'[u].pc = "exec" => daemon' = daemon /\ \A d \in Daemons : ~Alive(d)
    BY <1>2, CommandTypes
  <2>2. CASE StartProcess(u)
    <3>1. PICK d \in Daemons :
            daemon' = [daemon EXCEPT ![d] = [Dead EXCEPT !.pc = "probe", !.version = VersionOf[u]]]
      BY <2>2 DEF StartProcess
    <3>2. \A e \in Daemons : ~Alive(e)
      BY <2>2 DEF StartProcess
    <3>3. /\ daemon'[d].pc = "probe"
          /\ \A e \in Daemons : e # d => daemon'[e] = daemon[e]
      BY <3>1
    <3>4. \A v \in Users : cmd'[v].pc # "exec"
      BY <2>1, <2>2, GotoStep DEF StartProcess, CmdPCs
    <3> QED BY <2>1, <3>2, <3>3, <3>4
  <2>3. CASE StopProcess(u)
    <3>1. \/ daemon' = daemon
          \/ \E d \in Daemons : /\ daemon'[d].pc = "dead"
                                /\ \A e \in Daemons : e # d => daemon'[e] = daemon[e]
      BY <2>3 DEF StopProcess, Kill
    <3> QED BY <2>1, <3>1
  <2>4. ~StartProcess(u) /\ ~StopProcess(u) => daemon' = daemon
    BY <1>2 DEF Command, FindToStart, WaitForPID, WaitTimeout, LoadCertificate, RuntimeStatus,
           FindToStop, RemovePID
  <2>5. CASE daemon' = daemon
    BY <2>1, <2>5
  <2> QED BY <2>2, <2>3, <2>4, <2>5
<1>3. ASSUME NEW u \in Users, NEW op \in Ops, Begin(u, op) PROVE LoneInv'
  BY SMTT(30), <1>3, BeginTypes
<1>4. CASE UNCHANGED vars
  BY <1>4 DEF vars
<1> QED BY <1>1, <1>2, <1>3, <1>4 DEF Next

-----------------------------------------------------------------------------
(* A machine with a certificate. *)

LEMMA CertNext == KeysdTypes /\ CertInv /\ [Next]_vars => CertInv'
<1> SUFFICES ASSUME KeysdTypes, CertInv, [Next]_vars PROVE CertInv'
  OBVIOUS
<1>0. PICK k \in Certs :
        /\ keyring.private = k /\ keyring.public = k
        /\ pem \in {k, Torn}
        /\ \A d \in Daemons :
             /\ daemon[d].pc \notin {"setPrivate", "setPublic"}
             /\ daemon[d].pc = "public" => daemon[d].private = k
             /\ daemon[d].pc \in {"truncate", "write", "listen", "truncatePID", "writePID", "serving"}
                  => daemon[d].cert = k
  BY DEF CertInv
<1> DEFINE Follows(d) ==
             /\ daemon[d].pc \notin {"setPrivate", "setPublic"}
             /\ daemon[d].pc = "public" => daemon[d].private = k
             /\ daemon[d].pc \in {"truncate", "write", "listen", "truncatePID", "writePID", "serving"}
                  => daemon[d].cert = k
<1>a. SUFFICES /\ keyring' = keyring
               /\ pem' \in {k, Torn}
               /\ \A d \in Daemons : Follows(d)'
  BY <1>0 DEF CertInv
<1> USE <1>0, NoneAssumption DEF KeysdTypes, DaemonType, DaemonPCs, Step, Exit, Dead
<1>1. ASSUME NEW d \in Daemons, Daemon(d) \/ Crash(d)
      PROVE  /\ keyring' = keyring /\ pem' \in {k, Torn}
             /\ \A e \in Daemons : Follows(e)'
  <2>1. CASE IsPortInUse(d)
    BY <2>1 DEF IsPortInUse
  <2>2. CASE ReleasePort(d)
    BY <2>2 DEF ReleasePort
  <2>3. CASE GetPrivate(d)
    BY <2>3 DEF GetPrivate
  <2>4. CASE GetPublic(d)
    <3>1. None \notin {daemon[d].private, keyring.public}
      BY <2>4 DEF GetPublic
    <3>2. daemon' = [daemon EXCEPT ![d].pc = "truncate", ![d].cert = keyring.public]
      BY <2>4, <3>1 DEF GetPublic
    <3> QED BY <2>4, <3>2 DEF GetPublic
  <2>5. CASE SetPrivate(d)
    BY <2>5 DEF SetPrivate
  <2>6. CASE SetPublic(d)
    BY <2>6 DEF SetPublic
  <2>7. CASE TruncatePEM(d)
    BY <2>7 DEF TruncatePEM
  <2>8. CASE WritePEM(d)
    BY <2>8 DEF WritePEM
  <2>9. CASE Listen(d)
    BY <2>9 DEF Listen
  <2>10. CASE TruncatePID(d)
    BY <2>10 DEF TruncatePID
  <2>11. CASE WritePID(d)
    BY <2>11 DEF WritePID
  <2>12. CASE Crash(d)
    BY <2>12 DEF Crash, Kill
  <2> QED BY <1>1, <2>1, <2>2, <2>3, <2>4, <2>5, <2>6, <2>7, <2>8, <2>9, <2>10, <2>11, <2>12 DEF Daemon
<1>2. ASSUME NEW u \in Users, Command(u)
      PROVE  /\ keyring' = keyring /\ pem' = pem
             /\ \A e \in Daemons : daemon'[e] = daemon[e] \/ daemon'[e].pc \in {"dead", "probe"}
  <2>1. keyring' = keyring /\ pem' = pem
    BY <1>2, CommandTypes
  <2>2. \A e \in Daemons : daemon'[e] = daemon[e] \/ daemon'[e].pc \in {"dead", "probe"}
    <3>1. CASE StartProcess(u)
      BY <3>1 DEF StartProcess
    <3>2. CASE StopProcess(u)
      BY <3>2 DEF StopProcess, Kill
    <3>3. ~StartProcess(u) /\ ~StopProcess(u) => daemon' = daemon
      BY <1>2 DEF Command, FindToStart, WaitForPID, WaitTimeout, LoadCertificate, RuntimeStatus,
             FindToStop, RemovePID
    <3> QED BY <3>1, <3>2, <3>3
  <2> QED BY <2>1, <2>2
<1>3. ASSUME NEW u \in Users, NEW op \in Ops, Begin(u, op)
      PROVE  keyring' = keyring /\ pem' = pem /\ daemon' = daemon
  BY <1>3, BeginTypes
<1>4. CASE UNCHANGED vars
  BY <1>4 DEF vars
<1> QED BY <1>1, <1>2, <1>3, <1>4 DEF Next

-----------------------------------------------------------------------------
\* Two people start on a machine only where there is a certificate.
WorldsFit == \A w \in Worlds : (\A u, v \in w.users : u = v) \/ w.cert # None

LEMMA KeysdInit == WorldsFit /\ Init => KeysdInv
<1> SUFFICES ASSUME WorldsFit, Init PROVE KeysdInv
  OBVIOUS
<1>1. PICK w \in Worlds, d0 \in Daemons :
         /\ users = w.users
         /\ keyring = [private |-> w.cert, public |-> w.cert]
         /\ pem = w.cert
         /\ daemon = [d \in Daemons |->
                 IF w.running /\ d = d0
                 THEN [pc |-> "serving", version |-> "old",
                       private |-> w.cert, cert |-> w.cert]
                 ELSE Dead]
  BY DEF Init
<1>2. w.users \subseteq Users /\ w.cert \in CertOrNone
  BY WorldsAssumption DEF CertOrNone
<1>3. cmd = [u \in Users |-> Idle]
  BY DEF Init
<1>4. KeysdTypes
  BY <1>1, <1>2, <1>3 DEF KeysdTypes, DaemonType, CmdType, DaemonPCs, CmdPCs, CertOrNone, Versions,
                          Dead, Idle, Ops
<1>5. Lone => LoneInv
  BY <1>1, <1>3 DEF LoneInv, Alive, Dead, Idle
<1>6. ~Lone => CertInv
  BY <1>1, <1>2 DEF WorldsFit, Lone, CertInv, CertOrNone, Dead
<1> QED BY <1>4, <1>5, <1>6 DEF KeysdInv

LEMMA KeysdNext == KeysdInv /\ [Next]_vars => KeysdInv'
<1> SUFFICES ASSUME KeysdInv, [Next]_vars PROVE KeysdInv'
  OBVIOUS
<1>1. KeysdTypes' /\ users' = users
  <2>1. CASE UNCHANGED vars
    BY <2>1 DEF vars, KeysdInv, KeysdTypes
  <2> QED BY <2>1, DaemonTypes, CommandTypes, BeginTypes DEF KeysdInv, Next
<1>2. Lone' <=> Lone
  BY <1>1 DEF Lone
<1> QED BY <1>1, <1>2, LoneNext, CertNext DEF KeysdInv

\* The halves of the certificate in the keyring belong together, whatever died at
\* whatever step, unless two people start on a machine that has none.
THEOREM PairWholeCorrect == ASSUME WorldsFit PROVE Spec => []PairWhole
<1>1. KeysdInv => PairWhole
  BY DEF KeysdInv, LoneInv, CertInv, PairWhole
<1> QED BY <1>1, KeysdInit, KeysdNext, PTL DEF Spec

\* A command finds the certificate of the process that serves, under the same condition.
THEOREM ServesWhatIsSavedCorrect == ASSUME WorldsFit PROVE Spec => []ServesWhatIsSaved
<1>1. KeysdInv => ServesWhatIsSaved
  BY DEF KeysdInv, KeysdTypes, Lone, LoneInv, CertInv, ServesWhatIsSaved
<1> QED BY <1>1, KeysdInit, KeysdNext, PTL DEF Spec

-----------------------------------------------------------------------------
(* Files.                                                                  *)

PCs == {"none", "exists", "header", "create", "write", "rename", "lookup", "cleanup", "ended"}
Contents == [Offsets -> FileCalls \cup {Nobody, Owner}]
CallType == [pc : PCs, kind : {"write", "read"}, size : 1..2,
             input : {"good", "header", "body"}, known : BOOLEAN,
             inode : Inodes \cup {Missing}, done : 0..2,
             result : {"none", "error", "ok", "killed"}, before : Contents]

FileTypes ==
  /\ name \in [out : Inodes \cup {Missing}, tmp : Inodes \cup {Missing}]
  /\ inode \in [Inodes -> Contents]
  /\ call \in [FileCalls -> CallType]
  /\ alone \subseteq FileCalls

\* No file has both names.
TwoFiles == name.tmp # Missing => name.tmp # name.out

Partial(c) == [o \in Offsets |-> IF o <= call[c].done THEN c ELSE Nobody]
Created(c) == \/ call[c].pc \in {"write", "rename"}
              \/ call[c].pc = "header" /\ call[c].kind = "write"

\* Where a call is that nobody overlapped.
AloneInv(c) ==
  /\ \A d \in FileCalls : d # c => ~Running(d)
  /\ call[c].pc \notin {"lookup", "cleanup"} => Content("out") = call[c].before
  /\ call[c].pc \in {"exists", "create"} => call[c].done = 0
  /\ call[c].pc = "header" => call[c].done = 0
  /\ call[c].pc \in {"write", "rename"} => call[c].input # "header"
  /\ call[c].pc = "create" /\ call[c].kind = "read" => call[c].input # "header"
  /\ Created(c) => /\ call[c].inode # Missing
                   /\ name.tmp = call[c].inode
                   /\ inode[call[c].inode] = Partial(c)
                   /\ call[c].done <= call[c].size
                   /\ call[c].input = "body" => call[c].done < call[c].size
  /\ call[c].pc = "rename" => call[c].done = call[c].size
  /\ call[c].kind = "read" /\ call[c].pc # "exists" => call[c].before = Truncated
  /\ call[c].pc \in {"exists", "lookup"} => call[c].kind = "read"
  /\ call[c].pc = "lookup" => Content("out") = Output(c)
  /\ call[c].pc = "cleanup" /\ call[c].result # "error" => Content("out") = Output(c)
  /\ call[c].pc = "cleanup" /\ call[c].result = "error" =>
       \/ Content("out") = call[c].before
       \/ call[c].kind = "read" /\ ~call[c].known /\ Content("out") = Output(c)
  /\ call[c].pc # "cleanup" => call[c].result = "none"
  /\ call[c].result \in {"none", "error"}

\* What the file has ever been, where calls never overlapped.
WholeFile ==
  \/ name.out = Missing
  \/ Content("out") = [o \in Offsets |-> Owner]
  \/ \E c \in FileCalls : /\ call[c].pc # "none" /\ call[c].input = "good"
                          /\ Content("out") = Output(c)

FilesInv ==
  /\ FileTypes /\ TwoFiles
  /\ \A c \in alone : Running(c) => AloneInv(c)
  /\ (\A c \in FileCalls : c \in alone) => WholeFile

-----------------------------------------------------------------------------
LEMMA FileTypesInit == FilesInit => FileTypes
<1> SUFFICES ASSUME FilesInit PROVE FileTypes
  OBVIOUS
<1>1. First \in Inodes
  BY InodesAssumption DEF First
<1>2. Truncated \in Contents /\ 0 \in 0..2 /\ 1 \in 1..2
  BY DEF Truncated, Contents, Offsets, Nobody
<1>3. NotAsked \in CallType
  BY <1>2 DEF NotAsked, CallType, PCs
<1>4. inode \in [Inodes -> Contents]
  BY DEF FilesInit, Contents, Offsets, Nobody, Owner
<1> QED
  BY <1>1, <1>3, <1>4 DEF FilesInit, FileTypes

LEMMA ContentType == ASSUME FileTypes, NEW n \in {"out", "tmp"} PROVE Content(n) \in Contents
  BY DEF FileTypes, Content, Truncated, Contents, Offsets, Nobody

LEMMA WriteType ==
    ASSUME NEW f \in [Inodes -> Contents], NEW i \in Inodes, NEW o \in Offsets,
           NEW c \in FileCalls
    PROVE  [f EXCEPT ![i][o] = c] \in [Inodes -> Contents]
  BY DEF Contents

LEMMA FileTypesNext == FileTypes /\ [Filing]_disk => FileTypes'
<1> SUFFICES ASSUME FileTypes, [Filing]_disk PROVE FileTypes'
  OBVIOUS
<1> USE DEF FileTypes, CallType, PCs
<1>1. ASSUME NEW c \in FileCalls, BeginFile(c) PROVE FileTypes'
  <2>1. Content("out") \in Contents
    BY ContentType
  <2>2. PICK a \in Asked :
          call' = [call EXCEPT ![c] = [NotAsked EXCEPT
            !.pc = IF a.kind = "read" THEN "exists" ELSE "create",
            !.kind = a.kind, !.size = a.size, !.input = a.input, !.known = a.known,
            !.before = Content("out")]]
    BY <1>1 DEF BeginFile
  <2>3. a \in [kind : {"write", "read"}, size : 1..2,
               input : {"good", "header", "body"}, known : BOOLEAN]
    BY AskedAssumption
  <2>4. [NotAsked EXCEPT
            !.pc = IF a.kind = "read" THEN "exists" ELSE "create",
            !.kind = a.kind, !.size = a.size, !.input = a.input, !.known = a.known,
            !.before = Content("out")] \in CallType
    <3> DEFINE new == [pc |-> IF a.kind = "read" THEN "exists" ELSE "create",
                       kind |-> a.kind, size |-> a.size, input |-> a.input,
                       known |-> a.known, inode |-> Missing, done |-> 0,
                       result |-> "none", before |-> Content("out")]
    <3>1. new \in CallType
      BY <2>1, <2>3
    <3> QED
      BY <3>1 DEF NotAsked
  <2>5. call' \in [FileCalls -> CallType]
    BY <2>2, <2>4
  <2> QED
    BY <1>1, <2>5 DEF BeginFile
<1>2. ASSUME NEW c \in FileCalls, FileExists(c) \/ ReadHeader(c) PROVE FileTypes'
  BY <1>2 DEF FileExists, ReadHeader, Fail, To, At
<1>3. ASSUME NEW c \in FileCalls, Create(c) PROVE FileTypes'
  <2>1. Truncated \in Contents
    BY DEF Truncated, Contents, Offsets
  <2> QED
    BY <1>3, <2>1 DEF Create, At
<1>4. ASSUME NEW c \in FileCalls, Write(c) PROVE FileTypes'
  <2>1. call' \in [FileCalls -> CallType]
    BY <1>4 DEF Write, Fail, To, At
  <2>2. inode' \in [Inodes -> Contents]
    <3>1. CASE inode' = inode
      BY <3>1
    <3>2. CASE inode' = [inode EXCEPT ![call[c].inode][call[c].done + 1] = c]
      BY <3>2 DEF Contents
    <3> QED
      BY <1>4, <3>1, <3>2 DEF Write
  <2> QED
    BY <1>4, <2>1, <2>2 DEF Write
<1>5. ASSUME NEW c \in FileCalls, Rename(c) \/ Lookup(c) \/ RemoveTmp(c) PROVE FileTypes'
  BY <1>5 DEF Rename, Lookup, RemoveTmp, Fail, To, At
<1>6. ASSUME KillAll PROVE FileTypes'
  <2>1. ASSUME NEW c \in FileCalls
        PROVE  [call[c] EXCEPT !.pc = "ended", !.result = "killed"] \in CallType
    BY ZenonT(30)
  <2>2. call' \in [FileCalls -> CallType]
    BY <1>6, <2>1 DEF KillAll
  <2> QED
    BY <1>6, <2>2 DEF KillAll
<1>7. ASSUME UNCHANGED disk PROVE FileTypes'
  BY <1>7 DEF disk
<1> QED
  BY <1>1, <1>2, <1>3, <1>4, <1>5, <1>6, <1>7 DEF Filing

LEMMA TwoFilesNext == FileTypes /\ TwoFiles /\ [Filing]_disk => TwoFiles'
<1> SUFFICES ASSUME FileTypes, TwoFiles, [Filing]_disk PROVE TwoFiles'
  OBVIOUS
<1>1. ASSUME name' = name PROVE TwoFiles'
  BY <1>1 DEF TwoFiles
<1>2. ASSUME NEW c \in FileCalls, Create(c) PROVE TwoFiles'
  <2>1. PICK i \in Inodes : Creates(i) /\ name' = [name EXCEPT !.tmp = i]
    BY <1>2 DEF Create
  <2>2. i # name.out
    BY <2>1 DEF Creates, Free, TwoFiles
  <2> QED
    BY <2>1, <2>2 DEF TwoFiles, FileTypes
<1>3. ASSUME NEW c \in FileCalls, Rename(c) \/ RemoveTmp(c) PROVE TwoFiles'
  BY <1>3 DEF Rename, RemoveTmp, TwoFiles, FileTypes
<1> QED
  BY <1>1, <1>2, <1>3 DEF Filing, disk, BeginFile, FileExists, ReadHeader, Write, Lookup, KillAll

-----------------------------------------------------------------------------
(* A step of another call, or of a call that another overlaps, leaves the    *)
(* claims about the calls that are alone as they are.                        *)

LEMMA AloneNext ==
    FileTypes /\ TwoFiles /\ (\A c \in alone : Running(c) => AloneInv(c)) /\ [Filing]_disk
    => (\A c \in alone : Running(c) => AloneInv(c))'
<1> SUFFICES ASSUME FileTypes, TwoFiles, \A c \in alone : Running(c) => AloneInv(c), [Filing]_disk,
                    NEW c \in alone', Running(c)'
             PROVE  AloneInv(c)'
  OBVIOUS
<1>0. alone' \subseteq FileCalls /\ c \in FileCalls /\ FileTypes'
  BY FileTypesNext DEF FileTypes
<1>1. ASSUME NEW d \in FileCalls, BeginFile(d) PROVE AloneInv(c)'
  <2>1. \A e \in FileCalls : e # d => call'[e] = call[e]
    BY <1>1 DEF BeginFile, FileTypes
  <2>2. c = d
    <3>1. SUFFICES ASSUME c # d PROVE FALSE
      OBVIOUS
    <3>2. Running(c)
      BY <1>0, <2>1, <3>1 DEF Running
    <3> QED
      BY <1>0, <1>1, <3>1, <3>2 DEF BeginFile
  <2>3. \A e \in FileCalls : ~Running(e)
    BY <1>1, <2>2 DEF BeginFile
  <2>4. /\ call'[c].pc \in {"exists", "create"} /\ call'[c].done = 0 /\ call'[c].result = "none"
        /\ call'[c].pc = "exists" => call'[c].kind = "read"
        /\ call'[c].pc = "create" => call'[c].kind # "read"
        /\ call'[c].before = Content("out")
    BY <1>1, <2>2 DEF BeginFile, FileTypes, NotAsked
  <2>5. Content("out")' = Content("out")
    BY <1>1 DEF BeginFile, Content
  <2> QED
    BY <2>1, <2>2, <2>3, <2>4, <2>5 DEF AloneInv, Running, Created
<1>2. ASSUME ~ \E d \in FileCalls : BeginFile(d) PROVE alone' = alone
  BY <1>2 DEF Filing, disk, FileExists, ReadHeader, Create, Write, Rename, Lookup, RemoveTmp, KillAll
<1>3. ASSUME NEW d \in FileCalls, d # c, ~ \E e \in FileCalls : BeginFile(e),
             \/ FileExists(d) \/ ReadHeader(d) \/ Create(d)
             \/ Write(d) \/ Rename(d) \/ Lookup(d) \/ RemoveTmp(d)
      PROVE  FALSE
  <2>1. Running(d)
    BY <1>3 DEF FileExists, ReadHeader, Create, Write, Rename, Lookup, RemoveTmp, At, Running
  <2>2. call'[c] = call[c]
    BY <1>0, <1>3 DEF FileExists, ReadHeader, Create, Write, Rename, Lookup, RemoveTmp, To, Fail, FileTypes
  <2>3. c \in alone /\ Running(c)
    BY <1>2, <1>3, <2>2 DEF Running
  <2> QED
    BY <1>0, <1>3, <2>1, <2>3 DEF AloneInv
<1>4. ASSUME ~ \E e \in FileCalls : BeginFile(e),
             \/ FileExists(c) \/ ReadHeader(c) \/ Create(c)
             \/ Write(c) \/ Rename(c) \/ Lookup(c) \/ RemoveTmp(c)
      PROVE  AloneInv(c)'
  <2>0. AloneInv(c) /\ Running(c)
    BY <1>2, <1>4 DEF FileExists, ReadHeader, Create, Write, Rename, Lookup, RemoveTmp, At, Running
  <2>1. \A e \in FileCalls : e # c => call'[e] = call[e]
    BY <1>0, <1>4 DEF FileExists, ReadHeader, Create, Write, Rename, Lookup, RemoveTmp, To, Fail, FileTypes
  <2>2. \A e \in FileCalls : e # c => ~Running(e)'
    BY <2>0, <2>1 DEF AloneInv, Running
  <2>3. call[c] \in CallType /\ call'[c] \in CallType
    BY <1>0 DEF FileTypes
  <2>4. ASSUME FileExists(c) PROVE AloneInv(c)'
    <3>1. name' = name /\ inode' = inode /\ name.out = Missing /\ call[c].pc = "exists"
          /\ call'[c] = [call[c] EXCEPT !.pc = "header"]
      BY <2>4, <1>0 DEF FileExists, At, To, Running, FileTypes, CallType
    <3>2. Content("out")' = Content("out") /\ Content("out") = Truncated
      BY <3>1 DEF Content
    <3> QED
      BY <2>0, <2>2, <2>3, <3>1, <3>2 DEF AloneInv, Created, CallType
  <2>5. ASSUME ReadHeader(c) PROVE AloneInv(c)'
    <3>1. /\ name' = name /\ inode' = inode /\ call[c].pc = "header"
          /\ \/ /\ call[c].input # "header"
                /\ call'[c] = [call[c] EXCEPT !.pc = IF call[c].kind = "read" THEN "create"
                                                     ELSE "write"]
             \/ call'[c] = [call[c] EXCEPT !.pc = "cleanup", !.result = "error"]
      <4>1. call'[c].pc # "ended"
        BY DEF Running
      <4>2. CASE call[c].input # "header"
        BY <1>0, <2>5, <4>2 DEF ReadHeader, At, To, FileTypes
      <4>3. CASE call[c].input = "header" /\ call[c].kind = "read"
        BY <1>0, <2>3, <2>5, <4>1, <4>3 DEF ReadHeader, FileTypes, CallType
      <4>4. CASE call[c].input = "header" /\ call[c].kind # "read"
        BY <1>0, <2>5, <4>4 DEF ReadHeader, At, Fail, FileTypes
      <4> QED
        BY <4>2, <4>3, <4>4
    <3>2. Content("out")' = Content("out") /\ Partial(c)' = Partial(c)
      BY <2>3, <3>1 DEF Content, Partial, CallType
    <3>3. CASE call'[c].pc = "cleanup"
      BY <2>0, <2>2, <2>3, <3>1, <3>2, <3>3 DEF AloneInv, Created, CallType
    <3>4. CASE call'[c].pc # "cleanup"
      BY <2>0, <2>2, <2>3, <3>1, <3>2, <3>4 DEF AloneInv, Created, CallType
    <3> QED
      BY <3>3, <3>4
  <2>6. ASSUME Create(c) PROVE AloneInv(c)'
    <3>1. PICK i \in Inodes :
            /\ Creates(i)
            /\ name' = [name EXCEPT !.tmp = i]
            /\ inode' = [inode EXCEPT ![i] = Truncated]
            /\ call' = [call EXCEPT ![c].inode = i,
                                    ![c].pc = IF call[c].kind = "read" THEN "write"
                                              ELSE "header"]
      BY <2>6 DEF Create
    <3>2. call[c].pc = "create"
      BY <2>6 DEF Create, At
    <3>3. call'[c] = [call[c] EXCEPT !.inode = i,
                                     !.pc = IF call[c].kind = "read" THEN "write" ELSE "header"]
      BY <1>0, <3>1 DEF FileTypes
    <3>4. i # name.out /\ i # Missing
      BY <3>1, InodesAssumption DEF Creates, Free, TwoFiles
    <3>5. Content("out")' = Content("out") /\ name'.tmp = i /\ inode'[i] = Truncated
      BY <3>1, <3>4 DEF Content, FileTypes
    <3>6. call'[c].done = 0
      BY <2>0, <3>2, <3>3, <2>3 DEF AloneInv, CallType
    <3>7. Partial(c)' = Truncated
      BY <3>6 DEF Partial, Truncated, Offsets
    <3> QED
      BY <2>0, <2>2, <2>3, <3>2, <3>3, <3>4, <3>5, <3>6, <3>7 DEF AloneInv, Created, CallType
  <2>7. ASSUME Write(c) PROVE AloneInv(c)'
    <3>1. call[c].pc = "write" /\ name' = name /\ Content("out") = call[c].before
          /\ name.tmp = call[c].inode /\ call[c].inode \in Inodes
          /\ name.tmp # name.out
      BY <2>0, <2>3, <2>7 DEF Write, At, AloneInv, Created, CallType, TwoFiles
    <3>2. CASE /\ call' = [call EXCEPT ![c].pc = "cleanup", ![c].result = "error"]
               /\ inode' = inode
      <4>1. call'[c] = [call[c] EXCEPT !.pc = "cleanup", !.result = "error"]
        BY <1>0, <3>2 DEF FileTypes
      <4>2. Content("out")' = Content("out")
        BY <3>1, <3>2 DEF Content
      <4> QED
        BY <2>0, <2>2, <2>3, <3>1, <4>1, <4>2 DEF AloneInv, Created, CallType
    <3>3. CASE /\ IF call[c].input = "body" THEN call[c].done + 1 < call[c].size
                  ELSE call[c].done < call[c].size
               /\ inode' = [inode EXCEPT ![call[c].inode][call[c].done + 1] = c]
               /\ call' = [call EXCEPT ![c].done = @ + 1]
      <4>1. call'[c] = [call[c] EXCEPT !.done = @ + 1]
        BY <1>0, <3>3 DEF FileTypes
      <4>2. Content("out")' = Content("out")
        BY <3>1, <3>3 DEF Content
      <4>3. inode'[call[c].inode] = [inode[call[c].inode] EXCEPT ![call[c].done + 1] = c]
        BY <3>1, <3>3 DEF FileTypes
      <4>4. inode[call[c].inode] = Partial(c)
        BY <2>0, <3>1 DEF AloneInv, Created
      <4>5. Partial(c)' = [Partial(c) EXCEPT ![call[c].done + 1] = c]
        <5>1. /\ call[c].done \in 0..2 /\ call'[c].done = call[c].done + 1
              /\ call[c].done + 1 \in Offsets
          BY <2>3, <3>3, <4>1 DEF CallType, Offsets
        <5>2. \A o \in Offsets :
                 (o <= call[c].done + 1) <=> (o <= call[c].done \/ o = call[c].done + 1)
          BY <5>1 DEF Offsets
        <5> QED
          BY <5>1, <5>2 DEF Partial
      <4> QED
        BY <2>0, <2>2, <2>3, <3>1, <3>3, <4>1, <4>2, <4>3, <4>4, <4>5
           DEF AloneInv, Created, CallType
    <3>4. CASE /\ call[c].done = call[c].size
               /\ call' = [call EXCEPT ![c].pc = "rename"]
               /\ inode' = inode
      <4>1. call'[c] = [call[c] EXCEPT !.pc = "rename"]
        BY <1>0, <3>4 DEF FileTypes
      <4>2. Content("out")' = Content("out")
        BY <3>1, <3>4 DEF Content
      <4>3. Partial(c)' = Partial(c)
        BY <2>3, <4>1 DEF Partial, CallType
      <4> QED
        BY <2>0, <2>2, <2>3, <3>1, <3>4, <4>1, <4>2, <4>3 DEF AloneInv, Created, CallType
    <3> QED
      BY <2>7, <3>2, <3>3, <3>4 DEF Write, Fail, To
  <2>8. ASSUME Rename(c) PROVE AloneInv(c)'
    <3>1. /\ call[c].pc = "rename" /\ name.tmp = call[c].inode /\ call[c].inode \in Inodes
          /\ name.tmp # Missing /\ inode[call[c].inode] = Partial(c)
          /\ call[c].done = call[c].size
      BY <2>0, <2>3, <2>8 DEF Rename, At, AloneInv, Created, CallType
    <3>2. /\ name' = [out |-> name.tmp, tmp |-> Missing] /\ inode' = inode
          /\ call'[c] = [call[c] EXCEPT !.pc = IF call[c].kind = "read" THEN "lookup"
                                               ELSE "cleanup"]
      BY <1>0, <2>8, <3>1 DEF Rename, To, FileTypes
    <3>3. Content("out")' = Output(c)'
      BY <2>3, <3>1, <3>2 DEF Content, Output, Partial, CallType
    <3> QED
      BY <2>0, <2>2, <2>3, <3>1, <3>2, <3>3 DEF AloneInv, Created, CallType
  <2>9. ASSUME Lookup(c) PROVE AloneInv(c)'
    <3>1. /\ call[c].pc = "lookup" /\ name' = name /\ inode' = inode
          /\ \/ call'[c] = [call[c] EXCEPT !.pc = "cleanup"]
             \/ /\ ~call[c].known
                /\ call'[c] = [call[c] EXCEPT !.pc = "cleanup", !.result = "error"]
      BY <1>0, <2>9 DEF Lookup, At, To, Fail, FileTypes
    <3>2. Content("out")' = Content("out") /\ Output(c)' = Output(c)
      BY <2>3, <3>1 DEF Content, Output, CallType
    <3>3. /\ call[c].kind = "read" /\ call'[c].kind = "read" /\ call'[c].pc = "cleanup"
          /\ call'[c].before = call[c].before /\ call[c].before = Truncated
          /\ Content("out") = Output(c)
      BY <2>0, <2>3, <3>1 DEF AloneInv, CallType
    <3>4. /\ call[c].result = "none" /\ call'[c].result \in {"none", "error"}
          /\ call'[c].result = "error" => ~call'[c].known
      BY <2>0, <2>3, <3>1 DEF AloneInv, CallType
    <3> QED
      BY <2>2, <3>2, <3>3, <3>4 DEF AloneInv, Created
  <2>10. ASSUME RemoveTmp(c) PROVE FALSE
    BY <1>0, <2>10 DEF RemoveTmp, Running, FileTypes, CallType
  <2> QED
    BY <1>4, <2>4, <2>5, <2>6, <2>7, <2>8, <2>9, <2>10
<1>5. ASSUME KillAll PROVE FALSE
  <2>1. call[c] \in CallType
    BY <1>0 DEF FileTypes
  <2>2. CASE Running(c)
    <3>1. call'[c] = [call[c] EXCEPT !.pc = "ended", !.result = "killed"]
      BY <1>0, <1>5, <2>2 DEF KillAll
    <3> QED
      BY <2>1, <3>1 DEF Running, CallType
  <2>3. CASE ~Running(c)
    <3>1. call'[c] = call[c]
      BY <1>0, <1>5, <2>3 DEF KillAll
    <3> QED
      BY <2>3, <3>1 DEF Running
  <2> QED
    BY <2>2, <2>3
<1>6. ASSUME UNCHANGED disk PROVE AloneInv(c)'
  <2>1. AloneInv(c)
    BY <1>6 DEF disk, Running
  <2> QED
    BY <1>6, <2>1 DEF disk, AloneInv, Running, Content, Created, Partial, Output
<1> QED
  BY <1>0, <1>1, <1>3, <1>4, <1>5, <1>6 DEF Filing

-----------------------------------------------------------------------------
Quiet == \A c \in FileCalls : c \in alone

LEMMA QuietBefore == [Filing]_disk /\ Quiet' => Quiet
  BY DEF Quiet, Filing, disk, BeginFile, FileExists, ReadHeader, Create, Write, Rename, Lookup,
         RemoveTmp, KillAll

\* A step that leaves the file and what was asked leaves it whole.
LEMMA WholeKept ==
    ASSUME FileTypes, WholeFile, Content("out")' = Content("out"), name'.out = name.out,
           \A c \in FileCalls : call[c].pc # "none" =>
             /\ call'[c].pc # "none" /\ call'[c].input = call[c].input
             /\ call'[c].size = call[c].size
    PROVE  WholeFile'
<1>1. ASSUME NEW c \in FileCalls, call[c].pc # "none", call[c].input = "good",
             Content("out") = Output(c)
      PROVE  WholeFile'
  <2>1. Output(c)' = Output(c)
    BY <1>1 DEF Output
  <2> QED
    BY <1>1, <2>1 DEF WholeFile
<1> QED
  BY <1>1 DEF WholeFile

LEMMA WholeNext == FilesInv /\ WholeFile /\ Quiet /\ [Filing]_disk => WholeFile'
<1> SUFFICES ASSUME FilesInv, WholeFile, Quiet, [Filing]_disk PROVE WholeFile'
  OBVIOUS
<1> USE DEF FilesInv
<1>1. ASSUME NEW c \in FileCalls, BeginFile(c) PROVE WholeFile'
  <2>1. \A d \in FileCalls : call[d].pc # "none" => call'[d] = call[d]
    BY <1>1 DEF BeginFile, At, FileTypes
  <2>2. Content("out")' = Content("out") /\ name'.out = name.out
    BY <1>1 DEF BeginFile, Content
  <2> QED
    BY <2>1, <2>2, WholeKept
<1>2. ASSUME NEW c \in FileCalls, FileExists(c) \/ ReadHeader(c) \/ Lookup(c) PROVE WholeFile'
  <2>1. \A d \in FileCalls : call[d].pc # "none" =>
             /\ call'[d].pc # "none" /\ call'[d].input = call[d].input
             /\ call'[d].size = call[d].size
    BY <1>2 DEF FileExists, ReadHeader, Lookup, To, Fail, FileTypes, CallType
  <2>2. Content("out")' = Content("out") /\ name'.out = name.out
    BY <1>2 DEF FileExists, ReadHeader, Lookup, Content
  <2> QED
    BY <2>1, <2>2, WholeKept
<1>3. ASSUME NEW c \in FileCalls, Create(c) PROVE WholeFile'
  <2>1. \A d \in FileCalls : call[d].pc # "none" =>
             /\ call'[d].pc # "none" /\ call'[d].input = call[d].input
             /\ call'[d].size = call[d].size
    BY <1>3 DEF Create, FileTypes, CallType
  <2>2. PICK i \in Inodes : /\ Creates(i) /\ name' = [name EXCEPT !.tmp = i]
                            /\ inode' = [inode EXCEPT ![i] = Truncated]
    BY <1>3 DEF Create
  <2>3. i # name.out
    BY <2>2, InodesAssumption DEF Creates, Free, TwoFiles
  <2>4. Content("out")' = Content("out") /\ name'.out = name.out
    BY <2>2, <2>3 DEF Content, FileTypes
  <2> QED
    BY <2>1, <2>4, WholeKept
<1>4. ASSUME NEW c \in FileCalls, Write(c) PROVE WholeFile'
  <2>1. \A d \in FileCalls : call[d].pc # "none" =>
             /\ call'[d].pc # "none" /\ call'[d].input = call[d].input
             /\ call'[d].size = call[d].size
    BY <1>4 DEF Write, To, Fail, FileTypes, CallType
  <2>2. AloneInv(c) /\ call[c].pc = "write"
    BY <1>4 DEF Quiet, Write, At, Running
  <2>3. name.out # call[c].inode /\ call[c].inode \in Inodes
    BY <2>2 DEF AloneInv, Created, TwoFiles, FileTypes, CallType
  <2>4. Content("out")' = Content("out") /\ name'.out = name.out
    BY <1>4, <2>3 DEF Write, Content, FileTypes
  <2> QED
    BY <2>1, <2>4, WholeKept
<1>5. ASSUME NEW c \in FileCalls, Rename(c) PROVE WholeFile'
  <2>1. call[c] \in CallType /\ AloneInv(c) /\ call[c].pc = "rename"
    BY <1>5 DEF Quiet, Rename, At, Running, FileTypes
  <2>2. /\ name.tmp = call[c].inode /\ call[c].inode \in Inodes /\ name.tmp # Missing
        /\ inode[call[c].inode] = Partial(c) /\ call[c].done = call[c].size
        /\ call[c].input = "good"
    BY <2>1 DEF AloneInv, Created, CallType
  <2>3. /\ name' = [out |-> name.tmp, tmp |-> Missing] /\ inode' = inode
        /\ call'[c].size = call[c].size /\ call'[c].input = "good" /\ call'[c].pc # "none"
    BY <1>5, <2>1, <2>2 DEF Rename, To, FileTypes, CallType
  <2>4. Content("out")' = Output(c)'
    BY <2>2, <2>3 DEF Content, Output, Partial
  <2> QED
    BY <2>3, <2>4 DEF WholeFile
<1>6. ASSUME NEW c \in FileCalls, RemoveTmp(c) PROVE WholeFile'
  <2>1. \A d \in FileCalls : call[d].pc # "none" =>
             /\ call'[d].pc # "none" /\ call'[d].input = call[d].input
             /\ call'[d].size = call[d].size
    BY <1>6 DEF RemoveTmp, FileTypes, CallType
  <2>2. Content("out")' = Content("out") /\ name'.out = name.out
    BY <1>6 DEF RemoveTmp, Content, FileTypes
  <2> QED
    BY <2>1, <2>2, WholeKept
<1>7. ASSUME KillAll PROVE WholeFile'
  <2>1. ASSUME NEW d \in FileCalls, call[d].pc # "none"
        PROVE  /\ call'[d].pc # "none" /\ call'[d].input = call[d].input
               /\ call'[d].size = call[d].size
    <3>1. call[d] \in CallType
      BY DEF FileTypes
    <3>2. \/ call'[d] = call[d]
          \/ call'[d] = [call[d] EXCEPT !.pc = "ended", !.result = "killed"]
      BY <1>7 DEF KillAll
    <3> QED
      BY <2>1, <3>1, <3>2 DEF CallType
  <2>2. Content("out")' = Content("out") /\ name'.out = name.out
    BY <1>7 DEF KillAll, Content
  <2> QED
    BY <2>1, <2>2, WholeKept
<1>8. ASSUME UNCHANGED disk PROVE WholeFile'
  <2>1. Content("out")' = Content("out") /\ name'.out = name.out /\ call' = call
    BY <1>8 DEF disk, Content
  <2> QED
    BY <2>1, WholeKept
<1> QED
  BY <1>1, <1>2, <1>3, <1>4, <1>5, <1>6, <1>7, <1>8 DEF Filing

-----------------------------------------------------------------------------
LEMMA FilesInvInit == FilesInit => FilesInv
<1> SUFFICES ASSUME FilesInit PROVE FilesInv
  OBVIOUS
<1>1. FileTypes
  BY FileTypesInit
<1>2. TwoFiles /\ \A c \in FileCalls : ~Running(c)
  BY DEF FilesInit, TwoFiles, Running, NotAsked
<1>3. WholeFile
  <2>1. CASE name.out = Missing
    BY <2>1 DEF WholeFile
  <2>2. CASE name.out = First
    <3>1. First \in Inodes /\ First # Missing
      BY InodesAssumption DEF First
    <3>2. Content("out") = [o \in Offsets |-> Owner]
      BY <2>2, <3>1 DEF FilesInit, Content
    <3> QED
      BY <3>2 DEF WholeFile
  <2> QED
    BY <2>1, <2>2 DEF FilesInit
<1> QED
  BY <1>1, <1>2, <1>3 DEF FilesInv, FileTypes

LEMMA FilesInvNext == FilesInv /\ [Filing]_disk => FilesInv'
<1> SUFFICES ASSUME FilesInv, [Filing]_disk PROVE FilesInv'
  OBVIOUS
<1>1. FileTypes' /\ TwoFiles'
  BY FileTypesNext, TwoFilesNext DEF FilesInv
<1>2. (\A c \in alone : Running(c) => AloneInv(c))'
  BY AloneNext DEF FilesInv
<1>3. Quiet' => WholeFile'
  BY WholeNext, QuietBefore DEF FilesInv, Quiet
<1> QED
  BY <1>1, <1>2, <1>3 DEF FilesInv, Quiet

LEMMA FilesInvAlways == FilesSpec => []FilesInv
  BY FilesInvInit, FilesInvNext, PTL DEF FilesSpec

\* Calls for one file that never overlap leave it as its owner had it, or with a whole
\* output made of good input, wherever they fail and whenever keysd is killed.
THEOREM OutWholeCorrect == FilesSpec => []OutWhole
<1>1. FilesInv => OutWhole
  BY DEF FilesInv, WholeFile, OutWhole
<1> QED
  BY <1>1, FilesInvAlways, PTL

\* A call that nobody overlapped answers what it did to the file.
THEOREM AnswersWhatItDidCorrect == FilesSpec => AnswersWhatItDid
<1> DEFINE Answers(c) ==
      Running(c) /\ call'[c].pc = "ended" =>
        LET out == Content("out")' IN
        CASE call'[c].result = "ok" ->
               out = Output(c) /\ (call[c].kind = "read" => call[c].before = Truncated)
          [] call'[c].result = "error" ->
               \/ out = call[c].before
               \/ call[c].kind = "read" /\ ~call[c].known /\ out = Output(c)
          [] OTHER -> out \in {call[c].before, Output(c)}
<1>1. ASSUME FilesInv, [Filing]_disk, NEW c \in alone, Running(c), call'[c].pc = "ended"
      PROVE  Answers(c)
  <2>1. AloneInv(c) /\ c \in FileCalls /\ call[c] \in CallType
    BY <1>1 DEF FilesInv, FileTypes
  <2>2. CASE \E d \in FileCalls : BeginFile(d)
    <3>1. PICK d \in FileCalls : BeginFile(d)
      BY <2>2
    <3>2. call'[c].pc # "ended"
      <4>1. CASE c = d
        BY <1>1, <3>1, <4>1 DEF BeginFile, At, Running
      <4>2. CASE c # d
        BY <1>1, <2>1, <3>1, <4>2 DEF BeginFile, FilesInv, FileTypes, Running
      <4> QED
        BY <4>1, <4>2
    <3> QED
      BY <1>1, <3>2
  <2>3. ASSUME NEW d \in FileCalls,
               \/ FileExists(d) \/ ReadHeader(d) \/ Create(d)
               \/ Write(d) \/ Rename(d) \/ Lookup(d) \/ RemoveTmp(d)
        PROVE  d = c
    BY <2>1, <2>3 DEF FileExists, ReadHeader, Create, Write, Rename, Lookup, RemoveTmp, At, Running,
       AloneInv
  <2>4. CASE FileExists(c) \/ ReadHeader(c)
    <3>1. call'[c].result = "error"
      BY <1>1, <2>1, <2>4 DEF FileExists, ReadHeader, To, Fail, FilesInv, FileTypes, CallType
    <3>2. Content("out")' = call[c].before
      BY <2>1, <2>4 DEF FileExists, ReadHeader, Content, At, AloneInv
    <3> QED
      BY <3>1, <3>2
  <2>5. CASE Create(c) \/ Write(c) \/ Rename(c) \/ Lookup(c)
    <3>1. call \in [FileCalls -> CallType]
      BY <1>1 DEF FilesInv, FileTypes
    <3>2. CASE Create(c)
      BY <1>1, <2>1, <3>1, <3>2 DEF Create, CallType
    <3>3. CASE Write(c)
      BY <1>1, <2>1, <3>1, <3>3 DEF Write, To, Fail, At, CallType
    <3>4. CASE Rename(c)
      BY <1>1, <2>1, <3>1, <3>4 DEF Rename, To, Fail, CallType
    <3>5. CASE Lookup(c)
      BY <1>1, <2>1, <3>1, <3>5 DEF Lookup, To, Fail, CallType
    <3> QED
      BY <2>5, <3>2, <3>3, <3>4, <3>5
  <2>6. CASE RemoveTmp(c)
    <3>1. /\ Content("out")' = Content("out") /\ call[c].pc = "cleanup"
          /\ call'[c].result = IF call[c].result = "error" THEN "error" ELSE "ok"
      BY <1>1, <2>1, <2>6 DEF RemoveTmp, Content, At, FilesInv, FileTypes, CallType
    <3>2. CASE call[c].result = "error"
      BY <2>1, <3>1, <3>2 DEF AloneInv
    <3>3. CASE call[c].result # "error"
      BY <2>1, <3>1, <3>3 DEF AloneInv
    <3> QED
      BY <3>2, <3>3
  <2>7. CASE KillAll
    <3>1. call'[c].result = "killed" /\ Content("out")' = Content("out")
      BY <1>1, <2>1, <2>7 DEF KillAll, Content, CallType
    <3>2. Content("out") \in {call[c].before, Output(c)}
      BY <2>1 DEF AloneInv
    <3> QED
      BY <3>1, <3>2
  <2>8. CASE UNCHANGED disk
    BY <1>1, <2>8 DEF disk, Running
  <2> QED
    BY <1>1, <2>2, <2>3, <2>4, <2>5, <2>6, <2>7, <2>8 DEF Filing
<1>2. FilesInv /\ [Filing]_disk => [\A c \in alone : Answers(c)]_disk
  BY <1>1
<1> QED
  BY <1>2, FilesInvAlways, PTL DEF FilesSpec, AnswersWhatItDid

-----------------------------------------------------------------------------
(* Streams.                                                                *)

Run(s, first) == \A i \in 1..Len(s) : s[i] = first + i - 1

LEMMA RunAppend ==
  ASSUME NEW s \in Seq(Nat), NEW first \in Nat, Run(s, first), NEW e, e = first + Len(s),
         NEW t, t = Append(s, e)
  PROVE  t \in Seq(Nat) /\ Len(t) = Len(s) + 1 /\ Run(t, first)
BY DEF Run

LEMMA RunConcat ==
  ASSUME NEW s \in Seq(Nat), NEW t \in Seq(Nat), NEW first \in Nat, Run(s, first),
         Run(t, first + Len(s)), NEW u, u = s \o t
  PROVE  u \in Seq(Nat) /\ Len(u) = Len(s) + Len(t) /\ Run(u, first)
BY DEF Run

LEMMA PartTypes ==
  ASSUME NEW s \in Seq(Nat), NEW k \in 0..Len(s)
  PROVE  SubSeq(s, 1, k) \in Seq(Nat) /\ SubSeq(s, k + 1, Len(s)) \in Seq(Nat)
<1>1. Len(s) \in Nat /\ k \in Nat /\ k <= Len(s)
  OBVIOUS
<1>2. SubSeq(s, 1, k) \in Seq(Nat)
  BY <1>1
<1>3. SubSeq(s, k + 1, Len(s)) \in Seq(Nat)
  BY <1>1
<1> QED
  BY <1>2, <1>3

LEMMA MoreMessages ==
  ASSUME NEW d \in Seq(Seq(Nat)), NEW m \in Seq(Nat)
  PROVE  Append(d, m) \in Seq(Seq(Nat))
OBVIOUS

\* The two parts of s after the first k.
Parts(s, first, k, t, u) ==
  /\ t \in Seq(Nat) /\ Len(t) = k /\ Run(t, first)
  /\ u \in Seq(Nat) /\ Len(u) = Len(s) - k /\ Run(u, first + k)

LEMMA RunSplit ==
  ASSUME NEW s \in Seq(Nat), NEW first \in Nat, Run(s, first), NEW k \in 0..Len(s),
         NEW t, t = SubSeq(s, 1, k), NEW u, u = SubSeq(s, k + 1, Len(s))
  PROVE  Parts(s, first, k, t, u)
<1>1. Len(s) \in Nat /\ k \in Nat /\ k <= Len(s)
  OBVIOUS
<1>2. t \in Seq(Nat) /\ Len(t) = k /\ \A i \in 1..k : t[i] = s[i]
  BY <1>1
<1>3. u \in Seq(Nat) /\ Len(u) = Len(s) - k
  BY <1>1
<1>4. \A i \in 1..Len(u) : u[i] = s[k + i]
  <2>1. \A i \in (k + 1)..Len(s) : s[i] \in Nat
    <3>1. \A i \in (k + 1)..Len(s) : i \in 1..Len(s)
      BY <1>1
    <3> QED BY <3>1, ElementOfSeq
  <2>2. \A i \in 1..(Len(s) - (k + 1) + 1) : SubSeq(s, k + 1, Len(s))[i] = s[(k + 1) + i - 1]
    BY <1>1, <2>1, SubSeqProperties
  <2> QED BY <1>1, <1>3, <2>2
<1> QED
  BY <1>1, <1>2, <1>3, <1>4 DEF Run, Parts

LEMMA RunTail ==
  ASSUME NEW s \in Seq(Nat), NEW first \in Nat, Run(s, first), s # <<>>,
         NEW t, t = Tail(s)
  PROVE  /\ Head(s) = first /\ t \in Seq(Nat) /\ Len(t) = Len(s) - 1 /\ Run(t, first + 1)
         /\ Len(s) \in Nat /\ Len(s) > 0
BY DEF Run

LEMMA RunFirst ==
  ASSUME NEW s \in Seq(Nat), NEW first \in Nat, Run(s, first), s # Empty
  PROVE  Len(s) \in Nat /\ Len(s) >= 1 /\ s[1] = first
<1>1. Len(s) \in Nat /\ Len(s) >= 1
  BY DEF Empty
<1>2. 1 \in 1..Len(s)
  BY <1>1
<1> QED
  BY <1>1, <1>2 DEF Run

LEMMA Beginning ==
  ASSUME NEW s \in Seq(Nat), NEW first \in Nat, Run(s, first), NEW last \in Int,
         first + Len(s) <= last + 1
  PROVE  /\ IsPrefix(s, Numbers(first, last))
         /\ first + Len(s) = last + 1 => s = Numbers(first, last)
<1> DEFINE t == Numbers(first, last)
<1>1. last + 1 - first \in Nat /\ Len(s) \in Nat
  OBVIOUS
<1>2. t \in Seq(Nat) /\ Len(t) = last + 1 - first
  BY <1>1 DEF Numbers
<1>3. \A i \in 1..Len(s) : t[i] = s[i]
  BY <1>1 DEF Numbers, Run
<1>4. SubSeq(s, 1, Len(s)) = SubSeq(t, 1, Len(s))
  BY <1>1, <1>2, <1>3
<1>5. first + Len(s) = last + 1 => s = t
  BY <1>1, <1>2, <1>3, SeqEqual
<1> QED
  BY <1>1, <1>2, <1>4, <1>5 DEF IsPrefix

-----------------------------------------------------------------------------
(* Messages on their way back.                                             *)

Base(j) == IF j.kind = "write" THEN Header ELSE 1

\* Where the output ends, or the part of it that verifies.
Stop(j) == CASE j.kind = "write" -> j.chunks + 2
             [] j.kind = "read" -> IF j.bad # 0 THEN j.bad ELSE j.chunks + 1
             [] OTHER -> 1

\* All of the input was there and verified.
Complete(j) == /\ j.end = "eof" /\ j.signer # "unknown"
               /\ j.kind # "write" => j.bad = 0

\* The chunk that message i of d begins with, when chunk n is the next to print.
Start(d, n, i) == IF i = 1 THEN n ELSE d[i - 1][1] + Len(d[i - 1])
End(d, n) == Start(d, n, Len(d) + 1)

\* Chunk follows chunk through all messages; the empty one comes after the last.
Chain(j, d, n) ==
  \A i \in 1..Len(d) :
    /\ Start(d, n, i) \in Nat /\ Run(d[i], Start(d, n, i))
    /\ Start(d, n, i) + Len(d[i]) <= Stop(j)
    /\ d[i] = Empty => /\ i = Len(d) /\ Start(d, n, i) = Stop(j)
                       /\ j.kind # "write" /\ Complete(j)

Full(d) == \A i \in 1..Len(d) : d[i] # Empty

LEMMA SeqElements == ASSUME NEW d \in Seq(Seq(Nat))
                     PROVE  /\ Len(d) \in Nat
                            /\ \A i \in 1..Len(d) : d[i] \in Seq(Nat) /\ Len(d[i]) \in Nat
<1>1. \A i \in 1..Len(d) : d[i] \in Seq(Nat)
  BY ElementOfSeq
<1> QED
  BY <1>1

LEMMA StartFacts ==
  ASSUME NEW j, NEW d \in Seq(Seq(Nat)), NEW n \in Nat, n <= Stop(j), Stop(j) \in Nat,
         Chain(j, d, n), Full(d)
  PROVE  End(d, n) \in Nat /\ End(d, n) <= Stop(j)
<1>1. CASE Len(d) = 0
  BY <1>1 DEF End, Start
<1>2. CASE Len(d) # 0
  <2>1. Len(d) \in 1..Len(d) /\ Len(d) \in Nat
    BY <1>2, SeqElements
  <2>2. PICK m : m = d[Len(d)]
    OBVIOUS
  <2>3. m \in Seq(Nat) /\ Len(m) \in Nat /\ m # Empty
    BY <2>1, <2>2, SeqElements DEF Full
  <2>4. /\ Start(d, n, Len(d)) \in Nat /\ Run(m, Start(d, n, Len(d)))
        /\ Start(d, n, Len(d)) + Len(m) <= Stop(j)
    BY <2>1, <2>2 DEF Chain
  <2>5. m[1] = Start(d, n, Len(d))
    BY <2>3, <2>4, RunFirst
  <2>6. End(d, n) = m[1] + Len(m)
    BY <1>2, <2>1, <2>2 DEF End, Start
  <2> QED BY <2>3, <2>4, <2>5, <2>6
<1> QED
  BY <1>1, <1>2

\* What t is when m is sent after d.
Grown(j, d, n, m, t) ==
  /\ t \in Seq(Seq(Nat)) /\ Len(t) = Len(d) + 1 /\ t[Len(t)] = m
  /\ Chain(j, t, n)
  /\ m # Empty => Full(t) /\ End(t, n) = End(d, n) + Len(m)

\* keysd sends one more.
LEMMA ChainAppend ==
  ASSUME NEW j, NEW d \in Seq(Seq(Nat)), NEW n \in Nat, n <= Stop(j), Stop(j) \in Nat,
         Chain(j, d, n), Full(d), NEW m \in Seq(Nat), Run(m, End(d, n)),
         End(d, n) + Len(m) <= Stop(j),
         m = Empty => End(d, n) = Stop(j) /\ j.kind # "write" /\ Complete(j),
         NEW t, t = Append(d, m)
  PROVE  Grown(j, d, n, m, t)
<1>1. /\ Len(d) \in Nat /\ t \in Seq(Seq(Nat)) /\ Len(t) = Len(d) + 1 /\ t[Len(d) + 1] = m
      /\ \A i \in 1..Len(d) : t[i] = d[i]
  OBVIOUS
<1>2. \A i \in 1..(Len(d) + 1) : Start(t, n, i) = Start(d, n, i)
  <2>1. ASSUME NEW i \in 1..(Len(d) + 1), i # 1 PROVE t[i - 1] = d[i - 1]
    BY <1>1, <2>1
  <2> QED BY <2>1 DEF Start
<1>3. End(d, n) \in Nat
  BY StartFacts
<1>4. ASSUME NEW i \in 1..Len(t)
      PROVE  /\ Start(t, n, i) \in Nat /\ Run(t[i], Start(t, n, i))
             /\ Start(t, n, i) + Len(t[i]) <= Stop(j)
             /\ t[i] = Empty => /\ i = Len(t) /\ Start(t, n, i) = Stop(j)
                                /\ j.kind # "write" /\ Complete(j)
  <2>1. CASE i = Len(d) + 1
    BY <1>1, <1>2, <1>3, <2>1 DEF End
  <2>2. CASE i \in 1..Len(d)
    <3>1. t[i] = d[i] /\ Start(t, n, i) = Start(d, n, i) /\ t[i] # Empty
      BY <1>1, <1>2, <2>2 DEF Full
    <3> QED BY <3>1, <2>2 DEF Chain
  <2> QED BY <1>1, <2>1, <2>2
<1>5. ASSUME m # Empty PROVE Full(t) /\ End(t, n) = End(d, n) + Len(m)
  <2>1. Full(t)
    <3>1. ASSUME NEW i \in 1..Len(t) PROVE t[i] # Empty
      <4>1. i = Len(d) + 1 \/ i \in 1..Len(d)
        BY <1>1
      <4> QED BY <4>1, <1>1, <1>5 DEF Full
    <3> QED BY <3>1 DEF Full
  <2>2. m[1] = End(d, n)
    BY <1>3, <1>5, RunFirst
  <2>3. End(t, n) = m[1] + Len(m)
    BY <1>1 DEF End, Start
  <2> QED BY <2>1, <2>2, <2>3
<1> QED
  BY <1>1, <1>4, <1>5 DEF Chain, Grown

LEMMA Shift == \A a, b, i \in Nat : a = b - 1 => (i + 1 = b => i = a)
OBVIOUS

\* What is left when the first message is taken.
Taken(j, d, n, t, k) ==
  /\ t \in Seq(Seq(Nat)) /\ Len(t) = Len(d) - 1 /\ k \in Nat /\ k <= Stop(j)
  /\ Run(Head(d), n) /\ Head(d) \in Seq(Nat)
  /\ Chain(j, t, k) /\ End(t, k) = End(d, n)
  /\ Full(d) => Full(t)
  /\ t # <<>> => t[Len(t)] = d[Len(d)]

\* The command takes one.
LEMMA ChainTail ==
  ASSUME NEW j, NEW d \in Seq(Seq(Nat)), NEW n \in Nat, Chain(j, d, n), d # <<>>,
         Head(d) # Empty, NEW t, t = Tail(d), NEW k, k = n + Len(Head(d))
  PROVE  Taken(j, d, n, t, k)
<1>1. /\ Len(d) \in Nat /\ Len(d) >= 1 /\ Head(d) = d[1] /\ d[1] \in Seq(Nat)
      /\ t \in Seq(Seq(Nat)) /\ Len(t) = Len(d) - 1
  BY SeqElements
<1>2. \A i \in 1..Len(t) : t[i] = d[i + 1]
  BY HeadTailProperties
<1>3. /\ Run(d[1], n) /\ n + Len(d[1]) <= Stop(j) /\ d[1][1] = n /\ Len(d[1]) \in Nat
  <2>1. Run(d[1], n) /\ n + Len(d[1]) <= Stop(j)
    <3>1. 1 \in 1..Len(d) /\ Start(d, n, 1) = n
      BY <1>1 DEF Start
    <3> QED BY <3>1 DEF Chain
  <2> QED BY <1>1, <2>1, RunFirst
<1>4. ASSUME NEW i \in 1..(Len(t) + 1) PROVE Start(t, k, i) = Start(d, n, i + 1)
  <2>1. CASE i = 1
    BY <2>1, <1>1, <1>3 DEF Start
  <2>2. CASE i # 1
    <3>1. i - 1 \in 1..Len(t) /\ i + 1 # 1 /\ (i + 1) - 1 = i /\ (i - 1) + 1 = i
      BY <2>2, <1>1
    <3>2. t[i - 1] = d[i]
      BY <3>1, <1>2
    <3> QED BY <2>2, <3>1, <3>2 DEF Start
  <2> QED BY <2>1, <2>2
<1>5. \A i \in 1..Len(t) : i + 1 \in 1..Len(d) /\ i \in 1..(Len(t) + 1)
  BY <1>1
<1>6. Chain(j, t, k)
  <2>1. ASSUME NEW i \in 1..Len(t)
        PROVE  /\ Start(t, k, i) \in Nat /\ Run(t[i], Start(t, k, i))
               /\ Start(t, k, i) + Len(t[i]) <= Stop(j)
               /\ t[i] = Empty => /\ i = Len(t) /\ Start(t, k, i) = Stop(j)
                                  /\ j.kind # "write" /\ Complete(j)
    <3>1. t[i] = d[i + 1] /\ Start(t, k, i) = Start(d, n, i + 1) /\ i + 1 \in 1..Len(d)
      BY <1>2, <1>4, <1>5
    <3>2. i + 1 = Len(d) => i = Len(t)
      <4>1. Len(d) \in Nat /\ Len(t) \in Nat /\ Len(t) = Len(d) - 1 /\ i \in Nat
        BY <1>1
      <4> QED BY <4>1, Shift, Zenon
    <3> QED BY <3>1, <3>2 DEF Chain
  <2> QED BY <2>1 DEF Chain
<1>7. End(t, k) = End(d, n)
  <2>1. Len(t) + 1 \in 1..(Len(t) + 1) /\ Len(t) + 1 + 1 = Len(d) + 1
    BY <1>1
  <2> QED BY <2>1, <1>4 DEF End
<1>8. Full(d) => Full(t)
  BY <1>2, <1>5 DEF Full
<1>9. t # <<>> => t[Len(t)] = d[Len(d)]
  <2>1. ASSUME t # <<>> PROVE Len(t) \in 1..Len(t) /\ Len(t) + 1 = Len(d)
    BY <2>1, <1>1
  <2> QED BY <2>1, <1>2
<1> QED
  BY <1>1, <1>3, <1>6, <1>7, <1>8, <1>9 DEF Taken

\* keysd dies, and the last ones are lost.
LEMMA ChainCut ==
  ASSUME NEW j, NEW d \in Seq(Seq(Nat)), NEW n \in Nat, Chain(j, d, n),
         NEW k \in 0..Len(d), NEW t, t = SubSeq(d, 1, k)
  PROVE  t \in Seq(Seq(Nat)) /\ Chain(j, t, n)
<1>1. /\ Len(d) \in Nat /\ k \in Nat /\ k <= Len(d)
  OBVIOUS
<1>2. t \in Seq(Seq(Nat)) /\ Len(t) = k /\ \A i \in 1..k : t[i] = d[i]
  BY <1>1
<1>3. \A i \in 1..k : i \in 1..Len(d) /\ (i # 1 => i - 1 \in 1..k)
  BY <1>1
<1>4. \A i \in 1..k : Start(t, n, i) = Start(d, n, i)
  BY <1>2, <1>3 DEF Start
<1>5. \A i \in 1..k : i = Len(d) => i = Len(t)
  BY <1>1, <1>2
<1> QED
  BY <1>2, <1>3, <1>4, <1>5 DEF Chain

-----------------------------------------------------------------------------
(* The invariant. *)

StreamTypes ==
  /\ job \in Jobs /\ fed \in 0..job.chunks
  /\ feeder \in {"read", "send", "close", "ended"} /\ failed \in BOOLEAN
  /\ up \in Seq(Nat) /\ upEnd \in BOOLEAN
  /\ server \in {"options", "recv", "encoded", "header", "verify", "ended"}
  /\ held \in Seq(Nat) /\ down \in Seq(Seq(Nat)) /\ downEnd \in {"none", "ok", "error"}
  /\ printer \in {"recv", "return"} /\ stdout \in Seq(Nat)
  /\ result \in {"none", "ok", "error", "interrupted"}

\* What the goroutines have done by where they are.
PlaceInv ==
  /\ feeder = "send" => fed >= 1
  /\ feeder = "close" \/ upEnd => fed = job.chunks /\ job.end # "fail"
  /\ upEnd => feeder = "ended"
  /\ (server = "ended") <=> (downEnd # "none")
  /\ job.kind = "write" => server \in {"options", "recv", "encoded", "ended"}
  /\ job.kind # "write" => server \in {"header", "verify", "ended"}
  /\ server = "options" => held = <<>> /\ down = <<>> /\ stdout = <<>>
  /\ server \in {"recv", "encoded"} => job.signer # "unknown"
  /\ job.kind = "read" /\ job.signer = "unknown" => server # "verify" /\ down = <<>>

\* The next chunk to print, and the last chunk that was sent to keysd.
NextOut == Base(job) + Len(stdout)
Sent == IF feeder = "send" THEN fed - 1 ELSE fed

\* What is printed, on its way back, held and on its way there is one run of chunks.
RecvInv ==
  /\ Chain(job, down, NextOut)
  /\ server # "ended" => Full(down) /\ (job.kind = "detached" => down = <<>>)
  /\ server # "ended" /\ job.kind # "detached" =>
       /\ Run(held, End(down, NextOut)) /\ Run(up, End(down, NextOut) + Len(held))
       /\ End(down, NextOut) + Len(held) + Len(up) = Sent + 1
  /\ downEnd = "ok" =>
       /\ Complete(job)
       /\ job.kind = "write" => Full(down) /\ End(down, NextOut) = Stop(job)
       /\ job.kind # "write" => down # <<>> /\ down[Len(down)] = Empty

PipeInv ==
  /\ Run(stdout, Base(job)) /\ NextOut <= Stop(job)
  /\ printer = "recv" => RecvInv

\* What the command printed and returns.
AnswerInv ==
  /\ job.kind # "write" /\ stdout # <<>> => job.signer = "right"
  /\ (printer = "return" /\ ~failed) \/ result = "ok" => Good /\ NextOut = Stop(job)

StreamInv == StreamTypes /\ PlaceInv /\ PipeInv /\ AnswerInv

LEMMA JobFacts ==
  ASSUME NEW j \in Jobs
  PROVE  /\ Base(j) \in Nat /\ Stop(j) \in Nat /\ Base(j) <= Stop(j)
         /\ j.kind \in {"write", "read", "detached"}
         /\ j.chunks \in Nat /\ j.bad \in Nat /\ j.bad <= j.chunks
         /\ j.kind = "write" => /\ Base(j) = 0 /\ Stop(j) = j.chunks + 2
                                /\ j.end # "cut" /\ j.signer # "wrong"
         /\ j.kind # "write" => Base(j) = 1
         /\ j.kind = "read" => Stop(j) = IF j.bad # 0 THEN j.bad ELSE j.chunks + 1
         /\ j.kind = "detached" => Stop(j) = 1
         /\ j.end \in {"eof", "cut", "fail"} /\ j.signer \in {"right", "wrong", "unknown"}
<1>1. /\ j.kind \in {"write", "read", "detached"}
      /\ j.chunks \in Nat /\ j.bad \in Nat /\ j.bad <= j.chunks
      /\ j.end \in {"eof", "cut", "fail"}
      /\ j.signer \in {"right", "wrong", "unknown"}
      /\ j.kind = "write" => j.end # "cut" /\ j.signer # "wrong"
  BY JobsAssumption
<1>2. CASE j.kind = "write"
  BY <1>1, <1>2 DEF Base, Stop, Header
<1>3. CASE j.kind = "read"
  BY <1>1, <1>3 DEF Base, Stop
<1>4. CASE j.kind = "detached"
  BY <1>1, <1>4 DEF Base, Stop
<1> QED
  BY <1>1, <1>2, <1>3, <1>4

LEMMA StreamFacts ==
  ASSUME StreamInv
  PROVE  /\ NextOut \in Nat /\ NextOut >= Base(job) /\ NextOut <= Stop(job)
         /\ Len(stdout) \in Nat /\ Len(held) \in Nat /\ Len(up) \in Nat /\ Len(down) \in Nat
         /\ fed \in Nat /\ fed <= job.chunks
         /\ Sent \in Nat /\ Sent <= job.chunks
<1>1. Len(stdout) \in Nat /\ Len(held) \in Nat /\ Len(up) \in Nat /\ Len(down) \in Nat
  BY DEF StreamInv, StreamTypes
<1>2. Base(job) \in Nat /\ job.chunks \in Nat
  BY JobFacts DEF StreamInv, StreamTypes
<1>3. fed \in Nat /\ fed <= job.chunks
  BY <1>2 DEF StreamInv, StreamTypes
<1>4. Sent \in Nat /\ Sent <= job.chunks
  BY <1>2, <1>3 DEF Sent, StreamInv, PlaceInv
<1> QED
  BY <1>1, <1>2, <1>3, <1>4 DEF NextOut, StreamInv, PipeInv

\* While keysd runs and the command prints: the next chunk to come out.
LEMMA EndFacts ==
  ASSUME StreamInv, printer = "recv", server # "ended"
  PROVE  /\ End(down, NextOut) \in Nat /\ End(down, NextOut) <= Stop(job)
         /\ Chain(job, down, NextOut) /\ Full(down)
<1>1. Chain(job, down, NextOut) /\ Full(down)
  BY DEF StreamInv, PipeInv, RecvInv
<1> QED
  BY <1>1, StreamFacts, StartFacts, JobFacts DEF StreamInv, StreamTypes

LEMMA StreamInit == ASSUME NEW j \in Jobs, Opened(j) PROVE StreamInv
<1>1. j.kind \in {"write", "read", "detached"} /\ j.chunks \in Nat
  BY JobFacts
<1>2. job = j /\ NextOut = Base(j) /\ Len(stdout) = 0 /\ Sent = 0
  BY JobFacts DEF Opened, NextOut, Sent
<1>3. StreamTypes
  <2>1. up \in Seq(Nat) /\ held \in Seq(Nat) /\ down \in Seq(Seq(Nat)) /\ stdout \in Seq(Nat)
    BY DEF Opened
  <2>2. fed \in 0..job.chunks
    BY <1>1 DEF Opened
  <2>3. server \in {"options", "header"}
    BY DEF Opened
  <2> QED BY <2>1, <2>2, <2>3 DEF Opened, StreamTypes
<1>4. PlaceInv
  BY <1>1 DEF Opened, PlaceInv
<1>5. PipeInv
  <2>1. Run(stdout, Base(job)) /\ NextOut <= Stop(job)
    BY <1>2, JobFacts DEF Opened, Run
  <2>2. Chain(job, down, NextOut) /\ Full(down) /\ End(down, NextOut) = Base(j)
    BY <1>2 DEF Opened, Chain, Full, End, Start
  <2>3. held = <<>> /\ Len(held) = 0 /\ Run(held, End(down, NextOut))
    BY DEF Opened, Run
  <2>4. job.kind # "detached" => /\ Run(up, End(down, NextOut) + Len(held))
                                 /\ End(down, NextOut) + Len(held) + Len(up) = Sent + 1
    <3>1. CASE j.kind = "write"
      <4>1. up = <<0>> /\ Len(up) = 1 /\ up[1] = 0 /\ Base(j) = 0
        BY <3>1, JobFacts DEF Opened
      <4> QED BY <4>1, <2>2, <2>3, <1>2 DEF Run
    <3>2. CASE j.kind = "read"
      <4>1. up = <<>> /\ Len(up) = 0 /\ Base(j) = 1
        BY <3>2, JobFacts DEF Opened
      <4> QED BY <4>1, <2>2, <2>3, <1>2 DEF Run
    <3> QED BY <1>1, <1>2, <3>1, <3>2
  <2>5. down = <<>> /\ downEnd = "none"
    BY DEF Opened
  <2> QED BY <2>1, <2>2, <2>3, <2>4, <2>5 DEF PipeInv, RecvInv
<1>6. AnswerInv
  BY DEF Opened, AnswerInv
<1> QED
  BY <1>3, <1>4, <1>5, <1>6 DEF StreamInv

-----------------------------------------------------------------------------
(* The goroutine that feeds. *)

\* It may set the error; the other end sees nothing of it but what is sent.
LEMMA FeederFrame ==
  ASSUME StreamInv, UNCHANGED <<job, server, held, down, downEnd, printer, stdout, result>>,
         failed' \in {failed, TRUE}
  PROVE  /\ AnswerInv'
         /\ Sent' = Sent /\ up' = up => PipeInv'
<1>1. AnswerInv'
  BY DEF StreamInv, AnswerInv, Good, NextOut
<1>2. ASSUME Sent' = Sent, up' = up PROVE PipeInv'
  <2>1. NextOut' = NextOut
    BY DEF NextOut
  <2>2. RecvInv => RecvInv'
    BY <1>2, <2>1 DEF RecvInv
  <2> QED BY <2>1, <2>2 DEF StreamInv, PipeInv
<1> QED
  BY <1>1, <1>2

LEMMA ReadStdinStep == ASSUME StreamInv, ReadStdin PROVE StreamInv'
<1>1. /\ feeder = "read"
      /\ UNCHANGED <<job, up, upEnd, server, held, down, downEnd, printer, stdout, result>>
  BY DEF ReadStdin
<1>2. \/ fed < job.chunks /\ fed' = fed + 1 /\ feeder' = "send" /\ failed' = failed
      \/ /\ ~(fed < job.chunks) /\ fed' = fed /\ feeder' = "ended"
         /\ failed' = TRUE
      \/ /\ ~(fed < job.chunks) /\ job.end # "fail" /\ fed' = fed /\ feeder' = "close"
         /\ failed' = failed
  BY DEF ReadStdin, Feed
<1>3. fed \in Nat /\ job.chunks \in Nat /\ fed <= job.chunks
  BY StreamFacts, JobFacts DEF StreamInv, StreamTypes
<1>4. ~upEnd
  BY <1>1 DEF StreamInv, PlaceInv
<1>5. fed' \in 0..job.chunks
  BY <1>2, <1>3
<1>6. StreamTypes'
  BY <1>1, <1>2, <1>5 DEF StreamInv, StreamTypes
<1>7. PlaceInv'
  BY <1>1, <1>2, <1>3, <1>4 DEF StreamInv, PlaceInv
<1>8. Sent' = Sent
  BY <1>1, <1>2, <1>3 DEF Sent
<1> QED
  BY <1>1, <1>2, <1>6, <1>7, <1>8, FeederFrame DEF StreamInv

LEMMA CloseSendStep == ASSUME StreamInv, CloseSend PROVE StreamInv'
<1>1. /\ feeder = "close" /\ feeder' = "ended" /\ upEnd' = TRUE
      /\ UNCHANGED <<job, fed, failed, up, server, held, down, downEnd, printer, stdout, result>>
  BY DEF CloseSend, Feed
<1>2. StreamTypes'
  BY <1>1 DEF StreamInv, StreamTypes
<1>3. PlaceInv'
  BY <1>1 DEF StreamInv, PlaceInv
<1>4. Sent' = Sent
  BY <1>1 DEF Sent
<1> QED
  BY <1>1, <1>2, <1>3, <1>4, FeederFrame DEF StreamInv

LEMMA SendChunkStep == ASSUME StreamInv, SendChunk PROVE StreamInv'
<1>1. /\ feeder = "send"
      /\ UNCHANGED <<job, fed, upEnd, server, held, down, downEnd, printer, stdout, result>>
      /\ \/ downEnd # "none" /\ feeder' = "ended" /\ failed' = TRUE /\ up' = up
         \/ /\ downEnd = "none" /\ up' = Append(up, fed) /\ feeder' = "read"
            /\ failed' = failed
  BY DEF SendChunk, Feed
<1>2. fed \in Nat /\ fed >= 1 /\ Sent = fed - 1 /\ Sent' = fed /\ ~upEnd
  BY <1>1, StreamFacts DEF StreamInv, PlaceInv, Sent
<1>3. StreamTypes'
  <2>1. up' \in Seq(Nat)
    <3>1. up \in Seq(Nat)
      BY DEF StreamInv, StreamTypes
    <3>2. Append(up, fed) \in Seq(Nat)
      BY <1>2, <3>1
    <3> QED BY <1>1, <3>1, <3>2
  <2> QED BY <1>1, <2>1 DEF StreamInv, StreamTypes
<1>4. PlaceInv'
  BY <1>1, <1>2 DEF StreamInv, PlaceInv
<1>5. NextOut' = NextOut
  BY <1>1 DEF NextOut
<1>6. PipeInv'
  <2>1. ASSUME printer = "recv" PROVE RecvInv'
    <3>1. /\ Chain(job, down, NextOut)
          /\ server # "ended" => Full(down) /\ (job.kind = "detached" => down = <<>>)
          /\ downEnd = "ok" =>
             /\ Complete(job)
             /\ job.kind = "write" => Full(down) /\ End(down, NextOut) = Stop(job)
             /\ job.kind # "write" => down # <<>> /\ down[Len(down)] = Empty
      BY <2>1 DEF StreamInv, PipeInv, RecvInv
    <3>2. ASSUME server # "ended", job.kind # "detached"
          PROVE  /\ Run(held, End(down, NextOut))
                 /\ Run(up', End(down, NextOut) + Len(held))
                 /\ End(down, NextOut) + Len(held) + Len(up') = fed + 1
      <4>1. up' = Append(up, fed)
        BY <1>1, <3>2 DEF StreamInv, PlaceInv
      <4>2. /\ Run(held, End(down, NextOut)) /\ Run(up, End(down, NextOut) + Len(held))
            /\ End(down, NextOut) + Len(held) + Len(up) = Sent + 1
        BY <2>1, <3>2 DEF StreamInv, PipeInv, RecvInv
      <4>3. End(down, NextOut) \in Nat /\ Len(held) \in Nat /\ Len(up) \in Nat
        BY <2>1, <3>2, EndFacts, StreamFacts
      <4>4. End(down, NextOut) + Len(held) \in Nat
            /\ End(down, NextOut) + Len(held) + Len(up) = fed
        BY <1>2, <4>2, <4>3
      <4>5. Len(up') = Len(up) + 1 /\ Run(up', End(down, NextOut) + Len(held))
        BY <4>1, <4>2, <4>4, RunAppend DEF StreamInv, StreamTypes
      <4> QED BY <1>2, <4>2, <4>3, <4>4, <4>5
    <3> QED BY <1>1, <1>2, <1>5, <3>1, <3>2 DEF RecvInv
  <2> QED BY <1>1, <1>5, <2>1 DEF StreamInv, PipeInv
<1> QED
  BY <1>1, <1>3, <1>4, <1>6, FeederFrame DEF StreamInv

-----------------------------------------------------------------------------
(* The goroutine that prints. *)

LEMMA TailMessages ==
  ASSUME NEW d \in Seq(Seq(Nat)), d # <<>>
  PROVE  Tail(d) \in Seq(Seq(Nat))
OBVIOUS

\* It stops printing; without an error only when all was printed.
LEMMA BreakStep ==
  ASSUME StreamInv, down' = down \/ (down # <<>> /\ down' = Tail(down)),
         UNCHANGED <<job, fed, feeder, up, upEnd, server, held, downEnd, stdout, result>>,
         printer' = "return", failed' \in BOOLEAN,
         ~failed' => Good /\ NextOut = Stop(job)
  PROVE  StreamInv'
<1>1. down' \in Seq(Seq(Nat)) /\ (down = <<>> => down' = <<>>)
  <2>1. down \in Seq(Seq(Nat))
    BY DEF StreamInv, StreamTypes
  <2>2. CASE down' = down
    BY <2>1, <2>2
  <2>3. CASE down # <<>> /\ down' = Tail(down)
    BY <2>1, <2>3, TailMessages
  <2> QED BY <2>2, <2>3
<1>2. StreamTypes' /\ PlaceInv'
  BY <1>1 DEF StreamInv, StreamTypes, PlaceInv
<1>3. PipeInv'
  BY DEF StreamInv, PipeInv, NextOut
<1>4. AnswerInv'
  BY DEF StreamInv, AnswerInv, Good, NextOut
<1> QED
  BY <1>2, <1>3, <1>4 DEF StreamInv

LEMMA PrintsMore == \A l, h \in Nat : h >= 1 => ~(1 + l + h <= 1)
OBVIOUS

LEMMA PrintStep ==
  ASSUME StreamInv, printer = "recv", down # <<>>, Head(down) # Empty, down' = Tail(down),
         job.kind = "write" \/ job.signer # "wrong", stdout' = stdout \o Head(down),
         UNCHANGED <<job, fed, feeder, failed, up, upEnd, server, held, downEnd, printer, result>>,
         result = "none"
  PROVE  StreamInv'
<1>1. /\ stdout \in Seq(Nat) /\ down \in Seq(Seq(Nat)) /\ Run(stdout, Base(job))
      /\ Chain(job, down, NextOut) /\ NextOut = Base(job) + Len(stdout) /\ Len(stdout) \in Nat
      /\ Base(job) \in Nat /\ NextOut \in Nat
  BY StreamFacts, JobFacts DEF StreamInv, StreamTypes, PipeInv, RecvInv, NextOut
<1>2. PICK k : k = NextOut + Len(Head(down))
  OBVIOUS
<1>3. /\ down' \in Seq(Seq(Nat)) /\ k \in Nat /\ k <= Stop(job)
      /\ Run(Head(down), NextOut) /\ Head(down) \in Seq(Nat)
      /\ Chain(job, down', k) /\ End(down', k) = End(down, NextOut)
      /\ Full(down) => Full(down')
      /\ down' # <<>> => down'[Len(down')] = down[Len(down)]
      /\ Len(down') = Len(down) - 1
  <2>1. PICK t : t = down'
    OBVIOUS
  <2>2. PICK n \in Nat : n = NextOut
    BY <1>1
  <2>3. PICK d \in Seq(Seq(Nat)) : d = down
    BY <1>1
  <2>4. Chain(job, d, n) /\ t = Tail(d) /\ k = n + Len(Head(d)) /\ d # <<>> /\ Head(d) # Empty
    BY <1>1, <1>2, <2>1, <2>2, <2>3
  <2>5. Taken(job, d, n, t, k)
    BY <2>2, <2>3, <2>4, ChainTail
  <2> QED BY <2>1, <2>2, <2>3, <2>5, Zenon DEF Taken
<1>4. /\ stdout' \in Seq(Nat) /\ Len(stdout') = Len(stdout) + Len(Head(down))
      /\ Run(stdout', Base(job))
  BY <1>1, <1>3, RunConcat
<1>5. NextOut' = k
  <2>1. Len(Head(down)) \in Nat
    BY <1>3
  <2> QED BY <1>1, <1>2, <1>4, <2>1 DEF NextOut
<1>6. StreamTypes'
  BY <1>3, <1>4 DEF StreamInv, StreamTypes
<1>7. ~(job.kind = "read" /\ job.signer = "unknown") /\ server # "options"
  BY DEF StreamInv, PlaceInv
<1>8. PlaceInv'
  BY <1>7 DEF StreamInv, PlaceInv
<1>9. job.kind # "write" => job.signer = "right"
  <2>1. job.kind # "detached"
    <3>1. Len(Head(down)) \in Nat /\ Len(Head(down)) >= 1
      BY <1>3 DEF Empty
    <3>2. CASE job.kind = "detached"
      <4>1. Stop(job) = 1 /\ Base(job) = 1
        BY <3>2, JobFacts DEF StreamInv, StreamTypes
      <4>2. PICK h \in Nat : h = Len(Head(down)) /\ h >= 1
        BY <3>1
      <4>3. PICK l \in Nat : l = Len(stdout)
        BY <1>1
      <4>4. 1 + l + h <= 1
        BY <4>1, <4>2, <4>3, <1>1, <1>2, <1>3
      <4>5. ~(1 + l + h <= 1)
        BY <4>2, <4>3, PrintsMore, Zenon
      <4> QED BY <4>4, <4>5
    <3> QED BY <3>2
  <2> QED BY <1>7, <2>1, JobFacts DEF StreamInv, StreamTypes
<1>10. AnswerInv'
  BY <1>9 DEF StreamInv, AnswerInv
<1>11. RecvInv'
  <2>1. RecvInv
    BY DEF StreamInv, PipeInv
  <2>2. Sent' = Sent
    BY DEF Sent
  <2>3. ASSUME downEnd = "ok", job.kind # "write" PROVE down' # <<>>
    <3>1. down[Len(down)] = Empty
      BY <2>1, <2>3 DEF RecvInv
    <3>2. Len(down) # 1
      <4>1. Head(down) = down[1]
        BY <1>1, SeqElements
      <4> QED BY <3>1, <4>1
    <3>3. Len(down) \in Nat /\ Len(down) # 0
      BY <1>1
    <3>4. Len(down') # 0
      BY <1>3, <3>2, <3>3
    <3> QED BY <3>4
  <2> QED BY <1>3, <1>5, <2>1, <2>2, <2>3 DEF RecvInv
<1>12. PipeInv'
  BY <1>3, <1>4, <1>5, <1>11 DEF PipeInv
<1> QED
  BY <1>6, <1>8, <1>10, <1>12 DEF StreamInv

\* The empty message comes after all of the output.
LEMMA EmptyComes ==
  ASSUME StreamInv, printer = "recv", down # <<>>, Head(down) = Empty, job.signer # "wrong"
  PROVE  Good /\ NextOut = Stop(job)
<1>1. Len(down) \in Nat /\ 1 \in 1..Len(down) /\ down[1] = Empty
  BY DEF StreamInv, StreamTypes
<1>2. Start(down, NextOut, 1) = NextOut
  BY DEF Start
<1>3. NextOut = Stop(job) /\ Complete(job)
  BY <1>1, <1>2 DEF StreamInv, PipeInv, RecvInv, Chain
<1> QED
  BY <1>3, JobFacts DEF Complete, Good, StreamInv, StreamTypes

LEMMA ReceiveStep == ASSUME StreamInv, Receive PROVE StreamInv'
<1>1. /\ result = "none" /\ printer = "recv" /\ down # <<>> /\ down' = Tail(down)
      /\ UNCHANGED <<job, fed, feeder, up, upEnd, server, held, downEnd, result>>
  BY DEF Receive, Receiving
<1>2. failed \in BOOLEAN
  BY DEF StreamInv, StreamTypes
<1>3. CASE job.signer = "wrong" /\ job.kind # "write"
  <2>1. printer' = "return" /\ failed' = TRUE /\ stdout' = stdout
    BY <1>2, <1>3 DEF Receive, Break
  <2> QED BY <1>1, <2>1, BreakStep
<1>4. CASE ~(job.signer = "wrong" /\ job.kind # "write") /\ Head(down) = Empty
  <2>1. printer' = "return" /\ failed' = failed /\ stdout' = stdout
    BY <1>2, <1>4 DEF Receive, Break
  <2>2. job.signer # "wrong"
    BY <1>4, JobFacts DEF StreamInv, StreamTypes
  <2>3. Good /\ NextOut = Stop(job)
    BY <1>1, <1>4, <2>2, EmptyComes
  <2> QED BY <1>1, <1>2, <2>1, <2>3, BreakStep
<1>5. CASE ~(job.signer = "wrong" /\ job.kind # "write") /\ Head(down) # Empty
  <2>1. stdout' = stdout \o Head(down) /\ UNCHANGED <<printer, failed>>
    BY <1>5 DEF Receive
  <2> QED BY <1>1, <1>5, <2>1, PrintStep
<1> QED
  BY <1>3, <1>4, <1>5

LEMMA ReceiveEndStep == ASSUME StreamInv, ReceiveEnd PROVE StreamInv'
<1>1. /\ result = "none" /\ printer = "recv" /\ down = <<>> /\ downEnd # "none"
      /\ printer' = "return" /\ failed' = (failed \/ downEnd = "error")
      /\ UNCHANGED <<job, fed, feeder, up, upEnd, server, held, down, downEnd, stdout, result>>
  BY DEF ReceiveEnd, Receiving, Break
<1>2. failed \in BOOLEAN /\ downEnd \in {"none", "ok", "error"}
  BY DEF StreamInv, StreamTypes
<1>3. ASSUME downEnd = "ok" PROVE Good /\ NextOut = Stop(job)
  <2>1. job.kind = "write" /\ Complete(job) /\ End(down, NextOut) = Stop(job)
    BY <1>1, <1>3 DEF StreamInv, PipeInv, RecvInv
  <2>2. End(down, NextOut) = NextOut
    BY <1>1 DEF End, Start
  <2> QED BY <2>1, <2>2 DEF Good, Complete
<1>4. ~failed' => Good /\ NextOut = Stop(job)
  BY <1>1, <1>2, <1>3
<1> QED
  BY <1>1, <1>2, <1>4, BreakStep

LEMMA ReturnStep == ASSUME StreamInv, ReturnError \/ Interrupt PROVE StreamInv'
<1>1. /\ UNCHANGED <<job, fed, feeder, failed, up, upEnd, server, held, down, downEnd, printer, stdout>>
      /\ result' \in {"ok", "error", "interrupted"}
      /\ result' = "ok" => printer = "return" /\ ~failed
  BY DEF ReturnError, Interrupt
<1>2. StreamTypes' /\ PlaceInv'
  BY <1>1 DEF StreamInv, StreamTypes, PlaceInv
<1>3. NextOut' = NextOut /\ Sent' = Sent
  BY <1>1 DEF NextOut, Sent
<1>4. PipeInv'
  BY <1>1, <1>3 DEF StreamInv, PipeInv, RecvInv
<1>5. AnswerInv'
  BY <1>1, <1>3 DEF StreamInv, AnswerInv, Good
<1> QED
  BY <1>2, <1>4, <1>5 DEF StreamInv

-----------------------------------------------------------------------------
(* keysd. *)

LEMMA ServerFrame ==
  ASSUME StreamInv, UNCHANGED <<job, fed, feeder, failed, upEnd, printer, stdout, result>>,
         StreamTypes', PlaceInv', printer = "recv" => RecvInv'
  PROVE  StreamInv'
<1>1. NextOut' = NextOut
  BY DEF NextOut
<1>2. PipeInv'
  BY <1>1 DEF StreamInv, PipeInv
<1>3. AnswerInv'
  BY <1>1 DEF StreamInv, AnswerInv, Good
<1> QED
  BY <1>2, <1>3 DEF StreamInv

\* What is held and what is on its way continue what was sent back.
LEMMA HeldFacts ==
  ASSUME StreamInv, printer = "recv", server # "ended", job.kind # "detached",
         NEW e, e = End(down, NextOut)
  PROVE  /\ e \in Nat /\ e <= Stop(job) /\ Run(held, e) /\ Run(up, e + Len(held))
         /\ e + Len(held) + Len(up) = Sent + 1
         /\ held \in Seq(Nat) /\ up \in Seq(Nat) /\ Len(held) \in Nat /\ Len(up) \in Nat
<1>1. e \in Nat /\ e <= Stop(job)
  BY EndFacts
<1>2. /\ Run(held, e) /\ Run(up, e + Len(held))
      /\ e + Len(held) + Len(up) = Sent + 1
  BY DEF StreamInv, PipeInv, RecvInv
<1> QED
  BY <1>1, <1>2, StreamFacts DEF StreamInv, StreamTypes

\* An RPC that fails sends no more.
LEMMA FailedRPC ==
  ASSUME StreamInv, printer = "recv", UNCHANGED <<job, down, stdout>>,
         server' = "ended", downEnd' = "error"
  PROVE  RecvInv'
<1>1. NextOut' = NextOut
  BY DEF NextOut
<1>2. Chain(job, down, NextOut)
  BY DEF StreamInv, PipeInv, RecvInv
<1>3. downEnd' # "ok" /\ ~(server' # "ended")
  OBVIOUS
<1> QED
  BY <1>1, <1>2, <1>3 DEF RecvInv

\* It keeps what it has sent while it takes from what is under way.
LEMMA KeepsSending ==
  ASSUME StreamInv, printer = "recv", server # "ended", server' # "ended",
         UNCHANGED <<job, fed, feeder, down, downEnd, stdout>>,
         NEW e, e = End(down, NextOut),
         job.kind # "detached" => /\ Run(held', e) /\ Run(up', e + Len(held'))
                                  /\ e + Len(held') + Len(up') = Sent + 1
  PROVE  RecvInv'
<1>1. NextOut' = NextOut /\ Sent' = Sent
  BY DEF NextOut, Sent
<1>2. /\ Chain(job, down, NextOut) /\ Full(down)
      /\ (job.kind = "detached" => down = <<>>)
  BY DEF StreamInv, PipeInv, RecvInv
<1>3. downEnd = "none"
  BY DEF StreamInv, PlaceInv
<1> QED
  BY <1>1, <1>2, <1>3 DEF RecvInv

LEMMA TakeInput ==
  ASSUME StreamInv, server # "ended", server' # "ended", up # <<>>, up' = Tail(up),
         held' = Append(held, Head(up)),
         UNCHANGED <<job, fed, feeder, failed, upEnd, down, downEnd, printer, stdout, result>>
  PROVE  /\ up' \in Seq(Nat) /\ held' \in Seq(Nat)
         /\ printer = "recv" => RecvInv'
<1>1. up' \in Seq(Nat) /\ held' \in Seq(Nat)
  BY DEF StreamInv, StreamTypes
<1>2. ASSUME printer = "recv" PROVE RecvInv'
  <2>1. PICK e : e = End(down, NextOut)
    OBVIOUS
  <2>2. ASSUME job.kind # "detached"
        PROVE  /\ Run(held', e) /\ Run(up', e + Len(held'))
               /\ e + Len(held') + Len(up') = Sent + 1
    <3>1. /\ e \in Nat /\ Run(held, e) /\ Run(up, e + Len(held))
          /\ e + Len(held) + Len(up) = Sent + 1
          /\ held \in Seq(Nat) /\ up \in Seq(Nat) /\ Len(held) \in Nat /\ Len(up) \in Nat
      BY <1>2, <2>1, <2>2, HeldFacts
    <3>2. PICK f \in Nat : f = e + Len(held)
      BY <3>1
    <3>3. /\ Head(up) = f /\ Len(up') = Len(up) - 1 /\ Run(up', f + 1)
      BY <3>1, <3>2, RunTail
    <3>4. Len(held') = Len(held) + 1 /\ Run(held', e)
      <4>1. PICK t : t = held'
        OBVIOUS
      <4>2. t = Append(held, f)
        BY <3>3, <4>1
      <4>3. Len(t) = Len(held) + 1 /\ Run(t, e)
        BY <3>1, <3>2, <4>2, RunAppend
      <4> QED BY <4>1, <4>3
    <3>5. f + 1 = e + Len(held')
      BY <3>1, <3>2, <3>4
    <3>6. e + Len(held') + Len(up') = Sent + 1
      BY <3>1, <3>3, <3>4
    <3> QED BY <3>3, <3>4, <3>5, <3>6
  <2> QED BY <1>2, <2>1, <2>2, KeepsSending
<1> QED
  BY <1>1, <1>2

LEMMA RecvOptionsStep == ASSUME StreamInv, RecvOptions PROVE StreamInv'
<1>1. /\ server = "options" /\ up # <<>> /\ up' = Tail(up)
      /\ UNCHANGED <<job, fed, feeder, failed, upEnd, down, printer, stdout, result>>
      /\ \/ server' = "ended" /\ downEnd' = "error" /\ held' = held
         \/ /\ job.signer # "unknown" /\ server' = "recv" /\ held' = <<Header>>
            /\ downEnd' = downEnd
  BY DEF RecvOptions, Ends
<1>2. /\ held = <<>> /\ down = <<>> /\ stdout = <<>> /\ job.kind = "write"
      /\ downEnd = "none"
  BY <1>1, JobFacts DEF StreamInv, StreamTypes, PlaceInv
<1>3. up' \in Seq(Nat) /\ <<Header>> \in Seq(Nat)
  BY <1>1 DEF StreamInv, StreamTypes, Header
<1>4. StreamTypes'
  BY <1>1, <1>3 DEF StreamInv, StreamTypes
<1>5. PlaceInv'
  BY <1>1, <1>2 DEF StreamInv, PlaceInv
<1>6. ASSUME printer = "recv" PROVE RecvInv'
  <2>1. CASE server' = "ended" /\ downEnd' = "error"
    BY <1>1, <1>6, <2>1, FailedRPC
  <2>2. CASE server' = "recv" /\ held' = <<Header>> /\ downEnd' = downEnd
    <3>1. PICK e : e = End(down, NextOut)
      OBVIOUS
    <3>2. e = 0
      <4>1. Base(job) = 0 /\ Len(stdout) = 0
        BY <1>2, JobFacts DEF StreamInv, StreamTypes
      <4> QED BY <1>2, <3>1, <4>1 DEF End, Start, NextOut
    <3>3. /\ Run(up, e + Len(held)) /\ e + Len(held) + Len(up) = Sent + 1
          /\ up \in Seq(Nat) /\ Len(up) \in Nat /\ Len(held) = 0
      BY <1>1, <1>2, <1>6, <3>1, HeldFacts
    <3>4. Len(up') = Len(up) - 1 /\ Run(up', 1)
      <4>1. Run(up, 0) /\ up # <<>> /\ up \in Seq(Nat)
        BY <1>1, <3>2, <3>3
      <4>2. PICK t : t = up'
        OBVIOUS
      <4>3. t = Tail(up)
        BY <1>1, <4>2
      <4>4. Len(t) = Len(up) - 1 /\ Run(t, 0 + 1)
        BY <4>1, <4>3, RunTail
      <4> QED BY <4>2, <4>4
    <3>5. Len(held') = 1 /\ Run(held', 0)
      BY <2>2 DEF Header, Run
    <3>6. e + Len(held') = 1 /\ e + Len(held') + Len(up') = Sent + 1
      BY <3>2, <3>3, <3>4, <3>5
    <3> QED BY <1>1, <1>6, <2>2, <3>1, <3>2, <3>4, <3>5, <3>6, KeepsSending
  <2> QED BY <1>1, <2>1, <2>2
<1> QED
  BY <1>1, <1>4, <1>5, <1>6, ServerFrame

LEMMA RecvChunkStep == ASSUME StreamInv, RecvChunk \/ RecvInput PROVE StreamInv'
<1>1. /\ up # <<>> /\ up' = Tail(up) /\ held' = Append(held, Head(up))
      /\ UNCHANGED <<job, fed, feeder, failed, upEnd, down, downEnd, printer, stdout, result>>
      /\ \/ server = "recv" /\ server' = "encoded" /\ job.kind = "write"
         \/ server \in {"header", "verify"} /\ server' = server
  BY DEF RecvChunk, RecvInput
<1>2. server # "ended" /\ server' # "ended"
  BY <1>1
<1>3. up' \in Seq(Nat) /\ held' \in Seq(Nat) /\ (printer = "recv" => RecvInv')
  BY <1>1, <1>2, TakeInput
<1>4. StreamTypes'
  BY <1>1, <1>3 DEF StreamInv, StreamTypes
<1>5. PlaceInv'
  BY <1>1 DEF StreamInv, PlaceInv
<1> QED
  BY <1>1, <1>3, <1>4, <1>5, ServerFrame

LEMMA RoomLeft ==
  \A e, k, l, w, c, x \in Nat : e + l + w = x + 1 /\ x <= c /\ k <= l => e + k <= c + 2
OBVIOUS

LEMMA LastFits == \A e, l, c \in Nat : e + l = c + 1 => e + (l + 1) = c + 2
OBVIOUS

LEMMA SendEncodedStep == ASSUME StreamInv, SendEncoded PROVE StreamInv'
<1>1. /\ server = "encoded" /\ server' = "recv"
      /\ UNCHANGED <<job, fed, feeder, failed, up, upEnd, downEnd, printer, stdout, result>>
  BY DEF SendEncoded
<1>2. PICK k \in 0..Len(held) :
        /\ down' = IF k > 0 THEN Append(down, SubSeq(held, 1, k)) ELSE down
        /\ held' = SubSeq(held, k + 1, Len(held))
  BY DEF SendEncoded
<1>3. PICK m : m = SubSeq(held, 1, k)
  OBVIOUS
<1>4. PICK u : u = held'
  OBVIOUS
<1>5. PICK h \in Seq(Nat) : h = held
  BY DEF StreamInv, StreamTypes
<1>6. k \in 0..Len(h) /\ m = SubSeq(h, 1, k) /\ u = SubSeq(h, k + 1, Len(h)) /\ 0 \in Nat
  BY <1>2, <1>3, <1>4, <1>5
<1>7. PICK d \in Seq(Seq(Nat)) : d = down
  BY DEF StreamInv, StreamTypes
<1>8. \/ k > 0 /\ down' = Append(d, m)
      \/ k = 0 /\ down' = d
  BY <1>2, <1>3, <1>5, <1>6, <1>7
<1>9. m \in Seq(Nat) /\ u \in Seq(Nat)
  BY <1>6, PartTypes
<1>10. down' \in Seq(Seq(Nat))
  BY <1>8, <1>9, MoreMessages
<1>11. StreamTypes'
  BY <1>1, <1>4, <1>9, <1>10 DEF StreamInv, StreamTypes
<1>12. job.kind = "write" /\ downEnd = "none"
  BY <1>1, JobFacts DEF StreamInv, StreamTypes, PlaceInv
<1>13. PlaceInv'
  BY <1>1, <1>12 DEF StreamInv, PlaceInv
<1>14. ASSUME printer = "recv" PROVE RecvInv'
  <2>1. PICK e : e = End(down, NextOut)
    OBVIOUS
  <2>2. /\ e \in Nat /\ e <= Stop(job) /\ Run(held, e) /\ Run(up, e + Len(held))
        /\ e + Len(held) + Len(up) = Sent + 1 /\ Len(held) \in Nat /\ Len(up) \in Nat
    BY <1>1, <1>12, <1>14, <2>1, HeldFacts
  <2>3. Run(h, e)
    BY <1>5, <2>2
  <2>4. /\ Len(m) = k /\ Run(m, e) /\ Len(u) = Len(h) - k /\ Run(u, e + k)
    <3>1. e \in Nat
      BY <2>2
    <3>2. Parts(h, e, k, m, u)
      BY <3>1, <2>3, <1>6, RunSplit, Zenon
    <3> QED BY <3>2 DEF Parts
  <2>5. k \in Nat /\ k <= Len(h)
    BY <1>6, <2>2, <1>5
  <2>6. PICK n \in Nat : n = NextOut
    BY StreamFacts
  <2>7. /\ e = End(d, n) /\ Chain(job, d, n) /\ Full(d) /\ n <= Stop(job) /\ Stop(job) \in Nat
        /\ Stop(job) = job.chunks + 2 /\ Sent <= job.chunks /\ Sent \in Nat /\ job.chunks \in Nat
    <3>1. Chain(job, down, NextOut) /\ Full(down)
      BY <1>1, <1>14, EndFacts
    <3> QED BY <1>7, <1>12, <2>1, <2>6, <3>1, StreamFacts, JobFacts DEF StreamInv, StreamTypes
  <2>8. NextOut' = n /\ Sent' = Sent
    BY <1>1, <2>6 DEF NextOut, Sent
  <2>9. e + k <= Stop(job)
    <3>1. PICK l, w, c, x \in Nat : l = Len(h) /\ w = Len(up) /\ c = job.chunks /\ x = Sent
      BY <1>5, <2>2, <2>7
    <3>2. e + l + w = x + 1 /\ x <= c /\ k <= l
      BY <1>5, <2>2, <2>5, <2>7, <3>1
    <3>3. e + k <= c + 2
      BY <2>2, <2>5, <3>1, <3>2, RoomLeft, Zenon
    <3> QED BY <2>7, <3>1, <3>3
  <2>10. PICK t : t = down'
    OBVIOUS
  <2>11. CASE k = 0
    BY <1>1, <1>4, <1>5, <1>7, <1>8, <1>12, <2>1, <2>2, <2>4, <2>11, <1>14, KeepsSending
  <2>12. CASE k > 0
    <3>1. t = Append(d, m) /\ m # Empty
      BY <1>8, <2>4, <2>10, <2>12 DEF Empty
    <3>2. Chain(job, t, n) /\ Full(t) /\ End(t, n) = End(d, n) + Len(m)
      <4>1. Run(m, End(d, n)) /\ End(d, n) + Len(m) <= Stop(job)
        BY <2>4, <2>7, <2>9
      <4>2. Grown(job, d, n, m, t)
        BY <1>9, <2>7, <3>1, <4>1, ChainAppend, Zenon
      <4> QED BY <3>1, <4>2 DEF Grown
    <3>3. Run(u, e + k) /\ Run(up, e + k + Len(u)) /\ e + k + Len(u) + Len(up) = Sent + 1
      <4>1. e + k + Len(u) = e + Len(held)
        BY <1>5, <2>2, <2>4, <2>5
      <4> QED BY <2>2, <2>4, <4>1
    <3>4. End(t, n) = e + k
      BY <2>4, <2>7, <3>2
    <3> QED BY <1>1, <1>4, <1>12, <2>8, <2>10, <3>2, <3>3, <3>4 DEF RecvInv
  <2> QED BY <2>5, <2>11, <2>12
<1> QED
  BY <1>1, <1>11, <1>13, <1>14, ServerFrame

LEMMA SendLastStep == ASSUME StreamInv, SendLast PROVE StreamInv'
<1>1. /\ server = "recv" /\ job.kind = "write" /\ up = <<>> /\ upEnd
      /\ down' = Append(down, Append(held, Footer)) /\ held' = <<>>
      /\ server' = "ended" /\ downEnd' = "ok"
      /\ UNCHANGED <<job, fed, feeder, failed, up, upEnd, printer, stdout, result>>
  BY DEF SendLast, Ends
<1>2. /\ job.chunks \in Nat /\ job.end = "eof" /\ job.signer # "unknown"
      /\ Stop(job) = job.chunks + 2 /\ Sent = job.chunks
  <2>1. /\ job.end # "fail" /\ feeder = "ended" /\ fed = job.chunks /\ job.signer # "unknown"
    BY <1>1 DEF StreamInv, PlaceInv
  <2> QED BY <1>1, <2>1, JobFacts DEF StreamInv, StreamTypes, Sent
<1>3. PICK h \in Seq(Nat) : h = held
  BY DEF StreamInv, StreamTypes
<1>4. PICK d \in Seq(Seq(Nat)) : d = down
  BY DEF StreamInv, StreamTypes
<1>5. PICK f \in Nat : f = job.chunks + 1
  BY <1>2
<1>6. PICK m : m = Append(h, f)
  OBVIOUS
<1>7. PICK t : t = Append(d, m)
  OBVIOUS
<1>8. down' = t /\ m \in Seq(Nat) /\ t \in Seq(Seq(Nat))
  BY <1>1, <1>3, <1>4, <1>5, <1>6, <1>7 DEF Footer
<1>9. StreamTypes'
  BY <1>1, <1>8 DEF StreamInv, StreamTypes
<1>10. PlaceInv'
  BY <1>1 DEF StreamInv, PlaceInv
<1>11. ASSUME printer = "recv" PROVE RecvInv'
  <2>1. PICK n \in Nat : n = NextOut
    BY StreamFacts
  <2>2. PICK e : e = End(d, n)
    OBVIOUS
  <2>3. /\ e \in Nat /\ Run(h, e) /\ e + Len(h) = job.chunks + 1 /\ Len(h) \in Nat
    <3>1. e = End(down, NextOut)
      BY <1>4, <2>1, <2>2
    <3>2. /\ e \in Nat /\ Run(held, e) /\ e + Len(held) + Len(up) = Sent + 1
          /\ Len(held) \in Nat
      BY <1>1, <1>11, <3>1, HeldFacts
    <3>3. Len(up) = 0
      BY <1>1
    <3> QED BY <1>2, <1>3, <3>2, <3>3
  <2>4. f = e + Len(h)
    BY <1>5, <2>3
  <2>5. Len(m) = Len(h) + 1 /\ Run(m, e)
    BY <1>6, <2>3, <2>4, RunAppend
  <2>6. e + Len(m) = Stop(job) /\ m # Empty /\ Stop(job) \in Nat
    <3>1. e + Len(m) = Stop(job) /\ Stop(job) \in Nat
      <4>1. PICK l, c \in Nat : l = Len(h) /\ c = job.chunks
        BY <1>2, <2>3
      <4>2. e + (l + 1) = c + 2
        <5>1. e + l = c + 1 /\ e \in Nat
          BY <2>3, <4>1
        <5> QED BY <4>1, <5>1, LastFits, Zenon
      <4> QED BY <1>2, <2>5, <4>1, <4>2
    <3>2. Len(m) # 0
      BY <2>3, <2>5
    <3> QED BY <3>1, <3>2 DEF Empty
  <2>7. Chain(job, d, n) /\ Full(d) /\ n <= Stop(job)
    <3>1. Chain(job, down, NextOut) /\ Full(down)
      BY <1>1, <1>11, EndFacts
    <3> QED BY <1>4, <2>1, <3>1, StreamFacts
  <2>8. e + Len(m) <= Stop(job)
    BY <2>6
  <2>9. Chain(job, t, n) /\ Full(t) /\ End(t, n) = e + Len(m)
    <3>1. Run(m, End(d, n)) /\ End(d, n) + Len(m) <= Stop(job)
      BY <2>2, <2>5, <2>8
    <3>2. Grown(job, d, n, m, t)
      BY <1>7, <1>8, <2>6, <2>7, <3>1, ChainAppend, Zenon
    <3> QED BY <2>2, <2>6, <3>2 DEF Grown
  <2>10. NextOut' = n
    BY <1>1, <2>1 DEF NextOut
  <2>11. Complete(job)
    BY <1>1, <1>2 DEF Complete
  <2> QED BY <1>1, <1>8, <2>6, <2>9, <2>10, <2>11 DEF RecvInv
<1> QED
  BY <1>1, <1>9, <1>10, <1>11, ServerFrame

LEMMA FindSenderStep == ASSUME StreamInv, FindSender PROVE StreamInv'
<1>1. /\ server = "header"
      /\ UNCHANGED <<job, fed, feeder, failed, up, upEnd, held, down, printer, stdout, result>>
      /\ \/ server' = "ended" /\ downEnd' = "error"
         \/ /\ ~(job.kind = "read" /\ job.signer = "unknown") /\ server' = "verify"
            /\ downEnd' = downEnd
  BY DEF FindSender, Ends
<1>2. job.kind # "write" /\ downEnd = "none"
  BY <1>1 DEF StreamInv, PlaceInv
<1>3. StreamTypes'
  BY <1>1 DEF StreamInv, StreamTypes
<1>4. PlaceInv'
  BY <1>1, <1>2 DEF StreamInv, PlaceInv
<1>5. ASSUME printer = "recv" PROVE RecvInv'
  <2>1. CASE server' = "ended" /\ downEnd' = "error"
    BY <1>1, <1>5, <2>1, FailedRPC
  <2>2. CASE server' = "verify" /\ downEnd' = downEnd
    <3>1. NextOut' = NextOut /\ Sent' = Sent
      BY <1>1 DEF NextOut, Sent
    <3>2. RecvInv
      BY <1>5 DEF StreamInv, PipeInv
    <3>3. server # "ended"
      BY <1>1
    <3> QED BY <1>1, <2>2, <3>1, <3>2, <3>3 DEF RecvInv
  <2> QED BY <1>1, <2>1, <2>2
<1> QED
  BY <1>1, <1>3, <1>4, <1>5, ServerFrame

\* The chunk fits before the one that does not verify.
LEMMA Fits ==
  ASSUME NEW e \in Nat, NEW l \in Nat, NEW w \in Nat, NEW x \in Nat, NEW c \in Nat,
         NEW b \in Nat, NEW z, l >= 1, e + l + w = x + 1, x <= c, e <= z, e # b,
         z = IF b # 0 THEN b ELSE c + 1
  PROVE  e + 1 <= z
OBVIOUS

LEMMA OneChunk == ASSUME NEW x \in Nat PROVE <<x>> \in Seq(Nat)
OBVIOUS

LEMMA SendVerifiedStep == ASSUME StreamInv, SendVerified PROVE StreamInv'
<1>1. /\ server = "verify" /\ job.kind = "read" /\ held # <<>>
      /\ UNCHANGED <<job, fed, feeder, failed, up, upEnd, printer, stdout, result>>
      /\ \/ server' = "ended" /\ downEnd' = "error" /\ down' = down /\ held' = held
         \/ /\ Head(held) # job.bad /\ down' = Append(down, <<Head(held)>>)
            /\ held' = Tail(held) /\ server' = server /\ downEnd' = downEnd
  BY DEF SendVerified, Ends
<1>2. downEnd = "none" /\ job.signer # "unknown"
  BY <1>1 DEF StreamInv, PlaceInv
<1>3. PICK h \in Seq(Nat) : h = held
  BY DEF StreamInv, StreamTypes
<1>4. PICK d \in Seq(Seq(Nat)) : d = down
  BY DEF StreamInv, StreamTypes
<1>5. h # <<>> /\ Head(h) \in Nat /\ Tail(h) \in Seq(Nat)
  BY <1>1, <1>3
<1>6. PICK m \in Seq(Nat) : m = <<Head(h)>>
  BY <1>5, OneChunk
<1>7. PICK t \in Seq(Seq(Nat)) : t = Append(d, m)
  BY MoreMessages
<1>8. \/ server' = "ended" /\ downEnd' = "error" /\ down' = down /\ held' = held
      \/ /\ Head(h) # job.bad /\ down' = t /\ held' = Tail(h)
         /\ server' = server /\ downEnd' = downEnd
  BY <1>1, <1>3, <1>4, <1>6, <1>7
<1>9. down' \in Seq(Seq(Nat)) /\ held' \in Seq(Nat)
  BY <1>3, <1>4, <1>5, <1>8
<1>10. StreamTypes'
  BY <1>1, <1>9 DEF StreamInv, StreamTypes
<1>11. PlaceInv'
  BY <1>1, <1>2 DEF StreamInv, PlaceInv
<1>12. ASSUME printer = "recv" PROVE RecvInv'
  <2>1. CASE server' = "ended" /\ downEnd' = "error" /\ down' = down
    BY <1>1, <1>12, <2>1, FailedRPC
  <2>2. CASE /\ Head(h) # job.bad /\ down' = t /\ held' = Tail(h)
             /\ server' = server /\ downEnd' = downEnd
    <3>1. PICK n \in Nat : n = NextOut
      BY StreamFacts
    <3>2. PICK e : e = End(d, n)
      OBVIOUS
    <3>3. /\ e \in Nat /\ e <= Stop(job) /\ Run(h, e) /\ Run(up, e + Len(h))
          /\ e + Len(h) + Len(up) = Sent + 1 /\ Len(h) \in Nat /\ Len(up) \in Nat
      <4>1. e = End(down, NextOut)
        BY <1>4, <3>1, <3>2
      <4>2. /\ e \in Nat /\ e <= Stop(job) /\ Run(held, e) /\ Run(up, e + Len(held))
            /\ e + Len(held) + Len(up) = Sent + 1 /\ Len(held) \in Nat /\ Len(up) \in Nat
        BY <1>1, <1>12, <4>1, HeldFacts
      <4> QED BY <1>3, <4>2
    <3>4. PICK r : r = Tail(h)
      OBVIOUS
    <3>5. Head(h) = e /\ Len(r) = Len(h) - 1 /\ Run(r, e + 1) /\ Len(h) > 0
      BY <1>5, <3>3, <3>4, RunTail
    <3>6. Run(m, e) /\ Len(m) = 1 /\ m # Empty
      BY <1>6, <3>3, <3>5 DEF Run, Empty
    <3>7. e + Len(m) <= Stop(job)
      <4>1. PICK l, w, x, c, b \in Nat : /\ l = Len(h) /\ w = Len(up) /\ x = Sent
                                         /\ c = job.chunks /\ b = job.bad
        BY <3>3, StreamFacts, JobFacts DEF StreamInv, StreamTypes
      <4>2. Stop(job) = IF b # 0 THEN b ELSE c + 1
        BY <1>1, <4>1, JobFacts DEF StreamInv, StreamTypes
      <4>3. l >= 1 /\ e + l + w = x + 1 /\ x <= c /\ e <= Stop(job) /\ e # b
        <5>1. l >= 1
          BY <3>5, <4>1
        <5>2. e + l + w = x + 1 /\ e <= Stop(job)
          BY <3>3, <4>1
        <5>3. x <= c
          BY <4>1, StreamFacts
        <5>4. e # b
          BY <2>2, <3>5, <4>1
        <5> QED BY <5>1, <5>2, <5>3, <5>4
      <4>4. e + 1 <= Stop(job)
        BY <3>3, <4>2, <4>3, Fits
      <4> QED BY <3>6, <4>4
    <3>8. Chain(job, d, n) /\ Full(d) /\ n <= Stop(job) /\ Stop(job) \in Nat
      <4>1. Chain(job, down, NextOut) /\ Full(down)
        BY <1>1, <1>12, EndFacts
      <4> QED BY <1>4, <3>1, <4>1, StreamFacts, JobFacts DEF StreamInv, StreamTypes
    <3>9. Grown(job, d, n, m, t)
      <4>1. Run(m, End(d, n)) /\ End(d, n) + Len(m) <= Stop(job)
        BY <3>2, <3>6, <3>7
      <4> QED BY <1>7, <3>6, <3>8, <4>1, ChainAppend, Zenon
    <3>10. Chain(job, t, n) /\ Full(t) /\ End(t, n) = e + 1
      BY <3>2, <3>6, <3>9 DEF Grown
    <3>11. Run(up, e + 1 + Len(r)) /\ e + 1 + Len(r) + Len(up) = Sent + 1
      <4>1. e + 1 + Len(r) = e + Len(h)
        BY <3>3, <3>5
      <4> QED BY <3>3, <4>1
    <3>12. NextOut' = n /\ Sent' = Sent
      BY <1>1, <3>1 DEF NextOut, Sent
    <3> QED BY <1>1, <1>2, <2>2, <3>4, <3>5, <3>10, <3>11, <3>12 DEF RecvInv
  <2> QED BY <1>8, <2>1, <2>2
<1> QED
  BY <1>1, <1>10, <1>11, <1>12, ServerFrame

\* Nothing more is to come when all was read and handed out.
LEMMA AllOut ==
  ASSUME NEW e \in Nat, NEW x, NEW c \in Nat, NEW b \in Nat, NEW z,
         e + 0 + 0 = x + 1, x = c, e <= z, b <= c, z = IF b # 0 THEN b ELSE c + 1
  PROVE  e = z /\ b = 0
OBVIOUS

LEMMA EmptyMessage == Empty \in Seq(Nat)
BY DEF Empty

LEMMA NotEmpty == ASSUME NEW d \in Seq(Seq(Nat)), NEW t \in Seq(Seq(Nat)), Len(t) = Len(d) + 1
                    PROVE  t # <<>>
<1>1. Len(d) \in Nat
  OBVIOUS
<1>2. Len(t) # 0
  BY <1>1
<1> QED
  BY <1>2

LEMMA SendEmptyStep == ASSUME StreamInv, SendEmpty PROVE StreamInv'
<1>1. /\ server = "verify" /\ job.kind = "read" /\ held = <<>> /\ up = <<>> /\ upEnd
      /\ UNCHANGED <<job, fed, feeder, failed, up, upEnd, held, printer, stdout, result>>
      /\ \/ server' = "ended" /\ downEnd' = "error" /\ down' = down
         \/ /\ job.end # "cut" /\ down' = Append(down, Empty)
            /\ server' = "ended" /\ downEnd' = "ok"
  BY DEF SendEmpty, Ends, AllRead
<1>2. /\ downEnd = "none" /\ job.signer # "unknown" /\ job.end # "fail"
      /\ feeder = "ended" /\ fed = job.chunks
  BY <1>1 DEF StreamInv, PlaceInv
<1>3. PICK d \in Seq(Seq(Nat)) : d = down
  BY DEF StreamInv, StreamTypes
<1>4. PICK m \in Seq(Nat) : m = Empty
  BY EmptyMessage
<1>5. PICK t \in Seq(Seq(Nat)) : t = Append(d, m)
  BY MoreMessages
<1>6. \/ server' = "ended" /\ downEnd' = "error" /\ down' = down
      \/ job.end # "cut" /\ down' = t /\ server' = "ended" /\ downEnd' = "ok"
  BY <1>1, <1>3, <1>4, <1>5
<1>7. down' \in Seq(Seq(Nat))
  BY <1>3, <1>6
<1>8. StreamTypes'
  BY <1>1, <1>6, <1>7 DEF StreamInv, StreamTypes
<1>9. PlaceInv'
  BY <1>1, <1>2, <1>6 DEF StreamInv, PlaceInv
<1>10. ASSUME printer = "recv" PROVE RecvInv'
  <2>1. CASE server' = "ended" /\ downEnd' = "error" /\ down' = down
    BY <1>1, <1>10, <2>1, FailedRPC
  <2>2. CASE job.end # "cut" /\ down' = t /\ server' = "ended" /\ downEnd' = "ok"
    <3>1. PICK n \in Nat : n = NextOut
      BY StreamFacts
    <3>2. PICK e : e = End(d, n)
      OBVIOUS
    <3>3. /\ e \in Nat /\ e <= Stop(job) /\ e + 0 + 0 = Sent + 1
      <4>1. e = End(down, NextOut)
        BY <1>3, <3>1, <3>2
      <4>2. e \in Nat /\ e <= Stop(job) /\ e + Len(held) + Len(up) = Sent + 1
        BY <1>1, <1>10, <4>1, HeldFacts
      <4>3. Len(held) = 0 /\ Len(up) = 0
        BY <1>1
      <4> QED BY <4>2, <4>3
    <3>4. e = Stop(job) /\ job.bad = 0
      <4>1. PICK c, b \in Nat : c = job.chunks /\ b = job.bad /\ b <= c
        BY JobFacts DEF StreamInv, StreamTypes
      <4>2. Stop(job) = IF b # 0 THEN b ELSE c + 1
        BY <1>1, <4>1, JobFacts DEF StreamInv, StreamTypes
      <4>3. Sent = c
        BY <1>2, <4>1 DEF Sent
      <4> QED BY <3>3, <4>1, <4>2, <4>3, AllOut
    <3>5. Complete(job)
      BY <1>1, <1>2, <2>2, <3>4, JobFacts DEF Complete, StreamInv, StreamTypes
    <3>6. Chain(job, d, n) /\ Full(d) /\ n <= Stop(job) /\ Stop(job) \in Nat
      <4>1. Chain(job, down, NextOut) /\ Full(down)
        BY <1>1, <1>10, EndFacts
      <4> QED BY <1>3, <3>1, <4>1, StreamFacts, JobFacts DEF StreamInv, StreamTypes
    <3>7. Grown(job, d, n, m, t)
      <4>1. Run(m, End(d, n)) /\ End(d, n) + Len(m) <= Stop(job)
        BY <1>4, <3>2, <3>3 DEF Run, Empty
      <4>2. End(d, n) = Stop(job) /\ job.kind # "write"
        BY <1>1, <3>2, <3>4
      <4> QED BY <1>5, <3>5, <3>6, <4>1, <4>2, ChainAppend, Zenon
    <3>8. Chain(job, t, n) /\ t[Len(t)] = Empty /\ t # <<>>
      <4>1. Chain(job, t, n) /\ t[Len(t)] = Empty /\ Len(t) = Len(d) + 1
        BY <1>4, <3>7 DEF Grown
      <4> QED BY <4>1, NotEmpty
    <3>9. NextOut' = n
      BY <1>1, <3>1 DEF NextOut
    <3> QED BY <1>1, <2>2, <3>5, <3>8, <3>9 DEF RecvInv
  <2> QED BY <1>6, <2>1, <2>2
<1> QED
  BY <1>1, <1>8, <1>9, <1>10, ServerFrame

LEMMA VerifyDetachedStep == ASSUME StreamInv, VerifyDetached PROVE StreamInv'
<1>1. /\ server = "verify" /\ job.kind = "detached"
      /\ UNCHANGED <<job, fed, feeder, failed, up, upEnd, printer, stdout, result>>
      /\ \/ held # <<>> /\ held' = Tail(held) /\ UNCHANGED <<down, server, downEnd>>
         \/ held' = held /\ server' = "ended" /\ downEnd' = "error" /\ down' = down
         \/ /\ upEnd /\ job.bad = 0 /\ job.end # "cut" /\ job.signer # "unknown"
            /\ held' = held /\ down' = Append(down, Empty)
            /\ server' = "ended" /\ downEnd' = "ok"
  BY DEF VerifyDetached, Ends, AllRead
<1>2. downEnd = "none" /\ (upEnd => job.end # "fail")
  BY <1>1 DEF StreamInv, PlaceInv
<1>3. PICK d \in Seq(Seq(Nat)) : d = down
  BY DEF StreamInv, StreamTypes
<1>4. PICK m \in Seq(Nat) : m = Empty
  BY EmptyMessage
<1>5. PICK t \in Seq(Seq(Nat)) : t = Append(d, m)
  BY MoreMessages
<1>6. down' = d \/ down' = t
  BY <1>1, <1>3, <1>4, <1>5
<1>7. held' \in Seq(Nat)
  <2>1. held \in Seq(Nat)
    BY DEF StreamInv, StreamTypes
  <2>2. held # <<>> => Tail(held) \in Seq(Nat)
    BY <2>1
  <2> QED BY <1>1, <2>1, <2>2
<1>8. StreamTypes'
  BY <1>1, <1>6, <1>7 DEF StreamInv, StreamTypes
<1>9. PlaceInv'
  BY <1>1, <1>2 DEF StreamInv, PlaceInv
<1>10. ASSUME printer = "recv" PROVE RecvInv'
  <2>1. CASE held' = Tail(held) /\ UNCHANGED <<down, server, downEnd>>
    <3>1. PICK e : e = End(down, NextOut)
      OBVIOUS
    <3>2. server # "ended" /\ server' # "ended"
      BY <1>1, <2>1
    <3> QED BY <1>1, <1>10, <2>1, <3>1, <3>2, KeepsSending
  <2>2. CASE server' = "ended" /\ downEnd' = "error" /\ down' = down
    BY <1>1, <1>10, <2>2, FailedRPC
  <2>3. CASE /\ upEnd /\ job.bad = 0 /\ job.end # "cut" /\ job.signer # "unknown"
             /\ down' = Append(down, Empty)
             /\ server' = "ended" /\ downEnd' = "ok"
    <3>1. PICK n \in Nat : n = NextOut
      BY StreamFacts
    <3>2. Stop(job) = 1 /\ n = 1
      <4>1. Stop(job) = 1 /\ Base(job) = 1
        BY <1>1, JobFacts DEF StreamInv, StreamTypes
      <4>2. n >= 1 /\ n <= 1
        BY <3>1, <4>1, StreamFacts
      <4> QED BY <4>1, <4>2
    <3>3. d = <<>> /\ Chain(job, d, n) /\ Full(d)
      <4>1. down = <<>> /\ Chain(job, down, NextOut) /\ Full(down)
        BY <1>1, <1>10 DEF StreamInv, PipeInv, RecvInv
      <4> QED BY <1>3, <3>1, <4>1
    <3>4. End(d, n) = 1
      BY <3>2, <3>3 DEF End, Start
    <3>5. Complete(job)
      BY <1>1, <1>2, <2>3, JobFacts DEF Complete, StreamInv, StreamTypes
    <3>6. Grown(job, d, n, m, t)
      <4>1. Run(m, End(d, n)) /\ End(d, n) + Len(m) <= Stop(job)
        BY <1>4, <3>2, <3>4 DEF Run, Empty
      <4>2. End(d, n) = Stop(job) /\ job.kind # "write" /\ n <= Stop(job) /\ Stop(job) \in Nat
        BY <1>1, <3>2, <3>4
      <4> QED BY <1>5, <3>3, <3>5, <4>1, <4>2, ChainAppend, Zenon
    <3>7. Chain(job, t, n) /\ t[Len(t)] = Empty /\ t # <<>>
      <4>1. Chain(job, t, n) /\ t[Len(t)] = Empty /\ Len(t) = Len(d) + 1
        BY <1>4, <3>6 DEF Grown
      <4> QED BY <4>1, NotEmpty
    <3>8. NextOut' = n
      BY <1>1, <3>1 DEF NextOut
    <3>9. down' = t
      BY <1>3, <1>4, <1>5, <2>3
    <3> QED BY <1>1, <2>3, <3>5, <3>7, <3>8, <3>9 DEF RecvInv
  <2> QED BY <1>1, <2>1, <2>2, <2>3
<1> QED
  BY <1>1, <1>8, <1>9, <1>10, ServerFrame

LEMMA CancelledStep == ASSUME StreamInv, Cancelled PROVE StreamInv'
<1>1. /\ server' = "ended" /\ downEnd' = "error"
      /\ UNCHANGED <<job, fed, feeder, failed, up, upEnd, held, down, printer, stdout, result>>
  BY DEF Cancelled, Ends
<1>2. StreamTypes' /\ PlaceInv'
  BY <1>1 DEF StreamInv, StreamTypes, PlaceInv
<1> QED
  BY <1>1, <1>2, FailedRPC, ServerFrame

\* What keysd sent stays a chain when the end of it is lost.
LEMMA DieStep == ASSUME StreamInv, Die PROVE StreamInv'
<1>1. /\ server' = "ended" /\ downEnd' = "error"
      /\ UNCHANGED <<job, fed, feeder, failed, up, upEnd, held, printer, stdout, result>>
  BY DEF Die, Ends
<1>2. PICK d \in Seq(Seq(Nat)) : d = down
  BY DEF StreamInv, StreamTypes
<1>3. PICK k \in 0..Len(d) : down' = SubSeq(d, 1, k)
  BY <1>2 DEF Die
<1>4. PICK t : t = SubSeq(d, 1, k)
  OBVIOUS
<1>5. t \in Seq(Seq(Nat)) /\ (d = <<>> => t = <<>>)
  <2>1. Len(d) \in Nat /\ k \in Nat /\ k <= Len(d)
    OBVIOUS
  <2> QED BY <1>4, <2>1
<1>6. StreamTypes'
  BY <1>1, <1>3, <1>4, <1>5 DEF StreamInv, StreamTypes
<1>7. PlaceInv'
  BY <1>1, <1>2, <1>3, <1>4, <1>5 DEF StreamInv, PlaceInv
<1>8. ASSUME printer = "recv" PROVE RecvInv'
  <2>1. PICK n \in Nat : n = NextOut
    BY StreamFacts
  <2>2. NextOut' = n
    BY <1>1, <2>1 DEF NextOut
  <2>3. Chain(job, d, n)
    <3>1. Chain(job, down, NextOut)
      BY <1>8 DEF StreamInv, PipeInv, RecvInv
    <3> QED BY <1>2, <2>1, <3>1
  <2>4. Chain(job, t, n)
    BY <1>4, <2>3, ChainCut
  <2> QED BY <1>1, <1>3, <1>4, <2>2, <2>4 DEF RecvInv
<1> QED
  BY <1>1, <1>6, <1>7, <1>8, ServerFrame

-----------------------------------------------------------------------------
LEMMA StreamNext == ASSUME StreamInv, [Streaming]_stream PROVE StreamInv'
<1>1. CASE UNCHANGED stream
  <2>1. NextOut' = NextOut /\ Sent' = Sent
    BY <1>1 DEF stream, NextOut, Sent
  <2> QED BY <1>1, <2>1 DEF stream, StreamInv, StreamTypes, PlaceInv, PipeInv, RecvInv,
                            AnswerInv, Good
<1>2. CASE Streaming
  BY <1>2, ReadStdinStep, SendChunkStep, CloseSendStep, ReceiveStep, ReceiveEndStep,
     ReturnStep, RecvOptionsStep, RecvChunkStep, SendEncodedStep, SendLastStep,
     FindSenderStep, SendVerifiedStep, SendEmptyStep, VerifyDetachedStep, CancelledStep,
     DieStep
     DEF Streaming, Feeder, Printer, Server
<1> QED
  BY <1>1, <1>2

\* The invariant says what PrintsVerified says.
LEMMA InvPrints == ASSUME StreamInv PROVE PrintsVerified
<1>1. PICK s \in Seq(Nat) : s = stdout
  BY DEF StreamInv, StreamTypes
<1>2. PICK b \in Nat : b = Base(job)
  BY JobFacts DEF StreamInv, StreamTypes
<1>3. /\ Run(s, b) /\ b + Len(s) <= Stop(job) /\ Stop(job) \in Nat /\ Len(s) \in Nat
      /\ result = "ok" => Good /\ b + Len(s) = Stop(job)
      /\ job.kind # "write" /\ s # <<>> => job.signer = "right"
  BY <1>1, <1>2, StreamFacts, JobFacts
     DEF StreamInv, StreamTypes, PipeInv, AnswerInv, NextOut
<1>4. job \in Jobs
  BY DEF StreamInv, StreamTypes
<1>5. CASE job.kind = "write"
  <2>1. PICK c \in Nat : c = job.chunks + 1
    BY <1>4, JobFacts
  <2>2. b = 0 /\ Stop(job) = c + 1 /\ Whole = Numbers(b, c)
    BY <1>2, <1>4, <1>5, <2>1, JobFacts DEF Whole, Header, Footer
  <2>3. IsPrefix(s, Whole) /\ (b + Len(s) = c + 1 => s = Whole)
    BY <1>3, <2>2, Beginning
  <2> QED BY <1>1, <1>3, <1>5, <2>2, <2>3 DEF PrintsVerified
<1>6. CASE job.kind = "read"
  <2>1. PICK c \in Nat : c = job.chunks
    BY <1>4, JobFacts
  <2>2. /\ b = 1 /\ Stop(job) = (IF job.bad # 0 THEN job.bad ELSE c + 1)
        /\ Whole = Numbers(b, c) /\ job.bad \in Nat /\ job.bad <= c
    BY <1>2, <1>4, <1>6, <2>1, JobFacts DEF Whole
  <2>3. b + Len(s) <= c + 1
    BY <1>3, <2>2
  <2>4. IsPrefix(s, Whole) /\ (b + Len(s) = c + 1 => s = Whole)
    BY <1>3, <2>2, <2>3, Beginning
  <2>5. job.bad # 0 => Len(s) < job.bad
    BY <1>3, <2>2
  <2>6. result = "ok" => Good /\ s = Whole
    <3>1. Good => job.bad = 0
      BY <1>6 DEF Good
    <3> QED BY <1>3, <2>2, <2>4, <3>1
  <2> QED BY <1>1, <1>3, <1>6, <2>4, <2>5, <2>6 DEF PrintsVerified
<1>7. CASE job.kind = "detached"
  <2>1. b = 1 /\ Stop(job) = 1 /\ Whole = <<>>
    BY <1>2, <1>4, <1>7, JobFacts DEF Whole
  <2>2. s = <<>>
    <3>1. Len(s) = 0
      BY <1>3, <2>1
    <3> QED BY <3>1
  <2>3. IsPrefix(s, Whole)
    BY <2>1, <2>2 DEF IsPrefix
  <2> QED BY <1>1, <1>3, <1>7, <2>1, <2>2, <2>3 DEF PrintsVerified
<1> QED
  BY <1>4, <1>5, <1>6, <1>7, JobFacts

\* Of every input, of any length, and through windows of any size: what is printed is a
\* beginning of the output, of chunks that verified before one that does not, and of a
\* signer that is expected; and a command that succeeds has printed all of it
\* (cmd_encrypt.go:133, cmd_verify.go:153 and the goroutines they start).
THEOREM PrintsVerifiedCorrect == StreamSpec => []PrintsVerified
<1>1. (\E j \in Jobs : Opened(j)) => StreamInv
  BY StreamInit
<1>2. StreamInv /\ [Streaming]_stream => StreamInv'
  BY StreamNext
<1>3. StreamInv => PrintsVerified
  BY InvPrints
<1> QED
  BY <1>1, <1>2, <1>3, PTL DEF StreamSpec
=============================================================================
