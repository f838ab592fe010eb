----------------------------- MODULE UserCheck -----------------------------
(***************************************************************************)
(* How keysd and the server keep up with the proofs of users               *)
(* (service/user.go, key.go, pull.go, service.go; http/server/check.go,    *)
(* tasks.go).                                                              *)
(*                                                                         *)
(* A user claims a name at a service by a statement in a sigchain and a    *)
(* proof published at that service. Both keysd and the server keep an      *)
(* index: for each key the status of the last check, when it was made and  *)
(* when the proof was last seen. An RPC that is given a name goes on only  *)
(* if the index says it was seen lately, or a check made now sees it. An   *)
(* hourly loop in keysd and a cron job of the server check again what has  *)
(* grown old. Calls, loop and tasks overlap at every access to the index,  *)
(* the local sigchain and the network.                                     *)
(*                                                                         *)
(* Times are ages in ticks that stop growing when nothing can tell them    *)
(* apart any more, so that time itself needs no bound.                     *)
(***************************************************************************)
EXTENDS Naturals, Sequences, FiniteSets, SequencesExt

CONSTANTS Keys, None,
          Calls,        \* RPCs under way at the same time
          Workers,      \* tasks the server runs at the same time
          VerifyExpire, \* userVerifiedExpire (24 h)
          CheckExpire,  \* userCheckExpire (24 h)
          FailExpire,   \* userCheckFailureExpire (4 h)
          CronExpire,   \* what the server's cron job calls expired (23 h)
          Worlds        \* initial states: [host, keys, calls, order, broken,
                        \* fresh, faults, changes], the last two bounds of
                        \* how many requests fail and how often users
                        \* change or revoke a proof

ASSUME ExpireAssumption ==
  /\ {VerifyExpire, CheckExpire, FailExpire, CronExpire} \subseteq Nat
  /\ FailExpire <= CheckExpire /\ CronExpire <= CheckExpire

ASSUME WorldsAssumption ==
  \A w \in Worlds : w.keys \subseteq Keys /\ w.order \in Seq(w.keys)

VARIABLES proof,      \* which keys' proofs are in place at the service
          seen,       \* age of the last moment each was
          chain,      \* each key's sigchain on the server
          local,      \* and its copy in keysd
          index,      \* the user index: of keysd or of the server
          proc,       \* calls, the loop and tasks
          due,        \* the loop's ticker, or the cron job, has fired
          tasks,      \* check tasks the server has created
          world, faults, changes

vars == <<proof, seen, chain, local, index, proc, due, tasks, world, faults, changes>>
outside == <<proof, seen, chain, world, changes>>

\* The age from which all is expired; a proof not seen for longer is long gone.
Old == Max({VerifyExpire, CheckExpire}) + 1
Gone == Old + 1
Older(age, most) == Min({age + 1, most})

\* What the index holds of a key; a time of zero is an expired one.
Result(status, verified, checked) ==
  [status |-> status, verified |-> verified, checked |-> checked]
Missing == Result("missing", Old, Old)
Aged(r) == [r EXCEPT !.verified = Older(@, Old), !.checked = Older(@, Old)]

Loop == "loop"
Procs == Calls \cup Workers \cup {Loop}
Idle == [pc |-> "idle", op |-> "none", key |-> None, todo |-> <<>>, then |-> "none",
         chain |-> "none", result |-> Missing, late |-> FALSE, answer |-> "none"]

\* The answer of a call: accepted, unclaimed (a key without a user), or neither.
Answer(p, answer) ==
  proc' = [proc EXCEPT ![p] = [Idle EXCEPT !.answer =
             IF answer \in {"accepted", "unclaimed"} THEN answer ELSE "none"]]
Goto(p, pc) == proc' = [proc EXCEPT ![p].pc = pc]
On(host) == world.host = host

\* A round of the loop over the keys of the keyring; keysd makes the first one,
\* with a new database, without looking at the index, and a second one after it.
Round(op) == [Idle EXCEPT !.pc = "next", !.op = op, !.todo = world.order, !.then = "next"]

\* What an error does: a call returns it, the loop ends its round.
Error(p) == IF p = Loop /\ proc[p].op = "all"
            THEN proc' = [proc EXCEPT ![p] = Round("check")]
            ELSE Answer(p, "refused")

\* A request that fails for no reason, or one for a key that always fails.
Fails(k) == \/ k \in world.broken /\ UNCHANGED faults
            \/ faults > 0 /\ faults' = faults - 1

----------------------------------------------------------------------------
(* update: fetch the sigchain, save it, check the user, write the index *)

Fetch(p) ==
  LET k == proc[p].key IN
  /\ proc[p].pc = "fetch"
  /\ \/ /\ k \notin world.broken
        /\ proc' = [proc EXCEPT ![p].pc = "save", ![p].chain = chain[k]]
        /\ UNCHANGED faults
     \/ Fails(k) /\ Error(p)
  /\ UNCHANGED <<outside, local, index, due, tasks>>

\* Statements are only added: an older answer does not undo a newer one.
Save(p) ==
  LET k == proc[p].key IN
  /\ proc[p].pc = "save"
  /\ local' = [local EXCEPT ![k] = IF @ = "revoked" THEN @ ELSE proc[p].chain]
  /\ Goto(p, "check")
  /\ UNCHANGED <<outside, index, due, tasks, faults>>

\* users.Update: no user in the sigchain, no result; a failure to connect keeps
\* what was known of the proof.
Check(p) ==
  LET k == proc[p].key
      copy == IF On("server") THEN chain[k] ELSE local[k]
      Found(r) == proc' = [proc EXCEPT ![p].pc = "write", ![p].result = r] IN
  /\ proc[p].pc = "check"
  /\ \/ copy # "linked" /\ Found(Missing) /\ UNCHANGED faults
     \/ /\ copy = "linked" /\ (On("server") => k \notin world.broken)
        /\ \/ proof[k] /\ Found(Result("ok", 0, 0)) /\ UNCHANGED faults
           \/ ~proof[k] /\ Found(Result("failed", index[k].verified, 0)) /\ UNCHANGED faults
           \/ /\ faults > 0 /\ faults' = faults - 1
              /\ Found(Result("connection", index[k].verified, 0))
     \/ On("server") /\ Fails(k) /\ Error(p)
  /\ UNCHANGED <<outside, local, index, due, tasks>>

\* The call goes by the result it wrote itself; without one it panics.
Write(p) ==
  /\ proc[p].pc = "write"
  /\ index' = [index EXCEPT ![proc[p].key] = proc[p].result]
  /\ IF proc[p].then = "decide"
     THEN Answer(p, IF proc[p].result.status = "ok" THEN "accepted" ELSE "refused")
     ELSE IF proc[p].then = "done" THEN Answer(p, "done")
     ELSE Goto(p, proc[p].then)
  /\ UNCHANGED <<outside, local, due, tasks, faults>>

----------------------------------------------------------------------------
(* RPCs *)

\* By the name of the user, perhaps asking the server, by key id, or Key.
Begin(c, op, k) ==
  /\ c \in world.calls /\ proc[c].pc = "idle"
  /\ proc' = [proc EXCEPT ![c] = [Idle EXCEPT
       !.op = op, !.key = k,
       !.pc = CASE op = "id" -> "get" [] op = "key" -> "expired" [] OTHER -> "find"]]
  /\ UNCHANGED <<outside, local, index, due, tasks, faults>>

\* findIdentity: the server may or may not know a name keysd does not.
FindIdentity(c) ==
  LET k == proc[c].key IN
  /\ proc[c].pc = "find"
  /\ IF index[k] # Missing THEN Goto(c, "get")
     ELSE \/ Answer(c, "refused")
          \/ /\ proc[c].op = "search"
             /\ proc' = [proc EXCEPT ![c].pc = "fetch", ![c].then = "get"]
  /\ UNCHANGED <<outside, local, index, due, tasks, faults>>

\* Mutant of EnsureVerified: a status is trusted however old it is.
EnsureStatus(c) ==
  LET r == index[proc[c].key] IN
  /\ proc[c].pc = "get"
  /\ Answer(c, CASE r = Missing -> "unclaimed"
                 [] r.status \in {"ok", "connection"} -> "accepted"
                 [] OTHER -> "refused")
  /\ UNCHANGED <<outside, local, index, due, tasks, faults>>

\* ensureVerified: a key without a user is used as it is.
EnsureVerified(c) ==
  LET r == index[proc[c].key] IN
  /\ proc[c].pc = "get"
  /\ \/ r = Missing /\ Answer(c, "unclaimed")
     \/ r # Missing /\ r.status \notin {"ok", "connection"} /\ Answer(c, "refused")
     \/ /\ r.status \in {"ok", "connection"}
        /\ IF r.verified <= VerifyExpire THEN Answer(c, "accepted")
           ELSE proc' = [proc EXCEPT ![c].pc = "fetch", ![c].then = "decide"]
  /\ UNCHANGED <<outside, local, index, due, tasks, faults>>

----------------------------------------------------------------------------
(* The loop of keysd *)

\* Mutant of CheckForKeyUpdate: a check that failed is not made again.
CheckForUpdateOnce(p) ==
  LET r == index[proc[p].key] IN
  /\ proc[p].pc = "expired"
  /\ IF r.status = "ok" /\ r.checked > CheckExpire
     THEN proc' = [proc EXCEPT ![p].pc = "fetch",
                               ![p].then = IF p = Loop THEN "next" ELSE "done"]
     ELSE IF p = Loop THEN Goto(p, "next") ELSE Answer(p, "done")
  /\ UNCHANGED <<outside, local, index, due, tasks, faults>>

\* checkForKeyUpdate, also called by Key: a key without a user is left alone.
CheckForKeyUpdate(p) ==
  LET r == index[proc[p].key] IN
  /\ proc[p].pc = "expired"
  /\ IF r # Missing /\ (\/ r.status # "ok" /\ r.checked > FailExpire
                        \/ r.checked > CheckExpire)
     THEN proc' = [proc EXCEPT ![p].pc = "fetch",
                               ![p].then = IF p = Loop THEN "next" ELSE "done"]
     ELSE IF p = Loop THEN Goto(p, "next") ELSE Answer(p, "done")
  /\ UNCHANGED <<outside, local, index, due, tasks, faults>>

LoopTick ==
  /\ On("device") /\ due /\ proc[Loop].pc = "idle"
  /\ proc' = [proc EXCEPT ![Loop] = Round("check")]
  /\ due' = FALSE
  /\ UNCHANGED <<outside, local, index, tasks, faults>>

LoopNext ==
  LET l == proc[Loop] IN
  /\ l.pc = "next"
  /\ \/ /\ l.todo # <<>>
        /\ proc' = [proc EXCEPT ![Loop].key = Head(l.todo), ![Loop].todo = Tail(l.todo),
                                ![Loop].pc = IF l.op = "all" THEN "fetch" ELSE "expired"]
     \/ /\ l.todo = <<>>
        /\ proc' = [proc EXCEPT ![Loop] = IF l.op = "all" THEN Round("check") ELSE Idle]
  /\ UNCHANGED <<outside, local, index, due, tasks, faults>>

----------------------------------------------------------------------------
(* The server *)

Stale(k) == /\ index[k] # Missing
            /\ index[k].status = "connection" \/ index[k].checked > CronExpire

\* cronCheck: tasks for the keys that failed to connect, then for the expired;
\* the first that cannot be created ends it.
CronCheck ==
  LET stale == {k \in Keys : Stale(k)} IN
  /\ On("server") /\ due /\ due' = FALSE
  /\ \/ tasks' = tasks \cup stale /\ UNCHANGED faults
     \/ /\ faults > 0 /\ faults' = faults - 1
        /\ \E some \in SUBSET stale : tasks' = tasks \cup some
  /\ UNCHANGED <<outside, local, index, proc>>

\* Whoever has the key may ask for a check.
RequestCheck(k) ==
  /\ On("server") /\ tasks' = tasks \cup {k}
  /\ UNCHANGED <<outside, local, index, proc, due, faults>>

TaskCheck(w, k) ==
  /\ proc[w].pc = "idle" /\ k \in tasks
  /\ tasks' = tasks \ {k}
  /\ proc' = [proc EXCEPT ![w] = [Idle EXCEPT !.pc = "check", !.op = "task",
                                              !.key = k, !.then = "done"]]
  /\ UNCHANGED <<outside, local, index, due, faults>>

----------------------------------------------------------------------------
(* The world *)

\* Requests take seconds: none lasts for more than two ticks.
Tick ==
  /\ \A p \in Procs : ~proc[p].late
  /\ proc' = [p \in Procs |-> [proc[p] EXCEPT !.late = (proc[p].pc # "idle"),
                                              !.result = Aged(@)]]
  /\ index' = [k \in Keys |-> Aged(index[k])]
  /\ seen' = [k \in Keys |-> IF proof[k] THEN 0 ELSE Older(seen[k], Gone)]
  /\ due' = TRUE
  /\ UNCHANGED <<proof, chain, local, tasks, world, faults, changes>>

\* The owner of a key takes the proof down or puts it back, or revokes.
Toggle(k) ==
  /\ changes > 0 /\ changes' = changes - 1
  /\ proof' = [proof EXCEPT ![k] = ~@] /\ seen' = [seen EXCEPT ![k] = 0]
  /\ UNCHANGED <<chain, local, index, proc, due, tasks, world, faults>>

Revoke(k) ==
  /\ changes > 0 /\ changes' = changes - 1
  /\ chain' = [chain EXCEPT ![k] = "revoked"]
  /\ UNCHANGED <<proof, seen, local, index, proc, due, tasks, world, faults>>

\* With a new database the index starts empty.
Known(k) == k \in world.keys /\ ~world.fresh

Init ==
  /\ world \in Worlds /\ faults = world.faults /\ changes = world.changes
  /\ proof = [k \in Keys |-> TRUE] /\ seen = [k \in Keys |-> 0]
  /\ chain = [k \in Keys |-> "linked"]
  /\ local = [k \in Keys |-> IF Known(k) THEN "linked" ELSE "none"]
  /\ index = [k \in Keys |-> IF Known(k) THEN Result("ok", 0, 0) ELSE Missing]
  /\ proc = [p \in Procs |-> IF p = Loop /\ On("device")
                             THEN Round(IF world.fresh THEN "all" ELSE "check") ELSE Idle]
  /\ due = FALSE /\ tasks = {}

Update(p) == Fetch(p) \/ Save(p) \/ Check(p) \/ Write(p) \/ CheckForKeyUpdate(p)

Next ==
  \/ \E c \in Calls : \/ \E op \in {"name", "search", "id", "key"}, k \in world.keys : Begin(c, op, k)
                      \/ FindIdentity(c) \/ EnsureVerified(c)
  \/ \E p \in Procs : Update(p)
  \/ LoopTick \/ LoopNext
  \/ CronCheck
  \/ \E k \in world.keys : RequestCheck(k) \/ Toggle(k) \/ Revoke(k)
  \/ \E w \in Workers, k \in Keys : TaskCheck(w, k)
  \/ Tick

\* Time passes, what has begun goes on, and no task stays in the queue for ever
\* while others, created later, are taken from it.
Fairness ==
  /\ WF_vars(Tick) /\ WF_vars(LoopTick) /\ WF_vars(LoopNext) /\ WF_vars(CronCheck)
  /\ \A p \in Procs : WF_vars(Update(p))
  /\ \A c \in Calls : WF_vars(FindIdentity(c)) /\ WF_vars(EnsureVerified(c))
  /\ \A k \in Keys : SF_vars(\E w \in Workers : TaskCheck(w, k))

Spec == Init /\ [][Next]_vars /\ Fairness

----------------------------------------------------------------------------
\* An RPC goes on with a user only if the proof was in place within the time a
\* verification lasts (and the tick in which it runs), whatever checks overlap,
\* answer late or fail to connect; and takes a key without a user for a name
\* only when its owner has revoked that user.
AcceptsRecent ==
  [][\A c \in Calls : proc[c].pc # "idle" /\ proc'[c].pc = "idle" =>
       /\ proc'[c].answer = "accepted" => seen[proc[c].key] <= VerifyExpire + 1
       /\ proc'[c].answer = "unclaimed" /\ proc[c].op = "name" =>
            chain[proc[c].key] = "revoked"]_vars

\* What the index says of a key comes to agree with the proof and the sigchain,
\* on keysd for the keys its loop reaches (those before one that always fails)
\* and on the server for all that do not fail, when the index has the key.
Agrees(k) ==
  CASE chain[k] = "revoked" -> index[k] = Missing
    [] proof[k] -> index[k].status = "ok"
    [] OTHER -> index[k].status = "failed"

Reached(k) ==
  IF On("server") THEN k \notin world.broken
  ELSE \E n \in DOMAIN world.order :
         world.order[n] = k /\ \A m \in 1..n : world.order[m] \notin world.broken

StatusFollows ==
  \A k \in Keys : [](Reached(k) /\ index[k] # Missing => <>(index[k] = Missing \/ Agrees(k)))
=============================================================================
