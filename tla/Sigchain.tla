------------------------------ MODULE Sigchain ------------------------------
(***************************************************************************)
(* The sigchain of one key: a server that stores its statements, and the   *)
(* machines ("devices") of the key's owner, each with a keysd service that *)
(* keeps a local copy, signs new statements and pushes and pulls.          *)
(*                                                                         *)
(* Every gRPC call is its own goroutine, so a device runs several at once, *)
(* and so is every HTTP request the server handles.  A step below is one   *)
(* access to a store or one message; a call may fail, time out or die with *)
(* its device between any two of them.                                     *)
(*                                                                         *)
(* A hash is modelled by a statement's id: ids are never reused, so equal  *)
(* ids mean equal bytes and prev names exactly one predecessor.            *)
(***************************************************************************)
EXTENDS Naturals

CONSTANTS
    Devices,       \* machines holding a copy of the sigchain
    Calls,         \* gRPC call slots over all devices
    Home,          \* Home[c]: the device call slot c runs on
    Owners,        \* devices that hold the private key at first
    Handlers,      \* HTTP requests the server can be working on at once
    NoCall,        \* "nobody waits for the answer any more"
    Limit,         \* statements the server accepts per key (128 in the code)
    MaxStatements, \* bound on the statements ever signed
    MaxFaults,     \* bound on failures, timeouts and crashes
    Ops,           \* the RPCs in use
    Local          \* the values callers give the Local flag

ASSUME HomeAssumption   == Home \in [Calls -> Devices]
ASSUME LimitAssumption  == Limit \in Nat \ {0} /\ MaxStatements \in Nat /\ MaxFaults \in Nat
ASSUME NoCallAssumption == NoCall \notin Calls
ASSUME LocalAssumption  == Local \subseteq BOOLEAN
ASSUME OwnersAssumption == Owners \subseteq Devices

VARIABLES
    server,     \* documents under /sigchain on the server
    task,       \* a "check" task for the key is queued
    serverUser, \* the user the server's index lists for the key
    handler,    \* handler[h]: the PUT request h is working on
    local,      \* local[d]: documents under /sigchain in d's database
    key,        \* key[d]: what d's keyring holds for the key
    localUser,  \* localUser[d]: the user d's index lists for the key
    call,       \* call[c]: the RPC in slot c
    signed,     \* statements signed so far; the next id is signed + 1
    faults,     \* failures so far
    confirmed,  \* history: statements whose PUT returned success to a device
    drafts      \* history: statements signed with the Local flag

vars == <<server, task, serverUser, handler, local, key, localUser, call,
          signed, faults, confirmed, drafts>>

-----------------------------------------------------------------------------
(* Statements and chains.                                                  *)

Kinds == {"data", "user", "revoke"}

\* A statement is signed after the ones it names.
Statement ==
    {s \in [id : 1..MaxStatements, seq : 1..MaxStatements, prev : 0..MaxStatements,
            kind : Kinds, revoke : 0..MaxStatements] :
        s.seq <= s.id /\ s.prev < s.id /\ s.revoke < s.seq}

\* Set of a document: the key is the statement's sequence number.
Put(docs, st) == {s \in docs : s.seq # st.seq} \cup {st}

Exists(docs, st) == \E s \in docs : s.seq = st.seq

IsFirst(s, docs) == s \in docs /\ \A t \in docs : s.seq <= t.seq

IsLast(s, docs) == s \in docs /\ \A t \in docs : t.seq <= s.seq

\* VerifyStatement(st, sc.Last()): the sequence number and the hash of the
\* previous statement must match.
Follows(st, docs) ==
    \/ docs = {} /\ st.seq = 1 /\ st.prev = 0
    \/ \E last \in docs : /\ IsLast(last, docs)
                          /\ st.seq = last.seq + 1
                          /\ st.prev = last.id

\* Documents that load: adding them to a chain in order never fails.
Linked(docs) == \A s \in docs : Follows(s, {p \in docs : p.seq < s.seq})

Revoked(s, docs) == \E r \in docs : r.kind = "revoke" /\ r.revoke = s.seq

\* The user an index derives from a chain (a set: empty for none).
Users(docs) == {s \in docs : s.kind = "user" /\ ~Revoked(s, docs)}

Unlinked(kind, revoke) == [id |-> signed + 1, seq |-> 1, prev |-> 0,
                           kind |-> kind, revoke |-> revoke]

\* The statement to put on top of a chain (the only element).
NewStatements(docs, kind, revoke) ==
    IF docs = {} THEN {Unlinked(kind, revoke)}
    ELSE {[Unlinked(kind, revoke) EXCEPT !.seq = last.seq + 1, !.prev = last.id] :
             last \in {s \in docs : IsLast(s, docs)}}

-----------------------------------------------------------------------------
(* Calls and requests.                                                     *)

NoStatement == [id |-> 0, seq |-> 0, prev |-> 0, kind |-> "data", revoke |-> 0]

Idle == [pc |-> "idle", op |-> "none", st |-> NoStatement, todo |-> {}]

Free == [pc |-> "free", st |-> NoStatement, from |-> NoCall]

serverVars == <<server, task, serverUser>>
deviceVars == <<local, key, localUser>>
history    == <<confirmed, drafts>>

Fault == faults < MaxFaults /\ faults' = faults + 1

Return(c)   == call' = [call EXCEPT ![c] = Idle]
Goto(c, pc) == call' = [call EXCEPT ![c].pc = pc]

\* Nobody reads the answers to the requests of these calls any more; the
\* handlers go on.
Detach(cs) == handler' = [h \in Handlers |->
                            IF handler[h].from \in cs
                            THEN [handler[h] EXCEPT !.from = NoCall]
                            ELSE handler[h]]

-----------------------------------------------------------------------------
(* The service: RPCs that sign a statement.                                *)

\* Load the local chain, sign a statement on top of it.  With Local the PUT
\* is skipped.
Sign(c, op, kind, revoke, loc) ==
    LET d == Home[c]
    IN /\ op \in Ops
       /\ call[c] = Idle
       /\ key[d] = "private"
       /\ Linked(local[d])
       /\ signed < MaxStatements
       /\ signed' = signed + 1
       /\ \E st \in NewStatements(local[d], kind, revoke) :
             /\ drafts' = IF loc THEN drafts \cup {st} ELSE drafts
             /\ call' = [call EXCEPT ![c] =
                           [pc |-> IF loc THEN "save" ELSE "put", op |-> op,
                            st |-> st, todo |-> local[d] \cup {st}]]
       /\ UNCHANGED <<serverVars, handler, deviceVars, faults, confirmed>>

StatementCreate(c) == \E loc \in Local : Sign(c, "create", "data", 0, loc)

\* Mutant of UserAdd: does not look for a user that is linked already.
UserAddUnchecked(c) == \E loc \in Local : Sign(c, "user", "user", 0, loc)

\* user.NewUserSigchainStatement refuses a second user.
UserAdd(c) == /\ Users(local[Home[c]]) = {}
              /\ \E loc \in Local : Sign(c, "user", "user", 0, loc)

StatementRevoke(c) ==
    \E loc \in Local, s \in local[Home[c]] :
        /\ ~Revoked(s, local[Home[c]])
        /\ Sign(c, "revoke", "revoke", s.seq, loc)

-----------------------------------------------------------------------------
(* The service: push, pull, import and remove.                             *)

Push(c) ==
    /\ "push" \in Ops
    /\ call[c] = Idle
    /\ Linked(local[Home[c]])
    /\ local[Home[c]] # {}
    /\ call' = [call EXCEPT ![c] = [Idle EXCEPT !.pc = "compare", !.op = "push",
                                                !.todo = local[Home[c]]]]
    /\ UNCHANGED <<serverVars, handler, deviceVars, signed, faults, history>>

\* What is left of a push: PUTs, and a pull when there are none.
PutNext(rest) ==
    [Idle EXCEPT !.pc = IF rest = {} THEN "importID" ELSE "put", !.op = "push",
                 !.todo = rest]

\* remote.Sigchain, then the statements both have must be the same.
Compare(c) ==
    /\ call[c].pc = "compare"
    /\ \/ /\ \A s \in call[c].todo, r \in server : s.seq = r.seq => s = r
          /\ call' = [call EXCEPT ![c] =
                        PutNext({s \in call[c].todo : ~Exists(server, s)})]
       \/ /\ \E s \in call[c].todo, r \in server : s.seq = r.seq /\ s # r
          /\ Return(c)
    /\ UNCHANGED <<serverVars, handler, deviceVars, signed, faults, history>>

Pull(c) ==
    /\ "pull" \in Ops
    /\ call[c] = Idle
    /\ call' = [call EXCEPT ![c] = [Idle EXCEPT !.pc = "importID", !.op = "pull"]]
    /\ UNCHANGED <<serverVars, handler, deviceVars, signed, faults, history>>

\* A pull of an unknown key saves its public half.
ImportID(c) ==
    /\ call[c].pc = "importID"
    /\ key' = [key EXCEPT ![Home[c]] = IF @ = "none" THEN "public" ELSE @]
    /\ Goto(c, "get")
    /\ UNCHANGED <<serverVars, handler, local, localUser, signed, faults, history>>

KeyImport(c) ==
    /\ "import" \in Ops
    /\ call[c] = Idle
    /\ key' = [key EXCEPT ![Home[c]] = "private"]
    /\ call' = [call EXCEPT ![c] = [Idle EXCEPT !.pc = "get", !.op = "import"]]
    /\ UNCHANGED <<serverVars, handler, local, localUser, signed, faults, history>>

\* update: GET the chain; what to save is what the server had then.
Get(c) ==
    /\ call[c].pc = "get"
    /\ IF server = {} THEN Return(c)
       ELSE call' = [call EXCEPT ![c].pc = "save", ![c].todo = server]
    /\ UNCHANGED <<serverVars, handler, deviceVars, signed, faults, history>>

KeyRemove(c) ==
    /\ "remove" \in Ops
    /\ call[c] = Idle
    /\ key[Home[c]] # "none"
    /\ key' = [key EXCEPT ![Home[c]] = "none"]
    /\ call' = [call EXCEPT ![c] = [Idle EXCEPT !.pc = "delete", !.op = "remove"]]
    /\ UNCHANGED <<serverVars, handler, local, localUser, signed, faults, history>>

DeleteSigchain(c) ==
    /\ call[c].pc = "delete"
    /\ local' = [local EXCEPT ![Home[c]] = {}]
    /\ Goto(c, "index")
    /\ UNCHANGED <<serverVars, handler, key, localUser, signed, faults, history>>

-----------------------------------------------------------------------------
(* The service: steps the RPCs share.                                      *)

\* PutSigchainStatement sends the new statement, or the lowest a push has
\* left; a free handler takes the request.
SendPut(c) ==
    /\ call[c].pc = "put"
    /\ \E h \in Handlers, st \in call[c].todo :
          /\ IF call[c].op = "push" THEN IsFirst(st, call[c].todo) ELSE st = call[c].st
          /\ call' = [call EXCEPT ![c].pc = "wait", ![c].st = st]
          /\ handler[h] = Free
          /\ handler' = [handler EXCEPT ![h] = [pc |-> "exists", st |-> st, from |-> c]]
    /\ UNCHANGED <<serverVars, deviceVars, signed, faults, history>>

\* Mutant of Save: update returns without users.Update.
SaveWithoutIndex(c) ==
    /\ call[c].pc = "save"
    /\ \E st \in call[c].todo :
          /\ IsFirst(st, call[c].todo)
          /\ local' = [local EXCEPT ![Home[c]] = Put(@, st)]
          /\ call' = [call EXCEPT ![c] = IF @.todo = {st} THEN Idle
                                         ELSE [@ EXCEPT !.todo = @ \ {st}]]
    /\ UNCHANGED <<serverVars, handler, key, localUser, signed, faults, history>>

\* SaveSigchain, or the loop of update: one document at a time, in order.
Save(c) ==
    /\ call[c].pc = "save"
    /\ \E st \in call[c].todo :
          /\ IsFirst(st, call[c].todo)
          /\ local' = [local EXCEPT ![Home[c]] = Put(@, st)]
          /\ \/ call[c].todo # {st} /\ call' = [call EXCEPT ![c].todo = @ \ {st}]
             \/ /\ call[c].todo = {st} /\ call[c].op = "create"
                /\ Return(c)
             \/ /\ call[c].todo = {st} /\ call[c].op # "create"
                /\ call' = [call EXCEPT ![c] = [Idle EXCEPT !.pc = "index",
                                                            !.op = call[c].op]]
    /\ UNCHANGED <<serverVars, handler, key, localUser, signed, faults, history>>

\* users.Update loads the local chain again and lists the user it finds.
Index(c) ==
    /\ call[c].pc = "index"
    /\ Return(c)
    /\ localUser' = IF Linked(local[Home[c]])
                    THEN [localUser EXCEPT ![Home[c]] = Users(local[Home[c]])]
                    ELSE localUser
    /\ UNCHANGED <<serverVars, handler, local, key, signed, faults, history>>

\* A remote call fails, or the HTTP client gives up after its 10 seconds:
\* the RPC returns the error and leaves everything else as it is.
GiveUp(c) ==
    /\ Fault
    /\ call[c].pc \in {"compare", "put", "wait", "get", "index"}
    /\ Return(c)
    /\ Detach({c})
    /\ UNCHANGED <<serverVars, deviceVars, signed, history>>

\* The service process dies and is started again.
Crash(d) ==
    LET mine == {c \in Calls : Home[c] = d}
    IN /\ Fault
       /\ \E c \in mine : call[c] # Idle
       /\ call' = [c \in Calls |-> IF c \in mine THEN Idle ELSE call[c]]
       /\ Detach(mine)
       /\ UNCHANGED <<serverVars, deviceVars, signed, history>>

-----------------------------------------------------------------------------
(* The server: putSigchainStatement, one step per access to the store.     *)

HandlerGoto(h, pc) == handler' = [handler EXCEPT ![h].pc = pc]

\* A path that exists is a conflict (409).
CheckExists(h) ==
    /\ handler[h].pc = "exists"
    /\ HandlerGoto(h, IF Exists(server, handler[h].st) THEN "error" ELSE "load")
    /\ UNCHANGED <<serverVars, deviceVars, call, signed, faults, history>>

\* Mutant of Verify: checks the limit but not the predecessor.
VerifyLimitOnly(h) ==
    /\ handler[h].pc = "load"
    /\ HandlerGoto(h, IF Linked(server) /\ \A s \in server : s.seq < Limit
                      THEN "create" ELSE "error")
    /\ UNCHANGED <<serverVars, deviceVars, call, signed, faults, history>>

\* Mutant of Verify: one statement too many.
VerifyOffByOne(h) ==
    /\ handler[h].pc = "load"
    /\ HandlerGoto(h, IF /\ Linked(server)
                         /\ \A s \in server : s.seq <= Limit
                         /\ Follows(handler[h].st, server)
                      THEN "create" ELSE "error")
    /\ UNCHANGED <<serverVars, deviceVars, call, signed, faults, history>>

\* Load the chain, check the limit, the statement and its predecessor, and
\* for a user that no other key has it (an index of other keys: may say no).
Verify(h) ==
    LET st == handler[h].st
        ok == /\ Linked(server)
              /\ \A s \in server : s.seq < Limit
              /\ Follows(st, server)
    IN /\ handler[h].pc = "load"
       /\ \/ ok /\ HandlerGoto(h, "create")
          \/ (~ok \/ st.kind = "user") /\ HandlerGoto(h, "error")
       /\ UNCHANGED <<serverVars, deviceVars, call, signed, faults, history>>

\* Mutant of Create: Set in place of Create.
CreateOverwrites(h) ==
    /\ handler[h].pc = "create"
    /\ HandlerGoto(h, "task")
    /\ server' = Put(server, handler[h].st)
    /\ UNCHANGED <<task, serverUser, deviceVars, call, signed, faults, history>>

\* Mutant of Create: takes an existing path for success.
CreateTolerant(h) ==
    /\ handler[h].pc = "create"
    /\ HandlerGoto(h, "task")
    /\ server' = IF Exists(server, handler[h].st) THEN server
                 ELSE server \cup {handler[h].st}
    /\ UNCHANGED <<task, serverUser, deviceVars, call, signed, faults, history>>

\* Create is atomic and fails when the path exists by now.
Create(h) ==
    /\ handler[h].pc = "create"
    /\ IF Exists(server, handler[h].st)
       THEN HandlerGoto(h, "error") /\ UNCHANGED server
       ELSE HandlerGoto(h, "task") /\ server' = server \cup {handler[h].st}
    /\ UNCHANGED <<task, serverUser, deviceVars, call, signed, faults, history>>

\* Create's answer is lost: the retry finds the path and reports an error.
CreateRetried(h) ==
    /\ Fault
    /\ handler[h].pc = "create"
    /\ ~Exists(server, handler[h].st)
    /\ server' = server \cup {handler[h].st}
    /\ HandlerGoto(h, "error")
    /\ UNCHANGED <<task, serverUser, deviceVars, call, signed, history>>

\* Mutant of CreateTask: the task is not queued.
CreateTaskForgotten(h) ==
    /\ handler[h].pc = "task"
    /\ HandlerGoto(h, "ok")
    /\ UNCHANGED <<serverVars, deviceVars, call, signed, faults, history>>

CreateTask(h) ==
    /\ handler[h].pc = "task"
    /\ task' = TRUE
    /\ HandlerGoto(h, "ok")
    /\ UNCHANGED <<server, serverUser, deviceVars, call, signed, faults, history>>

\* Any store or queue may fail: the handler answers with an error.
HandlerFails(h) ==
    /\ Fault
    /\ handler[h].pc \in {"exists", "load", "create", "task"}
    /\ HandlerGoto(h, "error")
    /\ UNCHANGED <<serverVars, deviceVars, call, signed, history>>

\* Mutant of Reply: the client takes every answer for success.
ReplyUnchecked(h) ==
    LET c == handler[h].from
    IN /\ handler[h].pc \in {"ok", "error"}
       /\ handler' = [handler EXCEPT ![h] = Free]
       /\ call' = IF c = NoCall THEN call
                  ELSE [call EXCEPT ![c] =
                          IF @.op = "push" THEN PutNext(@.todo \ {handler[h].st})
                          ELSE [@ EXCEPT !.pc = "save"]]
       /\ UNCHANGED <<serverVars, deviceVars, signed, faults, history>>

\* Mutant of Reply: an error is not answered.
ReplyOnlySuccess(h) ==
    /\ handler[h].pc \in {"ok", "error"}
    /\ handler' = [handler EXCEPT ![h] = Free]
    /\ IF handler[h].pc = "ok" /\ handler[h].from # NoCall
       THEN call' = [call EXCEPT ![handler[h].from].pc = "save"]
       ELSE UNCHANGED call
    /\ UNCHANGED <<serverVars, deviceVars, signed, faults, history>>

\* The answer reaches the call that waits for it, if one still does.
Reply(h) ==
    LET c  == handler[h].from
        ok == handler[h].pc = "ok"
        st == handler[h].st
    IN /\ handler[h].pc \in {"ok", "error"}
       /\ handler' = [handler EXCEPT ![h] = Free]
       /\ \/ c = NoCall /\ UNCHANGED <<call, confirmed>>
          \/ /\ c # NoCall /\ ~ok
             /\ Return(c)
             /\ UNCHANGED confirmed
          \/ /\ c # NoCall /\ ok
             /\ confirmed' = confirmed \cup {st}
             /\ call' = [call EXCEPT ![c] =
                           IF @.op = "push" THEN PutNext(@.todo \ {st})
                           ELSE [@ EXCEPT !.pc = "save"]]
       /\ UNCHANGED <<serverVars, deviceVars, signed, faults, drafts>>

\* The queued task: users.Update on the server.
TaskCheck ==
    /\ task
    /\ Linked(server)
    /\ task' = FALSE
    /\ serverUser' = Users(server)
    /\ UNCHANGED <<server, handler, deviceVars, call, signed, faults, history>>

-----------------------------------------------------------------------------
Init ==
    /\ server = {}
    /\ task = FALSE
    /\ serverUser = {}
    /\ handler = [h \in Handlers |-> Free]
    /\ local = [d \in Devices |-> {}]
    /\ key = [d \in Devices |-> IF d \in Owners THEN "private" ELSE "none"]
    /\ localUser = [d \in Devices |-> {}]
    /\ call = [c \in Calls |-> Idle]
    /\ signed = 0
    /\ faults = 0
    /\ confirmed = {}
    /\ drafts = {}

\* A call that has begun goes on by itself.
CallStep(c) == \/ Compare(c) \/ ImportID(c) \/ Get(c) \/ DeleteSigchain(c)
               \/ SendPut(c) \/ Save(c) \/ Index(c)

HandlerStep(h) == \/ CheckExists(h) \/ Verify(h) \/ Create(h) \/ CreateTask(h)
                  \/ Reply(h)

Begin(c) == \/ StatementCreate(c) \/ UserAdd(c) \/ StatementRevoke(c)
            \/ Push(c) \/ Pull(c) \/ KeyImport(c) \/ KeyRemove(c)

Next ==
    \/ \E c \in Calls : Begin(c) \/ CallStep(c) \/ GiveUp(c)
    \/ \E h \in Handlers : HandlerStep(h) \/ CreateRetried(h) \/ HandlerFails(h)
    \/ \E d \in Devices : Crash(d)
    \/ TaskCheck

Spec == Init /\ [][Next]_vars

\* Goroutines are scheduled; the queue delivers its task; the update check of
\* the service (a ticker) pulls again and again.  Nobody has to sign or push.
Fairness ==
    /\ \A c \in Calls : WF_vars(CallStep(c)) /\ WF_vars(Pull(c))
    /\ \A h \in Handlers : WF_vars(HandlerStep(h))
    /\ WF_vars(TaskCheck)

FairSpec == Spec /\ Fairness

-----------------------------------------------------------------------------
(* Properties.                                                             *)

CallPcs    == {"idle", "compare", "put", "wait", "importID", "get", "save",
               "index", "delete"}
CallOps    == {"none", "create", "user", "revoke", "push", "pull", "import",
               "remove"}
HandlerPcs == {"free", "exists", "load", "create", "task", "ok", "error"}
MaybeStatement == Statement \cup {NoStatement}

\* Every variable keeps its type.
TypeOK ==
    /\ server \subseteq Statement
    /\ task \in BOOLEAN
    /\ serverUser \subseteq Statement
    /\ handler \in [Handlers -> [pc : HandlerPcs, st : MaybeStatement,
                                 from : Calls \cup {NoCall}]]
    /\ local \in [Devices -> SUBSET Statement]
    /\ key \in [Devices -> {"none", "public", "private"}]
    /\ localUser \in [Devices -> SUBSET Statement]
    /\ call \in [Calls -> [pc : CallPcs, op : CallOps, st : MaybeStatement,
                           todo : SUBSET Statement]]
    /\ signed \in 0..MaxStatements
    /\ faults \in 0..MaxFaults
    /\ confirmed \subseteq Statement
    /\ drafts \subseteq Statement

OnePerSeq(docs) == \A s, t \in docs : s.seq = t.seq => s = t

NoGap(docs) == \A s \in docs : \A k \in 1..s.seq : \E t \in docs : t.seq = k

\* The statements on the server are one chain without gaps: one statement per
\* sequence number, each naming the hash of the one before, at most Limit of
\* them, whatever requests race between the Exists, the load and the Create
\* of putSigchainStatement.
ServerChain ==
    /\ Linked(server)
    /\ OnePerSeq(server)
    /\ NoGap(server)
    /\ \A s \in server : s.seq <= Limit

\* Once the server has stored a statement no request, retry or race changes
\* or removes it.
AppendOnly == [][server \subseteq server']_server

\* A statement whose PUT returned success to a device is on the server, and
\* stays there.
ConfirmedStored == confirmed \subseteq server

\* A device never stores a statement the server has not accepted, unless it
\* was signed with the Local flag: the PUT comes before SaveSigchain, and a
\* lost answer loses the save, never the PUT.
NeverAhead == \A d \in Devices : local[d] \subseteq server \cup drafts

\* The chain on the server links at most one user at a time, though each
\* device only checks its own copy before it signs: the hash of the previous
\* statement carries the check over.
OneUser == \A s, t \in Users(server) : s = t

\* A device's copy loads: no crash, lost answer or concurrent save leaves a
\* gap or a statement that does not follow the one before it.
LocalChain == \A d \in Devices : Linked(local[d])

\* Without Local statements the service is the abstract log.
Log == INSTANCE SigchainLog WITH log <- server, copy <- local, Entries <- Statement

ImplementsLog == Log!Spec

\* Every RPC ends: with an answer, an error or its device's crash.
CallsReturn == \A c \in Calls : (call[c] # Idle) ~> (call[c] = Idle)

\* When faults have stopped and nobody signs any more, the update check
\* brings every device to the server's chain and indexes its user.
DevicesCatchUp ==
    <>[](\A d \in Devices : local[d] = server /\ localUser[d] = Users(server))

\* The server's user index follows every chain whose last statement was
\* confirmed to its device: its check task had been queued by then.
ServerIndexCatchesUp ==
    <>[]((\E s \in confirmed : IsLast(s, server)) => serverUser = Users(server))
=============================================================================
