--------------------------- MODULE Sigchain_proofs ---------------------------
(***************************************************************************)
(* Proofs about Sigchain, for every set of devices, calls and handlers,    *)
(* every limit and any number of statements and faults.                    *)
(***************************************************************************)
EXTENDS Sigchain, TLAPS, WellFoundedInduction

USE HomeAssumption, LimitAssumption, NoCallAssumption, LocalAssumption, OwnersAssumption

-----------------------------------------------------------------------------
(* Part 1: types.  What a device signs has the type of a statement because *)
(* no statement anywhere has an id above the counter, so TypeOK is made    *)
(* inductive by numbering every statement in every store and message.      *)

Known == {s \in Statement : s.id <= signed}

CallRecord ==
    {r \in [pc : CallPcs, op : CallOps, st : Known \cup {NoStatement},
            todo : SUBSET Known] : r.pc = "wait" => r.st \in Known}

HandlerRecord ==
    {r \in [pc : HandlerPcs, st : Known \cup {NoStatement},
            from : Calls \cup {NoCall}] : r.pc # "free" => r.st \in Known}

TypeInv ==
    /\ server \in SUBSET Known
    /\ task \in BOOLEAN
    /\ serverUser \in SUBSET Known
    /\ handler \in [Handlers -> HandlerRecord]
    /\ local \in [Devices -> SUBSET Known]
    /\ key \in [Devices -> {"none", "public", "private"}]
    /\ localUser \in [Devices -> SUBSET Known]
    /\ call \in [Calls -> CallRecord]
    /\ signed \in 0..MaxStatements
    /\ faults \in 0..MaxFaults
    /\ confirmed \in SUBSET Known
    /\ drafts \in SUBSET Known

LEMMA StatementFields ==
    ASSUME NEW s \in Statement
    PROVE  /\ s.id \in Nat /\ s.seq \in Nat /\ s.prev \in Nat
           /\ s.id >= 1 /\ s.seq >= 1
           /\ s.seq <= s.id /\ s.prev < s.id
  BY DEF Statement

LEMMA TypeInvImpliesTypeOK == TypeInv => TypeOK
  <1> SUFFICES ASSUME TypeInv PROVE TypeOK
    OBVIOUS
  <1>1. Known \subseteq Statement
    BY DEF Known
  <1>2. handler \in [Handlers -> [pc : HandlerPcs, st : MaybeStatement,
                                  from : Calls \cup {NoCall}]]
    BY <1>1 DEF TypeInv, HandlerRecord, MaybeStatement
  <1>3. call \in [Calls -> [pc : CallPcs, op : CallOps, st : MaybeStatement,
                            todo : SUBSET Statement]]
    BY <1>1 DEF TypeInv, CallRecord, MaybeStatement
  <1> QED
    BY <1>1, <1>2, <1>3 DEF TypeInv, TypeOK

LEMMA EmptyRecords ==
    /\ NoStatement.id = 0
    /\ Free \in HandlerRecord
    /\ Free.pc = "free" /\ Free.st = NoStatement /\ Free.from = NoCall
    /\ Idle \in CallRecord
    /\ Idle.pc = "idle" /\ Idle.op = "none" /\ Idle.st = NoStatement /\ Idle.todo = {}
  BY DEF Free, Idle, NoStatement, HandlerRecord, CallRecord, HandlerPcs, CallPcs, CallOps

\* The fields of a record of a call or a handler.
LEMMA RecordFields ==
    ASSUME TypeInv
    PROVE  /\ \A c \in Calls :
                /\ call[c] \in CallRecord
                /\ call[c].pc \in CallPcs /\ call[c].op \in CallOps
                /\ call[c].st \in Known \cup {NoStatement}
                /\ call[c].todo \in SUBSET Known
           /\ \A h \in Handlers :
                /\ handler[h] \in HandlerRecord
                /\ handler[h].pc \in HandlerPcs
                /\ handler[h].st \in Known \cup {NoStatement}
                /\ handler[h].pc # "free" => handler[h].st \in Known
                /\ handler[h].from \in Calls \cup {NoCall}
           /\ \A d \in Devices : local[d] \in SUBSET Known
           /\ \A c \in Calls : Home[c] \in Devices
           /\ Known \subseteq Statement
  BY DEF TypeInv, CallRecord, HandlerRecord, Known

LEMMA TypeInit == Init => TypeInv
  <1> SUFFICES ASSUME Init PROVE TypeInv
    OBVIOUS
  <1> USE DEF Init
  <1>1. task \in BOOLEAN
    BY Zenon
  <1>2. handler \in [Handlers -> HandlerRecord] /\ call \in [Calls -> CallRecord]
    BY EmptyRecords
  <1>3. /\ local \in [Devices -> SUBSET Known]
        /\ key \in [Devices -> {"none", "public", "private"}]
        /\ localUser \in [Devices -> SUBSET Known]
    OBVIOUS
  <1> QED
    BY <1>1, <1>2, <1>3 DEF TypeInv

\* A statement on top of a typed chain is a statement, and takes the next id.
LEMMA NewStatementType ==
    ASSUME NEW docs \in SUBSET Known,
           NEW kind \in Kinds,
           NEW revoke \in 0..MaxStatements,
           signed \in 0..MaxStatements,
           signed < MaxStatements,
           revoke = 0 \/ \E s \in docs : s.seq = revoke,
           NEW st \in NewStatements(docs, kind, revoke)
    PROVE  st \in Statement /\ st.id = signed + 1
  <1>1. CASE docs = {}
    BY <1>1 DEF NewStatements, Unlinked, Statement
  <1>2. CASE docs # {}
    <2>1. PICK last \in docs : IsLast(last, docs) /\
             st = [Unlinked(kind, revoke) EXCEPT !.seq = last.seq + 1, !.prev = last.id]
      BY <1>2 DEF NewStatements
    <2>2. last \in Statement /\ last.id <= signed
      BY <2>1 DEF Known
    <2>3. revoke <= last.seq
      BY <2>1, <2>2, StatementFields DEF IsLast
    <2>4. st = [id |-> signed + 1, seq |-> last.seq + 1, prev |-> last.id,
                kind |-> kind, revoke |-> revoke]
      BY <2>1 DEF Unlinked
    <2> QED
      BY <2>2, <2>3, <2>4, StatementFields DEF Statement
  <1> QED BY <1>1, <1>2

LEMMA TypeSign ==
    ASSUME TypeInv, NEW c \in Calls, NEW op \in CallOps, NEW kind \in Kinds,
           NEW revoke \in 0..MaxStatements, NEW loc \in BOOLEAN,
           revoke = 0 \/ \E s \in local[Home[c]] : s.seq = revoke,
           Sign(c, op, kind, revoke, loc)
    PROVE  TypeInv'
  <1> DEFINE d == Home[c]
  <1>1. d \in Devices /\ local[d] \in SUBSET Known /\ signed \in 0..MaxStatements
        /\ signed < MaxStatements
    BY RecordFields DEF TypeInv, Sign
  <1>2. PICK st \in NewStatements(local[d], kind, revoke) :
          /\ drafts' = IF loc THEN drafts \cup {st} ELSE drafts
          /\ call' = [call EXCEPT ![c] =
                        [pc |-> IF loc THEN "save" ELSE "put", op |-> op,
                         st |-> st, todo |-> local[d] \cup {st}]]
    BY DEF Sign
  <1>3. st \in Statement /\ st.id = signed + 1
    BY <1>1, NewStatementType
  <1>4. /\ signed' = signed + 1
        /\ UNCHANGED <<server, task, serverUser, handler, local, key, localUser,
                       faults, confirmed>>
    BY DEF Sign, serverVars, deviceVars
  <1>5. Known \subseteq Known' /\ st \in Known'
    BY <1>1, <1>3, <1>4, StatementFields DEF Known
  <1>6. CallRecord \subseteq CallRecord' /\ HandlerRecord \subseteq HandlerRecord'
    BY <1>5 DEF CallRecord, HandlerRecord
  <1>7. [pc |-> IF loc THEN "save" ELSE "put", op |-> op,
         st |-> st, todo |-> local[d] \cup {st}] \in CallRecord'
    BY <1>1, <1>5 DEF CallRecord, CallPcs
  <1>8. call' \in [Calls -> CallRecord']
    BY <1>2, <1>6, <1>7 DEF TypeInv
  <1>9. handler' \in [Handlers -> HandlerRecord']
    BY <1>4, <1>6 DEF TypeInv
  <1>10. /\ server' \in SUBSET Known' /\ serverUser' \in SUBSET Known'
         /\ confirmed' \in SUBSET Known' /\ drafts' \in SUBSET Known'
         /\ local' \in [Devices -> SUBSET Known']
         /\ localUser' \in [Devices -> SUBSET Known']
    BY <1>2, <1>4, <1>5 DEF TypeInv
  <1>11. /\ key' \in [Devices -> {"none", "public", "private"}]
         /\ signed' \in 0..MaxStatements /\ faults' \in 0..MaxFaults
    BY <1>1, <1>4 DEF TypeInv
  <1>12. task' \in BOOLEAN
    BY <1>4 DEF TypeInv
  <1> QED
    BY <1>8, <1>9, <1>10, <1>11, <1>12 DEF TypeInv

\* A step that signs nothing keeps the types of what it does not write.
LEMMA TypeFrame ==
    ASSUME TypeInv, signed' = signed,
           server' \in SUBSET Known,
           task' \in BOOLEAN,
           serverUser' \in SUBSET Known,
           handler' \in [Handlers -> HandlerRecord],
           local' \in [Devices -> SUBSET Known],
           key' \in [Devices -> {"none", "public", "private"}],
           localUser' \in [Devices -> SUBSET Known],
           call' \in [Calls -> CallRecord],
           faults' \in 0..MaxFaults,
           confirmed' \in SUBSET Known,
           drafts' \in SUBSET Known
    PROVE  TypeInv'
  <1>1. Known' = Known
    BY DEF Known
  <1>2. CallRecord' = CallRecord /\ HandlerRecord' = HandlerRecord
    BY <1>1 DEF CallRecord, HandlerRecord
  <1>3. signed' \in 0..MaxStatements
    BY DEF TypeInv
  <1> QED
    BY <1>1, <1>2, <1>3 DEF TypeInv

LEMMA DetachType ==
    ASSUME TypeInv, NEW cs, Detach(cs)
    PROVE  handler' \in [Handlers -> HandlerRecord]
  <1> SUFFICES ASSUME NEW h \in Handlers
               PROVE  (IF handler[h].from \in cs
                       THEN [handler[h] EXCEPT !.from = NoCall]
                       ELSE handler[h]) \in HandlerRecord
    BY DEF Detach
  <1> QED
    BY RecordFields DEF HandlerRecord

LEMMA TypeFault ==
    ASSUME TypeInv, Fault
    PROVE  faults' \in 0..MaxFaults
  BY DEF TypeInv, Fault

LEMMA TypeCallStep ==
    ASSUME TypeInv, NEW c \in Calls,
           \/ Push(c) \/ Pull(c) \/ KeyImport(c) \/ KeyRemove(c)
           \/ CallStep(c) \/ GiveUp(c)
    PROVE  TypeInv'
  <1> USE DEF serverVars, deviceVars, history
  <1>t. /\ task \in BOOLEAN
        /\ server \in SUBSET Known /\ serverUser \in SUBSET Known
        /\ handler \in [Handlers -> HandlerRecord]
        /\ local \in [Devices -> SUBSET Known]
        /\ key \in [Devices -> {"none", "public", "private"}]
        /\ localUser \in [Devices -> SUBSET Known]
        /\ call \in [Calls -> CallRecord]
        /\ faults \in 0..MaxFaults
        /\ confirmed \in SUBSET Known /\ drafts \in SUBSET Known
    BY DEF TypeInv
  <1>r. ASSUME NEW r \in CallRecord
        PROVE  [call EXCEPT ![c] = r] \in [Calls -> CallRecord]
    BY <1>t
  <1>p. ASSUME NEW pc \in CallPcs \ {"wait"}
        PROVE  [call EXCEPT ![c].pc = pc] \in [Calls -> CallRecord]
    BY <1>t, RecordFields DEF CallRecord
  <1>i. /\ [Idle EXCEPT !.pc = "importID", !.op = "pull"] \in CallRecord
        /\ [Idle EXCEPT !.pc = "get", !.op = "import"] \in CallRecord
        /\ [Idle EXCEPT !.pc = "delete", !.op = "remove"] \in CallRecord
        /\ \A docs \in SUBSET Known :
              [Idle EXCEPT !.pc = "compare", !.op = "push", !.todo = docs] \in CallRecord
        /\ \A docs \in SUBSET Known : PutNext(docs) \in CallRecord
        /\ \A op \in CallOps : [Idle EXCEPT !.pc = "index", !.op = op] \in CallRecord
    BY DEF Idle, CallRecord, CallPcs, CallOps, PutNext
  <1>1. CASE Push(c)
    BY <1>1, <1>t, <1>r, <1>i, TypeFrame, RecordFields DEF Push
  <1>2. CASE Pull(c)
    BY <1>2, <1>t, <1>r, <1>i, TypeFrame DEF Pull
  <1>3. CASE KeyImport(c)
    BY <1>3, <1>t, <1>r, <1>i, TypeFrame DEF KeyImport
  <1>4. CASE KeyRemove(c)
    BY <1>4, <1>t, <1>r, <1>i, TypeFrame DEF KeyRemove
  <1>5. CASE Compare(c)
    <2>1. call' \in [Calls -> CallRecord]
      BY <1>5, <1>t, <1>r, <1>i, EmptyRecords, RecordFields DEF Compare, Return
    <2> QED
      BY <2>1, <1>5, <1>t, TypeFrame DEF Compare
  <1>6. CASE ImportID(c)
    <2>1. call' \in [Calls -> CallRecord]
      BY <1>6, <1>p DEF ImportID, Goto, CallPcs
    <2> QED
      BY <2>1, <1>6, <1>t, TypeFrame, RecordFields DEF ImportID
  <1>7. CASE Get(c)
    <2>1. [call[c] EXCEPT !.pc = "save", !.todo = server] \in CallRecord
      BY <1>t, RecordFields DEF CallRecord, CallPcs
    <2>2. call' \in [Calls -> CallRecord]
      BY <2>1, <1>7, <1>t, <1>r, EmptyRecords DEF Get, Return
    <2> QED
      BY <2>2, <1>7, <1>t, TypeFrame DEF Get
  <1>8. CASE DeleteSigchain(c)
    <2>1. call' \in [Calls -> CallRecord]
      BY <1>8, <1>p DEF DeleteSigchain, Goto, CallPcs
    <2> QED
      BY <2>1, <1>8, <1>t, TypeFrame, RecordFields DEF DeleteSigchain
  <1>9. CASE SendPut(c)
    <2>1. PICK h \in Handlers, st \in call[c].todo :
            /\ call' = [call EXCEPT ![c].pc = "wait", ![c].st = st]
            /\ handler' = [handler EXCEPT ![h] = [pc |-> "exists", st |-> st, from |-> c]]
      BY <1>9 DEF SendPut
    <2>2. st \in Known
      BY RecordFields
    <2>3. [call[c] EXCEPT !.pc = "wait", !.st = st] \in CallRecord
      BY ZenonT(30), <2>2, <1>t DEF CallRecord, CallPcs
    <2>4. [pc |-> "exists", st |-> st, from |-> c] \in HandlerRecord
      BY <2>2 DEF HandlerRecord, HandlerPcs
    <2> QED
      BY <2>1, <2>3, <2>4, <1>9, <1>t, <1>r, TypeFrame DEF SendPut
  <1>10. CASE Save(c)
    <2>1. PICK st \in call[c].todo :
            /\ local' = [local EXCEPT ![Home[c]] = Put(@, st)]
            /\ \/ call' = [call EXCEPT ![c].todo = @ \ {st}]
               \/ Return(c)
               \/ call' = [call EXCEPT ![c] = [Idle EXCEPT !.pc = "index", !.op = call[c].op]]
      BY <1>10 DEF Save
    <2>2. [call[c] EXCEPT !.todo = @ \ {st}] \in CallRecord
      BY <1>t DEF CallRecord
    <2>3. call' \in [Calls -> CallRecord]
      BY <2>1, <2>2, <1>t, <1>r, <1>i, EmptyRecords, RecordFields DEF Return
    <2>4. local' \in [Devices -> SUBSET Known]
      BY <2>1, <1>t, RecordFields DEF Put
    <2> QED
      BY <2>3, <2>4, <1>10, <1>t, TypeFrame DEF Save
  <1>11. CASE Index(c)
    <2>1. call' \in [Calls -> CallRecord]
      BY <1>11, <1>r, EmptyRecords DEF Index, Return
    <2>2. Users(local[Home[c]]) \in SUBSET Known
      BY RecordFields DEF Users
    <2>3. localUser' \in [Devices -> SUBSET Known]
      BY <2>2, <1>11, <1>t DEF Index
    <2> QED
      BY <2>1, <2>3, <1>11, <1>t, TypeFrame DEF Index
  <1>12. CASE GiveUp(c)
    <2>1. call' \in [Calls -> CallRecord]
      BY <1>12, <1>r, EmptyRecords DEF GiveUp, Return
    <2> QED
      BY <2>1, <1>12, <1>t, TypeFrame, DetachType, TypeFault DEF GiveUp
  <1> QED
    BY <1>1, <1>2, <1>3, <1>4, <1>5, <1>6, <1>7, <1>8, <1>9, <1>10, <1>11, <1>12 DEF CallStep

LEMMA TypeHandlerStep ==
    ASSUME TypeInv, NEW h \in Handlers,
           HandlerStep(h) \/ CreateRetried(h) \/ HandlerFails(h)
    PROVE  TypeInv'
  <1> USE DEF serverVars, deviceVars, history
  <1>t. /\ task \in BOOLEAN
        /\ server \in SUBSET Known /\ serverUser \in SUBSET Known
        /\ handler \in [Handlers -> HandlerRecord]
        /\ local \in [Devices -> SUBSET Known]
        /\ key \in [Devices -> {"none", "public", "private"}]
        /\ localUser \in [Devices -> SUBSET Known]
        /\ call \in [Calls -> CallRecord]
        /\ faults \in 0..MaxFaults
        /\ confirmed \in SUBSET Known /\ drafts \in SUBSET Known
    BY DEF TypeInv
  <1>p. ASSUME NEW pc \in HandlerPcs, handler[h].pc # "free"
        PROVE  [handler EXCEPT ![h].pc = pc] \in [Handlers -> HandlerRecord]
    <2>1. [handler[h] EXCEPT !.pc = pc] \in HandlerRecord
      BY <1>t, <1>p DEF HandlerRecord
    <2> QED BY <2>1, <1>t
  <1>s. handler[h].pc # "free" => handler[h].st \in Known
    BY RecordFields
  <1>1. CASE CheckExists(h)
    <2>1. handler' \in [Handlers -> HandlerRecord]
      BY <1>1, <1>p DEF CheckExists, HandlerGoto, HandlerPcs
    <2> QED BY <2>1, <1>1, <1>t, TypeFrame DEF CheckExists
  <1>2. CASE Verify(h)
    <2>1. handler' \in [Handlers -> HandlerRecord]
      BY <1>2, <1>p DEF Verify, HandlerGoto, HandlerPcs
    <2> QED BY <2>1, <1>2, <1>t, TypeFrame DEF Verify
  <1>3. CASE Create(h) \/ CreateRetried(h)
    <2>1. handler' \in [Handlers -> HandlerRecord]
      BY <1>3, <1>p DEF Create, CreateRetried, HandlerGoto, HandlerPcs
    <2>2. server' \in SUBSET Known
      BY <1>3, <1>t, <1>s DEF Create, CreateRetried
    <2>3. faults' \in 0..MaxFaults
      BY <1>3, <1>t, TypeFault DEF Create, CreateRetried
    <2> QED BY <2>1, <2>2, <2>3, <1>3, <1>t, TypeFrame DEF Create, CreateRetried
  <1>4. CASE CreateTask(h)
    <2>1. handler' \in [Handlers -> HandlerRecord]
      BY <1>4, <1>p DEF CreateTask, HandlerGoto, HandlerPcs
    <2>2. task' \in BOOLEAN
      BY <1>4, Zenon DEF CreateTask
    <2> QED BY <2>1, <2>2, <1>4, <1>t, TypeFrame DEF CreateTask
  <1>5. CASE HandlerFails(h)
    <2>1. handler' \in [Handlers -> HandlerRecord]
      BY <1>5, <1>p DEF HandlerFails, HandlerGoto, HandlerPcs
    <2>2. faults' \in 0..MaxFaults
      BY <1>5, TypeFault DEF HandlerFails
    <2> QED BY <2>1, <2>2, <1>5, <1>t, TypeFrame DEF HandlerFails
  <1>6. CASE Reply(h)
    <2>1. handler' \in [Handlers -> HandlerRecord]
      BY <1>6, <1>t, EmptyRecords DEF Reply
    <2>2. confirmed' \in SUBSET Known
      BY <1>6, <1>t, <1>s DEF Reply
    <2>3. \A c \in Calls, docs \in SUBSET Known :
             /\ PutNext(docs) \in CallRecord
             /\ [call[c] EXCEPT !.pc = "save"] \in CallRecord
      BY ZenonT(30), <1>t DEF PutNext, Idle, CallRecord, CallPcs, CallOps
    <2>4. call' \in [Calls -> CallRecord]
      <3>1. CASE UNCHANGED call
        BY <3>1, <1>t
      <3>2. CASE handler[h].from # NoCall
        <4>1. handler[h].from \in Calls
          BY <3>2, RecordFields
        <4>2. call[handler[h].from].todo \ {handler[h].st} \in SUBSET Known
          BY <4>1, RecordFields
        <4> QED
          BY ZenonT(30), <4>1, <4>2, <2>3, <1>6, <1>t, EmptyRecords DEF Reply, Return
      <3> QED BY <3>1, <3>2, <1>6 DEF Reply
    <2> QED BY <2>1, <2>2, <2>4, <1>6, <1>t, TypeFrame DEF Reply
  <1> QED
    BY <1>1, <1>2, <1>3, <1>4, <1>5, <1>6 DEF HandlerStep

LEMMA TypeRestStep ==
    ASSUME TypeInv, TaskCheck \/ \E d \in Devices : Crash(d)
    PROVE  TypeInv'
  <1> USE DEF serverVars, deviceVars, history
  <1>t. /\ task \in BOOLEAN
        /\ server \in SUBSET Known /\ serverUser \in SUBSET Known
        /\ handler \in [Handlers -> HandlerRecord]
        /\ local \in [Devices -> SUBSET Known]
        /\ key \in [Devices -> {"none", "public", "private"}]
        /\ localUser \in [Devices -> SUBSET Known]
        /\ call \in [Calls -> CallRecord]
        /\ faults \in 0..MaxFaults
        /\ confirmed \in SUBSET Known /\ drafts \in SUBSET Known
    BY DEF TypeInv
  <1>1. CASE TaskCheck
    <2>1. task' \in BOOLEAN
      BY <1>1, Zenon DEF TaskCheck
    <2>2. serverUser' \in SUBSET Known
      BY <1>1, <1>t DEF TaskCheck, Users
    <2> QED BY <2>1, <2>2, <1>1, <1>t, TypeFrame DEF TaskCheck
  <1>2. ASSUME NEW d \in Devices, Crash(d) PROVE TypeInv'
    <2>1. call' \in [Calls -> CallRecord]
      BY <1>2, <1>t, EmptyRecords DEF Crash
    <2>2. handler' \in [Handlers -> HandlerRecord]
      BY <1>2, DetachType DEF Crash
    <2>3. faults' \in 0..MaxFaults
      BY <1>2, TypeFault DEF Crash
    <2> QED BY <2>1, <2>2, <2>3, <1>2, <1>t, TypeFrame DEF Crash
  <1> QED BY <1>1, <1>2

LEMMA TypeStep == TypeInv /\ [Next]_vars => TypeInv'
  <1> SUFFICES ASSUME TypeInv, [Next]_vars PROVE TypeInv'
    OBVIOUS
  <1>1. ASSUME NEW c \in Calls, Begin(c) \/ CallStep(c) \/ GiveUp(c)
        PROVE  TypeInv'
    <2>1. CASE StatementCreate(c)
      BY <2>1, TypeSign DEF StatementCreate, CallOps, Kinds
    <2>2. CASE UserAdd(c)
      BY <2>2, TypeSign DEF UserAdd, CallOps, Kinds
    <2>3. CASE StatementRevoke(c)
      <3>1. PICK loc \in Local, s \in local[Home[c]] :
               Sign(c, "revoke", "revoke", s.seq, loc)
        BY <2>3 DEF StatementRevoke
      <3>2. s.seq \in 0..MaxStatements
        BY RecordFields DEF Statement
      <3> QED BY <3>1, <3>2, TypeSign DEF CallOps, Kinds
    <2> QED BY <1>1, <2>1, <2>2, <2>3, TypeCallStep DEF Begin
  <1>2. CASE UNCHANGED vars
    BY <1>2, TypeFrame DEF vars, TypeInv
  <1> QED
    BY <1>1, <1>2, TypeHandlerStep, TypeRestStep DEF Next

\* Every variable keeps its type in every behaviour.
THEOREM TypeCorrect == Spec => []TypeOK
  <1>1. Spec => []TypeInv
    BY TypeInit, TypeStep, PTL DEF Spec
  <1> QED BY <1>1, TypeInvImpliesTypeOK, PTL

-----------------------------------------------------------------------------
(* Part 2: the chain on the server.  Only Create and CreateRetried write   *)
(* it, long after Verify looked at it.  What Verify saw that still counts: *)
(* the predecessor the statement names is stored, and the limit leaves     *)
(* room (CreateReady).  The chain may have grown since; but it has no gap, *)
(* so a longer chain holds a statement with this sequence number, and      *)
(* Create refuses the path.                                                *)

CreateReady ==
    \A h \in Handlers : handler[h].pc = "create" =>
        LET st == handler[h].st
        IN /\ st.seq <= Limit
           /\ \/ st.seq = 1 /\ st.prev = 0
              \/ \E p \in server : p.seq + 1 = st.seq /\ p.id = st.prev

\* A handler past Create has stored its statement.
PastCreate ==
    \A h \in Handlers : handler[h].pc \in {"task", "ok"} => handler[h].st \in server

ServerInv == ServerChain /\ CreateReady /\ PastCreate /\ ConfirmedStored

\* Create adds its statement at the end of the chain or not at all.
LEMMA CreateAppends ==
    ASSUME TypeInv, ServerChain, CreateReady, NEW h \in Handlers,
           handler[h].pc = "create",
           ~Exists(server, handler[h].st)
    PROVE  /\ handler[h].st \in Statement
           /\ handler[h].st.seq <= Limit
           /\ \A t \in server : t.seq < handler[h].st.seq
           /\ Follows(handler[h].st, server)
  <1> DEFINE st == handler[h].st
  <1>1. st \in Statement /\ server \subseteq Statement
    BY RecordFields DEF TypeInv
  <1>2. ASSUME NEW t \in server PROVE t.seq < st.seq
    <2>1. SUFFICES ASSUME st.seq <= t.seq PROVE FALSE
      BY <1>1, StatementFields
    <2>2. st.seq \in 1..t.seq
      BY <2>1, <1>1, StatementFields
    <2>3. \E u \in server : u.seq = st.seq
      BY <2>2 DEF ServerChain, NoGap
    <2> QED
      BY <2>3 DEF Exists
  <1>3. /\ st.seq <= Limit
        /\ \/ st.seq = 1 /\ st.prev = 0
           \/ \E p \in server : p.seq + 1 = st.seq /\ p.id = st.prev
    BY DEF CreateReady
  <1>4. CASE st.seq = 1 /\ st.prev = 0
    <2>1. server = {}
      BY <1>1, <1>2, <1>4, StatementFields
    <2> QED
      BY <1>1, <1>2, <1>3, <1>4, <2>1 DEF Follows
  <1>5. CASE \E p \in server : p.seq + 1 = st.seq /\ p.id = st.prev
    <2>1. PICK p \in server : p.seq + 1 = st.seq /\ p.id = st.prev
      BY <1>5
    <2>2. IsLast(p, server)
      BY <1>1, <1>2, <2>1, StatementFields DEF IsLast
    <2> QED
      BY <1>1, <1>2, <1>3, <2>1, <2>2 DEF Follows
  <1> QED BY <1>3, <1>4, <1>5

\* A statement at the end keeps the chain a chain.
LEMMA ChainExtended ==
    ASSUME server \subseteq Statement, ServerChain, NEW st \in Statement,
           st.seq <= Limit,
           \A t \in server : t.seq < st.seq,
           Follows(st, server),
           server' = server \cup {st}
    PROVE  ServerChain'
  <1>1. Linked(server')
    <2>1. SUFFICES ASSUME NEW s \in server'
                   PROVE  Follows(s, {p \in server' : p.seq < s.seq})
      BY DEF Linked
    <2>2. CASE s = st
      <3>1. {p \in server' : p.seq < s.seq} = server
        BY <2>2, StatementFields
      <3> QED BY <2>2, <3>1
    <2>3. CASE s \in server
      <3>1. {p \in server' : p.seq < s.seq} = {p \in server : p.seq < s.seq}
        BY <2>3, StatementFields
      <3> QED BY <2>3, <3>1 DEF ServerChain, Linked
    <2> QED BY <2>2, <2>3
  <1>2. OnePerSeq(server')
    BY StatementFields DEF ServerChain, OnePerSeq
  <1>3. NoGap(server')
    <2>1. SUFFICES ASSUME NEW s \in server', NEW k \in 1..s.seq
                   PROVE  \E t \in server' : t.seq = k
      BY DEF NoGap
    <2>2. CASE s \in server
      BY <2>2 DEF ServerChain, NoGap
    <2>3. CASE s = st /\ k = st.seq
      BY <2>3
    <2>4. CASE s = st /\ k # st.seq
      <3>1. CASE server = {}
        BY <3>1, <2>4 DEF Follows
      <3>2. PICK last \in server : st.seq = last.seq + 1
        BY <3>1, <2>4 DEF Follows
      <3>3. k \in 1..last.seq
        BY <2>4, <3>2, StatementFields
      <3> QED BY <3>2, <3>3 DEF ServerChain, NoGap
    <2> QED BY <2>2, <2>3, <2>4
  <1> QED
    BY <1>1, <1>2, <1>3 DEF ServerChain

\* What a step does to the stored chain.
LEMMA ServerMove ==
    ASSUME [Next]_vars
    PROVE  \/ server' = server
           \/ \E h \in Handlers : /\ handler[h].pc = "create"
                                  /\ ~Exists(server, handler[h].st)
                                  /\ server' = server \cup {handler[h].st}
  <1> USE DEF serverVars, deviceVars
  <1>1. ASSUME NEW c \in Calls, Begin(c) \/ CallStep(c) \/ GiveUp(c)
        PROVE  server' = server
    <2>1. CASE Begin(c)
      BY <2>1 DEF Begin, StatementCreate, UserAdd, StatementRevoke, Sign, Push, Pull,
                  KeyImport, KeyRemove
    <2>2. CASE CallStep(c)
      BY <2>2 DEF CallStep, Compare, ImportID, Get, DeleteSigchain, SendPut, Save, Index
    <2> QED BY <1>1, <2>1, <2>2 DEF GiveUp
  <1>2. ASSUME NEW h \in Handlers, CheckExists(h) \/ Verify(h) \/ CreateTask(h) \/ Reply(h)
                                   \/ HandlerFails(h)
        PROVE  server' = server
    BY <1>2 DEF CheckExists, Verify, CreateTask, Reply, HandlerFails
  <1>3. ASSUME NEW h \in Handlers, Create(h) \/ CreateRetried(h)
        PROVE  \/ server' = server
               \/ /\ handler[h].pc = "create"
                  /\ ~Exists(server, handler[h].st)
                  /\ server' = server \cup {handler[h].st}
    BY <1>3 DEF Create, CreateRetried
  <1>4. ASSUME TaskCheck \/ \E d \in Devices : Crash(d) PROVE server' = server
    BY <1>4 DEF TaskCheck, Crash
  <1>5. CASE UNCHANGED vars
    BY <1>5 DEF vars
  <1> QED
    BY <1>1, <1>2, <1>3, <1>4, <1>5 DEF Next, HandlerStep

\* What a step does to the request a handler works on: it begins one, ends
\* it, loses the caller, or goes on to the next access of the store.
HandlerMove(h) ==
    \/ handler'[h].pc \in {"free", "exists", "load", "error"}
    \/ /\ handler'[h].st = handler[h].st
       /\ \/ handler'[h].pc = handler[h].pc
          \/ handler'[h].pc = "create" /\ Verify(h)
          \/ handler'[h].pc = "task" /\ Create(h) /\ handler[h].st \in server'
          \/ handler'[h].pc = "ok" /\ handler[h].pc = "task"

LEMMA HandlerMoves ==
    ASSUME TypeInv, [Next]_vars, NEW h \in Handlers
    PROVE  HandlerMove(h)
  <1> USE DEF HandlerMove, HandlerGoto
  <1>t. handler \in [Handlers -> HandlerRecord]
        /\ DOMAIN handler[h] = {"pc", "st", "from"}
        /\ \A pc : /\ [handler[h] EXCEPT !.pc = pc].pc = pc
                   /\ [handler[h] EXCEPT !.pc = pc].st = handler[h].st
    BY DEF TypeInv, HandlerRecord
  <1>d. ASSUME NEW cs, Detach(cs) PROVE HandlerMove(h)
    BY <1>d, RecordFields DEF Detach, HandlerRecord
  <1>1. ASSUME NEW c \in Calls, Begin(c) \/ CallStep(c) \/ GiveUp(c)
        PROVE  HandlerMove(h)
    <2>1. CASE Begin(c)
      BY <2>1 DEF Begin, StatementCreate, UserAdd, StatementRevoke, Sign, Push, Pull,
                  KeyImport, KeyRemove
    <2>2. CASE SendPut(c)
      BY <2>2, <1>t DEF SendPut
    <2>3. CASE CallStep(c) /\ ~SendPut(c)
      BY <2>3 DEF CallStep, Compare, ImportID, Get, DeleteSigchain, Save, Index
    <2>4. CASE GiveUp(c)
      BY <2>4, <1>d DEF GiveUp
    <2> QED BY <1>1, <2>1, <2>2, <2>3, <2>4
  <1>2. ASSUME NEW g \in Handlers, g # h,
               HandlerStep(g) \/ CreateRetried(g) \/ HandlerFails(g)
        PROVE  handler'[h] = handler[h]
    BY <1>2, <1>t DEF HandlerStep, CheckExists, Verify, Create, CreateTask, Reply,
                      CreateRetried, HandlerFails
  <1>3. CASE CheckExists(h) \/ HandlerFails(h) \/ CreateRetried(h)
    BY <1>3, <1>t DEF CheckExists, HandlerFails, CreateRetried
  <1>4. CASE Verify(h)
    <2>1. handler'[h].st = handler[h].st /\ handler'[h].pc \in {"create", "error"}
      BY <1>4, <1>t DEF Verify
    <2> QED BY <2>1, <1>4
  <1>5. CASE Create(h)
    <2>1. /\ handler'[h].st = handler[h].st
          /\ \/ handler'[h].pc = "error"
             \/ handler'[h].pc = "task" /\ handler[h].st \in server'
      BY <1>5, <1>t DEF Create
    <2> QED BY <2>1, <1>5
  <1>6. CASE CreateTask(h)
    BY <1>6, <1>t DEF CreateTask
  <1>7. CASE Reply(h)
    BY <1>7, <1>t, EmptyRecords DEF Reply
  <1>8. CASE TaskCheck \/ UNCHANGED vars
    BY <1>8 DEF TaskCheck, vars
  <1>9. ASSUME NEW d \in Devices, Crash(d) PROVE HandlerMove(h)
    BY <1>9, <1>d DEF Crash
  <1> QED
    BY <1>1, <1>2, <1>3, <1>4, <1>5, <1>6, <1>7, <1>8, <1>9 DEF Next, HandlerStep

\* Verify looked at a shorter chain; what counts of it is still there.
LEMMA VerifyReady ==
    ASSUME TypeInv, NEW h \in Handlers, Verify(h), handler'[h].pc = "create",
           handler'[h].st = handler[h].st
    PROVE  LET st == handler[h].st
           IN /\ st.seq <= Limit
              /\ \/ st.seq = 1 /\ st.prev = 0
                 \/ \E p \in server : p.seq + 1 = st.seq /\ p.id = st.prev
  <1> DEFINE st == handler[h].st
  <1>1. Follows(st, server) /\ \A s \in server : s.seq < Limit
    <2>1. CASE HandlerGoto(h, "error")
      <3>1. handler'[h].pc = "error"
        BY <2>1 DEF HandlerGoto, TypeInv, HandlerRecord
      <3> QED BY <3>1
    <2> QED BY <2>1 DEF Verify
  <1>2. server \subseteq Statement
    BY RecordFields DEF TypeInv
  <1>3. CASE server = {}
    BY <1>1, <1>3 DEF Follows
  <1>4. CASE \E last \in server : /\ IsLast(last, server)
                                  /\ st.seq = last.seq + 1
                                  /\ st.prev = last.id
    <2>1. PICK last \in server : st.seq = last.seq + 1 /\ st.prev = last.id
      BY <1>4
    <2>2. last.seq < Limit /\ last.seq \in Nat
      BY <1>1, <1>2, <2>1, StatementFields
    <2> QED BY <2>1, <2>2
  <1> QED BY <1>1, <1>3, <1>4 DEF Follows

LEMMA ServerInvInit == Init => ServerInv
  BY DEF Init, ServerInv, ServerChain, CreateReady, PastCreate, ConfirmedStored,
         Linked, OnePerSeq, NoGap, Free

LEMMA ServerGrows ==
    ASSUME [Next]_vars
    PROVE  server \subseteq server'
  BY ServerMove

\* Success is only reported to a device when the statement is stored.
LEMMA ConfirmedMove ==
    ASSUME [Next]_vars
    PROVE  \/ confirmed' = confirmed
           \/ \E h \in Handlers : /\ handler[h].pc = "ok"
                                  /\ confirmed' = confirmed \cup {handler[h].st}
  <1> USE DEF history
  <1>1. ASSUME NEW c \in Calls, Begin(c) \/ CallStep(c) \/ GiveUp(c)
        PROVE  confirmed' = confirmed
    <2>1. CASE Begin(c)
      BY <2>1 DEF Begin, StatementCreate, UserAdd, StatementRevoke, Sign, Push, Pull,
                  KeyImport, KeyRemove
    <2>2. CASE CallStep(c)
      BY <2>2 DEF CallStep, Compare, ImportID, Get, DeleteSigchain, SendPut, Save, Index
    <2> QED BY <1>1, <2>1, <2>2 DEF GiveUp
  <1>2. ASSUME NEW h \in Handlers, Reply(h)
        PROVE  \/ confirmed' = confirmed
               \/ /\ handler[h].pc = "ok"
                  /\ confirmed' = confirmed \cup {handler[h].st}
    BY <1>2 DEF Reply
  <1>3. ASSUME NEW h \in Handlers, CheckExists(h) \/ Verify(h) \/ Create(h) \/ CreateTask(h)
                                   \/ HandlerFails(h) \/ CreateRetried(h)
        PROVE  confirmed' = confirmed
    BY <1>3 DEF CheckExists, Verify, Create, CreateTask, HandlerFails, CreateRetried
  <1>4. ASSUME TaskCheck \/ \E d \in Devices : Crash(d) PROVE confirmed' = confirmed
    BY <1>4 DEF TaskCheck, Crash
  <1>5. CASE UNCHANGED vars
    BY <1>5 DEF vars
  <1> QED
    BY <1>1, <1>2, <1>3, <1>4, <1>5 DEF Next, HandlerStep

LEMMA ServerInvStep == TypeInv /\ ServerInv /\ [Next]_vars => ServerInv'
  <1> SUFFICES ASSUME TypeInv, ServerInv, [Next]_vars PROVE ServerInv'
    OBVIOUS
  <1> USE DEF ServerInv
  <1>1. ServerChain'
    <2>1. CASE server' = server
      BY <2>1 DEF ServerChain
    <2>2. CASE \E h \in Handlers : /\ handler[h].pc = "create"
                                   /\ ~Exists(server, handler[h].st)
                                   /\ server' = server \cup {handler[h].st}
      <3>1. PICK h \in Handlers : /\ handler[h].pc = "create"
                                  /\ ~Exists(server, handler[h].st)
                                  /\ server' = server \cup {handler[h].st}
        BY <2>2
      <3>2. server \subseteq Statement
        BY RecordFields DEF TypeInv
      <3> QED BY <3>1, <3>2, CreateAppends, ChainExtended
    <2> QED BY <2>1, <2>2, ServerMove
  <1>2. CreateReady'
    <2>1. SUFFICES ASSUME NEW h \in Handlers, handler'[h].pc = "create"
                   PROVE  LET st == handler'[h].st
                          IN /\ st.seq <= Limit
                             /\ \/ st.seq = 1 /\ st.prev = 0
                                \/ \E p \in server' : p.seq + 1 = st.seq /\ p.id = st.prev
      BY DEF CreateReady
    <2>2. /\ handler'[h].st = handler[h].st
          /\ handler[h].pc = "create" \/ Verify(h)
      BY <2>1, HandlerMoves DEF HandlerMove
    <2>3. CASE handler[h].pc = "create"
      BY <2>2, <2>3, ServerGrows DEF CreateReady
    <2>4. CASE Verify(h)
      BY <2>1, <2>2, <2>4, ServerGrows, VerifyReady
    <2> QED BY <2>2, <2>3, <2>4
  <1>3. PastCreate'
    <2>1. SUFFICES ASSUME NEW h \in Handlers, handler'[h].pc \in {"task", "ok"}
                   PROVE  handler'[h].st \in server'
      BY DEF PastCreate
    <2>2. /\ handler'[h].st = handler[h].st
          /\ handler[h].pc \in {"task", "ok"} \/ handler[h].st \in server'
      BY <2>1, HandlerMoves DEF HandlerMove
    <2> QED BY <2>2, ServerGrows DEF PastCreate
  <1>4. ConfirmedStored'
    BY ConfirmedMove, ServerGrows DEF PastCreate, ConfirmedStored
  <1> QED BY <1>1, <1>2, <1>3, <1>4

LEMMA ServerInvAlways == Spec => [](TypeInv /\ ServerInv)
  <1>1. Init => TypeInv /\ ServerInv
    BY TypeInit, ServerInvInit
  <1>2. TypeInv /\ ServerInv /\ [Next]_vars => (TypeInv /\ ServerInv)'
    BY TypeStep, ServerInvStep
  <1> QED BY <1>1, <1>2, PTL DEF Spec

\* The stored statements are one chain, whatever PUTs race and fail.
THEOREM ServerChainCorrect == Spec => []ServerChain
  BY ServerInvAlways, PTL DEF ServerInv

\* Success reported to a device means stored, and stays so.
THEOREM ConfirmedStoredCorrect == Spec => []ConfirmedStored
  BY ServerInvAlways, PTL DEF ServerInv

\* No step of any actor changes or removes a stored statement.
THEOREM AppendOnlyCorrect == Spec => AppendOnly
  <1>1. [Next]_vars => [server \subseteq server']_server
    BY ServerGrows
  <1> QED BY <1>1, PTL DEF Spec, AppendOnly

-----------------------------------------------------------------------------
(* Part 3: the devices' copies.  SaveSigchain writes what an answer        *)
(* confirmed, so an answer must belong to the statement its call waits     *)
(* with: at most one request is open for a call, and only while it waits   *)
(* (Waiters).  And what a call holds to save or to push is stored on the   *)
(* server or a draft, but for the one statement it is sending (Sources).   *)

Waiters ==
    /\ \A h \in Handlers : handler[h].from \in Calls =>
          /\ call[handler[h].from].pc = "wait"
          /\ call[handler[h].from].st = handler[h].st
    /\ \A g, h \in Handlers :
          handler[g].from = handler[h].from /\ handler[h].from \in Calls => g = h

Sourced(r, src) ==
    /\ r.pc \in {"compare", "save"} \/ r.op = "push" => r.todo \subseteq src
    /\ r.pc \in {"put", "wait"} => r.todo \subseteq src \cup {r.st}

Sources == \A c \in Calls : Sourced(call[c], server \cup drafts)

DeviceInv == Waiters /\ Sources /\ NeverAhead

LEMMA DeviceInvInit == Init => DeviceInv
  BY EmptyRecords DEF Init, DeviceInv, Waiters, Sources, Sourced, NeverAhead

\* A call that does not wait has no request open.
LEMMA NoRequest ==
    ASSUME TypeInv, Waiters, NEW c \in Calls, call[c].pc # "wait", NEW h \in Handlers
    PROVE  handler[h].from # c
  BY DEF Waiters

\* Steps that write one call, which waits neither before nor after.
LEMMA WaitersFrame ==
    ASSUME TypeInv, Waiters, NEW c \in Calls, call[c].pc # "wait", NEW r,
           call' = [call EXCEPT ![c] = r],
           handler' = handler
    PROVE  Waiters'
  <1>1. \A h \in Handlers : handler[h].from # c
    BY NoRequest
  <1>2. \A b \in Calls : b # c => call'[b] = call[b]
    BY DEF TypeInv
  <1> QED
    BY <1>1, <1>2 DEF Waiters

\* Steps of a handler that keep the call and the statement of its request.
LEMMA WaitersHandler ==
    ASSUME TypeInv, Waiters, NEW h \in Handlers, NEW pc,
           HandlerGoto(h, pc), call' = call
    PROVE  Waiters'
  <1>1. \A g \in Handlers : handler'[g].from = handler[g].from /\ handler'[g].st = handler[g].st
    BY DEF HandlerGoto, TypeInv, HandlerRecord
  <1> QED
    BY <1>1 DEF Waiters

\* Steps that end calls and leave their requests to nobody.
LEMMA WaitersDetach ==
    ASSUME TypeInv, Waiters, NEW cs \in SUBSET Calls, Detach(cs),
           \A b \in Calls \ cs : call'[b] = call[b]
    PROVE  Waiters'
  <1>1. ASSUME NEW h \in Handlers, handler'[h].from \in Calls
        PROVE  handler'[h] = handler[h] /\ handler[h].from \notin cs
    <2>1. CASE handler[h].from \in cs
      <3>1. handler'[h].from = NoCall
        BY <2>1, RecordFields DEF Detach, HandlerRecord
      <3> QED BY <3>1, <1>1
    <2> QED BY <2>1 DEF Detach
  <1> QED
    BY <1>1 DEF Waiters

LEMMA WaitersStep ==
    ASSUME TypeInv, Waiters, [Next]_vars
    PROVE  Waiters'
  <1> USE DEF serverVars, deviceVars, history
  <1>1. ASSUME NEW c \in Calls, Begin(c) \/ CallStep(c) \/ GiveUp(c)
        PROVE  Waiters'
    <2>1. CASE Begin(c)
      <3>1. handler' = handler /\ call[c] = Idle
            /\ \E r : call' = [call EXCEPT ![c] = r]
        BY <2>1 DEF Begin, StatementCreate, UserAdd, StatementRevoke, Sign, Push, Pull,
                    KeyImport, KeyRemove
      <3>2. call[c].pc # "wait"
        BY <3>1, EmptyRecords
      <3> QED BY <3>1, <3>2, WaitersFrame
    <2>2. CASE CallStep(c) /\ ~SendPut(c)
      <3>1. handler' = handler /\ call[c].pc # "wait"
        BY <2>2 DEF CallStep, Compare, ImportID, Get, DeleteSigchain, Save, Index
      <3>2. \E r : call' = [call EXCEPT ![c] = r]
        <4>1. CASE Compare(c) \/ Save(c) \/ Index(c)
          BY <4>1 DEF Compare, Save, Index, Return
        <4>2. CASE ImportID(c) \/ DeleteSigchain(c) \/ Get(c)
          BY <4>2 DEF ImportID, DeleteSigchain, Get, Return, Goto
        <4> QED BY <2>2, <4>1, <4>2 DEF CallStep
      <3> QED BY <3>1, <3>2, WaitersFrame
    <2>3. CASE SendPut(c)
      <3>1. PICK h \in Handlers, st \in call[c].todo :
              /\ call' = [call EXCEPT ![c].pc = "wait", ![c].st = st]
              /\ handler[h] = Free
              /\ handler' = [handler EXCEPT ![h] = [pc |-> "exists", st |-> st, from |-> c]]
        BY <2>3 DEF SendPut
      <3>2. call[c].pc = "put"
        BY <2>3 DEF SendPut
      <3>3. \A g \in Handlers : handler[g].from # c
        BY <3>2, NoRequest
      <3>4. /\ handler'[h].from = c /\ handler'[h].st = st
            /\ \A g \in Handlers : g # h => handler'[g] = handler[g]
        BY <3>1 DEF TypeInv
      <3>5. /\ call'[c].pc = "wait" /\ call'[c].st = st
            /\ \A b \in Calls : b # c => call'[b] = call[b]
        BY <3>1, RecordFields DEF TypeInv, CallRecord
      <3> QED
        BY <3>3, <3>4, <3>5 DEF Waiters
    <2>4. CASE GiveUp(c)
      <3>1. \A b \in Calls \ {c} : call'[b] = call[b]
        BY <2>4 DEF GiveUp, Return, TypeInv
      <3> QED BY <2>4, <3>1, WaitersDetach DEF GiveUp
    <2> QED BY <1>1, <2>1, <2>2, <2>3, <2>4
  <1>2. ASSUME NEW h \in Handlers, CheckExists(h) \/ Verify(h) \/ Create(h) \/ CreateTask(h)
                                   \/ HandlerFails(h) \/ CreateRetried(h)
        PROVE  Waiters'
    <2>1. call' = call /\ \E pc : HandlerGoto(h, pc)
      BY <1>2 DEF CheckExists, Verify, Create, CreateTask, HandlerFails, CreateRetried
    <2> QED BY <2>1, WaitersHandler
  <1>3. ASSUME NEW h \in Handlers, Reply(h) PROVE Waiters'
    <2>1. /\ handler'[h].from = NoCall
          /\ \A g \in Handlers : g # h => handler'[g] = handler[g]
      BY <1>3, EmptyRecords DEF Reply, TypeInv
    <2>2. \A b \in Calls : b # handler[h].from => call'[b] = call[b]
      BY <1>3 DEF Reply, Return, TypeInv
    <2> QED BY <2>1, <2>2 DEF Waiters
  <1>4. ASSUME NEW d \in Devices, Crash(d) PROVE Waiters'
    <2> DEFINE mine == {c \in Calls : Home[c] = d}
    <2>1. Detach(mine) /\ \A b \in Calls \ mine : call'[b] = call[b]
      BY <1>4 DEF Crash
    <2> QED BY <2>1, WaitersDetach
  <1>5. CASE TaskCheck \/ UNCHANGED vars
    BY <1>5 DEF TaskCheck, vars, Waiters
  <1> QED
    BY <1>1, <1>2, <1>3, <1>4, <1>5 DEF Next, HandlerStep

\* What is stored or drafted stays so, and only Sign drafts.
LEMMA SourceGrows ==
    ASSUME [Next]_vars
    PROVE  server \cup drafts \subseteq server' \cup drafts'
  <1> USE DEF history
  <1>1. ASSUME NEW c \in Calls, Begin(c) \/ CallStep(c) \/ GiveUp(c)
        PROVE  drafts \subseteq drafts'
    <2>1. CASE Begin(c)
      BY <2>1 DEF Begin, StatementCreate, UserAdd, StatementRevoke, Sign, Push, Pull,
                  KeyImport, KeyRemove
    <2>2. CASE CallStep(c)
      BY <2>2 DEF CallStep, Compare, ImportID, Get, DeleteSigchain, SendPut, Save, Index
    <2> QED BY <1>1, <2>1, <2>2 DEF GiveUp
  <1>2. ASSUME NEW h \in Handlers, HandlerStep(h) \/ HandlerFails(h) \/ CreateRetried(h)
        PROVE  drafts \subseteq drafts'
    BY <1>2 DEF HandlerStep, CheckExists, Verify, Create, CreateTask, Reply, HandlerFails,
                CreateRetried
  <1>3. ASSUME TaskCheck \/ \E d \in Devices : Crash(d) PROVE drafts \subseteq drafts'
    BY <1>3 DEF TaskCheck, Crash
  <1>4. CASE UNCHANGED vars
    BY <1>4 DEF vars
  <1> QED
    BY <1>1, <1>2, <1>3, <1>4, ServerGrows DEF Next

\* A step that writes one call with what is sourced, and no copy.
LEMMA SourcesFrame ==
    ASSUME TypeInv, Sources, NeverAhead, [Next]_vars,
           NEW c \in Calls, NEW r, Sourced(r, server' \cup drafts'),
           call' = [call EXCEPT ![c] = r],
           local' = local
    PROVE  (Sources /\ NeverAhead)'
  <1>1. server \cup drafts \subseteq server' \cup drafts'
    BY SourceGrows
  <1>2. \A b \in Calls : call'[b] = IF b = c THEN r ELSE call[b]
    BY DEF TypeInv
  <1> QED
    BY <1>1, <1>2 DEF Sources, Sourced, NeverAhead

\* A step that at most ends calls, and writes no copy.
LEMMA SourcesEnd ==
    ASSUME TypeInv, Sources, NeverAhead, [Next]_vars,
           \A b \in Calls : call'[b] \in {call[b], Idle},
           local' = local
    PROVE  (Sources /\ NeverAhead)'
  <1>1. server \cup drafts \subseteq server' \cup drafts'
    BY SourceGrows
  <1> QED
    BY <1>1, EmptyRecords DEF Sources, Sourced, NeverAhead

LEMMA SourcedRecords ==
    ASSUME NEW src
    PROVE  /\ Sourced(Idle, src)
           /\ Sourced([Idle EXCEPT !.pc = "importID", !.op = "pull"], src)
           /\ Sourced([Idle EXCEPT !.pc = "get", !.op = "import"], src)
           /\ Sourced([Idle EXCEPT !.pc = "delete", !.op = "remove"], src)
           /\ \A op : Sourced([Idle EXCEPT !.pc = "index", !.op = op], src)
           /\ \A docs \in SUBSET src :
                 /\ Sourced([Idle EXCEPT !.pc = "compare", !.op = "push", !.todo = docs], src)
                 /\ Sourced(PutNext(docs), src)
  BY DEF Sourced, Idle, PutNext

LEMMA SourcesBegin ==
    ASSUME TypeInv, Sources, NeverAhead, [Next]_vars, NEW c \in Calls, Begin(c)
    PROVE  (Sources /\ NeverAhead)'
  <1> USE DEF serverVars, deviceVars, history
  <1> DEFINE src == server \cup drafts
  <1>1. ASSUME NEW op \in CallOps \ {"push"}, NEW kind, NEW revoke, NEW loc,
               Sign(c, op, kind, revoke, loc)
        PROVE  (Sources /\ NeverAhead)'
    <2>1. PICK st :
             /\ drafts' = IF loc THEN drafts \cup {st} ELSE drafts
             /\ call' = [call EXCEPT ![c] =
                           [pc |-> IF loc THEN "save" ELSE "put", op |-> op,
                            st |-> st, todo |-> local[Home[c]] \cup {st}]]
      BY <1>1 DEF Sign
    <2>2. local[Home[c]] \subseteq src
      BY RecordFields DEF NeverAhead
    <2>3. server' = server /\ local' = local
      BY <1>1 DEF Sign
    <2>4. Sourced([pc |-> IF loc THEN "save" ELSE "put", op |-> op,
                   st |-> st, todo |-> local[Home[c]] \cup {st}], server' \cup drafts')
      BY <2>1, <2>2, <2>3 DEF Sourced
    <2> QED BY <2>1, <2>3, <2>4, SourcesFrame
  <1>2. CASE StatementCreate(c) \/ UserAdd(c) \/ StatementRevoke(c)
    BY <1>2, <1>1 DEF StatementCreate, UserAdd, StatementRevoke, CallOps
  <1>3. CASE Push(c)
    <2>1. local[Home[c]] \subseteq src
      BY RecordFields DEF NeverAhead
    <2>2. server' = server /\ drafts' = drafts /\ local' = local
          /\ call' = [call EXCEPT ![c] = [Idle EXCEPT !.pc = "compare", !.op = "push",
                                                      !.todo = local[Home[c]]]]
      BY <1>3 DEF Push
    <2> QED BY <2>1, <2>2, SourcedRecords, SourcesFrame
  <1>4. CASE Pull(c) \/ KeyImport(c) \/ KeyRemove(c)
    BY <1>4, SourcedRecords, SourcesFrame DEF Pull, KeyImport, KeyRemove
  <1> QED BY <1>2, <1>3, <1>4 DEF Begin

\* Goto to a place where a call holds nothing.
LEMMA SourcesGoto ==
    ASSUME TypeInv, Sources, NeverAhead, NEW c \in Calls,
           NEW pc \in {"get", "index"}
    PROVE  Sourced([call[c] EXCEPT !.pc = pc], server \cup drafts)
  <1>1. /\ [call[c] EXCEPT !.pc = pc].pc = pc
        /\ [call[c] EXCEPT !.pc = pc].op = call[c].op
        /\ [call[c] EXCEPT !.pc = pc].todo = call[c].todo
    BY RecordFields DEF CallRecord
  <1> QED BY <1>1 DEF Sources, Sourced

LEMMA SourcesCall ==
    ASSUME TypeInv, Sources, NeverAhead, [Next]_vars, NEW c \in Calls, CallStep(c)
    PROVE  (Sources /\ NeverAhead)'
  <1> USE DEF serverVars, deviceVars, history
  <1> DEFINE src == server \cup drafts
  <1>s. Sourced(call[c], src)
    BY DEF Sources
  <1>u. server' = server /\ drafts' = drafts
    BY DEF CallStep, Compare, ImportID, Get, DeleteSigchain, SendPut, Save, Index
  <1>f. DOMAIN call[c] = {"pc", "op", "st", "todo"}
    BY RecordFields DEF CallRecord
  <1>1. CASE Compare(c)
    <2>1. call[c].todo \subseteq src
      BY <1>1, <1>s DEF Compare, Sourced
    <2>2. {s \in call[c].todo : ~Exists(server, s)} \in SUBSET src
      BY <2>1
    <2> QED
      BY <1>1, <1>u, <2>2, SourcedRecords, SourcesFrame DEF Compare, Return
  <1>2. CASE ImportID(c)
    BY <1>2, <1>u, SourcesGoto, SourcesFrame DEF ImportID, Goto
  <1>3. CASE Get(c)
    <2>1. Sourced([call[c] EXCEPT !.pc = "save", !.todo = server], src)
      BY <1>f DEF Sourced
    <2>2. local' = local
          /\ \/ call' = [call EXCEPT ![c] = [call[c] EXCEPT !.pc = "save", !.todo = server]]
             \/ call' = [call EXCEPT ![c] = Idle]
      BY <1>3 DEF Get, Return, TypeInv
    <2>3. Sourced(Idle, src)
      BY SourcedRecords
    <2> QED BY <2>1, <2>2, <2>3, <1>u, SourcesFrame
  <1>4. CASE SendPut(c)
    <2>1. PICK st \in call[c].todo :
            /\ call' = [call EXCEPT ![c].pc = "wait", ![c].st = st]
            /\ call[c].op = "push" \/ st = call[c].st
      BY <1>4 DEF SendPut
    <2>2. call[c].pc = "put" /\ local' = local
      BY <1>4 DEF SendPut
    <2>3. Sourced([call[c] EXCEPT !.pc = "wait", !.st = st], src)
      BY <1>f, <1>s, <2>1, <2>2 DEF Sourced
    <2> QED BY ZenonT(30), <2>1, <2>2, <2>3, <1>u, SourcesFrame
  <1>5. CASE Index(c)
    BY <1>5, <1>u, SourcedRecords, SourcesFrame DEF Index, Return
  <1>6. CASE DeleteSigchain(c)
    <2>1. Sourced([call[c] EXCEPT !.pc = "index"], src)
      BY SourcesGoto
    <2>2. \A b \in Calls : call'[b] = IF b = c THEN [call[c] EXCEPT !.pc = "index"]
                                      ELSE call[b]
      BY <1>6 DEF DeleteSigchain, Goto, TypeInv
    <2>3. \A d \in Devices : local'[d] \subseteq local[d]
      BY <1>6 DEF DeleteSigchain, TypeInv
    <2> QED BY <1>u, <2>1, <2>2, <2>3 DEF Sources, NeverAhead
  <1>7. CASE Save(c)
    <2>1. PICK st \in call[c].todo :
            /\ local' = [local EXCEPT ![Home[c]] = Put(@, st)]
            /\ \/ call' = [call EXCEPT ![c].todo = @ \ {st}]
               \/ Return(c)
               \/ call' = [call EXCEPT ![c] = [Idle EXCEPT !.pc = "index", !.op = call[c].op]]
      BY <1>7 DEF Save
    <2>2. call[c].pc = "save" /\ call[c].todo \subseteq src
      BY <1>7, <1>s DEF Save, Sourced
    <2>3. Sourced([call[c] EXCEPT !.todo = @ \ {st}], src)
      BY <1>f, <2>2 DEF Sourced
    <2>4. \A b \in Calls : b # c => call'[b] = call[b]
      BY <2>1 DEF Return, TypeInv
    <2>5. Sourced(call'[c], src)
      <3>1. \/ call'[c] = [call[c] EXCEPT !.todo = @ \ {st}]
            \/ call'[c] = Idle
            \/ call'[c] = [Idle EXCEPT !.pc = "index", !.op = call[c].op]
        BY <2>1 DEF Return, TypeInv
      <3>2. /\ Sourced(Idle, src)
            /\ Sourced([Idle EXCEPT !.pc = "index", !.op = call[c].op], src)
        BY SourcedRecords
      <3> QED BY <3>1, <3>2, <2>3, Zenon
    <2>6. \A d \in Devices : local'[d] \subseteq local[d] \cup {st}
      BY <2>1 DEF Put, TypeInv
    <2> QED
      BY <1>u, <2>2, <2>4, <2>5, <2>6 DEF Sources, NeverAhead
  <1> QED
    BY <1>1, <1>2, <1>3, <1>4, <1>5, <1>6, <1>7 DEF CallStep

\* The answer to a PUT moves its statement from "sending" to "stored".
LEMMA SourcesReply ==
    ASSUME TypeInv, PastCreate, Waiters, Sources, NeverAhead, [Next]_vars,
           NEW h \in Handlers, Reply(h)
    PROVE  (Sources /\ NeverAhead)'
  <1> USE DEF serverVars, deviceVars, history
  <1> DEFINE c == handler[h].from
             st == handler[h].st
             src == server \cup drafts
  <1>1. server' = server /\ drafts' = drafts /\ local' = local
    BY DEF Reply
  <1>2. CASE UNCHANGED call
    BY <1>1, <1>2, SourcesEnd
  <1>3. CASE c # NoCall
    <2>1. c \in Calls
      BY <1>3, RecordFields
    <2>2. CASE handler[h].pc # "ok"
      <3>1. call' = [call EXCEPT ![c] = Idle]
        BY <1>3, <2>2 DEF Reply, Return
      <3>2. Sourced(Idle, src)
        BY SourcedRecords
      <3> QED BY <1>1, <2>1, <3>1, <3>2, SourcesFrame
    <2>3. CASE handler[h].pc = "ok"
      <3>1. st \in src /\ call[c].pc = "wait" /\ call[c].st = st
        BY <2>1, <2>3 DEF PastCreate, Waiters
      <3>2. call[c].todo \subseteq src
        BY <2>1, <3>1 DEF Sources, Sourced
      <3>3. Sourced(PutNext(call[c].todo \ {st}), src)
        BY <3>2, SourcedRecords
      <3>4. Sourced([call[c] EXCEPT !.pc = "save"], src)
        <4>1. [call[c] EXCEPT !.pc = "save"].pc = "save"
              /\ [call[c] EXCEPT !.pc = "save"].todo = call[c].todo
          BY <2>1, RecordFields DEF CallRecord
        <4> QED BY <3>2, <4>1 DEF Sourced
      <3>5. \/ call' = [call EXCEPT ![c] = PutNext(call[c].todo \ {st})]
            \/ call' = [call EXCEPT ![c] = [call[c] EXCEPT !.pc = "save"]]
        BY <1>3, <2>1, <2>3 DEF Reply, TypeInv
      <3> QED BY <1>1, <2>1, <3>3, <3>4, <3>5, SourcesFrame
    <2> QED BY <2>2, <2>3
  <1> QED BY <1>2, <1>3 DEF Reply

LEMMA SourcesStep ==
    ASSUME TypeInv, PastCreate, Waiters, Sources, NeverAhead, [Next]_vars
    PROVE  (Sources /\ NeverAhead)'
  <1> USE DEF serverVars, deviceVars, history
  <1>1. ASSUME NEW c \in Calls, GiveUp(c) PROVE (Sources /\ NeverAhead)'
    BY <1>1, SourcesEnd DEF GiveUp, Return, TypeInv
  <1>2. ASSUME NEW h \in Handlers, CheckExists(h) \/ Verify(h) \/ Create(h) \/ CreateTask(h)
                                   \/ HandlerFails(h) \/ CreateRetried(h)
        PROVE  (Sources /\ NeverAhead)'
    <2>1. call' = call /\ local' = local
      BY <1>2 DEF CheckExists, Verify, Create, CreateTask, HandlerFails, CreateRetried
    <2> QED BY <2>1, SourcesEnd
  <1>3. ASSUME TaskCheck \/ \E d \in Devices : Crash(d) PROVE (Sources /\ NeverAhead)'
    <2>1. /\ local' = local
          /\ \A b \in Calls : call'[b] \in {call[b], Idle}
      BY <1>3 DEF TaskCheck, Crash
    <2> QED BY <2>1, SourcesEnd
  <1>4. CASE UNCHANGED vars
    BY <1>4, SourcesEnd DEF vars
  <1> QED
    BY <1>1, <1>2, <1>3, <1>4, SourcesBegin, SourcesCall, SourcesReply DEF Next, HandlerStep

IInv == TypeInv /\ ServerInv /\ DeviceInv

LEMMA IInvAlways == Spec => []IInv
  <1>1. Init => IInv
    BY TypeInit, ServerInvInit, DeviceInvInit DEF IInv
  <1>2. IInv /\ [Next]_vars => IInv'
    <2>1. IInv /\ [Next]_vars => TypeInv' /\ ServerInv'
      BY TypeStep, ServerInvStep DEF IInv
    <2>2. IInv /\ [Next]_vars => DeviceInv'
      BY WaitersStep, SourcesStep DEF IInv, DeviceInv, ServerInv
    <2> QED BY <2>1, <2>2 DEF IInv
  <1> QED BY <1>1, <1>2, PTL DEF Spec

\* Whatever fails, times out or crashes, a copy holds nothing the server has
\* not accepted but drafts.
THEOREM NeverAheadCorrect == Spec => []NeverAhead
  BY IInvAlways, PTL DEF IInv, DeviceInv

-----------------------------------------------------------------------------
(* Part 4: without Local statements the service implements SigchainLog.    *)

LEMMA NoDraftsStep ==
    ASSUME Local = {FALSE}, drafts = {}, [Next]_vars
    PROVE  drafts' = {}
  <1> USE DEF history
  <1>1. ASSUME NEW c \in Calls, Begin(c) \/ CallStep(c) \/ GiveUp(c)
        PROVE  drafts' = {}
    <2>1. ASSUME NEW loc \in Local, NEW op, NEW kind, NEW revoke,
                 Sign(c, op, kind, revoke, loc)
          PROVE  drafts' = {}
      BY <2>1 DEF Sign
    <2>2. CASE StatementCreate(c) \/ UserAdd(c) \/ StatementRevoke(c)
      BY <2>1, <2>2 DEF StatementCreate, UserAdd, StatementRevoke
    <2>3. CASE Push(c) \/ Pull(c) \/ KeyImport(c) \/ KeyRemove(c)
      BY <2>3 DEF Push, Pull, KeyImport, KeyRemove
    <2>4. CASE CallStep(c)
      BY <2>4 DEF CallStep, Compare, ImportID, Get, DeleteSigchain, SendPut, Save, Index
    <2> QED BY <1>1, <2>2, <2>3, <2>4 DEF Begin, GiveUp
  <1>2. ASSUME NEW h \in Handlers, HandlerStep(h) \/ HandlerFails(h) \/ CreateRetried(h)
        PROVE  drafts' = drafts
    BY <1>2 DEF HandlerStep, CheckExists, Verify, Create, CreateTask, Reply, HandlerFails,
                CreateRetried
  <1>3. ASSUME TaskCheck \/ \E d \in Devices : Crash(d) PROVE drafts' = drafts
    BY <1>3 DEF TaskCheck, Crash
  <1>4. CASE UNCHANGED vars
    BY <1>4 DEF vars
  <1> QED
    BY <1>1, <1>2, <1>3, <1>4 DEF Next

\* What a step does to the copies.
LEMMA CopyMove ==
    ASSUME [Next]_vars
    PROVE  \/ local' = local
           \/ /\ server' = server
              /\ \E c \in Calls :
                    \/ call[c].pc = "delete" /\ local' = [local EXCEPT ![Home[c]] = {}]
                    \/ \E st \in call[c].todo :
                          /\ call[c].pc = "save" /\ IsFirst(st, call[c].todo)
                          /\ local' = [local EXCEPT ![Home[c]] = Put(@, st)]
  <1> USE DEF serverVars, deviceVars
  <1>1. ASSUME NEW c \in Calls, Begin(c) \/ GiveUp(c)
        PROVE  local' = local
    BY <1>1 DEF Begin, StatementCreate, UserAdd, StatementRevoke, Sign, Push, Pull,
                KeyImport, KeyRemove, GiveUp
  <1>2. ASSUME NEW c \in Calls, Compare(c) \/ ImportID(c) \/ Get(c) \/ SendPut(c) \/ Index(c)
        PROVE  local' = local
    BY <1>2 DEF Compare, ImportID, Get, SendPut, Index
  <1>3. ASSUME NEW h \in Handlers, HandlerStep(h) \/ HandlerFails(h) \/ CreateRetried(h)
        PROVE  local' = local
    BY <1>3 DEF HandlerStep, CheckExists, Verify, Create, CreateTask, Reply, HandlerFails,
                CreateRetried
  <1>4. ASSUME TaskCheck \/ \E d \in Devices : Crash(d) PROVE local' = local
    BY <1>4 DEF TaskCheck, Crash
  <1>5. ASSUME NEW c \in Calls, DeleteSigchain(c)
        PROVE  /\ server' = server /\ call[c].pc = "delete"
               /\ local' = [local EXCEPT ![Home[c]] = {}]
    BY <1>5 DEF DeleteSigchain
  <1>6. ASSUME NEW c \in Calls, Save(c)
        PROVE  /\ server' = server
               /\ \E st \in call[c].todo :
                     /\ call[c].pc = "save" /\ IsFirst(st, call[c].todo)
                     /\ local' = [local EXCEPT ![Home[c]] = Put(@, st)]
    BY <1>6 DEF Save
  <1>7. CASE UNCHANGED vars
    BY <1>7 DEF vars
  <1> QED
    BY <1>1, <1>2, <1>3, <1>4, <1>5, <1>6, <1>7 DEF Next, CallStep

LEMMA LogStep ==
    ASSUME IInv, drafts = {}, [Next]_vars
    PROVE  [Log!Next]_(Log!vars)
  <1> USE DEF IInv, ServerInv, DeviceInv
  <1>1. server \subseteq Statement
    BY RecordFields DEF TypeInv
  <1>2. ASSUME NEW h \in Handlers, handler[h].pc = "create",
               ~Exists(server, handler[h].st),
               server' = server \cup {handler[h].st}
        PROVE  Log!Next
    <2> DEFINE st == handler[h].st
    <2>1. st \in Statement /\ st.seq <= Limit /\ Follows(st, server)
      BY <1>2, CreateAppends
    <2>2. Log!Extends(st)
      BY <2>1 DEF Follows, IsLast, Log!Extends
    <2>3. local' = local
      BY <1>2, CopyMove DEF Exists
    <2>4. Log!Append(st)
      BY <1>2, <2>1, <2>2, <2>3 DEF Log!Append
    <2> QED BY <2>1, <2>4 DEF Log!Next
  <1>3. ASSUME server' = server, NEW c \in Calls,
               local' = [local EXCEPT ![Home[c]] = {}]
        PROVE  Log!Next
    BY <1>3, RecordFields DEF Log!Next, Log!Forget
  <1>4. ASSUME server' = server, NEW c \in Calls, NEW st \in call[c].todo,
               call[c].pc = "save", local' = [local EXCEPT ![Home[c]] = Put(@, st)]
        PROVE  Log!Next
    <2>1. Home[c] \in Devices
      BY RecordFields
    <2>2. st \in server
      BY <1>4 DEF Sources, Sourced
    <2>3. local[Home[c]] \subseteq server
      BY <2>1 DEF NeverAhead
    <2>4. Put(local[Home[c]], st) = local[Home[c]] \cup {st}
      BY <2>2, <2>3 DEF Put, ServerChain, OnePerSeq
    <2>5. Log!Fetch(Home[c], st)
      BY <1>4, <2>4 DEF Log!Fetch
    <2> QED BY <2>1, <2>2, <2>5 DEF Log!Next
  <1>5. CASE server' = server /\ local' = local
    BY <1>5 DEF Log!vars
  <1>6. CASE server' # server
    BY <1>2, <1>6, ServerMove
  <1>7. CASE server' = server /\ local' # local
    BY <1>3, <1>4, <1>7, CopyMove
  <1> QED BY <1>5, <1>6, <1>7

\* When nobody passes the Local flag, the server with its devices is the
\* append-only log with copies of SigchainLog.
THEOREM ImplementsLogCorrect ==
    ASSUME Local = {FALSE}
    PROVE  Spec => ImplementsLog
  <1>1. Init => Log!Init /\ drafts = {}
    BY DEF Init, Log!Init
  <1>2. IInv /\ drafts = {} /\ [Next]_vars => [Log!Next]_(Log!vars)
    BY LogStep
  <1>3. drafts = {} /\ [Next]_vars => (drafts = {})'
    BY NoDraftsStep
  <1> QED
    BY <1>1, <1>2, <1>3, IInvAlways, PTL DEF Spec, ImplementsLog, Log!Spec

-----------------------------------------------------------------------------
(* Part 5: users.  A device checks its own copy, which may be far behind   *)
(* the server's chain.  But a copy that loads is a beginning of the chain, *)
(* so a statement on top of it either names the last statement of the      *)
(* server, and then the check looked at all of the chain, or a place that  *)
(* is taken (Ready).                                                       *)

Before(s) == {p \in server : p.seq < s.seq}

Ready(s) ==
    /\ s.seq = 1 \/ \E p \in server : p.seq + 1 = s.seq
    /\ s.kind = "user" => Users(Before(s)) = {}

UserInv ==
    /\ \A s \in server : Ready(s)
    /\ \A c \in Calls : call[c].pc \in {"put", "wait"} =>
          \A s \in call[c].todo : Ready(s)
    /\ \A h \in Handlers : handler[h].pc # "free" => Ready(handler[h].st)

LEMMA Smallest ==
    ASSUME NEW T \in SUBSET Nat, T # {}
    PROVE  \E n \in T : \A m \in T : n <= m
  <1>0. \E n \in T : \A m \in T : ~ (<<m, n>> \in OpToRel(<, Nat))
    BY WFMin, NatLessThanWellFounded, ZenonT(30)
  <1>1. PICK n \in T : \A m \in T : ~ (<<m, n>> \in OpToRel(<, Nat))
    BY <1>0, Zenon
  <1>2. \A m \in T : <<m, n>> \in Nat \X Nat
    OBVIOUS
  <1>3. \A m \in T : ~ (m < n)
    BY <1>1, <1>2 DEF OpToRel
  <1> QED BY <1>3

\* A chain that loads has no gap.
LEMMA LinkedNoGap ==
    ASSUME NEW docs \in SUBSET Statement, Linked(docs), NEW s \in docs, NEW k \in 1..s.seq
    PROVE  \E t \in docs : t.seq = k
  <1> DEFINE T == {n \in Nat : n >= k /\ \E t \in docs : t.seq = n}
  <1>1. s.seq \in T
    BY StatementFields
  <1>2. PICK n \in T : \A m \in T : n <= m
    BY <1>1, Smallest
  <1>3. PICK t \in docs : t.seq = n
    OBVIOUS
  <1>4. CASE n = k
    BY <1>3, <1>4
  <1>5. CASE n # k
    <2>1. Follows(t, {p \in docs : p.seq < t.seq})
      BY DEF Linked
    <2>2. t.seq # 1
      BY <1>3, <1>5
    <2>3. PICK last \in docs : t.seq = last.seq + 1
      BY <2>1, <2>2 DEF Follows
    <2>4. last.seq \in T
      BY <1>3, <1>5, <2>3, StatementFields
    <2> QED BY <1>2, <1>3, <2>3, <2>4, StatementFields
  <1> QED BY <1>4, <1>5

\* A copy that loads is a beginning of the server's chain.
LEMMA CopyIsPrefix ==
    ASSUME TypeInv, ServerChain, NEW docs \in SUBSET server, Linked(docs),
           NEW s \in docs, NEW r \in server, r.seq <= s.seq
    PROVE  r \in docs
  <1>1. server \subseteq Statement
    BY RecordFields DEF TypeInv
  <1>2. r.seq \in 1..s.seq
    BY <1>1, StatementFields
  <1>3. PICK t \in docs : t.seq = r.seq
    BY <1>1, <1>2, LinkedNoGap
  <1> QED BY <1>3 DEF ServerChain, OnePerSeq

\* What a device signs on top of its copy has just that copy before it.
LEMMA SignAbove ==
    ASSUME TypeInv, ServerChain, NEW docs \in SUBSET server, Linked(docs),
           NEW kind, NEW revoke, NEW st \in NewStatements(docs, kind, revoke)
    PROVE  /\ st.kind = kind
           /\ st.seq = 1 \/ \E p \in server : p.seq + 1 = st.seq
           /\ Before(st) = docs
  <1>1. server \subseteq Statement
    BY RecordFields DEF TypeInv
  <1>2. CASE docs = {}
    <2>1. st.seq = 1 /\ st.kind = kind
      BY <1>2 DEF NewStatements, Unlinked
    <2>2. Before(st) = {}
      BY <2>1, <1>1, StatementFields DEF Before
    <2> QED BY <2>1, <2>2, <1>2
  <1>3. CASE docs # {}
    <2>1. PICK last \in docs :
            /\ IsLast(last, docs)
            /\ st = [Unlinked(kind, revoke) EXCEPT !.seq = last.seq + 1, !.prev = last.id]
      <3>1. st \in {[Unlinked(kind, revoke) EXCEPT !.seq = last.seq + 1, !.prev = last.id] :
                     last \in {s \in docs : IsLast(s, docs)}}
        BY <1>3, Zenon DEF NewStatements
      <3> QED BY <3>1, Zenon
    <2>2. st.seq = last.seq + 1 /\ st.kind = kind
      BY <2>1 DEF Unlinked
    <2>3. Before(st) \subseteq docs
      <3>1. SUFFICES ASSUME NEW r \in server, r.seq < st.seq PROVE r \in docs
        BY DEF Before
      <3>2. r.seq <= last.seq
        BY <1>1, <2>2, <3>1, StatementFields
      <3> QED BY <3>2, CopyIsPrefix
    <2>4. docs \subseteq Before(st)
      BY <1>1, <2>1, <2>2, StatementFields DEF Before, IsLast
    <2> QED BY <2>2, <2>3, <2>4
  <1> QED BY <1>2, <1>3

\* What is ready stays so: the chain grows behind it.
LEMMA ReadyStays ==
    ASSUME TypeInv, ServerInv, [Next]_vars, NEW s \in Statement, Ready(s)
    PROVE  Ready(s)'
  <1>1. server \subseteq Statement
    BY RecordFields DEF TypeInv
  <1>2. CASE server' = server
    BY <1>2 DEF Ready, Before
  <1>3. ASSUME NEW h \in Handlers, handler[h].pc = "create",
               ~Exists(server, handler[h].st),
               server' = server \cup {handler[h].st}
        PROVE  Ready(s)'
    <2> DEFINE st == handler[h].st
    <2>1. st \in Statement /\ \A t \in server : t.seq < st.seq
      BY <1>3, CreateAppends DEF ServerInv
    <2>2. ~(st.seq < s.seq)
      BY <1>1, <2>1, StatementFields DEF Ready
    <2>3. Before(s)' = Before(s)
      BY <1>3, <2>2 DEF Before
    <2> QED BY <1>3, <2>3 DEF Ready
  <1> QED BY <1>2, <1>3, ServerMove

LEMMA UserInvInit == Init => UserInv
  BY EmptyRecords DEF Init, UserInv

\* Where the statements a call sends come from.
SendMove(b) ==
    call'[b].pc \in {"put", "wait"} =>
       \/ call[b].pc \in {"put", "wait"} /\ call'[b].todo \subseteq call[b].todo
       \/ call'[b].todo \subseteq server
       \/ \E kind, revoke : \E st \in NewStatements(local[Home[b]], kind, revoke) :
             /\ Linked(local[Home[b]])
             /\ kind = "user" => Users(local[Home[b]]) = {}
             /\ call'[b].todo = local[Home[b]] \cup {st}

LEMMA SendMoves ==
    ASSUME IInv, drafts = {}, [Next]_vars, NEW b \in Calls
    PROVE  SendMove(b)
  <1> USE DEF SendMove, serverVars, deviceVars, history
  <1>f. DOMAIN call[b] = {"pc", "op", "st", "todo"} /\ call \in [Calls -> CallRecord]
    BY RecordFields DEF IInv, TypeInv, CallRecord
  <1>e. Idle.pc = "idle"
    BY EmptyRecords
  <1>p. \A docs : PutNext(docs).todo = docs
    BY DEF PutNext, Idle
  <1>0. CASE call'[b] = call[b]
    BY <1>0
  <1>1. ASSUME NEW op, NEW kind, NEW revoke, NEW loc, Sign(b, op, kind, revoke, loc),
               kind = "user" => Users(local[Home[b]]) = {}
        PROVE  SendMove(b)
    <2>1. PICK st \in NewStatements(local[Home[b]], kind, revoke) :
             call' = [call EXCEPT ![b] =
                           [pc |-> IF loc THEN "save" ELSE "put", op |-> op,
                            st |-> st, todo |-> local[Home[b]] \cup {st}]]
      BY <1>1 DEF Sign
    <2>2. Linked(local[Home[b]])
      BY <1>1 DEF Sign
    <2>3. call'[b].todo = local[Home[b]] \cup {st}
      BY <2>1, <1>f
    <2> QED BY <2>2, <2>3, <1>1
  <1>2. CASE StatementCreate(b) \/ UserAdd(b) \/ StatementRevoke(b)
    BY <1>2, <1>1 DEF StatementCreate, UserAdd, StatementRevoke
  <1>3. CASE Push(b) \/ Pull(b) \/ KeyImport(b) \/ KeyRemove(b)
    <2>1. \/ call'[b] = [Idle EXCEPT !.pc = "compare", !.op = "push", !.todo = local[Home[b]]]
          \/ call'[b] = [Idle EXCEPT !.pc = "importID", !.op = "pull"]
          \/ call'[b] = [Idle EXCEPT !.pc = "get", !.op = "import"]
          \/ call'[b] = [Idle EXCEPT !.pc = "delete", !.op = "remove"]
      BY <1>3, <1>f DEF Push, Pull, KeyImport, KeyRemove
    <2>2. call'[b].pc \in {"compare", "importID", "get", "delete"}
      BY <2>1 DEF Idle
    <2> QED BY <2>2
  <1>4. CASE Compare(b)
    <2>1. \/ call'[b] = Idle
          \/ call'[b] = PutNext({s \in call[b].todo : ~Exists(server, s)})
      BY <1>4, <1>f DEF Compare, Return
    <2>2. call[b].todo \subseteq server
      BY <1>4 DEF Compare, IInv, DeviceInv, Sources, Sourced
    <2> QED BY <2>1, <2>2, <1>e, <1>p
  <1>5. CASE SendPut(b)
    <2>1. call[b].pc = "put" /\ call'[b].todo = call[b].todo
      BY <1>5, <1>f DEF SendPut
    <2> QED BY <2>1
  <1>6. CASE ImportID(b) \/ Get(b) \/ DeleteSigchain(b) \/ Save(b) \/ Index(b)
    <2>1. call'[b].pc \notin {"put", "wait"}
      <3>1. CASE ImportID(b) \/ DeleteSigchain(b)
        <4>1. \E pc \in {"get", "index"} : Goto(b, pc)
          BY <3>1 DEF ImportID, DeleteSigchain
        <4>2. call'[b].pc \in {"get", "index"}
          BY <4>1, <1>f DEF Goto
        <4> QED BY <4>2
      <3>2. CASE Get(b)
        BY <3>2, <1>f, <1>e DEF Get, Return
      <3>3. CASE Save(b)
        <4>1. \/ call'[b] = [call[b] EXCEPT !.todo = call'[b].todo]
              \/ call'[b] = Idle
              \/ call'[b] = [Idle EXCEPT !.pc = "index", !.op = call[b].op]
          BY <3>3, <1>f DEF Save, Return
        <4>2. call[b].pc = "save"
          BY <3>3 DEF Save
        <4>3. [Idle EXCEPT !.pc = "index", !.op = call[b].op].pc = "index"
          BY DEF Idle
        <4>4. [call[b] EXCEPT !.todo = call'[b].todo].pc = "save"
          BY <4>2, <1>f
        <4> QED BY <4>1, <4>3, <4>4, <1>e
      <3>4. CASE Index(b)
        BY <3>4, <1>f, <1>e DEF Index, Return
      <3> QED BY <3>1, <3>2, <3>3, <3>4, <1>6
    <2> QED BY <2>1
  <1>7. ASSUME NEW h \in Handlers, Reply(h), handler[h].from = b PROVE SendMove(b)
    <2>1. b # NoCall
      OBVIOUS
    <2>2. CASE handler[h].pc # "ok"
      <3>1. call'[b] = Idle
        BY <1>7, <2>1, <2>2, <1>f DEF Reply, Return
      <3> QED BY <3>1, <1>e
    <2>3. CASE handler[h].pc = "ok"
      <3>1. \/ call'[b] = PutNext(call[b].todo \ {handler[h].st})
            \/ call'[b] = [call[b] EXCEPT !.pc = "save"]
        BY <1>7, <2>1, <2>3, <1>f DEF Reply
      <3>2. call[b].pc = "wait"
        BY <1>7 DEF IInv, DeviceInv, Waiters
      <3>3. CASE call'[b] = PutNext(call[b].todo \ {handler[h].st})
        BY <3>2, <3>3, <1>p
      <3>4. CASE call'[b] = [call[b] EXCEPT !.pc = "save"]
        <4>1. call'[b].pc = "save"
          BY <3>4, <1>f
        <4> QED BY <4>1
      <3> QED BY <3>1, <3>3, <3>4
    <2> QED BY <2>2, <2>3
  <1>8. ASSUME NEW h \in Handlers, Reply(h), handler[h].from # b PROVE call'[b] = call[b]
    BY <1>8, <1>f DEF Reply, Return
  <1>9. ASSUME NEW h \in Handlers, CheckExists(h) \/ Verify(h) \/ Create(h) \/ CreateTask(h)
                                   \/ HandlerFails(h) \/ CreateRetried(h)
        PROVE  call' = call
    BY <1>9 DEF CheckExists, Verify, Create, CreateTask, HandlerFails, CreateRetried
  <1>10. ASSUME GiveUp(b) \/ \E d \in Devices : Crash(d) PROVE call'[b] \in {call[b], Idle}
    BY <1>10, <1>f DEF GiveUp, Return, Crash
  <1>11. CASE TaskCheck \/ UNCHANGED vars
    BY <1>11 DEF TaskCheck, vars
  <1>12. ASSUME NEW c \in Calls, c # b, Begin(c) \/ CallStep(c) \/ GiveUp(c)
         PROVE  call'[b] = call[b]
    <2>1. CASE Begin(c)
      BY <1>12, <2>1, <1>f DEF Begin, StatementCreate, UserAdd, StatementRevoke, Sign, Push,
                    Pull, KeyImport, KeyRemove
    <2>2. CASE Compare(c) \/ Save(c) \/ Index(c) \/ SendPut(c) \/ GiveUp(c)
      BY <1>12, <2>2, <1>f DEF Compare, Save, Index, SendPut, GiveUp, Return
    <2>3. CASE ImportID(c) \/ DeleteSigchain(c) \/ Get(c)
      BY <1>12, <2>3, <1>f DEF ImportID, DeleteSigchain, Get, Return, Goto
    <2> QED BY <1>12, <2>1, <2>2, <2>3 DEF CallStep
  <1>13. CASE call'[b] \in {call[b], Idle}
    BY <1>13, <1>e
  <1>14. CASE Begin(b) \/ CallStep(b) \/ GiveUp(b)
    BY <1>14, <1>2, <1>3, <1>4, <1>5, <1>6, <1>10, <1>13 DEF Begin, CallStep
  <1> QED
    BY <1>0, <1>7, <1>8, <1>9, <1>10, <1>11, <1>12, <1>13, <1>14 DEF Next, HandlerStep

\* A request carries a statement of the call that sent it.
LEMMA RequestMoves ==
    ASSUME TypeInv, [Next]_vars, NEW h \in Handlers, handler'[h].pc # "free"
    PROVE  \/ handler[h].pc # "free" /\ handler'[h].st = handler[h].st
           \/ \E c \in Calls : call[c].pc = "put" /\ handler'[h].st \in call[c].todo
  <1> DEFINE Goal == \/ handler[h].pc # "free" /\ handler'[h].st = handler[h].st
                     \/ \E c \in Calls : call[c].pc = "put" /\ handler'[h].st \in call[c].todo
  <1>t. handler \in [Handlers -> HandlerRecord]
        /\ DOMAIN handler[h] = {"pc", "st", "from"}
        /\ \A pc : [handler[h] EXCEPT !.pc = pc].st = handler[h].st
    BY DEF TypeInv, HandlerRecord
  <1>0. CASE handler'[h] = handler[h]
    BY <1>0
  <1>d. ASSUME NEW cs, Detach(cs) PROVE Goal
    <2>1. handler'[h].pc = handler[h].pc /\ handler'[h].st = handler[h].st
      BY <1>d, <1>t DEF Detach
    <2> QED BY <2>1
  <1>1. ASSUME NEW c \in Calls, SendPut(c) PROVE Goal
    <2>1. PICK g \in Handlers, st \in call[c].todo :
            handler' = [handler EXCEPT ![g] = [pc |-> "exists", st |-> st, from |-> c]]
      BY <1>1 DEF SendPut
    <2>2. CASE g = h
      <3>1. handler'[h].st = st /\ call[c].pc = "put"
        BY <1>1, <2>1, <2>2, <1>t DEF SendPut
      <3> QED BY <3>1
    <2> QED BY <2>1, <2>2, <1>0, <1>t
  <1>2. ASSUME NEW c \in Calls, Begin(c) \/ (CallStep(c) /\ ~SendPut(c))
        PROVE  handler' = handler
    BY <1>2 DEF Begin, StatementCreate, UserAdd, StatementRevoke, Sign, Push, Pull,
                KeyImport, KeyRemove, CallStep, Compare, ImportID, Get, DeleteSigchain,
                Save, Index
  <1>3. ASSUME NEW g \in Handlers, g # h,
               HandlerStep(g) \/ CreateRetried(g) \/ HandlerFails(g)
        PROVE  handler'[h] = handler[h]
    BY <1>3, <1>t DEF HandlerStep, CheckExists, Verify, Create, CreateTask, Reply,
                      CreateRetried, HandlerFails, HandlerGoto
  <1>4. CASE Reply(h)
    BY <1>4, <1>t, EmptyRecords DEF Reply
  <1>5. CASE \/ CheckExists(h) \/ Verify(h) \/ Create(h) \/ CreateTask(h)
             \/ HandlerFails(h) \/ CreateRetried(h)
    <2>1. handler[h].pc # "free" /\ \E pc : HandlerGoto(h, pc)
      BY <1>5 DEF CheckExists, Verify, Create, CreateTask, HandlerFails, CreateRetried
    <2>2. handler'[h].st = handler[h].st
      BY <2>1, <1>t DEF HandlerGoto
    <2> QED BY <2>1, <2>2
  <1>6. CASE TaskCheck \/ UNCHANGED vars
    BY <1>6 DEF TaskCheck, vars
  <1>7. ASSUME NEW c \in Calls, GiveUp(c) PROVE Goal
    BY <1>7, <1>d DEF GiveUp
  <1>8. ASSUME NEW d \in Devices, Crash(d) PROVE Goal
    BY <1>8, <1>d DEF Crash
  <1> QED
    BY <1>0, <1>1, <1>2, <1>3, <1>4, <1>5, <1>6, <1>7, <1>8 DEF Next, HandlerStep

LEMMA UserInvStep ==
    ASSUME IInv, drafts = {}, UserInv, [Next]_vars
    PROVE  UserInv'
  <1> USE DEF IInv, ServerInv
  <1>1. server \subseteq Statement
    BY RecordFields DEF TypeInv
  <1>2. \A s \in server : Ready(s)'
    BY <1>1, ReadyStays DEF UserInv
  <1>3. ASSUME NEW s \in server' PROVE Ready(s)'
    <2>1. CASE s \in server
      BY <2>1, <1>2
    <2>2. CASE s \notin server
      <3>1. PICK h \in Handlers : handler[h].pc = "create" /\ s = handler[h].st
        BY <2>2, ServerMove
      <3>2. Ready(s) /\ s \in Statement
        BY <3>1, RecordFields DEF UserInv
      <3> QED BY <3>2, ReadyStays
    <2> QED BY <2>1, <2>2
  <1>4. ASSUME NEW c \in Calls, call'[c].pc \in {"put", "wait"}, NEW s \in call'[c].todo
        PROVE  Ready(s)'
    <2>1. CASE s \in server
      BY <2>1, <1>2
    <2>2. CASE call[c].pc \in {"put", "wait"} /\ s \in call[c].todo
      <3>1. Ready(s) /\ s \in Statement
        BY <2>2, RecordFields DEF UserInv
      <3> QED BY <3>1, ReadyStays
    <2>3. ASSUME NEW kind, NEW revoke, NEW st \in NewStatements(local[Home[c]], kind, revoke),
                 Linked(local[Home[c]]),
                 kind = "user" => Users(local[Home[c]]) = {},
                 call'[c].todo = local[Home[c]] \cup {st}
          PROVE  Ready(s)'
      <3>1. local[Home[c]] \in SUBSET server
        BY RecordFields DEF DeviceInv, NeverAhead
      <3>2. CASE s \in server
        BY <3>2, <1>2
      <3>3. CASE s = st
        <4>1. Ready(st)
          BY <2>3, <3>1, SignAbove DEF Ready
        <4>2. st \in Statement
          <5>1. TypeInv'
            BY TypeStep
          <5>2. call'[c].todo \in SUBSET Known' /\ Known' \subseteq Statement
            BY <5>1 DEF TypeInv, CallRecord, Known
          <5> QED BY <5>2, <3>3
        <4> QED BY <3>3, <4>1, <4>2, ReadyStays
      <3> QED BY <2>3, <3>1, <3>2, <3>3, <1>4
    <2>4. SendMove(c)
      BY SendMoves
    <2> QED BY <1>4, <2>1, <2>2, <2>3, <2>4 DEF SendMove
  <1>5. ASSUME NEW h \in Handlers, handler'[h].pc # "free" PROVE Ready(handler[h].st)'
    <2>1. handler'[h].st \in Statement /\ Ready(handler'[h].st)
      BY <1>5, RequestMoves, RecordFields DEF UserInv
    <2>2. \A s \in Statement : Ready(s) => Ready(s)'
      BY ReadyStays
    <2> QED BY <2>1, <2>2 DEF Ready, Before
  <1> QED BY <1>3, <1>4, <1>5 DEF UserInv

LEMMA UserInvAlways ==
    ASSUME Local = {FALSE}
    PROVE  Spec => [](IInv /\ drafts = {} /\ UserInv)
  <1>1. Init => drafts = {} /\ UserInv
    BY UserInvInit DEF Init
  <1>2. IInv /\ drafts = {} /\ UserInv /\ [Next]_vars => (drafts = {} /\ UserInv)'
    BY UserInvStep, NoDraftsStep
  <1> QED BY <1>1, <1>2, IInvAlways, PTL DEF Spec

\* When nobody passes the Local flag, the server's chain never links two
\* users, though only the devices check and each checks its own copy.
THEOREM OneUserCorrect ==
    ASSUME Local = {FALSE}
    PROVE  Spec => []OneUser
  <1>1. IInv /\ UserInv => OneUser
    <2>1. SUFFICES ASSUME IInv, UserInv PROVE OneUser
      OBVIOUS
    <2>2. server \subseteq Statement /\ OnePerSeq(server)
      BY <2>1, RecordFields DEF IInv, TypeInv, ServerInv, ServerChain
    <2>3. ASSUME NEW s \in Users(server), NEW t \in Users(server), s.seq < t.seq
          PROVE  FALSE
      <3>1. Users(Before(t)) = {}
        BY <2>1 DEF UserInv, Ready, Users
      <3>2. s \in Users(Before(t))
        BY <2>3 DEF Users, Before, Revoked
      <3> QED BY <3>1, <3>2
    <2>4. \A s \in Users(server) : s \in server /\ s.seq \in Nat
      BY <2>2, StatementFields DEF Users
    <2>5. \A s, t \in Users(server) : s.seq = t.seq
      BY <2>3, <2>4
    <2> QED BY <2>2, <2>4, <2>5 DEF OneUser, OnePerSeq
  <1> QED BY <1>1, UserInvAlways, PTL

-----------------------------------------------------------------------------
(* Part 6: the devices' copies load.  Two calls on a device save one       *)
(* document at a time and in any order of their steps; but what a call     *)
(* still has to save together with what the device holds is complete       *)
(* below every statement it will save (CopyInv).  KeyRemove is left out:   *)
(* it deletes a copy while another call saves the rest of one.             *)

Below(docs, more) == \A s \in docs, r \in server : r.seq < s.seq => r \in more

Saves(r) == r.pc = "save" \/ (r.pc \in {"put", "wait"} /\ r.op # "push")

CopyInv ==
    /\ \A d \in Devices : Below(local[d], local[d])
    /\ \A c \in Calls : Saves(call[c]) =>
          Below(call[c].todo, call[c].todo \cup local[Home[c]])
    /\ \A c \in Calls : call[c].pc # "delete"

LEMMA CopyInvInit == Init => CopyInv
  BY EmptyRecords DEF Init, CopyInv, Below

\* The server's chain grows above all that is saved or will be.
LEMMA BelowStays ==
    ASSUME TypeInv, ServerInv, [Next]_vars,
           NEW docs \in SUBSET Statement, NEW more,
           \A s \in docs : Ready(s), Below(docs, more)
    PROVE  Below(docs, more)'
  <1>1. server \subseteq Statement
    BY RecordFields DEF TypeInv
  <1>2. CASE server' = server
    BY <1>2 DEF Below
  <1>3. ASSUME NEW h \in Handlers, handler[h].pc = "create",
               ~Exists(server, handler[h].st),
               server' = server \cup {handler[h].st}
        PROVE  Below(docs, more)'
    <2> DEFINE st == handler[h].st
    <2>1. st \in Statement /\ \A t \in server : t.seq < st.seq
      BY <1>3, CreateAppends DEF ServerInv
    <2>2. ASSUME NEW s \in docs PROVE ~(st.seq < s.seq)
      BY <1>1, <2>1, StatementFields DEF Ready
    <2> QED BY <1>3, <2>2 DEF Below
  <1> QED BY <1>2, <1>3, ServerMove

\* Where the statements a call will save come from.
SaveMove(b) ==
    Saves(call'[b]) =>
       \/ Saves(call[b]) /\ call'[b].todo = call[b].todo
       \/ call'[b].todo = server
       \/ \E kind, revoke : \E st \in NewStatements(local[Home[b]], kind, revoke) :
             /\ Linked(local[Home[b]]) /\ server' = server /\ local' = local
             /\ call'[b].todo = local[Home[b]] \cup {st}
       \/ \E st \in call[b].todo :
             /\ call[b].pc = "save" /\ server' = server
             /\ call'[b].todo = call[b].todo \ {st}
             /\ local' = [local EXCEPT ![Home[b]] = Put(@, st)]

LEMMA SaveMoves ==
    ASSUME IInv, CopyInv, "remove" \notin Ops, [Next]_vars, NEW b \in Calls
    PROVE  SaveMove(b) /\ call'[b].pc # "delete"
  <1> DEFINE Goal == SaveMove(b) /\ call'[b].pc # "delete"
  <1> USE DEF serverVars, deviceVars, history
  <1>f. DOMAIN call[b] = {"pc", "op", "st", "todo"} /\ call \in [Calls -> CallRecord]
    BY RecordFields DEF IInv, TypeInv, CallRecord
  <1>e. Idle.pc = "idle"
    BY EmptyRecords
  <1>p. \A docs : PutNext(docs).op = "push" /\ PutNext(docs).pc \in {"importID", "put"}
    BY DEF PutNext, Idle
  <1>n. call[b].pc # "delete"
    BY DEF CopyInv
  <1>r. ASSUME NEW pc PROVE /\ [call[b] EXCEPT !.pc = pc].pc = pc
                            /\ [call[b] EXCEPT !.pc = pc].op = call[b].op
                            /\ [call[b] EXCEPT !.pc = pc].todo = call[b].todo
    BY <1>f
  <1>0. CASE call'[b] \in {call[b], Idle}
    BY <1>0, <1>e, <1>n DEF SaveMove, Saves
  <1>x. ASSUME call'[b].pc \in {"idle", "compare", "importID", "get", "index"} PROVE Goal
    BY <1>x DEF SaveMove, Saves
  <1>1. ASSUME NEW op, NEW kind, NEW revoke, NEW loc, Sign(b, op, kind, revoke, loc)
        PROVE  Goal
    <2>1. PICK st \in NewStatements(local[Home[b]], kind, revoke) :
             call' = [call EXCEPT ![b] =
                           [pc |-> IF loc THEN "save" ELSE "put", op |-> op,
                            st |-> st, todo |-> local[Home[b]] \cup {st}]]
      BY <1>1 DEF Sign
    <2>2. Linked(local[Home[b]]) /\ server' = server /\ local' = local
      BY <1>1 DEF Sign
    <2>3. call'[b].todo = local[Home[b]] \cup {st} /\ call'[b].pc \in {"save", "put"}
      BY <2>1, <1>f
    <2> QED BY <2>2, <2>3 DEF SaveMove
  <1>2. CASE StatementCreate(b) \/ UserAdd(b) \/ StatementRevoke(b)
    BY <1>2, <1>1 DEF StatementCreate, UserAdd, StatementRevoke
  <1>3. CASE Push(b) \/ Pull(b) \/ KeyImport(b) \/ KeyRemove(b)
    <2>1. \/ call'[b] = [Idle EXCEPT !.pc = "compare", !.op = "push", !.todo = local[Home[b]]]
          \/ call'[b] = [Idle EXCEPT !.pc = "importID", !.op = "pull"]
          \/ call'[b] = [Idle EXCEPT !.pc = "get", !.op = "import"]
      BY <1>3, <1>f DEF Push, Pull, KeyImport, KeyRemove
    <2>2. call'[b].pc \in {"compare", "importID", "get"}
      BY <2>1 DEF Idle
    <2> QED BY <2>2, <1>x
  <1>4. CASE Compare(b)
    <2>1. \/ call'[b] = Idle
          \/ call'[b] = PutNext({s \in call[b].todo : ~Exists(server, s)})
      BY <1>4, <1>f DEF Compare, Return
    <2> QED BY <2>1, <1>0, <1>p DEF SaveMove, Saves
  <1>5. CASE SendPut(b)
    <2>1. call[b].pc = "put"
          /\ \E st : call' = [call EXCEPT ![b].pc = "wait", ![b].st = st]
      BY <1>5 DEF SendPut
    <2>2. call'[b].todo = call[b].todo /\ call'[b].op = call[b].op /\ call'[b].pc = "wait"
      BY <2>1, <1>f
    <2> QED BY <2>1, <2>2 DEF SaveMove, Saves
  <1>6. CASE ImportID(b) \/ DeleteSigchain(b)
    <2>1. \E pc \in {"get", "index"} : Goto(b, pc)
      BY <1>6 DEF ImportID, DeleteSigchain
    <2>2. call'[b].pc \in {"get", "index"}
      BY <2>1, <1>f DEF Goto
    <2> QED BY <2>2, <1>x
  <1>7. CASE Get(b)
    <2>1. \/ call'[b] = Idle
          \/ call'[b] = [call[b] EXCEPT !.pc = "save", !.todo = server]
      BY <1>7, <1>f DEF Get, Return
    <2>2. /\ [call[b] EXCEPT !.pc = "save", !.todo = server].pc = "save"
          /\ [call[b] EXCEPT !.pc = "save", !.todo = server].todo = server
      BY <1>f
    <2> QED BY <2>1, <2>2, <1>0 DEF SaveMove
  <1>8. CASE Save(b)
    <2>1. PICK st \in call[b].todo :
             /\ local' = [local EXCEPT ![Home[b]] = Put(@, st)]
             /\ \/ call'[b] = [call[b] EXCEPT !.todo = @ \ {st}]
                \/ call'[b] = Idle
                \/ call'[b] = [Idle EXCEPT !.pc = "index", !.op = call[b].op]
      BY <1>8, <1>f DEF Save, Return
    <2>2. call[b].pc = "save" /\ server' = server
      BY <1>8 DEF Save
    <2>3. [Idle EXCEPT !.pc = "index", !.op = call[b].op].pc = "index"
      BY DEF Idle
    <2>4. CASE call'[b] = [call[b] EXCEPT !.todo = @ \ {st}]
      <3>1. call'[b].todo = call[b].todo \ {st} /\ call'[b].pc = "save"
        BY <2>2, <2>4, <1>f
      <3> QED BY <2>1, <2>2, <3>1 DEF SaveMove
    <2> QED BY <2>1, <2>3, <2>4, <1>0, <1>x
  <1>9. CASE Index(b) \/ GiveUp(b) \/ \E d \in Devices : Crash(d)
    <2>1. call'[b] \in {call[b], Idle}
      BY <1>9, <1>f DEF Index, GiveUp, Return, Crash
    <2> QED BY <2>1, <1>0
  <1>10. ASSUME NEW h \in Handlers, Reply(h) PROVE Goal
    <2>1. CASE handler[h].from # b
      <3>1. call'[b] = call[b]
        BY <1>10, <2>1, <1>f DEF Reply, Return
      <3> QED BY <3>1, <1>0
    <2>2. CASE handler[h].from = b /\ handler[h].pc # "ok"
      <3>1. call'[b] = Idle
        BY <1>10, <2>2, <1>f DEF Reply, Return
      <3> QED BY <3>1, <1>0
    <2>3. CASE handler[h].from = b /\ handler[h].pc = "ok"
      <3>1. \/ call'[b] = PutNext(call[b].todo \ {handler[h].st})
            \/ call[b].op # "push" /\ call'[b] = [call[b] EXCEPT !.pc = "save"]
        BY <1>10, <2>3, <1>f DEF Reply
      <3>2. call[b].pc = "wait"
        BY <2>3 DEF IInv, DeviceInv, Waiters
      <3>3. CASE call'[b] = PutNext(call[b].todo \ {handler[h].st})
        BY <3>3, <1>p DEF SaveMove, Saves
      <3>4. CASE call[b].op # "push" /\ call'[b] = [call[b] EXCEPT !.pc = "save"]
        <4>1. call'[b].pc = "save" /\ call'[b].todo = call[b].todo
          BY <3>4, <1>r
        <4> QED BY <3>2, <3>4, <4>1 DEF SaveMove, Saves
      <3> QED BY <3>1, <3>3, <3>4
    <2> QED BY <2>1, <2>2, <2>3
  <1>11. ASSUME NEW h \in Handlers, CheckExists(h) \/ Verify(h) \/ Create(h) \/ CreateTask(h)
                                   \/ HandlerFails(h) \/ CreateRetried(h)
         PROVE  call' = call
    BY <1>11 DEF CheckExists, Verify, Create, CreateTask, HandlerFails, CreateRetried
  <1>12. ASSUME TaskCheck \/ UNCHANGED vars PROVE call' = call
    BY <1>12 DEF TaskCheck, vars
  <1>13. ASSUME NEW c \in Calls, c # b, Begin(c) \/ CallStep(c) \/ GiveUp(c)
         PROVE  call'[b] = call[b]
    <2>1. CASE Begin(c)
      BY <1>13, <2>1, <1>f DEF Begin, StatementCreate, UserAdd, StatementRevoke, Sign, Push,
                    Pull, KeyImport, KeyRemove
    <2>2. CASE Compare(c) \/ Save(c) \/ Index(c) \/ SendPut(c) \/ GiveUp(c)
      BY <1>13, <2>2, <1>f DEF Compare, Save, Index, SendPut, GiveUp, Return
    <2>3. CASE ImportID(c) \/ DeleteSigchain(c) \/ Get(c)
      BY <1>13, <2>3, <1>f DEF ImportID, DeleteSigchain, Get, Return, Goto
    <2> QED BY <1>13, <2>1, <2>2, <2>3 DEF CallStep
  <1>14. CASE Begin(b) \/ CallStep(b) \/ GiveUp(b)
    BY <1>14, <1>2, <1>3, <1>4, <1>5, <1>6, <1>7, <1>8, <1>9 DEF Begin, CallStep
  <1> QED
    BY <1>0, <1>9, <1>10, <1>11, <1>12, <1>13, <1>14 DEF Next, HandlerStep

LEMMA CopyInvStep ==
    ASSUME "remove" \notin Ops, IInv, drafts = {}, UserInv, CopyInv, [Next]_vars
    PROVE  CopyInv'
  <1> USE DEF IInv, ServerInv, DeviceInv
  <1>1. /\ server \in SUBSET Statement /\ OnePerSeq(server)
        /\ \A d \in Devices : local[d] \in SUBSET server
        /\ \A c \in Calls : Home[c] \in Devices /\ call[c].todo \in SUBSET Statement
    BY RecordFields DEF TypeInv, ServerChain, NeverAhead
  <1>2. \A s \in server : Ready(s)
    BY DEF UserInv
  <1>3. ASSUME NEW c \in Calls, NEW s \in call[c].todo, Saves(call[c]) PROVE Ready(s)
    <2>1. CASE call[c].pc = "save"
      <3>1. call[c].todo \subseteq server
        BY <2>1 DEF Sources, Sourced
      <3> QED BY <3>1, <1>2
    <2> QED BY <1>3, <2>1 DEF Saves, UserInv
  \* Copies only grow, by statements whose predecessors they hold.
  <1>4. ASSUME local' # local
        PROVE  \E c \in Calls : \E st \in call[c].todo :
                  /\ server' = server
                  /\ call[c].pc = "save" /\ IsFirst(st, call[c].todo) /\ st \in server
                  /\ local' = [local EXCEPT ![Home[c]] = @ \cup {st}]
    <2>0. PICK c \in Calls : \E st \in call[c].todo :
                  /\ server' = server
                  /\ call[c].pc = "save" /\ IsFirst(st, call[c].todo)
                  /\ local' = [local EXCEPT ![Home[c]] = Put(@, st)]
      BY <1>4, CopyMove DEF CopyInv
    <2>1. PICK st \in call[c].todo :
                  /\ server' = server
                  /\ call[c].pc = "save" /\ IsFirst(st, call[c].todo)
                  /\ local' = [local EXCEPT ![Home[c]] = Put(@, st)]
      BY <2>0
    <2>2. st \in server
      BY <2>1 DEF Sources, Sourced
    <2>3. Put(local[Home[c]], st) = local[Home[c]] \cup {st}
      BY <1>1, <2>2 DEF Put, OnePerSeq
    <2> QED BY <2>1, <2>2, <2>3
  <1>5. \A d \in Devices : local[d] \subseteq local'[d]
    <2>1. CASE local' = local
      BY <2>1
    <2>2. CASE local' # local
      BY <1>4, <2>2 DEF TypeInv
    <2> QED BY <2>1, <2>2
  <1>6. ASSUME NEW d \in Devices PROVE Below(local[d], local[d])'
    <2>1. CASE local' = local
      <3>1. \A docs \in SUBSET Statement :
               (\A s \in docs : Ready(s)) /\ Below(docs, docs) => Below(docs, docs)'
        BY BelowStays
      <3>2. Below(local[d], local[d]) /\ (\A s \in local[d] : Ready(s))
            /\ local[d] \in SUBSET Statement
        BY <1>1, <1>2 DEF CopyInv
      <3> QED BY <2>1, <3>1, <3>2 DEF Below
    <2>2. CASE local' # local
      <3>1. PICK c \in Calls : \E st \in call[c].todo :
                  /\ server' = server
                  /\ call[c].pc = "save" /\ IsFirst(st, call[c].todo) /\ st \in server
                  /\ local' = [local EXCEPT ![Home[c]] = @ \cup {st}]
        BY <1>4, <2>2
      <3>2. PICK st \in call[c].todo :
                  /\ IsFirst(st, call[c].todo) /\ st \in server
                  /\ local' = [local EXCEPT ![Home[c]] = @ \cup {st}]
        BY <3>1
      <3>3. CASE d # Home[c]
        <4>1. local'[d] = local[d]
          BY <3>2, <3>3 DEF TypeInv
        <4> QED BY <3>1, <4>1 DEF CopyInv, Below
      <3>4. CASE d = Home[c]
        <4>1. local'[d] = local[d] \cup {st}
          BY <3>2, <3>4 DEF TypeInv
        <4>2. ASSUME NEW r \in server, r.seq < st.seq PROVE r \in local[d]
          <5>1. r \in call[c].todo \cup local[d]
            BY <3>1, <3>4, <4>2 DEF CopyInv, Saves, Below
          <5>2. r \notin call[c].todo
            BY <1>1, <3>2, <4>2, StatementFields DEF IsFirst
          <5> QED BY <5>1, <5>2
        <4> QED BY <3>1, <4>1, <4>2 DEF CopyInv, Below
      <3> QED BY <3>3, <3>4
    <2> QED BY <2>1, <2>2
  <1>7. ASSUME NEW c \in Calls, Saves(call'[c])
        PROVE  Below(call[c].todo, call[c].todo \cup local[Home[c]])'
    <2> DEFINE d == Home[c]
    <2>0. \A docs \in SUBSET Statement, more \in SUBSET Statement :
             (\A s \in docs : Ready(s)) /\ Below(docs, more) => Below(docs, more)'
      BY BelowStays
    <2>1. CASE Saves(call[c]) /\ call'[c].todo = call[c].todo
      <3>1. Below(call[c].todo, call[c].todo \cup local[d])
            /\ (\A s \in call[c].todo : Ready(s))
            /\ call[c].todo \cup local[d] \in SUBSET Statement
        BY <1>1, <1>3, <2>1 DEF CopyInv
      <3>2. Below(call[c].todo, call[c].todo \cup local[d]) =>
            \A s \in call[c].todo, r \in server' : r.seq < s.seq =>
                r \in call[c].todo \cup local[d]
        BY <1>1, <2>0, <3>1 DEF Below
      <3> QED BY <1>1, <1>5, <2>1, <3>1, <3>2 DEF Below
    <2>2. CASE call'[c].todo = server
      <3>1. Below(server, server)
        BY DEF Below
      <3>2. \A s \in server, r \in server' : r.seq < s.seq => r \in server
        BY <1>1, <1>2, <2>0, <3>1 DEF Below
      <3> QED BY <2>2, <3>2 DEF Below
    <2>3. ASSUME NEW kind, NEW revoke, NEW st \in NewStatements(local[d], kind, revoke),
                 Linked(local[d]), server' = server, local' = local,
                 call'[c].todo = local[d] \cup {st}
          PROVE  Below(call[c].todo, call[c].todo \cup local[d])'
      <3>1. Before(st) = local[d]
        BY <1>1, <2>3, SignAbove
      <3>2. Below(local[d], local[d])
        BY <1>1 DEF CopyInv
      <3> QED BY <2>3, <3>1, <3>2 DEF Below, Before
    <2>4. ASSUME NEW st \in call[c].todo, call[c].pc = "save", server' = server,
                 call'[c].todo = call[c].todo \ {st},
                 local' = [local EXCEPT ![d] = Put(@, st)]
          PROVE  Below(call[c].todo, call[c].todo \cup local[d])'
      <3>1. st \in server
        BY <2>4 DEF Sources, Sourced
      <3>2. local'[d] = local[d] \cup {st}
        <4>1. Put(local[d], st) = local[d] \cup {st}
          BY <1>1, <3>1 DEF Put, OnePerSeq
        <4> QED BY <2>4, <4>1, <1>1 DEF TypeInv
      <3> QED BY <2>4, <3>2 DEF CopyInv, Saves, Below
    <2> QED BY <1>7, <2>1, <2>2, <2>3, <2>4, SaveMoves DEF SaveMove
  <1> QED
    BY <1>6, <1>7, SaveMoves DEF CopyInv

LEMMA CopyInvAlways ==
    ASSUME Local = {FALSE}, "remove" \notin Ops
    PROVE  Spec => [](IInv /\ drafts = {} /\ CopyInv)
  <1>1. Init => CopyInv
    BY CopyInvInit
  <1>2. IInv /\ drafts = {} /\ UserInv /\ CopyInv /\ [Next]_vars => CopyInv'
    BY CopyInvStep
  <1> QED BY <1>1, <1>2, UserInvAlways, PTL DEF Spec

\* When nobody passes the Local flag and nobody removes the key, every
\* device's copy loads at every moment: half way through the saves of its
\* calls, after a crash, after lost answers.
THEOREM LocalChainCorrect ==
    ASSUME Local = {FALSE}, "remove" \notin Ops
    PROVE  Spec => []LocalChain
  <1>1. IInv /\ drafts = {} /\ CopyInv => LocalChain
    <2>1. SUFFICES ASSUME IInv, drafts = {}, CopyInv,
                          NEW d \in Devices, NEW s \in local[d]
                   PROVE  Follows(s, {p \in local[d] : p.seq < s.seq})
      BY DEF LocalChain, Linked
    <2>2. local[d] \subseteq server /\ Linked(server)
      BY <2>1 DEF IInv, ServerInv, ServerChain, DeviceInv, NeverAhead
    <2>3. {p \in local[d] : p.seq < s.seq} = {p \in server : p.seq < s.seq}
      BY <2>1, <2>2 DEF CopyInv, Below
    <2> QED BY <2>2, <2>3 DEF Linked
  <1> QED BY <1>1, CopyInvAlways, PTL

=============================================================================
