-------------------------- MODULE UserCheck_proofs --------------------------
(***************************************************************************)
(* Proofs about the checks of users' proofs, for any number of calls,      *)
(* tasks and keys and any times of expiry.  A result may be old when it is *)
(* written, but its age is counted from the check on: what the index, and  *)
(* every result that is yet to be written, say a proof was seen last is    *)
(* never after the proof was in place last.                                *)
(***************************************************************************)
EXTENDS UserCheck, TLAPS

PCs == {"idle", "find", "get", "fetch", "save", "check", "write", "expired", "next"}
Ops == {"none", "name", "search", "id", "key", "all", "check", "task"}
Statuses == {"ok", "failed", "connection", "missing"}

\* What the index and the checks hold of a key.
Results == {r \in [status : Statuses, verified : Nat, checked : Nat] :
              r.status = "missing" => r = Missing}

ProcType == [pc : PCs, op : Ops, key : Keys \cup {None}, todo : Seq(Keys),
             then : {"none", "next", "get", "decide", "done"},
             chain : {"none", "linked", "revoked"}, result : Results, late : BOOLEAN,
             answer : {"none", "accepted", "unclaimed"}]

\* The proof was in place within that time, unless the age has stopped growing.
SeenSince(k, r) == r.verified < Old => seen[k] <= r.verified

\* What holds of a call, the loop or a task, wherever it is.
ProcOK(r) ==
  /\ r \in ProcType
  /\ r.pc \notin {"idle", "next"} => r.key \in Keys
  /\ r.then = "get" => r.op # "name"
  /\ r.pc \in {"fetch", "save", "check", "write"} \/ r.todo # <<>> => r.then # "none"
  /\ r.pc = "save" => /\ r.chain # "none"
                      /\ r.chain = "revoked" => chain[r.key] = "revoked"
  /\ r.pc = "check" => On("server") \/ local[r.key] # "none"
  /\ r.pc = "write" => /\ SeenSince(r.key, r.result)
                       /\ r.result.status = "ok" => seen[r.key] <= (IF r.late THEN 1 ELSE 0)
                       /\ r.result = Missing => chain[r.key] = "revoked"
  /\ r.pc = "get" /\ r.op = "name" => index[r.key] # Missing \/ chain[r.key] = "revoked"

KeysInv ==
  /\ world \in Worlds
  /\ seen \in [Keys -> Nat] /\ proof \in [Keys -> BOOLEAN]
  /\ chain \in [Keys -> {"linked", "revoked"}]
  /\ local \in [Keys -> {"none", "linked", "revoked"}]
  /\ index \in [Keys -> Results]
  /\ On("server") \/ tasks = {}
  /\ \A k \in Keys : /\ proof[k] => seen[k] = 0
                     /\ SeenSince(k, index[k])
                     /\ local[k] = "revoked" => chain[k] = "revoked"

UserInv == /\ KeysInv /\ DOMAIN proc = Procs
           /\ \A p \in Procs : ProcOK(proc[p])

-----------------------------------------------------------------------------
(* Ages. *)

LEMMA MaxOfTwo == ASSUME NEW a \in Nat, NEW b \in Nat
                  PROVE  Max({a, b}) \in Nat /\ Max({a, b}) >= a /\ Max({a, b}) >= b
<1>1. \E x \in {a, b} : \A y \in {a, b} : x >= y
  <2>1. a >= b \/ b >= a
    OBVIOUS
  <2> QED BY <2>1
<1>2. Max({a, b}) \in {a, b} /\ \A y \in {a, b} : Max({a, b}) >= y
  BY <1>1 DEF Max
<1> QED
  BY <1>2

LEMMA MinOfTwo == ASSUME NEW a \in Nat, NEW b \in Nat
                  PROVE  Min({a, b}) \in {a, b} /\ Min({a, b}) <= a /\ Min({a, b}) <= b
<1>1. \E x \in {a, b} : \A y \in {a, b} : x <= y
  <2>1. a <= b \/ b <= a
    OBVIOUS
  <2> QED BY <2>1
<1>2. Min({a, b}) \in {a, b} /\ \A y \in {a, b} : Min({a, b}) <= y
  BY <1>1 DEF Min
<1> QED
  BY <1>2

LEMMA OldFacts == /\ Old \in Nat /\ VerifyExpire \in Nat /\ VerifyExpire < Old
                  /\ Gone \in Nat /\ Gone = Old + 1
<1>1. VerifyExpire \in Nat /\ CheckExpire \in Nat
  BY ExpireAssumption
<1>2. /\ Max({VerifyExpire, CheckExpire}) \in Nat
      /\ Max({VerifyExpire, CheckExpire}) >= VerifyExpire
  BY <1>1, MaxOfTwo
<1> QED
  BY <1>1, <1>2 DEF Old, Gone

LEMMA OlderFacts ==
  ASSUME NEW age \in Nat, NEW most \in Nat
  PROVE  /\ Older(age, most) \in Nat /\ Older(age, most) <= age + 1
         /\ Older(age, most) <= most
         /\ Older(age, most) < most => Older(age, most) = age + 1
<1>1. age + 1 \in Nat
  OBVIOUS
<1>2. PICK o : o = Older(age, most)
  OBVIOUS
<1>3. o \in {age + 1, most} /\ o <= age + 1 /\ o <= most
  BY <1>1, <1>2, MinOfTwo DEF Older
<1> QED
  BY <1>2, <1>3

LEMMA MissingFacts == /\ Missing \in Results /\ Missing.status = "missing"
                      /\ Missing.verified = Old /\ Missing.checked = Old
BY OldFacts DEF Missing, Result, Results, Statuses

LEMMA ResultFacts ==
  ASSUME NEW status \in {"ok", "failed", "connection"}, NEW verified \in Nat,
         NEW checked \in Nat, NEW r, r = Result(status, verified, checked)
  PROVE  /\ r \in Results /\ r.status = status /\ r.verified = verified
         /\ r # Missing
<1>1. r \in [status : Statuses, verified : Nat, checked : Nat]
      /\ r.status = status /\ r.verified = verified
  BY DEF Result, Statuses
<1> QED
  BY <1>1, MissingFacts DEF Results

LEMMA AgedFacts ==
  ASSUME NEW r \in Results, NEW t, t = Aged(r)
  PROVE  /\ t \in Results /\ t.status = r.status /\ (t = Missing <=> r = Missing)
         /\ t.verified < Old => r.verified < Old /\ t.verified = r.verified + 1
<1>1. /\ r \in [status : Statuses, verified : Nat, checked : Nat]
      /\ r.status = "missing" => r = Missing
  BY DEF Results
<1>2. Old \in Nat /\ r.verified \in Nat /\ r.checked \in Nat
  BY <1>1, OldFacts
<1>3. PICK v : v = Older(r.verified, Old)
  OBVIOUS
<1>4. PICK c : c = Older(r.checked, Old)
  OBVIOUS
<1>5. v \in Nat /\ c \in Nat /\ v <= Old /\ c <= Old
      /\ (v < Old => v = r.verified + 1) /\ (c < Old => c = r.checked + 1)
      /\ v <= r.verified + 1
  BY <1>2, <1>3, <1>4, OlderFacts
<1>6. t = [r EXCEPT !.verified = v, !.checked = c]
  BY <1>3, <1>4 DEF Aged
<1>7. /\ t \in [status : Statuses, verified : Nat, checked : Nat]
      /\ t.status = r.status /\ t.verified = v /\ t.checked = c
  BY <1>1, <1>5, <1>6
<1>8. r = Missing => v = Old /\ c = Old
  BY <1>2, <1>5, MissingFacts
<1>9. r = Missing => t = Missing
  <2>1. ASSUME r = Missing PROVE t = [r EXCEPT !.verified = Old, !.checked = Old]
    BY <2>1, <1>6, <1>8
  <2>2. ASSUME r = Missing PROVE t = Missing
    <3>1. r.verified = Old /\ r.checked = Old
      BY <2>2, MissingFacts
    <3> QED BY <1>1, <2>1, <2>2, <3>1
  <2> QED BY <2>2
<1>10. t = Missing => r = Missing
  BY <1>1, <1>7, MissingFacts
<1>11. v < Old => r.verified < Old /\ v = r.verified + 1
  BY <1>2, <1>5
<1> QED
  BY <1>1, <1>7, <1>9, <1>10, <1>11 DEF Results

-----------------------------------------------------------------------------
(* One process takes a step. *)

LEMMA ProcFacts == ASSUME UserInv, NEW p \in Procs
                   PROVE  proc[p] \in ProcType /\ ProcOK(proc[p])
BY DEF UserInv, ProcOK

\* Process p becomes r, and no other changes.
Becomes(p, r) == /\ DOMAIN proc' = Procs /\ proc'[p] = r
                 /\ \A q \in Procs : q # p => proc'[q] = proc[q]

LEMMA SetsProc ==
  ASSUME UserInv, NEW p \in Procs, NEW r, proc' = [proc EXCEPT ![p] = r]
  PROVE  Becomes(p, r)
BY DEF Becomes, UserInv

LEMMA ProcsStep ==
  ASSUME UserInv, NEW p \in Procs, NEW r, Becomes(p, r), KeysInv',
         \A s : ProcOK(s) => ProcOK(s)', ProcOK(r)'
  PROVE  UserInv'
<1>1. DOMAIN proc = Procs /\ \A q \in Procs : ProcOK(proc[q])
  BY DEF UserInv
<1>2. DOMAIN proc' = Procs /\ proc'[p] = r /\ \A q \in Procs : q # p => proc'[q] = proc[q]
  BY DEF Becomes
<1>3. ASSUME NEW q \in Procs PROVE ProcOK(proc[q])'
  <2>1. PICK s : s = proc'[q]
    OBVIOUS
  <2>2. ProcOK(s)'
    <3>1. CASE q = p
      BY <1>2, <2>1, <3>1
    <3>2. CASE q # p
      <4>1. s = proc[q]
        BY <1>2, <2>1, <3>2
      <4>2. ProcOK(s)
        BY <1>1, <4>1
      <4> QED BY <4>2
    <3> QED BY <3>1, <3>2
  <2> QED BY <2>1, <2>2
<1> QED
  BY <1>2, <1>3 DEF UserInv

LEMMA KeysKept ==
  ASSUME UserInv, UNCHANGED <<outside, local, index, tasks>>
  PROVE  KeysInv' /\ \A s : ProcOK(s) => ProcOK(s)'
BY DEF UserInv, KeysInv, ProcOK, SeenSince, On, outside

LEMMA OneStep ==
  ASSUME UserInv, NEW p \in Procs, NEW r, Becomes(p, r),
         UNCHANGED <<outside, local, index, tasks>>, ProcOK(r)
  PROVE  UserInv'
<1>1. KeysInv' /\ \A s : ProcOK(s) => ProcOK(s)'
  BY KeysKept
<1> QED
  BY <1>1, ProcsStep

LEMMA IdleFacts ==
  /\ Idle \in ProcType /\ Idle.pc = "idle" /\ Idle.then = "none" /\ Idle.answer = "none"
  /\ Idle.late = FALSE /\ Idle.result = Missing /\ Idle.todo = <<>>
BY MissingFacts DEF Idle, ProcType, PCs, Ops

LEMMA IdleOK ==
  ASSUME NEW r, NEW a \in {"none", "accepted", "unclaimed"}, r = [Idle EXCEPT !.answer = a]
  PROVE  ProcOK(r) /\ r.pc = "idle" /\ r.answer = a
<1>1. r \in ProcType /\ r.pc = "idle" /\ r.then = "none" /\ r.answer = a /\ r.todo = <<>>
  BY IdleFacts DEF ProcType
<1> QED
  BY <1>1 DEF ProcOK

LEMMA AnswerStep ==
  ASSUME UserInv, NEW p \in Procs, NEW answer, Answer(p, answer),
         UNCHANGED <<outside, local, index, tasks>>
  PROVE  UserInv'
<1>1. PICK a : a = IF answer \in {"accepted", "unclaimed"} THEN answer ELSE "none"
  OBVIOUS
<1>2. PICK r : r = [Idle EXCEPT !.answer = a]
  OBVIOUS
<1>3. a \in {"none", "accepted", "unclaimed"} /\ proc' = [proc EXCEPT ![p] = r]
  BY <1>1, <1>2 DEF Answer
<1> QED
  BY <1>2, <1>3, IdleOK, OneStep, SetsProc

LEMMA AnswerFacts ==
  ASSUME UserInv, NEW p \in Procs, NEW answer, Answer(p, answer)
  PROVE  /\ proc'[p].pc = "idle"
         /\ proc'[p].answer = IF answer \in {"accepted", "unclaimed"} THEN answer ELSE "none"
         /\ \A q \in Procs : q # p => proc'[q] = proc[q]
<1>1. PICK a : a = IF answer \in {"accepted", "unclaimed"} THEN answer ELSE "none"
  OBVIOUS
<1>2. PICK r : r = [Idle EXCEPT !.answer = a]
  OBVIOUS
<1>3. a \in {"none", "accepted", "unclaimed"} /\ proc' = [proc EXCEPT ![p] = r]
  BY <1>1, <1>2 DEF Answer
<1>4. r.pc = "idle" /\ r.answer = a
  BY <1>2, <1>3, IdleOK
<1> QED
  BY <1>1, <1>3, <1>4 DEF UserInv

\* A round of the loop.
LEMMA RoundOK ==
  ASSUME world \in Worlds, NEW op \in {"all", "check"}, NEW r, r = Round(op)
  PROVE  ProcOK(r) /\ r.pc = "next"
<1>1. world.order \in Seq(Keys)
  <2>1. world.order \in Seq(world.keys) /\ world.keys \subseteq Keys
    BY WorldsAssumption
  <2>2. PICK ks : ks = world.keys
    OBVIOUS
  <2>3. PICK o \in Seq(ks) : o = world.order
    BY <2>1, <2>2
  <2>4. ks \subseteq Keys
    BY <2>1, <2>2
  <2>5. o \in Seq(Keys)
    BY <2>4
  <2> QED BY <2>3, <2>5
<1>2. /\ r \in ProcType /\ r.pc = "next" /\ r.then = "next"
  BY <1>1, IdleFacts DEF Round, ProcType, PCs, Ops
<1> QED
  BY <1>2 DEF ProcOK

\* What an error does.
LEMMA ErrorStep ==
  ASSUME UserInv, NEW p \in Procs, Error(p), UNCHANGED <<outside, local, index, tasks>>
  PROVE  UserInv'
<1>1. CASE Answer(p, "refused")
  BY <1>1, AnswerStep
<1>2. CASE proc' = [proc EXCEPT ![p] = Round("check")]
  <2>1. PICK r : r = Round("check")
    OBVIOUS
  <2>2. ProcOK(r)
    BY <2>1, RoundOK DEF UserInv, KeysInv
  <2> QED BY <1>2, <2>1, <2>2, OneStep, SetsProc
<1> QED
  BY <1>1, <1>2 DEF Error

LEMMA ErrorFacts ==
  ASSUME UserInv, NEW p \in Procs, Error(p)
  PROVE  /\ proc'[p].pc = "idle" => proc'[p].answer = "none"
         /\ \A q \in Procs : q # p => proc'[q] = proc[q]
<1>1. CASE Answer(p, "refused")
  BY <1>1, AnswerFacts
<1>2. CASE proc' = [proc EXCEPT ![p] = Round("check")]
  <2>1. PICK r : r = Round("check")
    OBVIOUS
  <2>2. r.pc = "next"
    BY <2>1, RoundOK DEF UserInv, KeysInv
  <2> QED BY <1>2, <2>1, <2>2 DEF UserInv
<1> QED
  BY <1>1, <1>2 DEF Error

-----------------------------------------------------------------------------
(* The steps, and what they answer. *)

\* What AcceptsRecent says of a call.
Answers(c) ==
  proc[c].pc # "idle" /\ proc'[c].pc = "idle" =>
    /\ proc'[c].answer = "accepted" => seen[proc[c].key] <= VerifyExpire + 1
    /\ proc'[c].answer = "unclaimed" /\ proc[c].op = "name" =>
         chain[proc[c].key] = "revoked"
Right == \A c \in Procs : Answers(c)

LEMMA Silent ==
  ASSUME NEW p \in Procs, \A q \in Procs : q # p => proc'[q] = proc[q],
         (proc'[p].pc = "idle" => proc'[p].answer = "none") \/ Answers(p)
  PROVE  Right
BY DEF Right, Answers

LEMMA Unanswered ==
  ASSUME \A q \in Procs : proc'[q].pc = "idle" => proc[q].pc = "idle"
  PROVE  Right
BY DEF Right, Answers

LEMMA MoveStep ==
  ASSUME UserInv, NEW p \in Procs, NEW r, Becomes(p, r), ProcOK(r),
         UNCHANGED <<outside, local, index, tasks>>, r.pc # "idle"
  PROVE  UserInv' /\ Right
<1>1. UserInv'
  BY OneStep
<1>2. Right
  BY Silent DEF Becomes
<1> QED
  BY <1>1, <1>2

LEMMA SilentAnswer ==
  ASSUME UserInv, NEW p \in Procs, NEW answer, answer \notin {"accepted", "unclaimed"},
         Answer(p, answer), UNCHANGED <<outside, local, index, tasks>>
  PROVE  UserInv' /\ Right
<1>1. UserInv'
  BY AnswerStep
<1>2. Right
  BY AnswerFacts, Silent
<1> QED
  BY <1>1, <1>2

LEMMA SilentError ==
  ASSUME UserInv, NEW p \in Procs, Error(p), UNCHANGED <<outside, local, index, tasks>>
  PROVE  UserInv' /\ Right
<1>1. UserInv'
  BY ErrorStep
<1>2. Right
  BY ErrorFacts, Silent
<1> QED
  BY <1>1, <1>2

LEMMA FetchStep == ASSUME UserInv, NEW p \in Procs, Fetch(p) PROVE UserInv' /\ Right
<1>1. UNCHANGED <<outside, local, index, tasks>> /\ proc[p].pc = "fetch"
  BY DEF Fetch
<1>2. CASE Error(p)
  BY <1>1, <1>2, SilentError
<1>3. CASE proc' = [proc EXCEPT ![p].pc = "save", ![p].chain = chain[proc[p].key]]
  <2>1. PICK r : r = [proc[p] EXCEPT !.pc = "save", !.chain = chain[proc[p].key]]
    OBVIOUS
  <2>2. Becomes(p, r)
    BY <1>3, <2>1 DEF Becomes, UserInv
  <2>3. proc[p] \in ProcType /\ ProcOK(proc[p])
    BY ProcFacts
  <2>4. proc[p].key \in Keys /\ chain[proc[p].key] \in {"linked", "revoked"}
    BY <1>1, <2>3 DEF ProcOK, UserInv, KeysInv
  <2>5. /\ r \in ProcType /\ r.pc = "save" /\ r.key = proc[p].key
        /\ r.chain = chain[proc[p].key] /\ r.then = proc[p].then /\ r.op = proc[p].op /\ r.todo = proc[p].todo
    BY <2>1, <2>3, <2>4 DEF ProcType, PCs
  <2>6. ProcOK(r)
    BY <1>1, <2>3, <2>4, <2>5 DEF ProcOK
  <2> QED BY <1>1, <2>2, <2>5, <2>6, MoveStep
<1> QED
  BY <1>2, <1>3 DEF Fetch

LEMMA SaveStep == ASSUME UserInv, NEW p \in Procs, Save(p) PROVE UserInv' /\ Right
<1>1. PICK k : k = proc[p].key
  OBVIOUS
<1>2. /\ proc[p].pc = "save" /\ UNCHANGED <<outside, index, tasks>>
      /\ local' = [local EXCEPT ![k] = IF local[k] = "revoked" THEN local[k] ELSE proc[p].chain]
      /\ proc' = [proc EXCEPT ![p].pc = "check"]
  BY <1>1 DEF Save, Goto
<1>3. PICK r : r = [proc[p] EXCEPT !.pc = "check"]
  OBVIOUS
<1>4. proc[p] \in ProcType /\ ProcOK(proc[p])
  BY ProcFacts
<1>5. k \in Keys /\ proc[p].chain \in {"linked", "revoked"}
      /\ (proc[p].chain = "revoked" => chain[k] = "revoked")
  BY <1>1, <1>2, <1>4 DEF ProcOK, ProcType
<1>6. PICK l : l = IF local[k] = "revoked" THEN local[k] ELSE proc[p].chain
  OBVIOUS
<1>7. /\ l \in {"linked", "revoked"} /\ (l = "revoked" => chain[k] = "revoked")
      /\ local' = [local EXCEPT ![k] = l]
  BY <1>2, <1>5, <1>6 DEF UserInv, KeysInv
<1>8. /\ local' \in [Keys -> {"none", "linked", "revoked"}] /\ local'[k] = l
      /\ \A j \in Keys : j # k => local'[j] = local[j]
  BY <1>5, <1>7 DEF UserInv, KeysInv
<1>9. KeysInv'
  BY <1>2, <1>7, <1>8 DEF UserInv, KeysInv, SeenSince, On, outside
<1>10. ASSUME NEW s, ProcOK(s) PROVE ProcOK(s)'
  <2>1. s.pc = "check" => On("server") \/ local'[s.key] # "none"
    BY <1>7, <1>8, <1>10 DEF ProcOK
  <2> QED BY <1>2, <1>10, <2>1 DEF ProcOK, SeenSince, On, outside
<1>11. /\ r \in ProcType /\ r.pc = "check" /\ r.key = k /\ r.then = proc[p].then
       /\ r.op = proc[p].op /\ r.todo = proc[p].todo
  BY <1>1, <1>3, <1>4 DEF ProcType, PCs
<1>12. ProcOK(r)'
  BY <1>2, <1>4, <1>5, <1>7, <1>8, <1>11 DEF ProcOK
<1>13. Becomes(p, r)
  BY <1>2, <1>3 DEF Becomes, UserInv
<1>14. UserInv'
  BY <1>9, <1>10, <1>12, <1>13, ProcsStep
<1>15. Right
  BY <1>11, <1>13, Silent DEF Becomes
<1> QED
  BY <1>14, <1>15

\* A check finds the proof now, or what the index knew of it.
LEMMA CheckStep == ASSUME UserInv, NEW p \in Procs, Check(p) PROVE UserInv' /\ Right
<1>1. PICK k : k = proc[p].key
  OBVIOUS
<1>2. PICK copy : copy = IF On("server") THEN chain[k] ELSE local[k]
  OBVIOUS
<1>3. proc[p].pc = "check" /\ UNCHANGED <<outside, local, index, tasks>>
  BY DEF Check
<1>4. proc[p] \in ProcType /\ ProcOK(proc[p]) /\ k \in Keys
  BY <1>1, <1>3, ProcFacts DEF ProcOK
<1>5. index[k] \in Results /\ index[k].verified \in Nat /\ SeenSince(k, index[k])
      /\ seen[k] \in Nat /\ (proof[k] => seen[k] = 0)
  BY <1>4 DEF UserInv, KeysInv, Results
<1>6. CASE Error(p)
  BY <1>3, <1>6, SilentError
<1>7. ASSUME NEW f \in Results, proc' = [proc EXCEPT ![p].pc = "write", ![p].result = f],
             SeenSince(k, f), f.status = "ok" => seen[k] = 0,
             f = Missing => chain[k] = "revoked"
      PROVE  UserInv' /\ Right
  <2>1. PICK r : r = [proc[p] EXCEPT !.pc = "write", !.result = f]
    OBVIOUS
  <2>2. Becomes(p, r)
    BY <1>7, <2>1 DEF Becomes, UserInv
  <2>3. /\ r \in ProcType /\ r.pc = "write" /\ r.key = k /\ r.result = f
        /\ r.then = proc[p].then /\ r.op = proc[p].op /\ r.todo = proc[p].todo
    BY <1>1, <1>4, <2>1 DEF ProcType, PCs
  <2>4. f.status = "ok" => seen[k] <= (IF r.late THEN 1 ELSE 0)
    BY <1>7
  <2>5. ProcOK(r)
    BY <1>3, <1>4, <1>7, <2>3, <2>4 DEF ProcOK
  <2> QED BY <1>3, <2>2, <2>3, <2>5, MoveStep
<1>8. \/ copy # "linked" /\ proc' = [proc EXCEPT ![p].pc = "write", ![p].result = Missing]
      \/ /\ proof[k]
         /\ proc' = [proc EXCEPT ![p].pc = "write", ![p].result = Result("ok", 0, 0)]
      \/ proc' = [proc EXCEPT ![p].pc = "write",
                              ![p].result = Result("failed", index[k].verified, 0)]
      \/ proc' = [proc EXCEPT ![p].pc = "write",
                              ![p].result = Result("connection", index[k].verified, 0)]
      \/ Error(p)
  BY <1>1, <1>2 DEF Check
<1>9. CASE copy # "linked" /\ proc' = [proc EXCEPT ![p].pc = "write", ![p].result = Missing]
  <2>1. chain[k] = "revoked"
    <3>1. CASE On("server")
      BY <1>2, <1>4, <1>9, <3>1 DEF UserInv, KeysInv
    <3>2. CASE ~On("server")
      <4>1. local[k] # "none"
        BY <1>1, <1>3, <1>4, <3>2 DEF ProcOK
      <4> QED BY <1>2, <1>4, <1>9, <3>2, <4>1 DEF UserInv, KeysInv
    <3> QED BY <3>1, <3>2
  <2>2. Missing \in Results /\ SeenSince(k, Missing) /\ Missing.status # "ok"
    BY MissingFacts, OldFacts DEF SeenSince
  <2> QED BY <1>7, <1>9, <2>1, <2>2
<1>10. CASE /\ proof[k]
            /\ proc' = [proc EXCEPT ![p].pc = "write", ![p].result = Result("ok", 0, 0)]
  <2>1. PICK f : f = Result("ok", 0, 0)
    OBVIOUS
  <2>2. f \in Results /\ f.verified = 0 /\ f # Missing
    BY <2>1, ResultFacts
  <2>3. SeenSince(k, f) /\ seen[k] = 0
    BY <1>5, <1>10, <2>2 DEF SeenSince
  <2> QED BY <1>7, <1>10, <2>1, <2>2, <2>3
<1>11. ASSUME NEW status \in {"failed", "connection"},
              proc' = [proc EXCEPT ![p].pc = "write",
                                   ![p].result = Result(status, index[k].verified, 0)]
       PROVE  UserInv' /\ Right
  <2>1. PICK v \in Nat : v = index[k].verified
    BY <1>5
  <2>2. PICK f : f = Result(status, v, 0)
    OBVIOUS
  <2>3. f \in Results /\ f.verified = v /\ f # Missing /\ f.status = status
    BY <2>2, ResultFacts
  <2>4. SeenSince(k, f)
    BY <1>5, <2>1, <2>3 DEF SeenSince
  <2> QED BY <1>7, <1>11, <2>1, <2>2, <2>3, <2>4
<1> QED
  BY <1>6, <1>8, <1>9, <1>10, <1>11

\* A call that goes by its own result saw the proof a tick ago at most.
LEMMA WriteStep == ASSUME UserInv, NEW p \in Procs, Write(p) PROVE UserInv' /\ Right
<1>1. PICK k : k = proc[p].key
  OBVIOUS
<1>2. PICK f : f = proc[p].result
  OBVIOUS
<1>3. /\ proc[p].pc = "write" /\ UNCHANGED <<outside, local, tasks>>
      /\ index' = [index EXCEPT ![k] = f]
  BY <1>1, <1>2 DEF Write
<1>4. proc[p] \in ProcType /\ ProcOK(proc[p])
  BY ProcFacts
<1>5. /\ k \in Keys /\ f \in Results /\ SeenSince(k, f)
      /\ f.status = "ok" => seen[k] <= (IF proc[p].late THEN 1 ELSE 0)
      /\ f = Missing => chain[k] = "revoked"
  BY <1>1, <1>2, <1>3, <1>4 DEF ProcOK, ProcType
<1>6. /\ index' \in [Keys -> Results] /\ index'[k] = f
      /\ \A j \in Keys : j # k => index'[j] = index[j]
  BY <1>3, <1>5 DEF UserInv, KeysInv
<1>7. KeysInv'
  BY <1>3, <1>5, <1>6 DEF UserInv, KeysInv, SeenSince, On, outside
<1>8. ASSUME NEW s, ProcOK(s) PROVE ProcOK(s)'
  <2>1. s.pc = "get" /\ s.op = "name" => index'[s.key] # Missing \/ chain[s.key] = "revoked"
    BY <1>5, <1>6, <1>8 DEF ProcOK
  <2> QED BY <1>3, <1>8, <2>1 DEF ProcOK, SeenSince, On, outside
<1>9. CASE \E a : Answer(p, a) /\ (a = "accepted" => f.status = "ok") /\ a # "unclaimed"
  <2>1. PICK a : Answer(p, a) /\ (a = "accepted" => f.status = "ok") /\ a # "unclaimed"
    BY <1>9
  <2>2. PICK b : b = IF a \in {"accepted", "unclaimed"} THEN a ELSE "none"
    OBVIOUS
  <2>3. PICK r : r = [Idle EXCEPT !.answer = b]
    OBVIOUS
  <2>4. b \in {"none", "accepted", "unclaimed"} /\ proc' = [proc EXCEPT ![p] = r]
    BY <2>1, <2>2, <2>3 DEF Answer
  <2>5. ProcOK(r) /\ r.answer = b
    BY <2>3, <2>4, IdleOK
  <2>6. Becomes(p, r)
    BY <2>4, SetsProc
  <2>7. UserInv'
    BY <1>7, <1>8, <2>5, <2>6, ProcsStep
  <2>8. Answers(p)
    <3>1. proc'[p].answer = b
      BY <2>5, <2>6 DEF Becomes
    <3>2. b # "unclaimed" /\ (b = "accepted" => f.status = "ok")
      BY <2>1, <2>2
    <3>3. f.status = "ok" => seen[k] <= VerifyExpire + 1
      <4>1. seen[k] \in Nat /\ VerifyExpire \in Nat
        BY <1>5, OldFacts DEF UserInv, KeysInv
      <4> QED BY <1>5, <4>1
    <3> QED BY <1>1, <3>1, <3>2, <3>3 DEF Answers
  <2> QED BY <2>6, <2>7, <2>8, Silent DEF Becomes
<1>10. CASE Goto(p, proc[p].then) /\ proc[p].then \in {"next", "get"}
  <2>1. PICK r : r = [proc[p] EXCEPT !.pc = proc[p].then]
    OBVIOUS
  <2>2. Becomes(p, r)
    BY <1>10, <2>1 DEF Becomes, Goto, UserInv
  <2>3. /\ r \in ProcType /\ r.pc \in {"next", "get"} /\ r.key = k /\ r.then = proc[p].then
        /\ r.op = proc[p].op /\ r.todo = proc[p].todo /\ r.pc = r.then
    BY <1>1, <1>4, <1>10, <2>1 DEF ProcType, PCs
  <2>4. ProcOK(r)
    BY <1>4, <1>5, <2>3 DEF ProcOK
  <2>5. UserInv'
    BY <1>7, <1>8, <2>2, <2>4, ProcsStep
  <2> QED BY <2>2, <2>3, <2>5, Silent DEF Becomes
<1>11. proc[p].then \in {"next", "get", "decide", "done"}
  BY <1>3, <1>4 DEF ProcOK, ProcType
<1>12. CASE proc[p].then = "decide"
  <2>1. Answer(p, IF f.status = "ok" THEN "accepted" ELSE "refused")
    BY <1>2, <1>12 DEF Write
  <2> QED BY <1>9, <2>1
<1>13. CASE proc[p].then = "done"
  <2>1. Answer(p, "done")
    BY <1>13 DEF Write
  <2> QED BY <1>9, <2>1
<1>14. CASE proc[p].then \in {"next", "get"}
  <2>1. Goto(p, proc[p].then)
    BY <1>14 DEF Write
  <2> QED BY <1>10, <1>14, <2>1
<1> QED
  BY <1>11, <1>12, <1>13, <1>14

-----------------------------------------------------------------------------
(* Calls. *)

LEMMA BeginStep ==
  ASSUME UserInv, NEW c \in Calls, NEW op \in {"name", "search", "id", "key"},
         NEW k \in world.keys, Begin(c, op, k)
  PROVE  UserInv' /\ Right
<1>1. PICK pc : pc = CASE op = "id" -> "get" [] op = "key" -> "expired" [] OTHER -> "find"
  OBVIOUS
<1>2. /\ proc' = [proc EXCEPT ![c] = [Idle EXCEPT !.op = op, !.key = k, !.pc = pc]]
      /\ UNCHANGED <<outside, local, index, tasks>>
  BY <1>1 DEF Begin
<1>3. pc \in {"get", "expired", "find"} /\ (pc = "get" => op # "name")
  BY <1>1
<1>4. c \in Procs /\ k \in Keys
  BY WorldsAssumption DEF Procs, UserInv, KeysInv
<1>5. PICK r : r = [Idle EXCEPT !.op = op, !.key = k, !.pc = pc]
  OBVIOUS
<1>6. r \in ProcType /\ r.pc = pc /\ r.key = k /\ r.op = op /\ r.then = "none" /\ r.todo = <<>>
  BY <1>3, <1>4, <1>5, IdleFacts DEF ProcType, PCs, Ops
<1>7. ProcOK(r)
  BY <1>3, <1>4, <1>6 DEF ProcOK
<1>8. Becomes(c, r)
  BY <1>2, <1>4, <1>5, SetsProc
<1> QED
  BY <1>2, <1>3, <1>4, <1>6, <1>7, <1>8, MoveStep

\* A process goes to another place, with what follows perhaps.
LEMMA GotoStep ==
  ASSUME UserInv, NEW p \in Procs, UNCHANGED <<outside, local, index, tasks>>,
         proc[p].key \in Keys,
         \/ Goto(p, "next")
         \/ Goto(p, "get") /\ index[proc[p].key] # Missing
         \/ \E then \in {"next", "get", "decide", "done"} :
              /\ proc' = [proc EXCEPT ![p].pc = "fetch", ![p].then = then]
              /\ then = "get" => proc[p].op # "name"
  PROVE  UserInv' /\ Right
<1>1. proc[p] \in ProcType /\ ProcOK(proc[p])
  BY ProcFacts
<1>2. CASE Goto(p, "next") \/ (Goto(p, "get") /\ index[proc[p].key] # Missing)
  <2>1. PICK pc \in {"next", "get"} :
          Goto(p, pc) /\ (pc = "get" => index[proc[p].key] # Missing)
    BY <1>2
  <2>2. PICK r : r = [proc[p] EXCEPT !.pc = pc]
    OBVIOUS
  <2>3. Becomes(p, r)
    BY <2>1, <2>2 DEF Becomes, Goto, UserInv
  <2>4. /\ r \in ProcType /\ r.pc = pc /\ r.key = proc[p].key /\ r.then = proc[p].then
        /\ r.op = proc[p].op /\ r.todo = proc[p].todo
    BY <1>1, <2>2 DEF ProcType, PCs
  <2>5. ProcOK(r)
    BY <1>1, <2>1, <2>4 DEF ProcOK
  <2> QED BY <2>3, <2>4, <2>5, MoveStep
<1>3. ASSUME NEW then \in {"next", "get", "decide", "done"},
             proc' = [proc EXCEPT ![p].pc = "fetch", ![p].then = then],
             then = "get" => proc[p].op # "name"
      PROVE  UserInv' /\ Right
  <2>1. PICK r : r = [proc[p] EXCEPT !.pc = "fetch", !.then = then]
    OBVIOUS
  <2>2. Becomes(p, r)
    BY <1>3, <2>1 DEF Becomes, UserInv
  <2>3. /\ r \in ProcType /\ r.pc = "fetch" /\ r.key = proc[p].key /\ r.then = then
        /\ r.op = proc[p].op /\ r.todo = proc[p].todo
    BY <1>1, <2>1 DEF ProcType, PCs
  <2>4. ProcOK(r)
    BY <1>1, <1>3, <2>3 DEF ProcOK
  <2> QED BY <2>2, <2>3, <2>4, MoveStep
<1> QED
  BY <1>2, <1>3

LEMMA FindIdentityStep ==
  ASSUME UserInv, NEW c \in Calls, FindIdentity(c) PROVE UserInv' /\ Right
<1>1. c \in Procs /\ proc[c].pc = "find" /\ UNCHANGED <<outside, local, index, tasks>>
  BY DEF Procs, FindIdentity
<1>2. proc[c].key \in Keys
  BY <1>1, ProcFacts DEF ProcOK
<1>3. CASE Answer(c, "refused")
  BY <1>1, <1>3, SilentAnswer
<1>4. CASE /\ proc[c].op = "search"
           /\ proc' = [proc EXCEPT ![c].pc = "fetch", ![c].then = "get"]
  BY <1>1, <1>2, <1>4, GotoStep
<1>5. CASE Goto(c, "get") /\ index[proc[c].key] # Missing
  BY <1>1, <1>2, <1>5, GotoStep
<1> QED
  BY <1>3, <1>4, <1>5 DEF FindIdentity

\* The index is no younger than the proof; what it no longer has was revoked.
LEMMA EnsureVerifiedStep ==
  ASSUME UserInv, NEW c \in Calls, EnsureVerified(c) PROVE UserInv' /\ Right
<1>1. c \in Procs /\ proc[c].pc = "get" /\ UNCHANGED <<outside, local, index, tasks>>
  BY DEF Procs, EnsureVerified
<1>2. PICK k : k = proc[c].key
  OBVIOUS
<1>3. k \in Keys /\ ProcOK(proc[c])
  BY <1>1, <1>2, ProcFacts DEF ProcOK
<1>4. seen[k] \in Nat /\ SeenSince(k, index[k]) /\ index[k].verified \in Nat
  BY <1>3 DEF UserInv, KeysInv, Results
<1>5. CASE Answer(c, "refused")
  BY <1>1, <1>5, SilentAnswer
<1>6. CASE proc' = [proc EXCEPT ![c].pc = "fetch", ![c].then = "decide"]
  BY <1>1, <1>2, <1>3, <1>6, GotoStep
<1>7. CASE index[k].verified <= VerifyExpire /\ Answer(c, "accepted")
  <2>1. seen[k] <= VerifyExpire + 1
    BY <1>4, <1>7, OldFacts DEF SeenSince
  <2>2. UserInv' /\ proc'[c].answer = "accepted" /\ \A q \in Procs : q # c => proc'[q] = proc[q]
    BY <1>1, <1>7, AnswerStep, AnswerFacts
  <2> QED BY <1>1, <1>2, <2>1, <2>2, Silent DEF Answers
<1>8. CASE index[k] = Missing /\ Answer(c, "unclaimed")
  <2>1. proc[c].op = "name" => chain[k] = "revoked"
    BY <1>1, <1>2, <1>3, <1>8 DEF ProcOK
  <2>2. UserInv' /\ proc'[c].answer = "unclaimed" /\ \A q \in Procs : q # c => proc'[q] = proc[q]
    BY <1>1, <1>8, AnswerStep, AnswerFacts
  <2> QED BY <1>1, <1>2, <2>1, <2>2, Silent DEF Answers
<1> QED
  BY <1>2, <1>5, <1>6, <1>7, <1>8 DEF EnsureVerified

LEMMA CheckForKeyUpdateStep ==
  ASSUME UserInv, NEW p \in Procs, CheckForKeyUpdate(p) PROVE UserInv' /\ Right
<1>1. proc[p].pc = "expired" /\ UNCHANGED <<outside, local, index, tasks>>
  BY DEF CheckForKeyUpdate
<1>2. proc[p].key \in Keys
  BY <1>1, ProcFacts DEF ProcOK
<1>3. PICK then \in {"next", "done"} : then = IF p = Loop THEN "next" ELSE "done"
  OBVIOUS
<1>4. \/ proc' = [proc EXCEPT ![p].pc = "fetch", ![p].then = then]
      \/ Goto(p, "next")
      \/ Answer(p, "done")
  BY <1>3 DEF CheckForKeyUpdate
<1>5. CASE Answer(p, "done")
  BY <1>1, <1>5, SilentAnswer
<1>6. CASE Goto(p, "next")
  BY <1>1, <1>2, <1>6, GotoStep
<1>7. CASE proc' = [proc EXCEPT ![p].pc = "fetch", ![p].then = then]
  BY <1>1, <1>2, <1>3, <1>7, GotoStep
<1> QED
  BY <1>4, <1>5, <1>6, <1>7

-----------------------------------------------------------------------------
(* The loop and the server. *)

LEMMA LoopIsProc == Loop \in Procs
BY DEF Procs

LEMMA LoopTickStep == ASSUME UserInv, LoopTick PROVE UserInv' /\ Right
<1>1. PICK r : r = Round("check")
  OBVIOUS
<1>2. proc' = [proc EXCEPT ![Loop] = r] /\ UNCHANGED <<outside, local, index, tasks>>
  BY <1>1 DEF LoopTick
<1>3. ProcOK(r) /\ r.pc # "idle"
  BY <1>1, RoundOK DEF UserInv, KeysInv
<1> QED
  BY <1>2, <1>3, LoopIsProc, SetsProc, MoveStep

LEMMA LoopNextStep == ASSUME UserInv, LoopNext PROVE UserInv' /\ Right
<1>1. PICK l : l = proc[Loop]
  OBVIOUS
<1>2. l.pc = "next" /\ l \in ProcType /\ ProcOK(l) /\ UNCHANGED <<outside, local, index, tasks>>
  BY <1>1, LoopIsProc, ProcFacts DEF LoopNext
<1>3. CASE l.todo # <<>>
  <2>1. PICK pc \in {"fetch", "expired"} : pc = IF l.op = "all" THEN "fetch" ELSE "expired"
    OBVIOUS
  <2>2. proc' = [proc EXCEPT ![Loop].key = Head(l.todo), ![Loop].todo = Tail(l.todo),
                             ![Loop].pc = pc]
    BY <1>1, <1>3, <2>1 DEF LoopNext
  <2>3. l.todo \in Seq(Keys)
    BY <1>2 DEF ProcType
  <2>4. Head(l.todo) \in Keys /\ Tail(l.todo) \in Seq(Keys)
    BY <1>3, <2>3
  <2>5. PICK r : r = [l EXCEPT !.key = Head(l.todo), !.todo = Tail(l.todo), !.pc = pc]
    OBVIOUS
  <2>6. Becomes(Loop, r)
    BY <1>1, <2>2, <2>5, LoopIsProc DEF Becomes, UserInv
  <2>7. /\ r \in ProcType /\ r.pc = pc /\ r.key \in Keys /\ r.then = l.then /\ r.op = l.op
    BY <1>2, <2>4, <2>5 DEF ProcType, PCs
  <2>8. ProcOK(r)
    BY <1>2, <1>3, <2>7 DEF ProcOK
  <2> QED BY <1>2, <2>6, <2>7, <2>8, LoopIsProc, MoveStep
<1>4. CASE proc' = [proc EXCEPT ![Loop] = Round("check")]
  <2>1. PICK r : r = Round("check")
    OBVIOUS
  <2>2. ProcOK(r) /\ r.pc # "idle"
    BY <2>1, RoundOK DEF UserInv, KeysInv
  <2> QED BY <1>2, <1>4, <2>1, <2>2, LoopIsProc, SetsProc, MoveStep
<1>5. CASE proc' = [proc EXCEPT ![Loop] = Idle]
  <2>1. PICK r : r = Idle
    OBVIOUS
  <2>2. r = [Idle EXCEPT !.answer = "none"]
    BY <2>1, IdleFacts DEF ProcType
  <2>3. ProcOK(r) /\ r.answer = "none"
    BY <2>2, IdleOK
  <2>4. Becomes(Loop, r)
    BY <1>5, <2>1, LoopIsProc, SetsProc
  <2>5. UserInv'
    BY <1>2, <2>3, <2>4, LoopIsProc, OneStep
  <2> QED BY <2>3, <2>4, <2>5, LoopIsProc, Silent DEF Becomes
<1> QED
  BY <1>1, <1>3, <1>4, <1>5 DEF LoopNext

\* keysd has no tasks.
LEMMA TasksStep ==
  ASSUME UserInv, On("server"), UNCHANGED <<outside, local, index, proc>>
  PROVE  UserInv' /\ Right
<1>1. KeysInv' /\ \A s : ProcOK(s) => ProcOK(s)'
  BY DEF UserInv, KeysInv, ProcOK, SeenSince, On, outside
<1>2. UserInv'
  <2>1. ASSUME NEW q \in Procs PROVE ProcOK(proc[q])'
    <3>1. PICK s : s = proc[q]
      OBVIOUS
    <3>2. ProcOK(s)'
      BY <1>1, <3>1, ProcFacts
    <3> QED BY <3>1, <3>2
  <2> QED BY <1>1, <2>1 DEF UserInv
<1> QED
  BY <1>2, Unanswered

LEMMA TaskCheckStep ==
  ASSUME UserInv, NEW w \in Workers, NEW k \in Keys, TaskCheck(w, k)
  PROVE  UserInv' /\ Right
<1>1. /\ k \in tasks /\ UNCHANGED <<outside, local, index>>
      /\ proc' = [proc EXCEPT ![w] = [Idle EXCEPT !.pc = "check", !.op = "task",
                                                  !.key = k, !.then = "done"]]
      /\ w \in Procs
  BY DEF TaskCheck, Procs
<1>2. On("server")
  BY <1>1 DEF UserInv, KeysInv
<1>3. KeysInv' /\ \A s : ProcOK(s) => ProcOK(s)'
  BY <1>1, <1>2 DEF UserInv, KeysInv, ProcOK, SeenSince, On, outside
<1>4. PICK r : r = [Idle EXCEPT !.pc = "check", !.op = "task", !.key = k, !.then = "done"]
  OBVIOUS
<1>5. r \in ProcType /\ r.pc = "check" /\ r.key = k /\ r.op = "task" /\ r.then = "done"
  BY <1>4, IdleFacts DEF ProcType, PCs, Ops
<1>6. ProcOK(r)'
  BY <1>1, <1>2, <1>5 DEF ProcOK, On, outside
<1>7. Becomes(w, r)
  BY <1>1, <1>4, SetsProc
<1>8. UserInv'
  BY <1>1, <1>3, <1>6, <1>7, ProcsStep
<1> QED
  BY <1>1, <1>5, <1>7, <1>8, Silent DEF Becomes

-----------------------------------------------------------------------------
(* The world. *)

\* One tick ages the moment a proof was last in place and what is known of it alike.
LEMMA SeenAged ==
  ASSUME NEW k, NEW r \in Results, SeenSince(k, r), seen[k] \in Nat, seen'[k] \in Nat,
         seen'[k] <= seen[k] + 1, NEW t, t = Aged(r)
  PROVE  t.verified < Old => seen'[k] <= t.verified
<1>1. r.verified \in Nat
  BY DEF Results
<1>2. ASSUME t.verified < Old PROVE seen'[k] <= t.verified
  <2>1. r.verified < Old /\ t.verified = r.verified + 1
    BY <1>2, AgedFacts
  <2>2. seen[k] <= r.verified
    BY <2>1 DEF SeenSince
  <2> QED BY <1>1, <2>1, <2>2
<1> QED
  BY <1>2

LEMMA TickStep == ASSUME UserInv, Tick PROVE UserInv' /\ Right
<1>0. /\ \A p \in Procs : ~proc[p].late
      /\ proc' = [p \in Procs |-> [proc[p] EXCEPT !.late = (proc[p].pc # "idle"),
                                                  !.result = Aged(@)]]
  BY Zenon DEF Tick
<1>1. /\ index' = [k \in Keys |-> Aged(index[k])]
      /\ seen' = [k \in Keys |-> IF proof[k] THEN 0 ELSE Older(seen[k], Gone)]
      /\ UNCHANGED <<proof, chain, local, tasks, world>>
  <2>1. /\ index' = [k \in Keys |-> Aged(index[k])]
        /\ seen' = [k \in Keys |-> IF proof[k] THEN 0 ELSE Older(seen[k], Gone)]
        /\ UNCHANGED <<proof, chain, local, tasks, world, faults, changes>>
    BY Zenon DEF Tick
  <2> QED BY <2>1
<1>2. ASSUME NEW k \in Keys
      PROVE  /\ seen[k] \in Nat /\ seen'[k] \in Nat /\ seen'[k] <= seen[k] + 1
             /\ proof[k] => seen'[k] = 0
  <2>1. seen[k] \in Nat /\ Gone \in Nat
    BY OldFacts DEF UserInv, KeysInv
  <2>2. Older(seen[k], Gone) \in Nat /\ Older(seen[k], Gone) <= seen[k] + 1
    BY <2>1, OlderFacts
  <2>3. seen'[k] = IF proof[k] THEN 0 ELSE Older(seen[k], Gone)
    BY <1>1
  <2> QED BY <2>1, <2>2, <2>3
<1>3. ASSUME NEW k \in Keys
      PROVE  /\ index'[k] \in Results /\ (index'[k] = Missing <=> index[k] = Missing)
             /\ index'[k].verified < Old => seen'[k] <= index'[k].verified
  <2>1. PICK r \in Results : r = index[k]
    BY DEF UserInv, KeysInv
  <2>2. SeenSince(k, r)
    BY <2>1 DEF UserInv, KeysInv
  <2>3. PICK t : t = Aged(r)
    OBVIOUS
  <2>4. index'[k] = t
    BY <1>1, <2>1, <2>3
  <2> QED BY <1>2, <2>1, <2>2, <2>3, <2>4, AgedFacts, SeenAged
<1>4. KeysInv'
  <2>1. seen' \in [Keys -> Nat] /\ index' \in [Keys -> Results]
    BY <1>1, <1>2, <1>3
  <2> QED BY <1>1, <1>2, <1>3, <2>1 DEF UserInv, KeysInv, SeenSince, On
<1>5. ASSUME NEW p \in Procs PROVE ProcOK(proc[p])' /\ proc'[p].pc = proc[p].pc
  <2>1. PICK s : s = proc[p]
    OBVIOUS
  <2>2. s \in ProcType /\ ProcOK(s) /\ (~s.late)
    BY <1>0, <2>1, ProcFacts, Zenon
  <2>3. PICK f \in Results : f = s.result
    BY <2>2 DEF ProcType
  <2>4. PICK g : g = Aged(f)
    OBVIOUS
  <2>5. PICK b : b = (s.pc # "idle")
    OBVIOUS
  <2>8. b \in BOOLEAN /\ (s.pc # "idle" => b)
    BY <2>5, Zenon
  <2>14. PICK r : r = [s EXCEPT !.late = b, !.result = g]
    OBVIOUS
  <2>6. proc'[p] = r
    <3>1. proc'[p] = [proc[p] EXCEPT !.late = (proc[p].pc # "idle"), !.result = Aged(@)]
      BY <1>0, Zenon
    <3>2. proc'[p] = [s EXCEPT !.late = b, !.result = Aged(@)]
      BY <2>1, <2>5, <3>1, Zenon
    <3> QED BY <2>3, <2>4, <2>14, <3>2
  <2>7. g \in Results /\ g.status = f.status /\ (g = Missing <=> f = Missing)
    BY <2>4, AgedFacts
  <2>9. /\ r \in ProcType /\ r.pc = s.pc /\ r.key = s.key /\ r.op = s.op /\ r.then = s.then /\ r.todo = s.todo
        /\ r.chain = s.chain /\ r.result = g /\ r.late = b
    BY <2>2, <2>7, <2>8, <2>14 DEF ProcType
  <2>10. ASSUME r.pc = "write"
         PROVE  /\ SeenSince(r.key, r.result)'
                /\ r.result.status = "ok" => seen'[r.key] <= (IF r.late THEN 1 ELSE 0)
                /\ r.result = Missing => chain'[r.key] = "revoked"
    <3>1. /\ s.pc = "write" /\ s.key \in Keys /\ SeenSince(s.key, f) /\ r.late
          /\ f.status = "ok" => seen[s.key] <= 0
          /\ f = Missing => chain[s.key] = "revoked"
      BY <2>2, <2>3, <2>8, <2>9, <2>10 DEF ProcOK
    <3>2. PICK k \in Keys : k = s.key
      BY <3>1
    <3>3. g.verified < Old => seen'[k] <= g.verified
      BY <1>2, <2>4, <3>1, <3>2, SeenAged
    <3>4. f.status = "ok" => seen'[k] <= 1
      BY <1>2, <3>1, <3>2
    <3> QED BY <1>1, <2>7, <2>9, <3>1, <3>2, <3>3, <3>4 DEF SeenSince
  <2>11. r.pc = "get" /\ r.op = "name" => index'[r.key] # Missing \/ chain'[r.key] = "revoked"
    BY <1>1, <1>3, <2>2, <2>9 DEF ProcOK
  <2>12. ProcOK(r)'
    BY <1>1, <2>2, <2>9, <2>10, <2>11 DEF ProcOK, On
  <2> QED BY <2>1, <2>6, <2>9, <2>12
<1>6. UserInv'
  <2>1. DOMAIN proc' = Procs
    BY <1>0, Zenon
  <2> QED BY <1>4, <1>5, <2>1 DEF UserInv
<1> QED
  BY <1>5, <1>6, Unanswered

LEMMA ToggleStep == ASSUME UserInv, NEW k \in Keys, Toggle(k) PROVE UserInv' /\ Right
<1>1. /\ proof' = [proof EXCEPT ![k] = ~@] /\ seen' = [seen EXCEPT ![k] = 0]
      /\ UNCHANGED <<chain, local, index, proc, tasks, world>>
  BY DEF Toggle
<1>2. /\ seen' \in [Keys -> Nat] /\ proof' \in [Keys -> BOOLEAN] /\ seen'[k] = 0
      /\ \A j \in Keys : j # k => seen'[j] = seen[j] /\ proof'[j] = proof[j]
  BY <1>1 DEF UserInv, KeysInv
<1>3. ASSUME NEW j \in Keys, NEW r \in Results, SeenSince(j, r) PROVE SeenSince(j, r)'
  <2>1. r.verified \in Nat
    BY DEF Results
  <2> QED BY <1>2, <1>3, <2>1 DEF SeenSince
<1>4. KeysInv'
  BY <1>1, <1>2, <1>3 DEF UserInv, KeysInv, On
<1>5. ASSUME NEW s, ProcOK(s) PROVE ProcOK(s)'
  <2>1. ASSUME s.pc = "write"
        PROVE  /\ SeenSince(s.key, s.result)'
               /\ s.result.status = "ok" => seen'[s.key] <= (IF s.late THEN 1 ELSE 0)
    <3>1. /\ s.key \in Keys /\ s.result \in Results /\ SeenSince(s.key, s.result)
          /\ s.result.status = "ok" => seen[s.key] <= (IF s.late THEN 1 ELSE 0)
      BY <1>5, <2>1 DEF ProcOK, ProcType
    <3>2. 0 <= (IF s.late THEN 1 ELSE 0)
      OBVIOUS
    <3> QED BY <1>2, <1>3, <3>1, <3>2
  <2> QED BY <1>1, <1>5, <2>1 DEF ProcOK, On
<1>6. UserInv'
  <2>1. ASSUME NEW q \in Procs PROVE ProcOK(proc[q])'
    <3>1. PICK s : s = proc[q]
      OBVIOUS
    <3>2. ProcOK(s)'
      BY <1>5, <3>1, ProcFacts
    <3> QED BY <1>1, <3>1, <3>2
  <2> QED BY <1>1, <1>4, <2>1 DEF UserInv
<1> QED
  BY <1>1, <1>6, Unanswered

LEMMA RevokeStep == ASSUME UserInv, NEW k \in Keys, Revoke(k) PROVE UserInv' /\ Right
<1>1. /\ chain' = [chain EXCEPT ![k] = "revoked"]
      /\ UNCHANGED <<proof, seen, local, index, proc, tasks, world>>
  BY DEF Revoke
<1>2. /\ chain' \in [Keys -> {"linked", "revoked"}]
      /\ \A j \in Keys : chain[j] = "revoked" => chain'[j] = "revoked"
  BY <1>1 DEF UserInv, KeysInv
<1>3. KeysInv'
  BY <1>1, <1>2 DEF UserInv, KeysInv, SeenSince, On
<1>4. ASSUME NEW s, ProcOK(s) PROVE ProcOK(s)'
  BY <1>1, <1>2, <1>4 DEF ProcOK, SeenSince, On
<1>5. UserInv'
  <2>1. ASSUME NEW q \in Procs PROVE ProcOK(proc[q])'
    <3>1. PICK s : s = proc[q]
      OBVIOUS
    <3>2. ProcOK(s)'
      BY <1>4, <3>1, ProcFacts
    <3> QED BY <1>1, <3>1, <3>2
  <2> QED BY <1>1, <1>3, <2>1 DEF UserInv
<1> QED
  BY <1>1, <1>5, Unanswered

-----------------------------------------------------------------------------
LEMMA UserInit == Init => UserInv
<1> SUFFICES ASSUME Init PROVE UserInv
  OBVIOUS
<1>1. \A k \in Keys : index[k] = Missing \/ index[k] = Result("ok", 0, 0)
  BY DEF Init
<1>2. PICK f : f = Result("ok", 0, 0)
  OBVIOUS
<1>3. f \in Results /\ f.verified = 0
  BY <1>2, ResultFacts
<1>4. ASSUME NEW k \in Keys PROVE index[k] \in Results /\ SeenSince(k, index[k])
  <2>1. seen[k] = 0 /\ (index[k] = Missing \/ index[k] = f)
    BY <1>1, <1>2 DEF Init
  <2> QED BY <1>3, <2>1, MissingFacts, OldFacts DEF SeenSince
<1>5. KeysInv
  <2>1. index \in [Keys -> Results]
    BY <1>4 DEF Init
  <2>2. chain \in [Keys -> {"linked", "revoked"}] /\ \A k \in Keys : local[k] # "revoked"
    BY DEF Init
  <2>3. local \in [Keys -> {"none", "linked", "revoked"}]
    BY DEF Init
  <2> QED BY <1>4, <2>1, <2>2, <2>3 DEF Init, KeysInv
<1>6. ASSUME NEW p \in Procs PROVE ProcOK(proc[p])
  <2>1. PICK op \in {"all", "check"} : op = IF world.fresh THEN "all" ELSE "check"
    OBVIOUS
  <2>2. PICK r : r = Round(op)
    OBVIOUS
  <2>3. ProcOK(r)
    BY <2>2, RoundOK DEF Init
  <2>4. PICK i : i = Idle
    OBVIOUS
  <2>5. i = [Idle EXCEPT !.answer = "none"]
    BY <2>4, IdleFacts DEF ProcType
  <2>6. ProcOK(i)
    BY <2>5, IdleOK
  <2>7. proc[p] = r \/ proc[p] = i
    BY <2>1, <2>2, <2>4 DEF Init
  <2> QED BY <2>3, <2>6, <2>7
<1> QED
  BY <1>5, <1>6 DEF UserInv, Init

LEMMA UserNext == ASSUME UserInv, [Next]_vars PROVE UserInv' /\ Right
<1>1. CASE UNCHANGED vars
  <2>1. UNCHANGED <<outside, local, index, tasks>> /\ proc' = proc
    BY <1>1 DEF vars, outside
  <2>2. KeysInv' /\ \A s : ProcOK(s) => ProcOK(s)'
    BY <2>1, KeysKept
  <2>3. ASSUME NEW q \in Procs PROVE ProcOK(proc[q])'
    <3>1. PICK s : s = proc[q]
      OBVIOUS
    <3>2. ProcOK(s)'
      BY <2>2, <3>1, ProcFacts
    <3> QED BY <2>1, <3>1, <3>2
  <2> QED BY <2>1, <2>2, <2>3, Unanswered DEF UserInv
<1>2. CASE Next
  <2>1. world.keys \subseteq Keys /\ Calls \subseteq Procs
    BY WorldsAssumption DEF UserInv, KeysInv, Procs
  <2>2. CronCheck \/ (\E k \in world.keys : RequestCheck(k)) => UserInv' /\ Right
    BY TasksStep DEF CronCheck, RequestCheck
  <2>3. ASSUME NEW p \in Procs, Update(p) PROVE UserInv' /\ Right
    BY <2>3, FetchStep, SaveStep, CheckStep, WriteStep, CheckForKeyUpdateStep DEF Update
  <2> QED
    BY <1>2, <2>1, <2>2, <2>3, BeginStep, FindIdentityStep, EnsureVerifiedStep, LoopTickStep,
       LoopNextStep, ToggleStep, RevokeStep, TaskCheckStep, TickStep DEF Next
<1> QED
  BY <1>1, <1>2

\* However many calls, rounds of the loop and tasks overlap: an RPC goes on with a user
\* only if the proof was in place within the time a verification lasts and a tick, and
\* takes a key without a user for a name only when that user was revoked
\* (service/user.go ensureVerified, key.go, pull.go; server/check.go).
THEOREM AcceptsRecentCorrect == Spec => AcceptsRecent
<1> DEFINE A == \A c \in Calls : proc[c].pc # "idle" /\ proc'[c].pc = "idle" =>
         /\ proc'[c].answer = "accepted" => seen[proc[c].key] <= VerifyExpire + 1
         /\ proc'[c].answer = "unclaimed" /\ proc[c].op = "name" =>
              chain[proc[c].key] = "revoked"
<1>1. Init => UserInv
  BY UserInit
<1>2. UserInv /\ [Next]_vars => UserInv'
  BY UserNext
<1>3. UserInv /\ [Next]_vars => [A]_vars
  <2>1. ASSUME UserInv, [Next]_vars PROVE A
    BY <2>1, UserNext DEF Right, Answers, Procs
  <2> QED BY <2>1
<1>4. Spec => [][A]_vars
  BY <1>1, <1>2, <1>3, PTL DEF Spec
<1> QED
  BY <1>4 DEF AcceptsRecent
=============================================================================
