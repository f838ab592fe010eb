--------------------------- MODULE Service_proofs ---------------------------
(***************************************************************************)
(* Proofs about the life cycle of keysd, for any number of RPCs,           *)
(* passwords, databases that cannot be opened and processes killed.        *)
(***************************************************************************)
EXTENDS Service, TLAPS

\* What the proofs need of the types.
Handled == {"new", "unlock", "token", "remove", "open", "opendb", "check",
            "lock", "tokens", "close", "done"}

RpcType == [kind : Kinds, password : Passwords \cup {None}, at : Handled]
LoopType == [at : {"none", "checking", "waiting"}, ch : Calls \cup {None}]

Types == /\ unlocked \in BOOLEAN /\ open \in BOOLEAN /\ removed \in BOOLEAN
         /\ torn \in BOOLEAN /\ setupDone \in BOOLEAN
         /\ rpc \in [Calls -> RpcType]
         /\ loop \in [Calls -> LoopType]
         /\ closeCh \in Calls \cup {None} /\ openMtx \in Calls \cup {None}
         /\ alone \in Calls \cup {None} /\ tokens \subseteq Calls

\* Where an RPC of each kind can be.
Route == \A c \in Calls :
            /\ rpc[c].at \in {"new", "done"} <=> rpc[c].kind = "none"
            /\ rpc[c].at = "unlock" => rpc[c].kind \in {"setup", "unlock", "export"}
            /\ rpc[c].at \in {"token", "open", "opendb", "check"}
                  => rpc[c].kind \in {"setup", "unlock"}
            /\ rpc[c].at = "remove" => rpc[c].kind = "setup"
            /\ rpc[c].at \in {"lock", "tokens", "close"} => rpc[c].kind = "lock"
            /\ rpc[c].kind \in {"setup", "unlock", "export"} => rpc[c].password \in Passwords

\* Open holds openMtx from where it closed the service to where it returns.
Exclusive == \A c \in Calls : /\ rpc[c].at \in {"opendb", "check"} <=> openMtx = c
                              /\ rpc[c].at = "opendb" => ~open
                              /\ rpc[c].at = "check" => open

Base == Types /\ Route /\ Exclusive

-----------------------------------------------------------------------------
LEMMA BaseInit == Init => Base
<1> SUFFICES ASSUME Init PROVE Base
  OBVIOUS
<1>1. Types
  BY DEF Init, Types, Rpc, RpcType, LoopType, Handled, Kinds
<1>2. Route /\ Exclusive
  BY NoneAssumption DEF Init, Route, Exclusive, Rpc
<1> QED BY <1>1, <1>2 DEF Base

LEMMA BaseNext == Base /\ [Next]_vars => Base'
<1> SUFFICES ASSUME Base, [Next]_vars PROVE Base'
  OBVIOUS
<1> USE NoneAssumption DEF Base, Rpc, At, Goto, Finish, store, memory, history
<1>1. ASSUME NEW c \in Calls, NEW p \in Passwords, AuthSetup(c, p) \/ AuthUnlock(c, p) \/ KeyExport(c, p)
      PROVE  Base'
  <2>1. Types'
    <3>1. PICK k \in {"setup", "unlock", "export"} : Begin(c, k, p, "unlock")
      BY <1>1 DEF AuthSetup, AuthUnlock, KeyExport
    <3>2. [kind |-> k, password |-> p, at |-> "unlock"] \in RpcType
      BY DEF RpcType, Handled, Kinds
    <3>3. rpc' \in [Calls -> RpcType]
      BY <3>1, <3>2 DEF Begin, Types
    <3> QED BY <3>1, <3>3 DEF Begin, Types
  <2>2. Route'
    BY <1>1 DEF Route, Types, RpcType, AuthSetup, AuthUnlock, KeyExport, Begin
  <2>3. Exclusive'
    BY <1>1 DEF Exclusive, Types, RpcType, AuthSetup, AuthUnlock, KeyExport, Begin
  <2> QED BY <2>1, <2>2, <2>3
<1>2. ASSUME NEW c \in Calls, AuthLock(c)
      PROVE  Base'
  <2>1. Types'
    BY <1>2 DEF Types, RpcType, LoopType, Handled, Kinds, AuthLock, Begin
  <2>2. Route'
    BY <1>2 DEF Route, Types, RpcType, AuthLock, Begin
  <2>3. Exclusive'
    BY <1>2 DEF Exclusive, Types, RpcType, AuthLock, Begin
  <2> QED BY <2>1, <2>2, <2>3
<1>3. ASSUME NEW c \in Calls, Unlock(c)
      PROVE  Base'
  <2>1. Types'
    <3>1. rpc' = [rpc EXCEPT ![c] = Rpc("none", None, "done")] \/ rpc' = [rpc EXCEPT ![c].at = "token"]
      BY <1>3 DEF Unlock, Return
    <3>2. rpc' \in [Calls -> RpcType]
      BY <3>1 DEF Types, RpcType, Handled, Kinds
    <3>3. /\ unlocked' \in BOOLEAN /\ torn' \in BOOLEAN /\ setupDone' \in BOOLEAN
          /\ alone' \in Calls \cup {None}
      BY <1>3 DEF Unlock, Return, Types
    <3>4. UNCHANGED <<loop, tokens, open, removed, openMtx, closeCh>>
      BY <1>3 DEF Unlock
    <3> QED BY <3>2, <3>3, <3>4 DEF Types
  <2>2. Route'
    BY <1>3 DEF Route, Types, RpcType, Unlock, Return
  <2>3. Exclusive'
    BY <1>3 DEF Exclusive, Types, RpcType, Unlock, Return
  <2> QED BY <2>1, <2>2, <2>3
<1>4. ASSUME NEW c \in Calls, IssueToken(c)
      PROVE  Base'
  <2>1. Types'
    BY <1>4 DEF Types, RpcType, LoopType, Handled, Kinds, IssueToken
  <2>2. Route'
    BY <1>4 DEF Route, Types, RpcType, IssueToken
  <2>3. Exclusive'
    BY <1>4 DEF Exclusive, Types, RpcType, IssueToken
  <2> QED BY <2>1, <2>2, <2>3
<1>5. ASSUME NEW c \in Calls, RemoveDB(c)
      PROVE  Base'
  <2>1. Types'
    BY <1>5 DEF Types, RpcType, LoopType, Handled, Kinds, RemoveDB
  <2>2. Route'
    BY <1>5 DEF Route, Types, RpcType, RemoveDB
  <2>3. Exclusive'
    BY <1>5 DEF Exclusive, Types, RpcType, RemoveDB
  <2> QED BY <2>1, <2>2, <2>3
<1>6. ASSUME NEW c \in Calls, OpenService(c)
      PROVE  Base'
  <2>1. Types'
    BY ZenonT(30), <1>6 DEF Types, RpcType, LoopType, Handled, Kinds, OpenService, CloseService
  <2>2. Route'
    BY <1>6 DEF Route, Types, RpcType, OpenService, CloseService
  <2>3. Exclusive'
    BY <1>6 DEF Exclusive, Types, RpcType, OpenService, CloseService
  <2> QED BY <2>1, <2>2, <2>3
<1>7. ASSUME NEW c \in Calls, OpenAtPath(c)
      PROVE  Base'
  <2>1. Types'
    BY <1>7 DEF Types, RpcType, LoopType, Handled, Kinds, OpenAtPath
  <2>2. Route'
    BY <1>7 DEF Route, Types, RpcType, OpenAtPath
  <2>3. Exclusive'
    BY <1>7 DEF Exclusive, Types, RpcType, OpenAtPath
  <2> QED BY <2>1, <2>2, <2>3
<1>8. ASSUME NEW c \in Calls, OpenFails(c)
      PROVE  Base'
  <2>1. Types'
    BY <1>8 DEF Types, RpcType, LoopType, Handled, Kinds, OpenFails
  <2>2. Route'
    BY <1>8 DEF Route, Types, RpcType, OpenFails
  <2>3. Exclusive'
    BY <1>8 DEF Exclusive, Types, RpcType, OpenFails
  <2> QED BY <2>1, <2>2, <2>3
<1>9. ASSUME NEW c \in Calls, StartUpdateCheck(c)
      PROVE  Base'
  <2>1. Types'
    BY <1>9 DEF Types, RpcType, LoopType, Handled, Kinds, StartUpdateCheck, Return
  <2>2. Route'
    BY <1>9 DEF Route, Types, RpcType, StartUpdateCheck, Return
  <2>3. Exclusive'
    BY <1>9 DEF Exclusive, Types, RpcType, StartUpdateCheck, Return
  <2> QED BY <2>1, <2>2, <2>3
<1>10. ASSUME NEW c \in Calls, LockKeyring(c) \/ ResetTokens(c)
      PROVE  Base'
  <2>1. Types'
    <3>1. rpc' \in [Calls -> RpcType]
      BY <1>10 DEF Types, RpcType, Handled, Kinds, LockKeyring, ResetTokens
    <3>2. unlocked' \in BOOLEAN /\ tokens' \subseteq Calls
      BY <1>10 DEF Types, LockKeyring, ResetTokens
    <3>3. UNCHANGED <<loop, open, removed, openMtx, closeCh, torn, setupDone, alone>>
      BY <1>10 DEF LockKeyring, ResetTokens
    <3> QED BY <3>1, <3>2, <3>3 DEF Types
  <2>2. Route'
    BY <1>10 DEF Route, Types, RpcType, LockKeyring, ResetTokens
  <2>3. Exclusive'
    BY <1>10 DEF Exclusive, Types, RpcType, LockKeyring, ResetTokens
  <2> QED BY <2>1, <2>2, <2>3
<1>11. ASSUME NEW c \in Calls, Close(c)
      PROVE  Base'
  <2>1. Types'
    BY <1>11 DEF Types, RpcType, LoopType, Handled, Kinds, Close, CloseService, Return
  <2>2. Route'
    BY <1>11 DEF Route, Types, RpcType, Close, CloseService, Return
  <2>3. Exclusive'
    BY <1>11 DEF Exclusive, Types, RpcType, Close, CloseService, Return
  <2> QED BY <2>1, <2>2, <2>3
<1>12. ASSUME NEW c \in Calls, Loop(c)
      PROVE  Base'
  <2>1. Types'
    BY <1>12 DEF Types, RpcType, LoopType, Handled, Kinds, Loop, EndCheck, BeginCheck, EndLoop
  <2>2. Route'
    BY <1>12 DEF Route, Types, RpcType, Loop, EndCheck, BeginCheck, EndLoop
  <2>3. Exclusive'
    BY <1>12 DEF Exclusive, Types, RpcType, Loop, EndCheck, BeginCheck, EndLoop
  <2> QED BY <2>1, <2>2, <2>3
<1>13. CASE Kill
  <2>1. Types'
    BY <1>13 DEF Kill, Types, RpcType, LoopType, Handled, Kinds
  <2>2. Route'
    BY <1>13 DEF Kill, Route, Types, RpcType
  <2>3. Exclusive'
    BY <1>13 DEF Kill, Exclusive, Types, RpcType, InFlight
  <2> QED BY <2>1, <2>2, <2>3
<1>14. CASE UNCHANGED vars
  BY <1>14 DEF vars, Types, Route, Exclusive
<1> QED
  BY <1>1, <1>2, <1>3, <1>4, <1>5, <1>6, <1>7, <1>8, <1>9, <1>10, <1>11, <1>12, <1>13, <1>14
     DEF Next, Handler

-----------------------------------------------------------------------------
(* KeepsChecking needs no more than that.                                  *)

LEMMA CheckingNext == Base /\ KeepsChecking /\ [Next]_vars => KeepsChecking'
<1> SUFFICES ASSUME Base, KeepsChecking, [Next]_vars PROVE KeepsChecking'
  OBVIOUS
<1> USE NoneAssumption DEF KeepsChecking, At, Goto, Finish, store, memory, history
<1>1. ASSUME UNCHANGED <<open, openMtx, closeCh, loop>> PROVE KeepsChecking'
  BY <1>1
<1>2. ASSUME NEW c \in Calls, NEW p \in Passwords, AuthSetup(c, p) \/ AuthUnlock(c, p) \/ KeyExport(c, p)
      PROVE  KeepsChecking'
  BY <1>1, <1>2 DEF AuthSetup, AuthUnlock, KeyExport, Begin
<1>3. ASSUME NEW c \in Calls,
             AuthLock(c) \/ Unlock(c) \/ IssueToken(c) \/ RemoveDB(c) \/ LockKeyring(c) \/ ResetTokens(c)
      PROVE  KeepsChecking'
  BY <1>1, <1>3 DEF AuthLock, Begin, Unlock, IssueToken, RemoveDB, LockKeyring, ResetTokens
<1>4. ASSUME NEW c \in Calls, OpenService(c) PROVE KeepsChecking'
  BY <1>4 DEF OpenService
<1>5. ASSUME NEW c \in Calls, OpenAtPath(c) PROVE KeepsChecking'
  BY <1>5 DEF OpenAtPath, Base, Exclusive
<1>6. ASSUME NEW c \in Calls, OpenFails(c) PROVE KeepsChecking'
  BY <1>6 DEF OpenFails, Base, Exclusive
<1>7. ASSUME NEW c \in Calls, StartUpdateCheck(c) PROVE KeepsChecking'
  <2>1. closeCh' = c /\ loop'[c].at = "checking"
    BY <1>7 DEF StartUpdateCheck, Base, Types, LoopType
  <2> QED BY <2>1
<1>8. ASSUME NEW c \in Calls, Close(c) PROVE KeepsChecking'
  BY <1>8, <1>1 DEF Close, CloseService
<1>9. ASSUME NEW c \in Calls, Loop(c) PROVE KeepsChecking'
  <2>1. /\ UNCHANGED <<open, openMtx, closeCh>>
        /\ \A d \in Calls : d # c => loop'[d] = loop[d]
    BY <1>9 DEF Loop, EndCheck, BeginCheck, EndLoop, Base, Types
  <2>2. \/ loop'[c].at = "checking"
        \/ loop'[c].at = "waiting" /\ loop'[c].ch = closeCh
        \/ loop[c].at = "waiting" /\ loop[c].ch \notin {None, closeCh}
    BY <1>9 DEF Loop, EndCheck, BeginCheck, EndLoop, Base, Types, LoopType
  <2> QED BY <2>1, <2>2
<1>10. CASE Kill
  BY <1>10 DEF Kill
<1>11. CASE UNCHANGED vars
  BY <1>1, <1>11 DEF vars
<1> QED
  BY <1>2, <1>3, <1>4, <1>5, <1>6, <1>7, <1>8, <1>9, <1>10, <1>11 DEF Next, Handler

\* A service that is open goes on checking its keys, however calls that open
\* and close it follow one another while checks of earlier loops still run.
THEOREM KeepsCheckingCorrect == Spec => []KeepsChecking
<1>1. Init => KeepsChecking
  BY DEF Init, KeepsChecking
<1> QED
  BY <1>1, BaseInit, BaseNext, CheckingNext, PTL DEF Spec

-----------------------------------------------------------------------------
(* AuthSetup removes what database there was before it opens one.          *)

Unlocked(c) == rpc[c].at \in {"token", "remove", "open", "opendb", "check"}
SetUp(c)    == rpc[c].kind = "setup" /\ rpc[c].at \in {"open", "opendb", "check"}

Rebuilt ==
    /\ salt \in Nat
    /\ \A c \in Calls : Unlocked(c) => auth = Key(rpc[c].password)
    /\ setupDone => auth # None
    /\ setupDone \/ (\E c \in Calls : SetUp(c)) => file \in {None, auth}
    /\ removed => open /\ \E c \in Calls : rpc[c].at = "open" /\ rpc[c].kind = "setup"

LEMMA KeyNotNone == ASSUME Rebuilt, NEW p \in Passwords
                    PROVE  Key(p) # None
BY NoneAssumption DEF Rebuilt, Key

LEMMA RebuiltNext == Base /\ Rebuilt /\ [Next]_vars => Rebuilt'
<1> SUFFICES ASSUME Base, Rebuilt, [Next]_vars PROVE Rebuilt'
  OBVIOUS
<1> USE DEF Rebuilt, Unlocked, SetUp, Key, Rpc, At, Goto, Finish, store, memory, history,
            Base, Types, RpcType
<1>1. ASSUME NEW c \in Calls, NEW p \in Passwords, AuthSetup(c, p) \/ AuthUnlock(c, p) \/ KeyExport(c, p)
      PROVE  Rebuilt'
  BY <1>1 DEF AuthSetup, AuthUnlock, KeyExport, Begin
<1>2. ASSUME NEW c \in Calls, AuthLock(c) PROVE Rebuilt'
  BY <1>2 DEF AuthLock, Begin
<1>3. ASSUME NEW c \in Calls, Unlock(c) PROVE Rebuilt'
  BY <1>3, KeyNotNone DEF Unlock, Return, Route
<1>4. ASSUME NEW c \in Calls, IssueToken(c) PROVE Rebuilt'
  BY <1>4 DEF IssueToken
<1>5. ASSUME NEW c \in Calls, RemoveDB(c) PROVE Rebuilt'
  BY <1>5 DEF RemoveDB, Route
<1>6. ASSUME NEW c \in Calls, OpenService(c) PROVE Rebuilt'
  BY <1>6 DEF OpenService, CloseService
<1>7. ASSUME NEW c \in Calls, OpenAtPath(c) PROVE Rebuilt'
  BY <1>7 DEF OpenAtPath
<1>8. ASSUME NEW c \in Calls, OpenFails(c) PROVE Rebuilt'
  BY <1>8 DEF OpenFails
<1>9. ASSUME NEW c \in Calls, StartUpdateCheck(c) PROVE Rebuilt'
  BY <1>9, KeyNotNone DEF StartUpdateCheck, Return, Route
<1>10. ASSUME NEW c \in Calls, LockKeyring(c) \/ ResetTokens(c) PROVE Rebuilt'
  BY <1>10 DEF LockKeyring, ResetTokens
<1>11. ASSUME NEW c \in Calls, Close(c) PROVE Rebuilt'
  <2>1. /\ auth' = auth /\ salt' = salt /\ file' = file
        /\ \A d \in Calls : d # c => rpc'[d] = rpc[d]
        /\ rpc'[c].at = "done"
    BY <1>11 DEF Close, Return
  <2>2. rpc[c].at = "close" /\ rpc[c].kind # "setup" /\ setupDone' = setupDone
    BY <1>11 DEF Close, Return, Route
  <2>3. ~ removed'
    BY <1>11 DEF Close, CloseService
  <2> QED BY <2>1, <2>2, <2>3
<1>12. ASSUME NEW c \in Calls, Loop(c) PROVE Rebuilt'
  BY <1>12 DEF Loop, EndCheck, BeginCheck, EndLoop
<1>13. CASE Kill
  BY <1>13 DEF Kill, InFlight
<1>14. CASE UNCHANGED vars
  BY <1>14 DEF vars
<1> QED
  BY <1>1, <1>2, <1>3, <1>4, <1>5, <1>6, <1>7, <1>8, <1>9, <1>10, <1>11, <1>12, <1>13, <1>14
     DEF Next, Handler

\* After AuthSetup the database file has the keyring's key, and the database in
\* use is the one on disk.
THEOREM SetupRebuildsCorrect == Spec => []SetupRebuilds
<1>1. Init => Rebuilt
  BY DEF Init, Rebuilt, Rpc, Unlocked, SetUp
<1>2. Base /\ Rebuilt => SetupRebuilds
  BY DEF Base, Route, Rebuilt, SetupRebuilds, InFlight
<1> QED
  BY <1>1, <1>2, BaseInit, BaseNext, RebuiltNext, PTL DEF Spec

-----------------------------------------------------------------------------
(* Keyring, tokens and database.  While calls that clash overlap nothing is *)
(* known of them; a call that has the service to itself knows what it did.  *)

\* What call c has done when it is where it is.
Did(c) ==
    /\ Unlocked(c) => unlocked
    /\ rpc[c].at \in {"remove", "open", "opendb", "check"} => tokens # {}
    /\ rpc[c].at \in {"tokens", "close"} => ~ unlocked
    /\ rpc[c].at = "close" => tokens = {}

\* All calls under way lock, or none does.
NoClash == \A c, d \in Calls : rpc[c].kind = "lock" => rpc[d].kind \in {"none", "lock"}

\* Where keyring, tokens and database differ, a call is on its way to make them agree.
OnTheWay ==
    /\ unlocked => tokens # {} \/ \E c \in Calls : rpc[c].at = "token"
    /\ tokens # {} => unlocked \/ \E c \in Calls : rpc[c].at = "tokens"
    /\ unlocked => open \/ \E c \in Calls : rpc[c].at \in {"token", "remove", "open", "opendb"}
    /\ open => unlocked \/ \E c \in Calls : rpc[c].at \in {"tokens", "close"}

ExportUnlocked == \A c \in Calls : rpc[c].kind = "export" => unlocked

Alone == alone # None => \A d \in Calls : d # alone => rpc[d].kind = "none"

Whole == /\ Alone
         /\ \A c \in Calls : ~ torn \/ alone = c => Did(c)
         /\ ~ torn => NoClash /\ OnTheWay /\ ExportUnlocked

LEMMA BeginWhole ==
    ASSUME Base, Whole, NEW c \in Calls, NEW k \in Kinds \ {"none"}, NEW p,
           NEW s \in {"unlock", "lock"}, Begin(c, k, p, s), s = "lock" <=> k = "lock",
           k = "export" => tokens # {}
    PROVE  Whole'
<1> USE DEF Base, Types, RpcType, Whole
<1>1. /\ rpc'[c] = [kind |-> k, password |-> p, at |-> s]
      /\ \A d \in Calls : d # c => rpc'[d] = rpc[d]
      /\ rpc[c].kind = "none" /\ rpc[c].at = "new"
      /\ UNCHANGED <<unlocked, tokens, open>>
  BY DEF Begin, Rpc, Route, store, memory
<1>2. (alone' = c /\ InFlight = {}) \/ alone' = None
  BY DEF Begin
<1>3. \A d \in Calls : d \in InFlight <=> rpc[d].kind # "none"
  BY DEF InFlight, Route
<1>4. Alone'
  BY <1>1, <1>2, <1>3 DEF Alone
<1>5. ~ torn' => ~ torn /\ \A d \in Calls : rpc[d].kind # "none" => ~ Clash(k, rpc[d].kind)
  BY <1>3 DEF Begin
<1>6. ~ torn' => NoClash'
  BY <1>1, <1>5 DEF NoClash, Clash
<1>7. ~ torn' => OnTheWay'
  BY <1>1, <1>5 DEF OnTheWay
<1>8. ~ torn' => ExportUnlocked'
  <2>1. ~ torn' /\ k = "export" => unlocked
    BY <1>1, <1>5 DEF OnTheWay, Clash, Route
  <2> QED BY <1>1, <1>5, <2>1 DEF ExportUnlocked
<1>9. \A d \in Calls : ~ torn' \/ alone' = d => Did(d)'
  BY <1>1, <1>2, <1>5, NoneAssumption DEF Did, Unlocked
<1> QED BY <1>4, <1>6, <1>7, <1>8, <1>9

LEMMA WholeNext == Base /\ Whole /\ [Next]_vars => Whole'
<1> SUFFICES ASSUME Base, Whole, [Next]_vars PROVE Whole'
  OBVIOUS
<1> USE NoneAssumption DEF Whole, Did, Unlocked, NoClash, OnTheWay, ExportUnlocked, Alone,
            Rpc, At, Goto, Finish, store, memory, history, Base, Types, RpcType
<1>1. ASSUME NEW c \in Calls, NEW p \in Passwords, AuthSetup(c, p) \/ AuthUnlock(c, p) \/ KeyExport(c, p)
      PROVE  Whole'
  BY <1>1, BeginWhole DEF AuthSetup, AuthUnlock, KeyExport, Kinds
<1>2. ASSUME NEW c \in Calls, AuthLock(c) PROVE Whole'
  BY <1>2, BeginWhole DEF AuthLock, Kinds
<1>3. ASSUME NEW c \in Calls, Unlock(c) PROVE Whole'
  BY <1>3 DEF Unlock, Return, Route
<1>4. ASSUME NEW c \in Calls, IssueToken(c) PROVE Whole'
  BY <1>4 DEF IssueToken, Route
<1>5. ASSUME NEW c \in Calls, RemoveDB(c) PROVE Whole'
  BY <1>5 DEF RemoveDB, Route
<1>6. ASSUME NEW c \in Calls, OpenService(c) PROVE Whole'
  BY <1>6 DEF OpenService, CloseService, Route
<1>7. ASSUME NEW c \in Calls, OpenAtPath(c) PROVE Whole'
  BY <1>7 DEF OpenAtPath, Route
<1>8. ASSUME NEW c \in Calls, OpenFails(c) PROVE Whole'
  BY <1>8 DEF OpenFails, Route
<1>9. ASSUME NEW c \in Calls, StartUpdateCheck(c) PROVE Whole'
  BY <1>9 DEF StartUpdateCheck, Return, Route, Exclusive
<1>10. ASSUME NEW c \in Calls, LockKeyring(c) PROVE Whole'
  BY <1>10 DEF LockKeyring, Route
<1>11. ASSUME NEW c \in Calls, ResetTokens(c) PROVE Whole'
  BY <1>11 DEF ResetTokens, Route
<1>12. ASSUME NEW c \in Calls, Close(c) PROVE Whole'
  BY <1>12 DEF Close, CloseService, Return, Route
<1>13. ASSUME NEW c \in Calls, Loop(c) PROVE Whole'
  BY <1>13 DEF Loop, EndCheck, BeginCheck, EndLoop
<1>14. CASE Kill
  BY <1>14 DEF Kill, InFlight, Route
<1>15. CASE UNCHANGED vars
  BY <1>15 DEF vars
<1> QED
  BY <1>1, <1>2, <1>3, <1>4, <1>5, <1>6, <1>7, <1>8, <1>9, <1>10, <1>11, <1>12, <1>13,
     <1>14, <1>15 DEF Next, Handler

\* Between calls the keyring, the tokens and the database are open together or not
\* at all, unless calls that clash have overlapped since one last ran alone.
THEOREM SessionWholeCorrect == Spec => []SessionWhole
<1>1. Init => Whole
  BY NoneAssumption DEF Init, Whole, Rpc, Did, Unlocked, NoClash, OnTheWay, ExportUnlocked, Alone
<1>2. Base /\ Whole => SessionWhole
  <2> SUFFICES ASSUME Base, Whole, InFlight = {}, ~ torn
               PROVE  open = unlocked /\ (tokens # {}) = unlocked
    BY DEF SessionWhole
  <2>1. \A c \in Calls : rpc[c].at \in {"new", "done"}
    BY DEF InFlight
  <2>2. /\ unlocked <=> tokens # {}
        /\ unlocked <=> open
    BY <2>1 DEF Whole, OnTheWay
  <2>3. unlocked \in BOOLEAN /\ open \in BOOLEAN
    BY DEF Base, Types
  <2> QED BY <2>2, <2>3
<1> QED
  BY <1>1, <1>2, BaseInit, BaseNext, WholeNext, PTL DEF Spec
=============================================================================
