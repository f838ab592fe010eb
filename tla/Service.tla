------------------------------ MODULE Service -------------------------------
(***************************************************************************)
(* The life cycle of keysd: the RPCs that set up, unlock and lock it, and  *)
(* the pieces of state they move one after the other with no lock around   *)
(* the whole: the keyring, the auth tokens, the database, and the loop     *)
(* that checks every hour whether keys need an update.  Only Open and      *)
(* Close exclude each other (openMtx).                                     *)
(*                                                                         *)
(* The process has no shutdown of its own: it is killed, at any point, and *)
(* keyring and database files survive.  `keysd -reset-keyring` then        *)
(* empties the keyring and leaves the database where it is.                *)
(***************************************************************************)
EXTENDS Naturals

CONSTANTS
    Calls,      \* RPCs, each made once
    Passwords,
    MaxFaults,  \* bound on databases that cannot be opened
    MaxDeaths,  \* bound on processes killed
    None        \* no call, no channel, no key

ASSUME BoundsAssumption == MaxFaults \in Nat /\ MaxDeaths \in Nat
ASSUME NoneAssumption == None \notin Calls \cup (Passwords \X Nat)

VARIABLES
    auth,      \* the key the keyring is set up with, or None
    unlocked,  \* whether the keyring is unlocked
    tokens,    \* calls whose auth token is valid
    file,      \* the key the database file is encrypted with, or None
    open,      \* s.open
    removed,   \* whether the files of the open database were removed
    openMtx,   \* the call that holds openMtx, or None
    closeCh,   \* the call that made s.closeCh, or None (nil)
    loop,      \* loop[c]: the update loop that c started, and its channel
    rpc,       \* what each RPC is, its password, and where it is
    salt,      \* which salt of the keyring is in use
    alone,     \* history: the call that had no other call beside it so far
    torn,      \* history: calls that do not commute have overlapped
    setupDone, \* history: AuthSetup has succeeded with this keyring
    faults, deaths

store   == <<auth, salt, file>>
memory  == <<unlocked, tokens, open, removed, openMtx, closeCh, loop>>
history == <<alone, torn, setupDone, faults, deaths>>
vars    == <<store, memory, rpc, history>>

-----------------------------------------------------------------------------
Kinds == {"none", "setup", "unlock", "lock", "export"}

\* The salt is made with the keyring, so a new keyring has new keys.
Key(p) == <<p, salt>>
Keys == Passwords \X (0..MaxDeaths + 1)

InFlight == {c \in Calls : rpc[c].at \notin {"new", "done"}}

\* AuthLock undoes what the others do.
Clash(j, k) == (j = "lock") # (k = "lock")

Rpc(k, p, s) == [kind |-> k, password |-> p, at |-> s]

\* An RPC begins, at step s of its handler.
Begin(c, k, p, s) ==
    /\ rpc[c].at = "new"
    /\ rpc' = [rpc EXCEPT ![c] = Rpc(k, p, s)]
    /\ alone' = IF InFlight = {} THEN c ELSE None
    /\ torn' = (torn \/ \E d \in InFlight : Clash(k, rpc[d].kind))
    /\ UNCHANGED <<store, memory, setupDone, faults, deaths>>

At(c, s)   == rpc[c].at = s
Goto(c, s) == rpc' = [rpc EXCEPT ![c].at = s]
Finish(c)  == rpc' = [rpc EXCEPT ![c] = Rpc("none", None, "done")]

\* The RPC returns without an error.  A call that had the service to itself
\* leaves it whole, whatever it found.
Return(c) ==
    /\ Finish(c)
    /\ torn' = (torn /\ ~ (alone = c /\ rpc[c].kind # "export"))
    /\ alone' = IF alone = c THEN None ELSE alone
    /\ setupDone' = (setupDone \/ rpc[c].kind = "setup")
    /\ UNCHANGED <<faults, deaths>>

-----------------------------------------------------------------------------
(* The RPCs.                                                               *)

\* A setup that is not needed, and an unlock before setup, return at once.
AuthSetup(c, p)  == auth = None /\ Begin(c, "setup", p, "unlock")
AuthUnlock(c, p) == auth # None /\ Begin(c, "unlock", p, "unlock")
AuthLock(c)      == Begin(c, "lock", None, "lock")

\* KeyExport needs a token, and verifies the password by unlocking with it.
KeyExport(c, p)  == tokens # {} /\ Begin(c, "export", p, "unlock")

\* keyring.Unlock: the first auth sets the keyring up, later ones must match.
Unlock(c) ==
    /\ At(c, "unlock")
    /\ IF auth \in {None, Key(rpc[c].password)}
       THEN /\ auth' = Key(rpc[c].password)
            /\ unlocked' = TRUE
            /\ IF rpc[c].kind = "export" THEN Return(c) ELSE Goto(c, "token") /\ UNCHANGED history
       ELSE Finish(c) /\ UNCHANGED <<auth, unlocked, history>>
    /\ UNCHANGED <<salt, file, tokens, open, removed, openMtx, closeCh, loop>>

\* a.tokens[client] = token: at most one earlier token has the same client.
IssueToken(c) ==
    /\ At(c, "token")
    /\ \E same \in SUBSET tokens :
          /\ \A d, e \in same : d = e
          /\ tokens' = (tokens \ same) \cup {c}
    /\ Goto(c, IF rpc[c].kind = "setup" THEN "remove" ELSE "open")
    /\ UNCHANGED <<store, unlocked, open, removed, openMtx, closeCh, loop, history>>

\* Mutant of RemoveDB: the existing database is kept.
RemoveNothing(c) ==
    /\ At(c, "remove")
    /\ Goto(c, "open")
    /\ UNCHANGED <<store, memory, history>>

\* os.RemoveAll of the database, in use or not.
RemoveDB(c) ==
    /\ At(c, "remove")
    /\ file' = None
    /\ removed' = (removed \/ (open /\ file # None))
    /\ Goto(c, "open")
    /\ UNCHANGED <<auth, salt, unlocked, tokens, open, openMtx, closeCh, loop, history>>

-----------------------------------------------------------------------------
(* Open and Close.                                                         *)

\* close(), of an open service.  Whoever waits on closeCh wakes up.
CloseService == open' = FALSE /\ removed' = FALSE /\ closeCh' = None

OpenService(c) ==
    /\ At(c, "open") /\ openMtx = None
    /\ openMtx' = c
    /\ IF open THEN CloseService ELSE UNCHANGED <<open, removed, closeCh>>
    /\ Goto(c, "opendb")
    /\ UNCHANGED <<store, unlocked, tokens, loop, history>>

\* OpenAtPath, with the key that unlocked the keyring: nobody checks that it
\* is the key of an existing file.
OpenAtPath(c) ==
    /\ At(c, "opendb")
    /\ open' = TRUE
    /\ file' = IF file = None THEN Key(rpc[c].password) ELSE file
    /\ Goto(c, "check")
    /\ UNCHANGED <<auth, salt, unlocked, tokens, removed, openMtx, closeCh, loop, history>>

OpenFails(c) ==
    /\ At(c, "opendb")
    /\ faults < MaxFaults /\ faults' = faults + 1
    /\ openMtx' = None
    /\ Finish(c)
    /\ torn' = TRUE
    /\ UNCHANGED <<store, unlocked, tokens, open, removed, closeCh, loop,
                   alone, setupDone, deaths>>

\* Mutant of StartUpdateCheck: no channel for the new loop.
StartUpdateCheckNil(c) ==
    /\ At(c, "check")
    /\ loop' = [loop EXCEPT ![c] = [at |-> "checking", ch |-> None]]
    /\ openMtx' = None
    /\ Return(c)
    /\ UNCHANGED <<store, unlocked, tokens, open, removed, closeCh>>

\* After updateAllKeys, which takes as long as the network.
StartUpdateCheck(c) ==
    /\ At(c, "check")
    /\ closeCh' = c
    /\ loop' = [loop EXCEPT ![c] = [at |-> "checking", ch |-> None]]
    /\ openMtx' = None
    /\ Return(c)
    /\ UNCHANGED <<store, unlocked, tokens, open, removed>>

\* auth.lock: the keyring, then the tokens.
LockKeyring(c) ==
    /\ At(c, "lock")
    /\ unlocked' = FALSE
    /\ Goto(c, "tokens")
    /\ UNCHANGED <<store, tokens, open, removed, openMtx, closeCh, loop, history>>

\* Mutant of ResetTokens: tokens outlive the lock.
KeepTokens(c) ==
    /\ At(c, "tokens")
    /\ Goto(c, "close")
    /\ UNCHANGED <<store, memory, history>>

ResetTokens(c) ==
    /\ At(c, "tokens")
    /\ tokens' = {}
    /\ Goto(c, "close")
    /\ UNCHANGED <<store, unlocked, open, removed, openMtx, closeCh, loop, history>>

Close(c) ==
    /\ At(c, "close") /\ openMtx = None
    /\ IF open THEN CloseService ELSE UNCHANGED <<open, removed, closeCh>>
    /\ Return(c)
    /\ UNCHANGED <<store, unlocked, tokens, openMtx, loop>>

-----------------------------------------------------------------------------
(* The goroutine that startUpdateCheck of call c starts.                   *)

\* A check ends and select reads s.closeCh again, whichever it is by now: nil
\* after a Close, and the channel of a later loop after another Open.
EndCheck(c) ==
    /\ loop[c].at = "checking"
    /\ loop' = [loop EXCEPT ![c] = [at |-> "waiting", ch |-> closeCh]]
    /\ UNCHANGED <<store, unlocked, tokens, open, removed, openMtx, closeCh, rpc, history>>

\* The ticker.
BeginCheck(c) ==
    /\ loop[c].at = "waiting"
    /\ loop' = [loop EXCEPT ![c] = [at |-> "checking", ch |-> None]]
    /\ UNCHANGED <<store, unlocked, tokens, open, removed, openMtx, closeCh, rpc, history>>

\* The channel it waits on was closed (a nil channel never is).
EndLoop(c) ==
    /\ loop[c].at = "waiting" /\ loop[c].ch \notin {None, closeCh}
    /\ loop' = [loop EXCEPT ![c] = [at |-> "none", ch |-> None]]
    /\ UNCHANGED <<store, unlocked, tokens, open, removed, openMtx, closeCh, rpc, history>>

-----------------------------------------------------------------------------
(* The process is killed and starts again, after a -reset-keyring or not.  *)

Kill ==
    /\ deaths < MaxDeaths /\ deaths' = deaths + 1
    /\ \/ auth' = None /\ salt' = salt + 1 /\ setupDone' = FALSE
       \/ UNCHANGED <<auth, salt, setupDone>>
    /\ unlocked' = FALSE /\ tokens' = {} /\ open' = FALSE /\ removed' = FALSE
    /\ openMtx' = None /\ closeCh' = None
    /\ loop' = [c \in Calls |-> [at |-> "none", ch |-> None]]
    /\ rpc' = [c \in Calls |-> IF c \in InFlight THEN Rpc("none", None, "done") ELSE rpc[c]]
    /\ alone' = None /\ torn' = FALSE
    /\ UNCHANGED <<file, faults>>

\* A database may be left from a keyring that was reset.
Init ==
    /\ auth = None /\ salt = 1
    /\ file = None \/ \E p \in Passwords : file = <<p, 0>>
    /\ unlocked = FALSE /\ tokens = {} /\ open = FALSE /\ removed = FALSE
    /\ openMtx = None /\ closeCh = None
    /\ loop = [c \in Calls |-> [at |-> "none", ch |-> None]]
    /\ rpc = [c \in Calls |-> Rpc("none", None, "new")]
    /\ alone = None /\ torn = FALSE /\ setupDone = FALSE
    /\ faults = 0 /\ deaths = 0

Handler(c) == \/ Unlock(c) \/ IssueToken(c) \/ RemoveDB(c)
              \/ OpenService(c) \/ OpenAtPath(c) \/ OpenFails(c) \/ StartUpdateCheck(c)
              \/ LockKeyring(c) \/ ResetTokens(c) \/ Close(c)

Loop(c) == EndCheck(c) \/ BeginCheck(c) \/ EndLoop(c)

Next ==
    \/ \E c \in Calls :
          \/ \E p \in Passwords : AuthSetup(c, p) \/ AuthUnlock(c, p) \/ KeyExport(c, p)
          \/ AuthLock(c) \/ Handler(c) \/ Loop(c)
    \/ Kill

Spec == Init /\ [][Next]_vars

-----------------------------------------------------------------------------
(* Properties.                                                             *)

\* Every variable keeps its type, and openMtx is held by a call inside Open.
TypeOK ==
    /\ auth \in Keys \cup {None} /\ file \in Keys \cup {None}
    /\ salt \in 0..MaxDeaths + 1
    /\ {unlocked, open, removed, torn, setupDone} \subseteq BOOLEAN
    /\ tokens \subseteq Calls
    /\ {openMtx, closeCh, alone} \subseteq Calls \cup {None}
    /\ loop \in [Calls -> [at : {"none", "checking", "waiting"}, ch : Calls \cup {None}]]
    /\ rpc \in [Calls -> [kind : Kinds, password : Passwords \cup {None},
                          at : {"new", "unlock", "token", "remove", "open", "opendb",
                                "check", "lock", "tokens", "close", "done"}]]
    /\ openMtx # None => rpc[openMtx].at \in {"opendb", "check"}
    /\ faults \in 0..MaxFaults /\ deaths \in 0..MaxDeaths

\* When no RPC is under way, keyring, tokens and database agree: all of them
\* are open to the user, or none is.  It holds as long as AuthLock does not
\* overlap the RPCs that unlock and the database can be opened, and again
\* after the next AuthLock, AuthUnlock or AuthSetup that runs alone.
SessionWhole ==
    InFlight = {} /\ ~ torn =>
        /\ open = unlocked
        /\ (tokens # {}) = unlocked

\* Once AuthSetup has succeeded, the database file is encrypted with the key
\* of the keyring, whatever other database there was, whichever RPCs opened
\* it meanwhile, and wherever the process is killed later; and when no setup
\* is under way the open database is the one on disk.
SetupRebuilds ==
    setupDone => /\ file \in {None, auth}
                 /\ (\A c \in InFlight : rpc[c].kind # "setup") => ~ removed

\* A service that is open has a loop that goes on checking keys: one that is
\* in a check, and reads the live channel after it, or one that waits on it.
KeepsChecking ==
    open /\ openMtx = None =>
        /\ closeCh # None
        /\ \E c \in Calls : \/ loop[c].at = "checking"
                            \/ loop[c].at = "waiting" /\ loop[c].ch = closeCh

\* The open database is encrypted with the key of the keyring: AuthSetup
\* removes a database that was there before, "since the pre-existing key is
\* different".
KeyMatches ==
    open /\ (\A c \in InFlight : rpc[c].kind # "setup") => file \in {None, auth}
=============================================================================
