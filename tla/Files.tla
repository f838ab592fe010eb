------------------------------- MODULE Files -------------------------------
(***************************************************************************)
(* EncryptFile, SignFile, DecryptFile and VerifyFile (service/encrypt.go,  *)
(* sign.go, decrypt.go, verify.go): keysd reads one file and writes        *)
(* another, through {out}.tmp, which it renames when it is complete and    *)
(* removes when it is not.                                                 *)
(*                                                                         *)
(* The calls here all write to one path. They interleave at every system   *)
(* call, and keysd may be killed between any two. A file is an inode: who  *)
(* has it open goes on writing to it under whatever name it then has.      *)
(***************************************************************************)
EXTENDS Naturals

CONSTANTS FileCalls,  \* calls
          Inodes,     \* as many as there can be files
          Missing,    \* no file under this name
          Asked       \* what a call may be asked: [kind, size, input, known]

(* kind:  "write" encrypts or signs; "read" decrypts or verifies, and       *)
(*        refuses a file that exists                                        *)
(* size:  of the output, in writes                                          *)
(* input: "good"; "header" or "body": what of it does not verify or cannot  *)
(*        be read                                                           *)
(* known: the lookup of the sender or signer succeeds                       *)

ASSUME InodesAssumption == Inodes # {} /\ Missing \notin Inodes
ASSUME AskedAssumption ==
  Asked \subseteq [kind : {"write", "read"}, size : 1..2,
                  input : {"good", "header", "body"}, known : BOOLEAN]

VARIABLES name,    \* the names out and tmp, each of an inode
          inode,   \* the contents: at each offset, who wrote it
          call,
          alone    \* calls that no other call overlapped so far

disk == <<name, inode, call, alone>>

Nobody == "nobody"     \* nothing written at this offset
Owner == "owner"       \* what was there before: the user's own
Offsets == 1..2
Truncated == [o \in Offsets |-> Nobody]
Output(c) == [o \in Offsets |-> IF o <= call[c].size THEN c ELSE Nobody]

Content(n) == IF name[n] = Missing THEN Truncated ELSE inode[name[n]]
Free == {i \in Inodes : i \notin {name.out, name.tmp} /\ \A c \in FileCalls : call[c].inode # i}
First == CHOOSE i \in Inodes : TRUE

\* The file that os.Create opens.
Creates(i) == IF name.tmp = Missing THEN Free # {} /\ i = CHOOSE j \in Free : TRUE
             ELSE i = name.tmp

NotAsked == [pc |-> "none", kind |-> "write", size |-> 1, input |-> "good", known |-> TRUE,
             inode |-> Missing, done |-> 0, result |-> "none", before |-> Truncated]

Running(c) == call[c].pc \notin {"none", "ended"}
At(c, pc) == call[c].pc = pc
To(c, pc) == call' = [call EXCEPT ![c].pc = pc]
Fail(c) == call' = [call EXCEPT ![c].pc = "cleanup", ![c].result = "error"]

----------------------------------------------------------------------------
BeginFile(c) ==
  /\ At(c, "none")
  /\ \E a \in Asked :
       call' = [call EXCEPT ![c] = [NotAsked EXCEPT
         !.pc = IF a.kind = "read" THEN "exists" ELSE "create",
         !.kind = a.kind, !.size = a.size, !.input = a.input, !.known = a.known,
         !.before = Content("out")]]
  /\ alone' = IF \E d \in FileCalls : Running(d) THEN {d \in alone : ~Running(d)} \ {c}
              ELSE alone
  /\ UNCHANGED <<name, inode>>

\* Mutant of FileExists: it looks at the temporary file.
TmpExists(c) ==
  /\ At(c, "exists")
  /\ IF name.tmp # Missing
     THEN call' = [call EXCEPT ![c].pc = "ended", ![c].result = "error"]
     ELSE To(c, "header")
  /\ UNCHANGED <<name, inode, alone>>

\* Only DecryptFile and VerifyFile look.
FileExists(c) ==
  /\ At(c, "exists")
  /\ IF name.out # Missing
     THEN call' = [call EXCEPT ![c].pc = "ended", ![c].result = "error"]
     ELSE To(c, "header")
  /\ UNCHANGED <<name, inode, alone>>

\* They read the header before they create a file, the others after.
ReadHeader(c) ==
  /\ At(c, "header")
  /\ IF call[c].input # "header"
     THEN To(c, IF call[c].kind = "read" THEN "create" ELSE "write")
     ELSE IF call[c].kind = "read"
     THEN call' = [call EXCEPT ![c].pc = "ended", ![c].result = "error"]
     ELSE Fail(c)
  /\ UNCHANGED <<name, inode, alone>>

\* Mutant of Create: what is in the file stays there.
CreateKeeping(c) ==
  /\ At(c, "create")
  /\ \E i \in Inodes :
       /\ Creates(i)
       /\ name' = [name EXCEPT !.tmp = i]
       /\ call' = [call EXCEPT ![c].inode = i,
                               ![c].pc = IF call[c].kind = "read" THEN "write" ELSE "header"]
  /\ UNCHANGED <<inode, alone>>

\* os.Create truncates the file that has this name.
Create(c) ==
  /\ At(c, "create")
  /\ \E i \in Inodes :
       /\ Creates(i)
       /\ name' = [name EXCEPT !.tmp = i]
       /\ inode' = [inode EXCEPT ![i] = Truncated]
       /\ call' = [call EXCEPT ![c].inode = i,
                               ![c].pc = IF call[c].kind = "read" THEN "write" ELSE "header"]
  /\ UNCHANGED alone

\* The output is written as it comes; what does not verify, cannot be read or
\* cannot be written ends the call.
Write(c) ==
  /\ At(c, "write")
  /\ \/ /\ call[c].input = "body"
        /\ Fail(c)
        /\ UNCHANGED inode
     \/ /\ IF call[c].input = "body" THEN call[c].done + 1 < call[c].size
           ELSE call[c].done < call[c].size
        /\ inode' = [inode EXCEPT ![call[c].inode][call[c].done + 1] = c]
        /\ call' = [call EXCEPT ![c].done = @ + 1]
     \/ /\ call[c].done = call[c].size
        /\ To(c, "rename")
        /\ UNCHANGED inode
  /\ UNCHANGED <<name, alone>>

\* What has this name is renamed, whoever wrote it; without it the call fails.
Rename(c) ==
  /\ At(c, "rename")
  /\ IF name.tmp = Missing THEN Fail(c) /\ UNCHANGED name
     ELSE /\ name' = [out |-> name.tmp, tmp |-> Missing]
          /\ To(c, IF call[c].kind = "read" THEN "lookup" ELSE "cleanup")
  /\ UNCHANGED <<inode, alone>>

\* findSender, verifyKey: when they fail the file is there already.
Lookup(c) ==
  /\ At(c, "lookup")
  /\ IF call[c].known THEN To(c, "cleanup") ELSE Fail(c)
  /\ UNCHANGED <<name, inode, alone>>

\* The deferred os.Remove, whoever made the file of this name; then the answer.
RemoveTmp(c) ==
  /\ At(c, "cleanup")
  /\ name' = [name EXCEPT !.tmp = Missing]
  /\ call' = [call EXCEPT ![c].pc = "ended",
                          ![c].result = IF @ = "error" THEN @ ELSE "ok"]
  /\ UNCHANGED <<inode, alone>>

\* keysd is killed: its calls end where they are.
KillAll ==
  /\ \E c \in FileCalls : Running(c)
  /\ call' = [c \in FileCalls |->
                IF Running(c) THEN [call[c] EXCEPT !.pc = "ended", !.result = "killed"]
                ELSE call[c]]
  /\ UNCHANGED <<name, inode, alone>>

----------------------------------------------------------------------------
FilesInit ==
  /\ \E i \in {First, Missing} : name = [out |-> i, tmp |-> Missing]
  /\ inode = [i \in Inodes |-> [o \in Offsets |-> IF i = First THEN Owner ELSE Nobody]]
  /\ call = [c \in FileCalls |-> NotAsked]
  /\ alone = FileCalls

Filing == \/ \E c \in FileCalls :
               \/ BeginFile(c) \/ FileExists(c) \/ ReadHeader(c) \/ Create(c)
               \/ Write(c) \/ Rename(c) \/ Lookup(c) \/ RemoveTmp(c)
          \/ KillAll

FilesSpec == FilesInit /\ [][Filing]_disk

----------------------------------------------------------------------------
\* Wherever a call fails or keysd is killed, and whatever that leaves behind for the
\* next call: the file is what its owner had, or a whole output made of good input.
\* Only calls for one file at the same time, which share {out}.tmp, may mix theirs.
OutWhole ==
  \/ \E c \in FileCalls : c \notin alone
  \/ name.out = Missing
  \/ Content("out") = [o \in Offsets |-> Owner]
  \/ \E c \in FileCalls : call[c].input = "good" /\ Content("out") = Output(c)

\* What a call that was alone answers is what it did: success leaves its output, where
\* decrypting and verifying found no file before; an error leaves what was there, but
\* for a sender that could not be looked up, whose file has its name by then.
AnswersWhatItDid ==
  [][\A c \in alone : Running(c) /\ call'[c].pc = "ended" =>
       LET out == Content("out")' IN
       CASE call'[c].result = "ok" ->
              out = Output(c) /\ (call[c].kind = "read" => call[c].before = Truncated)
         [] call'[c].result = "error" ->
              \/ out = call[c].before
              \/ call[c].kind = "read" /\ ~call[c].known /\ out = Output(c)
         [] OTHER -> out \in {call[c].before, Output(c)}]_disk
=============================================================================
