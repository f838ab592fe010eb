------------------------------ MODULE Messages ------------------------------
(***************************************************************************)
(* Messages between keys.  The server stores each message once and adds it *)
(* to two change lists, the sender's and the recipient's.  A key's device  *)
(* pulls a list from a version (a time in milliseconds) on, saves what it  *)
(* gets in its database and then saves the version the answer ends at.     *)
(*                                                                         *)
(* postMessage writes three documents in three steps and may stop between  *)
(* any two of them; pulls of the same device interleave, fail and die.     *)
(***************************************************************************)
EXTENDS Naturals, Sequences

CONSTANTS
    Keys,          \* keys that write to each other, one device each
    Conversations, \* pairs <<kid, rid>> in use
    Posts,         \* POST requests the server can be working on at once
    Pulls,         \* slots for Messages calls over all devices
    Asks,          \* Asks[p]: the pair <<kid, rid>> the calls in slot p list
    PullLimit,     \* most changes in one answer (100 in the code)
    MaxPerTick,    \* bound on the changes of a list within one millisecond
    Lifetime,      \* how long the server answers with a message (24 hours)
    MaxTime,       \* bound on the clock
    MaxMessages,   \* bound on the messages ever posted
    MaxFaults      \* bound on failures, lost answers and crashes

ASSUME ConversationsAssumption == Conversations \subseteq Keys \X Keys
ASSUME AsksAssumption == Asks \in [Pulls -> Keys \X Keys]
ASSUME NumbersAssumption ==
    /\ PullLimit \in Nat \ {0} /\ MaxPerTick \in Nat \ {0}
    /\ Lifetime \in Nat /\ MaxTime \in Nat /\ MaxMessages \in Nat /\ MaxFaults \in Nat

VARIABLES
    now,      \* the server's clock, in milliseconds
    msgs,     \* msgs[id]: when document /msgs/<id> was created, and by whom for whom
    changes,  \* changes[<<kid, rid>>]: the list msgs-<kid>-<rid>, oldest first
    post,     \* post[h]: the POST request h is working on
    inbox,    \* inbox[<<kid, rid>>]: ids in the device's messages-<kid>-<rid>
    version,  \* version[kid]: the device's /versions/messages-<kid>; 0 for none
    pull,     \* pull[p]: the Messages call in slot p
    faults,   \* failures so far
    sent      \* history: ids whose POST was answered with success

vars == <<now, msgs, changes, post, inbox, version, pull, faults, sent>>

-----------------------------------------------------------------------------
NoPost == [pc |-> "free", id |-> 0]
NoPull == [pc |-> "idle", from |-> 0, todo |-> {}, next |-> 0]

Reversed(conv) == <<conv[2], conv[1]>>

First(at) == CHOOSE i \in at : \A j \in at : i <= j
Last(at)  == CHOOSE i \in at : \A j \in at : j <= i

\* Positions of the changes of a list from a time on: at most PullLimit of them.
\* The list is in the order of time.
ChangesFrom(list, from) ==
    {i \in 1..Len(list) : /\ list[i].ts >= from
                          /\ i > PullLimit => list[i - PullLimit].ts < from}

\* Mutants of VersionNext: just after the last change, and the first change.
VersionAfter(list, found, from) == IF found = {} THEN from ELSE list[Last(found)].ts + 1

VersionFirst(list, found, from) == IF found = {} THEN from ELSE list[First(found)].ts

\* Where an answer ends: the time of its last change.
VersionNext(list, found, from) == IF found = {} THEN from ELSE list[Last(found)].ts

Expired(id) == now - msgs[id].created > Lifetime

Fault == faults < MaxFaults /\ faults' = faults + 1

Goto(h, pc) == post' = [post EXCEPT ![h].pc = pc]

-----------------------------------------------------------------------------
(* The server: postMessage, one step per document.                         *)

\* Create /msgs/<id>; the id is random, so it is new.
PostMessage(h) ==
    /\ post[h] = NoPost
    /\ Len(msgs) < MaxMessages
    /\ \E conv \in Conversations :
          msgs' = Append(msgs, [created |-> now, conv |-> conv])
    /\ post' = [post EXCEPT ![h] = [pc |-> "sender", id |-> Len(msgs) + 1]]
    /\ UNCHANGED <<now, changes, inbox, version, pull, faults, sent>>

\* ChangeAdd: the server's timestamp orders the list.
ChangeAdd(list, id) ==
    /\ Len(SelectSeq(changes[list], LAMBDA e : e.ts = now)) < MaxPerTick
    /\ changes' = [changes EXCEPT ![list] = Append(@, [id |-> id, ts |-> now])]

\* Mutant of AddSender: the recipient's list comes first.
AddSenderSecond(h) ==
    /\ post[h].pc = "sender"
    /\ ChangeAdd(Reversed(msgs[post[h].id].conv), post[h].id)
    /\ Goto(h, "recipient")
    /\ UNCHANGED <<now, msgs, inbox, version, pull, faults, sent>>

AddSender(h) ==
    LET conv == msgs[post[h].id].conv
    IN /\ post[h].pc = "sender"
       /\ ChangeAdd(conv, post[h].id)
       /\ Goto(h, IF conv[1] = conv[2] THEN "answer" ELSE "recipient")
       /\ UNCHANGED <<now, msgs, inbox, version, pull, faults, sent>>

AddRecipient(h) ==
    /\ post[h].pc = "recipient"
    /\ ChangeAdd(Reversed(msgs[post[h].id].conv), post[h].id)
    /\ Goto(h, "answer")
    /\ UNCHANGED <<now, msgs, inbox, version, pull, faults, sent>>

\* Mutant of PostFails: the error of a ChangeAdd is not returned.
PostFailsUnnoticed(h) ==
    /\ Fault
    /\ post[h].pc \in {"sender", "recipient"}
    /\ Goto(h, "answer")
    /\ UNCHANGED <<now, msgs, changes, inbox, version, pull, sent>>

\* A write fails, or succeeds and its answer is lost: an error either way.
PostFails(h) ==
    /\ Fault
    /\ post[h].pc \in {"sender", "recipient", "answer"}
    /\ post' = [post EXCEPT ![h] = NoPost]
    /\ UNCHANGED <<now, msgs, changes, inbox, version, pull, sent>>

\* SendMessage returns the id of the message.
PostAnswered(h) ==
    /\ post[h].pc = "answer"
    /\ sent' = sent \cup {post[h].id}
    /\ post' = [post EXCEPT ![h] = NoPost]
    /\ UNCHANGED <<now, msgs, changes, inbox, version, pull, faults>>

-----------------------------------------------------------------------------
(* The service: the Messages RPC (pullMessages).                           *)

ReadVersion(p) ==
    /\ pull[p] = NoPull
    /\ pull' = [pull EXCEPT ![p] = [NoPull EXCEPT !.pc = "list",
                                                  !.from = version[Asks[p][1]]]]
    /\ UNCHANGED <<now, msgs, changes, post, inbox, version, faults, sent>>

\* What is left of a pull: messages to save, by their positions in the list, which
\* only grows; then the version.
SaveNext(todo, next) ==
    [NoPull EXCEPT !.pc = IF todo = {} THEN "version" ELSE "save",
                   !.todo = todo, !.next = next]

\* listMessages answers with the messages that have not expired, and with
\* the time of the last change it looked at.
List(p) ==
    LET list  == changes[Asks[p]]
        found == ChangesFrom(list, pull[p].from)
    IN /\ pull[p].pc = "list"
       /\ pull' = [pull EXCEPT ![p] =
                      SaveNext({i \in found : ~Expired(list[i].id)},
                               VersionNext(list, found, pull[p].from))]
       /\ UNCHANGED <<now, msgs, changes, post, inbox, version, faults, sent>>

\* One message at a time, in the order of the answer.
SaveMessage(p) ==
    LET i == First(pull[p].todo)
    IN /\ pull[p].pc = "save"
       /\ inbox' = [inbox EXCEPT ![Asks[p]] = @ \cup {changes[Asks[p]][i].id}]
       /\ pull' = [pull EXCEPT ![p] = SaveNext(@.todo \ {i}, @.next)]
       /\ UNCHANGED <<now, msgs, changes, post, version, faults, sent>>

\* The version's path names the key only, not the recipient.
SaveVersion(p) ==
    /\ pull[p].pc = "version"
    /\ version' = [version EXCEPT ![Asks[p][1]] = pull[p].next]
    /\ pull' = [pull EXCEPT ![p] = NoPull]
    /\ UNCHANGED <<now, msgs, changes, post, inbox, faults, sent>>

\* The request or a write fails, or the service dies.
PullFails(p) ==
    /\ Fault
    /\ pull[p].pc \in {"list", "save", "version"}
    /\ pull' = [pull EXCEPT ![p] = NoPull]
    /\ UNCHANGED <<now, msgs, changes, post, inbox, version, sent>>

Tick ==
    /\ now < MaxTime
    /\ now' = now + 1
    /\ UNCHANGED <<msgs, changes, post, inbox, version, pull, faults, sent>>

-----------------------------------------------------------------------------
Init ==
    /\ now = 1
    /\ msgs = <<>>
    /\ changes = [conv \in Keys \X Keys |-> <<>>]
    /\ post = [h \in Posts |-> NoPost]
    /\ inbox = [conv \in Keys \X Keys |-> {}]
    /\ version = [kid \in Keys |-> 0]
    /\ pull = [p \in Pulls |-> NoPull]
    /\ faults = 0
    /\ sent = {}

PostStep(h) == AddSender(h) \/ AddRecipient(h) \/ PostAnswered(h)

PullStep(p) == List(p) \/ SaveMessage(p) \/ SaveVersion(p)

Next ==
    \/ \E h \in Posts : PostMessage(h) \/ PostStep(h) \/ PostFails(h)
    \/ \E p \in Pulls : ReadVersion(p) \/ PullStep(p) \/ PullFails(p)
    \/ Tick

Spec == Init /\ [][Next]_vars

\* Requests and calls go on, time passes, and the users of the app ask for
\* their messages again and again.
Fairness ==
    /\ \A h \in Posts : WF_vars(PostStep(h))
    /\ \A p \in Pulls : WF_vars(PullStep(p)) /\ WF_vars(ReadVersion(p))
    /\ WF_vars(Tick)

FairSpec == Spec /\ Fairness

-----------------------------------------------------------------------------
(* Properties.                                                             *)

Ids  == 1..MaxMessages
Time == 0..MaxTime

\* Every variable keeps its type.
TypeOK ==
    /\ now \in Time
    /\ msgs \in Seq([created : Time, conv : Conversations]) /\ Len(msgs) <= MaxMessages
    /\ \A conv \in Keys \X Keys : changes[conv] \in Seq([id : Ids, ts : Time])
    /\ post \in [Posts -> [pc : {"free", "sender", "recipient", "answer"},
                           id : Ids \cup {0}]]
    /\ inbox \in [Keys \X Keys -> SUBSET Ids]
    /\ version \in [Keys -> Time]
    /\ \A p \in Pulls : /\ pull[p].pc \in {"idle", "list", "save", "version"}
                        /\ pull[p].from \in Time /\ pull[p].next \in Time
                        /\ pull[p].todo \subseteq 1..Len(changes[Asks[p]])
    /\ faults \in 0..MaxFaults
    /\ sent \subseteq Ids

\* The version a device saved never runs ahead of its inbox: a message whose
\* change is older than the version will not be asked for again, so it has
\* been saved, or the server no longer answers with it.  Crashes between the
\* saves, answers cut at the limit and concurrent pulls must not break it.
NothingSkipped ==
    \A p \in Pulls : \A i \in 1..Len(changes[Asks[p]]) :
        LET e == changes[Asks[p]][i]
        IN e.ts < version[Asks[p][1]] => e.id \in inbox[Asks[p]] \/ Expired(e.id)

\* How a list has a message: at all, and exactly once.
Has(list, id) == \E i \in 1..Len(list) : list[i].id = id

Once(list, id) ==
    \E i \in 1..Len(list) : \A j \in 1..Len(list) : (list[j].id = id) <=> (j = i)

\* A message the recipient can list is in its sender's list too: postMessage
\* may stop half way, but never leaves a message only the recipient sees.
SenderSeesFirst ==
    \A id \in 1..Len(msgs) :
        Has(changes[Reversed(msgs[id].conv)], id) => Has(changes[msgs[id].conv], id)

\* A message whose POST was answered with success is in both lists, once.
SentListed ==
    \A id \in sent : /\ Once(changes[msgs[id].conv], id)
                     /\ Once(changes[Reversed(msgs[id].conv)], id)

\* A message that was sent reaches a device that asks for it, unless it
\* expires first: a device whose answers are cut at the limit still gets to
\* the end of the list, as long as fewer changes than the limit fall into one
\* millisecond.
Delivered ==
    \A p \in Pulls, id \in Ids :
        (id \in sent /\ Asks[p] \in {msgs[id].conv, Reversed(msgs[id].conv)})
            ~> id \in sent /\ (id \in inbox[Asks[p]] \/ Expired(id))
=============================================================================
