-------------------------- MODULE Messages_proofs --------------------------
(***************************************************************************)
(* Proofs about the server's lists and the devices that read them.  What a *)
(* POST's handler is about to do tells which lists its message is in       *)
(* (Progress); no two handlers work on one message, for ids are new.  What *)
(* a pull has still to save and the version it will save account for all   *)
(* that the answer listed (PullInv).                                       *)
(***************************************************************************)
EXTENDS Messages, TLAPS, WellFoundedInduction

Lists == Keys \X Keys
Entry == [id : Nat, ts : Nat]
PostPCs == {"free", "sender", "recipient", "answer"}

ServerTypes ==
    /\ now \in Nat
    /\ msgs \in Seq([created : Nat, conv : Conversations])
    /\ changes \in [Lists -> Seq(Entry)]
    /\ post \in [Posts -> [pc : PostPCs, id : Nat]]

\* A list has messages that exist.
ListedExist ==
    \A list \in Lists, id \in Nat : Has(changes[list], id) => id \in 1..Len(msgs)

\* Which lists have a message, when its handler is at pc.
Written(lists, pc, id, own) ==
    /\ pc = "sender" => ~Has(lists[own], id) /\ ~Has(lists[Reversed(own)], id)
    /\ pc = "recipient" => /\ own # Reversed(own)
                           /\ Once(lists[own], id) /\ ~Has(lists[Reversed(own)], id)
    /\ pc = "answer" => Once(lists[own], id) /\ Once(lists[Reversed(own)], id)

Progress ==
    \A h \in Posts : post[h].pc # "free" =>
        /\ post[h].id \in 1..Len(msgs)
        /\ Written(changes, post[h].pc, post[h].id, msgs[post[h].id].conv)

OneHandler ==
    \A g, h \in Posts : post[g].pc # "free" /\ post[h].pc # "free" /\ post[g].id = post[h].id
                           => g = h

SentExist == sent \subseteq 1..Len(msgs)

PostInv == /\ ServerTypes /\ ListedExist /\ Progress /\ OneHandler /\ SentExist
           /\ SenderSeesFirst /\ SentListed

-----------------------------------------------------------------------------
(* Lists. *)

LEMMA ConvLists == ASSUME NEW conv \in Conversations
                   PROVE  /\ conv \in Lists /\ Reversed(conv) \in Lists
                          /\ (conv[1] = conv[2]) <=> (conv = Reversed(conv))
BY ConversationsAssumption DEF Lists, Reversed

LEMMA OnceHas == ASSUME NEW list, NEW id, Once(list, id)
                 PROVE  Has(list, id)
BY DEF Once, Has

\* Append at the end of a sequence, without Append.
LEMMA AppendFacts ==
    ASSUME NEW s \in Seq(Entry), NEW e \in Entry, NEW t, t = Append(s, e)
    PROVE  /\ Len(s) \in Nat /\ Len(t) = Len(s) + 1 /\ t \in Seq(Entry)
           /\ t[Len(s) + 1] = e /\ \A i \in 1..Len(s) : t[i] = s[i]
OBVIOUS

LEMMA AppendOther ==
    ASSUME NEW s \in Seq(Entry), NEW e \in Entry, NEW id, id # e.id,
           NEW t, t = Append(s, e)
    PROVE  /\ Has(t, id) <=> Has(s, id)
           /\ Once(s, id) => Once(t, id)
<1>1. /\ Len(s) \in Nat /\ Len(t) = Len(s) + 1
      /\ t[Len(s) + 1] = e /\ \A i \in 1..Len(s) : t[i] = s[i]
  BY AppendFacts
<1>2. \A i : i \in 1..Len(t) <=> (i \in 1..Len(s) \/ i = Len(s) + 1)
  BY <1>1
<1>3. Has(t, id) <=> Has(s, id)
  BY <1>1, <1>2 DEF Has
<1>4. ASSUME Once(s, id) PROVE Once(t, id)
  <2>1. PICK i \in 1..Len(s) : \A j \in 1..Len(s) : (s[j].id = id) <=> (j = i)
    BY <1>4 DEF Once
  <2>2. ASSUME NEW j \in 1..Len(t) PROVE (t[j].id = id) <=> (j = i)
    <3>1. CASE j = Len(s) + 1
      BY <3>1, <2>1, <1>1
    <3>2. CASE j \in 1..Len(s)
      BY <3>2, <2>1, <1>1
    <3> QED BY <1>2, <3>1, <3>2
  <2>3. i \in 1..Len(t)
    BY <1>2
  <2> QED BY <2>2, <2>3 DEF Once
<1> QED BY <1>3, <1>4

LEMMA AppendNew ==
    ASSUME NEW s \in Seq(Entry), NEW e \in Entry, NEW t, t = Append(s, e)
    PROVE  /\ Has(t, e.id)
           /\ ~Has(s, e.id) => Once(t, e.id)
<1>1. /\ Len(s) \in Nat /\ Len(t) = Len(s) + 1
      /\ t[Len(s) + 1] = e /\ \A i \in 1..Len(s) : t[i] = s[i]
  BY AppendFacts
<1>2. \A i : i \in 1..Len(t) <=> (i \in 1..Len(s) \/ i = Len(s) + 1)
  BY <1>1
<1>3. Has(t, e.id)
  BY <1>1, <1>2 DEF Has
<1>4. ASSUME ~Has(s, e.id) PROVE Once(t, e.id)
  <2>1. ASSUME NEW j \in 1..Len(t) PROVE (t[j].id = e.id) <=> (j = Len(s) + 1)
    <3>1. CASE j = Len(s) + 1
      BY <3>1, <1>1
    <3>2. CASE j \in 1..Len(s)
      BY <3>2, <1>4, <1>1 DEF Has
    <3> QED BY <1>2, <3>1, <3>2
  <2> QED BY <1>2, <2>1 DEF Once
<1> QED BY <1>3, <1>4

\* What ChangeAdd does to all lists ...
Appends(lists, list, e, after) == after = [lists EXCEPT ![list] = Append(@, e)]

LEMMA Added ==
    ASSUME NEW lists \in [Lists -> Seq(Entry)], NEW list \in Lists, NEW e \in Entry,
           NEW after, Appends(lists, list, e, after)
    PROVE  /\ after \in [Lists -> Seq(Entry)]
           /\ \A other \in Lists : \A id : (id # e.id \/ other # list) =>
                 /\ Has(after[other], id) <=> Has(lists[other], id)
                 /\ Once(lists[other], id) => Once(after[other], id)
           /\ Has(after[list], e.id)
           /\ ~Has(lists[list], e.id) => Once(after[list], e.id)
<1>1. after \in [Lists -> Seq(Entry)]
  BY DEF Appends
<1>2. after[list] = Append(lists[list], e) /\ lists[list] \in Seq(Entry)
  BY DEF Appends
<1>3. \A other \in Lists : other # list => after[other] = lists[other]
  BY DEF Appends
<1>4. ASSUME NEW other \in Lists, NEW id, id # e.id \/ other # list
      PROVE  /\ Has(after[other], id) <=> Has(lists[other], id)
             /\ Once(lists[other], id) => Once(after[other], id)
  <2>1. CASE other # list
    BY <2>1, <1>3
  <2>2. CASE other = list
    BY <2>2, <1>4, <1>2, AppendOther
  <2> QED BY <2>1, <2>2
<1>5. Has(after[list], e.id) /\ (~Has(lists[list], e.id) => Once(after[list], e.id))
  BY <1>2, AppendNew
<1> QED BY <1>1, <1>4, <1>5

\* ... and to what is written of another message: nothing.
LEMMA WrittenKept ==
    ASSUME NEW lists \in [Lists -> Seq(Entry)], NEW list \in Lists, NEW e \in Entry,
           NEW after, Appends(lists, list, e, after),
           NEW own \in Lists, Reversed(own) \in Lists, NEW id, id # e.id, NEW pc,
           Written(lists, pc, id, own)
    PROVE  Written(after, pc, id, own)
<1>1. \A other \in {own, Reversed(own)} :
         /\ Has(after[other], id) <=> Has(lists[other], id)
         /\ Once(lists[other], id) => Once(after[other], id)
  BY ZenonT(30), Added
<1> QED BY <1>1 DEF Written

-----------------------------------------------------------------------------
(* The steps of a handler. *)

LEMMA PostInit == Init => PostInv
<1> SUFFICES ASSUME Init PROVE PostInv
  OBVIOUS
<1>1. ServerTypes
  BY DEF Init, ServerTypes, NoPost, Lists, PostPCs
<1>2. ListedExist
  BY DEF Init, ListedExist, Has, Lists
<1>3. Progress /\ OneHandler
  BY DEF Init, Progress, OneHandler, NoPost
<1>4. SentExist /\ SenderSeesFirst /\ SentListed
  BY DEF Init, SentExist, SenderSeesFirst, SentListed
<1> QED
  BY <1>1, <1>2, <1>3, <1>4 DEF PostInv

LEMMA SeqFacts == ASSUME NEW S, NEW s \in Seq(S), NEW i \in 1..Len(s)
                  PROVE  Len(s) \in Nat /\ i \in Nat /\ s[i] \in S
OBVIOUS

LEMMA Own ==
    ASSUME ServerTypes, NEW id \in 1..Len(msgs)
    PROVE  /\ id \in Nat /\ msgs[id].conv \in Conversations
           /\ msgs[id].conv \in Lists /\ Reversed(msgs[id].conv) \in Lists
<1>1. msgs \in Seq([created : Nat, conv : Conversations])
  BY DEF ServerTypes
<1>2. id \in Nat /\ msgs[id] \in [created : Nat, conv : Conversations]
  BY <1>1, SeqFacts
<1>3. id \in Nat /\ msgs[id].conv \in Conversations
  BY <1>2
<1> QED
  BY <1>3, ConvLists

\* A handler adds its message to a list that does not have it, and moves on.
LEMMA AddStep ==
    ASSUME PostInv, NEW h \in Posts, NEW id, id = post[h].id, post[h].pc # "free",
           NEW own, own = msgs[id].conv, NEW list \in {own, Reversed(own)},
           ~Has(changes[list], id), ChangeAdd(list, id),
           NEW pc \in PostPCs \ {"free"}, Goto(h, pc),
           Written(changes', pc, id, own),
           list = own \/ Has(changes[own], id),
           UNCHANGED <<now, msgs, sent>>
    PROVE  PostInv'
<1> USE DEF PostInv
<1> DEFINE e == [id |-> id, ts |-> now]
<1>1. /\ id \in 1..Len(msgs) /\ id \in Nat
      /\ own \in Lists /\ Reversed(own) \in Lists /\ list \in Lists
  BY Own DEF Progress
<1>2. e \in Entry /\ e.id = id /\ changes \in [Lists -> Seq(Entry)]
  BY <1>1 DEF Entry, ServerTypes
<1>3. Appends(changes, list, e, changes')
  BY DEF ChangeAdd, Appends
<1> HIDE DEF e
<1>4. /\ changes' \in [Lists -> Seq(Entry)]
      /\ \A other \in Lists : \A m : (m # id \/ other # list) =>
            /\ Has(changes'[other], m) <=> Has(changes[other], m)
            /\ Once(changes[other], m) => Once(changes'[other], m)
      /\ Has(changes'[list], id)
  <2>1. /\ changes' \in [Lists -> Seq(Entry)]
        /\ \A other \in Lists : \A m : (m # e.id \/ other # list) =>
              /\ Has(changes'[other], m) <=> Has(changes[other], m)
              /\ Once(changes[other], m) => Once(changes'[other], m)
        /\ Has(changes'[list], e.id)
    BY <1>1, <1>2, <1>3, Added, Zenon
  <2> QED BY <1>2, <2>1
<1>5. /\ post' \in [Posts -> [pc : PostPCs, id : Nat]]
      /\ post'[h].pc = pc /\ post'[h].id = id
      /\ \A g \in Posts : g # h => post'[g] = post[g]
  BY DEF Goto, ServerTypes
<1>6. msgs' = msgs /\ sent' = sent /\ now' = now
  OBVIOUS
<1>7. ServerTypes'
  BY <1>4, <1>5, <1>6 DEF ServerTypes
<1>8. ListedExist'
  <2>1. ASSUME NEW other \in Lists, NEW m \in Nat, Has(changes'[other], m)
        PROVE  m \in 1..Len(msgs)
    BY <2>1, <1>1, <1>4 DEF ListedExist
  <2> QED BY <2>1, <1>6 DEF ListedExist
<1>9. OneHandler'
  BY <1>5 DEF OneHandler
<1>10. Progress'
  <2>1. ASSUME NEW g \in Posts, post'[g].pc # "free"
        PROVE  /\ post'[g].id \in 1..Len(msgs)
               /\ Written(changes', post'[g].pc, post'[g].id, msgs[post'[g].id].conv)
    <3>1. CASE g = h
      BY <3>1, <1>1, <1>5
    <3>2. CASE g # h
      <4>1. /\ post'[g] = post[g] /\ post[g].id # id /\ post[g].id \in 1..Len(msgs)
            /\ Written(changes, post[g].pc, post[g].id, msgs[post[g].id].conv)
        BY <2>1, <3>2, <1>5 DEF Progress, OneHandler
      <4>2. msgs[post[g].id].conv \in Lists /\ Reversed(msgs[post[g].id].conv) \in Lists
        BY <4>1, Own
      <4>3. \A m, other : m # e.id /\ other \in Lists /\ Reversed(other) \in Lists
               /\ Written(changes, post[g].pc, m, other) => Written(changes', post[g].pc, m, other)
        BY <1>1, <1>2, <1>3, WrittenKept, Zenon
      <4> QED BY <4>1, <4>2, <4>3, <1>2
    <3> QED BY <3>1, <3>2
  <2> QED BY <2>1, <1>6 DEF Progress
<1>11. SentExist'
  BY <1>6 DEF SentExist
<1>12. SenderSeesFirst'
  <2>1. ASSUME NEW m \in 1..Len(msgs), Has(changes'[Reversed(msgs[m].conv)], m)
        PROVE  Has(changes'[msgs[m].conv], m)
    <3>1. msgs[m].conv \in Lists /\ Reversed(msgs[m].conv) \in Lists
      BY Own
    <3>2. CASE m = id
      BY <3>1, <3>2, <1>4
    <3>3. CASE m # id
      BY <2>1, <3>1, <3>3, <1>4 DEF SenderSeesFirst
    <3> QED BY <3>2, <3>3
  <2> QED BY <2>1, <1>6 DEF SenderSeesFirst
<1>13. SentListed'
  <2>1. ASSUME NEW m \in sent
        PROVE  Once(changes'[msgs[m].conv], m) /\ Once(changes'[Reversed(msgs[m].conv)], m)
    <3>1. /\ m \in 1..Len(msgs)
          /\ Once(changes[msgs[m].conv], m) /\ Once(changes[Reversed(msgs[m].conv)], m)
      BY DEF SentExist, SentListed
    <3>2. msgs[m].conv \in Lists /\ Reversed(msgs[m].conv) \in Lists
      BY <3>1, Own
    <3>3. m # id
      BY <3>1, OnceHas
    <3> QED BY <3>1, <3>2, <3>3, <1>4
  <2> QED BY <2>1, <1>6 DEF SentListed
<1> QED
  BY <1>7, <1>8, <1>9, <1>10, <1>11, <1>12, <1>13

LEMMA AddSenderStep ==
    ASSUME PostInv, NEW h \in Posts, AddSender(h)
    PROVE  PostInv'
<1> DEFINE id == post[h].id
           own == msgs[id].conv
           pc == IF own[1] = own[2] THEN "answer" ELSE "recipient"
           e == [id |-> id, ts |-> now]
<1>1. post[h].pc = "sender" /\ ChangeAdd(own, id) /\ Goto(h, pc) /\ UNCHANGED <<now, msgs, sent>>
  BY DEF AddSender
<1>2. id \in 1..Len(msgs) /\ Written(changes, "sender", id, own)
  BY <1>1 DEF PostInv, Progress
<1>3. /\ id \in Nat /\ own \in Lists /\ Reversed(own) \in Lists
      /\ (own[1] = own[2]) <=> (own = Reversed(own))
  BY <1>2, Own, ConvLists DEF PostInv
<1>4. ~Has(changes[own], id) /\ ~Has(changes[Reversed(own)], id)
  BY <1>2 DEF Written
<1>5. e \in Entry /\ e.id = id /\ changes \in [Lists -> Seq(Entry)]
  BY <1>3 DEF Entry, ServerTypes, PostInv
<1>6. Appends(changes, own, e, changes')
  BY <1>1 DEF ChangeAdd, Appends
<1> HIDE DEF e, id, own
<1>7. /\ Once(changes'[own], id)
      /\ own # Reversed(own) => ~Has(changes'[Reversed(own)], id)
  BY <1>3, <1>4, <1>5, <1>6, Added
<1>8. Written(changes', pc, id, own)
  BY <1>3, <1>7 DEF Written
<1>9. pc \in PostPCs \ {"free"}
  BY DEF PostPCs
<1> HIDE DEF pc
<1> QED
  BY <1>1, <1>4, <1>8, <1>9, AddStep DEF id, own

LEMMA AddRecipientStep ==
    ASSUME PostInv, NEW h \in Posts, AddRecipient(h)
    PROVE  PostInv'
<1> DEFINE id == post[h].id
           own == msgs[id].conv
           e == [id |-> id, ts |-> now]
<1>1. /\ post[h].pc = "recipient" /\ ChangeAdd(Reversed(own), id) /\ Goto(h, "answer")
      /\ UNCHANGED <<now, msgs, sent>>
  BY DEF AddRecipient
<1>2. id \in 1..Len(msgs) /\ Written(changes, "recipient", id, own)
  BY <1>1 DEF PostInv, Progress
<1>3. id \in Nat /\ own \in Lists /\ Reversed(own) \in Lists
  BY <1>2, Own DEF PostInv
<1>4. own # Reversed(own) /\ Once(changes[own], id) /\ ~Has(changes[Reversed(own)], id)
  BY <1>2 DEF Written
<1>5. e \in Entry /\ e.id = id /\ changes \in [Lists -> Seq(Entry)]
  BY <1>3 DEF Entry, ServerTypes, PostInv
<1>6. Appends(changes, Reversed(own), e, changes')
  BY <1>1 DEF ChangeAdd, Appends
<1> HIDE DEF e, id, own
<1>7. Once(changes'[own], id) /\ Once(changes'[Reversed(own)], id)
  BY <1>3, <1>4, <1>5, <1>6, Added
<1>8. Written(changes', "answer", id, own)
  BY <1>7 DEF Written
<1>9. Has(changes[own], id)
  BY <1>4, OnceHas
<1> QED
  BY <1>1, <1>4, <1>8, <1>9, AddStep DEF id, own, PostPCs

LEMMA PostMessageStep ==
    ASSUME PostInv, NEW h \in Posts, PostMessage(h)
    PROVE  PostInv'
<1> USE DEF PostInv
<1>1. PICK conv \in Conversations : msgs' = Append(msgs, [created |-> now, conv |-> conv])
  BY DEF PostMessage
<1> DEFINE new == Len(msgs) + 1
<1>2. /\ Len(msgs) \in Nat /\ Len(msgs') = new /\ new \in Nat
      /\ msgs' \in Seq([created : Nat, conv : Conversations])
      /\ msgs'[new].conv = conv /\ \A m \in 1..Len(msgs) : msgs'[m] = msgs[m]
  BY <1>1 DEF ServerTypes
<1>3. /\ post[h].pc = "free" /\ changes' = changes /\ sent' = sent /\ now' = now
      /\ post' = [post EXCEPT ![h] = [pc |-> "sender", id |-> new]]
  BY DEF PostMessage, NoPost
<1> HIDE DEF new
<1>4. /\ post' \in [Posts -> [pc : PostPCs, id : Nat]]
      /\ post'[h].pc = "sender" /\ post'[h].id = new
      /\ \A g \in Posts : g # h => post'[g] = post[g]
  BY <1>2, <1>3 DEF ServerTypes, PostPCs
<1>5. \A m : m \in 1..new <=> (m \in 1..Len(msgs) \/ m = new)
  BY <1>2 DEF new
<1>6. new \notin 1..Len(msgs)
  BY <1>2 DEF new
<1>7. \A list \in Lists : ~Has(changes[list], new)
  BY <1>2, <1>6 DEF ListedExist
<1>8. conv \in Lists /\ Reversed(conv) \in Lists
  BY ConvLists
<1>9. ServerTypes'
  BY <1>2, <1>3, <1>4 DEF ServerTypes
<1>10. ListedExist'
  BY <1>2, <1>3, <1>5 DEF ListedExist
<1>11. Progress'
  <2>1. ASSUME NEW g \in Posts, post'[g].pc # "free"
        PROVE  /\ post'[g].id \in 1..new
               /\ Written(changes, post'[g].pc, post'[g].id, msgs'[post'[g].id].conv)
    <3>1. CASE g = h
      BY <3>1, <1>2, <1>4, <1>5, <1>7, <1>8 DEF Written
    <3>2. CASE g # h
      BY <3>2, <2>1, <1>2, <1>4, <1>5 DEF Progress
    <3> QED BY <3>1, <3>2
  <2> QED BY <2>1, <1>2, <1>3 DEF Progress
<1>12. OneHandler'
  BY <1>4, <1>6 DEF OneHandler, Progress
<1>13. SentExist'
  BY <1>2, <1>3, <1>5 DEF SentExist
<1>14. SenderSeesFirst'
  <2>1. ASSUME NEW m \in 1..new, Has(changes[Reversed(msgs'[m].conv)], m)
        PROVE  Has(changes[msgs'[m].conv], m)
    <3>1. m # new
      BY <2>1, <1>2, <1>7, <1>8
    <3> QED BY <2>1, <3>1, <1>2, <1>5 DEF SenderSeesFirst
  <2> QED BY <2>1, <1>2, <1>3 DEF SenderSeesFirst
<1>15. SentListed'
  BY <1>2, <1>3 DEF SentListed, SentExist
<1> QED
  BY <1>9, <1>10, <1>11, <1>12, <1>13, <1>14, <1>15

\* The handler is done with its message, which counts as sent or not.
LEMMA EndStep ==
    ASSUME PostInv, NEW h \in Posts, PostFails(h) \/ PostAnswered(h)
    PROVE  PostInv'
<1> USE DEF PostInv
<1>1. post' = [post EXCEPT ![h] = NoPost] /\ msgs' = msgs /\ changes' = changes /\ now' = now
  BY DEF PostFails, PostAnswered
<1>2. /\ post' \in [Posts -> [pc : PostPCs, id : Nat]]
      /\ post'[h].pc = "free" /\ \A g \in Posts : g # h => post'[g] = post[g]
  BY <1>1 DEF ServerTypes, PostPCs, NoPost
<1>3. sent' = sent \/ (sent' = sent \cup {post[h].id} /\ post[h].pc = "answer")
  BY DEF PostFails, PostAnswered
<1>4. post[h].pc = "answer" => /\ post[h].id \in 1..Len(msgs)
                               /\ Once(changes[msgs[post[h].id].conv], post[h].id)
                               /\ Once(changes[Reversed(msgs[post[h].id].conv)], post[h].id)
  BY DEF Progress, Written
<1>5. ServerTypes' /\ ListedExist' /\ SenderSeesFirst'
  BY <1>1, <1>2 DEF ServerTypes, ListedExist, SenderSeesFirst
<1>6. Progress' /\ OneHandler'
  BY <1>1, <1>2 DEF Progress, OneHandler
<1>7. SentExist' /\ SentListed'
  BY <1>1, <1>3, <1>4 DEF SentExist, SentListed
<1> QED
  BY <1>5, <1>6, <1>7

LEMMA PostNext == PostInv /\ [Next]_vars => PostInv'
<1> SUFFICES ASSUME PostInv, [Next]_vars PROVE PostInv'
  OBVIOUS
<1>1. ASSUME NEW h \in Posts, PostMessage(h) \/ PostStep(h) \/ PostFails(h)
      PROVE  PostInv'
  BY <1>1, PostMessageStep, AddSenderStep, AddRecipientStep, EndStep DEF PostStep
<1>2. ASSUME UNCHANGED <<msgs, changes, post, sent>>, now' = now \/ now' = now + 1
      PROVE  PostInv'
  BY <1>2 DEF PostInv, ServerTypes, ListedExist, Progress, OneHandler, SentExist,
              SenderSeesFirst, SentListed
<1>3. ASSUME NEW p \in Pulls, ReadVersion(p) \/ PullStep(p) \/ PullFails(p)
      PROVE  PostInv'
  BY <1>2, <1>3 DEF ReadVersion, PullStep, List, SaveMessage, SaveVersion, PullFails
<1>4. CASE Tick
  BY <1>2, <1>4 DEF Tick
<1>5. CASE UNCHANGED vars
  BY <1>2, <1>5 DEF vars
<1> QED
  BY <1>1, <1>3, <1>4, <1>5 DEF Next

\* Wherever a POST stops, a message the recipient can list is in its sender's
\* list too: for any number of keys, requests, failures and messages.
THEOREM SenderSeesFirstCorrect == Spec => []SenderSeesFirst
<1>1. PostInv => SenderSeesFirst
  BY DEF PostInv
<1> QED
  BY <1>1, PostInit, PostNext, PTL DEF Spec

\* A message whose POST was answered with success is in both lists, once.
THEOREM SentListedCorrect == Spec => []SentListed
<1>1. PostInv => SentListed
  BY DEF PostInv
<1> QED
  BY <1>1, PostInit, PostNext, PTL DEF Spec

-----------------------------------------------------------------------------
(* The service.  What makes the saved version safe: a time is Covered when *)
(* every change before it is of a message that is saved, expired or still  *)
(* to be saved by this call. That stays so, for the lists only grow at     *)
(* their ends, with the time that it is; and it is passed on from the      *)
(* version to the time a call asks from, to the time its answer ends at,   *)
(* and to the version again. The lists are in the order of time, so what   *)
(* an answer leaves out at its limit is not before its last change.        *)

PullPCs == {"idle", "list", "save", "version"}

DeviceTypes ==
    /\ inbox \in [Lists -> SUBSET Nat]
    /\ version \in [Keys -> Nat]
    /\ pull \in [Pulls -> [pc : PullPCs, from : Nat, todo : SUBSET Nat, next : Nat]]
    /\ \A p \in Pulls : pull[p].todo \subseteq 1..Len(changes[Asks[p]])

\* Nothing is from the future, and lists are in the order of time.
InTime ==
    /\ \A list \in Lists : \A i \in 1..Len(changes[list]) :
          /\ changes[list][i].ts <= now
          /\ \A j \in 1..i : changes[list][j].ts <= changes[list][i].ts
    /\ \A k \in Keys : version[k] <= now
    /\ \A p \in Pulls : pull[p].from <= now /\ pull[p].next <= now

Covered(p, time, todo) ==
    \A i \in 1..Len(changes[Asks[p]]) :
        changes[Asks[p]][i].ts < time => \/ i \in todo
                                         \/ changes[Asks[p]][i].id \in inbox[Asks[p]]
                                         \/ Expired(changes[Asks[p]][i].id)

VersionInv == \A p \in Pulls : Covered(p, version[Asks[p][1]], {})

PullsInv ==
    \A p \in Pulls :
        /\ pull[p].pc = "list" => Covered(p, pull[p].from, {})
        /\ pull[p].pc \in {"save", "version"} =>
              /\ (pull[p].pc = "version") <=> (pull[p].todo = {})
              /\ Covered(p, pull[p].next, pull[p].todo)

PullInv == PostInv /\ DeviceTypes /\ InTime /\ VersionInv /\ PullsInv

\* The calls for one key list one conversation: the version is one per key.
OneListPerKey == \A p, q \in Pulls : Asks[p][1] = Asks[q][1] => Asks[p] = Asks[q]

-----------------------------------------------------------------------------
(* Positions. *)

LEMMA FirstFacts ==
    ASSUME NEW at \in SUBSET Nat, at # {}
    PROVE  First(at) \in at /\ \A j \in at : First(at) <= j
<1>1. \E n \in at : \A m \in at : ~ (<<m, n>> \in OpToRel(<, Nat))
  BY WFMin, NatLessThanWellFounded, ZenonT(30)
<1>2. PICK n \in at : \A m \in at : ~ (<<m, n>> \in OpToRel(<, Nat))
  BY <1>1, Zenon
<1>3. \A m \in at : <<m, n>> \in Nat \X Nat
  OBVIOUS
<1>4. \A m \in at : ~ (m < n)
  BY <1>2, <1>3 DEF OpToRel
<1>5. \E i \in at : \A j \in at : i <= j
  BY <1>4
<1> QED
  BY <1>5 DEF First

LEMMA LastFacts ==
    ASSUME NEW n \in Nat, NEW at \in SUBSET (1..n), at # {}
    PROVE  Last(at) \in at /\ \A j \in at : j <= Last(at)
<1> DEFINE left == {m \in Nat : \E i \in at : m = n - i}
<1>0. \A i \in at : n - i \in Nat
  OBVIOUS
<1>1. left \in SUBSET Nat /\ left # {}
  BY <1>0
<1>2. First(left) \in left /\ \A m \in left : First(left) <= m
  BY <1>1, FirstFacts
<1>3. PICK i \in at : First(left) = n - i
  BY <1>2
<1>4. \A j \in at : n - j \in left
  BY <1>0
<1>5. \A j \in at : j <= i
  BY <1>2, <1>3, <1>4
<1> QED
  BY <1>5 DEF Last

-----------------------------------------------------------------------------
(* What the steps of the server leave alone. *)

\* Lists grow at their ends, with changes of now; messages are added.
Grown ==
    /\ now <= now'
    /\ Len(msgs) <= Len(msgs') /\ \A id \in 1..Len(msgs) : msgs'[id] = msgs[id]
    /\ \A list \in Lists :
          /\ Len(changes[list]) <= Len(changes'[list])
          /\ \A i \in 1..Len(changes[list]) : changes'[list][i] = changes[list][i]
          /\ \A i \in 1..Len(changes'[list]) :
                i > Len(changes[list]) => changes'[list][i].ts = now

LEMMA ChangeAddGrows ==
    ASSUME ServerTypes, NEW list \in Lists, NEW id \in Nat, ChangeAdd(list, id),
           UNCHANGED <<now, msgs>>
    PROVE  Grown
<1> DEFINE e == [id |-> id, ts |-> now]
<1>1. /\ e \in Entry /\ e.ts = now
      /\ changes' = [changes EXCEPT ![list] = Append(changes[list], e)]
  BY DEF ChangeAdd, ServerTypes, Entry
<1> HIDE DEF e
<1>2. /\ changes[list] \in Seq(Entry) /\ changes'[list] = Append(changes[list], e)
      /\ \A other \in Lists : changes[other] \in Seq(Entry) /\ Len(changes[other]) \in Nat
      /\ \A other \in Lists : other # list => changes'[other] = changes[other]
  BY <1>1 DEF ServerTypes
<1>3. /\ Len(changes'[list]) = Len(changes[list]) + 1
      /\ changes'[list][Len(changes[list]) + 1] = e
      /\ \A i \in 1..Len(changes[list]) : changes'[list][i] = changes[list][i]
  BY <1>1, <1>2, AppendFacts
<1>4. /\ now <= now' /\ Len(msgs) <= Len(msgs')
      /\ \A m \in 1..Len(msgs) : msgs'[m] = msgs[m]
  BY DEF ServerTypes
<1>5. ASSUME NEW other \in Lists
      PROVE  /\ Len(changes[other]) <= Len(changes'[other])
             /\ \A i \in 1..Len(changes[other]) : changes'[other][i] = changes[other][i]
             /\ \A i \in 1..Len(changes'[other]) :
                   i > Len(changes[other]) => changes'[other][i].ts = now
  <2>1. CASE other = list
    <3>1. ASSUME NEW i \in 1..Len(changes'[list]), i > Len(changes[list])
          PROVE  i = Len(changes[list]) + 1
      BY <3>1, <1>2, <1>3
    <3> QED BY <3>1, <2>1, <1>1, <1>2, <1>3
  <2>2. CASE other # list
    BY <2>2, <1>2
  <2> QED BY <2>1, <2>2
<1> QED
  BY <1>4, <1>5 DEF Grown

LEMMA StepGrows == ASSUME PostInv, [Next]_vars PROVE Grown
<1> USE DEF PostInv
<1>1. ASSUME UNCHANGED <<msgs, changes>>, now' = now \/ now' = now + 1 PROVE Grown
  <2>1. /\ now \in Nat /\ Len(msgs) \in Nat
        /\ \A list \in Lists : changes[list] \in Seq(Entry) /\ Len(changes[list]) \in Nat
    BY DEF ServerTypes
  <2> QED BY <1>1, <2>1 DEF Grown
<1>2. ASSUME NEW h \in Posts, PostMessage(h) PROVE Grown
  <2>1. PICK conv \in Conversations : msgs' = Append(msgs, [created |-> now, conv |-> conv])
    BY <1>2 DEF PostMessage
  <2>2. /\ Len(msgs) \in Nat /\ Len(msgs') = Len(msgs) + 1
        /\ \A m \in 1..Len(msgs) : msgs'[m] = msgs[m]
    BY <2>1 DEF ServerTypes
  <2>3. now' = now /\ changes' = changes /\ now \in Nat
    BY <1>2 DEF PostMessage, ServerTypes
  <2>4. \A list \in Lists : changes[list] \in Seq(Entry) /\ Len(changes[list]) \in Nat
    BY DEF ServerTypes
  <2> QED BY <2>2, <2>3, <2>4 DEF Grown
<1>3. ASSUME NEW h \in Posts, AddSender(h) \/ AddRecipient(h) PROVE Grown
  <2>1. post[h].id \in 1..Len(msgs)
    BY <1>3 DEF Progress, AddSender, AddRecipient
  <2> DEFINE own == msgs[post[h].id].conv
  <2>2. own \in Lists /\ Reversed(own) \in Lists /\ post[h].id \in Nat
    BY <2>1, Own
  <2> HIDE DEF own
  <2>3. UNCHANGED <<now, msgs>> /\ \E list \in {own, Reversed(own)} : ChangeAdd(list, post[h].id)
    BY <1>3 DEF AddSender, AddRecipient, own
  <2> QED BY <2>2, <2>3, ChangeAddGrows
<1>4. ASSUME NEW h \in Posts, PostAnswered(h) \/ PostFails(h) PROVE Grown
  BY <1>1, <1>4 DEF PostAnswered, PostFails
<1>5. ASSUME NEW p \in Pulls, ReadVersion(p) \/ PullStep(p) \/ PullFails(p) PROVE Grown
  BY <1>1, <1>5 DEF ReadVersion, PullStep, List, SaveMessage, SaveVersion, PullFails
<1>6. CASE Tick
  BY <1>1, <1>6 DEF Tick
<1>7. CASE UNCHANGED vars
  BY <1>1, <1>7 DEF vars
<1> QED
  BY <1>2, <1>3, <1>4, <1>5, <1>6, <1>7 DEF Next, PostStep

LEMMA Listed ==
    ASSUME ServerTypes, NEW p \in Pulls
    PROVE  /\ Asks[p] \in Lists /\ Asks[p][1] \in Keys
           /\ changes[Asks[p]] \in Seq(Entry) /\ Len(changes[Asks[p]]) \in Nat
           /\ \A i \in 1..Len(changes[Asks[p]]) :
                 /\ changes[Asks[p]][i].ts \in Nat
                 /\ changes[Asks[p]][i].id \in Nat
<1>1. Asks[p] \in Lists /\ Asks[p][1] \in Keys
  BY AsksAssumption DEF Lists
<1>2. changes[Asks[p]] \in Seq(Entry)
  BY <1>1 DEF ServerTypes
<1>3. \A i \in 1..Len(changes[Asks[p]]) : changes[Asks[p]][i] \in Entry
  BY <1>2
<1> QED
  BY <1>1, <1>2, <1>3 DEF Entry

LEMMA ExpiredStays == ASSUME ServerTypes, ServerTypes', Grown, NEW id \in 1..Len(msgs)
                      PROVE  Expired(id) => Expired(id)'
<1>1. msgs \in Seq([created : Nat, conv : Conversations])
  BY DEF ServerTypes
<1>2. msgs[id] \in [created : Nat, conv : Conversations]
  BY <1>1, SeqFacts
<1>3. msgs'[id] = msgs[id] /\ now \in Nat /\ now' \in Nat /\ now <= now'
  BY DEF ServerTypes, Grown
<1>4. msgs[id].created \in Nat
  BY <1>2
<1> QED
  BY <1>3, <1>4, NumbersAssumption DEF Expired

\* What is covered stays so, whatever the server does and whatever is saved.
LEMMA CoveredStays ==
    ASSUME PostInv, PostInv', Grown, NEW p \in Pulls, inbox[Asks[p]] \subseteq inbox'[Asks[p]],
           NEW time \in Nat, time <= now, NEW todo, Covered(p, time, todo)
    PROVE  Covered(p, time, todo)'
<1>1. PICK list \in Lists : list = Asks[p]
  BY Listed DEF PostInv
<1>2. /\ Len(changes[list]) \in Nat /\ Len(changes'[list]) \in Nat
      /\ now \in Nat /\ now' \in Nat /\ now <= now'
  BY DEF PostInv, ServerTypes, Grown
<1>3. ASSUME NEW i \in 1..Len(changes'[list]), changes'[list][i].ts < time
      PROVE  \/ i \in todo
             \/ changes'[list][i].id \in inbox'[list]
             \/ Expired(changes[list][i].id)' /\ changes'[list][i] = changes[list][i]
  <2>1. i \in 1..Len(changes[list])
    BY <1>2, <1>3 DEF Grown
  <2>2. changes'[list][i] = changes[list][i]
    BY <2>1 DEF Grown
  <2>3. PICK id \in Nat : id = changes[list][i].id
    BY <1>1, <2>1, Listed DEF PostInv
  <2>4. id \in 1..Len(msgs)
    BY <2>1, <2>3 DEF PostInv, ListedExist, Has
  <2>7. Expired(id) => Expired(id)'
    BY <2>4, ExpiredStays DEF PostInv
  <2>8. \/ i \in todo \/ id \in inbox[list] \/ Expired(id)
    BY <1>1, <1>3, <2>1, <2>2, <2>3 DEF Covered
  <2> QED BY <1>1, <2>2, <2>3, <2>7, <2>8
<1> QED
  BY <1>1, <1>3 DEF Covered

LEMMA InTimeList ==
    ASSUME PostInv, PostInv', Grown, InTime
    PROVE  \A list \in Lists : \A i \in 1..Len(changes'[list]) :
              /\ changes'[list][i].ts <= now'
              /\ \A j \in 1..i : changes'[list][j].ts <= changes'[list][i].ts
<1> USE DEF PostInv
<1> SUFFICES ASSUME NEW list \in Lists, NEW i \in 1..Len(changes'[list])
             PROVE  /\ changes'[list][i].ts <= now'
                    /\ \A j \in 1..i : changes'[list][j].ts <= changes'[list][i].ts
  OBVIOUS
<1>1. /\ changes[list] \in Seq(Entry) /\ changes'[list] \in Seq(Entry)
      /\ Len(changes[list]) \in Nat /\ Len(changes'[list]) \in Nat
      /\ now \in Nat /\ now' \in Nat /\ now <= now'
  BY DEF ServerTypes, Grown
<1>2. \A k \in 1..Len(changes[list]) : changes'[list][k] = changes[list][k]
  BY DEF Grown
<1>3. \A k \in 1..Len(changes[list]) : changes[list][k].ts \in Nat /\ changes[list][k].ts <= now
  <2>1. \A k \in 1..Len(changes[list]) : changes[list][k] \in Entry
    BY <1>1
  <2> QED BY <2>1 DEF InTime, Entry
<1>4. \A k \in 1..Len(changes'[list]) : k > Len(changes[list]) => changes'[list][k].ts = now
  BY DEF Grown
<1>5. \A j \in 1..i : j \in 1..Len(changes'[list])
  BY <1>1
<1>6. CASE i \in 1..Len(changes[list])
  <2>1. \A j \in 1..i : /\ j \in 1..Len(changes[list])
                         /\ changes[list][j].ts <= changes[list][i].ts
    BY <1>6, <1>1 DEF InTime
  <2>2. changes'[list][i] = changes[list][i] /\ changes[list][i].ts <= now'
    BY <1>1, <1>2, <1>3, <1>6
  <2> QED BY <2>1, <2>2, <1>2
<1>7. CASE i > Len(changes[list])
  <2>1. changes'[list][i].ts = now
    BY <1>4, <1>7
  <2>2. ASSUME NEW j \in 1..i PROVE changes'[list][j].ts <= now
    <3>1. CASE j > Len(changes[list])
      BY <3>1, <1>1, <1>4, <1>5
    <3>2. CASE j \in 1..Len(changes[list])
      BY <3>2, <1>2, <1>3
    <3> QED BY <3>1, <3>2, <1>1
  <2> QED BY <2>1, <2>2, <1>1
<1>8. i \in 1..Len(changes[list]) \/ i > Len(changes[list])
  BY <1>1
<1> QED
  BY <1>6, <1>7, <1>8

LEMMA VersionStays ==
    ASSUME PullInv, PostInv', Grown, version' = version,
           \A list \in Lists : inbox[list] \subseteq inbox'[list]
    PROVE  VersionInv'
<1>1. ASSUME NEW p \in Pulls PROVE Covered(p, version[Asks[p][1]], {})'
  <2>1. Asks[p] \in Lists /\ Asks[p][1] \in Keys
    BY Listed DEF PullInv, PostInv
  <2>2. version[Asks[p][1]] \in Nat /\ version[Asks[p][1]] <= now
    BY <2>1 DEF PullInv, DeviceTypes, InTime
  <2>3. Covered(p, version[Asks[p][1]], {})
    BY DEF PullInv, VersionInv
  <2>4. \A time \in Nat : time <= now /\ Covered(p, time, {}) => Covered(p, time, {})'
    BY <2>1, CoveredStays DEF PullInv
  <2> QED BY <2>2, <2>3, <2>4 DEF Covered
<1> QED
  BY <1>1 DEF VersionInv

\* A step of the server, a failure or no step at all.
LEMMA QuietStep ==
    ASSUME PullInv, PostInv', Grown, UNCHANGED <<inbox, version>>,
           pull' = pull \/ \E p \in Pulls : pull' = [pull EXCEPT ![p] = NoPull]
    PROVE  PullInv'
<1> USE DEF PullInv
<1>1. ServerTypes /\ ServerTypes'
  BY DEF PostInv
<1>2. now \in Nat /\ now' \in Nat /\ now <= now'
  BY <1>1 DEF ServerTypes, Grown
<1>3. \A p \in Pulls : \/ pull'[p] = pull[p]
                       \/ pull'[p] = NoPull
  BY DEF DeviceTypes
<1>4. pull' \in [Pulls -> [pc : PullPCs, from : Nat, todo : SUBSET Nat, next : Nat]]
  <2>1. NoPull \in [pc : PullPCs, from : Nat, todo : SUBSET Nat, next : Nat]
    BY DEF NoPull, PullPCs
  <2> QED BY <2>1 DEF DeviceTypes
<1>5. ASSUME NEW p \in Pulls PROVE pull'[p].todo \subseteq 1..Len(changes'[Asks[p]])
  <2>1. Asks[p] \in Lists /\ Len(changes[Asks[p]]) <= Len(changes'[Asks[p]])
    BY <1>1, Listed DEF Grown
  <2>2. Len(changes[Asks[p]]) \in Nat /\ Len(changes'[Asks[p]]) \in Nat
    BY <1>1, <2>1 DEF ServerTypes
  <2>3. pull[p].todo \subseteq 1..Len(changes'[Asks[p]])
    BY <2>1, <2>2 DEF DeviceTypes
  <2> QED BY <1>3, <2>3 DEF NoPull
<1>6. DeviceTypes'
  BY <1>4, <1>5 DEF DeviceTypes
<1>7. InTime'
  <2>1. ASSUME NEW p \in Pulls PROVE pull'[p].from <= now' /\ pull'[p].next <= now'
    BY <1>2, <1>3 DEF InTime, NoPull, DeviceTypes
  <2>2. ASSUME NEW k \in Keys PROVE version'[k] <= now'
    BY <1>2 DEF InTime, DeviceTypes
  <2> QED BY <2>1, <2>2, InTimeList DEF InTime
<1>8. VersionInv'
  BY VersionStays
<1>9. PullsInv'
  <2>1. \A p \in Pulls : \A time \in Nat : \A todo :
           time <= now /\ Covered(p, time, todo) => Covered(p, time, todo)'
    BY CoveredStays
  <2>2. ASSUME NEW p \in Pulls, pull'[p] = pull[p], pull[p].pc = "list"
        PROVE  Covered(p, pull[p].from, {})'
    <3>1. Covered(p, pull[p].from, {}) /\ pull[p].from \in Nat /\ pull[p].from <= now
      BY <2>2 DEF PullsInv, DeviceTypes, InTime
    <3>2. \A time : time = pull[p].from => Covered(p, time, {})'
      BY <3>1, <2>1
    <3> QED BY <3>2, <2>2 DEF Covered
  <2>3. ASSUME NEW p \in Pulls, pull'[p] = pull[p], pull[p].pc \in {"save", "version"}
        PROVE  Covered(p, pull[p].next, pull[p].todo)'
    <3>1. /\ Covered(p, pull[p].next, pull[p].todo)
          /\ pull[p].next \in Nat /\ pull[p].next <= now
      BY <2>3 DEF PullsInv, DeviceTypes, InTime
    <3>2. \A time, todo : time = pull[p].next /\ todo = pull[p].todo => Covered(p, time, todo)'
      BY <3>1, <2>1
    <3> QED BY <3>2, <2>3 DEF Covered
  <2>4. ASSUME NEW p \in Pulls, pull'[p] = NoPull
        PROVE  pull'[p].pc = "idle"
    BY <2>4 DEF NoPull
  <2> QED BY <1>3, <2>2, <2>3, <2>4 DEF PullsInv
<1> QED
  BY <1>6, <1>7, <1>8, <1>9

-----------------------------------------------------------------------------
(* The steps of a call. *)

CallRecord == [pc : PullPCs, from : Nat, todo : SUBSET Nat, next : Nat]

\* What has to hold of a call in slot p.
CallInv(p, call) ==
    /\ call.todo \subseteq 1..Len(changes[Asks[p]])
    /\ call.from <= now /\ call.next <= now
    /\ call.pc = "list" => Covered(p, call.from, {})
    /\ call.pc \in {"save", "version"} => /\ (call.pc = "version") <=> (call.todo = {})
                                          /\ Covered(p, call.next, call.todo)

LEMMA CallStep ==
    ASSUME PullInv, PostInv', UNCHANGED <<now, msgs, changes>>,
           NEW p \in Pulls, NEW call \in CallRecord, pull' = [pull EXCEPT ![p] = call],
           inbox' \in [Lists -> SUBSET Nat],
           \A list \in Lists : inbox[list] \subseteq inbox'[list],
           version' \in [Keys -> Nat], \A k \in Keys : version'[k] <= now,
           VersionInv', CallInv(p, call)'
    PROVE  PullInv'
<1>1. /\ pull' \in [Pulls -> CallRecord] /\ pull'[p] = call
      /\ \A q \in Pulls : q # p => pull'[q] = pull[q]
  BY DEF PullInv, DeviceTypes, CallRecord
<1>2. ASSUME NEW q \in Pulls, q # p PROVE CallInv(q, pull[q])'
  <2>1. CallInv(q, pull[q])
    BY DEF CallInv, PullInv, DeviceTypes, InTime, PullsInv
  <2>2. inbox[Asks[q]] \subseteq inbox'[Asks[q]]
    BY Listed DEF PullInv, PostInv
  <2>3. \A time, todo : Covered(q, time, todo) => Covered(q, time, todo)'
    BY <2>2 DEF Covered, Expired
  <2>4. PICK r : r = pull[q]
    OBVIOUS
  <2>5. CallInv(q, r)
    BY <2>1, <2>4
  <2>6. CallInv(q, r)'
    BY <2>3, <2>5 DEF CallInv
  <2> QED BY <1>1, <1>2, <2>4, <2>6 DEF CallInv, Covered
<1>3. ASSUME NEW q \in Pulls PROVE CallInv(q, pull[q])'
  BY <1>1, <1>2 DEF CallInv, Covered
<1>4. DeviceTypes'
  BY <1>1, <1>3 DEF DeviceTypes, CallInv, CallRecord
<1>5. InTime'
  BY <1>3 DEF PullInv, InTime, CallInv
<1>6. PullsInv'
  BY <1>3 DEF PullsInv, CallInv
<1> QED
  BY <1>4, <1>5, <1>6 DEF PullInv

LEMMA Fields ==
    ASSUME PullInv, NEW p \in Pulls
    PROVE  /\ pull[p] \in CallRecord /\ CallInv(p, pull[p])
           /\ pull[p].from \in Nat /\ pull[p].next \in Nat /\ pull[p].todo \in SUBSET Nat
           /\ Asks[p] \in Lists /\ Asks[p][1] \in Keys /\ now \in Nat
           /\ version[Asks[p][1]] \in Nat /\ version[Asks[p][1]] <= now
<1>1. pull[p] \in CallRecord
  BY DEF PullInv, DeviceTypes, CallRecord
<1>2. CallInv(p, pull[p])
  BY DEF CallInv, PullInv, DeviceTypes, InTime, PullsInv
<1>3. Asks[p] \in Lists /\ Asks[p][1] \in Keys /\ now \in Nat
  BY Listed DEF PullInv, PostInv, ServerTypes
<1> QED
  BY <1>1, <1>2, <1>3 DEF PullInv, DeviceTypes, InTime, CallRecord

LEMMA ReadVersionStep ==
    ASSUME PullInv, PostInv', Grown, NEW p \in Pulls, ReadVersion(p)
    PROVE  PullInv'
<1>1. PICK call : call = [NoPull EXCEPT !.pc = "list", !.from = version[Asks[p][1]]]
  OBVIOUS
<1>2. /\ pull' = [pull EXCEPT ![p] = call]
      /\ UNCHANGED <<now, msgs, changes, inbox, version>>
  BY <1>1 DEF ReadVersion
<1>3. /\ call \in CallRecord /\ call.pc = "list" /\ call.from = version[Asks[p][1]]
      /\ call.todo = {} /\ call.next = 0
  BY <1>1, Fields DEF CallRecord, NoPull, PullPCs
<1>4. VersionInv'
  BY <1>2, VersionStays
<1>5. CallInv(p, call)'
  <2>1. Covered(p, call.from, {})'
    BY <1>2, <1>3, <1>4 DEF VersionInv, Covered
  <2>2. call.from <= now /\ call.next <= now /\ now' = now
    BY <1>2, <1>3, Fields
  <2> QED BY <1>3, <2>1, <2>2 DEF CallInv
<1> QED
  BY <1>2, <1>3, <1>4, <1>5, CallStep DEF PullInv, DeviceTypes, InTime

\* The answer has every change from a time on that is before the answer's end.
LEMMA AnswerCovers ==
    ASSUME PullInv, NEW p \in Pulls, NEW from \in Nat, from <= now,
           NEW list, list = changes[Asks[p]], NEW found, found = ChangesFrom(list, from),
           NEW next, next = VersionNext(list, found, from)
    PROVE  /\ found \subseteq 1..Len(list) /\ found \in SUBSET Nat
           /\ next \in Nat /\ next <= now
           /\ \A i \in 1..Len(list) : list[i].ts < next => list[i].ts < from \/ i \in found
<1>1. /\ Len(list) \in Nat /\ now \in Nat /\ PullLimit \in Nat
      /\ \A i \in 1..Len(list) : list[i].ts \in Nat /\ list[i].ts <= now
  BY Listed, NumbersAssumption DEF PullInv, PostInv, ServerTypes, InTime
<1>2. \A i \in 1..Len(list) : \A j \in 1..i : list[j].ts <= list[i].ts
  BY Listed DEF PullInv, PostInv, InTime
<1>3. found \in SUBSET (1..Len(list)) /\ found \in SUBSET Nat
  BY <1>1 DEF ChangesFrom
<1>4. CASE found = {}
  <2>1. next = from
    BY <1>4 DEF VersionNext
  <2> QED BY <2>1, <1>3
<1>5. CASE found # {}
  <2>1. PICK l \in found : l = Last(found)
    BY <1>1, <1>3, <1>5, LastFacts
  <2>2. next = list[l].ts /\ l \in 1..Len(list)
    BY <1>3, <1>5, <2>1 DEF VersionNext
  <2>3. ASSUME NEW i \in 1..Len(list), list[i].ts < next, ~(list[i].ts < from), i \notin found
        PROVE  FALSE
    <3>1. list[i].ts >= from
      BY <1>1, <2>3
    <3>2. i > PullLimit /\ ~(list[i - PullLimit].ts < from)
      BY <2>3, <3>1 DEF ChangesFrom
    <3>3. CASE l < i
      <4>1. list[l].ts <= list[i].ts
        BY <1>1, <1>2, <2>2, <3>3
      <4> QED BY <1>1, <2>2, <2>3, <4>1
    <3>4. CASE l > i
      <4>1. l > PullLimit => list[l - PullLimit].ts < from
        BY <2>1 DEF ChangesFrom
      <4>2. l > PullLimit /\ l - PullLimit \in 1..Len(list) /\ i - PullLimit \in 1..(l - PullLimit)
        BY <1>1, <2>2, <3>2, <3>4
      <4>3. list[i - PullLimit].ts <= list[l - PullLimit].ts
        BY <1>2, <4>2
      <4>4. i - PullLimit \in 1..Len(list)
        BY <1>1, <4>2
      <4> QED BY <1>1, <3>2, <4>1, <4>2, <4>3, <4>4
    <3>5. l # i
      BY <2>1, <2>3
    <3> QED BY <1>1, <2>2, <3>3, <3>4, <3>5
  <2> QED BY <1>1, <1>3, <2>2, <2>3
<1> QED
  BY <1>4, <1>5

LEMMA NextCall ==
    ASSUME NEW todo \in SUBSET Nat, NEW next \in Nat, NEW call, call = SaveNext(todo, next)
    PROVE  /\ call \in CallRecord /\ call.pc \in {"save", "version"}
           /\ (call.pc = "version") <=> (todo = {})
           /\ call.todo = todo /\ call.next = next /\ call.from = 0
<1>1. PICK pc : pc = IF todo = {} THEN "version" ELSE "save"
  OBVIOUS
<1>2. call = [pc |-> pc, from |-> 0, todo |-> todo, next |-> next]
  BY <1>1, Zenon DEF SaveNext, NoPull
<1> QED
  BY <1>1, <1>2 DEF CallRecord, PullPCs

LEMMA ListStep ==
    ASSUME PullInv, PostInv', Grown, NEW p \in Pulls, List(p)
    PROVE  PullInv'
<1>1. PICK list, from : list = changes[Asks[p]] /\ from = pull[p].from
  OBVIOUS
<1>2. PICK found : found = ChangesFrom(list, from)
  OBVIOUS
<1>3. PICK next : next = VersionNext(list, found, from)
  OBVIOUS
<1>4. PICK todo : todo = {i \in found : ~Expired(list[i].id)}
  OBVIOUS
<1>5. PICK call : call = SaveNext(todo, next)
  OBVIOUS
<1>6. /\ pull' = [pull EXCEPT ![p] = call] /\ pull[p].pc = "list"
      /\ UNCHANGED <<now, msgs, changes, inbox, version>>
  BY <1>1, <1>2, <1>3, <1>4, <1>5 DEF List
<1>7. from \in Nat /\ from <= now /\ Covered(p, from, {})
  BY <1>1, <1>6, Fields DEF CallInv
<1>8. /\ found \subseteq 1..Len(list) /\ found \in SUBSET Nat
      /\ next \in Nat /\ next <= now
      /\ \A i \in 1..Len(list) : list[i].ts < next => list[i].ts < from \/ i \in found
  BY <1>1, <1>2, <1>3, <1>7, AnswerCovers
<1>9. /\ call \in CallRecord /\ call.pc \in {"save", "version"}
      /\ (call.pc = "version") <=> (todo = {})
      /\ call.todo = todo /\ call.next = next /\ call.from = 0
  <2>1. todo \in SUBSET Nat
    BY <1>4, <1>8
  <2> QED BY <1>5, <1>8, <2>1, NextCall
<1>10. Covered(p, next, todo)'
  BY <1>1, <1>4, <1>6, <1>7, <1>8 DEF Covered, Expired
<1>11. CallInv(p, call)'
  <2>1. 0 <= now
    BY Fields
  <2> QED BY <1>1, <1>4, <1>6, <1>8, <1>9, <1>10, <2>1 DEF CallInv
<1>12. VersionInv'
  BY <1>6, VersionStays
<1> QED
  BY <1>6, <1>9, <1>11, <1>12, CallStep DEF PullInv, DeviceTypes, InTime

LEMMA SaveMessageStep ==
    ASSUME PullInv, PostInv', Grown, NEW p \in Pulls, SaveMessage(p)
    PROVE  PullInv'
<1>1. PICK i, todo, next : i = First(todo) /\ todo = pull[p].todo /\ next = pull[p].next
  OBVIOUS
<1>2. PICK id : id = changes[Asks[p]][i].id
  OBVIOUS
<1>3. PICK call : call = SaveNext(todo \ {i}, next)
  OBVIOUS
<1>4. /\ pull' = [pull EXCEPT ![p] = call] /\ pull[p].pc = "save"
      /\ inbox' = [inbox EXCEPT ![Asks[p]] = @ \cup {id}]
      /\ UNCHANGED <<now, msgs, changes, version>>
  BY <1>1, <1>2, <1>3 DEF SaveMessage
<1>5. /\ todo \in SUBSET Nat /\ todo # {} /\ next \in Nat /\ next <= now
      /\ todo \subseteq 1..Len(changes[Asks[p]]) /\ Covered(p, next, todo)
  BY <1>1, <1>4, Fields DEF CallInv
<1>6. i \in todo
  BY <1>1, <1>5, FirstFacts
<1>7. id \in Nat
  BY <1>2, <1>5, <1>6, Listed DEF PullInv, PostInv
<1>8. /\ inbox' \in [Lists -> SUBSET Nat] /\ inbox'[Asks[p]] = inbox[Asks[p]] \cup {id}
      /\ \A list \in Lists : inbox[list] \subseteq inbox'[list]
  BY <1>4, <1>7, Fields DEF PullInv, DeviceTypes
<1>9. /\ call \in CallRecord /\ call.pc \in {"save", "version"}
      /\ (call.pc = "version") <=> (todo \ {i} = {})
      /\ call.todo = todo \ {i} /\ call.next = next /\ call.from = 0
  <2>1. todo \ {i} \in SUBSET Nat
    BY <1>5
  <2> QED BY <1>3, <1>5, <2>1, NextCall
<1>10. Covered(p, next, todo \ {i})'
  BY <1>2, <1>4, <1>5, <1>8 DEF Covered, Expired
<1>11. CallInv(p, call)'
  <2>1. 0 <= now
    BY Fields
  <2> QED BY <1>4, <1>5, <1>9, <1>10, <2>1 DEF CallInv
<1>12. VersionInv'
  BY <1>4, <1>8, VersionStays
<1> QED
  BY <1>4, <1>8, <1>9, <1>11, <1>12, CallStep DEF PullInv, DeviceTypes, InTime

\* The only step that relies on there being one conversation per key.
LEMMA SaveVersionStep ==
    ASSUME OneListPerKey, PullInv, PostInv', Grown, NEW p \in Pulls, SaveVersion(p)
    PROVE  PullInv'
<1>1. PICK next : next = pull[p].next
  OBVIOUS
<1>2. /\ pull' = [pull EXCEPT ![p] = NoPull] /\ pull[p].pc = "version"
      /\ version' = [version EXCEPT ![Asks[p][1]] = next]
      /\ UNCHANGED <<now, msgs, changes, inbox>>
  BY <1>1 DEF SaveVersion
<1>3. next \in Nat /\ next <= now /\ Covered(p, next, {})
  BY <1>1, <1>2, Fields DEF CallInv
<1>4. /\ version' \in [Keys -> Nat] /\ version'[Asks[p][1]] = next
      /\ \A k \in Keys : version'[k] <= now
      /\ \A k \in Keys : k # Asks[p][1] => version'[k] = version[k]
  BY <1>2, <1>3, Fields DEF PullInv, DeviceTypes, InTime
<1>5. VersionInv'
  <2>1. ASSUME NEW q \in Pulls PROVE Covered(q, version[Asks[q][1]], {})'
    <3>1. CASE Asks[q][1] = Asks[p][1]
      <4>1. Asks[q] = Asks[p]
        BY <3>1 DEF OneListPerKey
      <4> QED BY <4>1, <1>2, <1>3, <1>4 DEF Covered, Expired
    <3>2. CASE Asks[q][1] # Asks[p][1]
      <4>1. Covered(q, version[Asks[q][1]], {}) /\ Asks[q][1] \in Keys
        BY Fields DEF PullInv, VersionInv
      <4> QED BY <3>2, <4>1, <1>2, <1>4 DEF Covered, Expired
    <3> QED BY <3>1, <3>2
  <2> QED BY <2>1 DEF VersionInv
<1>6. NoPull \in CallRecord /\ CallInv(p, NoPull)'
  BY <1>2, Fields DEF CallInv, NoPull, CallRecord, PullPCs
<1> QED
  BY <1>2, <1>4, <1>5, <1>6, CallStep DEF PullInv, DeviceTypes

LEMMA PullInit == Init => PullInv
<1> SUFFICES ASSUME Init PROVE PullInv
  OBVIOUS
<1>1. DeviceTypes
  BY DEF Init, DeviceTypes, NoPull, PullPCs, Lists
<1>2. \A list \in Lists : changes[list] = <<>>
  BY DEF Init, Lists
<1>3. InTime
  BY <1>2 DEF Init, InTime, NoPull
<1>4. VersionInv
  BY <1>2, AsksAssumption DEF VersionInv, Covered, Lists
<1>5. PullsInv
  BY DEF Init, PullsInv, NoPull
<1> QED
  BY <1>1, <1>3, <1>4, <1>5, PostInit DEF PullInv

LEMMA PullNext == OneListPerKey /\ PullInv /\ [Next]_vars => PullInv'
<1> SUFFICES ASSUME OneListPerKey, PullInv, [Next]_vars PROVE PullInv'
  OBVIOUS
<1>1. PostInv' /\ Grown
  BY PostNext, StepGrows DEF PullInv
<1>2. ASSUME NEW h \in Posts, PostMessage(h) \/ PostStep(h) \/ PostFails(h)
      PROVE  PullInv'
  BY <1>1, <1>2, QuietStep
     DEF PostMessage, PostStep, AddSender, AddRecipient, PostAnswered, PostFails
<1>3. ASSUME NEW p \in Pulls, ReadVersion(p) \/ PullStep(p) \/ PullFails(p)
      PROVE  PullInv'
  <2>1. CASE PullFails(p)
    BY <1>1, <2>1, QuietStep DEF PullFails
  <2> QED BY <1>1, <1>3, <2>1, ReadVersionStep, ListStep, SaveMessageStep, SaveVersionStep
          DEF PullStep
<1>4. CASE Tick \/ UNCHANGED vars
  BY <1>1, <1>4, QuietStep DEF Tick, vars
<1> QED
  BY <1>2, <1>3, <1>4 DEF Next

\* The version a device saved never runs ahead of its inbox, whatever calls for a
\* conversation overlap, fail or are cut at the limit: what will not be asked for
\* again has been saved or has expired. It needs that a key's calls list one
\* conversation (the version does not name it).
THEOREM NothingSkippedCorrect == ASSUME OneListPerKey PROVE Spec => []NothingSkipped
<1>1. PullInv => NothingSkipped
  BY DEF PullInv, VersionInv, Covered, NothingSkipped
<1>2. PullInv /\ [Next]_vars => PullInv'
  BY PullNext
<1> QED
  BY <1>1, <1>2, PullInit, PTL DEF Spec
=============================================================================
