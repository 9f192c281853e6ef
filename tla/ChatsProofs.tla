----------------------------- MODULE ChatsProofs -----------------------------
(* Proofs about Chats: two users have one conversation, its messages are counted   *)
(* and do not outlive it, and what is marked read was found, for any number of     *)
(* handlers, conversations and messages.                                           *)
EXTENDS Chats, FiniteSetTheorems, TLAPS

CountOf(c) == Cardinality(Created(c))

OpenOnce == \A c, d \in Convs : Open(c) /\ Open(d) => c = d

\* Messages come in order, each in a conversation.
MessagesOK ==
    /\ \A i \in Messages : message[i].status = "none" => message[i] = NoMessage
    /\ \A i \in Messages : message[i].status # "none" => message[i].conv \in Convs
    /\ \A i, j \in Messages :
         j < i /\ message[i].status # "none" => message[j].status # "none"

ConvsOK ==
    \A c \in Convs :
        /\ conv[c].status = "none" => conv[c] = NoConv /\ Created(c) = {}
        /\ conv[c].count <= CountOf(c)

AllLate(c) ==
    \A i \in Messages : message[i].status = "sent" /\ message[i].conv = c => message[i].late

\* What a request in flight has read and written so far.
Known(q) == q.conv \in Convs => conv[q.conv].status # "none"

SendOK(q) ==
    /\ q.at \in {"create", "send_save"} => q.conv \in Convs /\ q.user \in Users
    /\ q.at = "create" => q.read.count <= CountOf(q.conv)
    /\ q.at = "send_save" => q.read.count < CountOf(q.conv) /\ q.id \in Messages

MarkOK(q) ==
    /\ q.at \in {"mark_find", "mark_update"} => q.user \in Users
    /\ q.at = "mark_update" => q.ids \subseteq found[q.user]

DeleteOK(q) ==
    /\ q.todo # {} => q.at = "delete"
    /\ q.at = "delete" => q.conv \in Convs
    /\ q.at = "delete" /\ "messages" \notin q.todo => AllLate(q.conv)

RequestOK(q) == Known(q) /\ SendOK(q) /\ MarkOK(q) /\ DeleteOK(q)

RequestsOK == \A r \in Reqs : RequestOK(req[r])

FoundOK ==
    \A u \in Users : /\ told[u] \subseteq found[u]
                     /\ \A i \in found[u] : message[i].status # "none"

\* The count and the last message of a conversation in which no send overlapped.
Exact(c) == conv[c].count = CountOf(c) /\ \A i \in Created(c) : i <= conv[c].last

SendExact(c, q) ==
    /\ q.read.count = conv[c].count /\ q.read.last = conv[c].last
    /\ q.at = "create" => Exact(c)
    /\ q.at = "send_save" => /\ conv[c].count + 1 = CountOf(c)
                             /\ \A i \in Created(c) : i <= q.id

SendsExact ==
    \A c \in Convs : Open(c) /\ c \notin contended =>
        /\ \A r, s \in Sending(c) : r = s
        /\ Sending(c) = {} => Exact(c)
        /\ \A r \in Sending(c) : SendExact(c, req[r])

Inv ==
    /\ TypeOK /\ OpenOnce /\ MessagesOK /\ ConvsOK /\ RequestsOK /\ FoundOK
    /\ SendsExact /\ NoOrphans /\ ReadWasFound

-----------------------------------------------------------------------------
(* What the steps have in common *)

\* The messages created in a conversation are counted within the bound.
LEMMA CreatedFinite ==
    ASSUME Assumptions, NEW c
    PROVE  /\ IsFiniteSet(Created(c)) /\ CountOf(c) \in 0..MaxMessages
           /\ IsFiniteSet(Created(c)') /\ CountOf(c)' \in 0..MaxMessages
  <1>1. /\ IsFiniteSet(Messages)
        /\ Cardinality(Messages) = MaxMessages
    BY FS_Interval DEF Messages, Assumptions
  <1>2. Created(c) \subseteq Messages /\ Created(c)' \subseteq Messages
    BY DEF Created
  <1>3. /\ IsFiniteSet(Created(c)) /\ Cardinality(Created(c)) <= MaxMessages
        /\ Cardinality(Created(c)) \in Nat
    BY <1>1, <1>2, FS_Subset, FS_CardinalityType
  <1>4. /\ IsFiniteSet(Created(c)') /\ Cardinality(Created(c)') <= MaxMessages
        /\ Cardinality(Created(c)') \in Nat
    BY <1>1, <1>2, FS_Subset, FS_CardinalityType
  <1> QED
    BY <1>3, <1>4 DEF CountOf, Assumptions

\* A message that stays in its conversation, removed or not, stays counted.
LEMMA CreatedGrows ==
    ASSUME Assumptions, NEW c, Created(c) \subseteq Created(c)'
    PROVE  CountOf(c) <= CountOf(c)'
  BY CreatedFinite, FS_Subset DEF CountOf

\* A conversation that is created is not forgotten, and what is in it stays counted.
Grows ==
    \A c \in Convs : /\ conv[c].status # "none" => conv'[c].status # "none"
                     /\ Created(c) \subseteq Created(c)'

FoundGrows == \A u \in Users : found[u] \subseteq found'[u]

\* What a request knows stays true when conversations, messages and finds only grow.
LEMMA RequestKept ==
    ASSUME Assumptions, Grows, FoundGrows,
           NEW q \in Request, RequestOK(q),
           q.at = "delete" /\ AllLate(q.conv) => AllLate(q.conv)'
    PROVE  RequestOK(q)'
  <1>1. Known(q)'
    BY DEF RequestOK, Known, Grows
  <1>2. SendOK(q)'
    <2>1. q.conv \in Convs => CountOf(q.conv) <= CountOf(q.conv)'
      BY CreatedGrows DEF Grows
    <2>2. CountOf(q.conv) \in Int /\ CountOf(q.conv)' \in Int /\ q.read.count \in Int
      BY CreatedFinite DEF Request, Conv, Assumptions
    <2> QED
      BY <2>1, <2>2 DEF RequestOK, SendOK
  <1>3. MarkOK(q)'
    BY DEF RequestOK, MarkOK, FoundGrows
  <1>4. DeleteOK(q)'
    BY DEF RequestOK, DeleteOK
  <1> QED
    BY <1>1, <1>2, <1>3, <1>4 DEF RequestOK

LEMMA IdleOK ==
    ASSUME Assumptions
    PROVE  Idle \in Request /\ RequestOK(Idle) /\ RequestOK(Idle)'
  BY DEF Assumptions, Idle, Request, Step, Conv, NoConv, RequestOK, Known, SendOK, MarkOK,
         DeleteOK, Convs

\* A step of one request that leaves conversations and messages alone.
LEMMA Answered ==
    ASSUME Assumptions, Inv, NEW r \in Reqs, NEW q \in Request,
           req' = [req EXCEPT ![r] = q], UNCHANGED <<conv, message>>,
           aborts' \in 0..MaxAborts,
           told' \in [Users -> SUBSET Messages], found' \in [Users -> SUBSET Messages],
           FoundGrows, contended \subseteq contended', contended' \subseteq Convs,
           RequestOK(q)', FoundOK', SendsExact', NoOrphans', ReadWasFound'
    PROVE  Inv'
  <1>1. TypeOK'
    BY DEF Inv, TypeOK
  <1>2. OpenOnce' /\ MessagesOK'
    BY DEF Inv, OpenOnce, Open, MessagesOK
  <1>3. ConvsOK'
    BY DEF Inv, ConvsOK, Created, CountOf
  <1>4. RequestsOK'
    <2>1. Grows
      BY DEF Grows, Created
    <2> SUFFICES ASSUME NEW s \in Reqs
                 PROVE  \E p \in Request : p = req'[s] /\ RequestOK(p)'
      BY DEF RequestsOK, RequestOK, Known, SendOK, MarkOK, DeleteOK
    <2>2. PICK p \in Request : p = req[s]
      BY DEF Inv, TypeOK
    <2>3. RequestOK(p)'
      <3>1. RequestOK(p)
        BY <2>2 DEF Inv, RequestsOK
      <3>2. AllLate(p.conv) => AllLate(p.conv)'
        BY DEF AllLate
      <3> QED
        BY <2>1, <3>1, <3>2, RequestKept
    <2>4. req'[s] = IF s = r THEN q ELSE p
      BY <2>2 DEF Inv, TypeOK
    <2> QED
      BY <2>3, <2>4
  <1> QED
    BY <1>1, <1>2, <1>3, <1>4 DEF Inv

\* The sends under way are as before, but in conversations that are excused.
LEMMA SendsKept ==
    ASSUME Inv, UNCHANGED <<conv, message>>, contended \subseteq contended',
           \A c \in Convs \ contended' :
              \/ /\ Sending(c)' = Sending(c)
                 /\ \A s \in Sending(c) : req'[s] = req[s]
              \/ Open(c) => Sending(c)' = {} /\ Exact(c)
    PROVE  SendsExact'
  <1> SUFFICES ASSUME NEW c \in Convs, Open(c), c \notin contended'
               PROVE  /\ \A r, s \in Sending(c)' : r = s
                      /\ Sending(c)' = {} => Exact(c)
                      /\ \A r \in Sending(c)' : SendExact(c, req[r])'
    BY DEF SendsExact, Open, Exact, CountOf, Created
  <1>1. /\ \A r, s \in Sending(c) : r = s
        /\ Sending(c) = {} => Exact(c)
        /\ \A r \in Sending(c) : SendExact(c, req[r])
    BY DEF Inv, SendsExact
  <1>2. CASE Open(c) => Sending(c)' = {} /\ Exact(c)
    BY <1>2
  <1>3. CASE Sending(c)' = Sending(c) /\ \A s \in Sending(c) : req'[s] = req[s]
    <2>1. \A r \in Sending(c)' : SendExact(c, req[r])'
      BY <1>1, <1>3, ZenonT(60) DEF SendExact, Exact, CountOf, Created
    <2> QED
      BY <1>1, <1>3, <2>1
  <1> QED
    BY <1>2, <1>3

\* Messages are removed and deletions go on as before, but for what is excused.
LEMMA OrphansKept ==
    ASSUME Inv, UNCHANGED <<conv, message>>, contended \subseteq contended',
           \A c \in Convs \ contended' : Deleting(c) # {} => Deleting(c)' # {}
    PROVE  NoOrphans'
  BY DEF Inv, NoOrphans, MessagesOK, Open

LEMMA RequestIs ==
    ASSUME Inv, NEW r \in Reqs
    PROVE  req[r] \in Request /\ RequestOK(req[r])
  BY DEF Inv, TypeOK, RequestsOK

\* A step of a request that neither sends nor ends a deletion, and finds what is there.
LEMMA Aside ==
    ASSUME Assumptions, Inv, NEW r \in Reqs, NEW q \in Request,
           req' = [req EXCEPT ![r] = q],
           UNCHANGED <<conv, message, aborts, told, contended>>,
           found' \in [Users -> SUBSET Messages], FoundGrows, FoundOK',
           {req[r].at, q.at} \cap {"create", "send_save"} = {},
           req[r].at # "delete", RequestOK(q)'
    PROVE  Inv'
  <1>0. \A s \in Reqs : req'[s] = IF s = r THEN q ELSE req[s]
    BY DEF Inv, TypeOK
  <1>1. SendsExact'
    <2>1. \A c \in Convs : /\ Sending(c)' = Sending(c)
                           /\ \A s \in Sending(c) : req'[s] = req[s]
      BY <1>0 DEF Sending
    <2> QED
      BY <2>1, SendsKept
  <1>2. NoOrphans'
    <2>1. \A c \in Convs : Deleting(c) \subseteq Deleting(c)'
      BY <1>0 DEF Deleting
    <2> QED
      BY <2>1, OrphansKept
  <1>3. ReadWasFound'
    BY DEF Inv, ReadWasFound, FoundGrows
  <1>4. aborts' \in 0..MaxAborts /\ told' \in [Users -> SUBSET Messages]
        /\ contended \subseteq contended' /\ contended' \subseteq Convs
    BY DEF Inv, TypeOK
  <1> QED
    BY <1>1, <1>2, <1>3, <1>4, Answered

-----------------------------------------------------------------------------
(* The steps *)

LEMMA StartFindInv ==
    ASSUME Assumptions, Inv, NEW r \in Reqs, StartFind(r)
    PROVE  Inv'
  <1> DEFINE q == [Idle EXCEPT !.at = "start_create"]
  <1>1. /\ req[r].at = "idle" /\ req' = [req EXCEPT ![r] = q]
        /\ UNCHANGED <<conv, message, aborts, told, found, contended>>
    BY DEF StartFind, Begin, Free
  <1>2. q \in Request /\ RequestOK(q)'
    BY DEF Assumptions, Idle, Request, Step, Conv, NoConv, RequestOK, Known, SendOK, MarkOK,
           DeleteOK, Convs
  <1>3. found' \in [Users -> SUBSET Messages] /\ FoundGrows /\ FoundOK'
    BY <1>1 DEF Inv, TypeOK, FoundGrows, FoundOK
  <1>4. q.at = "start_create"
    BY DEF Idle
  <1> HIDE DEF q
  <1> QED
    BY <1>1, <1>2, <1>3, <1>4, Aside

LEMMA MarkBeginInv ==
    ASSUME Assumptions, Inv, NEW r \in Reqs, NEW u \in Users, NEW c \in Convs, MarkBegin(r, u, c)
    PROVE  Inv'
  <1> DEFINE q == [Idle EXCEPT !.at = "mark_find", !.user = u, !.conv = c]
  <1>1. /\ req[r].at = "idle" /\ req' = [req EXCEPT ![r] = q]
        /\ UNCHANGED <<conv, message, aborts, told, found, contended>>
        /\ conv[c].status = "open"
    BY DEF MarkBegin, Begin, Free, Open
  <1>2. q \in Request /\ q.at = "mark_find" /\ q.user = u /\ q.conv = c /\ q.todo = {}
    BY IdleOK DEF Idle, Request, Step
  <1> HIDE DEF q
  <1>3. RequestOK(q)'
    BY <1>1, <1>2 DEF RequestOK, Known, SendOK, MarkOK, DeleteOK
  <1>4. found' \in [Users -> SUBSET Messages] /\ FoundGrows /\ FoundOK'
    BY <1>1 DEF Inv, TypeOK, FoundGrows, FoundOK
  <1> QED
    BY <1>1, <1>2, <1>3, <1>4, Aside

LEMMA DeleteFindInv ==
    ASSUME Assumptions, Inv, NEW r \in Reqs, NEW c \in Convs, DeleteFind(r, c)
    PROVE  Inv'
  <1> DEFINE q == [Idle EXCEPT !.at = "delete", !.conv = c,
                               !.todo = {"messages", "conversation"}]
  <1>1. /\ req[r].at = "idle" /\ req' = [req EXCEPT ![r] = q]
        /\ UNCHANGED <<conv, message, aborts, told, found, contended>>
        /\ conv[c].status = "open"
    BY DEF DeleteFind, Begin, Free, Open
  <1>2. q \in Request /\ q.at = "delete" /\ q.conv = c /\ q.todo = {"messages", "conversation"}
    BY IdleOK DEF Idle, Request, Step
  <1> HIDE DEF q
  <1>3. RequestOK(q)'
    BY <1>1, <1>2 DEF RequestOK, Known, SendOK, MarkOK, DeleteOK
  <1>4. found' \in [Users -> SUBSET Messages] /\ FoundGrows /\ FoundOK'
    BY <1>1 DEF Inv, TypeOK, FoundGrows, FoundOK
  <1> QED
    BY <1>1, <1>2, <1>3, <1>4, Aside

LEMMA MarkFindInv ==
    ASSUME Assumptions, Inv, NEW r \in Reqs, MarkFind(r)
    PROVE  Inv'
  <1> DEFINE u == req[r].user
             ids == Unread(u, req[r].conv)
  <1>1. /\ req[r].at = "mark_find"
        /\ found' = [found EXCEPT ![u] = @ \cup ids]
        /\ UNCHANGED <<conv, message, aborts, told, contended>>
    BY DEF MarkFind
  <1>2. PICK q \in Request :
           /\ q.at \in {"idle", "mark_update"} /\ req' = [req EXCEPT ![r] = q]
           /\ q.conv = req[r].conv \/ q.conv = 0
           /\ q.todo = req[r].todo \/ q.todo = {}
           /\ q.at = "mark_update" => q.user = u /\ q.ids = ids
    <2>1. CASE ids = {}
      <3>1. req' = [req EXCEPT ![r] = Idle]
        BY <2>1 DEF MarkFind, Finish
      <3> QED
        BY <3>1, IdleOK DEF Idle
    <2>2. CASE ids # {}
      <3> DEFINE p == [req[r] EXCEPT !.at = "mark_update", !.ids = ids]
      <3>1. req' = [req EXCEPT ![r] = p]
        BY <2>2 DEF MarkFind, Inv, TypeOK
      <3>2. /\ p \in Request /\ p.at = "mark_update" /\ p.conv = req[r].conv
            /\ p.todo = req[r].todo /\ p.user = u /\ p.ids = ids
        BY RequestIs DEF Request, Step, Unread
      <3> QED
        BY <3>1, <3>2
    <2> QED
      BY <2>1, <2>2
  <1>3. u \in Users /\ ids \subseteq {i \in Messages : message[i].status # "none"}
    BY <1>1, RequestIs DEF RequestOK, MarkOK, Unread
  <1>4. found' \in [Users -> SUBSET Messages] /\ FoundGrows /\ FoundOK'
    BY <1>1, <1>3 DEF Inv, TypeOK, FoundGrows, FoundOK
  <1>5. RequestOK(q)'
    <2>1. Known(q)'
      BY <1>1, <1>2, RequestIs DEF RequestOK, Known, Convs
    <2>2. SendOK(q)' /\ DeleteOK(q)'
      BY <1>1, <1>2, RequestIs DEF RequestOK, SendOK, DeleteOK
    <2>3. MarkOK(q)'
      BY <1>1, <1>2, <1>3 DEF MarkOK, Inv, TypeOK
    <2> QED
      BY <2>1, <2>2, <2>3 DEF RequestOK
  <1> QED
    BY <1>1, <1>2, <1>4, <1>5, Aside

LEMMA SendFindInv ==
    ASSUME Assumptions, Inv, NEW r \in Reqs, NEW u \in Users, NEW c \in Convs, SendFind(r, u, c)
    PROVE  Inv'
  <1> DEFINE begun == [Idle EXCEPT !.at = "create", !.user = u, !.conv = c, !.read = conv[c]]
  <1>0. /\ begun \in Request /\ begun.at = "create" /\ begun.user = u /\ begun.conv = c
        /\ begun.read = conv[c] /\ begun.todo = {}
    BY DEF Assumptions, Idle, Request, Step, Conv, NoConv, Inv, TypeOK
  <1>1. /\ req[r].at = "idle" /\ req' = [req EXCEPT ![r] = begun]
        /\ contended' = IF Sending(c) = {} THEN contended ELSE contended \cup {c}
        /\ UNCHANGED <<conv, message, aborts, told, found>>
        /\ Open(c)
    BY DEF SendFind, Begin, Free
  <1> HIDE DEF begun
  <1>2. PICK q \in Request : /\ q.at = "create" /\ q.user = u /\ q.conv = c
                             /\ q.read = conv[c] /\ q.todo = {}
                             /\ req' = [req EXCEPT ![r] = q]
    BY <1>0, <1>1
  <1>3. RequestOK(q)'
    <2>1. conv[c].count <= CountOf(c)'
      BY <1>1 DEF Inv, ConvsOK, CountOf, Created
    <2> QED
      BY <1>1, <1>2, <2>1 DEF RequestOK, Known, SendOK, MarkOK, DeleteOK, Open
  <1>4. \A s \in Reqs : req'[s] = IF s = r THEN q ELSE req[s]
    BY <1>2 DEF Inv, TypeOK
  <1>5. SendsExact'
    <2> SUFFICES ASSUME NEW d \in Convs, Open(d), d \notin contended'
                 PROVE  /\ \A s, t \in Sending(d)' : s = t
                        /\ Sending(d)' = {} => Exact(d)
                        /\ \A s \in Sending(d)' : SendExact(d, req[s])'
      BY <1>1 DEF SendsExact, Open, Exact, CountOf, Created
    <2>1. /\ \A s, t \in Sending(d) : s = t
          /\ Sending(d) = {} => Exact(d)
          /\ \A s \in Sending(d) : SendExact(d, req[s])
      BY <1>1 DEF Inv, SendsExact
    <2>2. CASE d = c
      <3>1. Sending(d) = {}
        BY <1>1, <2>2
      <3>2. Sending(d)' = {r}
        BY <1>2, <1>4, <2>2, <3>1 DEF Sending
      <3>3. SendExact(d, req[r])'
        BY <1>1, <1>2, <1>4, <2>1, <2>2, <3>1 DEF SendExact, Exact, CountOf, Created
      <3> QED
        BY <3>2, <3>3
    <2>3. CASE d # c
      <3>1. Sending(d)' = Sending(d) /\ r \notin Sending(d)
        BY <1>1, <1>2, <1>4, <2>3 DEF Sending
      <3>2. \A s \in Sending(d) : req'[s] = req[s]
        BY <1>4, <3>1 DEF Sending
      <3>3. \A s \in Sending(d)' : SendExact(d, req[s])'
        BY <1>1, <2>1, <3>1, <3>2 DEF SendExact, Exact, CountOf, Created
      <3> QED
        BY <2>1, <3>1, <3>3
    <2> QED
      BY <2>2, <2>3
  <1>6. NoOrphans'
    <2>1. \A d \in Convs : Deleting(d) \subseteq Deleting(d)'
      BY <1>1, <1>4 DEF Deleting
    <2> QED
      BY <1>1, <2>1, OrphansKept
  <1>7. FoundOK' /\ ReadWasFound' /\ FoundGrows
    BY <1>1 DEF Inv, FoundOK, ReadWasFound, FoundGrows
  <1>8. /\ aborts' \in 0..MaxAborts
        /\ told' \in [Users -> SUBSET Messages] /\ found' \in [Users -> SUBSET Messages]
        /\ contended \subseteq contended' /\ contended' \subseteq Convs
    BY <1>1 DEF Inv, TypeOK
  <1>9. UNCHANGED <<conv, message>>
    BY <1>1
  <1> QED
    BY <1>2, <1>3, <1>5, <1>6, <1>7, <1>8, <1>9, Answered

LEMMA OthersKept ==
    ASSUME Assumptions, Inv, NEW r \in Reqs, NEW q \in Request,
           req' = [req EXCEPT ![r] = q], Grows, FoundGrows, RequestOK(q)',
           \A s \in Reqs \ {r}, c \in Convs :
              req[s].at = "delete" /\ req[s].conv = c /\ AllLate(c) => AllLate(c)'
    PROVE  RequestsOK'
  <1> SUFFICES ASSUME NEW s \in Reqs
               PROVE  \E p \in Request : p = req'[s] /\ RequestOK(p)'
    BY DEF RequestsOK, RequestOK, Known, SendOK, MarkOK, DeleteOK
  <1>1. req'[s] = IF s = r THEN q ELSE req[s]
    BY DEF Inv, TypeOK
  <1>2. CASE s = r
    BY <1>1, <1>2
  <1>3. CASE s # r
    <2>1. PICK p \in Request : p = req[s] /\ RequestOK(p)
      BY RequestIs
    <2>2. p.at = "delete" /\ AllLate(p.conv) => AllLate(p.conv)'
      BY <1>3, <2>1 DEF RequestOK, DeleteOK
    <2>3. RequestOK(p)'
      BY <2>1, <2>2, RequestKept
    <2> QED
      BY <1>1, <1>3, <2>1, <2>3
  <1> QED
    BY <1>2, <1>3

\* The slot of a request that is over.
LEMMA Finished ==
    ASSUME Assumptions, Inv, NEW r \in Reqs, Finish(r)
    PROVE  /\ req' \in [Reqs -> Request]
           /\ \A s \in Reqs : req'[s] = IF s = r THEN Idle ELSE req[s]
           /\ \A c \in Convs : /\ Sending(c)' = Sending(c) \ {r}
                               /\ Deleting(c)' = Deleting(c) \ {r}
  <1>1. /\ req' \in [Reqs -> Request]
        /\ \A s \in Reqs : req'[s] = IF s = r THEN Idle ELSE req[s]
    BY IdleOK DEF Finish, Inv, TypeOK
  <1>2. Idle.at = "idle"
    BY DEF Idle
  <1> QED
    BY <1>1, <1>2 DEF Sending, Deleting

LEMMA StartCreateInv ==
    ASSUME Assumptions, Inv, NEW r \in Reqs, StartCreate(r)
    PROVE  Inv'
  <1>1. /\ req[r].at = "start_create" /\ Finish(r)
        /\ UNCHANGED <<message, aborts, told, found, contended>>
    BY DEF StartCreate
  <1>2. CASE UNCHANGED conv
    <2>1. req' = [req EXCEPT ![r] = Idle]
      BY <1>1 DEF Finish
    <2>2. found' \in [Users -> SUBSET Messages] /\ FoundGrows /\ FoundOK'
      BY <1>1 DEF Inv, TypeOK, FoundGrows, FoundOK
    <2>3. Idle.at = "idle"
      BY DEF Idle
    <2> QED
      BY <1>1, <1>2, <2>1, <2>2, <2>3, IdleOK, Aside
  <1>3. CASE conv' # conv
    <2>1. PICK c \in Convs : /\ conv[c].status = "none" /\ \A d \in Convs : ~Open(d)
                             /\ conv' = [conv EXCEPT ![c].status = "open"]
      BY <1>3 DEF StartCreate
    <2>2. /\ conv' \in [Convs -> Conv]
          /\ \A d \in Convs : /\ conv'[d].status = IF d = c THEN "open" ELSE conv[d].status
                              /\ conv'[d].count = conv[d].count
                              /\ d # c => conv'[d] = conv[d]
      BY <2>1 DEF Inv, TypeOK, Conv
    <2>3. \A d \in Convs : Created(d)' = Created(d) /\ CountOf(d)' = CountOf(d)
      BY <1>1 DEF Created, CountOf
    <2>4. conv[c] = NoConv /\ Created(c) = {} /\ CountOf(c) = 0
      BY <2>1, FS_EmptySet DEF Inv, ConvsOK, CountOf
    <2>5. TypeOK'
      BY <1>1, <2>2, Finished DEF Inv, TypeOK
    <2>6. OpenOnce'
      BY <2>1, <2>2 DEF OpenOnce, Open
    <2>7. MessagesOK' /\ FoundOK' /\ ReadWasFound'
      BY <1>1 DEF Inv, MessagesOK, FoundOK, ReadWasFound
    <2>8. ConvsOK'
      BY <2>2, <2>3 DEF Inv, ConvsOK
    <2>9. RequestsOK'
      <3>1. Grows /\ FoundGrows
        BY <1>1, <2>2, <2>3 DEF Grows, FoundGrows
      <3>2. \A d \in Convs : AllLate(d) => AllLate(d)'
        BY <1>1 DEF AllLate
      <3> QED
        BY <1>1, <3>1, <3>2, IdleOK, OthersKept DEF Finish
    <2>10. SendsExact'
      <3>1. \A s \in Reqs : req[s].conv # c
        BY <2>1, RequestIs DEF RequestOK, Known
      <3>2. Sending(c)' = {}
        BY <1>1, <3>1, Finished DEF Sending
      <3>3. Exact(c)'
        BY <2>2, <2>3, <2>4 DEF Exact, NoConv
      <3>4. \A d \in Convs : Open(d)' => d = c
        BY <2>1, <2>2 DEF Open
      <3> QED
        BY <3>2, <3>3, <3>4 DEF SendsExact
    <2>11. NoOrphans'
      <3>1. \A d \in Convs : /\ Deleting(d)' = Deleting(d)
                             /\ Open(d) => Open(d)'
        BY <1>1, <2>2, Finished DEF Deleting, Open
      <3> QED
        BY <1>1, <3>1 DEF Inv, NoOrphans, MessagesOK
    <2> QED
      BY <2>5, <2>6, <2>7, <2>8, <2>9, <2>10, <2>11 DEF Inv
  <1> QED
    BY <1>2, <1>3

LEMMA AbortInv ==
    ASSUME Assumptions, Inv, NEW r \in Reqs, Abort(r)
    PROVE  Inv'
  <1>1. /\ Finish(r) /\ req' = [req EXCEPT ![r] = Idle]
        /\ UNCHANGED <<conv, message, told, found>>
        /\ aborts' = aborts + 1 /\ aborts < MaxAborts
        /\ contended' = IF req[r].at \in {"send_save", "delete"}
                        THEN contended \cup {req[r].conv} ELSE contended
    BY DEF Abort, Finish
  <1>2. /\ aborts' \in 0..MaxAborts
        /\ told' \in [Users -> SUBSET Messages] /\ found' \in [Users -> SUBSET Messages]
        /\ contended \subseteq contended'
    BY <1>1 DEF Inv, TypeOK, Assumptions
  <1>3. contended' \subseteq Convs
    BY <1>1, RequestIs DEF Inv, TypeOK, RequestOK, SendOK, DeleteOK
  <1>4. FoundOK' /\ ReadWasFound' /\ FoundGrows
    BY <1>1 DEF Inv, FoundOK, ReadWasFound, FoundGrows
  <1>5. SendsExact'
    <2> SUFFICES ASSUME NEW c \in Convs \ contended'
                 PROVE  \/ /\ Sending(c)' = Sending(c)
                           /\ \A s \in Sending(c) : req'[s] = req[s]
                        \/ Open(c) => Sending(c)' = {} /\ Exact(c)
      BY <1>1, <1>2, SendsKept
    <2>1. Sending(c)' = Sending(c) \ {r}
      BY <1>1, Finished
    <2>2. CASE r \notin Sending(c)
      BY <1>1, <2>1, <2>2, Finished DEF Sending
    <2>3. CASE r \in Sending(c)
      <3>1. req[r].at = "create"
        BY <1>1, <2>3 DEF Sending
      <3>2. Open(c) => Sending(c) = {r} /\ Exact(c)
        BY <1>2, <2>3, <3>1 DEF Inv, SendsExact, SendExact
      <3> QED
        BY <2>1, <3>2
    <2> QED
      BY <2>2, <2>3
  <1>6. NoOrphans'
    <2>1. \A c \in Convs \ contended' : Deleting(c)' = Deleting(c)
      BY <1>1, Finished DEF Deleting
    <2> QED
      BY <1>1, <1>2, <2>1, OrphansKept
  <1>7. UNCHANGED <<conv, message>>
    BY <1>1
  <1> QED
    BY <1>1, <1>2, <1>3, <1>4, <1>5, <1>6, <1>7, IdleOK, Answered

LEMMA SendInv ==
    ASSUME Assumptions, Inv, NEW r \in Reqs, Send(r)
    PROVE  Inv'
  <1>1. PICK old \in Request : /\ old = req[r] /\ RequestOK(old) /\ old.at = "create"
    BY RequestIs DEF Send
  <1>2. PICK c \in Convs : c = old.conv
    BY <1>1 DEF RequestOK, SendOK
  <1>3. PICK i \in Messages :
           /\ message[i].status = "none" /\ \A j \in Messages : j < i => message[j].status # "none"
           /\ message' = [message EXCEPT ![i] =
                 [status |-> "sent", conv |-> c, sender |-> old.user,
                  readBy |-> {old.user}, late |-> ~Open(c) \/ Deleting(c) # {}]]
           /\ req' = [req EXCEPT ![r].at = "send_save", ![r].id = i]
           /\ UNCHANGED <<conv, aborts, told, found, contended>>
    BY <1>1, <1>2 DEF Send
  <1>4. PICK q \in Request : /\ q.at = "send_save" /\ q.id = i /\ q.conv = c
                             /\ q.read = old.read /\ q.user = old.user /\ q.todo = old.todo
                             /\ req' = [req EXCEPT ![r] = q]
    <2> DEFINE p == [old EXCEPT !.at = "send_save", !.id = i]
    <2>1. /\ p \in Request /\ p.at = "send_save" /\ p.id = i /\ p.conv = c
          /\ p.read = old.read /\ p.user = old.user /\ p.todo = old.todo
      BY <1>2 DEF Request, Step
    <2>2. req' = [req EXCEPT ![r] = p]
      BY <1>1, <1>3 DEF Inv, TypeOK
    <2> QED
      BY <2>1, <2>2
  <1>5. /\ old.user \in Users /\ old.read.count \in Nat /\ old.read.count <= CountOf(c)
        /\ old.todo = {}
    BY <1>1, <1>2 DEF RequestOK, SendOK, DeleteOK, Request, Conv
  <1>6. /\ \A j \in Messages : j # i => message'[j] = message[j]
        /\ message'[i].status = "sent" /\ message'[i].conv = c
        /\ message'[i].sender = old.user /\ message'[i].readBy = {old.user}
        /\ message'[i].late = (~Open(c) \/ Deleting(c) # {})
        /\ message' \in [Messages -> Message]
    BY <1>3, <1>5 DEF Inv, TypeOK, Message
  <1>7. /\ Created(c)' = Created(c) \cup {i} /\ i \notin Created(c)
        /\ \A d \in Convs : d # c => Created(d)' = Created(d)
    BY <1>3, <1>6 DEF Created
  <1>8. /\ CountOf(c)' = CountOf(c) + 1
        /\ \A d \in Convs : d # c => CountOf(d)' = CountOf(d)
    BY <1>7, CreatedFinite, FS_AddElement DEF CountOf
  <1>9. /\ \A d \in Convs : CountOf(d) \in Nat
        /\ \A j \in Messages : message'[j].status # "none" => j <= i
    <2>1. \A d \in Convs : CountOf(d) \in Nat
      BY CreatedFinite DEF Assumptions
    <2> QED
      BY <1>3, <1>6, <2>1 DEF Inv, MessagesOK, Messages
  <1>10. TypeOK'
    <2>1. req' \in [Reqs -> Request]
      BY <1>4 DEF Inv, TypeOK
    <2>2. UNCHANGED <<conv, aborts, told, found, contended>>
      BY <1>3
    <2> QED
      BY <1>6, <2>1, <2>2 DEF Inv, TypeOK
  <1>11. OpenOnce'
    BY <1>3 DEF Inv, OpenOnce, Open
  <1>12. MessagesOK'
    BY <1>3, <1>6 DEF Inv, MessagesOK, Messages
  <1>13. ConvsOK'
    <2>1. conv[c].status # "none"
      BY <1>1, <1>2 DEF RequestOK, Known
    <2> QED
      BY <1>3, <1>7, <1>8, <1>9, <2>1 DEF Inv, ConvsOK, TypeOK, Conv
  <1>14. RequestsOK'
    <2>1. Grows /\ FoundGrows
      BY <1>3, <1>7 DEF Grows, FoundGrows
    <2>2. RequestOK(q)'
      <3>1. Known(q)'
        BY <1>1, <1>2, <1>3, <1>4 DEF RequestOK, Known
      <3>2. q.read.count < CountOf(c)'
        BY <1>4, <1>5, <1>8, <1>9
      <3> QED
        BY <1>4, <1>5, <3>1, <3>2 DEF RequestOK, SendOK, MarkOK, DeleteOK
    <2>3. ASSUME NEW s \in Reqs \ {r}, NEW d \in Convs,
                 req[s].at = "delete", req[s].conv = d, AllLate(d)
          PROVE  AllLate(d)'
      <3>1. d = c => Deleting(c) # {}
        BY <2>3 DEF Deleting
      <3> QED
        BY <1>6, <2>3, <3>1 DEF AllLate
    <2> QED
      BY <1>4, <2>1, <2>2, <2>3, OthersKept
  <1>15. FoundOK' /\ ReadWasFound'
    <2>1. FoundOK'
      BY <1>3, <1>6 DEF Inv, FoundOK, TypeOK
    <2>2. \A u \in Users : i \notin told[u]
      BY <1>3 DEF Inv, FoundOK
    <2> QED
      BY <1>3, <1>6, <2>1, <2>2 DEF Inv, ReadWasFound
  <1>16. SendsExact'
    <2>1. \A s \in Reqs : req'[s] = IF s = r THEN q ELSE req[s]
      BY <1>4 DEF Inv, TypeOK
    <2>2. \A d \in Convs : Sending(d)' = Sending(d)
      BY <1>1, <1>2, <1>4, <2>1 DEF Sending
    <2> SUFFICES ASSUME NEW d \in Convs, Open(d), d \notin contended
                 PROVE  /\ \A s, t \in Sending(d) : s = t
                        /\ Sending(d) = {} => Exact(d)'
                        /\ \A s \in Sending(d) : SendExact(d, req[s])'
      BY <1>3, <2>2, ZenonT(60) DEF SendsExact, Open
    <2>3. /\ \A s, t \in Sending(d) : s = t
          /\ Sending(d) = {} => Exact(d)
          /\ \A s \in Sending(d) : SendExact(d, req[s])
      BY DEF Inv, SendsExact
    <2>4. CASE d = c
      <3>1. r \in Sending(d)
        BY <1>1, <1>2, <2>4 DEF Sending
      <3>2. SendExact(d, old) /\ Exact(d)
        BY <1>1, <2>3, <3>1 DEF SendExact
      <3>3. SendExact(d, q)'
        BY <1>3, <1>4, <1>6, <1>8, <1>9, <2>4, <3>2 DEF SendExact, Exact, Created
      <3>4. \A s \in Sending(d) : SendExact(d, req[s])'
        BY <2>1, <2>3, <3>1, <3>3 DEF SendExact
      <3> QED
        BY <2>3, <3>1, <3>4
    <2>5. CASE d # c
      <3>1. r \notin Sending(d)
        BY <1>1, <1>2, <2>5 DEF Sending
      <3>2. Exact(d)' <=> Exact(d)
        BY <1>3, <1>7, <1>8, <2>5 DEF Exact
      <3>3. \A s \in Sending(d) : req'[s] = req[s]
        BY <2>1, <3>1 DEF Sending
      <3>4. \A s \in Sending(d) : SendExact(d, req[s])'
        BY <1>3, <1>7, <1>8, <2>3, <2>5, <3>2, <3>3 DEF SendExact
      <3> QED
        BY <2>3, <3>2, <3>4
    <2> QED
      BY <2>4, <2>5
  <1>17. NoOrphans'
    <2>1. \A d \in Convs : Deleting(d)' = Deleting(d)
      BY <1>1, <1>4 DEF Deleting, Inv, TypeOK
    <2> QED
      BY <1>3, <1>6, <2>1 DEF Inv, NoOrphans, Open, MessagesOK
  <1> QED
    BY <1>10, <1>11, <1>12, <1>13, <1>14, <1>15, <1>16, <1>17 DEF Inv

LEMMA SendSaveInv ==
    ASSUME Assumptions, Inv, NEW r \in Reqs, SendSave(r)
    PROVE  Inv'
  <1>1. PICK q \in Request : /\ q = req[r] /\ RequestOK(q) /\ q.at = "send_save"
    BY RequestIs DEF SendSave
  <1>2. PICK c \in Convs : c = q.conv
    BY <1>1 DEF RequestOK, SendOK
  <1>3. /\ Finish(r)
        /\ UNCHANGED <<message, aborts, told, found, contended>>
        /\ req' = [req EXCEPT ![r] = Idle]
    BY DEF SendSave, Finish
  <1>4. PICK now \in Conv :
           /\ conv' = [conv EXCEPT ![c] = now]
           /\ now.status = conv[c].status
           /\ Open(c) => now.count = q.read.count + 1
           /\ Open(c) => now.last = q.id \/ (q.id = q.read.last /\ now.last = conv[c].last)
           /\ ~Open(c) => now = conv[c]
    <2>1. /\ conv[c] \in Conv /\ q.read \in Conv /\ q.id \in Messages
          /\ q.read.count + 1 \in 0..MaxMessages
      <3>1. q.read.count < CountOf(c) /\ CountOf(c) \in 0..MaxMessages /\ q.read.count \in Nat
            /\ q.id \in Messages
        BY <1>1, <1>2, CreatedFinite DEF RequestOK, SendOK, Request, Conv
      <3> QED
        BY <3>1 DEF Inv, TypeOK, Request, Assumptions
    <2>2. CASE ~Open(c)
      BY <1>1, <1>2, <2>1, <2>2 DEF SendSave, Inv, TypeOK
    <2>3. CASE Open(c)
      <3> DEFINE mine == [q.read EXCEPT !.count = @ + 1, !.last = q.id]
                 new == Saved(conv[c], q.read, mine)
      <3>1. conv' = [conv EXCEPT ![c] = new]
        BY <1>1, <1>2, <2>3 DEF SendSave
      <3>2. mine \in Conv /\ mine.status = q.read.status /\ mine.count = q.read.count + 1
            /\ mine.last = q.id
        BY <2>1 DEF Conv
      <3>3. /\ DOMAIN conv[c] = {"status", "count", "last"}
            /\ q.read.count + 1 # q.read.count
        BY <2>1 DEF Conv
      <3> HIDE DEF mine
      <3>4. new = [status |-> conv[c].status, count |-> q.read.count + 1,
                   last |-> IF q.id = q.read.last THEN conv[c].last ELSE q.id]
        BY <3>2, <3>3 DEF Saved
      <3> HIDE DEF new
      <3>5. /\ new \in Conv /\ new.status = conv[c].status /\ new.count = q.read.count + 1
            /\ new.last = IF q.id = q.read.last THEN conv[c].last ELSE q.id
        BY <2>1, <3>4 DEF Conv
      <3>6. new.last = q.id \/ (q.id = q.read.last /\ new.last = conv[c].last)
        BY <3>5
      <3> QED
        BY <2>3, <3>1, <3>5, <3>6
    <2> QED
      BY <2>2, <2>3
  <1>5. /\ conv' \in [Convs -> Conv] /\ conv'[c] = now
        /\ \A d \in Convs : d # c => conv'[d] = conv[d]
        /\ \A d \in Convs : conv'[d].status = conv[d].status
    BY <1>4 DEF Inv, TypeOK
  <1>6. \A d \in Convs : Created(d)' = Created(d) /\ CountOf(d)' = CountOf(d)
    BY <1>3 DEF Created, CountOf
  <1>7. TypeOK'
    BY <1>3, <1>5, Finished DEF Inv, TypeOK
  <1>8. OpenOnce'
    BY <1>5 DEF Inv, OpenOnce, Open
  <1>9. MessagesOK' /\ FoundOK' /\ ReadWasFound'
    BY <1>3 DEF Inv, MessagesOK, FoundOK, ReadWasFound
  <1>10. ConvsOK'
    <2>1. conv[c].status # "none" /\ q.read.count + 1 <= CountOf(c)
      <3>1. CountOf(c) \in Int /\ q.read.count \in Int
        BY CreatedFinite DEF Request, Conv, Assumptions
      <3> QED
        BY <1>1, <1>2, <3>1 DEF RequestOK, Known, SendOK
    <2>2. now.count <= CountOf(c)
      BY <1>4, <2>1 DEF Inv, ConvsOK
    <2> QED
      BY <1>5, <1>6, <2>1, <2>2 DEF Inv, ConvsOK
  <1>11. RequestsOK'
    <2>1. Grows /\ FoundGrows
      BY <1>3, <1>5, <1>6 DEF Grows, FoundGrows
    <2>2. \A d \in Convs : AllLate(d) => AllLate(d)'
      BY <1>3 DEF AllLate
    <2> QED
      BY <1>3, <2>1, <2>2, IdleOK, OthersKept
  <1>12. SendsExact'
    <2> SUFFICES ASSUME NEW d \in Convs, Open(d), d \notin contended
                 PROVE  /\ \A s, t \in Sending(d)' : s = t
                        /\ Sending(d)' = {} => Exact(d)'
                        /\ \A s \in Sending(d)' : SendExact(d, req[s])'
      BY <1>3, <1>5 DEF SendsExact, Open
    <2>1. /\ \A s, t \in Sending(d) : s = t
          /\ Sending(d) = {} => Exact(d)
          /\ \A s \in Sending(d) : SendExact(d, req[s])
      BY DEF Inv, SendsExact
    <2>2. /\ Sending(d)' = Sending(d) \ {r}
          /\ \A s \in Sending(d)' : req'[s] = req[s]
      BY <1>3, Finished DEF Sending
    <2>3. CASE d = c
      <3>1. r \in Sending(d)
        BY <1>1, <1>2, <2>3 DEF Sending
      <3>2. Sending(d)' = {} /\ SendExact(d, q)
        BY <1>1, <2>1, <2>2, <3>1
      <3>3. Exact(d)'
        BY <1>1, <1>4, <1>5, <1>6, <2>3, <3>2 DEF SendExact, Exact
      <3> QED
        BY <3>2, <3>3
    <2>4. CASE d # c
      <3>1. r \notin Sending(d)
        BY <1>1, <1>2, <2>4 DEF Sending
      <3>2. (Exact(d)' <=> Exact(d)) /\ conv'[d] = conv[d]
        BY <1>5, <1>6, <2>4 DEF Exact
      <3>3. \A s \in Sending(d)' : SendExact(d, req[s])'
        BY <1>6, <2>1, <2>2, <3>2 DEF SendExact
      <3> QED
        BY <2>1, <2>2, <3>1, <3>2, <3>3
    <2> QED
      BY <2>3, <2>4
  <1>13. NoOrphans'
    <2>1. \A d \in Convs : Deleting(d)' = Deleting(d) /\ (Open(d)' <=> Open(d))
      BY <1>1, <1>3, <1>5, Finished DEF Deleting, Open
    <2> QED
      BY <1>3, <2>1 DEF Inv, NoOrphans, MessagesOK
  <1> QED
    BY <1>7, <1>8, <1>9, <1>10, <1>11, <1>12, <1>13 DEF Inv

LEMMA MarkUpdateInv ==
    ASSUME Assumptions, Inv, NEW r \in Reqs, MarkUpdate(r)
    PROVE  Inv'
  <1>1. PICK q \in Request : q = req[r] /\ RequestOK(q) /\ q.at = "mark_update"
    BY RequestIs DEF MarkUpdate
  <1>2. PICK u \in Users : u = q.user /\ q.ids \subseteq found[u]
    BY <1>1 DEF RequestOK, MarkOK
  <1>3. /\ told' = [told EXCEPT ![u] = @ \cup q.ids]
        /\ Finish(r) /\ req' = [req EXCEPT ![r] = Idle]
        /\ UNCHANGED <<conv, aborts, found, contended>>
    BY <1>1, <1>2 DEF MarkUpdate, Finish
  <1>4. /\ message' \in [Messages -> Message]
        /\ \A i \in Messages :
             /\ message'[i].status = message[i].status /\ message'[i].conv = message[i].conv
             /\ message'[i].late = message[i].late /\ message'[i].sender = message[i].sender
             /\ message'[i].readBy = IF i \in q.ids /\ message[i].status = "sent"
                                     THEN message[i].readBy \cup {u} ELSE message[i].readBy
             /\ message[i].status # "sent" => message'[i] = message[i]
    <2>1. message' = [i \in Messages |-> IF i \in q.ids /\ message[i].status = "sent"
                                         THEN [message[i] EXCEPT !.readBy = @ \cup {u}]
                                         ELSE message[i]]
      BY <1>1, <1>2 DEF MarkUpdate, Marked
    <2> QED
      BY <2>1 DEF Inv, TypeOK, Message
  <1>5. /\ told' \in [Users -> SUBSET Messages]
        /\ \A w \in Users : told'[w] = IF w = u THEN told[w] \cup q.ids ELSE told[w]
    BY <1>3 DEF Inv, TypeOK, Request
  <1>6. \A d \in Convs : Created(d)' = Created(d) /\ CountOf(d)' = CountOf(d)
    BY <1>4 DEF Created, CountOf
  <1>7. TypeOK' /\ OpenOnce'
    BY <1>3, <1>4, <1>5, Finished DEF Inv, TypeOK, OpenOnce, Open
  <1>8. MessagesOK' /\ ConvsOK'
    BY <1>3, <1>4, <1>6 DEF Inv, MessagesOK, ConvsOK
  <1>9. RequestsOK'
    <2>1. Grows /\ FoundGrows
      BY <1>3, <1>6 DEF Grows, FoundGrows
    <2>2. \A d \in Convs : AllLate(d) => AllLate(d)'
      BY <1>4 DEF AllLate
    <2> QED
      BY <1>3, <2>1, <2>2, IdleOK, OthersKept
  <1>10. FoundOK'
    BY <1>2, <1>3, <1>4, <1>5 DEF Inv, FoundOK, TypeOK
  <1>11. ReadWasFound'
    <2> SUFFICES ASSUME NEW i \in Messages, NEW w \in Users, message[i].status = "sent",
                        w # message[i].sender
                 PROVE  /\ w \in message'[i].readBy => i \in found[w]
                        /\ i \in told'[w] => w \in message'[i].readBy
      BY <1>3, <1>4 DEF ReadWasFound
    <2>1. /\ w \in message[i].readBy => i \in found[w]
          /\ i \in told[w] => w \in message[i].readBy
      BY DEF Inv, ReadWasFound
    <2>2. CASE w = u
      BY <1>2, <1>4, <1>5, <2>1, <2>2
    <2>3. CASE w # u
      <3>1. told'[w] = told[w]
        BY <1>5, <2>3
      <3>2. w \in message'[i].readBy <=> w \in message[i].readBy
        BY <1>4, <2>3
      <3> QED
        BY <2>1, <3>1, <3>2
    <2> QED
      BY <2>2, <2>3
  <1>12. \A d \in Convs : /\ Sending(d)' = Sending(d) /\ Deleting(d)' = Deleting(d)
                          /\ \A s \in Sending(d) : req'[s] = req[s]
    BY <1>1, <1>3, Finished DEF Sending, Deleting
  <1>13. SendsExact'
    <2>1. \A d \in Convs : Exact(d)' <=> Exact(d)
      BY <1>3, <1>6 DEF Exact
    <2>2. \A d \in Convs, s \in Reqs :
             s \in Sending(d) /\ SendExact(d, req[s]) => SendExact(d, req[s])'
      BY <1>3, <1>6, <1>12, <2>1 DEF SendExact
    <2> QED
      BY <1>3, <1>12, <2>1, <2>2 DEF Inv, SendsExact, Open, Sending
  <1>14. NoOrphans'
    <2>1. \A d \in Convs : (Open(d)' <=> Open(d)) /\ Deleting(d)' = Deleting(d)
      BY <1>3, <1>12 DEF Open
    <2>2. \A i \in Messages : message[i].status = "sent" => message[i].conv \in Convs
      BY DEF Inv, MessagesOK
    <2> QED
      BY <1>3, <1>4, <2>1, <2>2, ZenonT(60) DEF Inv, NoOrphans
  <1> QED
    BY <1>7, <1>8, <1>9, <1>10, <1>11, <1>13, <1>14 DEF Inv

LEMMA DeletePartInv ==
    ASSUME Assumptions, Inv, NEW r \in Reqs, NEW part \in {"messages", "conversation"},
           DeletePart(r, part)
    PROVE  Inv'
  <1>1. PICK old \in Request : /\ old = req[r] /\ RequestOK(old) /\ old.at = "delete"
                               /\ part \in old.todo
    BY RequestIs DEF DeletePart, RequestOK, DeleteOK
  <1>2. PICK c \in Convs : c = old.conv
    BY <1>1 DEF RequestOK, DeleteOK
  <1>3. /\ UNCHANGED <<aborts, told, found, contended>>
        /\ part # "messages" => /\ conv' = [conv EXCEPT ![c].status = "deleted"]
                                /\ UNCHANGED message
        /\ part = "messages" => /\ UNCHANGED conv
                                /\ message' = [i \in Messages |->
                                     IF message[i].conv = c THEN Erased(c) ELSE message[i]]
    BY <1>1, <1>2 DEF DeletePart
  <1>4. PICK q \in Request :
           /\ req' = [req EXCEPT ![r] = q]
           /\ \/ q = Idle /\ old.todo = {part}
              \/ /\ q.at = "delete" /\ q.conv = c /\ q.todo = old.todo \ {part}
                 /\ q.todo # {}
    <2>1. CASE old.todo = {part}
      BY <1>1, <2>1, IdleOK DEF DeletePart, Finish
    <2>2. CASE old.todo # {part}
      <3> DEFINE p == [old EXCEPT !.todo = @ \ {part}]
      <3>1. p \in Request /\ p.at = "delete" /\ p.conv = c /\ p.todo = old.todo \ {part}
        BY <1>1, <1>2 DEF Request
      <3>2. req' = [req EXCEPT ![r] = p]
        BY <1>1, <2>2 DEF DeletePart, Inv, TypeOK
      <3> HIDE DEF p
      <3>3. old.todo \ {part} # {}
        BY <1>1, <2>2
      <3> QED
        BY <3>1, <3>2, <3>3
    <2> QED
      BY <2>1, <2>2
  <1>5. /\ conv' \in [Convs -> Conv]
        /\ \A d \in Convs : /\ conv'[d].count = conv[d].count /\ conv'[d].last = conv[d].last
                            /\ conv'[d].status = IF d = c /\ part # "messages" THEN "deleted"
                                                 ELSE conv[d].status
                            /\ d # c => conv'[d] = conv[d]
    BY <1>3 DEF Inv, TypeOK, Conv
  <1>6. /\ message' \in [Messages -> Message]
        /\ \A i \in Messages :
             /\ message'[i].conv = message[i].conv
             /\ message'[i].status = IF part = "messages" /\ message[i].conv = c THEN "deleted"
                                     ELSE message[i].status
             /\ ~(part = "messages" /\ message[i].conv = c) => message'[i] = message[i]
    <2>1. Erased(c) \in Message /\ Erased(c).conv = c /\ Erased(c).status = "deleted"
      BY DEF Message, Erased, NoMessage
    <2> QED
      BY <1>3, <2>1 DEF Inv, TypeOK
  <1>7. \A i \in Messages : message'[i].status # "none" <=> message[i].status # "none"
    BY <1>6 DEF Inv, MessagesOK, NoMessage, Convs
  <1>8. \A d \in Convs : Created(d)' = Created(d) /\ CountOf(d)' = CountOf(d)
    BY <1>6, <1>7 DEF Created, CountOf
  <1>9. conv[c].status # "none"
    BY <1>1, <1>2 DEF RequestOK, Known
  <1>10. \A s \in Reqs : req'[s] = IF s = r THEN q ELSE req[s]
    BY <1>4 DEF Inv, TypeOK
  <1>11. TypeOK'
    <2>1. req' \in [Reqs -> Request]
      BY <1>4 DEF Inv, TypeOK
    <2> QED
      BY <1>3, <1>5, <1>6, <2>1 DEF Inv, TypeOK
  <1>12. OpenOnce'
    BY <1>5 DEF Inv, OpenOnce, Open
  <1>13. MessagesOK'
    BY <1>6, <1>7 DEF Inv, MessagesOK
  <1>14. ConvsOK'
    BY <1>5, <1>8, <1>9 DEF Inv, ConvsOK
  <1>15. AllLate(c) => AllLate(c)'
    BY <1>6 DEF AllLate
  <1>16. part = "messages" => AllLate(c)'
    BY <1>6 DEF AllLate
  <1>17. RequestsOK'
    <2>1. Grows /\ FoundGrows
      BY <1>3, <1>5, <1>8 DEF Grows, FoundGrows
    <2>2. RequestOK(q)'
      <3>1. CASE q = Idle
        BY <3>1, IdleOK DEF RequestOK, Known, SendOK, MarkOK, DeleteOK
      <3>2. CASE q.at = "delete" /\ q.conv = c /\ q.todo = old.todo \ {part}
        <4>1. "messages" \notin q.todo => AllLate(c)'
          BY <1>1, <1>2, <1>15, <1>16, <3>2 DEF RequestOK, DeleteOK
        <4> QED
          BY <1>5, <1>9, <3>2, <4>1 DEF RequestOK, Known, SendOK, MarkOK, DeleteOK
      <3> QED
        BY <1>4, <3>1, <3>2
    <2>3. \A d \in Convs : AllLate(d) => AllLate(d)'
      BY <1>6 DEF AllLate
    <2> QED
      BY <1>4, <2>1, <2>2, <2>3, OthersKept
  <1>18. FoundOK' /\ ReadWasFound'
    <2>1. FoundOK'
      BY <1>3, <1>7 DEF Inv, FoundOK, TypeOK
    <2>2. \A i \in Messages : message'[i].status = "sent" => message'[i] = message[i]
      BY <1>6
    <2> QED
      BY <1>3, <2>1, <2>2 DEF Inv, ReadWasFound
  <1>19. SendsExact'
    <2>1. \A d \in Convs : /\ Sending(d)' = Sending(d)
                           /\ \A s \in Sending(d) : req'[s] = req[s]
      BY <1>1, <1>4, <1>10 DEF Sending, Idle
    <2>2. \A d \in Convs : (Exact(d)' <=> Exact(d)) /\ (Open(d)' => Open(d))
      BY <1>5, <1>8 DEF Exact, Open
    <2>3. \A d \in Convs, s \in Reqs :
             s \in Sending(d) /\ SendExact(d, req[s]) => SendExact(d, req[s])'
      BY <1>5, <1>8, <2>1, <2>2 DEF SendExact
    <2> QED
      BY <1>3, <2>1, <2>2, <2>3 DEF Inv, SendsExact, Sending
  <1>20. NoOrphans'
    <2> SUFFICES ASSUME NEW i \in Messages, NEW d \in Convs, d = message[i].conv,
                        message'[i].status = "sent", ~Open(d)', Deleting(d)' = {},
                        d \notin contended
                 PROVE  message'[i].late
      BY <1>3, <1>6, <1>7 DEF NoOrphans, Inv, MessagesOK
    <2>1. message'[i] = message[i] /\ message[i].status = "sent"
      BY <1>6
    <2>2. CASE d # c
      <3>1. Deleting(d) = {} /\ ~Open(d)
        BY <1>1, <1>2, <1>4, <1>5, <1>10, <2>2 DEF Deleting, Open
      <3> QED
        BY <2>1, <3>1 DEF Inv, NoOrphans
    <2>3. CASE d = c
      <3>1. q = Idle /\ old.todo = {part}
        BY <1>4, <1>10, <2>3 DEF Deleting
      <3>2. AllLate(c)'
        BY <1>1, <1>2, <1>15, <1>16, <3>1 DEF RequestOK, DeleteOK
      <3> QED
        BY <1>6, <2>3, <3>2 DEF AllLate
    <2> QED
      BY <2>2, <2>3
  <1> QED
    BY <1>11, <1>12, <1>13, <1>14, <1>17, <1>18, <1>19, <1>20 DEF Inv

-----------------------------------------------------------------------------
(* The invariant *)

LEMMA InitInv ==
    ASSUME Assumptions, Init
    PROVE  Inv
  <1>1. \A c \in Convs : Created(c) = {} /\ CountOf(c) = 0 /\ Sending(c) = {}
    BY FS_EmptySet DEF Init, Created, CountOf, Sending, NoMessage, Idle
  <1>2. TypeOK
    BY IdleOK DEF Init, TypeOK, Conv, NoConv, Message, NoMessage, Assumptions
  <1>3. OpenOnce /\ MessagesOK /\ NoOrphans /\ ReadWasFound /\ FoundOK
    BY DEF Init, OpenOnce, Open, MessagesOK, NoOrphans, ReadWasFound, FoundOK, NoConv, NoMessage
  <1>4. ConvsOK
    BY <1>1 DEF Init, ConvsOK, NoConv
  <1>5. RequestsOK
    BY IdleOK DEF Init, RequestsOK
  <1>6. SendsExact
    BY <1>1 DEF Init, SendsExact, Exact, NoConv
  <1> QED
    BY <1>2, <1>3, <1>4, <1>5, <1>6 DEF Inv

LEMMA StepInv ==
    ASSUME Assumptions, Inv, [Next]_vars
    PROVE  Inv'
  <1>1. CASE UNCHANGED vars
    <2>1. UNCHANGED <<conv, message, req, aborts, told, found, contended>>
      BY <1>1 DEF vars
    <2>2. \A c : /\ Created(c)' = Created(c) /\ CountOf(c)' = CountOf(c)
                 /\ Sending(c)' = Sending(c) /\ Deleting(c)' = Deleting(c)
                 /\ Open(c)' <=> Open(c)
      BY <2>1 DEF Created, CountOf, Sending, Deleting, Open
    <2>3. TypeOK' /\ OpenOnce' /\ MessagesOK' /\ ConvsOK' /\ FoundOK' /\ ReadWasFound'
      BY <2>1, <2>2 DEF Inv, TypeOK, OpenOnce, MessagesOK, ConvsOK, FoundOK, ReadWasFound
    <2>4. RequestsOK'
      BY <2>1, <2>2 DEF Inv, RequestsOK, RequestOK, Known, SendOK, MarkOK, DeleteOK, AllLate
    <2>5. SendsExact'
      BY <2>1, <2>2 DEF Inv, SendsExact, Exact, SendExact
    <2>6. NoOrphans'
      BY <2>1, <2>2 DEF Inv, NoOrphans
    <2> QED
      BY <2>3, <2>4, <2>5, <2>6 DEF Inv
  <1>2. ASSUME NEW r \in Reqs, Asked(r)
        PROVE  Inv'
    BY <1>2, StartFindInv, DeleteFindInv, SendFindInv, MarkBeginInv
       DEF Asked, persistCallEventMessage
  <1>3. ASSUME NEW r \in Reqs, HandlerStep(r)
        PROVE  Inv'
    BY <1>3, StartCreateInv, SendInv, SendSaveInv, MarkFindInv, MarkUpdateInv, DeletePartInv
       DEF HandlerStep
  <1> QED
    BY <1>1, <1>2, <1>3, AbortInv DEF Next

\* What the invariant says of the properties.
LEMMA InvMeans ==
    ASSUME Assumptions, Inv
    PROVE  TypeOK /\ MessagesAccounted /\ ReadWasFound
  <1>1. OneConversation
    <2>1. CASE \A c \in Convs : ~Open(c)
      <3>1. {c \in Convs : Open(c)} = {}
        BY <2>1
      <3> QED
        BY <3>1, FS_EmptySet DEF OneConversation
    <2>2. CASE \E c \in Convs : Open(c)
      <3>1. PICK c \in Convs : Open(c)
        BY <2>2
      <3>2. {d \in Convs : Open(d)} = {c}
        BY <3>1 DEF Inv, OpenOnce
      <3>3. Cardinality({c}) = 1
        BY FS_Singleton
      <3> QED
        BY <3>2, <3>3 DEF OneConversation
    <2> QED
      BY <2>1, <2>2
  <1>2. CountFollows
    BY DEF Inv, CountFollows, ConvsOK, SendsExact, Exact, CountOf
  <1> QED
    BY <1>1, <1>2 DEF Inv, MessagesAccounted

\* Whatever handlers overlap or fail, two users have one conversation, its count is that
\* of the messages created in it, and none outlives it, but for the overlaps and failures
\* the property names (startConversation, sendMessage, deleteConversation).
THEOREM Accounted ==
    ASSUME Assumptions
    PROVE  Spec => []MessagesAccounted
  <1>1. Inv => MessagesAccounted
    BY InvMeans
  <1> QED
    BY InitInv, StepInv, <1>1, PTL DEF Spec

\* Nothing is marked read, or announced as read, that no mark_read found
\* (markConversationAsRead).
THEOREM OnlyFoundIsRead ==
    ASSUME Assumptions
    PROVE  Spec => []ReadWasFound
  <1>1. Inv => ReadWasFound
    BY InvMeans
  <1> QED
    BY InitInv, StepInv, <1>1, PTL DEF Spec

=============================================================================
