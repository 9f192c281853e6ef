-------------------------------- MODULE Chats --------------------------------
(* Conversations between a buyer and a seller (src/src/chats/): starting one,      *)
(* sending, reading and deleting, and the messages that calls leave behind.  A     *)
(* handler is a sequence of steps, one per database call.                          *)
EXTENDS Integers, FiniteSets

CONSTANTS
    Users,        \* the two participants
    Reqs,         \* slots for handlers under way at the same time
    MaxConvs,     \* bound: conversations ever created
    MaxMessages,  \* bound: messages ever created
    MaxAborts,    \* bound: handlers that fail halfway
    None

Assumptions ==
    /\ Cardinality(Users) = 2
    /\ {MaxConvs, MaxMessages, MaxAborts} \subseteq Nat
    /\ None \notin Users

VARIABLES
    conv,       \* the conversations collection
    message,    \* the messages collection, in the order of creation
    req,        \* the handlers in flight
    aborts,     \* handlers that failed halfway
    told,       \* messages announced as read, by reader
    found,      \* messages a mark_read has found, by reader, for the properties
    contended   \* conversations in which sends overlapped or one failed

vars == <<conv, message, req, aborts, told, found, contended>>

-----------------------------------------------------------------------------
Convs == 1..MaxConvs
Messages == 1..MaxMessages

\* count: messagesCount; last: the message that lastMessageText repeats.
Conv == [status: {"none", "open", "deleted"}, count: 0..MaxMessages, last: Messages \cup {0}]
NoConv == [status |-> "none", count |-> 0, last |-> 0]

\* late: created when its conversation was being deleted, or was gone.
Message == [status: {"none", "sent", "deleted"}, conv: Convs \cup {0},
            sender: Users \cup {None}, readBy: SUBSET Users, late: BOOLEAN]
NoMessage == [status |-> "none", conv |-> 0, sender |-> None, readBy |-> {}, late |-> FALSE]

\* Of a removed message the model keeps the conversation it was in.
Erased(c) == [NoMessage EXCEPT !.status = "deleted", !.conv = c]

Step == {"idle", "start_create", "create", "send_save", "mark_find",
         "mark_update", "delete"}

\* todo: what a deletion has still to remove.
Request == [at: Step, user: Users \cup {None}, conv: Convs \cup {0}, read: Conv,
            id: Messages \cup {0}, ids: SUBSET Messages,
            todo: SUBSET {"messages", "conversation"}]

Idle == [at |-> "idle", user |-> None, conv |-> 0, read |-> NoConv,
         id |-> 0, ids |-> {}, todo |-> {}]

Open(c) == conv[c].status = "open"
Free(r) == req[r].at = "idle"
Begin(r, q) == Free(r) /\ req' = [req EXCEPT ![r] = q]
Finish(r) == req' = [req EXCEPT ![r] = Idle]

Saved(now, read, mine) ==
    [f \in DOMAIN now |-> IF mine[f] = read[f] THEN now[f] ELSE mine[f]]

Init ==
    /\ conv = [c \in Convs |-> NoConv]
    /\ message = [i \in Messages |-> NoMessage]
    /\ req = [r \in Reqs |-> Idle]
    /\ aborts = 0
    /\ told = [u \in Users |-> {}]
    /\ found = [u \in Users |-> {}]
    /\ contended = {}

-----------------------------------------------------------------------------
(* startConversation: one conversation for each pair of users *)

\* One that is there is answered; its save() changes nothing the model holds.
StartFind(r) ==
    /\ \A c \in Convs : ~Open(c)
    /\ Begin(r, [Idle EXCEPT !.at = "start_create"])
    /\ UNCHANGED <<conv, message, aborts, told, found, contended>>

\* Regression: participantKey has no unique index.
StartCreateTwice(r) ==
    /\ req[r].at = "start_create"
    /\ \E c \in Convs :
        /\ conv[c].status = "none" /\ \A d \in Convs : d < c => conv[d].status # "none"
        /\ conv' = [conv EXCEPT ![c].status = "open"]
    /\ Finish(r)
    /\ UNCHANGED <<message, aborts, told, found, contended>>

\* The unique index on participantKey refuses a second one.
StartCreate(r) ==
    /\ req[r].at = "start_create"
    /\ IF \E c \in Convs : Open(c) THEN UNCHANGED conv
       ELSE \E c \in Convs :
             /\ conv[c].status = "none" /\ \A d \in Convs : d < c => conv[d].status # "none"
             /\ conv' = [conv EXCEPT ![c].status = "open"]
    /\ Finish(r)
    /\ UNCHANGED <<message, aborts, told, found, contended>>

-----------------------------------------------------------------------------
(* sendMessage *)

Sending(c) == {r \in Reqs : req[r].at \in {"create", "send_save"} /\ req[r].conv = c}
Deleting(c) == {r \in Reqs : req[r].at = "delete" /\ req[r].conv = c}

\* text is a required field and an empty text counts as missing: attachments alone are
\* refused before anything is written.
SendFind(r, u, c) ==
    /\ Open(c)
    /\ Begin(r, [Idle EXCEPT !.at = "create", !.user = u, !.conv = c, !.read = conv[c]])
    /\ contended' = IF Sending(c) = {} THEN contended ELSE contended \cup {c}
    /\ UNCHANGED <<conv, message, aborts, told, found>>

\* What a call leaves in the conversation is written the same way, for the caller.
persistCallEventMessage(r, caller, c) == SendFind(r, caller, c)

Send(r) ==
    /\ req[r].at = "create"
    /\ \E i \in Messages :
        /\ message[i].status = "none" /\ \A j \in Messages : j < i => message[j].status # "none"
        /\ LET c == req[r].conv
           IN  message' = [message EXCEPT ![i] =
                 [status |-> "sent", conv |-> c, sender |-> req[r].user,
                  readBy |-> {req[r].user}, late |-> ~Open(c) \/ Deleting(c) # {}]]
        /\ req' = [req EXCEPT ![r].at = "send_save", ![r].id = i]
    /\ UNCHANGED <<conv, aborts, told, found, contended>>

\* Regression: the message is counted twice.
SendSaveTwice(r) ==
    /\ req[r].at = "send_save"
    /\ LET c == req[r].conv
           mine == [req[r].read EXCEPT !.count = @ + 2, !.last = req[r].id]
       IN  IF Open(c) THEN conv' = [conv EXCEPT ![c] = Saved(@, req[r].read, mine)]
           ELSE UNCHANGED conv
    /\ Finish(r)
    /\ UNCHANGED <<message, aborts, told, found, contended>>

\* The count is one more than the count read before the message was created; save() of
\* a conversation that is gone throws.
SendSave(r) ==
    /\ req[r].at = "send_save"
    /\ LET c == req[r].conv
           mine == [req[r].read EXCEPT !.count = @ + 1, !.last = req[r].id]
       IN  IF Open(c) THEN conv' = [conv EXCEPT ![c] = Saved(@, req[r].read, mine)]
           ELSE UNCHANGED conv
    /\ Finish(r)
    /\ UNCHANGED <<message, aborts, told, found, contended>>

-----------------------------------------------------------------------------
(* markConversationAsRead *)

MarkBegin(r, u, c) ==
    /\ Open(c)
    /\ Begin(r, [Idle EXCEPT !.at = "mark_find", !.user = u, !.conv = c])
    /\ UNCHANGED <<conv, message, aborts, told, found, contended>>

Unread(u, c) == {i \in Messages : /\ message[i].status = "sent"
                                  /\ message[i].conv = c
                                  /\ u \notin message[i].readBy}

MarkFind(r) ==
    /\ req[r].at = "mark_find"
    /\ LET u == req[r].user
           ids == Unread(u, req[r].conv)
       IN  /\ IF ids = {} THEN Finish(r)
              ELSE req' = [req EXCEPT ![r].at = "mark_update", ![r].ids = ids]
           /\ found' = [found EXCEPT ![u] = @ \cup ids]
    /\ UNCHANGED <<conv, message, aborts, told, contended>>

Marked(u, ids) ==
    message' = [i \in Messages |-> IF i \in ids /\ message[i].status = "sent"
                                   THEN [message[i] EXCEPT !.readBy = @ \cup {u}]
                                   ELSE message[i]]

\* Regression: whatever is unread by now is marked.
MarkUpdateAll(r) ==
    /\ req[r].at = "mark_update"
    /\ LET u == req[r].user
       IN  /\ Marked(u, Unread(u, req[r].conv))
           /\ told' = [told EXCEPT ![u] = @ \cup req[r].ids]
    /\ Finish(r)
    /\ UNCHANGED <<conv, aborts, found, contended>>

\* The messages found are marked, and announced to the conversation.
MarkUpdate(r) ==
    /\ req[r].at = "mark_update"
    /\ LET u == req[r].user
       IN  /\ Marked(u, req[r].ids)
           /\ told' = [told EXCEPT ![u] = @ \cup req[r].ids]
    /\ Finish(r)
    /\ UNCHANGED <<conv, aborts, found, contended>>

-----------------------------------------------------------------------------
(* deleteConversation *)

DeleteFind(r, c) ==
    /\ Open(c)
    /\ Begin(r, [Idle EXCEPT !.at = "delete", !.conv = c,
                             !.todo = {"messages", "conversation"}])
    /\ UNCHANGED <<conv, message, aborts, told, found, contended>>

\* Regression: the messages stay.
DeletePartConversation(r, part) ==
    /\ part \in req[r].todo
    /\ conv' = [conv EXCEPT ![req[r].conv].status = "deleted"]
    /\ Finish(r)
    /\ UNCHANGED <<message, aborts, told, found, contended>>

\* The messages and the conversation are removed at the same time, in either order.
DeletePart(r, part) ==
    /\ part \in req[r].todo
    /\ IF part = "messages"
       THEN /\ message' = [i \in Messages |->
                 IF message[i].conv = req[r].conv THEN Erased(req[r].conv) ELSE message[i]]
            /\ UNCHANGED conv
       ELSE conv' = [conv EXCEPT ![req[r].conv].status = "deleted"] /\ UNCHANGED message
    /\ IF req[r].todo = {part} THEN Finish(r)
       ELSE req' = [req EXCEPT ![r].todo = @ \ {part}]
    /\ UNCHANGED <<aborts, told, found, contended>>

\* A database call fails, or the process dies: what was done stays.
Abort(r) ==
    /\ req[r].at # "idle"
    /\ aborts < MaxAborts
    /\ aborts' = aborts + 1
    /\ contended' = IF req[r].at \in {"send_save", "delete"} THEN contended \cup {req[r].conv}
                    ELSE contended
    /\ Finish(r)
    /\ UNCHANGED <<conv, message, told, found>>

-----------------------------------------------------------------------------
Asked(r) ==
    \/ StartFind(r)
    \/ \E c \in Convs :
        \/ DeleteFind(r, c)
        \/ \E u \in Users :
              \/ SendFind(r, u, c)
              \/ persistCallEventMessage(r, u, c)
              \/ MarkBegin(r, u, c)

HandlerStep(r) ==
    \/ StartCreate(r) \/ Send(r) \/ SendSave(r)
    \/ MarkFind(r) \/ MarkUpdate(r)
    \/ \E part \in {"messages", "conversation"} : DeletePart(r, part)

Next == \E r \in Reqs : (Free(r) /\ Asked(r)) \/ HandlerStep(r) \/ Abort(r)

Spec == Init /\ [][Next]_vars

-----------------------------------------------------------------------------
(* Properties *)

\* Every variable stays within its type.
TypeOK ==
    /\ conv \in [Convs -> Conv]
    /\ message \in [Messages -> Message]
    /\ req \in [Reqs -> Request]
    /\ aborts \in 0..MaxAborts
    /\ told \in [Users -> SUBSET Messages]
    /\ found \in [Users -> SUBSET Messages]
    /\ contended \subseteq Convs

\* Two users have one conversation at a time, also when both start it at once
\* (startConversation and the unique index on participantKey).
OneConversation == Cardinality({c \in Convs : Open(c)}) <= 1

Created(c) == {i \in Messages : message[i].status # "none" /\ message[i].conv = c}

\* The count of a conversation never runs ahead of the messages created in it; and when
\* no send is under way, and none overlapped or failed, it is exact and the message
\* shown as the last one is the newest (sendMessage).
CountFollows ==
    \A c \in Convs :
        /\ conv[c].count <= Cardinality(Created(c))
        /\ Open(c) /\ Sending(c) = {} /\ c \notin contended =>
             /\ conv[c].count = Cardinality(Created(c))
             /\ \A i \in Created(c) : i <= conv[c].last

\* A message is marked read by the other participant only if a mark_read of theirs found
\* it: one that arrives between the find and the update stays unread, and what is
\* announced as read is (markConversationAsRead).
ReadWasFound ==
    \A i \in Messages, u \in Users :
        message[i].status = "sent" /\ u # message[i].sender =>
            /\ u \in message[i].readBy => i \in found[u]
            /\ i \in told[u] => u \in message[i].readBy

\* No message outlives its conversation, unless a send overlapped with the deletion or
\* the deletion failed halfway (deleteConversation).
NoOrphans ==
    \A i \in Messages : LET c == message[i].conv IN
        message[i].status = "sent" /\ ~Open(c) /\ Deleting(c) = {} /\ c \notin contended
            => message[i].late

\* The messages of two users are accounted for: in the one conversation they have, by
\* its count, and not beyond its end.
MessagesAccounted == OneConversation /\ CountFollows /\ NoOrphans
=============================================================================
