------------------------------- MODULE Presence -------------------------------
(* Who is online, as the chat gateway keeps it and tells it                       *)
(* (src/src/chats/chats.gateway.ts): a user is online while one of their sockets  *)
(* is connected.  Connecting and disconnecting are synchronous; joining a         *)
(* conversation and sending a message wait for the database first.                *)
EXTENDS Integers, FiniteSets

CONSTANTS
    Users,
    Sockets,      \* sockets that come and go
    MaxAsked,     \* bound: joins and sends waiting at the same time
    MaxRestarts,  \* bound: restarts of the process
    None

ASSUME BoundsAssumption == {MaxAsked, MaxRestarts} \subseteq Nat
ASSUME NoneAssumption == None \notin Users

VARIABLES
    userOf,       \* client.data.userId of the sockets connected
    onlineUsers,  \* the sockets of each user
    lastSeenMap,  \* users with a time they were last seen
    asked,        \* joins and sends waiting for the database, as <<socket, purpose>>
    view,         \* what each socket was last told of each user
    restarts

vars == <<userOf, onlineUsers, lastSeenMap, asked, view, restarts>>

-----------------------------------------------------------------------------
Told == {"nothing", "online", "offline"}
Purposes == {"join", "send"}

Connected == {s \in Sockets : userOf[s] # None}
isUserOnline(u) == onlineUsers[u] # {}

\* A broadcast reaches the sockets connected.
Broadcast(to, u, presence) ==
    view' = [s \in Sockets |-> IF s \in to THEN [view[s] EXCEPT ![u] = presence] ELSE view[s]]

Init ==
    /\ userOf = [s \in Sockets |-> None]
    /\ onlineUsers = [u \in Users |-> {}]
    /\ lastSeenMap = {}
    /\ asked = {}
    /\ view = [s \in Sockets |-> [u \in Users |-> "nothing"]]
    /\ restarts = 0

-----------------------------------------------------------------------------
trackOnline(u, s) == onlineUsers' = [onlineUsers EXCEPT ![u] = @ \cup {s}]

\* Regression: a user is offline when any socket of theirs closes.
trackOfflineAll(u, s) == onlineUsers' = [onlineUsers EXCEPT ![u] = {}]

trackOffline(u, s) == onlineUsers' = [onlineUsers EXCEPT ![u] = @ \ {s}]

\* A socket without a valid token is closed without ever being tracked.
handleConnection(s, u) ==
    /\ userOf[s] = None
    /\ userOf' = [userOf EXCEPT ![s] = u]
    /\ trackOnline(u, s)
    /\ Broadcast(Connected \cup {s}, u, "online")
    /\ UNCHANGED <<lastSeenMap, asked, restarts>>

\* Only the last socket of a user takes them offline.
handleDisconnect(s) ==
    /\ userOf[s] # None
    /\ LET u == userOf[s]
       IN  /\ trackOffline(u, s)
           /\ userOf' = [userOf EXCEPT ![s] = None]
           /\ lastSeenMap' = IF onlineUsers'[u] = {} THEN lastSeenMap \cup {u} ELSE lastSeenMap
           /\ view' = [t \in Sockets |->
                 IF t = s THEN [v \in Users |-> "nothing"]
                 ELSE IF t \in Connected /\ onlineUsers'[u] = {} THEN [view[t] EXCEPT ![u] = "offline"]
                 ELSE view[t]]
    /\ UNCHANGED <<asked, restarts>>

\* join_conversation and send_message wait for the service; the socket may be gone
\* when it answers.
Ask(s, purpose) ==
    /\ userOf[s] # None
    /\ Cardinality(asked) < MaxAsked
    /\ asked' = asked \cup {<<s, userOf[s], purpose>>}
    /\ UNCHANGED <<userOf, onlineUsers, lastSeenMap, view, restarts>>

Presence(u) == IF isUserOnline(u) THEN "online" ELSE "offline"

\* The client that joins is told of the other participant.
joinConversation(s, u, other) ==
    /\ <<s, u, "join">> \in asked
    /\ other # u
    /\ asked' = asked \ {<<s, u, "join">>}
    /\ Broadcast({s} \cap {t \in Connected : userOf[t] = u}, other, Presence(other))
    /\ UNCHANGED <<userOf, onlineUsers, lastSeenMap, restarts>>

\* The sockets of the other participant are told of the sender.
sendMessage(s, u, other) ==
    /\ <<s, u, "send">> \in asked
    /\ other # u
    /\ asked' = asked \ {<<s, u, "send">>}
    /\ Broadcast(onlineUsers[other], u, Presence(u))
    /\ UNCHANGED <<userOf, onlineUsers, lastSeenMap, restarts>>

\* The maps live in memory, and every socket is closed with the process.
Restart ==
    /\ restarts < MaxRestarts
    /\ restarts' = restarts + 1
    /\ userOf' = [s \in Sockets |-> None]
    /\ onlineUsers' = [u \in Users |-> {}]
    /\ lastSeenMap' = {}
    /\ asked' = {}
    /\ view' = [s \in Sockets |-> [u \in Users |-> "nothing"]]

Next ==
    \/ \E s \in Sockets, u \in Users :
        \/ handleConnection(s, u)
        \/ \E other \in Users : joinConversation(s, u, other) \/ sendMessage(s, u, other)
    \/ \E s \in Sockets : handleDisconnect(s) \/ \E p \in Purposes : Ask(s, p)
    \/ Restart

Spec == Init /\ [][Next]_vars

-----------------------------------------------------------------------------
(* Properties *)

\* Every variable stays within its type.
TypeOK ==
    /\ userOf \in [Sockets -> Users \cup {None}]
    /\ onlineUsers \in [Users -> SUBSET Sockets]
    /\ lastSeenMap \subseteq Users
    /\ asked \subseteq Sockets \X Users \X Purposes
    /\ view \in [Sockets -> [Users -> Told]]
    /\ restarts \in 0..MaxRestarts

\* What a connected socket was last told of a user is the truth, whatever came and went
\* while a join or a send waited: a user is online exactly while a socket of theirs is
\* connected (trackOnline, trackOffline, presence_state).
ViewIsTrue ==
    \A s \in Connected, u \in Users :
        view[s][u] # "nothing" => (view[s][u] = "online" <=> \E t \in Connected : userOf[t] = u)
=============================================================================
