----------------------------- MODULE PeopleProofs -----------------------------
(* Proofs about what users are to the system and to each other (MCPeople), for any  *)
(* number of users, sockets, handlers, passwords and advertisements.  Presence is   *)
(* proved here in its own names, passwords, engagement and reports as the instances *)
(* P, E and R; accounts and chats are proved in AccountsProofs and ChatsProofs and  *)
(* only put together here.                                                          *)
EXTENDS MCPeople, FiniteSetTheorems, SequenceTheorems, TLAPS

(* Presence *)

\* The sockets tracked for a user are the sockets that carry the user.
Tracked == \A u \in Users : onlineUsers[u] = {s \in Sockets : userOf[s] = u}

\* A socket that is gone was told of nobody: the view of the next client starts empty.
GoneKnowNothing == \A s \in Sockets \ Connected, u \in Users : view[s][u] = "nothing"

PresenceInv == TypeOK /\ Tracked /\ GoneKnowNothing /\ ViewIsTrue

-----------------------------------------------------------------------------
\* A user is online exactly while a socket carries them.
LEMMA OnlineIsCarried ==
    ASSUME Tracked, NEW u \in Users
    PROVE  isUserOnline(u) <=> \E t \in Connected : userOf[t] = u
  BY NoneAssumption DEF Tracked, isUserOnline, Connected

\* A broadcast changes what its receivers were told of one user, and nothing else.
LEMMA BroadcastView ==
    ASSUME TypeOK, NEW to, NEW u \in Users, NEW presence \in Told, Broadcast(to, u, presence)
    PROVE  /\ view' \in [Sockets -> [Users -> Told]]
           /\ \A s \in Sockets, v \in Users :
                view'[s][v] = IF s \in to /\ v = u THEN presence ELSE view[s][v]
  BY DEF TypeOK, Broadcast

\* Telling sockets that are connected what is true leaves the invariant as it is.
LEMMA TruthSpreads ==
    ASSUME PresenceInv, NEW to, to \subseteq Connected, NEW u \in Users,
           Broadcast(to, u, Presence(u)), UNCHANGED <<userOf, onlineUsers>>
    PROVE  /\ view' \in [Sockets -> [Users -> Told]]
           /\ Tracked' /\ GoneKnowNothing' /\ ViewIsTrue'
  <1>1. /\ Presence(u) \in Told
        /\ Presence(u) # "nothing"
        /\ Presence(u) = "online" <=> \E t \in Connected : userOf[t] = u
    BY OnlineIsCarried DEF PresenceInv, Presence, Told
  <1>2. /\ view' \in [Sockets -> [Users -> Told]]
        /\ \A s \in Sockets, v \in Users :
             view'[s][v] = IF s \in to /\ v = u THEN Presence(u) ELSE view[s][v]
    BY <1>1 DEF PresenceInv, TypeOK, Broadcast
  <1>3. Connected' = Connected
    BY DEF Connected
  <1>4. Tracked'
    BY DEF PresenceInv, Tracked
  <1>5. GoneKnowNothing'
    BY <1>2, <1>3 DEF PresenceInv, GoneKnowNothing
  <1>6. ViewIsTrue'
    BY <1>1, <1>2, <1>3 DEF PresenceInv, ViewIsTrue, Connected
  <1> QED BY <1>2, <1>4, <1>5, <1>6

-----------------------------------------------------------------------------
LEMMA ConnectInv ==
    ASSUME PresenceInv, NEW s \in Sockets, NEW u \in Users, handleConnection(s, u)
    PROVE  PresenceInv'
  <1> USE DEF handleConnection
  <1>1. /\ view' \in [Sockets -> [Users -> Told]]
        /\ \A t \in Sockets, v \in Users :
             view'[t][v] = IF t \in Connected \cup {s} /\ v = u THEN "online" ELSE view[t][v]
    BY BroadcastView DEF PresenceInv, Told
  <1>2. /\ Connected' = Connected \cup {s}
        /\ \A t \in Sockets : userOf'[t] = IF t = s THEN u ELSE userOf[t]
    BY NoneAssumption DEF PresenceInv, TypeOK, Connected
  <1>3. TypeOK'
    BY <1>1 DEF PresenceInv, TypeOK, trackOnline
  <1>4. Tracked'
    <2> SUFFICES ASSUME NEW v \in Users
                 PROVE  onlineUsers'[v] = {t \in Sockets : userOf'[t] = v}
      BY DEF Tracked
    <2>1. onlineUsers'[v] = IF v = u THEN onlineUsers[v] \cup {s} ELSE onlineUsers[v]
      BY DEF PresenceInv, TypeOK, trackOnline
    <2> QED BY <1>2, <2>1, NoneAssumption DEF PresenceInv, Tracked
  <1>5. GoneKnowNothing'
    BY <1>1, <1>2 DEF PresenceInv, GoneKnowNothing
  <1>6. ViewIsTrue'
    <2> SUFFICES ASSUME NEW t \in Connected', NEW v \in Users, view'[t][v] # "nothing"
                 PROVE  view'[t][v] = "online" <=> \E w \in Connected' : userOf'[w] = v
      BY DEF ViewIsTrue
    <2>1. t \in Sockets /\ s \notin Connected
      BY DEF Connected
    <2>2. CASE v = u
      BY <1>1, <1>2, <2>1, <2>2
    <2>3. CASE v # u
      <3>1. view'[t][v] = view[t][v]
        BY <1>1, <2>1, <2>3
      <3>2. t \in Connected
        BY <1>2, <2>1, <3>1 DEF PresenceInv, GoneKnowNothing
      <3>3. (\E w \in Connected' : userOf'[w] = v) <=> \E w \in Connected : userOf[w] = v
        BY <1>2, <2>1, <2>3 DEF Connected
      <3> QED BY <3>1, <3>2, <3>3 DEF PresenceInv, ViewIsTrue
    <2> QED BY <2>2, <2>3
  <1> QED BY <1>3, <1>4, <1>5, <1>6 DEF PresenceInv

\* Only the last socket of a user takes them offline for the sockets that stay.
LEMMA DisconnectInv ==
    ASSUME PresenceInv, NEW s \in Sockets, handleDisconnect(s)
    PROVE  PresenceInv'
  <1> DEFINE u == userOf[s]
  <1> USE DEF handleDisconnect
  <1>1. u \in Users /\ s \in Connected
    BY DEF PresenceInv, TypeOK, Connected
  <1>2. /\ Connected' = Connected \ {s}
        /\ \A t \in Sockets : userOf'[t] = IF t = s THEN None ELSE userOf[t]
    BY DEF PresenceInv, TypeOK, Connected
  <1>3. \A v \in Users : onlineUsers'[v] = IF v = u THEN onlineUsers[v] \ {s}
                                           ELSE onlineUsers[v]
    BY <1>1 DEF PresenceInv, TypeOK, trackOffline
  <1>4. Tracked'
    <2> SUFFICES ASSUME NEW v \in Users
                 PROVE  onlineUsers'[v] = {t \in Sockets : userOf'[t] = v}
      BY DEF Tracked
    <2>1. onlineUsers[v] = {t \in Sockets : userOf[t] = v}
      BY DEF PresenceInv, Tracked
    <2>2. v # None
      BY NoneAssumption
    <2>3. CASE v = u
      <3>1. onlineUsers'[v] = {t \in Sockets : userOf[t] = v} \ {s}
        BY <1>3, <2>1, <2>3
      <3>2. \A t \in Sockets : userOf'[t] = v <=> userOf[t] = v /\ t # s
        BY <1>2, <2>2
      <3> HIDE DEF u, handleDisconnect
      <3> QED BY <3>1, <3>2
    <2>4. CASE v # u
      <3>1. userOf'[s] # v /\ userOf[s] # v
        BY <1>2, <2>2, <2>4
      <3> QED BY <1>2, <1>3, <2>1, <2>4, <3>1, SMTT(60)
    <2> QED BY <2>3, <2>4
  <1>5. /\ view' \in [Sockets -> [Users -> Told]]
        /\ \A v \in Users : view'[s][v] = "nothing"
        /\ \A t \in Sockets \ {s}, v \in Users :
             view'[t][v] = IF t \in Connected /\ v = u /\ onlineUsers'[u] = {}
                           THEN "offline" ELSE view[t][v]
    BY <1>1 DEF PresenceInv, TypeOK, Told
  <1>6. TypeOK'
    <2>1. userOf' \in [Sockets -> Users \cup {None}] /\ onlineUsers' \in [Users -> SUBSET Sockets]
      BY DEF PresenceInv, TypeOK, trackOffline
    <2>2. lastSeenMap' \subseteq Users
      BY <1>1 DEF PresenceInv, TypeOK
    <2> QED BY <1>5, <2>1, <2>2 DEF PresenceInv, TypeOK
  <1>7. GoneKnowNothing'
    BY <1>2, <1>5 DEF PresenceInv, GoneKnowNothing
  <1>8. ViewIsTrue'
    <2> SUFFICES ASSUME NEW t \in Connected', NEW v \in Users, view'[t][v] # "nothing"
                 PROVE  view'[t][v] = "online" <=> \E w \in Connected' : userOf'[w] = v
      BY DEF ViewIsTrue
    <2>1. t \in Sockets /\ t \in Connected /\ t # s
      BY <1>2 DEF Connected
    <2>2. CASE v = u /\ onlineUsers'[u] = {}
      <3>1. view'[t][v] = "offline"
        BY <1>5, <2>1, <2>2
      <3>2. \A w \in Connected' : w \in Sockets /\ userOf'[w] # v
        BY <1>1, <1>4, <2>2 DEF Tracked, Connected
      <3> QED BY <3>1, <3>2
    <2>3. CASE v = u /\ onlineUsers'[u] # {}
      <3>1. PICK w \in Sockets : w \in onlineUsers'[u]
        BY <1>1, <1>6, <2>3 DEF TypeOK
      <3>2. userOf'[w] = v /\ w \in Connected'
        BY <1>1, <1>4, <2>3, <3>1, NoneAssumption DEF Tracked, Connected
      <3>3. w \in Connected /\ userOf[w] = v
        BY <1>2, <3>1, <3>2
      <3>4. view'[t][v] = view[t][v]
        BY <1>5, <2>1, <2>3
      <3> QED BY <2>1, <3>2, <3>3, <3>4 DEF PresenceInv, ViewIsTrue
    <2>4. CASE v # u
      <3>1. view'[t][v] = view[t][v]
        BY <1>5, <2>1, <2>4
      <3>2. (\E w \in Connected' : userOf'[w] = v) <=> \E w \in Connected : userOf[w] = v
        BY <1>2, <2>4 DEF Connected
      <3> QED BY <2>1, <3>1, <3>2 DEF PresenceInv, ViewIsTrue
    <2> QED BY <2>2, <2>3, <2>4
  <1> QED BY <1>4, <1>6, <1>7, <1>8 DEF PresenceInv

LEMMA AskInv ==
    ASSUME PresenceInv, NEW s \in Sockets, NEW p \in Purposes, Ask(s, p)
    PROVE  PresenceInv'
  <1>1. TypeOK'
    BY DEF PresenceInv, TypeOK, Ask
  <1>2. Tracked' /\ GoneKnowNothing' /\ ViewIsTrue'
    BY DEF PresenceInv, Ask, Tracked, GoneKnowNothing, ViewIsTrue, Connected
  <1> QED BY <1>1, <1>2 DEF PresenceInv

LEMMA JoinInv ==
    ASSUME PresenceInv, NEW s \in Sockets, NEW u \in Users, NEW other \in Users,
           joinConversation(s, u, other)
    PROVE  PresenceInv'
  <1>1. /\ view' \in [Sockets -> [Users -> Told]]
        /\ Tracked' /\ GoneKnowNothing' /\ ViewIsTrue'
    BY TruthSpreads DEF joinConversation
  <1>2. TypeOK'
    BY <1>1 DEF PresenceInv, TypeOK, joinConversation
  <1> QED BY <1>1, <1>2 DEF PresenceInv

\* The sockets of the other participant are connected, whoever left meanwhile.
LEMMA SendInv ==
    ASSUME PresenceInv, NEW s \in Sockets, NEW u \in Users, NEW other \in Users,
           sendMessage(s, u, other)
    PROVE  PresenceInv'
  <1>1. onlineUsers[other] \subseteq Connected
    BY NoneAssumption DEF PresenceInv, Tracked, Connected
  <1>2. /\ view' \in [Sockets -> [Users -> Told]]
        /\ Tracked' /\ GoneKnowNothing' /\ ViewIsTrue'
    BY <1>1, TruthSpreads DEF sendMessage
  <1>3. TypeOK'
    BY <1>2 DEF PresenceInv, TypeOK, sendMessage
  <1> QED BY <1>2, <1>3 DEF PresenceInv

LEMMA RestartInv ==
    ASSUME PresenceInv, Restart
    PROVE  PresenceInv'
  <1>1. TypeOK'
    BY BoundsAssumption DEF PresenceInv, TypeOK, Restart, Told
  <1>2. Tracked' /\ GoneKnowNothing' /\ ViewIsTrue'
    BY NoneAssumption DEF Restart, Tracked, GoneKnowNothing, ViewIsTrue, Connected
  <1> QED BY <1>1, <1>2 DEF PresenceInv

LEMMA PresenceInit ==
    ASSUME Init
    PROVE  PresenceInv
  <1>1. TypeOK
    BY BoundsAssumption DEF Init, TypeOK, Told
  <1>2. Tracked /\ GoneKnowNothing /\ ViewIsTrue
    BY NoneAssumption DEF Init, Tracked, GoneKnowNothing, ViewIsTrue, Connected
  <1> QED BY <1>1, <1>2 DEF PresenceInv

LEMMA PresenceStays ==
    ASSUME PresenceInv, [Next]_vars
    PROVE  PresenceInv'
  <1>1. CASE UNCHANGED vars
    BY <1>1 DEF PresenceInv, TypeOK, Tracked, GoneKnowNothing, ViewIsTrue, Connected, vars
  <1>2. ASSUME NEW s \in Sockets, NEW u \in Users, handleConnection(s, u) PROVE PresenceInv'
    BY <1>2, ConnectInv
  <1>3. ASSUME NEW s \in Sockets, NEW u \in Users, NEW other \in Users,
               joinConversation(s, u, other) \/ sendMessage(s, u, other)
        PROVE  PresenceInv'
    BY <1>3, JoinInv, SendInv
  <1>4. ASSUME NEW s \in Sockets, handleDisconnect(s) PROVE PresenceInv'
    BY <1>4, DisconnectInv
  <1>5. ASSUME NEW s \in Sockets, NEW p \in Purposes, Ask(s, p) PROVE PresenceInv'
    BY <1>5, AskInv
  <1>6. CASE Restart
    BY <1>6, RestartInv
  <1> QED BY <1>1, <1>2, <1>3, <1>4, <1>5, <1>6 DEF Next

-----------------------------------------------------------------------------
(* Accounts and chats: theirs are the invariants of the instances *)

ChatsInv == part = "chats" => H!Inv
AccountsInv == (part = "accounts" => A!Inv) /\ (part = "sessions" => S!Inv)

LEMMA ChatsInit ==
    ASSUME PeopleInit
    PROVE  ChatsInv
  BY H!InitInv, ChatsAssumptions DEF PeopleInit, ChatsInv

LEMMA ChatsStays ==
    ASSUME ChatsInv, [PeopleNext]_peopleVars
    PROVE  ChatsInv'
  <1> SUFFICES ASSUME part' = "chats" PROVE H!Inv'
    BY DEF ChatsInv
  <1>1. part = "chats" /\ [H!Next]_H!vars
    BY DEF PeopleNext, PresenceStep, AccountsStep, PasswordsStep, ChatsStep, EngagementStep,
           ReportsStep, peopleVars, chatVars, H!vars
  <1> QED BY <1>1, H!StepInv, ChatsAssumptions DEF ChatsInv

LEMMA AccountsInit ==
    ASSUME PeopleInit
    PROVE  AccountsInv
  BY A!InitInv, S!InitInv, AccountsAssumptions DEF PeopleInit, AccountsInv

LEMMA AccountsStay ==
    ASSUME AccountsInv, [PeopleNext]_peopleVars
    PROVE  AccountsInv'
  <1>1. ASSUME part' = "accounts" PROVE A!Inv'
    <2>1. part = "accounts" /\ [A!Next]_A!vars
      BY <1>1 DEF PeopleNext, PresenceStep, AccountsStep, PasswordsStep, ChatsStep,
           EngagementStep, ReportsStep, peopleVars, accountVars, A!vars
    <2> QED BY <2>1, A!StepInv, AccountsAssumptions DEF AccountsInv
  <1>2. ASSUME part' = "sessions" PROVE S!Inv'
    <2>1. part = "sessions" /\ [S!Next]_S!vars
      BY <1>2 DEF PeopleNext, PresenceStep, AccountsStep, PasswordsStep, ChatsStep,
           EngagementStep, ReportsStep, peopleVars, accountVars, S!vars
    <2> QED BY <2>1, S!StepInv, AccountsAssumptions DEF AccountsInv
  <1> QED BY <1>1, <1>2 DEF AccountsInv

-----------------------------------------------------------------------------
(* Passwords *)

PasswordsTyped ==
    /\ P!TypeOK
    /\ secret.passwordHistory \in Seq(Words) /\ past \in Seq(Words)
    /\ Len(secret.passwordHistory) <= Kept

\* An OTP not issued yet was entered by nobody and changed nothing.
IssuedFirst ==
    /\ secret.otp <= issued
    /\ \A o \in P!Otps : o > issued => spent[o] = 0
    /\ \A r \in Reqs : preq[r].otp <= issued

\* What a handler on its way holds was entered by the user, or crossed with what was.
EnteredFirst ==
    /\ \A r \in P!At("send_mail") : preq[r].otp # 0
    /\ \A r \in P!At("verify_save") :
         preq[r].otp \in proved /\ secret.otp \in {0, preq[r].otp} \cup crossed
    /\ \A r \in P!At("change_save") : preq[r].otp \in proved \cup crossed

\* The change under way is the only one, and the OTP it goes by made none so far.
OneChange ==
    praced \/ /\ \A r, s \in P!At("change_save") : r = s
              /\ \A r \in P!At("change_save") : spent[preq[r].otp] = 0
              /\ secret.otp # 0 => spent[secret.otp] = 0

\* What the change read is still so.
ReadHolds ==
    praced \/ \A r \in P!At("change_save") :
                 /\ preq[r].read = secret.password
                 /\ preq[r].word # secret.password /\ ~P!InHistory(preq[r].word)

\* The history is the end of what was in force.
HistoryIsEnd ==
    praced \/ LET words == secret.passwordHistory
              IN  /\ Len(words) = IF Len(past) <= Kept THEN Len(past) ELSE Kept
                  /\ \A i \in 1..Len(words) : words[i] = past[Len(past) - Len(words) + i]
                  /\ ~P!InHistory(secret.password)

PInv ==
    /\ PasswordsTyped /\ IssuedFirst /\ EnteredFirst /\ OneChange /\ ReadHolds /\ HistoryIsEnd
    /\ P!OtpGuardsChange

\* One word longer, and no longer than Kept: the first word gives way.
LEMMA Remembered ==
    ASSUME PasswordsTyped, NEW w \in Words
    PROVE  LET words == secret.passwordHistory
               longer == P!Remember(words, w)
           IN  /\ longer \in Seq(Words)
               /\ Len(longer) = IF Len(words) < Kept THEN Len(words) + 1 ELSE Kept
               /\ longer[Len(longer)] = w
               /\ \A i \in 1..Len(longer) - 1 :
                    longer[i] = words[i + Len(words) + 1 - Len(longer)]
  <1> DEFINE words == secret.passwordHistory
             more == Append(words, w)
  <1>1. words \in Seq(Words) /\ Len(words) \in Nat /\ Len(words) <= Kept /\ Kept \in Nat \ {0}
    BY PasswordsAssumptions, LenProperties DEF PasswordsTyped, P!Assumptions
  <1>2. /\ more \in Seq(Words) /\ Len(more) = Len(words) + 1
        /\ \A i \in 1..Len(words) : more[i] = words[i]
        /\ more[Len(words) + 1] = w
    BY <1>1, AppendProperties
  <1> HIDE DEF words, more
  <1>3. P!Remember(words, w) = IF Len(more) <= Kept THEN more
                               ELSE SubSeq(more, Len(more) - Kept + 1, Len(more))
    BY DEF P!Remember, more
  <1>4. CASE Len(words) < Kept
    <2>1. P!Remember(words, w) = more
      BY <1>1, <1>2, <1>3, <1>4
    <2>2. \A i \in 1..Len(more) - 1 : more[i] = words[i + Len(words) + 1 - Len(more)]
      BY <1>1, <1>2
    <2> QED BY <1>1, <1>2, <1>4, <2>1, <2>2 DEF words
  <1>5. CASE Len(words) = Kept
    <2> DEFINE longer == SubSeq(more, 2, Kept + 1)
    <2>1. P!Remember(words, w) = longer
      BY <1>1, <1>2, <1>3, <1>5
    <2>2. /\ longer \in Seq(Words) /\ Len(longer) = Kept
          /\ \A i \in 1..Kept : longer[i] = more[i + 1]
      <3>1. \A i \in 2..(Kept + 1) : more[i] \in Words
        BY <1>1, <1>2, <1>5, ElementOfSeq
      <3> QED BY <1>1, <1>2, <1>5, <3>1, SubSeqProperties
    <2> HIDE DEF longer
    <2> QED BY <1>1, <1>2, <1>5, <2>1, <2>2 DEF words
  <1> QED BY <1>1, <1>4, <1>5

LEMMA PasswordsIdle ==
    ASSUME PasswordsTyped
    PROVE  /\ P!Idle \in P!Request
           /\ P!Idle.at = "idle" /\ P!Idle.otp = 0
  BY DEF PasswordsTyped, P!TypeOK, P!User, P!Idle, P!Request, P!Step

\* A handler that begins or ends changes its own slot.
LEMMA PasswordsSlot ==
    ASSUME PasswordsTyped, NEW r \in Reqs, NEW q \in P!Request,
           preq' = [preq EXCEPT ![r] = q]
    PROVE  /\ preq' \in [Reqs -> P!Request]
           /\ preq'[r] = q
           /\ \A s \in Reqs \ {r} : preq'[s] = preq[s]
  BY DEF PasswordsTyped, P!TypeOK

LEMMA OtpsAre ==
    ASSUME PasswordsTyped
    PROVE  /\ MaxOtps \in Nat /\ issued \in Nat /\ issued <= MaxOtps
           /\ secret.otp \in Nat /\ (secret.otp = 0 \/ secret.otp \in P!Otps)
           /\ \A o : o \in P!Otps <=> o \in Nat /\ 1 <= o /\ o <= MaxOtps
           /\ \A r \in Reqs : preq[r].otp \in Nat /\ (preq[r].otp = 0 \/ preq[r].otp \in P!Otps)
  <1>1. MaxOtps \in Nat
    BY PasswordsAssumptions DEF P!Assumptions
  <1> QED BY <1>1 DEF PasswordsTyped, P!TypeOK, P!User, P!Request, P!Otps

LEMMA SendSaveInv ==
    ASSUME PInv, NEW r \in Reqs, P!SendSave(r)
    PROVE  PInv'
  <1> USE DEF P!SendSave
  <1> DEFINE o == issued + 1
             q == [P!Idle EXCEPT !.at = "send_mail", !.otp = o]
  <1>0. PasswordsTyped /\ o \in P!Otps /\ o \in Nat
    BY OtpsAre DEF PInv
  <1>1. /\ q \in P!Request
        /\ q.at = "send_mail" /\ q.otp = o
    BY <1>0, PasswordsIdle DEF P!Request, P!Step
  <1>2. /\ preq' \in [Reqs -> P!Request]
        /\ preq'[r] = q
        /\ \A s \in Reqs \ {r} : preq'[s] = preq[s]
    <2>1. preq' = [preq EXCEPT ![r] = q]
      BY DEF P!Begin
    <2> HIDE DEF q, P!SendSave
    <2> QED BY <1>0, <1>1, <2>1, PasswordsSlot
  <1>3. /\ secret' \in P!User
        /\ secret'.otp = o /\ ~secret'.verified
        /\ secret'.password = secret.password
        /\ secret'.passwordHistory = secret.passwordHistory
    BY <1>0 DEF PasswordsTyped, P!TypeOK, P!User
  <1>4. /\ issued' = o
        /\ UNCHANGED <<past, proved, spent, praced, mailed, paborts>>
        /\ crossed \subseteq crossed' /\ crossed' \subseteq crossed \cup {o}
        /\ P!At("verify_save") # {} => o \in crossed'
    OBVIOUS
  <1> HIDE DEF q, o, P!SendSave
  <1>5. PasswordsTyped'
    BY <1>0, <1>2, <1>3, <1>4, OtpsAre DEF PasswordsTyped, P!TypeOK, P!User
  <1>6. IssuedFirst'
    <2>1. issued' = issued + 1 /\ secret'.otp <= issued' /\ preq'[r].otp <= issued'
      BY <1>0, <1>1, <1>2, <1>3, <1>4 DEF o
    <2>2. \A s \in Reqs : preq'[s].otp <= issued'
      BY <1>0, <1>2, <2>1, OtpsAre DEF PInv, IssuedFirst
    <2> QED BY <1>0, <1>4, <2>1, <2>2, OtpsAre DEF PInv, IssuedFirst
  <1>7. EnteredFirst'
    <2>1. \A s \in P!At("send_mail")' : preq'[s].otp # 0
      BY <1>0, <1>1, <1>2 DEF PInv, EnteredFirst, P!At, P!Otps
    <2>2. ASSUME NEW s \in P!At("verify_save")'
          PROVE  preq'[s].otp \in proved' /\ secret'.otp \in {0, preq'[s].otp} \cup crossed'
      <3>1. s \in P!At("verify_save") /\ preq'[s] = preq[s]
        BY <1>1, <1>2 DEF P!At
      <3> QED BY <1>3, <1>4, <3>1 DEF PInv, EnteredFirst
    <2>3. ASSUME NEW s \in P!At("change_save")'
          PROVE  preq'[s].otp \in proved' \cup crossed'
      <3>1. s \in P!At("change_save") /\ preq'[s] = preq[s]
        BY <1>1, <1>2 DEF P!At
      <3> QED BY <1>4, <3>1 DEF PInv, EnteredFirst
    <2> QED BY <2>1, <2>2, <2>3 DEF EnteredFirst
  <1>8. P!At("change_save")' = P!At("change_save")
        /\ \A s \in P!At("change_save") : preq'[s] = preq[s]
    BY <1>1, <1>2 DEF P!At, P!Begin, P!SendSave
  <1>9. OneChange'
    <2>1. spent[o] = 0
      BY <1>0 DEF PInv, IssuedFirst, o, PasswordsTyped, P!TypeOK
    <2> QED BY <1>3, <1>4, <1>8, <2>1 DEF PInv, OneChange
  <1>10. ReadHolds' /\ HistoryIsEnd'
    BY <1>3, <1>4, <1>8 DEF PInv, ReadHolds, HistoryIsEnd, P!InHistory
  <1>11. P!OtpGuardsChange'
    BY <1>3, <1>4 DEF PInv, P!OtpGuardsChange, P!VerifiedWasProved, P!OtpSpentOnce
  <1> QED BY <1>5, <1>6, <1>7, <1>9, <1>10, <1>11 DEF PInv

\* A handler that ends, for better or worse, and what it leaves of the others.
LEMMA PasswordsFinish ==
    ASSUME PasswordsTyped, NEW r \in Reqs, P!Finish(r)
    PROVE  /\ preq' \in [Reqs -> P!Request]
           /\ preq'[r].otp = 0
           /\ \A s \in Reqs \ {r} : preq'[s] = preq[s]
           /\ P!At("send_mail")' = P!At("send_mail") \ {r}
           /\ P!At("verify_save")' = P!At("verify_save") \ {r}
           /\ P!At("change_save")' = P!At("change_save") \ {r}
  <1>1. /\ preq' \in [Reqs -> P!Request]
        /\ preq'[r] = P!Idle
        /\ \A s \in Reqs \ {r} : preq'[s] = preq[s]
    BY PasswordsIdle, PasswordsSlot DEF P!Finish
  <1> QED BY <1>1, PasswordsIdle DEF P!At

\* A handler ends, and the user is as before but for the OTP that is verified or over.
LEMMA QuietFinish ==
    ASSUME PInv, NEW r \in Reqs, P!Finish(r),
           secret' \in P!User,
           secret'.otp = secret.otp, secret'.password = secret.password,
           secret'.passwordHistory = secret.passwordHistory,
           secret'.verified => secret.verified \/ r \in P!At("verify_save"),
           mailed' \subseteq mailed \cup {preq[r].otp}, preq[r].otp \in P!Otps \/ mailed' = mailed,
           paborts' \in 0..MaxAborts,
           UNCHANGED <<issued, past, proved, spent, crossed, praced>>
    PROVE  PInv'
  <1>0. PasswordsTyped
    BY DEF PInv
  <1>1. /\ preq' \in [Reqs -> P!Request]
        /\ preq'[r].otp = 0
        /\ \A s \in Reqs \ {r} : preq'[s] = preq[s]
        /\ P!At("send_mail")' = P!At("send_mail") \ {r}
        /\ P!At("verify_save")' = P!At("verify_save") \ {r}
        /\ P!At("change_save")' = P!At("change_save") \ {r}
    BY <1>0, PasswordsFinish
  <1>2. PasswordsTyped'
    BY <1>0, <1>1 DEF PasswordsTyped, P!TypeOK, P!User
  <1>3. IssuedFirst'
    BY <1>0, <1>1, OtpsAre DEF PInv, IssuedFirst
  <1>4. P!At("send_mail") \subseteq Reqs /\ P!At("verify_save") \subseteq Reqs
        /\ P!At("change_save") \subseteq Reqs
    BY DEF P!At
  <1>5. EnteredFirst'
    BY <1>1, <1>4 DEF PInv, EnteredFirst
  <1>6. OneChange' /\ ReadHolds' /\ HistoryIsEnd'
    <2>1. OneChange'
      BY <1>1, <1>4 DEF PInv, OneChange
    <2>2. ReadHolds'
      <3> SUFFICES ASSUME ~praced, NEW s \in P!At("change_save") \ {r}
                   PROVE  /\ preq'[s].read = secret'.password
                          /\ preq'[s].word # secret'.password
                          /\ ~(\E i \in DOMAIN secret'.passwordHistory :
                                 secret'.passwordHistory[i] = preq'[s].word)
        BY <1>1 DEF ReadHolds, P!InHistory
      <3>1. preq'[s] = preq[s]
        BY <1>1, <1>4
      <3>2. /\ preq[s].read = secret.password
            /\ preq[s].word # secret.password /\ ~P!InHistory(preq[s].word)
        BY DEF PInv, ReadHolds
      <3> QED BY <3>1, <3>2 DEF P!InHistory
    <2>3. HistoryIsEnd'
      BY DEF PInv, HistoryIsEnd, P!InHistory
    <2> QED BY <2>1, <2>2, <2>3
  <1>7. P!OtpGuardsChange'
    <2>1. \A s \in P!At("verify_save") : secret.otp \in P!Otps => secret.otp \in proved \cup crossed
      BY <1>0, OtpsAre DEF PInv, EnteredFirst
    <2>2. secret'.verified /\ secret'.otp \in P!Otps => secret'.otp \in proved \cup crossed
      BY <2>1 DEF PInv, P!OtpGuardsChange, P!VerifiedWasProved
    <2> QED BY <2>2 DEF PInv, P!OtpGuardsChange, P!VerifiedWasProved, P!OtpSpentOnce
  <1> QED BY <1>2, <1>3, <1>5, <1>6, <1>7 DEF PInv

LEMMA FinishesInv ==
    ASSUME PInv, NEW r \in Reqs, P!SendMail(r) \/ P!VerifySave(r) \/ P!Abort(r)
    PROVE  PInv'
  <1>0. /\ PasswordsTyped /\ secret \in P!User /\ paborts \in 0..MaxAborts /\ MaxAborts \in Nat
    BY PasswordsAssumptions DEF PInv, PasswordsTyped, P!TypeOK, P!User, P!Assumptions
  <1>1. CASE P!SendMail(r)
    <2>1. preq[r].otp \in P!Otps
      BY <1>0, <1>1, OtpsAre DEF P!SendMail, PInv, EnteredFirst, P!At
    <2> QED BY <1>0, <1>1, <2>1, QuietFinish DEF P!SendMail, P!histories
  <1>2. CASE P!VerifySave(r)
    <2>1. /\ secret' \in P!User
          /\ secret'.otp = secret.otp /\ secret'.password = secret.password
          /\ secret'.passwordHistory = secret.passwordHistory
      BY <1>0, <1>2 DEF P!VerifySave, P!User
    <2>2. r \in P!At("verify_save")
      BY <1>2 DEF P!VerifySave, P!At
    <2> QED BY <1>0, <1>2, <2>1, <2>2, QuietFinish DEF P!VerifySave, P!histories
  <1>3. CASE P!Abort(r)
    BY <1>0, <1>3, QuietFinish DEF P!Abort, P!histories
  <1> QED BY <1>1, <1>2, <1>3

LEMMA ExpiresInv ==
    ASSUME PInv, P!OtpExpires
    PROVE  PInv'
  <1>0. PasswordsTyped /\ secret \in P!User
    BY DEF PInv, PasswordsTyped, P!TypeOK, P!User
  <1>1. /\ secret' \in P!User
        /\ secret'.otp = secret.otp /\ secret'.password = secret.password
        /\ secret'.passwordHistory = secret.passwordHistory
        /\ secret'.verified = secret.verified
    BY <1>0 DEF P!OtpExpires, P!User
  <1>2. UNCHANGED <<preq, issued, mailed, paborts, past, proved, spent, crossed, praced>>
    BY DEF P!OtpExpires, P!histories
  <1>3. PasswordsTyped'
    BY <1>0, <1>1, <1>2 DEF PasswordsTyped, P!TypeOK, P!User
  <1>4. IssuedFirst' /\ EnteredFirst' /\ OneChange' /\ ReadHolds' /\ HistoryIsEnd'
    BY <1>1, <1>2, ZenonT(60) DEF PInv, IssuedFirst, EnteredFirst, OneChange, ReadHolds, HistoryIsEnd,
                      P!At, P!InHistory
  <1>5. P!OtpGuardsChange'
    BY <1>1, <1>2 DEF PInv, P!OtpGuardsChange, P!VerifiedWasProved, P!OtpSpentOnce
  <1> QED BY <1>3, <1>4, <1>5 DEF PInv

LEMMA VerifyInv ==
    ASSUME PInv, NEW r \in Reqs, NEW o \in P!Otps, P!Verify(r, o)
    PROVE  PInv'
  <1> DEFINE q == [P!Idle EXCEPT !.at = "verify_save", !.otp = o]
  <1>0. PasswordsTyped /\ o \in Nat /\ o = secret.otp /\ o # 0
    BY OtpsAre DEF PInv, P!Verify
  <1>1. q \in P!Request /\ q.at = "verify_save" /\ q.otp = o
    BY <1>0, PasswordsIdle DEF P!Request, P!Step
  <1>2. preq[r].at = "idle" /\ preq' = [preq EXCEPT ![r] = q]
    BY DEF P!Verify, P!Begin
  <1>3. /\ UNCHANGED <<secret, issued, mailed, paborts, past, spent, crossed, praced>>
        /\ proved' = proved \cup {o}
    BY DEF P!Verify
  <1> HIDE DEF q
  <1>4. /\ preq' \in [Reqs -> P!Request]
        /\ preq'[r] = q
        /\ \A s \in Reqs \ {r} : preq'[s] = preq[s]
    BY <1>0, <1>1, <1>2, PasswordsSlot
  <1>5. /\ P!At("send_mail")' = P!At("send_mail")
        /\ P!At("verify_save")' = P!At("verify_save") \cup {r}
        /\ P!At("change_save")' = P!At("change_save")
        /\ r \notin P!At("send_mail") /\ r \notin P!At("change_save")
        /\ P!At("send_mail") \subseteq Reqs /\ P!At("verify_save") \subseteq Reqs
        /\ P!At("change_save") \subseteq Reqs
    BY <1>1, <1>2, <1>4 DEF P!At
  <1>6. PasswordsTyped'
    BY <1>0, <1>3, <1>4 DEF PasswordsTyped, P!TypeOK
  <1>7. IssuedFirst'
    BY <1>0, <1>1, <1>3, <1>4 DEF PInv, IssuedFirst
  <1>8. EnteredFirst'
    BY <1>0, <1>1, <1>3, <1>4, <1>5 DEF PInv, EnteredFirst
  <1>9. OneChange' /\ ReadHolds' /\ HistoryIsEnd'
    <2>1. OneChange'
      BY <1>3, <1>4, <1>5 DEF PInv, OneChange
    <2>2. ReadHolds'
      BY <1>3, <1>4, <1>5 DEF PInv, ReadHolds, P!InHistory
    <2>3. HistoryIsEnd'
      BY <1>3 DEF PInv, HistoryIsEnd, P!InHistory
    <2> QED BY <2>1, <2>2, <2>3
  <1>10. P!OtpGuardsChange'
    BY <1>3 DEF PInv, P!OtpGuardsChange, P!VerifiedWasProved, P!OtpSpentOnce
  <1> QED BY <1>6, <1>7, <1>8, <1>9, <1>10 DEF PInv

\* What is found is recorded with the request; a change already under way makes a race.
LEMMA ChangeFindInv ==
    ASSUME PInv, NEW r \in Reqs, NEW o \in P!Otps, NEW w \in Words, P!ChangeFind(r, o, w)
    PROVE  PInv'
  <1> DEFINE q == [P!Idle EXCEPT !.at = "change_save", !.otp = o, !.word = w,
                                 !.read = secret.password]
  <1>0. PasswordsTyped /\ o \in Nat /\ o = secret.otp /\ o # 0
    BY OtpsAre DEF PInv, P!ChangeFind
  <1>1. /\ q \in P!Request /\ q.at = "change_save" /\ q.otp = o
        /\ q.word = w /\ q.read = secret.password
    BY <1>0, PasswordsIdle DEF P!Request, P!Step, P!Idle, PasswordsTyped, P!TypeOK
  <1>2. preq[r].at = "idle" /\ preq' = [preq EXCEPT ![r] = q]
    BY DEF P!ChangeFind, P!Begin
  <1>3. /\ UNCHANGED <<secret, issued, mailed, paborts, past, proved, spent, crossed>>
        /\ praced' = (praced \/ P!At("change_save") # {})
        /\ secret.verified /\ w # secret.password /\ ~P!InHistory(w)
    BY DEF P!ChangeFind
  <1> HIDE DEF q
  <1>4. /\ preq' \in [Reqs -> P!Request]
        /\ preq'[r] = q
        /\ \A s \in Reqs \ {r} : preq'[s] = preq[s]
    BY <1>0, <1>1, <1>2, PasswordsSlot
  <1>5. /\ P!At("send_mail")' = P!At("send_mail")
        /\ P!At("verify_save")' = P!At("verify_save")
        /\ P!At("change_save")' = P!At("change_save") \cup {r}
        /\ r \notin P!At("send_mail") /\ r \notin P!At("verify_save")
        /\ P!At("send_mail") \subseteq Reqs /\ P!At("verify_save") \subseteq Reqs
        /\ P!At("change_save") \subseteq Reqs
    BY <1>1, <1>2, <1>4 DEF P!At
  <1>6. PasswordsTyped'
    <2>1. praced' \in BOOLEAN
      BY <1>3
    <2> QED BY <1>0, <1>3, <1>4, <2>1 DEF PasswordsTyped, P!TypeOK
  <1>7. IssuedFirst'
    BY <1>0, <1>1, <1>3, <1>4 DEF PInv, IssuedFirst
  <1>8. EnteredFirst'
    <2>1. o \in proved \cup crossed
      BY <1>0, <1>3 DEF PInv, P!OtpGuardsChange, P!VerifiedWasProved
    <2> QED BY <1>0, <1>1, <1>3, <1>4, <1>5, <2>1 DEF PInv, EnteredFirst
  <1>9. CASE praced \/ P!At("change_save") # {}
    <2>1. praced'
      BY <1>3, <1>9
    <2> QED
      BY <1>3, <1>6, <1>7, <1>8, <2>1 DEF PInv, OneChange, ReadHolds, HistoryIsEnd,
         P!OtpGuardsChange, P!VerifiedWasProved, P!OtpSpentOnce
  <1>10. CASE ~praced /\ P!At("change_save") = {}
    <2>1. P!At("change_save")' = {r} /\ praced' = FALSE
      BY <1>3, <1>5, <1>10, <1>6 DEF PasswordsTyped, P!TypeOK
    <2>2. spent[o] = 0
      BY <1>0, <1>10 DEF PInv, OneChange
    <2>3. OneChange'
      BY <1>0, <1>1, <1>3, <1>4, <2>1, <2>2 DEF OneChange
    <2>4. ReadHolds'
      BY <1>1, <1>3, <1>4, <2>1 DEF ReadHolds, P!InHistory
    <2>5. HistoryIsEnd' /\ P!OtpGuardsChange'
      BY <1>3, <1>10, <2>1 DEF PInv, HistoryIsEnd, P!InHistory,
         P!OtpGuardsChange, P!VerifiedWasProved, P!OtpSpentOnce
    <2> QED BY <1>6, <1>7, <1>8, <2>3, <2>4, <2>5 DEF PInv
  <1> QED BY <1>9, <1>10

\* The password that goes out of force is the last of the past, and of the history.
LEMMA ChangeSaveInv ==
    ASSUME PInv, NEW r \in Reqs, P!ChangeSave(r)
    PROVE  PInv'
  <1> DEFINE words == secret.passwordHistory
             q == preq[r]
             longer == P!Remember(words, q.read)
  <1>0. PasswordsTyped /\ r \in P!At("change_save")
    BY DEF PInv, P!ChangeSave, P!At
  <1>1. /\ q \in P!Request /\ q.word \in Words /\ q.read \in Words
        /\ q.otp \in P!Otps /\ q.otp \in Nat /\ q.otp <= issued
        /\ q.otp \in proved \cup crossed
    <2>1. q \in P!Request /\ q.word \in Words /\ q.read \in Words
      BY <1>0 DEF PasswordsTyped, P!TypeOK, P!Request
    <2>2. q.otp \in Nat /\ q.otp <= issued /\ q.otp \in proved \cup crossed
      BY <1>0, OtpsAre DEF PInv, IssuedFirst, EnteredFirst
    <2>3. q.otp \in P!Otps
      BY <1>0, <2>2 DEF PasswordsTyped, P!TypeOK
    <2> QED BY <2>1, <2>2, <2>3
  <1>2. /\ Kept \in Nat \ {0} /\ words \in Seq(Words) /\ past \in Seq(Words)
        /\ Len(words) \in Nat /\ Len(past) \in Nat /\ Len(words) <= Kept
        /\ secret.password \in Words
    BY <1>0, LenProperties, PasswordsAssumptions
       DEF PasswordsTyped, P!TypeOK, P!User, P!Assumptions
  <1>3. /\ longer \in Seq(Words)
        /\ Len(longer) = IF Len(words) < Kept THEN Len(words) + 1 ELSE Kept
        /\ longer[Len(longer)] = q.read
        /\ \A i \in 1..Len(longer) - 1 :
             longer[i] = words[i + Len(words) + 1 - Len(longer)]
    BY <1>0, <1>1, Remembered
  <1>4. /\ secret' = [password |-> q.word, passwordHistory |-> longer,
                      otp |-> 0, expired |-> FALSE, verified |-> FALSE]
        /\ past' = Append(past, secret.password)
        /\ spent' = [spent EXCEPT ![q.otp] = @ + 1]
        /\ P!Finish(r)
        /\ UNCHANGED <<issued, mailed, paborts, proved, crossed, praced>>
    BY DEF P!ChangeSave
  <1> HIDE DEF longer
  <1>5. /\ secret'.password = q.word /\ secret'.passwordHistory = longer
        /\ secret'.otp = 0 /\ secret'.verified = FALSE
        /\ secret' \in [password: Words, passwordHistory: UNION {[1..n -> Words] : n \in 0..Kept},
                        otp: P!Otps \cup {0}, expired: BOOLEAN, verified: BOOLEAN]
    <2>1. longer \in [1..Len(longer) -> Words] /\ Len(longer) \in 0..Kept
      BY <1>2, <1>3, LenProperties
    <2> QED BY <1>1, <1>4, <2>1
  <1>6. /\ preq' \in [Reqs -> P!Request]
        /\ preq'[r].otp = 0
        /\ \A s \in Reqs \ {r} : preq'[s] = preq[s]
        /\ P!At("send_mail")' = P!At("send_mail") \ {r}
        /\ P!At("verify_save")' = P!At("verify_save") \ {r}
        /\ P!At("change_save")' = P!At("change_save") \ {r}
    BY <1>0, <1>4, PasswordsFinish
  <1>7. /\ past' \in Seq(Words) /\ Len(past') = Len(past) + 1
        /\ \A i \in 1..Len(past) : past'[i] = past[i]
        /\ past'[Len(past) + 1] = secret.password
    BY <1>2, <1>4, AppendProperties
  <1>8. /\ spent' \in [P!Otps -> Nat]
        /\ spent'[q.otp] = spent[q.otp] + 1
        /\ \A o \in P!Otps \ {q.otp} : spent'[o] = spent[o]
    BY <1>0, <1>1, <1>4 DEF PasswordsTyped, P!TypeOK
  <1>9. PasswordsTyped'
    <2>1. \A i \in DOMAIN past' : past'[i] \in Words
      BY <1>7, LenProperties, ElementOfSeq
    <2>2. P!TypeOK'
      BY <1>0, <1>4, <1>5, <1>6, <1>8, <2>1 DEF PasswordsTyped, P!TypeOK
    <2> QED BY <1>2, <1>3, <1>5, <1>7, <2>2 DEF PasswordsTyped
  <1>10. IssuedFirst'
    <2>1. secret'.otp <= issued' /\ \A s \in Reqs : preq'[s].otp <= issued'
      BY <1>0, <1>4, <1>5, <1>6, OtpsAre DEF PInv, IssuedFirst
    <2>2. \A o \in P!Otps : o > issued => o # q.otp
      BY <1>0, <1>1, OtpsAre
    <2>3. \A o \in P!Otps : o > issued => spent'[o] = 0
      BY <1>8, <2>2 DEF PInv, IssuedFirst
    <2> QED BY <1>4, <2>1, <2>3 DEF IssuedFirst
  <1>11. P!At("send_mail") \subseteq Reqs /\ P!At("verify_save") \subseteq Reqs
         /\ P!At("change_save") \subseteq Reqs
    BY DEF P!At
  <1>12. EnteredFirst'
    BY <1>4, <1>5, <1>6, <1>11 DEF PInv, EnteredFirst
  <1>13. P!VerifiedWasProved'
    BY <1>1, <1>4, <1>5, <1>8 DEF PInv, P!OtpGuardsChange, P!VerifiedWasProved
  <1>14. CASE praced
    BY <1>4, <1>9, <1>10, <1>12, <1>13, <1>14
       DEF PInv, OneChange, ReadHolds, HistoryIsEnd, P!OtpGuardsChange, P!OtpSpentOnce
  <1>15. CASE ~praced
    <2>1. P!At("change_save")' = {} /\ spent[q.otp] = 0
      BY <1>0, <1>6, <1>15 DEF PInv, OneChange
    <2>2. OneChange' /\ ReadHolds'
      BY <1>5, <2>1 DEF OneChange, ReadHolds
    <2>3. P!OtpSpentOnce'
      BY <1>8, <1>15, <2>1 DEF PInv, P!OtpGuardsChange, P!OtpSpentOnce
    <2>4. /\ q.read = secret.password /\ q.word # secret.password
          /\ \A i \in 1..Len(words) : words[i] # q.word
      <3>1. DOMAIN words = 1..Len(words)
        BY <1>2, LenProperties
      <3> QED BY <1>0, <1>15, <3>1 DEF PInv, ReadHolds, P!InHistory
    <2>5. /\ Len(words) = IF Len(past) <= Kept THEN Len(past) ELSE Kept
          /\ \A i \in 1..Len(words) : words[i] = past[Len(past) - Len(words) + i]
      BY <1>15 DEF PInv, HistoryIsEnd
    <2> HIDE DEF words, q
    <2>6. Len(longer) = IF Len(past') <= Kept THEN Len(past') ELSE Kept
      BY <1>2, <1>3, <1>7, <2>5
    <2>7. ASSUME NEW i \in 1..Len(longer)
          PROVE  longer[i] = past'[Len(past') - Len(longer) + i] /\ longer[i] # q.word
      <3>1. CASE i = Len(longer)
        <4>1. Len(past') - Len(longer) + i = Len(past) + 1
          BY <1>2, <1>3, <1>7, <3>1
        <4> QED BY <1>3, <1>7, <2>4, <3>1, <4>1
      <3>2. CASE i # Len(longer)
        <4> DEFINE j == i + Len(words) + 1 - Len(longer)
        <4>1. j \in 1..Len(words) /\ i \in 1..Len(longer) - 1
          BY <1>2, <1>3, <3>2
        <4>2. longer[i] = words[j]
          BY <1>3, <4>1
        <4>3. words[j] = past[Len(past) - Len(words) + j] /\ words[j] # q.word
          BY <2>4, <2>5, <4>1
        <4>4. /\ Len(past) - Len(words) + j = Len(past') - Len(longer) + i
              /\ Len(past) - Len(words) + j \in 1..Len(past)
          <5>1. Len(words) <= Len(past) /\ Len(longer) \in Nat
            BY <1>2, <1>3, <2>5
          <5>2. Len(past) - Len(words) + j = Len(past') - Len(longer) + i
            BY <1>2, <1>7, <5>1
          <5> HIDE DEF j
          <5> QED BY <1>2, <4>1, <5>1, <5>2
        <4> HIDE DEF j
        <4> QED BY <1>7, <4>2, <4>3, <4>4
      <3> QED BY <3>1, <3>2
    <2>8. HistoryIsEnd'
      <3>1. DOMAIN longer = 1..Len(longer)
        BY <1>3, LenProperties
      <3> QED BY <1>5, <2>6, <2>7, <3>1 DEF HistoryIsEnd, P!InHistory
    <2> QED BY <1>9, <1>10, <1>12, <1>13, <2>2, <2>3, <2>8 DEF PInv, P!OtpGuardsChange
  <1> QED BY <1>14, <1>15

LEMMA PasswordsInit ==
    ASSUME P!Init
    PROVE  PInv
  <1> USE DEF P!Init
  <1>1. /\ secret.password \in Words /\ secret.otp = 0
        /\ secret.passwordHistory = << >> /\ secret.verified = FALSE /\ secret.expired = FALSE
        /\ secret = [password |-> secret.password, passwordHistory |-> << >>, otp |-> 0,
                     expired |-> FALSE, verified |-> FALSE]
        /\ P!Idle.word = secret.password /\ P!Idle.read = secret.password
    BY DEF P!Idle
  <1>2. P!Idle \in P!Request /\ P!Idle.at = "idle" /\ P!Idle.otp = 0
    BY <1>1 DEF P!Idle, P!Request, P!Step
  <1>3. /\ << >> \in Seq(Words) /\ Len(<< >>) = 0 /\ << >> \in [1..0 -> Words]
        /\ Kept \in Nat \ {0} /\ MaxOtps \in Nat /\ MaxAborts \in Nat
    BY EmptySeq, LenProperties, PasswordsAssumptions DEF P!Assumptions
  <1>4. P!TypeOK
    <2>1. secret \in [password: Words, passwordHistory: UNION {[1..n -> Words] : n \in 0..Kept},
                      otp: P!Otps \cup {0}, expired: BOOLEAN, verified: BOOLEAN]
      <3>1. << >> \in [1..0 -> Words] /\ 0 \in 0..Kept
        BY <1>3
      <3>2. << >> \in UNION {[1..n -> Words] : n \in 0..Kept}
        BY <3>1
      <3> HIDE DEF P!Init
      <3> QED BY <1>1, <3>2
    <2>2. preq \in [Reqs -> P!Request] /\ issued \in 0..MaxOtps /\ paborts \in 0..MaxAborts
      BY <1>2, <1>3
    <2>3. mailed \cup proved \cup crossed \subseteq P!Otps /\ spent \in [P!Otps -> Nat]
          /\ praced \in BOOLEAN
      OBVIOUS
    <2>4. \A i \in DOMAIN past : past[i] \in Words
      BY <1>3, LenProperties
    <2> QED BY <2>1, <2>2, <2>3, <2>4 DEF P!TypeOK
  <1>5. PasswordsTyped
    BY <1>1, <1>3, <1>4 DEF PasswordsTyped
  <1>6. \A r \in Reqs : preq[r].at = "idle" /\ preq[r].otp = 0
    BY <1>2
  <1>7. P!At("send_mail") = {} /\ P!At("verify_save") = {} /\ P!At("change_save") = {}
    BY <1>6 DEF P!At
  <1>8. \A o \in P!Otps : spent[o] = 0 /\ o # 0
    BY DEF P!Otps
  <1>9. IssuedFirst
    BY <1>1, <1>6, <1>8 DEF IssuedFirst
  <1>10. EnteredFirst /\ OneChange /\ ReadHolds
    BY <1>1, <1>7 DEF EnteredFirst, OneChange, ReadHolds
  <1>11. HistoryIsEnd
    BY <1>1, <1>3 DEF HistoryIsEnd, P!InHistory
  <1>12. P!OtpGuardsChange
    BY <1>1, <1>8 DEF P!OtpGuardsChange, P!VerifiedWasProved, P!OtpSpentOnce
  <1> QED BY <1>5, <1>9, <1>10, <1>11, <1>12 DEF PInv

LEMMA PasswordsNext ==
    ASSUME PInv, [P!Next]_P!vars
    PROVE  PInv'
  <1>1. CASE UNCHANGED P!vars
    <2>1. UNCHANGED <<secret, preq, issued, mailed, paborts, past, proved, spent, crossed, praced>>
      BY <1>1 DEF P!vars
    <2> QED BY <2>1 DEF PInv, PasswordsTyped, P!TypeOK, IssuedFirst, EnteredFirst, OneChange,
            ReadHolds, HistoryIsEnd, P!InHistory, P!At, P!OtpGuardsChange,
            P!VerifiedWasProved, P!OtpSpentOnce
  <1>2. CASE P!OtpExpires
    BY <1>2, ExpiresInv
  <1>3. ASSUME NEW r \in Reqs, P!Asked(r) PROVE PInv'
    BY <1>3, SendSaveInv, VerifyInv, ChangeFindInv DEF P!Asked
  <1>4. ASSUME NEW r \in Reqs, P!HandlerStep(r) \/ P!Abort(r) PROVE PInv'
    BY <1>4, FinishesInv, ChangeSaveInv DEF P!HandlerStep
  <1> QED BY <1>1, <1>2, <1>3, <1>4 DEF P!Next

\* What the history holds are the last words of the past.
LEMMA EndIsLatest ==
    ASSUME PInv
    PROVE  P!NoReuse
  <1> SUFFICES ASSUME ~praced
               PROVE  /\ secret.password \notin P!Latest(past)
                      /\ P!Latest(past) = {secret.passwordHistory[i] :
                                              i \in DOMAIN secret.passwordHistory}
    BY DEF P!NoReuse
  <1> DEFINE words == secret.passwordHistory
  <1>1. /\ Kept \in Nat \ {0}
        /\ DOMAIN words = 1..Len(words) /\ Len(words) \in Nat
        /\ DOMAIN past = 1..Len(past) /\ Len(past) \in Nat
    BY LenProperties, PasswordsAssumptions DEF PInv, PasswordsTyped, P!Assumptions
  <1>2. /\ Len(words) = IF Len(past) <= Kept THEN Len(past) ELSE Kept
        /\ \A i \in 1..Len(words) : words[i] = past[Len(past) - Len(words) + i]
        /\ \A i \in DOMAIN words : words[i] # secret.password
    BY DEF PInv, HistoryIsEnd, P!InHistory
  <1> HIDE DEF words
  <1>3. ASSUME NEW i \in DOMAIN words
        PROVE  words[i] \in P!Latest(past)
    <2>1. i \in Nat /\ 1 <= i /\ i <= Len(words) /\ Len(words) <= Len(past) /\ Len(words) <= Kept
      BY <1>1, <1>2
    <2>2. /\ Len(past) - Len(words) + i \in DOMAIN past
          /\ Len(past) - Len(words) + i > Len(past) - Kept
          /\ words[i] = past[Len(past) - Len(words) + i]
      <3>1. words[i] = past[Len(past) - Len(words) + i]
        BY <1>1, <1>2
      <3>2. Len(past) - Len(words) + i > Len(past) - Kept
        BY <1>1, <2>1
      <3>3. Len(past) - Len(words) + i \in 1..Len(past)
        BY <1>1, <2>1
      <3> QED BY <1>1, <3>1, <3>2, <3>3
    <2> QED BY <2>2 DEF P!Latest
  <1>4. ASSUME NEW j \in DOMAIN past, j > Len(past) - Kept
        PROVE  \E i \in DOMAIN words : past[j] = words[i]
    <2>1. j - (Len(past) - Len(words)) \in DOMAIN words
      BY <1>1, <1>2, <1>4
    <2>2. Len(past) - Len(words) + (j - (Len(past) - Len(words))) = j
      BY <1>1
    <2> DEFINE i == j - (Len(past) - Len(words))
    <2> HIDE DEF i
    <2>3. i \in DOMAIN words /\ Len(past) - Len(words) + i = j
      BY <2>1, <2>2 DEF i
    <2> QED BY <1>1, <1>2, <2>3
  <1>5. P!Latest(past) = {words[i] : i \in DOMAIN words}
    BY <1>3, <1>4 DEF P!Latest
  <1> QED BY <1>2, <1>5 DEF words

-----------------------------------------------------------------------------
\* The instances count as this module does.
LEMMA SameCardinality ==
    \A X : E!Cardinality(X) = Cardinality(X) /\ R!Cardinality(X) = Cardinality(X)
  <1>1. ASSUME NEW X PROVE E!Cardinality(X) = Cardinality(X)
    BY DEF E!Cardinality, Cardinality
  <1>2. ASSUME NEW X PROVE R!Cardinality(X) = Cardinality(X)
    BY DEF R!Cardinality, Cardinality
  <1> QED BY <1>1, <1>2

-----------------------------------------------------------------------------
(* Engagement *)

Saving(r) == ereq[r].at = "toggle_save"
Noting(r) == ereq[r].at = "notify"

\* A toggle under way is of a user and an ad, and it is others that the owner is told of.
Placed ==
    \A r \in Reqs :
        /\ Saving(r) \/ Noting(r) => ereq[r].user \in Customers /\ ereq[r].ad \in Ads
        /\ Noting(r) => ereq[r].user # Owner

\* A toggle that is alone writes what the list is to be.
ListsAhead ==
    \A u \in Customers \ eraced :
        /\ \A r, s \in E!Toggling(u) : r = s
        /\ \A r \in E!Toggling(u) :
             /\ ereq[r].added <=> ereq[r].ad \notin wishlist[u]
             /\ ereq[r].list = IF ereq[r].added THEN wishlist[u] \cup {ereq[r].ad}
                                                ELSE wishlist[u] \ {ereq[r].ad}

Odd == \A u \in Customers \ eraced, a \in Ads : a \in wishlist[u] <=> saves[u][a] % 2 = 1

\* Of one user and one ad: those that were told, or are about to be, are the additions,
\* but for those that failed.
NoticesOf(u, a) ==
    /\ IsFiniteSet(E!Telling(u, a))
    /\ LET n == unread[u][a] + read[u][a] + Cardinality(E!Telling(u, a))
       IN  n <= additions[u][a] /\ additions[u][a] <= n + eaborts

Notices ==
    /\ \A a \in Ads : unread[Owner][a] = 0 /\ read[Owner][a] = 0
    /\ \A u \in Customers \ {Owner}, a \in Ads : NoticesOf(u, a)

Viewers ==
    \A a \in Ads : IsFiniteSet(viewHistory[a]) /\ views[a] >= Cardinality(viewHistory[a])

EInv == E!TypeOK /\ Placed /\ ListsAhead /\ Odd /\ Notices /\ Viewers

\* One number of a table of users and ads.
LEMMA Entry ==
    ASSUME NEW f \in [Customers -> [Ads -> Nat]], NEW u \in Customers, NEW a \in Ads,
           NEW n \in Nat, NEW g, g = [f EXCEPT ![u][a] = n]
    PROVE  /\ g \in [Customers -> [Ads -> Nat]]
           /\ \A v \in Customers, b \in Ads : g[v][b] = IF v = u /\ b = a THEN n ELSE f[v][b]
  OBVIOUS

LEMMA EngagementTypes ==
    ASSUME E!TypeOK
    PROVE  /\ wishlist \in [Customers -> SUBSET Ads]
           /\ unread \in [Customers -> [Ads -> Nat]] /\ read \in [Customers -> [Ads -> Nat]]
           /\ saves \in [Customers -> [Ads -> Nat]] /\ additions \in [Customers -> [Ads -> Nat]]
           /\ views \in [Ads -> Nat] /\ viewHistory \in [Ads -> SUBSET Customers]
           /\ ereq \in [Reqs -> E!Request]
           /\ toggles \in 0..MaxToggles /\ toggles \in Nat /\ MaxToggles \in Nat
           /\ eaborts \in 0..MaxAborts /\ eaborts \in Nat /\ MaxAborts \in Nat
           /\ eraced \subseteq Customers
           /\ Owner \in Customers /\ Viewed \subseteq Ads
  <1>1. /\ MaxToggles \in Nat /\ MaxAborts \in Nat
        /\ Owner \in Customers /\ Viewed \subseteq Ads
    BY EngagementAssumptions DEF E!Assumptions
  <1> QED BY <1>1 DEF E!TypeOK

LEMMA EngagementTyped ==
    ASSUME wishlist \in [Customers -> SUBSET Ads],
           unread \in [Customers -> [Ads -> Nat]], read \in [Customers -> [Ads -> Nat]],
           saves \in [Customers -> [Ads -> Nat]], additions \in [Customers -> [Ads -> Nat]],
           views \in [Ads -> Nat], viewHistory \in [Ads -> SUBSET Customers],
           ereq \in [Reqs -> E!Request], toggles \in 0..MaxToggles, eaborts \in 0..MaxAborts,
           eraced \subseteq Customers
    PROVE  E!TypeOK
  BY DEF E!TypeOK

\* What depends on the slots of the handlers alone, or on them and what they leave.
LEMMA SameNotices ==
    ASSUME Notices, UNCHANGED <<unread, read, additions, eaborts>>,
           \A u \in Customers \ {Owner}, a \in Ads : E!Telling(u, a)' = E!Telling(u, a)
    PROVE  Notices'
  <1> SUFFICES ASSUME NEW u \in Customers \ {Owner}, NEW a \in Ads
               PROVE  NoticesOf(u, a)'
    BY DEF Notices
  <1>1. NoticesOf(u, a) /\ E!Telling(u, a)' = E!Telling(u, a)
    BY DEF Notices
  <1> QED BY <1>1 DEF NoticesOf

LEMMA ToggleFindInv ==
    ASSUME EInv, NEW r \in Reqs, NEW u \in Customers, NEW a \in Ads, E!ToggleFind(r, u, a)
    PROVE  EInv'
  <1> DEFINE added == a \notin wishlist[u]
             list == IF added THEN wishlist[u] \cup {a} ELSE wishlist[u] \ {a}
             q == [at |-> "toggle_save", user |-> u, ad |-> a, list |-> list, added |-> added]
  <1>0. /\ E!TypeOK /\ added \in BOOLEAN /\ list \in SUBSET Ads
        /\ ereq \in [Reqs -> E!Request] /\ eraced \subseteq Customers
    BY EngagementTypes DEF EInv
  <1>1. /\ q \in E!Request
        /\ q.at = "toggle_save" /\ q.user = u /\ q.ad = a /\ q.list = list /\ q.added = added
    BY <1>0 DEF E!Request, E!Step
  <1>2. /\ ereq[r].at = "idle" /\ ereq' = [ereq EXCEPT ![r] = q]
        /\ toggles < MaxToggles /\ toggles' = toggles + 1
        /\ eraced' = IF E!Toggling(u) = {} THEN eraced ELSE eraced \cup {u}
        /\ UNCHANGED <<wishlist, unread, read, views, viewHistory, eaborts, saves, additions>>
    BY DEF E!ToggleFind, E!notices, E!counters
  <1> HIDE DEF q
  <1>3. /\ ereq' \in [Reqs -> E!Request]
        /\ ereq'[r] = q
        /\ \A s \in Reqs \ {r} : ereq'[s] = ereq[s]
    BY <1>0, <1>1, <1>2
  <1>4. E!TypeOK'
    BY <1>0, <1>2, <1>3, EngagementTypes DEF E!TypeOK
  <1>5. Placed'
    BY <1>1, <1>2, <1>3 DEF EInv, Placed, Saving, Noting
  <1>6. \A v \in Customers : E!Toggling(v)' = IF v = u THEN E!Toggling(v) \cup {r} ELSE E!Toggling(v)
    BY <1>1, <1>2, <1>3 DEF E!Toggling
  <1>7. ASSUME NEW v \in Customers \ eraced'
        PROVE  /\ \A x, y \in E!Toggling(v)' : x = y
               /\ \A x \in E!Toggling(v)' :
                    /\ ereq'[x].added <=> ereq'[x].ad \notin wishlist'[v]
                    /\ ereq'[x].list = IF ereq'[x].added THEN wishlist'[v] \cup {ereq'[x].ad}
                                                         ELSE wishlist'[v] \ {ereq'[x].ad}
    <2>1. v \in Customers \ eraced
      BY <1>2
    <2>2. CASE v = u
      <3>1. E!Toggling(v)' = {r}
        BY <1>2, <1>6, <2>2
      <3> QED BY <1>1, <1>2, <1>3, <2>2, <3>1
    <2>3. CASE v # u
      <3>1. E!Toggling(v)' = E!Toggling(v) /\ \A x \in E!Toggling(v) : ereq'[x] = ereq[x]
        BY <1>2, <1>3, <1>6, <2>3 DEF E!Toggling
      <3>2. /\ \A x, y \in E!Toggling(v) : x = y
            /\ \A x \in E!Toggling(v) :
                 /\ ereq[x].added <=> ereq[x].ad \notin wishlist[v]
                 /\ ereq[x].list = IF ereq[x].added THEN wishlist[v] \cup {ereq[x].ad}
                                                    ELSE wishlist[v] \ {ereq[x].ad}
        BY <2>1 DEF EInv, ListsAhead
      <3>3. wishlist' = wishlist
        BY <1>2
      <3> QED BY <3>1, <3>2, <3>3
    <2> QED BY <2>2, <2>3
  <1>8. ListsAhead'
    BY <1>7 DEF ListsAhead
  <1>9. Odd'
    BY <1>2 DEF EInv, Odd
  <1>10. Notices'
    <2>1. \A v \in Customers \ {Owner}, b \in Ads : E!Telling(v, b)' = E!Telling(v, b)
      BY <1>1, <1>2, <1>3 DEF E!Telling
    <2> QED BY <1>2, <2>1, SameNotices DEF EInv
  <1>11. Viewers'
    BY <1>2 DEF EInv, Viewers
  <1> QED BY <1>4, <1>5, <1>8, <1>9, <1>10, <1>11 DEF EInv

\* The whole list is written, and the owner is to be told, or the handler is done.
LEMMA ToggleSaveInv ==
    ASSUME EInv, NEW r \in Reqs, E!ToggleSave(r)
    PROVE  EInv'
  <1> DEFINE u == ereq[r].user
             a == ereq[r].ad
             more == IF ereq[r].added THEN additions[u][a] + 1 ELSE additions[u][a]
             telling == ereq[r].added /\ u # Owner
  <1>0. /\ E!TypeOK /\ Saving(r)
        /\ u \in Customers /\ a \in Ads /\ ereq[r].list \in SUBSET Ads
        /\ ereq[r].added \in BOOLEAN
        /\ ereq \in [Reqs -> E!Request]
        /\ r \in E!Toggling(u)
    <2>1. E!TypeOK /\ Saving(r) /\ ereq \in [Reqs -> E!Request] /\ u \in Customers /\ a \in Ads
      BY EngagementTypes DEF EInv, E!ToggleSave, Saving, Placed
    <2> QED BY <2>1 DEF E!Request, E!Toggling, Saving
  <1>1. /\ wishlist' = [wishlist EXCEPT ![u] = ereq[r].list]
        /\ saves' = [saves EXCEPT ![u][a] = saves[u][a] + 1]
        /\ additions' = [additions EXCEPT ![u][a] = more]
        /\ ereq' = [ereq EXCEPT ![r] = IF telling THEN [ereq[r] EXCEPT !.at = "notify"]
                                       ELSE E!Idle]
        /\ UNCHANGED <<unread, read, views, viewHistory, toggles, eaborts, eraced>>
    BY DEF E!ToggleSave, E!Finish, E!notices, E!counters
  <1>2. /\ ereq' \in [Reqs -> E!Request]
        /\ \A s \in Reqs \ {r} : ereq'[s] = ereq[s]
        /\ ereq'[r].at = IF telling THEN "notify" ELSE "idle"
        /\ telling => ereq'[r].user = u /\ ereq'[r].ad = a
    <2>1. CASE telling
      <3>1. [ereq[r] EXCEPT !.at = "notify"] \in E!Request
        BY <1>0 DEF E!Request, E!Step
      <3>2. /\ [ereq[r] EXCEPT !.at = "notify"].at = "notify"
            /\ [ereq[r] EXCEPT !.at = "notify"].user = u
            /\ [ereq[r] EXCEPT !.at = "notify"].ad = a
        BY <1>0 DEF E!Request
      <3> QED BY <1>0, <1>1, <2>1, <3>1, <3>2
    <2>2. CASE ~telling
      <3>1. E!Idle \in E!Request /\ E!Idle.at = "idle"
        BY DEF E!Idle, E!Request, E!Step
      <3> QED BY <1>0, <1>1, <2>2, <3>1
    <2> QED BY <2>1, <2>2
  <1>3. /\ saves' \in [Customers -> [Ads -> Nat]]
        /\ \A v \in Customers, b \in Ads :
             saves'[v][b] = IF v = u /\ b = a THEN saves[u][a] + 1 ELSE saves[v][b]
    <2>1. saves \in [Customers -> [Ads -> Nat]] /\ saves[u][a] + 1 \in Nat
      BY <1>0, EngagementTypes
    <2> HIDE DEF u, a
    <2> QED BY <1>0, <1>1, <2>1, Entry
  <1>4. /\ additions' \in [Customers -> [Ads -> Nat]]
        /\ \A v \in Customers, b \in Ads :
             additions'[v][b] = IF v = u /\ b = a THEN more ELSE additions[v][b]
    <2>1. additions \in [Customers -> [Ads -> Nat]] /\ more \in Nat
      BY <1>0, EngagementTypes
    <2> HIDE DEF u, a, more
    <2> QED BY <1>0, <1>1, <2>1, Entry
  <1>5. /\ wishlist' \in [Customers -> SUBSET Ads]
        /\ \A v \in Customers : wishlist'[v] = IF v = u THEN ereq[r].list ELSE wishlist[v]
    <2>1. wishlist \in [Customers -> SUBSET Ads]
      BY <1>0, EngagementTypes
    <2> QED BY <1>0, <1>1, <2>1
  <1> HIDE DEF telling, more
  <1>6. E!TypeOK'
    BY <1>0, <1>1, <1>2, <1>3, <1>4, <1>5 DEF E!TypeOK
  <1>7. Placed'
    BY <1>0, <1>2 DEF EInv, Placed, Saving, Noting, telling
  <1>8. \A v \in Customers : E!Toggling(v)' = E!Toggling(v) \ {r}
    BY <1>2 DEF E!Toggling
  <1>9. \A v \in Customers \ {u} : r \notin E!Toggling(v)
    BY DEF E!Toggling
  <1>10. ListsAhead'
    <2> SUFFICES ASSUME NEW v \in Customers \ eraced
                 PROVE  /\ \A x, y \in E!Toggling(v)' : x = y
                        /\ \A x \in E!Toggling(v)' :
                             /\ ereq'[x].added <=> ereq'[x].ad \notin wishlist'[v]
                             /\ ereq'[x].list = IF ereq'[x].added
                                                THEN wishlist'[v] \cup {ereq'[x].ad}
                                                ELSE wishlist'[v] \ {ereq'[x].ad}
      BY <1>1 DEF ListsAhead
    <2>1. /\ \A x, y \in E!Toggling(v) : x = y
          /\ \A x \in E!Toggling(v) :
               /\ ereq[x].added <=> ereq[x].ad \notin wishlist[v]
               /\ ereq[x].list = IF ereq[x].added THEN wishlist[v] \cup {ereq[x].ad}
                                                  ELSE wishlist[v] \ {ereq[x].ad}
      BY DEF EInv, ListsAhead
    <2>2. CASE v = u
      <3>1. E!Toggling(v)' = {}
        BY <1>0, <1>8, <2>1, <2>2
      <3> QED BY <3>1
    <2>3. CASE v # u
      <3>1. /\ E!Toggling(v)' = E!Toggling(v) /\ wishlist'[v] = wishlist[v]
            /\ \A x \in E!Toggling(v) : ereq'[x] = ereq[x]
        BY <1>2, <1>5, <1>8, <1>9, <2>3 DEF E!Toggling
      <3> QED BY <2>1, <3>1
    <2> QED BY <2>2, <2>3
  <1>11. Odd'
    <2> SUFFICES ASSUME NEW v \in Customers \ eraced, NEW b \in Ads
                 PROVE  b \in wishlist'[v] <=> saves'[v][b] % 2 = 1
      BY <1>1 DEF Odd
    <2>1. b \in wishlist[v] <=> saves[v][b] % 2 = 1
      BY DEF EInv, Odd
    <2>0. ASSUME v = u
          PROVE  /\ ereq[r].added <=> a \notin wishlist[v]
                 /\ ereq[r].list = IF ereq[r].added THEN wishlist[v] \cup {a}
                                                    ELSE wishlist[v] \ {a}
                 /\ wishlist'[v] = ereq[r].list
      <3>1. r \in E!Toggling(v)
        BY <1>0, <2>0
      <3>2. wishlist'[v] = ereq[r].list
        BY <1>5, <2>0
      <3> QED BY <3>1, <3>2 DEF EInv, ListsAhead
    <2>2. CASE v = u /\ b = a
      <3>1. b \in wishlist'[v] <=> b \notin wishlist[v]
        BY <2>0, <2>2
      <3>2. saves[v][b] \in Nat /\ saves'[v][b] = saves[v][b] + 1
        BY <1>0, <1>3, <2>2, EngagementTypes
      <3> QED BY <2>1, <3>1, <3>2
    <2>3. CASE v = u /\ b # a
      <3>1. b \in wishlist'[v] <=> b \in wishlist[v]
        BY <2>0, <2>3
      <3> QED BY <1>3, <2>1, <2>3, <3>1
    <2>4. CASE v # u
      BY <1>3, <1>5, <2>1, <2>4
    <2> QED BY <2>2, <2>3, <2>4
  <1>12. Notices'
    <2> SUFFICES ASSUME NEW v \in Customers \ {Owner}, NEW b \in Ads
                 PROVE  NoticesOf(v, b)'
      BY <1>1 DEF EInv, Notices
    <2>0. /\ NoticesOf(v, b)
          /\ unread[v][b] \in Nat /\ read[v][b] \in Nat /\ additions[v][b] \in Nat
          /\ eaborts \in Nat /\ Cardinality(E!Telling(v, b)) \in Nat
      BY <1>0, EngagementTypes, FS_CardinalityType DEF EInv, Notices, NoticesOf
    <2>1. CASE v = u /\ b = a /\ telling
      <3>1. E!Telling(v, b)' = E!Telling(v, b) \cup {r} /\ r \notin E!Telling(v, b)
        BY <1>0, <1>2, <2>1 DEF E!Telling, Saving
      <3>2. IsFiniteSet(E!Telling(v, b)')
            /\ Cardinality(E!Telling(v, b)') = Cardinality(E!Telling(v, b)) + 1
        BY <2>0, <3>1, FS_AddElement DEF NoticesOf
      <3>3. additions'[v][b] = additions[v][b] + 1
        BY <1>4, <2>1 DEF more, telling
      <3> QED BY <1>1, <2>0, <3>2, <3>3 DEF NoticesOf
    <2>2. CASE ~(v = u /\ b = a /\ telling)
      <3>1. E!Telling(v, b)' = E!Telling(v, b)
        BY <1>0, <1>2, <2>2 DEF E!Telling, Saving
      <3>2. additions'[v][b] = additions[v][b]
        BY <1>4, <2>2 DEF more, telling
      <3> QED BY <1>1, <2>0, <3>1, <3>2 DEF NoticesOf
    <2> QED BY <2>1, <2>2
  <1>13. Viewers'
    BY <1>1 DEF EInv, Viewers
  <1> QED BY <1>6, <1>7, <1>10, <1>11, <1>12, <1>13 DEF EInv

\* A handler that ends without a save, and the notices of the slot that it leaves.
LEMMA EngagementFinish ==
    ASSUME EInv, NEW r \in Reqs, E!Finish(r),
           UNCHANGED <<wishlist, saves, eraced>>
    PROVE  /\ ereq' \in [Reqs -> E!Request]
           /\ Placed' /\ ListsAhead' /\ Odd'
           /\ \A u \in Customers, a \in Ads : E!Telling(u, a)' = E!Telling(u, a) \ {r}
  <1>1. E!Idle \in E!Request /\ E!Idle.at = "idle"
    BY DEF E!Idle, E!Request, E!Step
  <1>2. /\ ereq' \in [Reqs -> E!Request]
        /\ ereq'[r].at = "idle"
        /\ \A s \in Reqs \ {r} : ereq'[s] = ereq[s]
    BY <1>1, EngagementTypes DEF EInv, E!Finish
  <1>3. Placed'
    BY <1>2 DEF EInv, Placed, Saving, Noting
  <1>4. \A u \in Customers : E!Toggling(u)' = E!Toggling(u) \ {r}
    BY <1>2 DEF E!Toggling
  <1>5. ListsAhead'
    <2> SUFFICES ASSUME NEW v \in Customers \ eraced
                 PROVE  /\ \A x, y \in E!Toggling(v)' : x = y
                        /\ \A x \in E!Toggling(v)' :
                             /\ ereq'[x].added <=> ereq'[x].ad \notin wishlist[v]
                             /\ ereq'[x].list = IF ereq'[x].added
                                                THEN wishlist[v] \cup {ereq'[x].ad}
                                                ELSE wishlist[v] \ {ereq'[x].ad}
      BY DEF ListsAhead
    <2>1. /\ \A x, y \in E!Toggling(v) : x = y
          /\ \A x \in E!Toggling(v) :
               /\ ereq[x].added <=> ereq[x].ad \notin wishlist[v]
               /\ ereq[x].list = IF ereq[x].added THEN wishlist[v] \cup {ereq[x].ad}
                                                  ELSE wishlist[v] \ {ereq[x].ad}
      BY DEF EInv, ListsAhead
    <2>2. \A x \in E!Toggling(v)' : x \in E!Toggling(v) /\ ereq'[x] = ereq[x]
      BY <1>2, <1>4 DEF E!Toggling
    <2> QED BY <2>1, <2>2
  <1>6. Odd'
    BY DEF EInv, Odd
  <1>7. \A u \in Customers, a \in Ads : E!Telling(u, a)' = E!Telling(u, a) \ {r}
    BY <1>2 DEF E!Telling
  <1> QED BY <1>2, <1>3, <1>5, <1>6, <1>7

LEMMA NotifyInv ==
    ASSUME EInv, NEW r \in Reqs, E!Notify(r)
    PROVE  EInv'
  <1> DEFINE u == ereq[r].user
             a == ereq[r].ad
  <1>1. /\ unread' = [unread EXCEPT ![u][a] = unread[u][a] + 1]
        /\ E!Finish(r) /\ ereq[r].at = "notify"
        /\ UNCHANGED <<wishlist, read, views, viewHistory, toggles, eaborts, saves, additions,
                       eraced>>
    BY DEF E!Notify, E!counters
  <1>2. E!TypeOK /\ u \in Customers \ {Owner} /\ a \in Ads
    BY <1>1 DEF EInv, Placed, Noting
  <1>3. /\ ereq' \in [Reqs -> E!Request]
        /\ Placed' /\ ListsAhead' /\ Odd'
        /\ \A v \in Customers, b \in Ads : E!Telling(v, b)' = E!Telling(v, b) \ {r}
    BY <1>1, EngagementFinish
  <1>4. \A v \in Customers, b \in Ads : r \in E!Telling(v, b) <=> v = u /\ b = a
    BY <1>1 DEF E!Telling
  <1> HIDE DEF u, a
  <1>5. /\ unread' \in [Customers -> [Ads -> Nat]]
        /\ \A v \in Customers, b \in Ads :
             unread'[v][b] = IF v = u /\ b = a THEN unread[u][a] + 1 ELSE unread[v][b]
    <2>1. unread \in [Customers -> [Ads -> Nat]] /\ unread[u][a] + 1 \in Nat
      BY <1>2, EngagementTypes
    <2> QED BY <1>1, <1>2, <2>1, Entry
  <1>6. E!TypeOK'
    BY <1>1, <1>2, <1>3, <1>5 DEF E!TypeOK
  <1>7. ASSUME NEW v \in Customers \ {Owner}, NEW b \in Ads
        PROVE  NoticesOf(v, b)'
    <2>0. /\ NoticesOf(v, b)
          /\ unread[v][b] \in Nat /\ read[v][b] \in Nat /\ additions[v][b] \in Nat
          /\ eaborts \in Nat /\ Cardinality(E!Telling(v, b)) \in Nat
      BY <1>2, EngagementTypes, FS_CardinalityType DEF EInv, Notices, NoticesOf
    <2>1. CASE v = u /\ b = a
      <3>1. /\ IsFiniteSet(E!Telling(v, b)')
            /\ Cardinality(E!Telling(v, b)') = Cardinality(E!Telling(v, b)) - 1
        BY <1>3, <1>4, <2>0, <2>1, FS_RemoveElement DEF NoticesOf
      <3>2. unread'[v][b] = unread[v][b] + 1
        BY <1>5, <2>1
      <3> QED BY <1>1, <2>0, <3>1, <3>2 DEF NoticesOf
    <2>2. CASE ~(v = u /\ b = a)
      <3>1. E!Telling(v, b)' = E!Telling(v, b) \ {r} /\ r \notin E!Telling(v, b)
            /\ unread'[v][b] = unread[v][b]
        BY <1>3, <1>4, <1>5, <2>2
      <3>2. E!Telling(v, b)' = E!Telling(v, b)
        BY <3>1
      <3> QED BY <1>1, <2>0, <3>1, <3>2 DEF NoticesOf
    <2> QED BY <2>1, <2>2
  <1>8. Notices'
    <2>1. Owner \in Customers
      BY <1>2, EngagementTypes
    <2>2. \A b \in Ads : unread'[Owner][b] = 0 /\ read'[Owner][b] = 0
      BY <1>1, <1>2, <1>5, <2>1 DEF EInv, Notices
    <2> QED BY <1>7, <2>2 DEF Notices
  <1>9. Viewers'
    BY <1>1 DEF EInv, Viewers
  <1> QED BY <1>3, <1>6, <1>8, <1>9 DEF EInv

LEMMA EngagementAbortInv ==
    ASSUME EInv, NEW r \in Reqs, E!Abort(r)
    PROVE  EInv'
  <1>1. /\ E!Finish(r) /\ eaborts < MaxAborts /\ eaborts' = eaborts + 1
        /\ UNCHANGED <<wishlist, unread, read, views, viewHistory, toggles, saves, additions,
                       eraced>>
    BY DEF E!Abort, E!counters, E!notices
  <1>2. E!TypeOK
    BY DEF EInv
  <1>3. /\ ereq' \in [Reqs -> E!Request]
        /\ Placed' /\ ListsAhead' /\ Odd'
        /\ \A v \in Customers, b \in Ads : E!Telling(v, b)' = E!Telling(v, b) \ {r}
    BY <1>1, EngagementFinish
  <1>4. E!TypeOK'
    BY <1>1, <1>2, <1>3, EngagementTypes DEF E!TypeOK
  <1>5. ASSUME NEW v \in Customers \ {Owner}, NEW b \in Ads
        PROVE  NoticesOf(v, b)'
    <2>0. /\ NoticesOf(v, b)
          /\ unread[v][b] \in Nat /\ read[v][b] \in Nat /\ additions[v][b] \in Nat
          /\ eaborts \in Nat /\ Cardinality(E!Telling(v, b)) \in Nat
      BY <1>2, EngagementTypes, FS_CardinalityType DEF EInv, Notices, NoticesOf
    <2>1. E!Telling(v, b)' = E!Telling(v, b) \ {r}
      BY <1>3
    <2>2. /\ IsFiniteSet(E!Telling(v, b)')
          /\ Cardinality(E!Telling(v, b)') = IF r \in E!Telling(v, b)
                                             THEN Cardinality(E!Telling(v, b)) - 1
                                             ELSE Cardinality(E!Telling(v, b))
      BY <2>0, <2>1, FS_RemoveElement DEF NoticesOf
    <2> QED BY <1>1, <2>0, <2>2 DEF NoticesOf
  <1>6. Notices'
    BY <1>1, <1>5 DEF EInv, Notices
  <1>7. Viewers'
    BY <1>1 DEF EInv, Viewers
  <1> QED BY <1>3, <1>4, <1>6, <1>7 DEF EInv

\* Notices are read, by one or all: each only moves.
LEMMA ReadingInv ==
    ASSUME EInv,
           unread' \in [Customers -> [Ads -> Nat]], read' \in [Customers -> [Ads -> Nat]],
           \A v \in Customers, b \in Ads :
               unread'[v][b] + read'[v][b] = unread[v][b] + read[v][b],
           UNCHANGED <<wishlist, views, viewHistory, ereq, toggles, eaborts, saves, additions,
                       eraced>>
    PROVE  EInv'
  <1>1. E!TypeOK
    BY DEF EInv
  <1>2. E!TypeOK'
    BY <1>1 DEF E!TypeOK
  <1>3. Placed' /\ Odd' /\ Viewers'
    BY DEF EInv, Placed, Saving, Noting, Odd, Viewers
  <1>4. ListsAhead'
    BY ZenonT(60) DEF EInv, ListsAhead, E!Toggling
  <1>5. ASSUME NEW v \in Customers \ {Owner}, NEW b \in Ads
        PROVE  NoticesOf(v, b)'
    <2>1. E!Telling(v, b)' = E!Telling(v, b)
      BY DEF E!Telling
    <2>2. NoticesOf(v, b)
      BY DEF EInv, Notices
    <2>3. unread'[v][b] + read'[v][b] = unread[v][b] + read[v][b]
      OBVIOUS
    <2> QED BY <2>1, <2>2, <2>3 DEF NoticesOf
  <1>6. ASSUME NEW b \in Ads
        PROVE  unread'[Owner][b] = 0 /\ read'[Owner][b] = 0
    <2>1. Owner \in Customers /\ unread[Owner][b] = 0 /\ read[Owner][b] = 0
      BY <1>1, EngagementTypes DEF EInv, Notices
    <2>2. unread'[Owner][b] \in Nat /\ read'[Owner][b] \in Nat
          /\ unread'[Owner][b] + read'[Owner][b] = 0
      BY <2>1
    <2> QED BY <2>2
  <1> QED BY <1>2, <1>3, <1>4, <1>5, <1>6 DEF EInv, Notices

LEMMA MarkReadInv ==
    ASSUME EInv, NEW u \in Customers, NEW a \in Ads, E!markNotificationRead(u, a)
    PROVE  EInv'
  <1>0. /\ unread \in [Customers -> [Ads -> Nat]] /\ read \in [Customers -> [Ads -> Nat]]
        /\ unread[u][a] > 0
    BY EngagementTypes DEF EInv, E!markNotificationRead
  <1>1. unread[u][a] - 1 \in Nat /\ read[u][a] + 1 \in Nat
    BY <1>0
  <1>2. /\ unread' = [unread EXCEPT ![u][a] = unread[u][a] - 1]
        /\ read' = [read EXCEPT ![u][a] = read[u][a] + 1]
        /\ UNCHANGED <<wishlist, views, viewHistory, ereq, toggles, eaborts, saves, additions,
                       eraced>>
    BY DEF E!markNotificationRead, E!counters
  <1>3. /\ unread' \in [Customers -> [Ads -> Nat]]
        /\ \A v \in Customers, b \in Ads :
             unread'[v][b] = IF v = u /\ b = a THEN unread[u][a] - 1 ELSE unread[v][b]
    BY <1>0, <1>1, <1>2, Entry
  <1>4. /\ read' \in [Customers -> [Ads -> Nat]]
        /\ \A v \in Customers, b \in Ads :
             read'[v][b] = IF v = u /\ b = a THEN read[u][a] + 1 ELSE read[v][b]
    BY <1>0, <1>1, <1>2, Entry
  <1>5. \A v \in Customers, b \in Ads :
            unread'[v][b] + read'[v][b] = unread[v][b] + read[v][b]
    BY <1>0, <1>3, <1>4
  <1> QED BY <1>2, <1>3, <1>4, <1>5, ReadingInv

LEMMA MarkAllReadInv ==
    ASSUME EInv, E!markAllNotificationsRead
    PROVE  EInv'
  <1>0. unread \in [Customers -> [Ads -> Nat]] /\ read \in [Customers -> [Ads -> Nat]]
    BY EngagementTypes DEF EInv
  <1>1. /\ unread' = [u \in Customers |-> [a \in Ads |-> 0]]
        /\ read' = [u \in Customers |-> [a \in Ads |-> read[u][a] + unread[u][a]]]
        /\ UNCHANGED <<wishlist, views, viewHistory, ereq, toggles, eaborts, saves, additions,
                       eraced>>
    BY DEF E!markAllNotificationsRead, E!counters, E!Zero
  <1>2. /\ unread' \in [Customers -> [Ads -> Nat]] /\ read' \in [Customers -> [Ads -> Nat]]
        /\ \A v \in Customers, b \in Ads :
             unread'[v][b] + read'[v][b] = unread[v][b] + read[v][b]
    BY <1>0, <1>1
  <1> QED BY <1>1, <1>2, ReadingInv

\* Views: the count is never below what the history holds.
LEMMA ViewingInv ==
    ASSUME EInv, views' \in [Ads -> Nat], viewHistory' \in [Ads -> SUBSET Customers],
           Viewers',
           UNCHANGED <<wishlist, unread, read, ereq, toggles, eaborts, saves, additions, eraced>>
    PROVE  EInv'
  <1>1. E!TypeOK'
    BY DEF EInv, E!TypeOK
  <1>2. Placed' /\ Odd' /\ ListsAhead'
    BY DEF EInv, Placed, Saving, Noting, Odd, ListsAhead, E!Toggling
  <1>3. Notices'
    <2>1. \A u \in Customers \ {Owner}, a \in Ads : E!Telling(u, a)' = E!Telling(u, a)
      BY DEF E!Telling
    <2> QED BY <2>1, SameNotices DEF EInv
  <1> QED BY <1>1, <1>2, <1>3 DEF EInv

LEMMA ViewsInv ==
    ASSUME EInv,
           \/ \E a \in Viewed : E!handleAdGet(a) \/ \E u \in Customers : E!getAdDetails(u, a)
           \/ E!resyncViewCounts
    PROVE  EInv'
  <1>0. /\ views \in [Ads -> Nat] /\ viewHistory \in [Ads -> SUBSET Customers]
        /\ Viewed \subseteq Ads
        /\ \A a \in Ads : IsFiniteSet(viewHistory[a]) /\ Cardinality(viewHistory[a]) \in Nat
        /\ \A a \in Ads : views[a] >= Cardinality(viewHistory[a])
    BY EngagementTypes, FS_CardinalityType DEF EInv, Viewers
  <1>1. ASSUME NEW a \in Viewed, E!handleAdGet(a) PROVE EInv'
    <2>1. /\ views' = [views EXCEPT ![a] = views[a] + 1]
          /\ UNCHANGED <<wishlist, unread, read, viewHistory, ereq, toggles, eaborts, saves,
                         additions, eraced>>
      BY <1>1 DEF E!handleAdGet, E!incrementViewCount, E!notices
    <2>2. views' \in [Ads -> Nat]
          /\ \A b \in Ads : views'[b] = IF b = a THEN views[a] + 1 ELSE views[b]
      BY <1>0, <2>1
    <2>3. Viewers'
      BY <1>0, <2>1, <2>2 DEF Viewers
    <2> QED BY <1>0, <2>1, <2>2, <2>3, ViewingInv
  <1>2. ASSUME NEW a \in Viewed, NEW u \in Customers, E!getAdDetails(u, a) PROVE EInv'
    <2>1. /\ viewHistory' = [viewHistory EXCEPT ![a] = viewHistory[a] \cup {u}]
          /\ views' = [views EXCEPT ![a] = Cardinality(viewHistory'[a])]
          /\ UNCHANGED <<wishlist, unread, read, ereq, toggles, eaborts, saves, additions,
                         eraced>>
      BY <1>2, SameCardinality DEF E!getAdDetails, E!trackView, E!notices
    <2>2. /\ viewHistory' \in [Ads -> SUBSET Customers]
          /\ viewHistory'[a] = viewHistory[a] \cup {u}
          /\ \A b \in Ads \ {a} : viewHistory'[b] = viewHistory[b]
      BY <1>0, <2>1
    <2>3. IsFiniteSet(viewHistory'[a]) /\ Cardinality(viewHistory'[a]) \in Nat
      <3>1. IsFiniteSet(viewHistory[a])
        BY <1>0
      <3>2. IsFiniteSet(viewHistory[a] \cup {u})
        BY <3>1, FS_AddElement
      <3> QED BY <2>2, <3>2, FS_CardinalityType
    <2>4. /\ views' \in [Ads -> Nat]
          /\ views'[a] = Cardinality(viewHistory'[a])
          /\ \A b \in Ads \ {a} : views'[b] = views[b]
      BY <1>0, <2>1, <2>3
    <2>5. Viewers'
      <3> SUFFICES ASSUME NEW b \in Ads
                   PROVE  IsFiniteSet(viewHistory'[b]) /\ views'[b] >= Cardinality(viewHistory'[b])
        BY DEF Viewers
      <3>1. CASE b = a
        BY <2>3, <2>4, <3>1
      <3>2. CASE b # a
        BY <1>0, <2>2, <2>4, <3>2
      <3> QED BY <3>1, <3>2
    <2> QED BY <2>1, <2>2, <2>4, <2>5, ViewingInv
  <1>3. CASE E!resyncViewCounts
    <2>1. /\ views' = [a \in Ads |-> Cardinality(viewHistory[a])]
          /\ UNCHANGED <<wishlist, unread, read, viewHistory, ereq, toggles, eaborts, saves,
                         additions, eraced>>
      BY <1>3, SameCardinality DEF E!resyncViewCounts, E!notices
    <2>2. views' \in [Ads -> Nat] /\ Viewers'
      BY <1>0, <2>1 DEF Viewers
    <2> QED BY <1>0, <2>1, <2>2, ViewingInv
  <1> QED BY <1>1, <1>2, <1>3

LEMMA EngagementInit ==
    ASSUME E!Init
    PROVE  EInv
  <1>1. E!Idle \in E!Request /\ E!Idle.at = "idle"
    BY DEF E!Idle, E!Request, E!Step
  <1>2. /\ MaxToggles \in Nat /\ MaxAborts \in Nat /\ Owner \in Customers
    BY EngagementAssumptions DEF E!Assumptions
  <1>3. /\ \A r \in Reqs : ereq[r].at = "idle"
        /\ wishlist = [u \in Customers |-> {}]
        /\ \A u \in Customers, a \in Ads :
             unread[u][a] = 0 /\ read[u][a] = 0 /\ saves[u][a] = 0 /\ additions[u][a] = 0
        /\ \A a \in Ads : views[a] = 0 /\ viewHistory[a] = {}
        /\ eaborts = 0 /\ eraced = {}
    BY <1>1 DEF E!Init, E!Zero
  <1>4. E!TypeOK
    BY <1>1, <1>2 DEF E!Init, E!Zero, E!TypeOK
  <1>5. /\ \A u \in Customers : E!Toggling(u) = {}
        /\ \A u \in Customers, a \in Ads : E!Telling(u, a) = {}
    BY <1>3 DEF E!Toggling, E!Telling
  <1>6. Placed /\ ListsAhead
    BY <1>3, <1>5 DEF Placed, Saving, Noting, ListsAhead
  <1>7. Odd
    BY <1>3 DEF Odd
  <1>8. Notices
    <2>1. \A a \in Ads : unread[Owner][a] = 0 /\ read[Owner][a] = 0
      BY <1>2, <1>3
    <2>2. ASSUME NEW u \in Customers, NEW a \in Ads PROVE NoticesOf(u, a)
      <3>1. IsFiniteSet(E!Telling(u, a)) /\ Cardinality(E!Telling(u, a)) = 0
        BY <1>5, FS_EmptySet
      <3> QED BY <1>3, <3>1 DEF NoticesOf
    <2> QED BY <2>1, <2>2 DEF Notices
  <1>9. Viewers
    <2>1. IsFiniteSet({}) /\ Cardinality({}) = 0
      BY FS_EmptySet
    <2> QED BY <1>3, <2>1 DEF Viewers
  <1> QED BY <1>4, <1>6, <1>7, <1>8, <1>9 DEF EInv

LEMMA EngagementNext ==
    ASSUME EInv, [E!Next]_E!vars
    PROVE  EInv'
  <1>1. CASE UNCHANGED E!vars
    <2>1. UNCHANGED <<wishlist, unread, read, views, viewHistory, ereq, toggles, eaborts, saves,
                      additions, eraced>>
      BY <1>1 DEF E!vars
    <2>2. views \in [Ads -> Nat] /\ viewHistory \in [Ads -> SUBSET Customers] /\ Viewers'
      BY <2>1, EngagementTypes DEF EInv, Viewers
    <2> QED BY <2>1, <2>2, ViewingInv
  <1>2. ASSUME NEW r \in Reqs,
               \/ \E u \in Customers, a \in Ads : E!ToggleFind(r, u, a)
               \/ E!ToggleSave(r) \/ E!Notify(r) \/ E!Abort(r)
        PROVE  EInv'
    BY <1>2, ToggleFindInv, ToggleSaveInv, NotifyInv, EngagementAbortInv
  <1>3. ASSUME NEW u \in Customers, NEW a \in Ads, E!markNotificationRead(u, a) PROVE EInv'
    BY <1>3, MarkReadInv
  <1>4. CASE E!markAllNotificationsRead
    BY <1>4, MarkAllReadInv
  <1> QED BY <1>1, <1>2, <1>3, <1>4, ViewsInv DEF E!Next

LEMMA EngagementMeans ==
    ASSUME EInv
    PROVE  E!WishlistFollows /\ E!ViewsCover
  <1>1. ASSUME eraced = {}, NEW a \in Ads
        PROVE  E!getAdWishlistCount(a) = Cardinality({u \in Customers : saves[u][a] % 2 = 1})
    <2>1. {u \in Customers : a \in wishlist[u]} = {u \in Customers : saves[u][a] % 2 = 1}
      BY <1>1 DEF EInv, Odd
    <2> QED BY <2>1, SameCardinality DEF E!getAdWishlistCount
  <1>2. E!WishlistExact
    BY <1>1, SameCardinality DEF EInv, Odd, E!WishlistExact
  <1>3. E!NoticesFollow
    <2>1. \A a \in Ads : unread[Owner][a] + read[Owner][a] = 0
      BY DEF EInv, Notices
    <2> QED BY <2>1, SameCardinality DEF EInv, Notices, NoticesOf, E!NoticesFollow
  <1>4. E!ViewsCover
    BY SameCardinality DEF EInv, Viewers, E!ViewsCover
  <1> QED BY <1>2, <1>3, <1>4 DEF E!WishlistFollows

-----------------------------------------------------------------------------
(* Reports *)

Counting(a) == {r \in Reqs : rreq[r].at = "submit_count" /\ rreq[r].ad = a}
Disabling(a) == {r \in Reqs : rreq[r].at = "submit_disable" /\ rreq[r].ad = a}
Reviewing(a) == {r \in Reqs : rreq[r].at = "review_reports" /\ rreq[r].ad = a}

\* A handler under way is about an ad that there is, or was; nobody recounts.
Handled ==
    /\ \A r \in Reqs :
         /\ rreq[r].at # "resync_set"
         /\ rreq[r].at # "idle" => rreq[r].ad \in ReportedAds /\ ad[rreq[r].ad].status # "none"
         /\ rreq[r].at \in {"submit_check", "submit_create"} => rreq[r].who \in Users

Unreported(a) == ad[a].status = "none" => R!Reported(a) = {}

Queued(a) ==
    \A u \in Users : report[a][u] = "pending" /\ R!Stored(a) =>
        ad[a].review \/ Counting(a) # {} \/ Reviewing(a) # {}

\* Below the threshold no report is missing from the count but those about to be counted.
Counted(a) ==
    /\ IsFiniteSet(R!Reported(a)) /\ IsFiniteSet(Counting(a))
    /\ R!Stored(a) /\ ad[a].count < Threshold =>
         Cardinality(R!Reported(a)) <= ad[a].count + Cardinality(Counting(a))

Enough(a) == Cardinality(R!Reported(a)) >= Threshold

Disabled(a) ==
    ad[a].status = "active" /\ Enough(a) =>
        ad[a].cleared \/ Counting(a) # {} \/ Disabling(a) # {}

AdOK(a) == Unreported(a) /\ Queued(a) /\ Counted(a) /\ Disabled(a)

RInv == R!TypeOK /\ Handled /\ \A a \in ReportedAds : AdOK(a)

LEMMA ReportsTypes ==
    ASSUME R!TypeOK
    PROVE  /\ ad \in [ReportedAds -> R!Ad]
           /\ report \in [ReportedAds -> [Users -> R!ReportStatus]]
           /\ rreq \in [Reqs -> R!Request]
           /\ cleanup \in [at: {"idle", "find", "reports", "ads"}, found: SUBSET ReportedAds]
           /\ resyncs = 0 /\ raborts = 0
           /\ Threshold \in Nat \ {0} /\ EditStatus \subseteq R!Status
  BY ReportsAssumptions DEF R!TypeOK, R!Assumptions, R!Status

LEMMA ReportsTyped ==
    ASSUME ad \in [ReportedAds -> R!Ad],
           report \in [ReportedAds -> [Users -> R!ReportStatus]],
           rreq \in [Reqs -> R!Request],
           cleanup \in [at: {"idle", "find", "reports", "ads"}, found: SUBSET ReportedAds],
           resyncs = 0, raborts = 0
    PROVE  R!TypeOK
  BY DEF R!TypeOK

\* What another status makes of an ad.
LEMMA WithStatusIs ==
    ASSUME R!TypeOK, NEW a \in ReportedAds, NEW s \in R!Status,
           NEW by \in {"none", "date", "reports", "edit"}
    PROVE  LET d == R!WithStatus(a, s, by)
           IN  /\ d \in R!Ad
               /\ d.status = s /\ d.count = ad[a].count /\ d.review = ad[a].review
               /\ s = "active" => (d.cleared <=> Enough(a))
  <1>1. ad[a] \in R!Ad
    BY ReportsTypes
  <1>2. Enough(a) \in BOOLEAN /\ (Enough(a) <=> R!Cardinality(R!Reported(a)) >= Threshold)
    BY SameCardinality DEF Enough
  <1> DEFINE b == IF s # "expired" THEN "none" ELSE IF ad[a].status = s THEN ad[a].by ELSE by
             c == IF s = "active" THEN R!Cardinality(R!Reported(a)) >= Threshold
                  ELSE ad[a].cleared
  <1>3. b \in {"none", "date", "reports", "edit"} /\ c \in BOOLEAN
        /\ (s = "active" => (c <=> Enough(a)))
    BY <1>1, <1>2 DEF R!Ad
  <1>4. R!WithStatus(a, s, by) = [ad[a] EXCEPT !.status = s, !.by = b, !.cleared = c]
    BY <1>1 DEF R!WithStatus, R!Ad
  <1> HIDE DEF b, c
  <1> QED BY <1>1, <1>3, <1>4 DEF R!Ad

LEMMA EditedIs ==
    ASSUME R!TypeOK, NEW a \in ReportedAds, R!Stored(a), NEW s \in R!Status, NEW due \in BOOLEAN
    PROVE  LET d == R!Edited(a, s, due)
           IN  /\ d \in R!Ad
               /\ d.status = s /\ d.count = ad[a].count /\ d.review = ad[a].review
               /\ s = "active" => \/ d.cleared <=> Enough(a)
                                  \/ ad[a].status = "active" /\ d.cleared = ad[a].cleared
  <1>1. ad[a] \in R!Ad
    BY ReportsTypes
  <1>2. CASE s = ad[a].status
    <2>1. R!Edited(a, s, due) = [ad[a] EXCEPT !.due = due]
      BY <1>2 DEF R!Edited
    <2> QED BY <1>1, <1>2, <2>1 DEF R!Ad
  <1>3. CASE s # ad[a].status
    <2> DEFINE w == R!WithStatus(a, s, "edit")
    <2>1. R!Edited(a, s, due) = [w EXCEPT !.due = due]
      BY <1>3 DEF R!Edited
    <2>2. /\ w \in R!Ad
          /\ w.status = s /\ w.count = ad[a].count /\ w.review = ad[a].review
          /\ s = "active" => (w.cleared <=> Enough(a))
      BY WithStatusIs
    <2> HIDE DEF w
    <2> QED BY <2>1, <2>2 DEF R!Ad
  <1> QED BY <1>2, <1>3

\* A slot changes hands; so do the sets of handlers at work on an ad.
LEMMA ReportsSlot ==
    ASSUME R!TypeOK, NEW r \in Reqs, NEW q \in R!Request, rreq' = [rreq EXCEPT ![r] = q]
    PROVE  /\ rreq' \in [Reqs -> R!Request]
           /\ rreq'[r] = q
           /\ \A s \in Reqs \ {r} : rreq'[s] = rreq[s]
           /\ \A a \in ReportedAds :
                /\ Counting(a)' = IF q.at = "submit_count" /\ q.ad = a
                                  THEN Counting(a) \cup {r} ELSE Counting(a) \ {r}
                /\ Disabling(a)' = IF q.at = "submit_disable" /\ q.ad = a
                                   THEN Disabling(a) \cup {r} ELSE Disabling(a) \ {r}
                /\ Reviewing(a)' = IF q.at = "review_reports" /\ q.ad = a
                                   THEN Reviewing(a) \cup {r} ELSE Reviewing(a) \ {r}
  <1>1. /\ rreq' \in [Reqs -> R!Request]
        /\ rreq'[r] = q
        /\ \A s \in Reqs \ {r} : rreq'[s] = rreq[s]
    BY ReportsTypes
  <1> QED BY <1>1 DEF Counting, Disabling, Reviewing

LEMMA ReportsIdle == R!Idle \in R!Request /\ R!Idle.at = "idle"
  BY DEF R!Idle, R!Request, R!Step

\* The reports and those about to be counted stay as they are, and what becomes of the
\* ads leaves those listed that may be.
Harmless(a) ==
    \/ /\ ad'[a].status = ad[a].status /\ ad'[a].count = ad[a].count
       /\ ad'[a].review = ad[a].review /\ ad'[a].cleared = ad[a].cleared
    \/ ad'[a].status = "gone"
    \/ ad[a].status = "none" /\ ad'[a].status \in R!Status /\ ad'[a].count = ad[a].count
    \/ /\ R!Stored(a) /\ ad'[a].status \in R!Status /\ ad'[a].count = ad[a].count
       /\ ad[a].review => ad'[a].review \/ Reviewing(a)' # {}
       /\ ad'[a].status = "active" =>
            \/ Enough(a) => ad'[a].cleared
            \/ ad[a].status = "active" /\ ad'[a].cleared = ad[a].cleared

LEMMA AdsHarmless ==
    ASSUME RInv, report' = report,
           \A a \in ReportedAds : Harmless(a),
           \A a \in ReportedAds :
               /\ Counting(a)' = Counting(a) /\ Reviewing(a) \subseteq Reviewing(a)'
               /\ Disabling(a) \subseteq Disabling(a)' \/ ad'[a].status # "active"
    PROVE  \A a \in ReportedAds : AdOK(a)'
  <1> SUFFICES ASSUME NEW a \in ReportedAds PROVE AdOK(a)'
    OBVIOUS
  <1>1. /\ Counting(a)' = Counting(a) /\ Reviewing(a) \subseteq Reviewing(a)'
        /\ Disabling(a) \subseteq Disabling(a)' \/ ad'[a].status # "active"
        /\ R!Reported(a)' = R!Reported(a)
        /\ AdOK(a) /\ Harmless(a)
    BY DEF RInv, R!Reported
  <1>2. Enough(a)' = Enough(a)
    BY <1>1 DEF Enough
  <1>3. CASE /\ ad'[a].status = ad[a].status /\ ad'[a].count = ad[a].count
             /\ ad'[a].review = ad[a].review /\ ad'[a].cleared = ad[a].cleared
    BY <1>1, <1>2, <1>3 DEF AdOK, Unreported, Queued, Counted, Disabled, R!Stored
  <1>4. CASE ad'[a].status = "gone"
    BY <1>1, <1>4 DEF AdOK, Unreported, Queued, Counted, Disabled, R!Stored, R!Status
  <1>5. CASE ad[a].status = "none" /\ ad'[a].status \in R!Status /\ ad'[a].count = ad[a].count
    <2>1. R!Reported(a) = {} /\ Cardinality(R!Reported(a)) = 0
      BY <1>1, <1>5, FS_EmptySet DEF AdOK, Unreported
    <2>2. \A u \in Users : report[a][u] = "none"
      BY <2>1 DEF R!Reported
    <2>3. /\ Threshold \in Nat \ {0} /\ ad[a].count \in Nat
          /\ Cardinality(Counting(a)) \in Nat
      BY <1>1, ReportsTypes, FS_CardinalityType DEF RInv, R!Ad, AdOK, Counted
    <2> QED BY <1>1, <1>5, <2>1, <2>2, <2>3
            DEF AdOK, Unreported, Queued, Counted, Disabled, Enough, R!Status
  <1>6. CASE /\ R!Stored(a) /\ ad'[a].status \in R!Status /\ ad'[a].count = ad[a].count
             /\ ad[a].review => ad'[a].review \/ Reviewing(a)' # {}
             /\ ad'[a].status = "active" =>
                  \/ Enough(a) => ad'[a].cleared
                  \/ ad[a].status = "active" /\ ad'[a].cleared = ad[a].cleared
    <2>1. Unreported(a)'
      BY <1>6 DEF Unreported, R!Status
    <2>2. Queued(a)'
      BY <1>1, <1>6 DEF AdOK, Queued
    <2>3. Counted(a)'
      BY <1>1, <1>6 DEF AdOK, Counted
    <2>4. Disabled(a)'
      BY <1>1, <1>2, <1>6 DEF AdOK, Disabled
    <2> QED BY <2>1, <2>2, <2>3, <2>4 DEF AdOK
  <1> QED BY <1>1, <1>3, <1>4, <1>5, <1>6 DEF Harmless

\* An ad that there is or was does not become one that there was not.
Lasting == \A a \in ReportedAds : ad[a].status # "none" => ad'[a].status # "none"

LEMMA HandledSlot ==
    ASSUME R!TypeOK, Handled, Lasting, NEW r \in Reqs, NEW q \in R!Request,
           rreq' = [rreq EXCEPT ![r] = q],
           q.at # "resync_set",
           q.at # "idle" => q.ad \in ReportedAds /\ ad'[q.ad].status # "none",
           q.at \in {"submit_check", "submit_create"} => q.who \in Users
    PROVE  Handled'
  <1>1. rreq'[r] = q /\ \A s \in Reqs \ {r} : rreq'[s] = rreq[s]
    BY ReportsSlot
  <1> SUFFICES ASSUME NEW s \in Reqs
               PROVE  /\ rreq'[s].at # "resync_set"
                      /\ rreq'[s].at # "idle" =>
                           rreq'[s].ad \in ReportedAds /\ ad'[rreq'[s].ad].status # "none"
                      /\ rreq'[s].at \in {"submit_check", "submit_create"} =>
                           rreq'[s].who \in Users
    BY DEF Handled
  <1>2. CASE s = r
    BY <1>1, <1>2
  <1>3. CASE s # r
    BY <1>1, <1>3 DEF Handled, Lasting
  <1> QED BY <1>2, <1>3

\* Ads change, and nothing else that matters.
LEMMA AdsOnlyInv ==
    ASSUME RInv, ad' \in [ReportedAds -> R!Ad], \A a \in ReportedAds : Harmless(a),
           cleanup' \in [at: {"idle", "find", "reports", "ads"}, found: SUBSET ReportedAds],
           UNCHANGED <<report, rreq, resyncs, raborts>>
    PROVE  RInv'
  <1>1. R!TypeOK'
    BY DEF RInv, R!TypeOK
  <1>2. Handled'
    BY DEF RInv, Handled, Harmless, R!Status
  <1>3. \A a \in ReportedAds :
            /\ Counting(a)' = Counting(a) /\ Reviewing(a)' = Reviewing(a)
            /\ Disabling(a)' = Disabling(a)
    BY DEF Counting, Reviewing, Disabling
  <1>4. \A a \in ReportedAds : AdOK(a)'
    BY <1>3, AdsHarmless
  <1> QED BY <1>1, <1>2, <1>4 DEF RInv

LEMMA OneAdInv ==
    ASSUME RInv, NEW a \in ReportedAds, NEW d \in R!Ad, ad' = [ad EXCEPT ![a] = d], Harmless(a),
           UNCHANGED <<report, rreq, cleanup, resyncs, raborts>>
    PROVE  RInv'
  <1>1. /\ ad' \in [ReportedAds -> R!Ad]
        /\ \A b \in ReportedAds : Harmless(b)
    BY ReportsTypes DEF RInv, Harmless
  <1> QED BY <1>1, ReportsTypes, AdsOnlyInv DEF RInv

LEMMA AdStepsInv ==
    ASSUME RInv, NEW a \in ReportedAds,
           \/ R!CreateAd(a) \/ R!DeleteAd(a) \/ R!AdminDeleteAd(a) \/ R!ComeDue(a)
           \/ R!DayPasses(a)
           \/ \E s \in EditStatus \cup {ad[a].status}, due \in {FALSE, ad[a].due} :
                R!AdminUpdateAd(a, s, due)
    PROVE  RInv'
  <1>0. R!TypeOK /\ ad[a] \in R!Ad /\ ad \in [ReportedAds -> R!Ad]
        /\ EditStatus \subseteq R!Status
    BY ReportsTypes DEF RInv
  <1>1. CASE R!CreateAd(a)
    <2> DEFINE d == [ad[a] EXCEPT !.status = "active"]
    <2>1. /\ ad' = [ad EXCEPT ![a] = d] /\ ad[a].status = "none"
          /\ UNCHANGED <<report, rreq, cleanup, resyncs, raborts>>
      BY <1>1 DEF R!CreateAd
    <2>2. d \in R!Ad /\ d.status = "active" /\ d.count = ad[a].count
      BY <1>0 DEF R!Ad, R!Status
    <2> HIDE DEF d
    <2>3. ad'[a] = d
      BY <1>0, <2>1
    <2>4. Harmless(a)
      BY <2>1, <2>2, <2>3 DEF Harmless, R!Status
    <2> QED BY <2>1, <2>2, <2>4, OneAdInv
  <1>2. CASE R!DeleteAd(a)
    <2> DEFINE d == R!WithStatus(a, "deleted", "none")
    <2>1. /\ ad' = [ad EXCEPT ![a] = d] /\ R!Stored(a)
          /\ UNCHANGED <<report, rreq, cleanup, resyncs, raborts>>
      BY <1>2 DEF R!DeleteAd
    <2>2. d \in R!Ad /\ d.status = "deleted" /\ d.count = ad[a].count /\ d.review = ad[a].review
      BY <1>0, WithStatusIs DEF R!Status
    <2> HIDE DEF d
    <2>3. ad'[a] = d
      BY <1>0, <2>1
    <2>4. Harmless(a)
      BY <2>1, <2>2, <2>3 DEF Harmless, R!Status
    <2> QED BY <2>1, <2>2, <2>4, OneAdInv
  <1>3. CASE R!AdminDeleteAd(a)
    <2> DEFINE d == [R!NoAd EXCEPT !.status = "gone"]
    <2>1. /\ ad' = [ad EXCEPT ![a] = d]
          /\ UNCHANGED <<report, rreq, cleanup, resyncs, raborts>>
      BY <1>3 DEF R!AdminDeleteAd
    <2>2. d \in R!Ad /\ d.status = "gone"
      <3>1. R!NoAd \in R!Ad
        BY <1>0, ReportsTypes DEF R!Ad, R!NoAd, R!When
      <3> QED BY <3>1 DEF R!Ad
    <2> HIDE DEF d
    <2>3. ad'[a] = d
      BY <1>0, <2>1
    <2>4. Harmless(a)
      BY <2>2, <2>3 DEF Harmless
    <2> QED BY <2>1, <2>2, <2>4, OneAdInv
  <1>4. CASE R!ComeDue(a) \/ R!DayPasses(a)
    <2>1. PICK d \in R!Ad : /\ ad' = [ad EXCEPT ![a] = d]
                            /\ d.status = ad[a].status /\ d.count = ad[a].count
                            /\ d.review = ad[a].review /\ d.cleared = ad[a].cleared
      <3>1. CASE R!ComeDue(a)
        <4> DEFINE d == [ad[a] EXCEPT !.due = TRUE]
        <4>1. d \in R!Ad /\ d.status = ad[a].status /\ d.count = ad[a].count
              /\ d.review = ad[a].review /\ d.cleared = ad[a].cleared
          BY <1>0 DEF R!Ad
        <4>2. ad' = [ad EXCEPT ![a] = d]
          BY <3>1 DEF R!ComeDue
        <4> QED BY <4>1, <4>2
      <3>2. CASE R!DayPasses(a)
        <4> DEFINE d == [ad[a] EXCEPT !.expiredAt = "old"]
        <4>1. d \in R!Ad /\ d.status = ad[a].status /\ d.count = ad[a].count
              /\ d.review = ad[a].review /\ d.cleared = ad[a].cleared
          BY <1>0 DEF R!Ad, R!When
        <4>2. ad' = [ad EXCEPT ![a] = d]
          BY <3>2 DEF R!DayPasses
        <4> QED BY <4>1, <4>2
      <3> QED BY <1>4, <3>1, <3>2
    <2>2. UNCHANGED <<report, rreq, cleanup, resyncs, raborts>>
      BY <1>4 DEF R!ComeDue, R!DayPasses
    <2>3. ad'[a] = d
      BY <1>0, <2>1
    <2>4. Harmless(a)
      BY <2>1, <2>3 DEF Harmless
    <2> QED BY <2>1, <2>2, <2>4, OneAdInv
  <1>5. ASSUME NEW s \in EditStatus \cup {ad[a].status}, NEW due \in {FALSE, ad[a].due},
               R!AdminUpdateAd(a, s, due)
        PROVE  RInv'
    <2> DEFINE d == R!Edited(a, s, due)
    <2>1. /\ ad' = [ad EXCEPT ![a] = d] /\ R!Stored(a)
          /\ UNCHANGED <<report, rreq, cleanup, resyncs, raborts>>
      BY <1>5 DEF R!AdminUpdateAd
    <2>2. s \in R!Status /\ due \in BOOLEAN
      BY <1>0, <2>1 DEF R!Stored, R!Ad
    <2>3. /\ d \in R!Ad
          /\ d.status = s /\ d.count = ad[a].count /\ d.review = ad[a].review
          /\ s = "active" => \/ d.cleared <=> Enough(a)
                             \/ ad[a].status = "active" /\ d.cleared = ad[a].cleared
      BY <1>0, <2>1, <2>2, EditedIs
    <2> HIDE DEF d
    <2>4. ad'[a] = d
      BY <1>0, <2>1
    <2>5. Harmless(a)
      BY <2>1, <2>2, <2>3, <2>4 DEF Harmless
    <2> QED BY <2>1, <2>3, <2>5, OneAdInv
  <1> QED BY <1>1, <1>2, <1>3, <1>4, <1>5

\* Reports are decided on, reopened or removed: none becomes pending.
LEMMA ReportsCalm ==
    ASSUME RInv, ad' = ad,
           \A a \in ReportedAds :
               /\ R!Reported(a)' = R!Reported(a) \/ R!Reported(a)' = {}
               /\ Counting(a)' = Counting(a) /\ Disabling(a)' = Disabling(a)
               /\ \A u \in Users : report'[a][u] = "pending" =>
                    report[a][u] = "pending" /\ Reviewing(a) \subseteq Reviewing(a)'
    PROVE  \A a \in ReportedAds : AdOK(a)'
  <1> SUFFICES ASSUME NEW a \in ReportedAds PROVE AdOK(a)'
    OBVIOUS
  <1>1. /\ AdOK(a)
        /\ R!Reported(a)' = R!Reported(a) \/ R!Reported(a)' = {}
        /\ Counting(a)' = Counting(a) /\ Disabling(a)' = Disabling(a)
        /\ ad'[a] = ad[a]
    BY DEF RInv
  <1>2. /\ Cardinality({}) = 0 /\ IsFiniteSet({})
        /\ Threshold \in Nat \ {0} /\ ad[a].count \in Nat
        /\ Cardinality(Counting(a)) \in Nat
    BY <1>1, FS_EmptySet, FS_CardinalityType, ReportsTypes DEF RInv, R!Ad, AdOK, Counted
  <1>3. Unreported(a)'
    BY <1>1 DEF AdOK, Unreported
  <1>4. Queued(a)'
    <2> SUFFICES ASSUME NEW u \in Users, report'[a][u] = "pending", R!Stored(a)
                 PROVE  ad[a].review \/ Counting(a) # {} \/ Reviewing(a)' # {}
      BY <1>1 DEF Queued, R!Stored
    <2>1. report[a][u] = "pending" /\ Reviewing(a) \subseteq Reviewing(a)'
      OBVIOUS
    <2> QED BY <1>1, <2>1 DEF AdOK, Queued
  <1>5. Counted(a)'
    BY <1>1, <1>2 DEF AdOK, Counted, R!Stored
  <1>6. Disabled(a)'
    <2>1. CASE R!Reported(a)' = R!Reported(a)
      BY <1>1, <2>1 DEF AdOK, Disabled, Enough
    <2>2. CASE R!Reported(a)' = {}
      BY <1>1, <1>2, <2>2 DEF Disabled, Enough
    <2> QED BY <1>1, <2>1, <2>2
  <1> QED BY <1>3, <1>4, <1>5, <1>6 DEF AdOK

LEMMA UpdateReportInv ==
    ASSUME RInv, NEW a \in ReportedAds, NEW u \in Users, NEW s \in {"reopened", "decided"},
           R!UpdateReport(a, u, s) \/ R!MerchantUpdateReport(a, u, s)
    PROVE  RInv'
  <1>1. /\ report[a][u] # "none" /\ report' = [report EXCEPT ![a][u] = s]
        /\ UNCHANGED <<ad, rreq, cleanup, resyncs, raborts>>
    BY DEF R!UpdateReport, R!MerchantUpdateReport
  <1>2. R!TypeOK /\ report \in [ReportedAds -> [Users -> R!ReportStatus]]
    BY ReportsTypes DEF RInv
  <1>3. /\ report' \in [ReportedAds -> [Users -> R!ReportStatus]]
        /\ \A b \in ReportedAds, v \in Users :
             report'[b][v] = IF b = a /\ v = u THEN s ELSE report[b][v]
    BY <1>1, <1>2 DEF R!ReportStatus
  <1>4. R!TypeOK'
    BY <1>1, <1>2, <1>3 DEF R!TypeOK
  <1>5. Handled'
    BY <1>1 DEF RInv, Handled
  <1>6. \A b \in ReportedAds :
            /\ R!Reported(b)' = R!Reported(b)
            /\ Counting(b)' = Counting(b) /\ Disabling(b)' = Disabling(b)
            /\ Reviewing(b)' = Reviewing(b)
    BY <1>1, <1>3 DEF R!Reported, Counting, Disabling, Reviewing
  <1>7. \A b \in ReportedAds : AdOK(b)'
    BY <1>1, <1>3, <1>6, ReportsCalm
  <1> QED BY <1>4, <1>5, <1>7 DEF RInv

LEMMA CleanupInv ==
    ASSUME RInv, R!Cleanup
    PROVE  RInv'
  <1>0. /\ R!TypeOK /\ ad \in [ReportedAds -> R!Ad]
        /\ cleanup \in [at: {"idle", "find", "reports", "ads"}, found: SUBSET ReportedAds]
    BY ReportsTypes DEF RInv
  <1>1. CASE R!Deactivate
    <2> DEFINE w(a) == R!WithStatus(a, "expired", "date")
               d(a) == [w(a) EXCEPT !.expiredAt = "recent"]
    <2>1. /\ ad' = [a \in ReportedAds |->
                      IF ad[a].status = "active" /\ ad[a].due THEN d(a) ELSE ad[a]]
          /\ cleanup' = [cleanup EXCEPT !.at = "find"]
          /\ UNCHANGED <<report, rreq, resyncs, raborts>>
      BY <1>1 DEF R!Deactivate
    <2>2. ASSUME NEW a \in ReportedAds
          PROVE  /\ d(a) \in R!Ad /\ d(a).status = "expired" /\ d(a).count = ad[a].count
                 /\ d(a).review = ad[a].review
      <3>1. /\ w(a) \in R!Ad /\ w(a).status = "expired" /\ w(a).count = ad[a].count
            /\ w(a).review = ad[a].review
        BY <1>0, WithStatusIs DEF R!Status
      <3> HIDE DEF w
      <3> QED BY <3>1 DEF R!Ad, R!When
    <2> HIDE DEF d
    <2>3. ad' \in [ReportedAds -> R!Ad]
      BY <1>0, <2>1, <2>2
    <2>4. ASSUME NEW a \in ReportedAds PROVE Harmless(a)
      <3>1. CASE ad[a].status = "active" /\ ad[a].due
        BY <2>1, <2>2, <3>1 DEF Harmless, R!Stored, R!Status
      <3>2. CASE ~(ad[a].status = "active" /\ ad[a].due)
        BY <2>1, <3>2 DEF Harmless
      <3> QED BY <3>1, <3>2
    <2>5. cleanup' \in [at: {"idle", "find", "reports", "ads"}, found: SUBSET ReportedAds]
      BY <1>0, <2>1
    <2> QED BY <2>1, <2>3, <2>4, <2>5, AdsOnlyInv
  <1>2. CASE R!FindPastGrace
    <2>1. cleanup' \in [at: {"idle", "find", "reports", "ads"}, found: SUBSET ReportedAds]
      BY <1>2 DEF R!FindPastGrace
    <2> QED BY <1>0, <1>2, <2>1, AdsOnlyInv DEF R!FindPastGrace, Harmless
  <1>3. CASE R!DeleteReports
    <2>1. /\ report' = [a \in ReportedAds |-> IF a \in cleanup.found
                                              THEN [u \in Users |-> "none"] ELSE report[a]]
          /\ cleanup' = [cleanup EXCEPT !.at = "ads"]
          /\ UNCHANGED <<ad, rreq, resyncs, raborts>>
      BY <1>3 DEF R!DeleteReports
    <2>2. /\ report' \in [ReportedAds -> [Users -> R!ReportStatus]]
          /\ cleanup' \in [at: {"idle", "find", "reports", "ads"}, found: SUBSET ReportedAds]
      BY <1>0, <2>1, ReportsTypes DEF R!ReportStatus
    <2>3. R!TypeOK'
      BY <1>0, <2>1, <2>2 DEF R!TypeOK
    <2>4. Handled'
      BY <2>1 DEF RInv, Handled
    <2>5. \A b \in ReportedAds :
              /\ Counting(b)' = Counting(b) /\ Disabling(b)' = Disabling(b)
              /\ Reviewing(b)' = Reviewing(b)
      BY <2>1 DEF Counting, Disabling, Reviewing
    <2>6. \A b \in ReportedAds :
              /\ R!Reported(b)' = R!Reported(b) \/ R!Reported(b)' = {}
              /\ \A u \in Users : report'[b][u] = "pending" => report[b][u] = "pending"
      BY <2>1 DEF R!Reported
    <2>7. \A b \in ReportedAds : AdOK(b)'
      BY <2>1, <2>5, <2>6, ReportsCalm
    <2> QED BY <2>3, <2>4, <2>7 DEF RInv
  <1>4. CASE R!DeleteAds
    <2> DEFINE d == [R!NoAd EXCEPT !.status = "gone"]
    <2>1. /\ ad' = [a \in ReportedAds |-> IF R!PastGrace(a) THEN d ELSE ad[a]]
          /\ cleanup' = [at |-> "idle", found |-> {}]
          /\ UNCHANGED <<report, rreq, resyncs, raborts>>
      BY <1>4 DEF R!DeleteAds
    <2>2. d \in R!Ad /\ d.status = "gone"
      <3>1. R!NoAd \in R!Ad
        BY <1>0, ReportsTypes DEF R!Ad, R!NoAd, R!When
      <3> QED BY <3>1 DEF R!Ad
    <2> HIDE DEF d
    <2>3. ad' \in [ReportedAds -> R!Ad] /\ \A a \in ReportedAds : Harmless(a)
      BY <1>0, <2>1, <2>2 DEF Harmless
    <2>4. cleanup' \in [at: {"idle", "find", "reports", "ads"}, found: SUBSET ReportedAds]
      BY <2>1
    <2> QED BY <2>1, <2>3, <2>4, AdsOnlyInv
  <1> QED BY <1>1, <1>2, <1>3, <1>4 DEF R!Cleanup

\* A handler begins, or looks, or ends, with neither a report nor an ad changed.
LEMMA QuietSlotInv ==
    ASSUME RInv, NEW r \in Reqs, NEW q \in R!Request, rreq' = [rreq EXCEPT ![r] = q],
           rreq[r].at \notin {"submit_count", "submit_disable", "review_reports"},
           q.at \notin {"submit_count", "submit_disable", "review_reports", "resync_set"},
           q.at # "idle" => q.ad \in ReportedAds /\ ad[q.ad].status # "none",
           q.at \in {"submit_check", "submit_create"} => q.who \in Users,
           UNCHANGED <<ad, report, cleanup, resyncs, raborts>>
    PROVE  RInv'
  <1>0. R!TypeOK /\ Handled
    BY DEF RInv
  <1>1. /\ rreq' \in [Reqs -> R!Request]
        /\ \A a \in ReportedAds :
             /\ Counting(a)' = Counting(a) \ {r}
             /\ Disabling(a)' = Disabling(a) \ {r}
             /\ Reviewing(a)' = Reviewing(a) \ {r}
    BY <1>0, ReportsSlot
  <1>2. \A a \in ReportedAds :
            r \notin Counting(a) /\ r \notin Disabling(a) /\ r \notin Reviewing(a)
    BY DEF Counting, Disabling, Reviewing
  <1>3. R!TypeOK'
    BY <1>0, <1>1 DEF R!TypeOK
  <1>4. Handled'
    BY <1>0, HandledSlot DEF Lasting
  <1>5. \A a \in ReportedAds :
            Counting(a)' = Counting(a) /\ Disabling(a)' = Disabling(a) /\ Reviewing(a)' = Reviewing(a)
    BY <1>1, <1>2
  <1>6. \A a \in ReportedAds : AdOK(a)'
    BY <1>5, AdsHarmless DEF Harmless
  <1> QED BY <1>3, <1>4, <1>6 DEF RInv

LEMMA BeginsInv ==
    ASSUME RInv, NEW r \in Reqs, NEW a \in ReportedAds, R!Free(r),
           R!UpdateAd(r, a) \/ \E u \in Users : R!Submit(r, a, u)
    PROVE  RInv'
  <1>0. ad[a].status # "none" /\ rreq[r].at = "idle"
    BY DEF R!UpdateAd, R!Submit, R!Stored, R!Status, R!Free
  <1>1. CASE R!UpdateAd(r, a)
    <2> DEFINE q == [R!Idle EXCEPT !.at = "edit_save", !.ad = a]
    <2>1. rreq' = [rreq EXCEPT ![r] = q] /\ UNCHANGED <<ad, report, cleanup, resyncs, raborts>>
      BY <1>1 DEF R!UpdateAd, R!Begin
    <2>2. q \in R!Request /\ q.at = "edit_save" /\ q.ad = a
      BY DEF R!Idle, R!Request, R!Step
    <2> HIDE DEF q
    <2> QED BY <1>0, <2>1, <2>2, QuietSlotInv
  <1>2. ASSUME NEW u \in Users, R!Submit(r, a, u) PROVE RInv'
    <2> DEFINE q == [R!Idle EXCEPT !.at = "submit_check", !.ad = a, !.who = u]
    <2>1. rreq' = [rreq EXCEPT ![r] = q] /\ UNCHANGED <<ad, report, cleanup, resyncs, raborts>>
      BY <1>2 DEF R!Submit, R!Begin
    <2>2. q \in R!Request /\ q.at = "submit_check" /\ q.ad = a /\ q.who = u
      BY DEF R!Idle, R!Request, R!Step
    <2> HIDE DEF q
    <2> QED BY <1>0, <2>1, <2>2, QuietSlotInv
  <1> QED BY <1>1, <1>2

LEMMA SubmitCheckInv ==
    ASSUME RInv, NEW r \in Reqs, R!SubmitCheck(r)
    PROVE  RInv'
  <1>0. /\ rreq[r] \in R!Request /\ rreq[r].at = "submit_check"
        /\ rreq[r].ad \in ReportedAds /\ ad[rreq[r].ad].status # "none" /\ rreq[r].who \in Users
        /\ UNCHANGED <<ad, report, cleanup, resyncs, raborts>>
    BY ReportsTypes DEF RInv, Handled, R!SubmitCheck
  <1>1. CASE report[rreq[r].ad][rreq[r].who] = "none"
    <2> DEFINE q == [rreq[r] EXCEPT !.at = "submit_create"]
    <2>1. rreq' = [rreq EXCEPT ![r] = q]
      BY <1>1 DEF R!SubmitCheck
    <2>2. /\ q \in R!Request /\ q.at = "submit_create" /\ q.ad = rreq[r].ad
          /\ q.who = rreq[r].who
      BY <1>0 DEF R!Request, R!Step
    <2> HIDE DEF q
    <2> QED BY <1>0, <2>1, <2>2, QuietSlotInv
  <1>2. CASE report[rreq[r].ad][rreq[r].who] # "none"
    <2>1. rreq' = [rreq EXCEPT ![r] = R!Idle]
      BY <1>2 DEF R!SubmitCheck, R!Finish
    <2> QED BY <1>0, <2>1, ReportsIdle, QuietSlotInv
  <1> QED BY <1>1, <1>2

\* A report is made, and its handler is to count it.
LEMMA SubmitCreateInv ==
    ASSUME RInv, NEW r \in Reqs, R!SubmitCreate(r)
    PROVE  RInv'
  <1> DEFINE a == rreq[r].ad
             u == rreq[r].who
             q == [rreq[r] EXCEPT !.at = "submit_count", !.who = None]
  <1>0. /\ R!TypeOK /\ Handled /\ rreq[r] \in R!Request /\ rreq[r].at = "submit_create"
        /\ a \in ReportedAds /\ ad[a].status # "none" /\ u \in Users
        /\ UNCHANGED <<ad, cleanup, resyncs, raborts>>
        /\ report \in [ReportedAds -> [Users -> R!ReportStatus]]
    BY ReportsTypes DEF RInv, Handled, R!SubmitCreate
  <1>1. CASE report[a][u] # "none"
    <2>1. rreq' = [rreq EXCEPT ![r] = R!Idle] /\ report' = report
      BY <1>1 DEF R!SubmitCreate, R!Finish
    <2> QED BY <1>0, <2>1, ReportsIdle, QuietSlotInv
  <1>2. CASE report[a][u] = "none"
    <2>1. /\ report' = [report EXCEPT ![a][u] = "pending"]
          /\ rreq' = [rreq EXCEPT ![r] = q]
      BY <1>2 DEF R!SubmitCreate
    <2>2. q \in R!Request /\ q.at = "submit_count" /\ q.ad = a
      BY <1>0 DEF R!Request, R!Step
    <2> HIDE DEF q, a, u
    <2>3. /\ rreq' \in [Reqs -> R!Request]
          /\ \A b \in ReportedAds :
               /\ Counting(b)' = IF b = a THEN Counting(b) \cup {r} ELSE Counting(b) \ {r}
               /\ Disabling(b)' = Disabling(b) \ {r}
               /\ Reviewing(b)' = Reviewing(b) \ {r}
      BY <1>0, <2>1, <2>2, ReportsSlot, ZenonT(60)
    <2>4. \A b \in ReportedAds :
              r \notin Counting(b) /\ r \notin Disabling(b) /\ r \notin Reviewing(b)
      BY <1>0 DEF Counting, Disabling, Reviewing
    <2>5. /\ report' \in [ReportedAds -> [Users -> R!ReportStatus]]
          /\ \A b \in ReportedAds, v \in Users :
               report'[b][v] = IF b = a /\ v = u THEN "pending" ELSE report[b][v]
      BY <1>0, <2>1 DEF R!ReportStatus
    <2>6. R!TypeOK'
      BY <1>0, <2>3, <2>5 DEF R!TypeOK
    <2>7. Handled'
      BY <1>0, <2>1, <2>2, HandledSlot DEF Lasting
    <2>8. ASSUME NEW b \in ReportedAds PROVE AdOK(b)'
      <3>0. AdOK(b)
        BY DEF RInv
      <3>1. CASE b = a
        <4>1. /\ R!Reported(b)' = R!Reported(b) \cup {u} /\ u \notin R!Reported(b)
              /\ Counting(b)' = Counting(b) \cup {r} /\ r \notin Counting(b)
          BY <1>0, <1>2, <2>3, <2>4, <2>5, <3>1 DEF R!Reported
        <4>2. /\ IsFiniteSet(R!Reported(b)') /\ IsFiniteSet(Counting(b)')
              /\ Cardinality(R!Reported(b)') = Cardinality(R!Reported(b)) + 1
              /\ Cardinality(Counting(b)') = Cardinality(Counting(b)) + 1
              /\ Cardinality(R!Reported(b)) \in Nat /\ Cardinality(Counting(b)) \in Nat
          BY <3>0, <4>1, FS_AddElement, FS_CardinalityType DEF AdOK, Counted
        <4>3. ad[b].count \in Nat /\ Threshold \in Nat
          BY <1>0, ReportsTypes DEF R!Ad
        <4>4. Counted(b)'
          BY <1>0, <3>0, <4>2, <4>3 DEF AdOK, Counted, R!Stored
        <4>5. Unreported(b)'
          BY <1>0, <3>1 DEF Unreported
        <4>6. Queued(b)' /\ Disabled(b)'
          BY <4>1 DEF Queued, Disabled
        <4> QED BY <4>4, <4>5, <4>6 DEF AdOK
      <3>2. CASE b # a
        <4>1. /\ R!Reported(b)' = R!Reported(b) /\ \A v \in Users : report'[b][v] = report[b][v]
              /\ Counting(b)' = Counting(b) /\ Disabling(b)' = Disabling(b)
              /\ Reviewing(b)' = Reviewing(b)
          <5>1. \A v \in Users : report'[b][v] = report[b][v]
            BY <2>5, <3>2
          <5>2. R!Reported(b)' = R!Reported(b)
            BY <5>1 DEF R!Reported
          <5>3. /\ Counting(b)' = Counting(b) /\ Disabling(b)' = Disabling(b)
                /\ Reviewing(b)' = Reviewing(b)
            <6>1. /\ Counting(b)' = Counting(b) \ {r} /\ Disabling(b)' = Disabling(b) \ {r}
                  /\ Reviewing(b)' = Reviewing(b) \ {r}
              BY <2>3, <3>2
            <6> QED BY <2>4, <6>1
          <5> QED BY <5>1, <5>2, <5>3
        <4> QED BY <1>0, <3>0, <4>1
                DEF AdOK, Unreported, Queued, Counted, Disabled, Enough, R!Stored
      <3> QED BY <3>1, <3>2
    <2> QED BY <2>6, <2>7, <2>8 DEF RInv
  <1> QED BY <1>1, <1>2

\* The report is counted: the ad is under review, and disabled next when it is enough.
LEMMA SubmitCountInv ==
    ASSUME RInv, NEW r \in Reqs, R!SubmitCount(r)
    PROVE  RInv'
  <1> DEFINE a == rreq[r].ad
             enough == R!Stored(a) /\ ad[a].count + 1 >= Threshold
             q == IF enough THEN [rreq[r] EXCEPT !.at = "submit_disable"] ELSE R!Idle
             d == IF R!Stored(a) THEN [ad[a] EXCEPT !.count = R!Capped(ad[a].count + 1),
                                                    !.review = TRUE]
                  ELSE ad[a]
  <1>0. /\ R!TypeOK /\ Handled /\ rreq[r] \in R!Request /\ rreq[r].at = "submit_count"
        /\ a \in ReportedAds /\ ad[a].status # "none"
        /\ UNCHANGED <<report, cleanup, resyncs, raborts>>
        /\ ad \in [ReportedAds -> R!Ad] /\ Threshold \in Nat \ {0}
    BY ReportsTypes DEF RInv, Handled, R!SubmitCount
  <1>1. ad' = [ad EXCEPT ![a] = d] /\ rreq' = [rreq EXCEPT ![r] = q]
    <2>1. CASE R!Stored(a)
      <3>1. rreq' = [rreq EXCEPT ![r] = q]
        BY <2>1 DEF R!SubmitCount, R!Finish
      <3>2. ad' = [ad EXCEPT ![a] = d]
        BY <2>1 DEF R!SubmitCount
      <3> QED BY <3>1, <3>2
    <2>2. CASE ~R!Stored(a)
      <3>1. rreq' = [rreq EXCEPT ![r] = q] /\ ad' = ad
        BY <2>2 DEF R!SubmitCount, R!Finish
      <3>2. ad = [ad EXCEPT ![a] = d]
        BY <1>0, <2>2
      <3> QED BY <3>1, <3>2
    <2> QED BY <2>1, <2>2
  <1>2. /\ q \in R!Request /\ q.at = IF enough THEN "submit_disable" ELSE "idle"
        /\ enough => q.ad = a
    <2>1. CASE enough
      BY <1>0, <2>1 DEF R!Request, R!Step
    <2>2. CASE ~enough
      BY <2>2, ReportsIdle
    <2> QED BY <2>1, <2>2
  <1>3. /\ d \in R!Ad /\ d.status = ad[a].status /\ d.cleared = ad[a].cleared
        /\ R!Stored(a) => d.review /\ d.count = IF ad[a].count + 1 >= Threshold
                                                THEN Threshold ELSE ad[a].count + 1
        /\ ad[a].count \in Nat /\ ad[a].count <= Threshold
    <2>1. ad[a] \in R!Ad /\ ad[a].count \in Nat /\ ad[a].count <= Threshold
      BY <1>0 DEF R!Ad
    <2>2. CASE R!Stored(a)
      <3> DEFINE n == R!Capped(ad[a].count + 1)
      <3>1. n \in 0..Threshold
            /\ n = IF ad[a].count + 1 >= Threshold THEN Threshold ELSE ad[a].count + 1
        BY <1>0, <2>1 DEF R!Capped
      <3>2. d = [ad[a] EXCEPT !.count = n, !.review = TRUE]
        BY <2>2
      <3> HIDE DEF n, d
      <3> QED BY <2>1, <3>1, <3>2 DEF R!Ad
    <2>3. CASE ~R!Stored(a)
      BY <2>1, <2>3
    <2> QED BY <2>2, <2>3
  <1> HIDE DEF q, d, enough
  <1>4. /\ rreq' \in [Reqs -> R!Request]
        /\ \A b \in ReportedAds :
             /\ Counting(b)' = Counting(b) \ {r}
             /\ Disabling(b)' = IF enough /\ b = a THEN Disabling(b) \cup {r}
                                ELSE Disabling(b) \ {r}
             /\ Reviewing(b)' = Reviewing(b) \ {r}
    BY <1>0, <1>1, <1>2, ReportsSlot, ZenonT(60)
  <1>5. \A b \in ReportedAds : /\ r \notin Disabling(b) /\ r \notin Reviewing(b)
                               /\ r \in Counting(b) <=> b = a
    BY <1>0 DEF Counting, Disabling, Reviewing
  <1>6. /\ ad' \in [ReportedAds -> R!Ad] /\ ad'[a] = d
        /\ \A b \in ReportedAds \ {a} : ad'[b] = ad[b]
    BY <1>0, <1>1, <1>3
  <1>7. R!TypeOK'
    BY <1>0, <1>4, <1>6 DEF R!TypeOK
  <1>8. Handled'
    <2>1. Lasting
      BY <1>3, <1>6 DEF Lasting
    <2>2. /\ q.at # "resync_set" /\ q.at \notin {"submit_check", "submit_create"}
          /\ q.at # "idle" => q.ad \in ReportedAds /\ ad'[q.ad].status # "none"
      BY <1>0, <1>2, <1>3, <1>6
    <2> QED BY <1>0, <1>1, <1>2, <2>1, <2>2, HandledSlot
  <1>9. \A b \in ReportedAds : R!Reported(b)' = R!Reported(b)
    BY <1>0 DEF R!Reported
  <1>10. ASSUME NEW b \in ReportedAds PROVE AdOK(b)'
    <2>0. AdOK(b) /\ R!Reported(b)' = R!Reported(b)
      BY <1>9 DEF RInv
    <2>1. CASE b # a
      <3>1. /\ Counting(b)' = Counting(b) /\ Disabling(b)' = Disabling(b)
            /\ Reviewing(b)' = Reviewing(b) /\ ad'[b] = ad[b]
        <4>1. /\ Counting(b)' = Counting(b) \ {r} /\ Disabling(b)' = Disabling(b) \ {r}
              /\ Reviewing(b)' = Reviewing(b) \ {r}
          BY <1>4, <2>1
        <4> QED BY <1>5, <1>6, <2>1, <4>1
      <3> QED BY <1>0, <2>0, <3>1
              DEF AdOK, Unreported, Queued, Counted, Disabled, Enough, R!Stored
    <2>2. CASE b = a
      <3>1. Unreported(b)'
        BY <1>0, <1>3, <1>6, <2>2 DEF Unreported
      <3>2. Queued(b)'
        BY <1>3, <1>6, <2>2 DEF Queued, R!Stored
      <3>3. /\ IsFiniteSet(Counting(b)') /\ Cardinality(Counting(b)) \in Nat
            /\ Cardinality(Counting(b)') = Cardinality(Counting(b)) - 1
            /\ Cardinality(R!Reported(b)) \in Nat
        BY <1>4, <1>5, <2>0, <2>2, FS_RemoveElement, FS_CardinalityType DEF AdOK, Counted
      <3>4. R!Stored(b)' <=> R!Stored(b)
        BY <1>3, <1>6, <2>2 DEF R!Stored
      <3>5. Counted(b)'
        <4>1. CASE R!Stored(b) /\ ad[b].count + 1 < Threshold
          BY <1>0, <1>3, <1>6, <2>0, <2>2, <3>3, <3>4, <4>1 DEF AdOK, Counted
        <4>2. CASE ~(R!Stored(b) /\ ad[b].count + 1 < Threshold)
          BY <1>0, <1>3, <1>6, <2>0, <2>2, <3>3, <3>4, <4>2 DEF AdOK, Counted
        <4> QED BY <4>1, <4>2
      <3>6. Disabled(b)'
        <4>1. CASE enough
          BY <1>4, <2>2, <4>1 DEF Disabled
        <4>2. CASE ~R!Stored(b)
          BY <3>4, <4>2 DEF Disabled, R!Stored, R!Status
        <4>3. CASE R!Stored(b) /\ ~enough /\ Counting(b)' = {}
          <5>1. Cardinality(Counting(b)') = 0
            BY <4>3, FS_EmptySet
          <5>2. ad'[b].count < Threshold /\ ad'[b].count \in Nat
            BY <1>0, <1>3, <1>6, <2>2, <4>3 DEF enough
          <5>3. Cardinality(R!Reported(b)) <= ad'[b].count
            BY <2>0, <3>4, <3>5, <4>3, <5>1, <5>2 DEF Counted
          <5>4. ~Enough(b)'
            BY <1>0, <2>0, <3>3, <5>2, <5>3 DEF Enough
          <5> QED BY <5>4 DEF Disabled
        <4>4. CASE Counting(b)' # {}
          BY <4>4 DEF Disabled
        <4> QED BY <2>2, <4>1, <4>2, <4>3, <4>4
      <3> QED BY <3>1, <3>2, <3>5, <3>6 DEF AdOK
    <2> QED BY <2>1, <2>2
  <1> QED BY <1>7, <1>8, <1>10 DEF RInv

\* A handler writes an ad and ends, or begins the second half of a decision.
LEMMA WriteAdInv ==
    ASSUME RInv, NEW r \in Reqs, NEW q \in R!Request, NEW a \in ReportedAds, NEW d \in R!Ad,
           ad' = [ad EXCEPT ![a] = d], rreq' = [rreq EXCEPT ![r] = q],
           rreq[r].at \in {"idle", "edit_save", "submit_disable"},
           rreq[r].at = "submit_disable" => rreq[r].ad = a /\ d.status # "active",
           q.at = "idle" \/ (q.at = "review_reports" /\ q.ad = a),
           R!Stored(a), d.status \in R!Status, d.count = ad[a].count,
           ad[a].review => d.review \/ q.at = "review_reports",
           d.status = "active" => \/ Enough(a) => d.cleared
                                  \/ ad[a].status = "active" /\ d.cleared = ad[a].cleared,
           UNCHANGED <<report, cleanup, resyncs, raborts>>
    PROVE  RInv'
  <1>0. R!TypeOK /\ Handled /\ ad \in [ReportedAds -> R!Ad]
    BY ReportsTypes DEF RInv
  <1>1. /\ ad' \in [ReportedAds -> R!Ad] /\ ad'[a] = d
        /\ \A b \in ReportedAds \ {a} : ad'[b] = ad[b]
    BY <1>0
  <1>2. /\ rreq' \in [Reqs -> R!Request]
        /\ \A b \in ReportedAds :
             /\ Counting(b)' = Counting(b) \ {r}
             /\ Disabling(b)' = Disabling(b) \ {r}
             /\ Reviewing(b)' = IF q.at = "review_reports" /\ b = a
                                THEN Reviewing(b) \cup {r} ELSE Reviewing(b) \ {r}
    <2>1. rreq' \in [Reqs -> R!Request]
      BY <1>0, ReportsSlot
    <2>2. ASSUME NEW b \in ReportedAds
          PROVE  /\ Counting(b)' = Counting(b) \ {r}
                 /\ Disabling(b)' = Disabling(b) \ {r}
                 /\ Reviewing(b)' = IF q.at = "review_reports" /\ q.ad = b
                                    THEN Reviewing(b) \cup {r} ELSE Reviewing(b) \ {r}
      <3>1. q.at # "submit_count" /\ q.at # "submit_disable"
        OBVIOUS
      <3> QED BY <1>0, <3>1, ReportsSlot, ZenonT(60)
    <2>3. q.at = "review_reports" => q.ad = a
      OBVIOUS
    <2> QED BY <2>1, <2>2, <2>3
  <1>3. \A b \in ReportedAds : /\ r \notin Counting(b) /\ r \notin Reviewing(b)
                               /\ r \in Disabling(b) => b = a /\ d.status # "active"
    BY DEF Counting, Disabling, Reviewing
  <1>4. R!TypeOK'
    BY <1>0, <1>1, <1>2 DEF R!TypeOK
  <1>5. Handled'
    <2>1. Lasting /\ ad'[a].status # "none"
      BY <1>1 DEF Lasting, R!Status
    <2> QED BY <1>0, <2>1, HandledSlot
  <1>6. \A b \in ReportedAds : Harmless(b)
    <2>1. Harmless(a)
      <3>1. ad[a].review => ad'[a].review \/ Reviewing(a)' # {}
        BY <1>1, <1>2
      <3> QED BY <1>1, <3>1 DEF Harmless
    <2>2. \A b \in ReportedAds \ {a} : Harmless(b)
      BY <1>1 DEF Harmless
    <2> QED BY <2>1, <2>2
  <1>7. \A b \in ReportedAds :
            /\ Counting(b)' = Counting(b) /\ Reviewing(b) \subseteq Reviewing(b)'
            /\ Disabling(b) \subseteq Disabling(b)' \/ ad'[b].status # "active"
    <2> SUFFICES ASSUME NEW b \in ReportedAds
                 PROVE  /\ Counting(b)' = Counting(b) /\ Reviewing(b) \subseteq Reviewing(b)'
                        /\ Disabling(b) \subseteq Disabling(b)' \/ ad'[b].status # "active"
      OBVIOUS
    <2>1. /\ Counting(b)' = Counting(b) \ {r} /\ Disabling(b)' = Disabling(b) \ {r}
          /\ Reviewing(b) \ {r} \subseteq Reviewing(b)'
      BY <1>2
    <2>2. /\ r \notin Counting(b) /\ r \notin Reviewing(b)
          /\ r \in Disabling(b) => ad'[b].status # "active"
      BY <1>1, <1>3
    <2> QED BY <2>1, <2>2
  <1>8. \A b \in ReportedAds : AdOK(b)'
    BY <1>6, <1>7, AdsHarmless
  <1> QED BY <1>4, <1>5, <1>8 DEF RInv

LEMMA EditSaveInv ==
    ASSUME RInv, NEW r \in Reqs, R!EditSave(r)
    PROVE  RInv'
  <1> DEFINE a == rreq[r].ad
  <1>0. /\ R!TypeOK /\ rreq[r].at = "edit_save" /\ a \in ReportedAds
        /\ ad[a] \in R!Ad /\ EditStatus \subseteq R!Status
        /\ rreq' = [rreq EXCEPT ![r] = R!Idle]
        /\ UNCHANGED <<report, cleanup, resyncs, raborts>>
    BY ReportsTypes DEF RInv, Handled, R!EditSave, R!Finish
  <1>1. CASE ~R!Stored(a)
    <2>1. ad' = ad
      BY <1>1 DEF R!EditSave
    <2> QED BY <1>0, <2>1, ReportsIdle, QuietSlotInv
  <1>2. CASE R!Stored(a)
    <2>1. PICK s \in EditStatus \cup {ad[a].status}, due \in {FALSE, ad[a].due} :
              ad' = [ad EXCEPT ![a] = [R!Edited(a, s, due) EXCEPT !.edits = @ + 1]]
      BY <1>2 DEF R!EditSave
    <2> DEFINE e == R!Edited(a, s, due)
               d == [e EXCEPT !.edits = @ + 1]
    <2>2. s \in R!Status /\ due \in BOOLEAN
      BY <1>0, <1>2 DEF R!Stored, R!Ad
    <2>3. /\ e \in R!Ad
          /\ e.status = s /\ e.count = ad[a].count /\ e.review = ad[a].review
          /\ s = "active" => \/ e.cleared <=> Enough(a)
                             \/ ad[a].status = "active" /\ e.cleared = ad[a].cleared
      BY <1>0, <1>2, <2>2, EditedIs
    <2> HIDE DEF e
    <2>4. /\ d \in R!Ad
          /\ d.status = e.status /\ d.count = e.count /\ d.review = e.review
          /\ d.cleared = e.cleared
      BY <2>3 DEF R!Ad
    <2>5. ad' = [ad EXCEPT ![a] = d]
      BY <2>1 DEF e
    <2> HIDE DEF d, a
    <2> QED BY <1>0, <1>2, <2>2, <2>3, <2>4, <2>5, ReportsIdle, WriteAdInv
  <1> QED BY <1>1, <1>2

LEMMA SubmitDisableInv ==
    ASSUME RInv, NEW r \in Reqs, R!SubmitDisable(r)
    PROVE  RInv'
  <1> DEFINE a == rreq[r].ad
             w == R!WithStatus(a, "expired", "reports")
             d == [w EXCEPT !.disabled = TRUE]
  <1>0. /\ R!TypeOK /\ Handled /\ rreq[r].at = "submit_disable" /\ a \in ReportedAds
        /\ rreq' = [rreq EXCEPT ![r] = R!Idle]
        /\ UNCHANGED <<report, cleanup, resyncs, raborts>>
    BY DEF RInv, Handled, R!SubmitDisable, R!Finish
  <1>1. CASE R!Stored(a)
    <2>1. ad' = [ad EXCEPT ![a] = d]
      BY <1>1 DEF R!SubmitDisable
    <2>2. /\ w \in R!Ad /\ w.status = "expired" /\ w.count = ad[a].count
          /\ w.review = ad[a].review
      BY <1>0, WithStatusIs DEF R!Status
    <2> HIDE DEF w
    <2>3. d \in R!Ad /\ d.status = "expired" /\ d.count = ad[a].count /\ d.review = ad[a].review
      BY <2>2 DEF R!Ad
    <2> HIDE DEF d, a
    <2>4. d.status \in R!Status /\ d.status # "active"
      BY <2>3 DEF R!Status
    <2>5. rreq[r].at = "submit_disable" => rreq[r].ad = a /\ d.status # "active"
      BY <2>4 DEF a
    <2> QED BY <1>0, <1>1, <2>1, <2>3, <2>4, <2>5, ReportsIdle, WriteAdInv
  <1>2. CASE ~R!Stored(a)
    <2>1. ad' = ad
      BY <1>2 DEF R!SubmitDisable
    <2>2. /\ rreq' \in [Reqs -> R!Request]
          /\ \A b \in ReportedAds :
               /\ Counting(b)' = Counting(b) \ {r}
               /\ Disabling(b)' = Disabling(b) \ {r}
               /\ Reviewing(b)' = Reviewing(b) \ {r}
      BY <1>0, ReportsIdle, ReportsSlot
    <2>3. R!TypeOK'
      BY <1>0, <2>1, <2>2 DEF R!TypeOK
    <2>4. Handled'
      BY <1>0, <2>1, ReportsIdle, HandledSlot DEF Lasting
    <2>5. ASSUME NEW b \in ReportedAds
          PROVE  /\ Counting(b)' = Counting(b) /\ Reviewing(b) \subseteq Reviewing(b)'
                 /\ Disabling(b) \subseteq Disabling(b)' \/ ad'[b].status # "active"
      <3>1. r \notin Counting(b) /\ r \notin Reviewing(b) /\ (r \in Disabling(b) => b = a)
        BY <1>0 DEF Counting, Reviewing, Disabling
      <3>2. /\ Counting(b)' = Counting(b) \ {r} /\ Disabling(b)' = Disabling(b) \ {r}
            /\ Reviewing(b)' = Reviewing(b) \ {r}
        BY <2>2
      <3>3. r \in Disabling(b) => ad'[b].status # "active"
        BY <1>2, <2>1, <3>1 DEF R!Stored, R!Status
      <3> QED BY <3>1, <3>2, <3>3
    <2>6. \A b \in ReportedAds : AdOK(b)'
      BY <1>0, <2>1, <2>5, AdsHarmless DEF Harmless
    <2> QED BY <2>3, <2>4, <2>6 DEF RInv
  <1> QED BY <1>1, <1>2

LEMMA ReviewInv ==
    ASSUME RInv, NEW r \in Reqs, NEW a \in ReportedAds, NEW c \in DOMAIN R!Decided,
           R!Free(r), R!Review(r, a, c)
    PROVE  RInv'
  <1> DEFINE q == [R!Idle EXCEPT !.at = "review_reports", !.ad = a]
             w == R!WithStatus(a, R!Decided[c], "none")
             d == [w EXCEPT !.review = FALSE,
                            !.disabled = IF c = "approve" THEN FALSE ELSE w.disabled]
  <1>0. /\ R!TypeOK /\ rreq[r].at = "idle" /\ R!Stored(a)
        /\ rreq' = [rreq EXCEPT ![r] = q] /\ ad' = [ad EXCEPT ![a] = d]
        /\ UNCHANGED <<report, cleanup, resyncs, raborts>>
    BY DEF RInv, R!Review, R!Begin, R!Free
  <1>1. q \in R!Request /\ q.at = "review_reports" /\ q.ad = a
    BY DEF R!Idle, R!Request, R!Step
  <1>2. R!Decided[c] \in R!Status
    BY DEF R!Decided, R!Status
  <1>3. /\ w \in R!Ad /\ w.status = R!Decided[c] /\ w.count = ad[a].count
        /\ w.status = "active" => (w.cleared <=> Enough(a))
    BY <1>0, <1>2, WithStatusIs
  <1> HIDE DEF w, q
  <1>4. /\ d \in R!Ad /\ d.status = w.status /\ d.count = w.count /\ d.cleared = w.cleared
    BY <1>3 DEF R!Ad
  <1> HIDE DEF d
  <1> QED BY <1>0, <1>1, <1>2, <1>3, <1>4, WriteAdInv

\* The second half of a decision leaves no report of the ad pending.
LEMMA ReviewReportsInv ==
    ASSUME RInv, NEW r \in Reqs, R!ReviewReports(r)
    PROVE  RInv'
  <1> DEFINE a == rreq[r].ad
             left == [u \in Users |-> IF report[a][u] \in R!Pending THEN "decided"
                                      ELSE report[a][u]]
  <1>0. /\ R!TypeOK /\ Handled /\ rreq[r].at = "review_reports" /\ a \in ReportedAds
        /\ rreq' = [rreq EXCEPT ![r] = R!Idle] /\ report' = [report EXCEPT ![a] = left]
        /\ UNCHANGED <<ad, cleanup, resyncs, raborts>>
        /\ report \in [ReportedAds -> [Users -> R!ReportStatus]]
    BY ReportsTypes DEF RInv, Handled, R!ReviewReports, R!Finish
  <1>1. /\ left \in [Users -> R!ReportStatus]
        /\ \A u \in Users : /\ left[u] # "pending"
                            /\ left[u] # "none" <=> report[a][u] # "none"
    BY <1>0 DEF R!ReportStatus, R!Pending
  <1> HIDE DEF left
  <1>2. /\ report' \in [ReportedAds -> [Users -> R!ReportStatus]] /\ report'[a] = left
        /\ \A b \in ReportedAds \ {a} : report'[b] = report[b]
    BY <1>0, <1>1
  <1>3. /\ rreq' \in [Reqs -> R!Request]
        /\ \A b \in ReportedAds :
             /\ Counting(b)' = Counting(b) \ {r}
             /\ Disabling(b)' = Disabling(b) \ {r}
             /\ Reviewing(b)' = Reviewing(b) \ {r}
    BY <1>0, ReportsIdle, ReportsSlot
  <1>4. R!TypeOK'
    BY <1>0, <1>2, <1>3 DEF R!TypeOK
  <1>5. Handled'
    BY <1>0, ReportsIdle, HandledSlot DEF Lasting
  <1>6. ASSUME NEW b \in ReportedAds
        PROVE  /\ R!Reported(b)' = R!Reported(b)
               /\ Counting(b)' = Counting(b) /\ Disabling(b)' = Disabling(b)
               /\ \A u \in Users : report'[b][u] = "pending" =>
                    report[b][u] = "pending" /\ Reviewing(b) \subseteq Reviewing(b)'
    <2>1. r \notin Counting(b) /\ r \notin Disabling(b) /\ (r \in Reviewing(b) => b = a)
      BY <1>0 DEF Counting, Reviewing, Disabling
    <2>2. /\ Counting(b)' = Counting(b) \ {r} /\ Disabling(b)' = Disabling(b) \ {r}
          /\ Reviewing(b)' = Reviewing(b) \ {r}
      BY <1>3
    <2>3. CASE b = a
      BY <1>1, <1>2, <2>1, <2>2, <2>3 DEF R!Reported
    <2>4. CASE b # a
      BY <1>2, <2>1, <2>2, <2>4 DEF R!Reported
    <2> QED BY <2>3, <2>4
  <1>7. \A b \in ReportedAds : AdOK(b)'
    BY <1>0, <1>6, ReportsCalm
  <1> QED BY <1>4, <1>5, <1>7 DEF RInv

LEMMA ReportsInit ==
    ASSUME R!Init
    PROVE  RInv
  <1>1. Threshold \in Nat \ {0}
    BY ReportsAssumptions DEF R!Assumptions
  <1>2. R!NoAd \in R!Ad
    BY <1>1 DEF R!Ad, R!NoAd, R!When
  <1>3. R!TypeOK
    BY <1>2, ReportsIdle DEF R!Init, R!TypeOK, R!ReportStatus
  <1>4. Handled
    BY ReportsIdle DEF R!Init, Handled
  <1>5. ASSUME NEW a \in ReportedAds PROVE AdOK(a)
    <2>1. R!Reported(a) = {} /\ Counting(a) = {} /\ ad[a].status = "none"
      BY ReportsIdle DEF R!Init, R!Reported, Counting, R!NoAd
    <2>2. Unreported(a) /\ Queued(a) /\ Disabled(a)
      BY <2>1 DEF Unreported, Queued, Disabled, R!Stored, R!Status
    <2>3. Counted(a)
      BY <2>1, FS_EmptySet DEF Counted, R!Stored, R!Status
    <2> QED BY <2>2, <2>3 DEF AdOK
  <1> QED BY <1>3, <1>4, <1>5 DEF RInv

LEMMA ReportsNext ==
    ASSUME RInv, [R!Next]_R!vars
    PROVE  RInv'
  <1>1. CASE UNCHANGED R!vars
    <2>1. UNCHANGED <<ad, report, rreq, cleanup, resyncs, raborts>>
      BY <1>1 DEF R!vars
    <2> QED BY <2>1, ReportsTypes, AdsOnlyInv DEF RInv, Harmless
  <1>2. ASSUME NEW a \in ReportedAds,
               \/ R!CreateAd(a) \/ R!DeleteAd(a) \/ R!AdminDeleteAd(a) \/ R!ComeDue(a)
               \/ R!DayPasses(a)
               \/ \E s \in EditStatus \cup {ad[a].status}, due \in {FALSE, ad[a].due} :
                    R!AdminUpdateAd(a, s, due)
               \/ \E u \in Users, s \in {"reopened", "decided"} :
                    R!UpdateReport(a, u, s) \/ R!MerchantUpdateReport(a, u, s)
        PROVE  RInv'
    BY <1>2, AdStepsInv, UpdateReportInv
  <1>3. ASSUME NEW r \in Reqs, NEW a \in ReportedAds, R!Free(r),
               \/ R!UpdateAd(r, a)
               \/ \E u \in Users : R!Submit(r, a, u)
               \/ \E d \in DOMAIN R!Decided : R!Review(r, a, d)
        PROVE  RInv'
    BY <1>3, BeginsInv, ReviewInv
  <1>4. ASSUME NEW r \in Reqs, R!Resync(r) \/ R!Handle(r) \/ R!Abort(r) PROVE RInv'
    <2>1. ~R!Resync(r) /\ ~R!Abort(r) /\ ~R!ResyncSet(r)
      BY ReportsTypes DEF RInv, Handled, R!Resync, R!Abort, R!ResyncSet
    <2> QED BY <1>4, <2>1, EditSaveInv, SubmitCheckInv, SubmitCreateInv, SubmitCountInv,
            SubmitDisableInv, ReviewReportsInv DEF R!Handle
  <1>5. CASE R!Cleanup
    BY <1>5, CleanupInv
  <1>6. ~R!CleanupFails
    BY ReportsTypes DEF RInv, R!CleanupFails
  <1> QED BY <1>1, <1>2, <1>3, <1>4, <1>5, <1>6 DEF R!Next

LEMMA ReportsMean ==
    ASSUME RInv
    PROVE  R!TypeOK /\ R!PendingIsUnderReview /\ R!DisabledAtThreshold
  <1>1. R!PendingIsUnderReview
    BY DEF RInv, AdOK, Queued, Counting, Reviewing, R!PendingIsUnderReview
  <1>2. R!DisabledAtThreshold
    BY SameCardinality
       DEF RInv, AdOK, Disabled, Enough, Counting, Disabling, R!DisabledAtThreshold
  <1> QED BY <1>1, <1>2 DEF RInv

\* Only the deletion of ads ends a cleanup that is at the ads, and it takes those that
\* are expired by then.
LEMMA DeletesExpired ==
    ASSUME RInv, [R!Next]_R!vars, NEW a \in ReportedAds,
           cleanup.at = "ads", cleanup'.at = "idle", R!Stored(a), ad'[a].status = "gone"
    PROVE  ad[a].status = "expired"
  <1>1. cleanup' # cleanup
    OBVIOUS
  <1>2. R!Cleanup
    <2>1. ~R!CleanupFails /\ \A r \in Reqs : ~R!Abort(r) /\ ~R!Resync(r)
      BY ReportsTypes DEF RInv, R!CleanupFails, R!Abort, R!Resync
    <2>2. ASSUME NEW r \in Reqs, R!Handle(r) PROVE FALSE
      BY <1>1, <2>2 DEF R!Handle, R!EditSave, R!SubmitCheck, R!SubmitCreate, R!SubmitCount,
         R!SubmitDisable, R!ReviewReports, R!ResyncSet
    <2>3. ASSUME NEW r \in Reqs, NEW b \in ReportedAds,
                 \/ R!UpdateAd(r, b)
                 \/ \E u \in Users : R!Submit(r, b, u)
                 \/ \E d \in DOMAIN R!Decided : R!Review(r, b, d)
          PROVE  FALSE
      BY <1>1, <2>3 DEF R!UpdateAd, R!Submit, R!Review
    <2>4. ASSUME NEW b \in ReportedAds,
                 \/ R!CreateAd(b) \/ R!DeleteAd(b) \/ R!AdminDeleteAd(b) \/ R!ComeDue(b)
                 \/ R!DayPasses(b)
                 \/ \E s \in EditStatus \cup {ad[b].status}, due \in {FALSE, ad[b].due} :
                      R!AdminUpdateAd(b, s, due)
                 \/ \E u \in Users, s \in {"reopened", "decided"} :
                      R!UpdateReport(b, u, s) \/ R!MerchantUpdateReport(b, u, s)
          PROVE  FALSE
      BY <1>1, <2>4 DEF R!CreateAd, R!DeleteAd, R!AdminDeleteAd, R!ComeDue, R!DayPasses,
         R!AdminUpdateAd, R!UpdateReport, R!MerchantUpdateReport
    <2>5. ~UNCHANGED R!vars
      BY <1>1 DEF R!vars
    <2> QED BY <2>1, <2>2, <2>3, <2>4, <2>5 DEF R!Next
  <1>3. R!DeleteAds
    BY <1>2 DEF R!Cleanup, R!Deactivate, R!FindPastGrace, R!DeleteReports
  <1>4. CASE ~R!PastGrace(a)
    <2>1. ad'[a] = ad[a]
      BY <1>3, <1>4 DEF R!DeleteAds
    <2> QED BY <2>1 DEF R!Stored, R!Status
  <1>5. CASE R!PastGrace(a)
    BY <1>5 DEF R!PastGrace
  <1> QED BY <1>4, <1>5

-----------------------------------------------------------------------------
(* The parts together *)

PeopleInv ==
    /\ PresenceInv /\ AccountsInv /\ ChatsInv /\ RInv
    /\ part = "passwords" => PInv
    /\ part = "engagement" => EInv

LEMMA PeopleStarts ==
    ASSUME PeopleInit
    PROVE  PeopleInv
  <1>1. PresenceInv
    BY PresenceInit DEF PeopleInit
  <1>2. RInv
    BY ReportsInit DEF PeopleInit
  <1>3. (part = "passwords" => PInv) /\ (part = "engagement" => EInv)
    BY PasswordsInit, EngagementInit DEF PeopleInit
  <1> QED BY <1>1, <1>2, <1>3, AccountsInit, ChatsInit DEF PeopleInv

\* A step of one part leaves the others as they are.
LEMMA PartsStep ==
    ASSUME [PeopleNext]_peopleVars
    PROVE  /\ [Next]_vars /\ [R!Next]_R!vars
           /\ part' = part
           /\ part = "passwords" => [P!Next]_P!vars
           /\ part = "engagement" => [E!Next]_E!vars
  <1>1. [Next]_vars /\ part' = part
    BY DEF PeopleNext, PresenceStep, AccountsStep, PasswordsStep, ChatsStep, EngagementStep,
           ReportsStep, peopleVars
  <1>2. [R!Next]_R!vars
    BY DEF PeopleNext, PresenceStep, AccountsStep, PasswordsStep, ChatsStep, EngagementStep,
           ReportsStep, peopleVars, reportVars, R!vars
  <1>3. part = "passwords" => [P!Next]_P!vars
    BY DEF PeopleNext, PresenceStep, AccountsStep, PasswordsStep, ChatsStep, EngagementStep,
           ReportsStep, peopleVars, passwordVars, P!vars
  <1>4. part = "engagement" => [E!Next]_E!vars
    BY DEF PeopleNext, PresenceStep, AccountsStep, PasswordsStep, ChatsStep, EngagementStep,
           ReportsStep, peopleVars, engagementVars, E!vars
  <1> QED BY <1>1, <1>2, <1>3, <1>4

LEMMA PeopleStays ==
    ASSUME PeopleInv, [PeopleNext]_peopleVars
    PROVE  PeopleInv'
  <1>1. PresenceInv' /\ RInv'
    BY PartsStep, PresenceStays, ReportsNext DEF PeopleInv
  <1>2. AccountsInv' /\ ChatsInv'
    BY AccountsStay, ChatsStays DEF PeopleInv
  <1>3. part' = "passwords" => PInv'
    BY PartsStep, PasswordsNext DEF PeopleInv
  <1>4. part' = "engagement" => EInv'
    BY PartsStep, EngagementNext DEF PeopleInv
  <1> QED BY <1>1, <1>2, <1>3, <1>4 DEF PeopleInv

\* The invariants of all the parts hold in every state.
THEOREM PeopleInvariance == PeopleSpec => []PeopleInv
  BY PeopleStarts, PeopleStays, PTL DEF PeopleSpec

\* Every variable of the parts stays within its type, however many users, sockets,
\* handlers, accounts, conversations and ads there are.
THEOREM PeopleTyped == PeopleSpec => []PeopleTypeOK
  <1>1. PeopleInv => PeopleTypeOK
    BY A!InvMeans, S!InvMeans, H!InvMeans, AccountsAssumptions, ChatsAssumptions
       DEF PeopleInv, PresenceInv, AccountsInv, ChatsInv, PInv, PasswordsTyped, EInv, RInv,
           PeopleTypeOK
  <1> QED BY <1>1, PeopleInvariance, PTL

\* A ban with an end stands until then or until an admin lifts it, unless a login was
\* lifting an earlier one when it was placed, and the latest entry of the audit log tells
\* of it, unless admins overlapped or an entry failed (login, banUser, unbanUser).
THEOREM BansHold == PeopleSpec => []BansSound
  <1>1. PeopleInv => BansSound
    BY A!InvMeans, S!InvMeans, AccountsAssumptions DEF PeopleInv, AccountsInv, BansSound
  <1> QED BY <1>1, PeopleInvariance, PTL

\* Accounts are whole, however requests and failures interleave: one for an email, a
\* profile for a merchant that is past registering, and the sessions that were opened and
\* not closed (register, login, logout, refreshToken).
THEOREM AccountsAreWhole == PeopleSpec => []AccountsSound
  <1>1. PeopleInv => AccountsSound
    BY A!InvMeans, S!InvMeans, AccountsAssumptions DEF PeopleInv, AccountsInv, AccountsSound
  <1> QED BY <1>1, PeopleInvariance, PTL

\* A password changes only with an OTP that the user entered, once with each, unless the
\* OTP crossed another's verification or two changes overlapped
\* (sendPasswordChangeOTP, verifyPasswordChangeOTP, changePasswordWithOTP).
THEOREM OtpGuards == PeopleSpec => []OtpGuardsChange
  <1>1. PeopleInv => OtpGuardsChange
    BY DEF PeopleInv, PInv, OtpGuardsChange
  <1> QED BY <1>1, PeopleInvariance, PTL

\* A password does not come back while it is among the last ones that were in force, and
\* the history holds just those, unless two changes overlapped (changePasswordWithOTP).
THEOREM PasswordsAreNew == PeopleSpec => []NoReuse
  <1>1. PeopleInv => NoReuse
    BY EndIsLatest DEF PeopleInv, NoReuse
  <1> QED BY <1>1, PeopleInvariance, PTL

\* What a connected socket was last told of a user is the truth, however sockets come
\* and go while joins and sends wait (trackOnline, trackOffline, presence_state).
THEOREM PresenceIsTrue == PeopleSpec => []ViewIsTrue
  <1>1. PeopleInv => ViewIsTrue
    BY DEF PeopleInv, PresenceInv
  <1> QED BY <1>1, PeopleInvariance, PTL

\* Two users have one conversation at a time, its count is the messages created in it
\* once the sends are done, unless they overlapped or failed, and no message outlives it
\* (startConversation, sendMessage, deleteConversation).
THEOREM MessagesAreAccounted == PeopleSpec => []MessagesAccounted
  <1>1. PeopleInv => MessagesAccounted
    BY H!InvMeans, ChatsAssumptions DEF PeopleInv, ChatsInv, MessagesAccounted
  <1> QED BY <1>1, PeopleInvariance, PTL

\* A message is marked read only by a mark_read that found it, and what is announced as
\* read is (markConversationAsRead).
THEOREM ReadWasThere == PeopleSpec => []ReadWasFound
  <1>1. PeopleInv => ReadWasFound
    BY H!InvMeans, ChatsAssumptions DEF PeopleInv, ChatsInv, ReadWasFound
  <1> QED BY <1>1, PeopleInvariance, PTL

\* An ad is on a wishlist when it was toggled an odd number of times, unless toggles of
\* the user overlapped, and the owner is told of each addition by another, but for those
\* about to be told and those that failed (toggleWishlist).
THEOREM WishlistsFollow == PeopleSpec => []WishlistFollows
  <1>1. PeopleInv => WishlistFollows
    BY EngagementMeans DEF PeopleInv, WishlistFollows
  <1> QED BY <1>1, PeopleInvariance, PTL

\* An ad has as many views as viewers, or more (trackViewWithVisitor, resyncViewCounts).
THEOREM ViewsAreCovered == PeopleSpec => []ViewsCover
  <1>1. PeopleInv => ViewsCover
    BY EngagementMeans DEF PeopleInv, ViewsCover
  <1> QED BY <1>1, PeopleInvariance, PTL

\* An ad with a pending report is under review, or about to be, or being decided on
\* (submitReport, reviewAd).
THEOREM PendingIsQueued == PeopleSpec => []PendingIsUnderReview
  <1>1. PeopleInv => PendingIsUnderReview
    BY ReportsMean DEF PeopleInv, PendingIsUnderReview
  <1> QED BY <1>1, PeopleInvariance, PTL

\* An ad that enough people reported is not listed, unless the last report is being
\* handled or somebody put the ad back (submitReport, autoDisableAd), with nobody
\* recounting the reports and no submission failing halfway.
THEOREM ThresholdDisables == PeopleSpec => []DisabledAtThreshold
  <1>1. PeopleInv => DisabledAtThreshold
    BY ReportsMean DEF PeopleInv, DisabledAtThreshold
  <1> QED BY <1>1, PeopleInvariance, PTL

\* The cleanup removes expired ads and no others, whatever was done to an ad since the
\* cleanup found it (deleteGracePeriodAds).
THEOREM CleanupSpares == PeopleSpec => CleanupSparesReinstated
  <1>1. ASSUME PeopleInv, [PeopleNext]_peopleVars
        PROVE  [\A a \in ReportedAds :
                   cleanup.at = "ads" /\ cleanup'.at = "idle" /\ R!Stored(a)
                       /\ ad'[a].status = "gone" => ad[a].status = "expired"]_R!vars
    BY <1>1, PartsStep, DeletesExpired DEF PeopleInv
  <1> QED BY <1>1, PeopleInvariance, PTL
          DEF PeopleSpec, CleanupSparesReinstated, R!CleanupSparesReinstated

==============================================================================
