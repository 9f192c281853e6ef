------------------------------ MODULE Accounts ------------------------------
(* The accounts of users (src/src/users/): registration, sign-in by password or    *)
(* by a social provider, refresh tokens, change of email, bans and their end,      *)
(* deletion, and the audit log of the admins.  A handler is a sequence of steps,   *)
(* one per database call.                                                          *)
EXTENDS Integers, FiniteSets

CONSTANTS
    Emails,
    AdminEmails, \* spellings of ADMIN_EMAIL
    Reqs,        \* slots for handlers under way at the same time
    MaxUsers,    \* bound: accounts ever created
    MaxSeconds,  \* bound: seconds in which tokens are signed
    MaxChanges,  \* bound: changes by admins
    MaxAborts,   \* bound: handlers that fail halfway
    None

Assumptions ==
    /\ AdminEmails \subseteq Emails
    /\ {MaxUsers, MaxChanges, MaxAborts} \subseteq Nat
    /\ MaxSeconds \in Nat \ {0}
    /\ None \notin Emails

VARIABLES
    user,       \* the users collection
    merchant,   \* users with a document in the merchants collection
    audit,      \* the latest entry of the audit log on each user
    req,        \* the handlers in flight
    second,     \* now: two tokens of a user signed in one second are the same string
    changes,    \* the number of changes by admins
    aborts,     \* handlers that failed halfway
    sentence,   \* for the properties: what the admins decided, until its time is over
    undercut,   \* users banned while a login was lifting an earlier ban
    stranded,   \* users whose registration failed halfway
    contested,  \* users on whom changes by admins overlapped, or whose log entry failed
    sessions,   \* tokens given to a client and not logged out, as <<user, token>>
    gone        \* users deleted

vars == <<user, merchant, audit, req, second, changes, aborts, sentence, undercut,
          stranded, contested, sessions, gone>>

histories == <<sentence, undercut, stranded, contested, sessions, gone>>

-----------------------------------------------------------------------------
Ids == 1..MaxUsers
Tokens == 1..MaxSeconds

Role == {"customer", "merchant", "admin"}

\* banUntil: none, ahead of now, or over.
User == [email: Emails \cup {None}, role: Role, accountType: {"user", "merchant"},
         isBanned: BOOLEAN, banUntil: {"none", "ahead", "over"},
         refreshTokens: SUBSET Tokens]

NoUser == [email |-> None, role |-> "customer", accountType |-> "user",
           isBanned |-> FALSE, banUntil |-> "none", refreshTokens |-> {}]

Entry == {"none", "banned", "unbanned", "deleted"}

Step == {"idle", "register_save", "register_profile", "login_lift", "login_role",
         "login_push", "social_create", "social_push", "email_save", "audit"}

Request == [at: Step, id: Ids \cup {0}, email: Emails \cup {None},
            accountType: {"user", "merchant"}, read: User, entry: Entry]

Idle == [at |-> "idle", id |-> 0, email |-> None, accountType |-> "user",
         read |-> NoUser, entry |-> "none"]

Here(u) == user[u] # NoUser
WithEmail(e) == {u \in Ids : user[u].email = e}

Free(r) == req[r].at = "idle"
Begin(r, q) == Free(r) /\ req' = [req EXCEPT ![r] = q]
Continue(r, at, u) == req' = [req EXCEPT ![r] = [Idle EXCEPT !.at = at, !.id = u]]
Finish(r) == req' = [req EXCEPT ![r] = Idle]

\* Regression: save() writes every field, as a replacement of the document would.
SavedWhole(now, read, mine) == mine

\* mongoose save(): a field assigned a value equal to the one read is not written.
Saved(now, read, mine) ==
    [f \in DOMAIN now |-> IF mine[f] = read[f] THEN now[f] ELSE mine[f]]

Init ==
    /\ user = [u \in Ids |-> NoUser]
    /\ merchant = {}
    /\ audit = [u \in Ids |-> "none"]
    /\ req = [r \in Reqs |-> Idle]
    /\ second = 1
    /\ changes = 0
    /\ aborts = 0
    /\ sentence = [u \in Ids |-> "free"]
    /\ undercut = {}
    /\ stranded = {}
    /\ contested = {}
    /\ sessions = {}
    /\ gone = {}

-----------------------------------------------------------------------------
(* register *)

Register(r, e, accountType) ==
    /\ WithEmail(e) = {}
    /\ Begin(r, [Idle EXCEPT !.at = "register_save", !.email = e, !.accountType = accountType])
    /\ UNCHANGED <<user, merchant, audit, second, changes, aborts, histories>>

\* The next account, in the order of creation.
Fresh(u) ==
    /\ ~Here(u) /\ u \notin gone
    /\ \A w \in Ids : w < u => Here(w) \/ w \in gone

AssignedRole(e, accountType) ==
    IF e \in AdminEmails THEN "admin"
    ELSE IF accountType = "merchant" THEN "merchant" ELSE "customer"

\* Regression: email has no unique index.
RegisterSaveAny(r) ==
    /\ req[r].at = "register_save"
    /\ LET e == req[r].email
           type == req[r].accountType
       IN  \E u \in Ids :
              /\ Fresh(u)
              /\ user' = [user EXCEPT ![u] = [NoUser EXCEPT !.email = e, !.accountType = type,
                                                            !.role = AssignedRole(e, type)]]
              /\ IF type = "merchant" THEN Continue(r, "register_profile", u) ELSE Finish(r)
    /\ UNCHANGED <<merchant, audit, second, changes, aborts, histories>>

\* The unique index on email refuses a second account.
RegisterSave(r) ==
    /\ req[r].at = "register_save"
    /\ LET e == req[r].email
           type == req[r].accountType
       IN  IF WithEmail(e) # {} THEN Finish(r) /\ UNCHANGED user
           ELSE \E u \in Ids :
              /\ Fresh(u)
              /\ user' = [user EXCEPT ![u] = [NoUser EXCEPT !.email = e, !.accountType = type,
                                                            !.role = AssignedRole(e, type)]]
              /\ IF type = "merchant" THEN Continue(r, "register_profile", u) ELSE Finish(r)
    /\ UNCHANGED <<merchant, audit, second, changes, aborts, histories>>

\* Regression: a profile that could not be stored is passed over.
RegisterProfileSwallowed(r) ==
    /\ req[r].at = "register_profile"
    /\ merchant' \in {merchant, merchant \cup {req[r].id}}
    /\ Finish(r)
    /\ UNCHANGED <<user, audit, second, changes, aborts, histories>>

RegisterProfile(r) ==
    /\ req[r].at = "register_profile"
    /\ merchant' = merchant \cup {req[r].id}
    /\ Finish(r)
    /\ UNCHANGED <<user, audit, second, changes, aborts, histories>>

-----------------------------------------------------------------------------
(* login *)

\* The role an account must have, checked at every login.
DueRole(u) ==
    IF u.email \in AdminEmails THEN "admin"
    ELSE IF u.accountType = "merchant" /\ u.role # "admin" THEN "merchant" ELSE u.role

\* What follows the check of the ban, for a document as read.
AfterBan(doc, accountType) ==
    IF accountType = "merchant" /\ doc.accountType # "merchant" THEN "idle"
    ELSE IF DueRole(doc) # doc.role THEN "login_role"
    ELSE "login_push"

\* A login at one of its steps, with what the rest of it looks at.
LoginAt(at, u, doc, accountType) ==
    [Idle EXCEPT !.at = at, !.id = u,
                 !.read = IF at = "login_push" THEN NoUser ELSE doc,
                 !.accountType = IF at = "login_lift" THEN accountType ELSE "user"]

\* Regression: a ban with a date is lifted whether the date has come or not.
LoginEarly(r, e, accountType) ==
    /\ \E u \in WithEmail(e) :
         LET at == IF user[u].isBanned THEN "login_lift" ELSE AfterBan(user[u], accountType)
         IN  /\ at # "idle"
             /\ Begin(r, LoginAt(at, u, user[u], accountType))
    /\ UNCHANGED <<user, merchant, audit, second, changes, aborts, histories>>

\* With the right password.  A ban that runs refuses; any other is lifted.
Login(r, e, accountType) ==
    /\ \E u \in WithEmail(e) :
         /\ ~(user[u].isBanned /\ user[u].banUntil = "ahead")
         /\ LET at == IF user[u].isBanned THEN "login_lift" ELSE AfterBan(user[u], accountType)
            IN  /\ at # "idle"
                /\ Begin(r, LoginAt(at, u, user[u], accountType))
    /\ UNCHANGED <<user, merchant, audit, second, changes, aborts, histories>>

Unbanned(doc) == [doc EXCEPT !.isBanned = FALSE, !.banUntil = "none"]

\* findByIdAndUpdate: whatever ban is there by now.
LoginLift(r) ==
    /\ req[r].at = "login_lift"
    /\ LET u == req[r].id
       IN  user' = IF Here(u) THEN [user EXCEPT ![u] = Unbanned(@)] ELSE user
    /\ LET at == AfterBan(req[r].read, req[r].accountType)
       IN  IF at = "idle" THEN Finish(r)
           ELSE req' = [req EXCEPT ![r] = LoginAt(at, @.id, @.read, @.accountType)]
    /\ UNCHANGED <<merchant, audit, second, changes, aborts, histories>>

\* save() of the document read; it throws when the account is gone.
LoginRole(r) ==
    /\ req[r].at = "login_role"
    /\ LET u == req[r].id
           read == req[r].read
       IN  IF Here(u)
           THEN /\ user' = [user EXCEPT ![u] = Saved(@, read, [read EXCEPT !.role = DueRole(read)])]
                /\ Continue(r, "login_push", u)
           ELSE Finish(r) /\ UNCHANGED user
    /\ UNCHANGED <<merchant, audit, second, changes, aborts, histories>>

\* A token of this second is added to the user's, and given to the client.
Push(r, at) ==
    /\ req[r].at = at
    /\ LET u == req[r].id
       IN  IF Here(u)
           THEN /\ user' = [user EXCEPT ![u].refreshTokens = @ \cup {second}]
                /\ sessions' = sessions \cup {<<u, second>>}
           ELSE UNCHANGED <<user, sessions>>
    /\ Finish(r)
    /\ UNCHANGED <<merchant, audit, second, changes, aborts, sentence, undercut, stranded,
                   contested, gone>>

LoginPush(r) == Push(r, "login_push")

-----------------------------------------------------------------------------
(* socialAuth, refresh tokens, updateProfile *)

\* Bans are not looked at.
SocialAuth(r, e) ==
    /\ IF WithEmail(e) = {}
       THEN Begin(r, [Idle EXCEPT !.at = "social_create", !.email = e])
       ELSE \E u \in WithEmail(e) : Begin(r, [Idle EXCEPT !.at = "social_push", !.id = u])
    /\ UNCHANGED <<user, merchant, audit, second, changes, aborts, histories>>

SocialCreate(r) ==
    /\ req[r].at = "social_create"
    /\ IF WithEmail(req[r].email) # {} THEN Finish(r) /\ UNCHANGED user
       ELSE \E u \in Ids :
              /\ Fresh(u)
              /\ user' = [user EXCEPT ![u] = [NoUser EXCEPT !.email = req[r].email]]
              /\ Continue(r, "social_push", u)
    /\ UNCHANGED <<merchant, audit, second, changes, aborts, histories>>

SocialPush(r) == Push(r, "social_push")

\* Regression: all the tokens of the user are removed.
LogoutAll(u, token) ==
    /\ <<u, token>> \in sessions
    /\ user' = IF Here(u) THEN [user EXCEPT ![u].refreshTokens = {}] ELSE user
    /\ sessions' = sessions \ {<<u, token>>}
    /\ UNCHANGED <<merchant, audit, req, second, changes, aborts, sentence, undercut, stranded,
                   contested, gone>>

logout(u, token) ==
    /\ <<u, token>> \in sessions
    /\ user' = IF Here(u) THEN [user EXCEPT ![u].refreshTokens = @ \ {token}] ELSE user
    /\ sessions' = sessions \ {<<u, token>>}
    /\ UNCHANGED <<merchant, audit, req, second, changes, aborts, sentence, undercut, stranded,
                   contested, gone>>

\* Whether refreshToken gives a new access token.
refreshToken(u, token) == Here(u) /\ token \in user[u].refreshTokens

UpdateEmail(r, u, e) ==
    /\ Here(u)
    /\ WithEmail(e) \subseteq {u}
    /\ user[u].email # e
    /\ Begin(r, [Idle EXCEPT !.at = "email_save", !.id = u, !.email = e])
    /\ UNCHANGED <<user, merchant, audit, second, changes, aborts, histories>>

EmailSave(r) ==
    /\ req[r].at = "email_save"
    /\ LET u == req[r].id
       IN  user' = IF Here(u) /\ WithEmail(req[r].email) \subseteq {u}
                   THEN [user EXCEPT ![u].email = req[r].email] ELSE user
    /\ Finish(r)
    /\ UNCHANGED <<merchant, audit, second, changes, aborts, histories>>

-----------------------------------------------------------------------------
(* Admins: the change, then its entry in the audit log *)

Changing(u) == {r \in Reqs : req[r].at = "audit" /\ req[r].id = u}

Change(r, u, doc, entry) ==
    /\ Here(u)
    /\ changes < MaxChanges
    /\ changes' = changes + 1
    /\ user' = [user EXCEPT ![u] = doc]
    /\ Begin(r, [Idle EXCEPT !.at = "audit", !.id = u, !.entry = entry])
    /\ contested' = IF Changing(u) = {} THEN contested ELSE contested \cup {u}

Lifting(u) == {r \in Reqs : req[r].at = "login_lift" /\ req[r].id = u}

\* Without a duration there is no end.
banUser(r, u, timed) ==
    /\ Change(r, u, [user[u] EXCEPT !.isBanned = TRUE,
                                    !.banUntil = IF timed THEN "ahead" ELSE "none"], "banned")
    /\ sentence' = [sentence EXCEPT ![u] = IF timed THEN "timed" ELSE "permanent"]
    /\ undercut' = IF Lifting(u) = {} THEN undercut ELSE undercut \cup {u}
    /\ UNCHANGED <<merchant, audit, second, aborts, stranded, sessions, gone>>

unbanUser(r, u) ==
    /\ Change(r, u, Unbanned(user[u]), "unbanned")
    /\ sentence' = [sentence EXCEPT ![u] = "free"]
    /\ undercut' = undercut \ {u}
    /\ UNCHANGED <<merchant, audit, second, aborts, stranded, sessions, gone>>

\* The profile of a merchant stays.
adminDeleteUser(r, u) ==
    /\ Change(r, u, NoUser, "deleted")
    /\ gone' = gone \cup {u}
    /\ UNCHANGED <<merchant, audit, second, aborts, sentence, undercut, stranded, sessions>>

\* Regression: the removal of a user is not logged.
AuditBansOnly(r) ==
    /\ req[r].at = "audit"
    /\ audit' = IF req[r].entry = "deleted" THEN audit
                ELSE [audit EXCEPT ![req[r].id] = req[r].entry]
    /\ Finish(r)
    /\ UNCHANGED <<user, merchant, second, changes, aborts, histories>>

Audit(r) ==
    /\ req[r].at = "audit"
    /\ audit' = [audit EXCEPT ![req[r].id] = req[r].entry]
    /\ Finish(r)
    /\ UNCHANGED <<user, merchant, second, changes, aborts, histories>>

-----------------------------------------------------------------------------
(* Time and failures *)

BanEnds(u) ==
    /\ user[u].banUntil = "ahead"
    /\ user' = [user EXCEPT ![u].banUntil = "over"]
    /\ sentence' = [sentence EXCEPT ![u] = "free"]
    /\ UNCHANGED <<merchant, audit, req, second, changes, aborts, undercut, stranded, contested,
                   sessions, gone>>

Tick ==
    /\ second < MaxSeconds
    /\ second' = second + 1
    /\ UNCHANGED <<user, merchant, audit, req, changes, aborts, histories>>

\* A database call fails, or the process dies: what was done stays.
Abort(r) ==
    /\ req[r].at # "idle"
    /\ aborts < MaxAborts
    /\ aborts' = aborts + 1
    /\ stranded' = IF req[r].at = "register_profile" THEN stranded \cup {req[r].id} ELSE stranded
    /\ contested' = IF req[r].at = "audit" THEN contested \cup {req[r].id} ELSE contested
    /\ Finish(r)
    /\ UNCHANGED <<user, merchant, audit, second, changes, sentence, undercut, sessions, gone>>

-----------------------------------------------------------------------------
Asked(r) ==
    \/ \E e \in Emails : \/ \E type \in {"user", "merchant"} : Register(r, e, type) \/ Login(r, e, type)
                         \/ SocialAuth(r, e)
    \/ \E u \in Ids : \/ \E e \in Emails : UpdateEmail(r, u, e)
                      \/ \E timed \in BOOLEAN : banUser(r, u, timed)
                      \/ unbanUser(r, u) \/ adminDeleteUser(r, u)

HandlerStep(r) ==
    \/ RegisterSave(r) \/ RegisterProfile(r)
    \/ LoginLift(r) \/ LoginRole(r) \/ LoginPush(r)
    \/ SocialCreate(r) \/ SocialPush(r) \/ EmailSave(r) \/ Audit(r)

Next ==
    \/ \E r \in Reqs : (Free(r) /\ Asked(r)) \/ HandlerStep(r) \/ Abort(r)
    \/ \E u \in Ids : BanEnds(u) \/ \E token \in Tokens : logout(u, token)
    \/ Tick

Spec == Init /\ [][Next]_vars

-----------------------------------------------------------------------------
(* Properties *)

\* Every variable stays within its type.
TypeOK ==
    /\ user \in [Ids -> User]
    /\ merchant \subseteq Ids
    /\ audit \in [Ids -> Entry]
    /\ req \in [Reqs -> Request]
    /\ second \in 1..MaxSeconds
    /\ changes \in 0..MaxChanges
    /\ aborts \in 0..MaxAborts
    /\ sentence \in [Ids -> {"free", "timed", "permanent"}]
    /\ undercut \cup stranded \cup contested \cup gone \subseteq Ids
    /\ sessions \subseteq Ids \X Tokens

\* No two accounts share an email, whichever of registering, signing in with a provider
\* and changing the email race for it (the unique index on email).
OneAccountPerEmail == \A e \in Emails : Cardinality(WithEmail(e)) <= 1

\* A ban with an end keeps its date until the end comes or an admin lifts it, whatever
\* logins run beside it, unless one was lifting an earlier ban when it was placed
\* (login, banUser).
BanHolds ==
    \A u \in Ids : sentence[u] = "timed" /\ Here(u) /\ u \notin undercut =>
        user[u].isBanned /\ user[u].banUntil = "ahead"

\* A ban without a duration is permanent (the comments on banUser and on banUntil).
BanIsPermanent ==
    \A u \in Ids : sentence[u] = "permanent" /\ Here(u) => user[u].isBanned

\* A merchant has a store profile, unless the registration is under way or failed
\* between the two inserts; and only merchants have one (register).
MerchantHasProfile ==
    \A u \in Ids :
        /\ Here(u) /\ user[u].accountType = "merchant" =>
             \/ u \in merchant \cup stranded
             \/ \E r \in Reqs : req[r].at = "register_profile" /\ req[r].id = u
        /\ u \in merchant => u \in gone \/ user[u].accountType = "merchant"

\* The refresh tokens that work are those given to a client and not logged out: no
\* login, save or logout beside it drops the session of another or revives one
\* (login, logout, refreshToken).
SessionsExact ==
    \A u \in Ids, t \in Tokens : Here(u) => (refreshToken(u, t) <=> <<u, t>> \in sessions)

\* The latest entry of the audit log tells that a banned user was banned and a removed
\* one removed, unless changes by admins overlapped or an entry failed (banUser,
\* unbanUser, adminDeleteUser).
AuditTellsState ==
    \A u \in Ids : Changing(u) = {} /\ u \notin contested =>
        /\ Here(u) /\ user[u].isBanned => audit[u] = "banned"
        /\ u \in gone <=> audit[u] = "deleted"

\* Bans hold, and the audit log tells of them, whatever logins and admins do at once.
BansSound == BanHolds /\ AuditTellsState

\* Accounts are whole: one for an email, a profile for a merchant, and the sessions that
\* were opened and not closed.
AccountsSound == OneAccountPerEmail /\ MerchantHasProfile /\ SessionsExact
=============================================================================
