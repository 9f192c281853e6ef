---------------------------- MODULE AccountsProofs ----------------------------
(* Proofs about Accounts: bans hold and the audit log tells of them, and accounts  *)
(* are whole, for any number of emails, accounts, handlers and tokens.             *)
EXTENDS Accounts, FiniteSetTheorems, TLAPS

\* Accounts have an email of their own, those deleted are gone for good, and nothing is
\* decided about one that was never created.
UsersOK ==
    /\ \A u \in Ids : Here(u) => user[u].email \in Emails
    /\ \A u, w \in Ids : Here(u) /\ Here(w) /\ user[u].email = user[w].email => u = w
    /\ \A u \in gone : ~Here(u)
    /\ \A u \in Ids \ gone : ~Here(u) =>
         sentence[u] = "free" /\ \A t \in Tokens : <<u, t>> \notin sessions

\* No ban with an end is in force that a login under way is about to lift.
LiftOK(u) == sentence[u] = "timed" /\ Here(u) => u \in undercut

ProfileOK(u) == u \in gone \/ user[u].accountType = "merchant"

EmailStep == {"register_save", "social_create", "email_save"}
IdStep == {"register_profile", "login_lift", "login_role", "login_push", "social_push",
           "email_save", "audit"}

RequestOK(q) ==
    /\ q.at \in EmailStep => q.email \in Emails
    /\ q.at \in IdStep => q.id \in Ids
    /\ q.at = "audit" => q.entry # "none"
    /\ q.at = "register_profile" => ProfileOK(q.id)
    /\ q.at = "login_lift" => LiftOK(q.id)

RequestsOK == \A r \in Reqs : RequestOK(req[r])

\* What an entry tells of a user.
Tells(u, entry) ==
    /\ Here(u) /\ user[u].isBanned => entry = "banned"
    /\ u \in gone <=> entry = "deleted"

\* The entry on a user that is the latest, or about to be, tells the state.
AuditOK ==
    \A u \in Ids \ contested :
        /\ \A r, s \in Changing(u) : r = s
        /\ Changing(u) = {} => Tells(u, audit[u])
        /\ \A r \in Changing(u) : Tells(u, req[r].entry)

Inv ==
    /\ TypeOK /\ UsersOK /\ RequestsOK /\ AuditOK
    /\ BanHolds /\ MerchantHasProfile /\ SessionsExact

-----------------------------------------------------------------------------
(* What the steps have in common *)

LEMMA RequestIs ==
    ASSUME Inv, NEW r \in Reqs
    PROVE  req[r] \in Request /\ RequestOK(req[r])
  BY DEF Inv, TypeOK, RequestsOK

LEMMA NoUserIs ==
    ASSUME Assumptions
    PROVE  /\ NoUser \in User /\ NoUser.email = None /\ NoUser.accountType = "user"
           /\ NoUser.isBanned = FALSE /\ NoUser.refreshTokens = {} /\ None \notin Emails
  BY DEF Assumptions, NoUser, User, Role

LEMMA IdleIs ==
    ASSUME Assumptions
    PROVE  /\ Idle \in Request /\ Idle.at = "idle" /\ Idle.id = 0 /\ Idle.email = None
           /\ Idle.read = NoUser /\ Idle.entry = "none" /\ Idle.accountType = "user"
           /\ RequestOK(Idle) /\ RequestOK(Idle)'
  <1>1. /\ Idle \in Request /\ Idle.at = "idle" /\ Idle.id = 0 /\ Idle.email = None
        /\ Idle.read = NoUser /\ Idle.entry = "none" /\ Idle.accountType = "user"
    BY NoUserIs DEF Idle, Request, Step, Entry
  <1> QED
    BY <1>1 DEF RequestOK, EmailStep, IdStep

\* Where the emails are those of before, they are still one for each.
LEMMA EmailsKept ==
    ASSUME Assumptions, Inv, UNCHANGED gone,
           \A u \in Ids : user'[u].email = user[u].email /\ (Here(u)' <=> Here(u)),
           \A u \in Ids \ gone : ~Here(u) => sentence'[u] = sentence[u],
           \A u \in Ids \ gone : ~Here(u) =>
              \A t \in Tokens : <<u, t>> \in sessions' => <<u, t>> \in sessions
    PROVE  UsersOK'
  <1>1. gone \subseteq Ids
    BY DEF Inv, TypeOK
  <1> QED
    BY <1>1 DEF Inv, UsersOK

LEMMA BansKept ==
    ASSUME Inv,
           \A u \in Ids : sentence'[u] = "timed" /\ Here(u)' /\ u \notin undercut' =>
              /\ sentence[u] = "timed" /\ Here(u) /\ u \notin undercut
              /\ user'[u].isBanned = user[u].isBanned
              /\ user'[u].banUntil = user[u].banUntil
    PROVE  BanHolds'
  BY DEF Inv, BanHolds

LEMMA TellsKept ==
    ASSUME UNCHANGED gone, NEW u, NEW entry, Tells(u, entry),
           Here(u)' /\ user'[u].isBanned => Here(u) /\ user[u].isBanned
    PROVE  Tells(u, entry)'
  BY DEF Tells

\* Nobody is banned or removed, and the entries under way are those of before.
LEMMA AuditKept ==
    ASSUME Inv, UNCHANGED <<gone, audit>>, contested \subseteq contested',
           \A u \in Ids : Here(u)' /\ user'[u].isBanned => Here(u) /\ user[u].isBanned,
           \A u \in Ids \ contested' :
              /\ Changing(u)' = Changing(u)
              /\ \A r \in Changing(u) : req'[r] = req[r]
    PROVE  AuditOK'
  <1> SUFFICES ASSUME NEW u \in Ids \ contested'
               PROVE  /\ \A r, s \in Changing(u) : r = s
                      /\ Changing(u) = {} => Tells(u, audit[u])'
                      /\ \A r \in Changing(u) : Tells(u, req[r].entry)'
    BY DEF AuditOK
  <1>1. /\ \A r, s \in Changing(u) : r = s
        /\ Changing(u) = {} => Tells(u, audit[u])
        /\ \A r \in Changing(u) : Tells(u, req[r].entry)
    BY DEF Inv, AuditOK
  <1> QED
    BY <1>1 DEF Tells

\* Types of account stay, and registrations under way go on or are known to have failed.
LEMMA MerchantsKept ==
    ASSUME Inv, UNCHANGED <<merchant, gone>>, stranded \subseteq stranded',
           \A u \in Ids : user'[u].accountType = user[u].accountType /\ (Here(u)' => Here(u)),
           \A r \in Reqs : req[r].at = "register_profile" =>
              req'[r] = req[r] \/ req[r].id \in stranded'
    PROVE  MerchantHasProfile'
  BY DEF Inv, MerchantHasProfile

LEMMA SessionsKept ==
    ASSUME Inv, UNCHANGED sessions,
           \A u \in Ids : Here(u)' => Here(u) /\ user'[u].refreshTokens = user[u].refreshTokens
    PROVE  SessionsExact'
  BY DEF Inv, SessionsExact, refreshToken

\* What a request knows stays true while profiles and bans do.
LEMMA RequestKept ==
    ASSUME NEW q \in Request, RequestOK(q),
           \A u \in Ids : ProfileOK(u) => ProfileOK(u)',
           q.at = "login_lift" => (LiftOK(q.id) => LiftOK(q.id)')
    PROVE  RequestOK(q)'
  BY DEF RequestOK, IdStep

LEMMA RequestsKept ==
    ASSUME Inv, NEW r \in Reqs, NEW q \in Request, RequestOK(q)',
           req' = [req EXCEPT ![r] = q],
           \A u \in Ids : ProfileOK(u) => ProfileOK(u)',
           \A s \in Reqs \ {r}, u \in Ids :
              req[s].at = "login_lift" /\ req[s].id = u => (LiftOK(u) => LiftOK(u)')
    PROVE  RequestsOK'
  <1> SUFFICES ASSUME NEW s \in Reqs
               PROVE  \E p \in Request : p = req'[s] /\ RequestOK(p)'
    BY DEF RequestsOK, RequestOK, ProfileOK, LiftOK
  <1>1. req'[s] = IF s = r THEN q ELSE req[s]
    BY DEF Inv, TypeOK
  <1>2. CASE s = r
    BY <1>1, <1>2
  <1>3. CASE s # r
    <2>1. PICK p \in Request : p = req[s] /\ RequestOK(p)
      BY RequestIs
    <2>2. p.at = "login_lift" => (LiftOK(p.id) => LiftOK(p.id)')
      BY <1>3, <2>1 DEF RequestOK, IdStep
    <2>3. RequestOK(p)'
      BY <2>1, <2>2, RequestKept
    <2> QED
      BY <1>1, <1>3, <2>1, <2>3
  <1> QED
    BY <1>2, <1>3

\* A step of one request that decides nothing, and changes at most what its user has
\* besides the email, the type of account and the ban.
LEMMA Answered ==
    ASSUME Assumptions, Inv, NEW r \in Reqs, NEW q \in Request, RequestOK(q)',
           req' = [req EXCEPT ![r] = q],
           UNCHANGED <<merchant, audit, second, changes, aborts, sentence, undercut,
                       stranded, contested, gone>>,
           user' \in [Ids -> User],
           \A u \in Ids : /\ user'[u].accountType = user[u].accountType
                          /\ Here(u)' <=> Here(u)
                          /\ user'[u].isBanned => user[u].isBanned
                          /\ sentence[u] = "timed" /\ Here(u) /\ u \notin undercut =>
                               /\ user'[u].isBanned = user[u].isBanned
                               /\ user'[u].banUntil = user[u].banUntil,
           req[r].at \notin {"audit", "register_profile"}, q.at # "audit",
           UsersOK', SessionsExact', sessions' \subseteq Ids \X Tokens
    PROVE  Inv'
  <1>1. TypeOK'
    <2>1. req' \in [Reqs -> Request]
      BY DEF Inv, TypeOK
    <2>2. /\ merchant' = merchant /\ audit' = audit /\ second' = second
          /\ changes' = changes /\ aborts' = aborts /\ sentence' = sentence
          /\ undercut' = undercut /\ stranded' = stranded /\ contested' = contested
          /\ gone' = gone
      OBVIOUS
    <2> QED
      BY <2>1, <2>2 DEF Inv, TypeOK
  <1>2. \A s \in Reqs : req'[s] = IF s = r THEN q ELSE req[s]
    BY DEF Inv, TypeOK
  <1>3. RequestsOK'
    <2>1. \A u \in Ids : (ProfileOK(u) => ProfileOK(u)') /\ (LiftOK(u) => LiftOK(u)')
      BY DEF ProfileOK, LiftOK
    <2> QED
      BY <2>1, RequestsKept
  <1>4. AuditOK'
    <2>1. \A u \in Ids : /\ Changing(u)' = Changing(u)
                         /\ \A s \in Changing(u) : req'[s] = req[s]
      BY <1>2 DEF Changing
    <2> QED
      BY <2>1, AuditKept
  <1>5. BanHolds'
    BY BansKept
  <1>6. MerchantHasProfile'
    <2>1. \A s \in Reqs : req[s].at = "register_profile" => req'[s] = req[s]
      BY <1>2
    <2> QED
      BY <2>1, MerchantsKept
  <1> QED
    BY <1>1, <1>3, <1>4, <1>5, <1>6 DEF Inv

\* A step of one request that changes nothing else.
LEMMA Aside ==
    ASSUME Assumptions, Inv, NEW r \in Reqs, NEW q \in Request, RequestOK(q)',
           req' = [req EXCEPT ![r] = q],
           UNCHANGED <<user, merchant, audit, second, changes, aborts, sentence, undercut,
                       stranded, contested, gone, sessions>>,
           req[r].at \notin {"audit", "register_profile"}, q.at # "audit"
    PROVE  Inv'
  <1>1. \A u \in Ids : Here(u)' <=> Here(u)
    BY DEF Here
  <1>2. UsersOK'
    BY <1>1, EmailsKept
  <1>3. SessionsExact'
    BY <1>1, SessionsKept
  <1>4. user' \in [Ids -> User] /\ sessions' \subseteq Ids \X Tokens
    BY DEF Inv, TypeOK
  <1> QED
    BY <1>1, <1>2, <1>3, <1>4, Answered

-----------------------------------------------------------------------------
(* Requests begin *)

LEMMA RegisterInv ==
    ASSUME Assumptions, Inv, NEW r \in Reqs, NEW e \in Emails, NEW type \in {"user", "merchant"},
           Register(r, e, type)
    PROVE  Inv'
  <1> DEFINE q == [Idle EXCEPT !.at = "register_save", !.email = e, !.accountType = type]
  <1>1. /\ req[r].at = "idle" /\ req' = [req EXCEPT ![r] = q]
        /\ UNCHANGED <<user, merchant, audit, second, changes, aborts, sentence, undercut,
                       stranded, contested, gone, sessions>>
    BY DEF Register, Begin, Free, histories
  <1>2. q \in Request /\ q.at = "register_save" /\ q.email = e
    BY IdleIs DEF Request, Step
  <1> HIDE DEF q
  <1>3. RequestOK(q)'
    BY <1>2 DEF RequestOK, EmailStep, IdStep
  <1> QED
    BY <1>1, <1>2, <1>3, Aside

LEMMA SocialAuthInv ==
    ASSUME Assumptions, Inv, NEW r \in Reqs, NEW e \in Emails, SocialAuth(r, e)
    PROVE  Inv'
  <1>1. /\ req[r].at = "idle"
        /\ UNCHANGED <<user, merchant, audit, second, changes, aborts, sentence, undercut,
                       stranded, contested, gone, sessions>>
    BY DEF SocialAuth, Begin, Free, histories
  <1>2. PICK q \in Request : /\ req' = [req EXCEPT ![r] = q]
                             /\ \/ q.at = "social_create" /\ q.email = e
                                \/ q.at = "social_push" /\ q.id \in Ids
    <2>1. CASE WithEmail(e) = {}
      <3> DEFINE q == [Idle EXCEPT !.at = "social_create", !.email = e]
      <3>1. q \in Request /\ q.at = "social_create" /\ q.email = e
        BY IdleIs DEF Request, Step
      <3>2. req' = [req EXCEPT ![r] = q]
        BY <2>1 DEF SocialAuth, Begin
      <3> HIDE DEF q
      <3> QED
        BY <3>1, <3>2
    <2>2. CASE WithEmail(e) # {}
      <3>1. PICK u \in WithEmail(e) :
               req' = [req EXCEPT ![r] = [Idle EXCEPT !.at = "social_push", !.id = u]]
        BY <2>2 DEF SocialAuth, Begin
      <3> DEFINE q == [Idle EXCEPT !.at = "social_push", !.id = u]
      <3>2. q \in Request /\ q.at = "social_push" /\ q.id \in Ids
        BY IdleIs DEF Request, Step, WithEmail
      <3>3. req' = [req EXCEPT ![r] = q]
        BY <3>1
      <3> HIDE DEF q
      <3> QED
        BY <3>2, <3>3
    <2> QED
      BY <2>1, <2>2
  <1>3. RequestOK(q)'
    BY <1>2 DEF RequestOK, EmailStep, IdStep
  <1>4. q.at # "audit"
    BY <1>2
  <1> QED
    BY <1>1, <1>2, <1>3, <1>4, Aside

LEMMA UpdateEmailInv ==
    ASSUME Assumptions, Inv, NEW r \in Reqs, NEW u \in Ids, NEW e \in Emails,
           UpdateEmail(r, u, e)
    PROVE  Inv'
  <1> DEFINE q == [Idle EXCEPT !.at = "email_save", !.id = u, !.email = e]
  <1>1. /\ req[r].at = "idle" /\ req' = [req EXCEPT ![r] = q]
        /\ UNCHANGED <<user, merchant, audit, second, changes, aborts, sentence, undercut,
                       stranded, contested, gone, sessions>>
    BY DEF UpdateEmail, Begin, Free, histories
  <1>2. q \in Request /\ q.at = "email_save" /\ q.email = e /\ q.id = u
    BY IdleIs DEF Request, Step
  <1> HIDE DEF q
  <1>3. RequestOK(q)'
    BY <1>2 DEF RequestOK, EmailStep, IdStep
  <1> QED
    BY <1>1, <1>2, <1>3, Aside

\* What a login looks at, at each of its steps.
LEMMA LoginAtIs ==
    ASSUME Assumptions, NEW at \in {"login_lift", "login_role", "login_push"}, NEW u \in Ids,
           NEW doc \in User, NEW type \in {"user", "merchant"}
    PROVE  /\ LoginAt(at, u, doc, type) \in Request
           /\ LoginAt(at, u, doc, type).at = at /\ LoginAt(at, u, doc, type).id = u
  BY IdleIs, NoUserIs DEF LoginAt, Request, Step

\* A ban that runs keeps logins out: none lifts it.
LEMMA LoginInv ==
    ASSUME Assumptions, Inv, NEW r \in Reqs, NEW e \in Emails, NEW type \in {"user", "merchant"},
           Login(r, e, type)
    PROVE  Inv'
  <1>1. /\ req[r].at = "idle"
        /\ UNCHANGED <<user, merchant, audit, second, changes, aborts, sentence, undercut,
                       stranded, contested, gone, sessions>>
    BY DEF Login, Begin, Free, histories
  <1>2. PICK u \in Ids :
           /\ ~(user[u].isBanned /\ user[u].banUntil = "ahead")
           /\ LET at == IF user[u].isBanned THEN "login_lift" ELSE AfterBan(user[u], type)
              IN  /\ at # "idle"
                  /\ Begin(r, LoginAt(at, u, user[u], type))
    BY DEF Login, WithEmail
  <1>3. PICK at \in {"login_lift", "login_role", "login_push"} :
           Begin(r, LoginAt(at, u, user[u], type))
    BY <1>2 DEF AfterBan
  <1>4. user[u] \in User
    BY DEF Inv, TypeOK
  <1>5. PICK q \in Request : /\ q.at = at /\ q.id = u
                             /\ req' = [req EXCEPT ![r] = q]
    <2> DEFINE begun == LoginAt(at, u, user[u], type)
    <2>1. begun \in Request /\ begun.at = at /\ begun.id = u
      BY <1>4, LoginAtIs
    <2>2. req' = [req EXCEPT ![r] = begun]
      BY <1>3 DEF Begin
    <2> HIDE DEF begun
    <2> QED
      BY <2>1, <2>2
  <1>6. LiftOK(u)'
    BY <1>1, <1>2 DEF Inv, BanHolds, LiftOK, Here
  <1>7. RequestOK(q)'
    BY <1>5, <1>6 DEF RequestOK, EmailStep, IdStep
  <1>8. q.at # "audit"
    BY <1>5
  <1> QED
    BY <1>1, <1>5, <1>7, <1>8, Aside

-----------------------------------------------------------------------------
(* Requests go on *)

\* An account is created, with a profile to come when it is one of a merchant.
LEMMA CreatedInv ==
    ASSUME Assumptions, Inv, NEW r \in Reqs, NEW u \in Ids, Fresh(u),
           NEW q \in Request, req' = [req EXCEPT ![r] = q],
           NEW doc \in User, user' = [user EXCEPT ![u] = doc],
           doc.email \in Emails, WithEmail(doc.email) = {}, ~doc.isBanned,
           doc.refreshTokens = {},
           req[r].at \in {"register_save", "social_create"},
           q.at \in {"idle", "register_profile", "social_push"},
           q.at # "idle" => q.id = u,
           (doc.accountType = "merchant") <=> (q.at = "register_profile"),
           UNCHANGED <<merchant, audit, second, changes, aborts, sentence, undercut,
                       stranded, contested, gone, sessions>>
    PROVE  Inv'
  <1>1. /\ u \notin gone /\ user[u] = NoUser /\ doc # NoUser
        /\ user' \in [Ids -> User] /\ user'[u] = doc
        /\ \A w \in Ids : w # u => user'[w] = user[w]
    BY NoUserIs DEF Fresh, Here, Inv, TypeOK
  <1>2. \A s \in Reqs : req'[s] = IF s = r THEN q ELSE req[s]
    BY DEF Inv, TypeOK
  <1>3. sentence[u] = "free" /\ \A t \in Tokens : <<u, t>> \notin sessions
    BY <1>1 DEF Inv, UsersOK, Here
  <1>4. TypeOK'
    <2>1. req' \in [Reqs -> Request]
      BY DEF Inv, TypeOK
    <2>2. /\ merchant' = merchant /\ audit' = audit /\ second' = second
          /\ changes' = changes /\ aborts' = aborts /\ sentence' = sentence
          /\ undercut' = undercut /\ stranded' = stranded /\ contested' = contested
          /\ gone' = gone /\ sessions' = sessions
      OBVIOUS
    <2> QED
      BY <1>1, <2>1, <2>2 DEF Inv, TypeOK
  <1>5. \A w \in Ids : Here(w)' <=> (Here(w) \/ w = u)
    BY <1>1 DEF Here
  <1>6. UsersOK'
    <2>1. \A w \in Ids : user[w].email # doc.email
      BY DEF WithEmail
    <2>2. gone \subseteq Ids
      BY DEF Inv, TypeOK
    <2> QED
      BY <1>1, <1>5, <2>1, <2>2 DEF Inv, UsersOK
  <1>7. u \notin merchant
    BY <1>1, NoUserIs DEF Inv, MerchantHasProfile
  <1>8. RequestsOK'
    <2>1. \A w \in Ids : ProfileOK(w) => ProfileOK(w)'
      BY <1>1, NoUserIs DEF ProfileOK
    <2>2. \A w \in Ids : LiftOK(w) => LiftOK(w)'
      BY <1>3, <1>5 DEF LiftOK
    <2>3. RequestOK(q)'
      BY <1>1 DEF RequestOK, EmailStep, IdStep, ProfileOK
    <2> QED
      BY <2>1, <2>2, <2>3, RequestsKept
  <1>9. AuditOK'
    <2>1. \A w \in Ids : /\ Changing(w)' = Changing(w)
                         /\ \A s \in Changing(w) : req'[s] = req[s]
      BY <1>2 DEF Changing
    <2>2. \A w \in Ids : Here(w)' /\ user'[w].isBanned => Here(w) /\ user[w].isBanned
      BY <1>1, <1>5
    <2> QED
      BY <2>1, <2>2, AuditKept
  <1>10. BanHolds'
    BY <1>1, <1>3, <1>5, BansKept
  <1>11. MerchantHasProfile'
    <2> SUFFICES ASSUME NEW w \in Ids
                 PROVE  /\ Here(w)' /\ user'[w].accountType = "merchant" =>
                             \/ w \in merchant \cup stranded
                             \/ \E s \in Reqs : /\ req'[s].at = "register_profile"
                                                /\ req'[s].id = w
                        /\ w \in merchant => w \in gone \/ user'[w].accountType = "merchant"
      BY DEF MerchantHasProfile
    <2>1. CASE w = u
      BY <1>1, <1>2, <1>7, <2>1
    <2>2. CASE w # u
      BY <1>1, <1>2, <1>5, <2>2 DEF Inv, MerchantHasProfile
    <2> QED
      BY <2>1, <2>2
  <1>12. SessionsExact'
    BY <1>1, <1>3, <1>5 DEF Inv, SessionsExact, refreshToken
  <1> QED
    BY <1>4, <1>6, <1>8, <1>9, <1>10, <1>11, <1>12 DEF Inv

LEMMA RegisterSaveInv ==
    ASSUME Assumptions, Inv, NEW r \in Reqs, RegisterSave(r)
    PROVE  Inv'
  <1>1. PICK old \in Request : old = req[r] /\ RequestOK(old) /\ old.at = "register_save"
    BY RequestIs DEF RegisterSave
  <1>2. old.email \in Emails /\ old.accountType \in {"user", "merchant"}
    BY <1>1 DEF RequestOK, EmailStep, Request
  <1>3. UNCHANGED <<merchant, audit, second, changes, aborts, sentence, undercut,
                    stranded, contested, gone, sessions>>
    BY DEF RegisterSave, histories
  <1>4. CASE WithEmail(old.email) # {}
    <2>1. req' = [req EXCEPT ![r] = Idle] /\ UNCHANGED user
      BY <1>1, <1>4 DEF RegisterSave, Finish
    <2> QED
      BY <1>1, <1>3, <2>1, IdleIs, Aside
  <1>5. CASE WithEmail(old.email) = {}
    <2> DEFINE doc == [NoUser EXCEPT !.email = old.email, !.accountType = old.accountType,
                                     !.role = AssignedRole(old.email, old.accountType)]
    <2>1. PICK u \in Ids :
             /\ Fresh(u)
             /\ user' = [user EXCEPT ![u] = doc]
             /\ IF old.accountType = "merchant" THEN Continue(r, "register_profile", u)
                ELSE Finish(r)
      BY <1>1, <1>5 DEF RegisterSave
    <2>2. /\ doc \in User /\ doc.email = old.email /\ doc.accountType = old.accountType
          /\ ~doc.isBanned /\ doc.refreshTokens = {}
      BY <1>2, NoUserIs DEF User, Role, AssignedRole
    <2>3. PICK q \in Request : /\ req' = [req EXCEPT ![r] = q]
                               /\ q.at \in {"idle", "register_profile"}
                               /\ q.at # "idle" => q.id = u
                               /\ (old.accountType = "merchant") <=> (q.at = "register_profile")
      <3>1. CASE old.accountType = "merchant"
        <4> DEFINE q == [Idle EXCEPT !.at = "register_profile", !.id = u]
        <4>1. q \in Request /\ q.at = "register_profile" /\ q.id = u
          BY IdleIs DEF Request, Step
        <4>2. req' = [req EXCEPT ![r] = q]
          BY <2>1, <3>1 DEF Continue
        <4> HIDE DEF q
        <4> QED
          BY <3>1, <4>1, <4>2
      <3>2. CASE old.accountType # "merchant"
        BY <2>1, <3>2, IdleIs DEF Finish
      <3> QED
        BY <3>1, <3>2
    <2> HIDE DEF doc
    <2>4. q.at \in {"idle", "register_profile", "social_push"}
      BY <2>3
    <2> QED
      BY <1>1, <1>2, <1>3, <1>5, <2>1, <2>2, <2>3, <2>4, CreatedInv
  <1> QED
    BY <1>4, <1>5

LEMMA SocialCreateInv ==
    ASSUME Assumptions, Inv, NEW r \in Reqs, SocialCreate(r)
    PROVE  Inv'
  <1>1. PICK old \in Request : old = req[r] /\ RequestOK(old) /\ old.at = "social_create"
    BY RequestIs DEF SocialCreate
  <1>2. old.email \in Emails
    BY <1>1 DEF RequestOK, EmailStep
  <1>3. UNCHANGED <<merchant, audit, second, changes, aborts, sentence, undercut,
                    stranded, contested, gone, sessions>>
    BY DEF SocialCreate, histories
  <1>4. CASE WithEmail(old.email) # {}
    <2>1. req' = [req EXCEPT ![r] = Idle] /\ UNCHANGED user
      BY <1>1, <1>4 DEF SocialCreate, Finish
    <2> QED
      BY <1>1, <1>3, <2>1, IdleIs, Aside
  <1>5. CASE WithEmail(old.email) = {}
    <2> DEFINE doc == [NoUser EXCEPT !.email = old.email]
    <2>1. PICK u \in Ids : /\ Fresh(u)
                           /\ user' = [user EXCEPT ![u] = doc]
                           /\ Continue(r, "social_push", u)
      BY <1>1, <1>5 DEF SocialCreate
    <2>2. /\ doc \in User /\ doc.email = old.email /\ doc.accountType = "user"
          /\ ~doc.isBanned /\ doc.refreshTokens = {}
      BY <1>2, NoUserIs DEF User
    <2> DEFINE q == [Idle EXCEPT !.at = "social_push", !.id = u]
    <2>3. q \in Request /\ q.at = "social_push" /\ q.id = u
      BY IdleIs DEF Request, Step
    <2>4. req' = [req EXCEPT ![r] = q]
      BY <2>1 DEF Continue
    <2> HIDE DEF doc, q
    <2> QED
      BY <1>1, <1>2, <1>3, <1>5, <2>1, <2>2, <2>3, <2>4, CreatedInv
  <1> QED
    BY <1>4, <1>5

LEMMA RegisterProfileInv ==
    ASSUME Assumptions, Inv, NEW r \in Reqs, RegisterProfile(r)
    PROVE  Inv'
  <1>1. PICK old \in Request : old = req[r] /\ RequestOK(old) /\ old.at = "register_profile"
    BY RequestIs DEF RegisterProfile
  <1>2. PICK u \in Ids : u = old.id /\ ProfileOK(u)
    BY <1>1 DEF RequestOK, IdStep
  <1>3. /\ merchant' = merchant \cup {u} /\ req' = [req EXCEPT ![r] = Idle]
        /\ UNCHANGED <<user, audit, second, changes, aborts, sentence, undercut,
                       stranded, contested, gone, sessions>>
    BY <1>1, <1>2 DEF RegisterProfile, Finish, histories
  <1>4. \A s \in Reqs : req'[s] = IF s = r THEN Idle ELSE req[s]
    BY <1>3 DEF Inv, TypeOK
  <1>5. \A w \in Ids : Here(w)' <=> Here(w)
    BY <1>3 DEF Here
  <1>6. TypeOK'
    <2>1. req' \in [Reqs -> Request] /\ merchant' \subseteq Ids
      BY <1>3, IdleIs DEF Inv, TypeOK
    <2>2. /\ user' = user /\ audit' = audit /\ second' = second
          /\ changes' = changes /\ aborts' = aborts /\ sentence' = sentence
          /\ undercut' = undercut /\ stranded' = stranded /\ contested' = contested
          /\ gone' = gone /\ sessions' = sessions
      BY <1>3
    <2> QED
      BY <2>1, <2>2 DEF Inv, TypeOK
  <1>7. UsersOK' /\ BanHolds' /\ SessionsExact'
    BY <1>3, <1>5, EmailsKept, BansKept, SessionsKept
  <1>8. RequestsOK'
    <2>1. \A w \in Ids : (ProfileOK(w) => ProfileOK(w)') /\ (LiftOK(w) => LiftOK(w)')
      BY <1>3, <1>5 DEF ProfileOK, LiftOK
    <2> QED
      BY <1>3, <2>1, IdleIs, RequestsKept
  <1>9. AuditOK'
    <2>1. \A w \in Ids : /\ Changing(w)' = Changing(w)
                         /\ \A s \in Changing(w) : req'[s] = req[s]
      BY <1>1, <1>4, IdleIs DEF Changing
    <2> QED
      BY <1>3, <1>5, <2>1, AuditKept
  <1>10. MerchantHasProfile'
    <2> SUFFICES ASSUME NEW w \in Ids
                 PROVE  /\ Here(w) /\ user[w].accountType = "merchant" =>
                             \/ w \in merchant' \cup stranded
                             \/ \E s \in Reqs : /\ req'[s].at = "register_profile"
                                                /\ req'[s].id = w
                        /\ w \in merchant' => w \in gone \/ user[w].accountType = "merchant"
      BY <1>3, <1>5 DEF MerchantHasProfile
    <2>1. CASE w = u
      BY <1>2, <1>3, <2>1 DEF ProfileOK
    <2>2. CASE w # u
      BY <1>1, <1>2, <1>3, <1>4, <2>2 DEF Inv, MerchantHasProfile
    <2> QED
      BY <2>1, <2>2
  <1> QED
    BY <1>6, <1>7, <1>8, <1>9, <1>10 DEF Inv

\* A step of one request that changes, of one account, neither email nor type, lifts a
\* ban at most, and gives a token at most.
LEMMA DocInv ==
    ASSUME Assumptions, Inv, NEW r \in Reqs, NEW q \in Request, RequestOK(q)',
           req' = [req EXCEPT ![r] = q],
           NEW u \in Ids, Here(u), NEW doc \in User, user' = [user EXCEPT ![u] = doc],
           doc.email = user[u].email, doc.accountType = user[u].accountType,
           doc.isBanned => user[u].isBanned,
           LiftOK(u) \/ (doc.isBanned = user[u].isBanned /\ doc.banUntil = user[u].banUntil),
           UNCHANGED <<merchant, audit, second, changes, aborts, sentence, undercut,
                       stranded, contested, gone>>,
           \/ doc.refreshTokens = user[u].refreshTokens /\ UNCHANGED sessions
           \/ \E t \in Tokens : /\ doc.refreshTokens = user[u].refreshTokens \cup {t}
                                /\ sessions' = sessions \cup {<<u, t>>},
           req[r].at \notin {"audit", "register_profile"}, q.at # "audit"
    PROVE  Inv'
  <1>1. /\ user' \in [Ids -> User] /\ user'[u] = doc /\ doc # NoUser
        /\ \A w \in Ids : w # u => user'[w] = user[w]
    BY NoUserIs DEF Inv, TypeOK, UsersOK
  <1>2. \A w \in Ids : Here(w)' <=> Here(w)
    BY <1>1 DEF Here
  <1>3. \A w \in Ids : /\ user'[w].accountType = user[w].accountType
                       /\ user'[w].email = user[w].email
                       /\ user'[w].isBanned => user[w].isBanned
                       /\ sentence[w] = "timed" /\ Here(w) /\ w \notin undercut =>
                            /\ user'[w].isBanned = user[w].isBanned
                            /\ user'[w].banUntil = user[w].banUntil
    BY <1>1 DEF LiftOK
  <1>4. \A w \in Ids, t \in Tokens : w # u => (<<w, t>> \in sessions' <=> <<w, t>> \in sessions)
    OBVIOUS
  <1>5. UsersOK'
    BY <1>2, <1>3, <1>4, EmailsKept
  <1>6. SessionsExact'
    <2> SUFFICES ASSUME NEW w \in Ids, NEW t \in Tokens, Here(w)
                 PROVE  t \in user'[w].refreshTokens <=> <<w, t>> \in sessions'
      BY <1>2 DEF SessionsExact, refreshToken
    <2>1. t \in user[w].refreshTokens <=> <<w, t>> \in sessions
      BY DEF Inv, SessionsExact, refreshToken
    <2> QED
      BY <1>1, <1>4, <2>1
  <1>7. sessions' \subseteq Ids \X Tokens
    BY DEF Inv, TypeOK
  <1> QED
    BY <1>1, <1>2, <1>3, <1>5, <1>6, <1>7, Answered

LEMMA LoginLiftInv ==
    ASSUME Assumptions, Inv, NEW r \in Reqs, LoginLift(r)
    PROVE  Inv'
  <1>1. PICK old \in Request : old = req[r] /\ RequestOK(old) /\ old.at = "login_lift"
    BY RequestIs DEF LoginLift
  <1>2. PICK u \in Ids : u = old.id /\ LiftOK(u)
    BY <1>1 DEF RequestOK, IdStep
  <1>3. /\ user' = IF Here(u) THEN [user EXCEPT ![u] = Unbanned(@)] ELSE user
        /\ UNCHANGED <<merchant, audit, second, changes, aborts, sentence, undercut,
                       stranded, contested, gone>>
        /\ UNCHANGED sessions
    BY <1>1, <1>2 DEF LoginLift, histories
  <1>4. PICK q \in Request : /\ req' = [req EXCEPT ![r] = q]
                             /\ q.at \in {"idle", "login_role", "login_push"}
                             /\ q.at # "idle" => q.id = u
    <2> DEFINE at == AfterBan(old.read, old.accountType)
    <2>1. CASE at = "idle"
      BY <1>1, <2>1, IdleIs DEF LoginLift, Finish
    <2>2. CASE at # "idle"
      <3> DEFINE begun == LoginAt(at, u, old.read, old.accountType)
      <3>1. at \in {"login_role", "login_push"}
        BY <2>2 DEF AfterBan
      <3>2. begun \in Request /\ begun.at = at /\ begun.id = u
        <4>1. old.read \in User /\ old.accountType \in {"user", "merchant"}
          BY DEF Request
        <4> QED
          BY <3>1, <4>1, LoginAtIs
      <3>3. req' = [req EXCEPT ![r] = begun]
        BY <1>1, <1>2, <2>2 DEF LoginLift, Inv, TypeOK
      <3> HIDE DEF begun, at
      <3> QED
        BY <3>1, <3>2, <3>3
    <2> QED
      BY <2>1, <2>2
  <1>5. RequestOK(q)'
    BY <1>4 DEF RequestOK, EmailStep, IdStep
  <1>6. req[r].at \notin {"audit", "register_profile"} /\ q.at # "audit"
    BY <1>1, <1>4
  <1>7. CASE Here(u)
    <2> DEFINE doc == Unbanned(user[u])
    <2>1. user[u] \in User
      BY DEF Inv, TypeOK
    <2>2. /\ doc \in User /\ doc.email = user[u].email
          /\ doc.accountType = user[u].accountType /\ ~doc.isBanned
          /\ doc.refreshTokens = user[u].refreshTokens
      BY <2>1 DEF Unbanned, User
    <2>3. user' = [user EXCEPT ![u] = doc]
      BY <1>3, <1>7
    <2> HIDE DEF doc
    <2> QED
      BY <1>2, <1>3, <1>4, <1>5, <1>6, <1>7, <2>2, <2>3, DocInv, ZenonT(60)
  <1>8. CASE ~Here(u)
    <2>1. UNCHANGED user
      BY <1>3, <1>8
    <2> QED
      BY <1>3, <1>4, <1>5, <1>6, <2>1, Aside
  <1> QED
    BY <1>7, <1>8

LEMMA LoginRoleInv ==
    ASSUME Assumptions, Inv, NEW r \in Reqs, LoginRole(r)
    PROVE  Inv'
  <1>1. PICK old \in Request : old = req[r] /\ RequestOK(old) /\ old.at = "login_role"
    BY RequestIs DEF LoginRole
  <1>2. PICK u \in Ids : u = old.id
    BY <1>1 DEF RequestOK, IdStep
  <1>3. UNCHANGED <<merchant, audit, second, changes, aborts, sentence, undercut,
                    stranded, contested, gone, sessions>>
    BY DEF LoginRole, histories
  <1>4. CASE Here(u)
    <2> DEFINE mine == [old.read EXCEPT !.role = DueRole(old.read)]
               doc == Saved(user[u], old.read, mine)
               q == [Idle EXCEPT !.at = "login_push", !.id = u]
    <2>1. user' = [user EXCEPT ![u] = doc] /\ req' = [req EXCEPT ![r] = q]
      BY <1>1, <1>2, <1>4 DEF LoginRole, Continue
    <2>2. user[u] \in User /\ old.read \in User
      BY DEF Inv, TypeOK, Request
    <2>3. /\ DOMAIN user[u] = {"email", "role", "accountType", "isBanned", "banUntil",
                               "refreshTokens"}
          /\ mine.email = old.read.email /\ mine.accountType = old.read.accountType
          /\ mine.isBanned = old.read.isBanned /\ mine.banUntil = old.read.banUntil
          /\ mine.refreshTokens = old.read.refreshTokens
          /\ mine.role \in Role
      BY <2>2 DEF User, DueRole, Role
    <2>4. /\ q \in Request /\ q.at = "login_push" /\ q.id = u
      BY IdleIs DEF Request, Step
    <2> HIDE DEF mine, q
    <2>5. doc = [email |-> user[u].email,
                 role |-> IF mine.role = old.read.role THEN user[u].role ELSE mine.role,
                 accountType |-> user[u].accountType, isBanned |-> user[u].isBanned,
                 banUntil |-> user[u].banUntil, refreshTokens |-> user[u].refreshTokens]
      BY <2>2, <2>3 DEF Saved
    <2> HIDE DEF doc
    <2>6. /\ doc \in User /\ doc.email = user[u].email
          /\ doc.accountType = user[u].accountType /\ doc.isBanned = user[u].isBanned
          /\ doc.banUntil = user[u].banUntil /\ doc.refreshTokens = user[u].refreshTokens
      BY <2>2, <2>3, <2>5 DEF User
    <2>7. RequestOK(q)'
      BY <2>4 DEF RequestOK, EmailStep, IdStep
    <2>8. req[r].at \notin {"audit", "register_profile"} /\ q.at # "audit"
      BY <1>1, <2>4
    <2> QED
      BY <1>3, <1>4, <2>1, <2>4, <2>6, <2>7, <2>8, DocInv
  <1>5. CASE ~Here(u)
    <2>1. req' = [req EXCEPT ![r] = Idle] /\ UNCHANGED user
      BY <1>1, <1>2, <1>5 DEF LoginRole, Finish
    <2> QED
      BY <1>1, <1>3, <2>1, IdleIs, Aside
  <1> QED
    BY <1>4, <1>5

LEMMA PushInv ==
    ASSUME Assumptions, Inv, NEW r \in Reqs, NEW at \in {"login_push", "social_push"}, Push(r, at)
    PROVE  Inv'
  <1>1. PICK old \in Request : old = req[r] /\ RequestOK(old) /\ old.at = at
    BY RequestIs DEF Push
  <1>2. PICK u \in Ids : u = old.id
    BY <1>1 DEF RequestOK, IdStep
  <1>3. /\ UNCHANGED <<merchant, audit, second, changes, aborts, sentence, undercut,
                       stranded, contested, gone>>
        /\ req' = [req EXCEPT ![r] = Idle]
    BY DEF Push, Finish
  <1>4. CASE Here(u)
    <2> DEFINE doc == [user[u] EXCEPT !.refreshTokens = @ \cup {second}]
    <2>1. user[u] \in User /\ second \in Tokens
      BY DEF Inv, TypeOK, Tokens
    <2>2. user' = [user EXCEPT ![u] = doc] /\ sessions' = sessions \cup {<<u, second>>}
      BY <1>1, <1>2, <1>4, <2>1 DEF Push, Inv, TypeOK
    <2>3. /\ doc \in User /\ doc.email = user[u].email
          /\ doc.accountType = user[u].accountType /\ doc.isBanned = user[u].isBanned
          /\ doc.banUntil = user[u].banUntil
          /\ doc.refreshTokens = user[u].refreshTokens \cup {second}
      BY <2>1 DEF User
    <2> HIDE DEF doc
    <2> QED
      BY <1>1, <1>3, <1>4, <2>1, <2>2, <2>3, IdleIs, DocInv
  <1>5. CASE ~Here(u)
    <2>1. UNCHANGED user /\ UNCHANGED sessions
      BY <1>1, <1>2, <1>5 DEF Push
    <2> QED
      BY <1>1, <1>3, <2>1, IdleIs, Aside
  <1> QED
    BY <1>4, <1>5

LEMMA EmailSaveInv ==
    ASSUME Assumptions, Inv, NEW r \in Reqs, EmailSave(r)
    PROVE  Inv'
  <1>1. PICK old \in Request : old = req[r] /\ RequestOK(old) /\ old.at = "email_save"
    BY RequestIs DEF EmailSave
  <1>2. PICK u \in Ids : u = old.id
    BY <1>1 DEF RequestOK, IdStep
  <1>3. PICK e \in Emails : e = old.email
    BY <1>1 DEF RequestOK, EmailStep
  <1>4. /\ UNCHANGED <<merchant, audit, second, changes, aborts, sentence, undercut,
                       stranded, contested, gone, sessions>>
        /\ req' = [req EXCEPT ![r] = Idle]
        /\ user' = IF Here(u) /\ WithEmail(e) \subseteq {u}
                   THEN [user EXCEPT ![u].email = e] ELSE user
    BY <1>1, <1>2, <1>3 DEF EmailSave, Finish, histories
  <1>5. CASE Here(u) /\ WithEmail(e) \subseteq {u}
    <2>1. /\ user' \in [Ids -> User] /\ user'[u].email = e /\ user'[u] # NoUser
          /\ \A w \in Ids : /\ user'[w].accountType = user[w].accountType
                            /\ user'[w].isBanned = user[w].isBanned
                            /\ user'[w].banUntil = user[w].banUntil
                            /\ user'[w].refreshTokens = user[w].refreshTokens
                            /\ w # u => user'[w] = user[w]
      BY <1>4, <1>5, NoUserIs DEF Inv, TypeOK, User
    <2>2. \A w \in Ids : Here(w)' <=> Here(w)
      BY <1>5, <2>1 DEF Here
    <2>3. UsersOK'
      <3>1. \A w \in Ids : w # u => user[w].email # e
        BY <1>5 DEF WithEmail
      <3>2. gone \subseteq Ids
        BY DEF Inv, TypeOK
      <3> QED
        BY <1>4, <2>1, <2>2, <3>1, <3>2 DEF Inv, UsersOK
    <2>4. SessionsExact'
      BY <1>4, <2>1, <2>2, SessionsKept
    <2>5. sessions' \subseteq Ids \X Tokens
      BY <1>4 DEF Inv, TypeOK
    <2>6. req[r].at \notin {"audit", "register_profile"}
      BY <1>1
    <2> QED
      BY <1>4, <2>1, <2>2, <2>3, <2>4, <2>5, <2>6, IdleIs, Answered
  <1>6. CASE ~(Here(u) /\ WithEmail(e) \subseteq {u})
    <2>1. UNCHANGED user
      BY <1>4, <1>6
    <2> QED
      BY <1>1, <1>4, <2>1, IdleIs, Aside
  <1> QED
    BY <1>5, <1>6

\* The entry that is made is the one the change called for.
LEMMA AuditInv ==
    ASSUME Assumptions, Inv, NEW r \in Reqs, Audit(r)
    PROVE  Inv'
  <1>1. PICK old \in Request : old = req[r] /\ RequestOK(old) /\ old.at = "audit"
    BY RequestIs DEF Audit
  <1>2. PICK u \in Ids : u = old.id
    BY <1>1 DEF RequestOK, IdStep
  <1>3. /\ UNCHANGED <<user, merchant, second, changes, aborts, sentence, undercut,
                       stranded, contested, gone, sessions>>
        /\ req' = [req EXCEPT ![r] = Idle]
        /\ audit' = [audit EXCEPT ![u] = old.entry]
    BY <1>1, <1>2 DEF Audit, Finish, histories
  <1>4. \A s \in Reqs : req'[s] = IF s = r THEN Idle ELSE req[s]
    BY <1>3 DEF Inv, TypeOK
  <1>5. \A w \in Ids : Here(w)' <=> Here(w)
    BY <1>3 DEF Here
  <1>6. TypeOK'
    <2>1. req' \in [Reqs -> Request] /\ audit' \in [Ids -> Entry]
      BY <1>3, IdleIs DEF Inv, TypeOK, Request
    <2>2. /\ user' = user /\ merchant' = merchant /\ second' = second
          /\ changes' = changes /\ aborts' = aborts /\ sentence' = sentence
          /\ undercut' = undercut /\ stranded' = stranded /\ contested' = contested
          /\ gone' = gone /\ sessions' = sessions
      BY <1>3
    <2> QED
      BY <2>1, <2>2 DEF Inv, TypeOK
  <1>7. UsersOK' /\ BanHolds' /\ SessionsExact'
    BY <1>3, <1>5, EmailsKept, BansKept, SessionsKept
  <1>8. RequestsOK'
    <2>1. \A w \in Ids : (ProfileOK(w) => ProfileOK(w)') /\ (LiftOK(w) => LiftOK(w)')
      BY <1>3, <1>5 DEF ProfileOK, LiftOK
    <2> QED
      BY <1>3, <2>1, IdleIs, RequestsKept
  <1>9. MerchantHasProfile'
    <2>1. \A s \in Reqs : req[s].at = "register_profile" => req'[s] = req[s]
      BY <1>1, <1>4
    <2> QED
      BY <1>3, <1>5, <2>1, MerchantsKept
  <1>10. AuditOK'
    <2> SUFFICES ASSUME NEW w \in Ids \ contested
                 PROVE  /\ \A s, t \in Changing(w)' : s = t
                        /\ Changing(w)' = {} => Tells(w, audit[w])'
                        /\ \A s \in Changing(w)' : Tells(w, req[s].entry)'
      BY <1>3 DEF AuditOK
    <2>1. /\ \A s, t \in Changing(w) : s = t
          /\ Changing(w) = {} => Tells(w, audit[w])
          /\ \A s \in Changing(w) : Tells(w, req[s].entry)
      BY DEF Inv, AuditOK
    <2>2. \A s \in Changing(w)' : s \in Changing(w) /\ req'[s] = req[s]
      BY <1>4, IdleIs DEF Changing
    <2>3. CASE w = u
      <3>1. r \in Changing(w) /\ audit'[w] = old.entry
        BY <1>1, <1>2, <1>3, <2>3 DEF Changing, Inv, TypeOK
      <3>2. Changing(w)' = {}
        BY <1>4, <2>1, <2>2, <3>1, IdleIs DEF Changing
      <3>3. Tells(w, audit[w])'
        BY <1>1, <1>3, <2>1, <3>1 DEF Tells, Here
      <3> QED
        BY <3>2, <3>3
    <2>4. CASE w # u
      <3>1. Changing(w)' = Changing(w) /\ audit'[w] = audit[w]
        BY <1>1, <1>2, <1>3, <1>4, <2>4, IdleIs DEF Changing, Inv, TypeOK
      <3> QED
        BY <1>3, <2>1, <2>2, <3>1 DEF Tells, Here
    <2> QED
      BY <2>3, <2>4
  <1> QED
    BY <1>6, <1>7, <1>8, <1>9, <1>10 DEF Inv

-----------------------------------------------------------------------------
(* Admins *)

\* What the three changes have in common.
LEMMA ChangeInv ==
    ASSUME Assumptions, Inv, NEW r \in Reqs, NEW u \in Ids, NEW doc \in User,
           NEW entry \in Entry \ {"none"}, Change(r, u, doc, entry),
           doc = NoUser \/ (/\ doc.email = user[u].email
                            /\ doc.accountType = user[u].accountType
                            /\ doc.refreshTokens = user[u].refreshTokens),
           gone' = IF doc = NoUser THEN gone \cup {u} ELSE gone,
           doc = NoUser <=> entry = "deleted", doc.isBanned => entry = "banned",
           sentence' \in [Ids -> {"free", "timed", "permanent"}], undercut' \subseteq Ids,
           \A w \in Ids : w # u => /\ sentence'[w] = sentence[w]
                                   /\ w \in undercut' <=> w \in undercut,
           sentence'[u] = "timed" /\ doc # NoUser =>
              /\ doc.isBanned /\ doc.banUntil = "ahead"
              /\ Lifting(u) # {} => u \in undercut',
           UNCHANGED <<merchant, audit, second, aborts, stranded, sessions>>
    PROVE  Inv'
  <1> DEFINE q == [Idle EXCEPT !.at = "audit", !.id = u, !.entry = entry]
  <1>1. /\ Here(u) /\ req[r].at = "idle"
        /\ changes < MaxChanges /\ changes' = changes + 1
        /\ user' = [user EXCEPT ![u] = doc]
        /\ req' = [req EXCEPT ![r] = q]
        /\ contested' = IF Changing(u) = {} THEN contested ELSE contested \cup {u}
    BY DEF Change, Begin, Free
  <1>2. q \in Request /\ q.at = "audit" /\ q.id = u /\ q.entry = entry
    BY IdleIs DEF Request, Step
  <1> HIDE DEF q
  <1>3. \A s \in Reqs : req'[s] = IF s = r THEN q ELSE req[s]
    BY <1>1 DEF Inv, TypeOK
  <1>4. /\ user' \in [Ids -> User] /\ user'[u] = doc
        /\ \A w \in Ids : w # u => user'[w] = user[w]
    BY <1>1 DEF Inv, TypeOK
  <1>5. \A w \in Ids : /\ w # u => (Here(w)' <=> Here(w))
                       /\ Here(u)' <=> doc # NoUser
    BY <1>4 DEF Here
  <1>6. u \notin gone /\ gone \subseteq Ids
    BY <1>1 DEF Inv, UsersOK, TypeOK
  <1>7. TypeOK'
    <2>1. req' \in [Reqs -> Request]
      BY <1>1, <1>2 DEF Inv, TypeOK
    <2>2. changes' \in 0..MaxChanges
      BY <1>1 DEF Inv, TypeOK, Assumptions
    <2>3. contested' \subseteq Ids /\ gone' \subseteq Ids /\ stranded' \subseteq Ids
      BY <1>1, <1>6 DEF Inv, TypeOK
    <2>4. /\ merchant' = merchant /\ audit' = audit /\ second' = second
          /\ aborts' = aborts /\ sessions' = sessions
      OBVIOUS
    <2> QED
      BY <1>4, <2>1, <2>2, <2>3, <2>4 DEF Inv, TypeOK
  <1>8. UsersOK'
    <2>1. \A w \in Ids : Here(w)' => Here(w) /\ user'[w].email = user[w].email
      BY <1>1, <1>4, <1>5
    <2>2. \A w \in gone' : ~Here(w)'
      BY <1>5, <1>6 DEF Inv, UsersOK
    <2>3. \A w \in Ids \ gone' : ~Here(w)' =>
             sentence'[w] = "free" /\ \A t \in Tokens : <<w, t>> \notin sessions'
      BY <1>1, <1>5 DEF Inv, UsersOK
    <2> QED
      BY <2>1, <2>2, <2>3 DEF Inv, UsersOK
  <1>9. BanHolds'
    BY <1>4, <1>5 DEF Inv, BanHolds
  <1>10. RequestsOK'
    <2>1. \A w \in Ids : ProfileOK(w) => ProfileOK(w)'
      BY <1>1, <1>4, <1>6 DEF ProfileOK
    <2>2. \A w \in Ids : w # u => (LiftOK(w) => LiftOK(w)')
      BY <1>5 DEF LiftOK
    <2>3. \A s \in Reqs : req[s].at = "login_lift" /\ req[s].id = u => LiftOK(u)'
      BY <1>5 DEF LiftOK, Lifting
    <2>4. RequestOK(q)'
      BY <1>2 DEF RequestOK, EmailStep, IdStep
    <2>5. \A s \in Reqs \ {r}, w \in Ids :
             req[s].at = "login_lift" /\ req[s].id = w => (LiftOK(w) => LiftOK(w)')
      BY <2>2, <2>3
    <2> QED
      BY <1>1, <1>2, <2>1, <2>4, <2>5, RequestsKept
  <1>11. AuditOK'
    <2> SUFFICES ASSUME NEW w \in Ids \ contested'
                 PROVE  /\ \A s, t \in Changing(w)' : s = t
                        /\ Changing(w)' = {} => Tells(w, audit[w])'
                        /\ \A s \in Changing(w)' : Tells(w, req[s].entry)'
      BY DEF AuditOK
    <2>1. /\ w \notin contested
          /\ \A s, t \in Changing(w) : s = t
          /\ Changing(w) = {} => Tells(w, audit[w])
          /\ \A s \in Changing(w) : Tells(w, req[s].entry)
      BY <1>1 DEF Inv, AuditOK
    <2>2. CASE w = u
      <3>1. Changing(w) = {}
        BY <1>1, <2>2
      <3>2. Changing(w)' = {r}
        BY <1>2, <1>3, <2>2, <3>1 DEF Changing
      <3>3. Tells(u, entry)'
        BY <1>4, <1>5, <1>6 DEF Tells
      <3>4. req'[r].entry = entry
        BY <1>2, <1>3
      <3> QED
        BY <2>2, <3>2, <3>3, <3>4 DEF Tells
    <2>3. CASE w # u
      <3>1. Changing(w)' = Changing(w) /\ \A s \in Changing(w) : req'[s] = req[s]
        BY <1>1, <1>2, <1>3, <2>3 DEF Changing
      <3>2. /\ w \in gone' <=> w \in gone
            /\ Here(w)' /\ user'[w].isBanned <=> Here(w) /\ user[w].isBanned
        BY <1>4, <1>5, <2>3
      <3> QED
        BY <2>1, <3>1, <3>2 DEF Tells
    <2> QED
      BY <2>2, <2>3
  <1>12. MerchantHasProfile'
    <2> SUFFICES ASSUME NEW w \in Ids
                 PROVE  /\ Here(w)' /\ user'[w].accountType = "merchant" =>
                             \/ w \in merchant \cup stranded
                             \/ \E s \in Reqs : /\ req'[s].at = "register_profile"
                                                /\ req'[s].id = w
                        /\ w \in merchant => w \in gone' \/ user'[w].accountType = "merchant"
      BY DEF MerchantHasProfile
    <2>1. /\ Here(w) /\ user[w].accountType = "merchant" =>
               \/ w \in merchant \cup stranded
               \/ \E s \in Reqs : req[s].at = "register_profile" /\ req[s].id = w
          /\ w \in merchant => w \in gone \/ user[w].accountType = "merchant"
      BY DEF Inv, MerchantHasProfile
    <2>2. Here(w)' => Here(w) /\ user'[w].accountType = user[w].accountType
      BY <1>1, <1>4, <1>5
    <2>3. \A s \in Reqs : req[s].at = "register_profile" => req'[s] = req[s]
      BY <1>1, <1>3
    <2>4. w \in gone' \/ user'[w].accountType = user[w].accountType
      BY <1>4
    <2>5. gone \subseteq gone'
      OBVIOUS
    <2>6. (\E s \in Reqs : req[s].at = "register_profile" /\ req[s].id = w) =>
             \E s \in Reqs : req'[s].at = "register_profile" /\ req'[s].id = w
      BY <2>3
    <2> QED
      BY <2>1, <2>2, <2>4, <2>5, <2>6
  <1>13. SessionsExact'
    BY <1>1, <1>4, <1>5 DEF Inv, SessionsExact, refreshToken
  <1> QED
    BY <1>7, <1>8, <1>9, <1>10, <1>11, <1>12, <1>13 DEF Inv

LEMMA BanUserInv ==
    ASSUME Assumptions, Inv, NEW r \in Reqs, NEW u \in Ids, NEW timed \in BOOLEAN,
           banUser(r, u, timed)
    PROVE  Inv'
  <1> DEFINE doc == [user[u] EXCEPT !.isBanned = TRUE,
                                    !.banUntil = IF timed THEN "ahead" ELSE "none"]
  <1>1. /\ Change(r, u, doc, "banned")
        /\ sentence' = [sentence EXCEPT ![u] = IF timed THEN "timed" ELSE "permanent"]
        /\ undercut' = IF Lifting(u) = {} THEN undercut ELSE undercut \cup {u}
        /\ UNCHANGED <<merchant, audit, second, aborts, stranded, sessions>> /\ gone' = gone
    BY DEF banUser
  <1>2. user[u] \in User /\ user[u] # NoUser /\ user[u].email \in Emails
    BY <1>1 DEF Change, Here, Inv, TypeOK, UsersOK
  <1>3. /\ doc \in User /\ doc.email = user[u].email /\ doc.accountType = user[u].accountType
        /\ doc.refreshTokens = user[u].refreshTokens /\ doc.isBanned
        /\ timed => doc.banUntil = "ahead"
    BY <1>2 DEF User
  <1> HIDE DEF doc
  <1>4. doc # NoUser
    BY <1>2, <1>3, NoUserIs
  <1>5. sentence \in [Ids -> {"free", "timed", "permanent"}] /\ undercut \subseteq Ids
    BY DEF Inv, TypeOK
  <1>6. /\ sentence' \in [Ids -> {"free", "timed", "permanent"}] /\ undercut' \subseteq Ids
        /\ \A w \in Ids : w # u => /\ sentence'[w] = sentence[w]
                                   /\ w \in undercut' <=> w \in undercut
        /\ sentence'[u] = "timed" => timed
        /\ Lifting(u) # {} => u \in undercut'
    BY <1>1, <1>5
  <1>7. "banned" \in Entry \ {"none"}
    BY DEF Entry
  <1> QED
    BY <1>1, <1>3, <1>4, <1>6, <1>7, ChangeInv

LEMMA UnbanUserInv ==
    ASSUME Assumptions, Inv, NEW r \in Reqs, NEW u \in Ids, unbanUser(r, u)
    PROVE  Inv'
  <1> DEFINE doc == Unbanned(user[u])
  <1>1. /\ Change(r, u, doc, "unbanned")
        /\ sentence' = [sentence EXCEPT ![u] = "free"] /\ undercut' = undercut \ {u}
        /\ UNCHANGED <<merchant, audit, second, aborts, stranded, sessions>> /\ gone' = gone
    BY DEF unbanUser
  <1>2. user[u] \in User /\ user[u] # NoUser /\ user[u].email \in Emails
    BY <1>1 DEF Change, Here, Inv, TypeOK, UsersOK
  <1>3. /\ doc \in User /\ doc.email = user[u].email /\ doc.accountType = user[u].accountType
        /\ doc.refreshTokens = user[u].refreshTokens /\ ~doc.isBanned
    BY <1>2 DEF User, Unbanned
  <1> HIDE DEF doc
  <1>4. doc # NoUser
    BY <1>2, <1>3, NoUserIs
  <1>5. /\ sentence' \in [Ids -> {"free", "timed", "permanent"}] /\ undercut' \subseteq Ids
        /\ \A w \in Ids : w # u => /\ sentence'[w] = sentence[w]
                                   /\ w \in undercut' <=> w \in undercut
        /\ sentence'[u] # "timed"
    BY <1>1 DEF Inv, TypeOK
  <1>6. "unbanned" \in Entry \ {"none"}
    BY DEF Entry
  <1> QED
    BY <1>1, <1>3, <1>4, <1>5, <1>6, ChangeInv

LEMMA AdminDeleteUserInv ==
    ASSUME Assumptions, Inv, NEW r \in Reqs, NEW u \in Ids, adminDeleteUser(r, u)
    PROVE  Inv'
  <1>1. /\ Change(r, u, NoUser, "deleted") /\ gone' = gone \cup {u}
        /\ sentence' = sentence /\ undercut' = undercut
        /\ UNCHANGED <<merchant, audit, second, aborts, stranded, sessions>>
    BY DEF adminDeleteUser
  <1>2. sentence' \in [Ids -> {"free", "timed", "permanent"}] /\ undercut' \subseteq Ids
    BY <1>1 DEF Inv, TypeOK
  <1>3. "deleted" \in Entry \ {"none"}
    BY DEF Entry
  <1> QED
    BY <1>1, <1>2, <1>3, NoUserIs, ChangeInv

-----------------------------------------------------------------------------
(* Logouts, time and failures *)

\* Steps of nobody's request, which lift bans at most.
LEMMA OwnTime ==
    ASSUME Assumptions, Inv, UNCHANGED <<req, merchant, audit, gone, stranded, contested>>,
           TypeOK', SessionsExact', UsersOK',
           \A u \in Ids : /\ user'[u].accountType = user[u].accountType
                          /\ Here(u)' <=> Here(u)
                          /\ user'[u].isBanned = user[u].isBanned
                          /\ u \in undercut' <=> u \in undercut
                          /\ sentence'[u] = "timed" =>
                               sentence[u] = "timed" /\ user'[u].banUntil = user[u].banUntil
    PROVE  Inv'
  <1>1. RequestsOK'
    <2> SUFFICES ASSUME NEW s \in Reqs
                 PROVE  \E p \in Request : p = req[s] /\ RequestOK(p)'
      BY DEF RequestsOK, RequestOK, ProfileOK, LiftOK
    <2>1. PICK p \in Request : p = req[s] /\ RequestOK(p)
      BY RequestIs
    <2>2. \A u \in Ids : (ProfileOK(u) => ProfileOK(u)') /\ (LiftOK(u) => LiftOK(u)')
      BY DEF ProfileOK, LiftOK
    <2>3. RequestOK(p)'
      BY <2>1, <2>2, RequestKept DEF RequestOK, IdStep
    <2> QED
      BY <2>1, <2>3
  <1>2. AuditOK'
    <2>1. \A u \in Ids : /\ Changing(u)' = Changing(u)
                         /\ \A s \in Changing(u) : req'[s] = req[s]
      BY DEF Changing
    <2> QED
      BY <2>1, AuditKept
  <1>3. BanHolds'
    BY BansKept
  <1>4. MerchantHasProfile'
    BY MerchantsKept
  <1> QED
    BY <1>1, <1>2, <1>3, <1>4 DEF Inv

LEMMA LogoutInv ==
    ASSUME Assumptions, Inv, NEW u \in Ids, NEW t \in Tokens, logout(u, t)
    PROVE  Inv'
  <1>1. /\ user' = IF Here(u) THEN [user EXCEPT ![u].refreshTokens = @ \ {t}] ELSE user
        /\ sessions' = sessions \ {<<u, t>>}
        /\ merchant' = merchant /\ audit' = audit /\ req' = req /\ second' = second
        /\ changes' = changes /\ aborts' = aborts /\ sentence' = sentence
        /\ undercut' = undercut /\ stranded' = stranded /\ contested' = contested
        /\ gone' = gone
    BY DEF logout
  <1>2. /\ user' \in [Ids -> User]
        /\ \A w \in Ids : /\ user'[w].accountType = user[w].accountType
                          /\ user'[w].email = user[w].email
                          /\ user'[w].isBanned = user[w].isBanned
                          /\ user'[w].banUntil = user[w].banUntil
                          /\ user'[w].refreshTokens =
                               IF w = u /\ Here(u) THEN user[w].refreshTokens \ {t}
                               ELSE user[w].refreshTokens
                          /\ w # u => user'[w] = user[w]
    <2>1. CASE Here(u)
      <3> DEFINE doc == [user[u] EXCEPT !.refreshTokens = @ \ {t}]
      <3>1. user \in [Ids -> User] /\ user' = [user EXCEPT ![u] = doc]
        BY <1>1, <2>1 DEF Inv, TypeOK
      <3>2. /\ doc \in User /\ doc.accountType = user[u].accountType
            /\ doc.email = user[u].email /\ doc.isBanned = user[u].isBanned
            /\ doc.banUntil = user[u].banUntil
            /\ doc.refreshTokens = user[u].refreshTokens \ {t}
        BY <3>1 DEF User
      <3> HIDE DEF doc
      <3> QED
        BY <2>1, <3>1, <3>2
    <2>2. CASE ~Here(u)
      BY <1>1, <2>2 DEF Inv, TypeOK, User
    <2> QED
      BY <2>1, <2>2
  <1>3. \A w \in Ids : Here(w)' <=> Here(w)
    <2>1. Here(u) => user[u].email # None
      BY NoUserIs DEF Inv, UsersOK
    <2>2. Here(u) => user'[u] # NoUser
      BY <1>2, <2>1, NoUserIs
    <2> QED
      BY <1>1, <1>2, <2>2 DEF Here
  <1>4. TypeOK'
    BY <1>1, <1>2 DEF Inv, TypeOK
  <1>5. UsersOK'
    BY <1>1, <1>2, <1>3, EmailsKept
  <1>6. SessionsExact'
    <2> SUFFICES ASSUME NEW w \in Ids, NEW x \in Tokens, Here(w)
                 PROVE  x \in user'[w].refreshTokens <=> <<w, x>> \in sessions'
      BY <1>3 DEF SessionsExact, refreshToken
    <2>1. x \in user[w].refreshTokens <=> <<w, x>> \in sessions
      BY DEF Inv, SessionsExact, refreshToken
    <2>2. <<w, x>> = <<u, t>> <=> w = u /\ x = t
      OBVIOUS
    <2> QED
      BY <1>1, <1>2, <2>1, <2>2
  <1> QED
    BY <1>1, <1>2, <1>3, <1>4, <1>5, <1>6, OwnTime

LEMMA BanEndsInv ==
    ASSUME Assumptions, Inv, NEW u \in Ids, BanEnds(u)
    PROVE  Inv'
  <1>1. /\ user[u].banUntil = "ahead" /\ user' = [user EXCEPT ![u].banUntil = "over"]
        /\ sentence' = [sentence EXCEPT ![u] = "free"]
        /\ merchant' = merchant /\ audit' = audit /\ req' = req /\ second' = second
        /\ changes' = changes /\ aborts' = aborts /\ sessions' = sessions
        /\ undercut' = undercut /\ stranded' = stranded /\ contested' = contested
        /\ gone' = gone
    BY DEF BanEnds
  <1>2. /\ user' \in [Ids -> User]
        /\ \A w \in Ids : /\ user'[w].accountType = user[w].accountType
                          /\ user'[w].email = user[w].email
                          /\ user'[w].isBanned = user[w].isBanned
                          /\ user'[w].refreshTokens = user[w].refreshTokens
                          /\ w # u => user'[w] = user[w]
        /\ sentence' \in [Ids -> {"free", "timed", "permanent"}]
        /\ sentence'[u] = "free" /\ \A w \in Ids : w # u => sentence'[w] = sentence[w]
    BY <1>1 DEF Inv, TypeOK, User
  <1>3. \A w \in Ids : Here(w)' <=> Here(w)
    <2>1. Here(u)
      BY <1>1 DEF Here, NoUser
    <2>2. user'[u] # NoUser
      BY <1>2, <2>1, NoUserIs DEF Inv, UsersOK
    <2> QED
      BY <1>2, <2>1, <2>2 DEF Here
  <1>4. TypeOK'
    BY <1>1, <1>2 DEF Inv, TypeOK
  <1>5. UsersOK'
    <2>1. Here(u)
      BY <1>1 DEF Here, NoUser
    <2> QED
      BY <1>1, <1>2, <1>3, <2>1, EmailsKept
  <1>6. SessionsExact'
    BY <1>1, <1>2, <1>3, SessionsKept
  <1> QED
    BY <1>1, <1>2, <1>3, <1>4, <1>5, <1>6, OwnTime

LEMMA TickInv ==
    ASSUME Assumptions, Inv, Tick
    PROVE  Inv'
  <1>1. /\ second < MaxSeconds /\ second' = second + 1
        /\ user' = user /\ merchant' = merchant /\ audit' = audit /\ req' = req
        /\ changes' = changes /\ aborts' = aborts /\ sessions' = sessions
        /\ sentence' = sentence /\ undercut' = undercut /\ stranded' = stranded
        /\ contested' = contested /\ gone' = gone
    BY DEF Tick, histories
  <1>2. \A w \in Ids : Here(w)' <=> Here(w)
    BY <1>1 DEF Here
  <1>3. TypeOK'
    BY <1>1 DEF Inv, TypeOK, Assumptions
  <1>4. UsersOK' /\ SessionsExact'
    BY <1>1, <1>2, EmailsKept, SessionsKept
  <1> QED
    BY <1>1, <1>2, <1>3, <1>4, OwnTime

LEMMA AbortInv ==
    ASSUME Assumptions, Inv, NEW r \in Reqs, Abort(r)
    PROVE  Inv'
  <1>1. PICK old \in Request : old = req[r] /\ RequestOK(old)
    BY RequestIs
  <1>2. /\ aborts < MaxAborts /\ aborts' = aborts + 1
        /\ stranded' = IF old.at = "register_profile" THEN stranded \cup {old.id} ELSE stranded
        /\ contested' = IF old.at = "audit" THEN contested \cup {old.id} ELSE contested
        /\ req' = [req EXCEPT ![r] = Idle]
        /\ user' = user /\ merchant' = merchant /\ audit' = audit
        /\ second' = second /\ changes' = changes /\ sessions' = sessions
        /\ sentence' = sentence /\ undercut' = undercut /\ gone' = gone
    BY <1>1 DEF Abort, Finish
  <1>3. old.at \in {"register_profile", "audit"} => old.id \in Ids
    BY <1>1 DEF RequestOK, IdStep
  <1>4. \A s \in Reqs : req'[s] = IF s = r THEN Idle ELSE req[s]
    BY <1>2 DEF Inv, TypeOK
  <1>5. \A w \in Ids : Here(w)' <=> Here(w)
    BY <1>2 DEF Here
  <1>6. TypeOK'
    <2>1. req' \in [Reqs -> Request]
      BY <1>2, IdleIs DEF Inv, TypeOK
    <2>2. /\ aborts' \in 0..MaxAborts /\ stranded' \subseteq Ids
          /\ contested' \subseteq Ids
      BY <1>2, <1>3 DEF Inv, TypeOK, Assumptions
    <2> QED
      BY <1>2, <2>1, <2>2 DEF Inv, TypeOK
  <1>7. UsersOK' /\ BanHolds' /\ SessionsExact'
    BY <1>2, <1>5, EmailsKept, BansKept, SessionsKept
  <1>8. RequestsOK'
    <2>1. \A w \in Ids : (ProfileOK(w) => ProfileOK(w)') /\ (LiftOK(w) => LiftOK(w)')
      BY <1>2, <1>5 DEF ProfileOK, LiftOK
    <2> QED
      BY <1>2, <2>1, IdleIs, RequestsKept
  <1>9. AuditOK'
    <2>1. \A w \in Ids \ contested' :
             /\ Changing(w)' = Changing(w)
             /\ \A s \in Changing(w) : req'[s] = req[s]
      <3> SUFFICES ASSUME NEW w \in Ids \ contested'
                   PROVE  /\ Changing(w)' = Changing(w)
                          /\ \A s \in Changing(w) : req'[s] = req[s]
        OBVIOUS
      <3>1. r \notin Changing(w)
        BY <1>1, <1>2 DEF Changing
      <3> QED
        BY <1>4, <3>1, IdleIs DEF Changing
    <2> QED
      BY <1>2, <1>5, <2>1, AuditKept
  <1>10. MerchantHasProfile'
    <2>1. \A s \in Reqs : req[s].at = "register_profile" =>
             req'[s] = req[s] \/ req[s].id \in stranded'
      BY <1>1, <1>2, <1>4
    <2> QED
      BY <1>2, <1>5, <2>1, MerchantsKept
  <1> QED
    BY <1>6, <1>7, <1>8, <1>9, <1>10 DEF Inv

-----------------------------------------------------------------------------
(* The invariant *)

LEMMA InitInv ==
    ASSUME Assumptions, Init
    PROVE  Inv
  <1>1. \A u \in Ids : ~Here(u) /\ Changing(u) = {}
    BY IdleIs DEF Init, Here, Changing
  <1>2. TypeOK
    <2>1. user \in [Ids -> User] /\ req \in [Reqs -> Request] /\ audit \in [Ids -> Entry]
      BY IdleIs, NoUserIs DEF Init, Entry
    <2>2. /\ second \in 1..MaxSeconds /\ changes \in 0..MaxChanges /\ aborts \in 0..MaxAborts
      BY DEF Init, Assumptions
    <2> QED
      BY <2>1, <2>2 DEF Init, TypeOK
  <1>3. UsersOK /\ BanHolds /\ SessionsExact
    BY <1>1 DEF Init, UsersOK, BanHolds, SessionsExact
  <1>4. RequestsOK
    BY IdleIs DEF Init, RequestsOK
  <1>5. AuditOK
    BY <1>1 DEF Init, AuditOK, Tells
  <1>6. MerchantHasProfile
    BY <1>1 DEF Init, MerchantHasProfile
  <1> QED
    BY <1>2, <1>3, <1>4, <1>5, <1>6 DEF Inv

LEMMA StepInv ==
    ASSUME Assumptions, Inv, [Next]_vars
    PROVE  Inv'
  <1>1. CASE UNCHANGED vars
    <2>1. /\ second' = second /\ user' = user /\ merchant' = merchant /\ audit' = audit
          /\ req' = req /\ changes' = changes /\ aborts' = aborts /\ sessions' = sessions
          /\ sentence' = sentence /\ undercut' = undercut /\ stranded' = stranded
          /\ contested' = contested /\ gone' = gone
      BY <1>1 DEF vars
    <2>2. \A w \in Ids : Here(w)' <=> Here(w)
      BY <2>1 DEF Here
    <2>3. TypeOK'
      BY <2>1 DEF Inv, TypeOK
    <2>4. UsersOK' /\ SessionsExact'
      BY <2>1, <2>2, EmailsKept, SessionsKept
    <2> QED
      BY <2>1, <2>2, <2>3, <2>4, OwnTime
  <1>2. ASSUME NEW r \in Reqs, Asked(r)
        PROVE  Inv'
    BY <1>2, RegisterInv, LoginInv, SocialAuthInv, UpdateEmailInv, BanUserInv, UnbanUserInv,
       AdminDeleteUserInv DEF Asked
  <1>3. ASSUME NEW r \in Reqs, HandlerStep(r)
        PROVE  Inv'
    BY <1>3, RegisterSaveInv, RegisterProfileInv, LoginLiftInv, LoginRoleInv, PushInv,
       SocialCreateInv, EmailSaveInv, AuditInv DEF HandlerStep, LoginPush, SocialPush
  <1>4. CASE \E u \in Ids : BanEnds(u) \/ \E token \in Tokens : logout(u, token)
    BY <1>4, BanEndsInv, LogoutInv
  <1> QED
    BY <1>1, <1>2, <1>3, <1>4, AbortInv, TickInv DEF Next

\* What the invariant says of the properties.
LEMMA InvMeans ==
    ASSUME Assumptions, Inv
    PROVE  TypeOK /\ BansSound /\ AccountsSound
  <1>1. AuditTellsState
    BY DEF Inv, AuditOK, AuditTellsState, Tells
  <1>2. OneAccountPerEmail
    <2> SUFFICES ASSUME NEW e \in Emails
                 PROVE  Cardinality(WithEmail(e)) <= 1
      BY DEF OneAccountPerEmail
    <2>1. CASE WithEmail(e) = {}
      BY <2>1, FS_EmptySet
    <2>2. CASE WithEmail(e) # {}
      <3>1. PICK u \in Ids : user[u].email = e
        BY <2>2 DEF WithEmail
      <3>2. \A w \in Ids : user[w].email = e => Here(w)
        BY NoUserIs DEF Here
      <3>3. WithEmail(e) = {u}
        BY <3>1, <3>2 DEF WithEmail, Inv, UsersOK
      <3> QED
        BY <3>3, FS_Singleton
    <2> QED
      BY <2>1, <2>2
  <1> QED
    BY <1>1, <1>2 DEF Inv, BansSound, AccountsSound

\* A ban with an end keeps its date, and the latest entry of the audit log tells the
\* state, whatever logins and changes by admins run beside them, but for the overlaps and
\* failures the properties name (login, banUser, unbanUser, adminDeleteUser).
THEOREM BansHold ==
    ASSUME Assumptions
    PROVE  Spec => []BansSound
  <1>1. Inv => BansSound
    BY InvMeans
  <1> QED
    BY InitInv, StepInv, <1>1, PTL DEF Spec

\* There is one account for an email, a profile for a merchant, and the refresh tokens
\* that work are those of the sessions that were opened and not closed (register,
\* socialAuth, updateProfile, logout).
THEOREM AccountsAreWhole ==
    ASSUME Assumptions
    PROVE  Spec => []AccountsSound
  <1>1. Inv => AccountsSound
    BY InvMeans
  <1> QED
    BY InitInv, StepInv, <1>1, PTL DEF Spec

=============================================================================
