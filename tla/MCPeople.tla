------------------------------- MODULE MCPeople -------------------------------
(* What users are to the system and to each other, as small instances side by      *)
(* side: their accounts and the password of one of them (Accounts, Passwords), who *)
(* is online (Presence), their conversations (Chats), their wishlists and views    *)
(* (Engagement), and their reports (AdModeration).  They share no state: a         *)
(* behaviour is one of a single part.                                              *)
EXTENDS Presence, TLC

CONSTANTS
    Reqs, MaxAborts,
    \* Accounts
    Emails, AdminEmails, MaxUsers, MaxSeconds, MaxChanges,
    \* Passwords
    Words, MaxOtps, Kept,
    \* Chats
    MaxConvs, MaxMessages,
    \* Engagement
    Customers, Owner, Ads, Viewed, MaxToggles, MaxViews,
    \* AdModeration, with Users as the reporters
    ReportedAds, Threshold, EditStatus

VARIABLES
    part,
    user, merchant, audit, areq, second, changes, aaborts, sentence, undercut,
    stranded, contested, sessions, agone,
    secret, preq, issued, mailed, paborts, past, proved, spent, crossed,
    praced,
    conv, message, hreq, haborts, told, found, contended,
    wishlist, unread, read, views, viewHistory, ereq, toggles, eaborts, saves,
    additions, eraced,
    ad, report, rreq, cleanup, resyncs, raborts

accountVars == <<user, merchant, audit, areq, second, changes, aaborts, sentence,
                 undercut, stranded, contested, sessions, agone>>
passwordVars == <<secret, preq, issued, mailed, paborts, past, proved, spent,
                  crossed, praced>>
chatVars == <<conv, message, hreq, haborts, told, found, contended>>
engagementVars == <<wishlist, unread, read, views, viewHistory, ereq, toggles, eaborts,
                    saves, additions, eraced>>
reportVars == <<ad, report, rreq, cleanup, resyncs, raborts>>

peopleVars ==
    <<part, vars, accountVars, passwordVars, chatVars, engagementVars, reportVars>>

\* Accounts and chats are taken from the modules of their proofs, so that PeopleProofs
\* can cite what those prove of them.
\* Several accounts in one second, and one account for several.
A == INSTANCE AccountsProofs WITH
    MaxSeconds <- 1, MaxChanges <- 1, MaxAborts <- 0,
    req <- areq, aborts <- aaborts, gone <- agone
S == INSTANCE AccountsProofs WITH
    Emails <- AdminEmails, MaxUsers <- 1, req <- areq, aborts <- aaborts, gone <- agone

P == INSTANCE Passwords WITH
    user <- secret, req <- preq, aborts <- paborts, raced <- praced

H == INSTANCE ChatsProofs WITH req <- hreq, aborts <- haborts

E == INSTANCE Engagement WITH
    Users <- Customers, req <- ereq, aborts <- eaborts, raced <- eraced

R == INSTANCE AdModeration WITH
    Ads <- ReportedAds, Reporters <- Users, MaxResyncs <- 0, MaxAborts <- 0,
    req <- rreq, aborts <- raborts

ASSUME AccountsAssumptions == A!Assumptions /\ S!Assumptions
ASSUME PasswordsAssumptions == P!Assumptions
ASSUME ChatsAssumptions == H!Assumptions
ASSUME EngagementAssumptions == E!Assumptions
ASSUME ReportsAssumptions == R!Assumptions

\* Variables of a part that is not the one of the behaviour.
AccountsUnused ==
    /\ user = None /\ merchant = None /\ audit = None /\ areq = None /\ second = None
    /\ changes = None /\ aaborts = None /\ sentence = None /\ undercut = None /\ stranded = None
    /\ contested = None /\ sessions = None /\ agone = None

PasswordsUnused ==
    /\ secret = None /\ preq = None /\ issued = None /\ mailed = None /\ paborts = None
    /\ past = None /\ proved = None /\ spent = None /\ crossed = None /\ praced = None

ChatsUnused ==
    /\ conv = None /\ message = None /\ hreq = None /\ haborts = None /\ told = None
    /\ found = None /\ contended = None

EngagementUnused ==
    /\ wishlist = None /\ unread = None /\ read = None /\ views = None /\ viewHistory = None
    /\ ereq = None /\ toggles = None /\ eaborts = None /\ saves = None /\ additions = None
    /\ eraced = None

PeopleInit ==
    /\ part \in {"presence", "accounts", "sessions", "passwords", "chats", "engagement",
                "reports"}
    /\ Init
    /\ CASE part = "accounts" -> A!Init
         [] part = "sessions" -> S!Init
         [] OTHER             -> AccountsUnused
    /\ IF part = "passwords" THEN P!Init ELSE PasswordsUnused
    /\ IF part = "chats" THEN H!Init ELSE ChatsUnused
    /\ IF part = "engagement" THEN E!Init ELSE EngagementUnused
    /\ R!Init

PresenceStep ==
    /\ part = "presence"
    /\ Next
    /\ UNCHANGED <<part, accountVars, passwordVars, chatVars, engagementVars, reportVars>>

AccountsStep ==
    /\ \/ part = "accounts" /\ A!Next
       \/ part = "sessions" /\ S!Next
    /\ UNCHANGED <<part, vars, passwordVars, chatVars, engagementVars, reportVars>>

PasswordsStep ==
    /\ part = "passwords"
    /\ P!Next
    /\ UNCHANGED <<part, vars, accountVars, chatVars, engagementVars, reportVars>>

ChatsStep ==
    /\ part = "chats"
    /\ H!Next
    /\ UNCHANGED <<part, vars, accountVars, passwordVars, engagementVars, reportVars>>

EngagementStep ==
    /\ part = "engagement"
    /\ E!Next
    /\ UNCHANGED <<part, vars, accountVars, passwordVars, chatVars, reportVars>>

ReportsStep ==
    /\ part = "reports"
    /\ R!Next
    /\ UNCHANGED <<part, vars, accountVars, passwordVars, chatVars, engagementVars>>

PeopleNext ==
    \/ PresenceStep \/ AccountsStep \/ PasswordsStep
    \/ ChatsStep \/ EngagementStep \/ ReportsStep

PeopleSpec == PeopleInit /\ [][PeopleNext]_peopleVars

Symmetry == Permutations(Users) \cup Permutations(Reqs)

-----------------------------------------------------------------------------
\* Every variable of the parts stays within its type.
PeopleTypeOK ==
    /\ part = "presence" => TypeOK
    /\ part = "accounts" => A!TypeOK
    /\ part = "sessions" => S!TypeOK
    /\ part = "passwords" => P!TypeOK
    /\ part = "chats" => H!TypeOK
    /\ part = "engagement" => E!TypeOK
    /\ part = "reports" => R!TypeOK

\* Bans hold, and the audit log tells of them (Accounts).
BansSound ==
    /\ part = "accounts" => A!BansSound
    /\ part = "sessions" => S!BansSound

\* Accounts are whole (Accounts).
AccountsSound ==
    /\ part = "accounts" => A!AccountsSound
    /\ part = "sessions" => S!AccountsSound

\* The password changes only with an OTP that the user received and entered, and once
\* with each (Passwords).
OtpGuardsChange == part = "passwords" => P!OtpGuardsChange

\* No password comes back while it is among the last ones that were in force (Passwords).
NoReuse == part = "passwords" => P!NoReuse

\* The messages of two users are accounted for (Chats).
MessagesAccounted == part = "chats" => H!MessagesAccounted

\* Only what a mark_read found is marked read (Chats).
ReadWasFound == part = "chats" => H!ReadWasFound

\* Wishlists and the notifications of owners follow what users toggled (Engagement).
WishlistFollows == part = "engagement" => E!WishlistFollows

\* An ad has as many views as viewers, or more (Engagement).
ViewsCover == part = "engagement" => E!ViewsCover

\* An ad with a pending report is up for review (AdModeration).
PendingIsUnderReview == R!PendingIsUnderReview

\* An ad that enough people reported is disabled (AdModeration).
DisabledAtThreshold == R!DisabledAtThreshold

\* The cleanup leaves an ad alone that was put back meanwhile (AdModeration).
CleanupSparesReinstated == R!CleanupSparesReinstated
=============================================================================
