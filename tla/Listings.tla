------------------------------- MODULE Listings -------------------------------
(* How advertisements come to be listed (src/src/ads/): created, edited, promoted  *)
(* and deleted by REST or by messages that Kafka delivers at least once, and the   *)
(* pages of the homepage and of a category kept in Redis.  A handler is a sequence *)
(* of steps, one per database or cache call.  Reports, reviews and the expiry are  *)
(* in AdModeration; here they are writes that change the status.                   *)
EXTENDS Integers, FiniteSets

CONSTANTS
    Reqs,         \* slots for handlers under way at the same time
    MaxAds,       \* bound: ads ever created
    MaxMessages,  \* bound: messages ever sent
    MaxSilent,    \* bound: changes by moderators and reports
    MaxAborts,    \* bound: handlers that die, and invalidations that fail
    None

Assumptions == {MaxAds, MaxMessages, MaxSilent, MaxAborts} \subseteq Nat

VARIABLES
    ad,        \* the ads collection, in the order of creation
    page,      \* the pages in Redis
    topic,     \* the messages sent and not committed
    sent,      \* the number of messages sent
    req,       \* the handlers in flight
    silent,    \* the number of changes by moderators
    aborts,    \* handlers that died
    clashed,   \* ads on which two edits overlapped, for the properties
    outdated   \* pages that a write leaves in Redis, or that were stored late

vars == <<ad, page, topic, sent, req, silent, aborts, clashed, outdated>>

-----------------------------------------------------------------------------
Ads == 1..MaxAds
Messages == 1..MaxMessages
Keys == {"homepage", "category"}

\* gone: removed from the collection.
Status == {"none", "active", "expired", "deleted", "gone"}

Ad == [status: Status, edits: Nat]
NoAd == [status |-> "none", edits |-> 0]

Kind == {"create", "update", "delete"}
Message == [kind: Kind, ad: Ads \cup {0}]

Step == {"idle", "create", "edit_save", "delete", "commit", "drop_homepage",
         "drop_category", "fetch", "store"}

\* via: who asked: a REST route that drops the pages afterwards, one that does not
\* (promoteAd), or a message.
Request == [at: Step, via: {"rest", "promote", "kafka"}, msg: Messages \cup {0},
            ad: Ads \cup {0}, key: Keys \cup {None}, rows: SUBSET (Ads \X Nat)]

Idle == [at |-> "idle", via |-> "rest", msg |-> 0, ad |-> 0, key |-> None, rows |-> {}]

Stored(a) == ad[a].status \in {"active", "expired", "deleted"}

Free(r) == req[r].at = "idle"
Begin(r, q) == Free(r) /\ req' = [req EXCEPT ![r] = q]
Finish(r) == req' = [req EXCEPT ![r] = Idle]

ByMessage(m) == [Idle EXCEPT !.via = "kafka", !.msg = m]
ToCommit(m) == [ByMessage(m) EXCEPT !.at = "commit"]

\* What a handler does after its write.
AfterWrite(r) ==
    req' = [req EXCEPT ![r] =
        CASE @.via = "rest"  -> [Idle EXCEPT !.at = "drop_homepage"]
          [] @.via = "kafka" -> ToCommit(@.msg)
          [] OTHER           -> Idle]

Init ==
    /\ ad = [a \in Ads |-> NoAd]
    /\ page = [k \in Keys |-> None]
    /\ topic = [m \in Messages |-> None]
    /\ sent = 0
    /\ req = [r \in Reqs |-> Idle]
    /\ silent = 0
    /\ aborts = 0
    /\ clashed = {}
    /\ outdated = {}

-----------------------------------------------------------------------------
(* Requests: by REST, and as messages *)

CreateAd(r) ==
    /\ Begin(r, [Idle EXCEPT !.at = "create"])
    /\ UNCHANGED <<ad, page, topic, sent, silent, aborts, clashed, outdated>>

Editing(a) == {r \in Reqs : req[r].at = "edit_save" /\ req[r].ad = a}
NoteEdit(a) == clashed' = IF Editing(a) = {} THEN clashed ELSE clashed \cup {a}

\* Regression: the edits made so far are not looked at.
UpdateFindAgain(q, r, a) ==
    /\ Stored(a)
    /\ Begin(r, [q EXCEPT !.at = "edit_save", !.ad = a])
    /\ NoteEdit(a)

\* The owner of an ad may edit it once.
UpdateFind(q, r, a) ==
    /\ Stored(a)
    /\ ad[a].edits = 0
    /\ Begin(r, [q EXCEPT !.at = "edit_save", !.ad = a])
    /\ NoteEdit(a)

UpdateAd(r, a) ==
    /\ UpdateFind(Idle, r, a)
    /\ UNCHANGED <<ad, page, topic, sent, silent, aborts, outdated>>

\* A promotion is an edit.
PromoteAd(r, a) ==
    /\ UpdateFind([Idle EXCEPT !.via = "promote"], r, a)
    /\ UNCHANGED <<ad, page, topic, sent, silent, aborts, outdated>>

DeleteAd(r, a) ==
    /\ Stored(a)
    /\ Begin(r, [Idle EXCEPT !.at = "delete", !.ad = a])
    /\ UNCHANGED <<ad, page, topic, sent, silent, aborts, clashed, outdated>>

Send(kind, a) ==
    /\ sent < MaxMessages
    /\ sent' = sent + 1
    /\ topic' = [topic EXCEPT ![sent + 1] = [kind |-> kind, ad |-> a]]
    /\ UNCHANGED <<ad, page, req, silent, aborts, clashed, outdated>>

createAdAsync == Send("create", 0)
updateAdAsync(a) == Send("update", a)
deleteAdAsync(a) == Send("delete", a)

\* A message not committed is delivered, again if the process died while at it.
Delivered(m) ==
    /\ topic[m] # None
    /\ \A r \in Reqs : req[r].msg # m

handleAdCreate(r, m) ==
    /\ Delivered(m) /\ topic[m].kind = "create"
    /\ Begin(r, [ByMessage(m) EXCEPT !.at = "create"])
    /\ UNCHANGED <<ad, page, topic, sent, silent, aborts, clashed, outdated>>

\* A refused edit is answered, not delivered again.
handleAdUpdate(r, m) ==
    /\ Delivered(m) /\ topic[m].kind = "update"
    /\ \/ UpdateFind(ByMessage(m), r, topic[m].ad)
       \/ /\ ~Stored(topic[m].ad) \/ ad[topic[m].ad].edits > 0
          /\ Begin(r, ToCommit(m))
          /\ UNCHANGED clashed
    /\ UNCHANGED <<ad, page, topic, sent, silent, aborts, outdated>>

handleAdDelete(r, m) ==
    /\ Delivered(m) /\ topic[m].kind = "delete"
    /\ Begin(r, IF Stored(topic[m].ad)
                THEN [ByMessage(m) EXCEPT !.at = "delete", !.ad = topic[m].ad]
                ELSE ToCommit(m))
    /\ UNCHANGED <<ad, page, topic, sent, silent, aborts, clashed, outdated>>

-----------------------------------------------------------------------------
(* The steps that follow *)

\* The pages in Redis that a write nobody invalidates for leaves behind.
Overtaken(via) ==
    outdated' = IF via = "rest" THEN outdated
                ELSE outdated \cup {k \in Keys : page[k] # None}

\* Every delivery makes an ad of its own.
CreateSave(r) ==
    /\ req[r].at = "create"
    /\ \E a \in Ads :
        /\ ad[a].status = "none" /\ \A b \in Ads : b < a => ad[b].status # "none"
        /\ ad' = [ad EXCEPT ![a].status = "active"]
    /\ Overtaken(req[r].via)
    /\ AfterWrite(r)
    /\ UNCHANGED <<page, topic, sent, silent, aborts, clashed>>

\* An ad that is gone refuses the edit.
EditSave(r) ==
    /\ req[r].at = "edit_save"
    /\ IF Stored(req[r].ad)
       THEN /\ ad' = [ad EXCEPT ![req[r].ad].edits = @ + 1]
            /\ Overtaken(req[r].via)
            /\ AfterWrite(r)
       ELSE /\ req' = [req EXCEPT ![r] = IF @.via = "kafka" THEN ToCommit(@.msg) ELSE Idle]
            /\ UNCHANGED <<ad, outdated>>
    /\ UNCHANGED <<page, topic, sent, silent, aborts, clashed>>

DeleteSave(r) ==
    /\ req[r].at = "delete"
    /\ ad' = IF Stored(req[r].ad) THEN [ad EXCEPT ![req[r].ad].status = "deleted"] ELSE ad
    /\ Overtaken(req[r].via)
    /\ AfterWrite(r)
    /\ UNCHANGED <<page, topic, sent, silent, aborts, clashed>>

Commit(r) ==
    /\ req[r].at = "commit"
    /\ topic' = [topic EXCEPT ![req[r].msg] = None]
    /\ Finish(r)
    /\ UNCHANGED <<ad, page, sent, silent, aborts, clashed, outdated>>

Dropped(keys) ==
    /\ page' = [k \in Keys |-> IF k \in keys THEN None ELSE page[k]]
    /\ outdated' = outdated \ keys

\* Regression: the pages of the categories stay.
DropHomepageOnly(r) ==
    /\ req[r].at = "drop_homepage"
    /\ Dropped({"homepage"})
    /\ Finish(r)
    /\ UNCHANGED <<ad, topic, sent, silent, aborts, clashed>>

\* invalidateAdsCache: one pattern of keys after the other.
DropHomepage(r) ==
    /\ req[r].at = "drop_homepage"
    /\ Dropped({"homepage"})
    /\ req' = [req EXCEPT ![r].at = "drop_category"]
    /\ UNCHANGED <<ad, topic, sent, silent, aborts, clashed>>

DropCategory(r) ==
    /\ req[r].at = "drop_category"
    /\ Dropped({"category"})
    /\ Finish(r)
    /\ UNCHANGED <<ad, topic, sent, silent, aborts, clashed>>

\* The hourly cleanup, and the one an admin starts: due ads expire, old ones go.
Cleanup(r, a) ==
    /\ \/ ad[a].status = "active" /\ ad' = [ad EXCEPT ![a].status = "expired"]
       \/ ad[a].status = "expired" /\ ad' = [ad EXCEPT ![a].status = "gone"]
    /\ Begin(r, [Idle EXCEPT !.at = "drop_homepage"])
    /\ UNCHANGED <<page, topic, sent, silent, aborts, clashed, outdated>>

\* reviewAd, autoDisableAd, adminUpdateAd, adminDeleteAd: the pages stay.
Moderated(a, status) ==
    /\ Stored(a)
    /\ silent < MaxSilent
    /\ silent' = silent + 1
    /\ ad' = [ad EXCEPT ![a].status = status]
    /\ Overtaken("moderator")
    /\ UNCHANGED <<page, topic, sent, req, aborts, clashed>>

-----------------------------------------------------------------------------
(* getAllAds and getAdsByCategory: cache-aside *)

\* The filter of every listing: searchAds, getAdsByCategory.
Rows == {<<a, ad[a].edits>> : a \in {b \in Ads : ad[b].status = "active"}}

\* A hit is the whole of the handler.
List(r, k) ==
    /\ page[k] = None
    /\ Begin(r, [Idle EXCEPT !.at = "fetch", !.key = k])
    /\ UNCHANGED <<ad, page, topic, sent, silent, aborts, clashed, outdated>>

Fetch(r) ==
    /\ req[r].at = "fetch"
    /\ req' = [req EXCEPT ![r].at = "store", ![r].rows = Rows]
    /\ UNCHANGED <<ad, page, topic, sent, silent, aborts, clashed, outdated>>

Store(r) ==
    /\ req[r].at = "store"
    /\ LET k == req[r].key
       IN  /\ page' = [page EXCEPT ![k] = req[r].rows]
           /\ outdated' = IF req[r].rows = Rows THEN outdated \ {k} ELSE outdated \cup {k}
    /\ Finish(r)
    /\ UNCHANGED <<ad, topic, sent, silent, aborts, clashed>>

\* 300 seconds for the homepage, 600 for a category.
TimesOut(k) ==
    /\ page[k] # None
    /\ Dropped({k})
    /\ UNCHANGED <<ad, topic, sent, req, silent, aborts, clashed>>

\* A Redis call or a database call fails, or the process dies: what was done stays, and
\* a message under way is delivered again.
Abort(r) ==
    /\ req[r].at # "idle"
    /\ aborts < MaxAborts
    /\ aborts' = aborts + 1
    /\ outdated' = IF req[r].at \in {"drop_homepage", "drop_category"}
                   THEN outdated \cup {k \in Keys : page[k] # None} ELSE outdated
    /\ Finish(r)
    /\ UNCHANGED <<ad, page, topic, sent, silent, clashed>>

-----------------------------------------------------------------------------
Asked(r) ==
    \/ CreateAd(r)
    \/ \E a \in Ads : UpdateAd(r, a) \/ PromoteAd(r, a) \/ DeleteAd(r, a) \/ Cleanup(r, a)
    \/ \E m \in Messages : handleAdCreate(r, m) \/ handleAdUpdate(r, m) \/ handleAdDelete(r, m)
    \/ \E k \in Keys : List(r, k)

HandlerStep(r) ==
    \/ CreateSave(r) \/ EditSave(r) \/ DeleteSave(r) \/ Commit(r)
    \/ DropHomepage(r) \/ DropCategory(r) \/ Fetch(r) \/ Store(r)

Next ==
    \/ \E r \in Reqs : (Free(r) /\ Asked(r)) \/ HandlerStep(r) \/ Abort(r)
    \/ createAdAsync
    \/ \E a \in Ads : updateAdAsync(a) \/ deleteAdAsync(a)
    \/ \E a \in Ads, status \in {"active", "expired", "deleted", "gone"} : Moderated(a, status)
    \/ \E k \in Keys : TimesOut(k)

Spec == Init /\ [][Next]_vars

-----------------------------------------------------------------------------
(* Properties *)

\* Every variable stays within its type.
TypeOK ==
    /\ ad \in [Ads -> Ad]
    /\ \A k \in Keys : page[k] = None \/ page[k] \subseteq Ads \X Nat
    /\ topic \in [Messages -> Message \cup {None}]
    /\ sent \in 0..MaxMessages
    /\ \A r \in Reqs : req[r].at \in Step /\ req[r].msg \in Messages \cup {0}
    /\ {silent, aborts} \subseteq Nat
    /\ clashed \subseteq Ads
    /\ outdated \subseteq Keys

WillDrop(k) ==
    {r \in Reqs : req[r].at = "drop_homepage" \/ (req[r].at = "drop_category" /\ k = "category")}

\* A page in Redis shows the ads that are listed, as they are, or is about to be dropped,
\* unless a message, a promotion or a moderator changed an ad since, a read stored the
\* page late, or an invalidation failed (invalidateAdsCache and its callers).
CacheFollows ==
    \A k \in Keys :
        page[k] # None /\ k \notin outdated => page[k] = Rows \/ WillDrop(k) # {}

\* An ad is edited once, by whatever route and however often Kafka delivers the edit,
\* unless two edits overlapped (updateAd: "You can edit an ad only once").
EditedOnce == \A a \in Ads \ clashed : ad[a].edits <= 1
=============================================================================
