------------------------------ MODULE AdModeration ------------------------------
(***************************************************************************)
(* Reports about advertisements, the decisions taken on them, and the      *)
(* expiry of advertisements: src/src/ads/ads.service.ts.                   *)
(*                                                                         *)
(* An advertisement expires when its date comes (the hourly cleanup), or   *)
(* when enough people report it; the cleanup removes it a day after the    *)
(* former.  A handler that makes several database calls occupies a slot of *)
(* Reqs.  Checks that read only what never changes (who owns an ad, whose  *)
(* report it is) are taken with the write that follows them.               *)
(***************************************************************************)
EXTENDS Integers, FiniteSets

CONSTANTS
    Ads,
    Reporters,   \* people other than the owners
    Reqs,        \* slots for handlers under way at the same time
    Threshold,   \* reports that disable an ad: 10 in the code
    EditStatus,  \* the statuses that edits set
    MaxResyncs,  \* bound: recounts of the reports
    MaxAborts,   \* bound: handlers and cleanups that fail halfway
    None

Assumptions ==
    /\ Threshold \in Nat \ {0}
    /\ EditStatus \subseteq {"active", "expired", "deleted", "pending", "rejected"}
    /\ {MaxResyncs, MaxAborts} \subseteq Nat
    /\ None \notin Ads \cup Reporters

VARIABLES
    ad,       \* the ads collection
    report,   \* the reports collection: one per ad and reporter
    req,      \* the handlers in flight
    cleanup,  \* the expiry cleanup
    resyncs,  \* recounts so far
    aborts    \* failures so far

vars == <<ad, report, req, cleanup, resyncs, aborts>>

-----------------------------------------------------------------------------
Status == {"active", "expired", "deleted", "pending", "rejected"}

\* decided: reviewed or action_taken.  A report an admin set back to pending is
\* pending for the code: the model keeps the two apart.
ReportStatus == {"none", "pending", "reopened", "decided"}
Pending == {"pending", "reopened"}

\* How long ago: a day is the grace period.
When == {"never", "recent", "old"}

\* due: expiryDate has passed.  Not in the document: by, what made an expired ad
\* expire; cleared, made active with enough reports to be disabled.
Ad == [status: Status \cup {"none", "gone"}, count: 0..Threshold, review: BOOLEAN,
       disabled: BOOLEAN, expiredAt: When, due: BOOLEAN, edits: Nat,
       by: {"none", "date", "reports", "edit"}, cleared: BOOLEAN]

NoAd == [status |-> "none", count |-> 0, review |-> FALSE, disabled |-> FALSE,
         expiredAt |-> "never", due |-> FALSE, edits |-> 0,
         by |-> "none", cleared |-> FALSE]

Step == {"idle", "submit_check", "submit_create", "submit_count", "submit_disable",
         "edit_save", "review_reports", "resync_set"}

\* counts: the number of reports of the ads a recount has still to write.
Request == [at: Step, ad: Ads \cup {None}, who: Reporters \cup {None},
            todo: SUBSET (Ads \X (1..Threshold))]

Idle == [at |-> "idle", ad |-> None, who |-> None, todo |-> {}]

Stored(a) == ad[a].status \in Status
Reported(a) == {u \in Reporters : report[a][u] # "none"}

\* Counts past the threshold are alike.
Capped(n) == IF n > Threshold THEN Threshold ELSE n

\* The ad with another status; "by" and "cleared" keep track of how it came to it.
WithStatus(a, s, by) ==
    [ad[a] EXCEPT
        !.status = s,
        !.by = IF s # "expired" THEN "none" ELSE IF ad[a].status = s THEN @ ELSE by,
        !.cleared = IF s = "active" THEN Cardinality(Reported(a)) >= Threshold ELSE @]

Free(r) == req[r].at = "idle"
Begin(r, q) == Free(r) /\ req' = [req EXCEPT ![r] = q]
Finish(r) == req' = [req EXCEPT ![r] = Idle]

Init ==
    /\ ad = [a \in Ads |-> NoAd]
    /\ report = [a \in Ads |-> [u \in Reporters |-> "none"]]
    /\ req = [r \in Reqs |-> Idle]
    /\ cleanup = [at |-> "idle", found |-> {}]
    /\ resyncs = 0
    /\ aborts = 0

-----------------------------------------------------------------------------
(* Owners *)

CreateAd(a) ==
    /\ ad[a].status = "none"
    /\ ad' = [ad EXCEPT ![a].status = "active"]
    /\ UNCHANGED <<report, req, cleanup, resyncs, aborts>>

\* updateAd: the owner may edit an ad once.
UpdateAd(r, a) ==
    /\ Stored(a)
    /\ ad[a].edits = 0
    /\ Begin(r, [Idle EXCEPT !.at = "edit_save", !.ad = a])
    /\ UNCHANGED <<ad, report, cleanup, resyncs, aborts>>

\* An edit may set the status and the expiry date along with everything else.
Edited(a, s, due) ==
    [(IF s = ad[a].status THEN ad[a] ELSE WithStatus(a, s, "edit")) EXCEPT !.due = due]

EditSave(r) ==
    /\ req[r].at = "edit_save"
    /\ LET a == req[r].ad
       IN  IF Stored(a)
           THEN \E s \in EditStatus \cup {ad[a].status}, due \in {FALSE, ad[a].due} :
                    ad' = [ad EXCEPT ![a] = [Edited(a, s, due) EXCEPT !.edits = @ + 1]]
           ELSE UNCHANGED ad
    /\ Finish(r)
    /\ UNCHANGED <<report, cleanup, resyncs, aborts>>

DeleteAd(a) ==
    /\ Stored(a)
    /\ ad' = [ad EXCEPT ![a] = WithStatus(a, "deleted", "none")]
    /\ UNCHANGED <<report, req, cleanup, resyncs, aborts>>

-----------------------------------------------------------------------------
(* submitReport *)

Submit(r, a, u) ==
    /\ Stored(a)
    /\ Begin(r, [Idle EXCEPT !.at = "submit_check", !.ad = a, !.who = u])
    /\ UNCHANGED <<ad, report, cleanup, resyncs, aborts>>

SubmitCheck(r) ==
    /\ req[r].at = "submit_check"
    /\ IF report[req[r].ad][req[r].who] = "none"
       THEN req' = [req EXCEPT ![r].at = "submit_create"]
       ELSE Finish(r)
    /\ UNCHANGED <<ad, report, cleanup, resyncs, aborts>>

\* The unique index on ad and reporter refuses a second report.
SubmitCreate(r) ==
    /\ req[r].at = "submit_create"
    /\ IF report[req[r].ad][req[r].who] = "none"
       THEN /\ report' = [report EXCEPT ![req[r].ad][req[r].who] = "pending"]
            /\ req' = [req EXCEPT ![r].at = "submit_count", ![r].who = None]
       ELSE Finish(r) /\ UNCHANGED report
    /\ UNCHANGED <<ad, cleanup, resyncs, aborts>>

\* Regression: the ad is disabled when it passes the threshold, not when it reaches it.
SubmitCountOffByOne(r) ==
    /\ req[r].at = "submit_count"
    /\ LET a == req[r].ad
       IN  IF Stored(a)
           THEN /\ ad' = [ad EXCEPT ![a].count = Capped(@ + 1), ![a].review = TRUE]
                /\ IF ad[a].count + 1 > Threshold
                   THEN req' = [req EXCEPT ![r].at = "submit_disable"]
                   ELSE Finish(r)
           ELSE Finish(r) /\ UNCHANGED ad
    /\ UNCHANGED <<report, cleanup, resyncs, aborts>>

SubmitCount(r) ==
    /\ req[r].at = "submit_count"
    /\ LET a == req[r].ad
       IN  IF Stored(a)
           THEN /\ ad' = [ad EXCEPT ![a].count = Capped(@ + 1), ![a].review = TRUE]
                /\ IF ad[a].count + 1 >= Threshold
                   THEN req' = [req EXCEPT ![r].at = "submit_disable"]
                   ELSE Finish(r)
           ELSE Finish(r) /\ UNCHANGED ad
    /\ UNCHANGED <<report, cleanup, resyncs, aborts>>

\* autoDisableAd: whatever the status was; expiredAt is left as it is.
SubmitDisable(r) ==
    /\ req[r].at = "submit_disable"
    /\ LET a == req[r].ad
       IN  IF Stored(a)
           THEN ad' = [ad EXCEPT ![a] =
                    [WithStatus(a, "expired", "reports") EXCEPT !.disabled = TRUE]]
           ELSE UNCHANGED ad
    /\ Finish(r)
    /\ UNCHANGED <<report, cleanup, resyncs, aborts>>

-----------------------------------------------------------------------------
(* Moderators *)

\* reviewAd: first the ad, then its reports.
Decided == [approve |-> "active", remove |-> "deleted", request_changes |-> "pending"]

Review(r, a, d) ==
    /\ Stored(a)
    /\ Begin(r, [Idle EXCEPT !.at = "review_reports", !.ad = a])
    /\ ad' = [ad EXCEPT ![a] =
                 [WithStatus(a, Decided[d], "none") EXCEPT
                     !.review = FALSE, !.disabled = IF d = "approve" THEN FALSE ELSE @]]
    /\ UNCHANGED <<report, cleanup, resyncs, aborts>>

\* Regression: a decision leaves the reports as they are.
ReviewReportsSkipped(r) ==
    /\ req[r].at = "review_reports"
    /\ Finish(r)
    /\ UNCHANGED <<ad, report, cleanup, resyncs, aborts>>

\* Regression: reports get a status the schema does not have.
ReviewReportsUnlisted(r) ==
    /\ req[r].at = "review_reports"
    /\ report' = [report EXCEPT ![req[r].ad] =
                     [u \in Reporters |-> IF @[u] \in Pending THEN "resolved" ELSE @[u]]]
    /\ Finish(r)
    /\ UNCHANGED <<ad, cleanup, resyncs, aborts>>

ReviewReports(r) ==
    /\ req[r].at = "review_reports"
    /\ report' = [report EXCEPT ![req[r].ad] =
                     [u \in Reporters |-> IF @[u] \in Pending THEN "decided" ELSE @[u]]]
    /\ Finish(r)
    /\ UNCHANGED <<ad, cleanup, resyncs, aborts>>

\* updateReportStatus
UpdateReport(a, u, s) ==
    /\ report[a][u] # "none"
    /\ report' = [report EXCEPT ![a][u] = s]
    /\ UNCHANGED <<ad, req, cleanup, resyncs, aborts>>

\* updateMerchantReportStatus, by the owner of the ad: the ad is looked up first, and
\* may be gone when the report is written.
MerchantUpdateReport(a, u, s) == UpdateReport(a, u, s)

AdminUpdateAd(a, s, due) ==
    /\ Stored(a)
    /\ ad' = [ad EXCEPT ![a] = Edited(a, s, due)]
    /\ UNCHANGED <<report, req, cleanup, resyncs, aborts>>

\* adminDeleteAd: the reports stay.
AdminDeleteAd(a) ==
    /\ Stored(a)
    /\ ad' = [ad EXCEPT ![a] = [NoAd EXCEPT !.status = "gone"]]
    /\ UNCHANGED <<report, req, cleanup, resyncs, aborts>>

\* resyncReportCounts: the reports of every ad are counted at once, and the counts
\* written one by one.
Resync(r) ==
    /\ resyncs < MaxResyncs
    /\ resyncs' = resyncs + 1
    /\ LET todo == {<<a, Capped(Cardinality(Reported(a)))>> :
                        a \in {b \in Ads : Reported(b) # {}}}
       IN  Begin(r, [Idle EXCEPT !.at = "resync_set", !.todo = todo])
    /\ UNCHANGED <<ad, report, cleanup, aborts>>

ResyncSet(r) ==
    /\ req[r].at = "resync_set"
    /\ IF req[r].todo = {}
       THEN Finish(r) /\ UNCHANGED ad
       ELSE \E t \in req[r].todo :
                /\ ad' = IF Stored(t[1]) THEN [ad EXCEPT ![t[1]].count = t[2]] ELSE ad
                /\ req' = [req EXCEPT ![r].todo = @ \ {t}]
    /\ UNCHANGED <<report, cleanup, resyncs, aborts>>

-----------------------------------------------------------------------------
(* runExpiryCleanup: at the start of the process and every hour *)

\* Regression: the grace period is not started.
DeactivateUnstamped ==
    /\ cleanup.at = "idle"
    /\ cleanup' = [cleanup EXCEPT !.at = "find"]
    /\ ad' = [a \in Ads |->
                 IF ad[a].status = "active" /\ ad[a].due
                 THEN WithStatus(a, "expired", "date") ELSE ad[a]]
    /\ UNCHANGED <<report, req, resyncs, aborts>>

\* Regression: an ad under review is left to the moderators.
DeactivateUnreviewed ==
    /\ cleanup.at = "idle"
    /\ cleanup' = [cleanup EXCEPT !.at = "find"]
    /\ ad' = [a \in Ads |->
                 IF ad[a].status = "active" /\ ad[a].due /\ ~ad[a].review
                 THEN [WithStatus(a, "expired", "date") EXCEPT !.expiredAt = "recent"]
                 ELSE ad[a]]
    /\ UNCHANGED <<report, req, resyncs, aborts>>

\* deactivateExpiredAds
Deactivate ==
    /\ cleanup.at = "idle"
    /\ cleanup' = [cleanup EXCEPT !.at = "find"]
    /\ ad' = [a \in Ads |->
                 IF ad[a].status = "active" /\ ad[a].due
                 THEN [WithStatus(a, "expired", "date") EXCEPT !.expiredAt = "recent"]
                 ELSE ad[a]]
    /\ UNCHANGED <<report, req, resyncs, aborts>>

\* deleteGracePeriodAds
PastGrace(a) == ad[a].status = "expired" /\ ad[a].expiredAt = "old"

FindPastGrace ==
    /\ cleanup.at = "find"
    /\ LET found == {a \in Ads : PastGrace(a)}
       IN  cleanup' = [at |-> IF found = {} THEN "idle" ELSE "reports", found |-> found]
    /\ UNCHANGED <<ad, report, req, resyncs, aborts>>

DeleteReports ==
    /\ cleanup.at = "reports"
    /\ cleanup' = [cleanup EXCEPT !.at = "ads"]
    /\ report' = [a \in Ads |-> IF a \in cleanup.found
                                THEN [u \in Reporters |-> "none"] ELSE report[a]]
    /\ UNCHANGED <<ad, req, resyncs, aborts>>

\* Regression: the ads found at first are deleted.
DeleteAdsFound ==
    /\ cleanup.at = "ads"
    /\ cleanup' = [at |-> "idle", found |-> {}]
    /\ ad' = [a \in Ads |-> IF a \in cleanup.found /\ Stored(a)
                            THEN [NoAd EXCEPT !.status = "gone"] ELSE ad[a]]
    /\ UNCHANGED <<report, req, resyncs, aborts>>

\* The ads to delete are looked up afresh.
DeleteAds ==
    /\ cleanup.at = "ads"
    /\ cleanup' = [at |-> "idle", found |-> {}]
    /\ ad' = [a \in Ads |-> IF PastGrace(a) THEN [NoAd EXCEPT !.status = "gone"] ELSE ad[a]]
    /\ UNCHANGED <<report, req, resyncs, aborts>>

-----------------------------------------------------------------------------
(* Time and failures *)

ComeDue(a) ==
    /\ Stored(a)
    /\ ~ad[a].due
    /\ ad' = [ad EXCEPT ![a].due = TRUE]
    /\ UNCHANGED <<report, req, cleanup, resyncs, aborts>>

\* A day passes since an ad expired.  The cleanup computes its cutoff once: no day
\* passes in the middle of it.
DayPasses(a) ==
    /\ cleanup.at = "idle"
    /\ ad[a].expiredAt = "recent"
    /\ ad' = [ad EXCEPT ![a].expiredAt = "old"]
    /\ UNCHANGED <<report, req, cleanup, resyncs, aborts>>

\* A database call fails, or the process restarts, and the rest is not done.
Abort(r) ==
    /\ req[r].at # "idle"
    /\ aborts < MaxAborts
    /\ aborts' = aborts + 1
    /\ Finish(r)
    /\ UNCHANGED <<ad, report, cleanup, resyncs>>

CleanupFails ==
    /\ cleanup.at # "idle"
    /\ aborts < MaxAborts
    /\ aborts' = aborts + 1
    /\ cleanup' = [at |-> "idle", found |-> {}]
    /\ UNCHANGED <<ad, report, req, resyncs>>

-----------------------------------------------------------------------------
Cleanup == Deactivate \/ FindPastGrace \/ DeleteReports \/ DeleteAds

Handle(r) ==
    \/ EditSave(r)
    \/ SubmitCheck(r)
    \/ SubmitCreate(r)
    \/ SubmitCount(r)
    \/ SubmitDisable(r)
    \/ ReviewReports(r)
    \/ ResyncSet(r)

Next ==
    \/ \E a \in Ads :
          \/ CreateAd(a)
          \/ DeleteAd(a)
          \/ AdminDeleteAd(a)
          \/ ComeDue(a)
          \/ DayPasses(a)
          \/ \E s \in EditStatus \cup {ad[a].status}, due \in {FALSE, ad[a].due} :
                AdminUpdateAd(a, s, due)
          \/ \E u \in Reporters, s \in {"reopened", "decided"} :
                UpdateReport(a, u, s) \/ MerchantUpdateReport(a, u, s)
    \/ \E r \in Reqs, a \in Ads :
          /\ Free(r)
          /\ \/ UpdateAd(r, a)
             \/ \E u \in Reporters : Submit(r, a, u)
             \/ \E d \in DOMAIN Decided : Review(r, a, d)
    \/ \E r \in Reqs : Resync(r) \/ Handle(r) \/ Abort(r)
    \/ Cleanup
    \/ CleanupFails

Spec == Init /\ [][Next]_vars

\* The cleanup runs every hour for as long as the process does, and a day passes
\* whatever the cleanup is at.
Fairness == WF_vars(Cleanup) /\ \A a \in Ads : SF_vars(DayPasses(a))

FairSpec == Spec /\ Fairness

-----------------------------------------------------------------------------
(* Properties *)

\* Every variable stays within its type.
TypeOK ==
    /\ ad \in [Ads -> Ad]
    /\ report \in [Ads -> [Reporters -> ReportStatus]]
    /\ req \in [Reqs -> Request]
    /\ cleanup \in [at: {"idle", "find", "reports", "ads"}, found: SUBSET Ads]
    /\ resyncs \in 0..MaxResyncs
    /\ aborts \in 0..MaxAborts

\* A report nobody has decided on is in the moderators' queue: its ad is under review,
\* unless the report is about to put it there, or a decision about to take it up
\* (submitReport and reviewAd each write the ad and the reports in two calls).
PendingIsUnderReview ==
    \A a \in Ads, u \in Reporters :
        report[a][u] = "pending" /\ Stored(a) =>
            \/ ad[a].review
            \/ \E r \in Reqs : req[r].at = "submit_count" /\ req[r].ad = a
            \/ \E r \in Reqs : req[r].at = "review_reports" /\ req[r].ad = a

\* An ad that so many people reported is not listed, unless the last report is still
\* being handled or somebody put the ad back after those reports (submitReport:
\* "auto-disables at 10 reports").  It holds as long as nobody recounts the reports
\* (MaxResyncs = 0) and no submission fails halfway.
DisabledAtThreshold ==
    \A a \in Ads :
        ad[a].status = "active" /\ Cardinality(Reported(a)) >= Threshold =>
            \/ ad[a].cleared
            \/ \E r \in Reqs :
                  req[r].ad = a /\ req[r].at \in {"submit_count", "submit_disable"}

\* The cleanup removes expired ads and no others, whatever a moderator or the owner
\* did to an ad after the cleanup found it (deleteGracePeriodAds).
CleanupSparesReinstated ==
    [][\A a \in Ads :
          cleanup.at = "ads" /\ cleanup'.at = "idle" /\ Stored(a) /\ ad'[a].status = "gone" =>
              ad[a].status = "expired"]_vars

\* An ad whose date has come does not stay listed (deactivateExpiredAds).
DueAdsLeave ==
    \A a \in Ads : ad[a].status = "active" /\ ad[a].due ~> ~(ad[a].status = "active" /\ ad[a].due)

\* An ad that expired by its date does not stay expired: it is removed, unless somebody
\* puts it back (deleteGracePeriodAds).
ExpiredAdsGo ==
    \A a \in Ads : ad[a].by = "date" ~> ad[a].by # "date"

\* The cleanup gets on: due ads leave the listings, and expired ads the collection.
AdsLeave == DueAdsLeave /\ ExpiredAdsGo

\* What deleteGracePeriodAds says: an ad is removed a day after it expired.  An ad
\* disabled by reports has no expiry time of its own; if it has one, it is of an
\* earlier expiry, after which the ad was put back.
GraceRespected ==
    [][\A a \in Ads :
          cleanup.at = "ads" /\ cleanup'.at = "idle" /\ PastGrace(a) => ad[a].by # "reports"]_vars
=============================================================================
