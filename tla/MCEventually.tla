----------------------------- MODULE MCEventually -----------------------------
(* What must happen in the end, on small instances side by side: a call stops       *)
(* ringing (Calls), due ads are taken down (AdModeration), and a deleted product    *)
(* leaves the cache (Catalog).  They share no state: a behaviour is one of a single *)
(* part, and the fairness assumed of it is that of the part.                        *)
EXTENDS Naturals

CONSTANTS
    Reqs, MaxAborts, None,
    \* Calls
    Users, MaxCalls, MaxRestarts,
    \* AdModeration
    Ads, Reporters, Threshold, EditStatus, MaxResyncs, AdReqs,
    \* Catalog
    Merchants, MaxProducts, Stocks, MaxFailures, ProductReqs

VARIABLES
    part,
    call, made, age, creq, svcTimer, gwTimer, restarts, raced,
    ad, report, areq, cleanup, resyncs, aborts,
    product, item, list, sreq, failures, gone, outdated, overlapped

callVars == <<call, made, age, creq, svcTimer, gwTimer, restarts, raced>>
adVars == <<ad, report, areq, cleanup, resyncs, aborts>>
productVars == <<product, item, list, sreq, failures, gone, outdated, overlapped>>
vars == <<part, callVars, adVars, productVars>>

C == INSTANCE Calls WITH req <- creq
A == INSTANCE AdModeration WITH Reqs <- AdReqs, req <- areq
S == INSTANCE Catalog WITH Reqs <- ProductReqs, req <- sreq

Init ==
    /\ part \in {"calls", "ads", "products"}
    /\ C!Init /\ A!Init /\ S!Init

\* A step of one part leaves the others alone.
InCalls(step) == part = "calls" /\ step /\ UNCHANGED <<part, adVars, productVars>>
InAds(step) == part = "ads" /\ step /\ UNCHANGED <<part, callVars, productVars>>
InProducts(step) == part = "products" /\ step /\ UNCHANGED <<part, callVars, adVars>>

Next == InCalls(C!Next) \/ InAds(A!Next) \/ InProducts(S!Next)

\* The fairness of each part: Calls, AdModeration and Catalog say why.
CallsFairness ==
    /\ \A r \in Reqs : WF_vars(InCalls(C!HandlerStep(r)))
    /\ \A c \in C!Calls : WF_vars(InCalls(C!Ages(c)))
    /\ \A c \in C!Calls : SF_vars(InCalls(\E r \in Reqs : C!SvcTimerFires(r, c)))

AdsFairness ==
    /\ WF_vars(InAds(A!Cleanup))
    /\ \A a \in Ads : SF_vars(InAds(A!DayPasses(a)))

ProductsFairness ==
    /\ \A r \in ProductReqs : WF_vars(InProducts(S!HandlerStep(r)))
    /\ \A p \in S!Products : WF_vars(InProducts(S!ItemTimesOut(p)))
    /\ \A m \in Merchants : WF_vars(InProducts(S!ListTimesOut(m)))

FairSpec ==
    /\ Init /\ [][Next]_vars
    /\ CallsFairness /\ AdsFairness /\ ProductsFairness

-----------------------------------------------------------------------------
\* A call stops ringing in the end (Calls).
RingingEnds == C!RingingEnds

\* Ads that are due leave the listings, and expired ones the collection (AdModeration).
AdsLeave == A!AdsLeave

\* A deleted product is out of the cache for good in the end (Catalog).
DeletedLeavesCache == S!DeletedLeavesCache
=============================================================================
