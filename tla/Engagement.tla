------------------------------ MODULE Engagement ------------------------------
(* What people do with advertisements: wishlists and the notifications they cause  *)
(* (src/src/users/users.service.ts), and views                                     *)
(* (src/src/ads/ads.service.ts).                                                   *)
EXTENDS Integers, FiniteSets

CONSTANTS
    Users,
    Owner,       \* owns every advertisement
    Ads,
    Reqs,        \* slots for handlers under way at the same time
    MaxToggles,  \* bound: wishlist toggles ever begun
    Viewed,      \* bound: the ads that are viewed
    MaxViews,    \* bound: views of an ad counted for messages
    MaxAborts,   \* bound: handlers and notifications that fail
    None

Assumptions ==
    /\ Owner \in Users
    /\ Viewed \subseteq Ads
    /\ {MaxToggles, MaxViews, MaxAborts} \subseteq Nat

VARIABLES
    wishlist,       \* of each user
    unread,         \* notifications to the owner not read, by sender and ad
    read,           \* notifications to the owner that were read
    views,
    viewHistory,    \* the users that viewed an ad
    req,            \* the handlers in flight
    toggles,        \* the number of toggles begun
    aborts,         \* handlers and notifications that failed
    saves,          \* for the properties: toggles saved, by user and ad
    additions,      \* those of them that added
    raced           \* users of whom two toggles overlapped

vars == <<wishlist, unread, read, views, viewHistory, req, toggles, aborts, saves, additions,
          raced>>

counters == <<views, viewHistory>>
notices == <<unread, read>>

-----------------------------------------------------------------------------
Step == {"idle", "toggle_save", "notify"}

Request == [at: Step, user: Users \cup {None}, ad: Ads \cup {None}, list: SUBSET Ads,
            added: BOOLEAN]

Idle == [at |-> "idle", user |-> None, ad |-> None, list |-> {}, added |-> FALSE]

Finish(r) == req' = [req EXCEPT ![r] = Idle]

Zero == [u \in Users |-> [a \in Ads |-> 0]]

Init ==
    /\ wishlist = [u \in Users |-> {}]
    /\ unread = Zero /\ read = Zero
    /\ views = [a \in Ads |-> 0]
    /\ viewHistory = [a \in Ads |-> {}]
    /\ req = [r \in Reqs |-> Idle]
    /\ toggles = 0
    /\ aborts = 0
    /\ saves = Zero /\ additions = Zero
    /\ raced = {}

-----------------------------------------------------------------------------
(* toggleWishlist *)

Toggling(u) == {r \in Reqs : req[r].at = "toggle_save" /\ req[r].user = u}

ToggleFind(r, u, a) ==
    /\ req[r].at = "idle"
    /\ toggles < MaxToggles
    /\ toggles' = toggles + 1
    /\ LET added == a \notin wishlist[u]
           list == IF added THEN wishlist[u] \cup {a} ELSE wishlist[u] \ {a}
       IN  req' = [req EXCEPT ![r] = [at |-> "toggle_save", user |-> u, ad |-> a,
                                      list |-> list, added |-> added]]
    /\ raced' = IF Toggling(u) = {} THEN raced ELSE raced \cup {u}
    /\ UNCHANGED <<wishlist, notices, counters, aborts, saves, additions>>

\* Regression: a removal tells the owner, too.
ToggleSaveTelling(r) ==
    /\ req[r].at = "toggle_save"
    /\ LET q == req[r]
       IN  /\ wishlist' = [wishlist EXCEPT ![q.user] = q.list]
           /\ saves' = [saves EXCEPT ![q.user][q.ad] = @ + 1]
           /\ additions' = [additions EXCEPT ![q.user][q.ad] = IF q.added THEN @ + 1 ELSE @]
           /\ IF q.user # Owner THEN req' = [req EXCEPT ![r].at = "notify"] ELSE Finish(r)
    /\ UNCHANGED <<notices, counters, toggles, aborts, raced>>

\* The whole list is written.  The owner is told of an addition by another.
ToggleSave(r) ==
    /\ req[r].at = "toggle_save"
    /\ LET q == req[r]
       IN  /\ wishlist' = [wishlist EXCEPT ![q.user] = q.list]
           /\ saves' = [saves EXCEPT ![q.user][q.ad] = @ + 1]
           /\ additions' = [additions EXCEPT ![q.user][q.ad] = IF q.added THEN @ + 1 ELSE @]
           /\ IF q.added /\ q.user # Owner
              THEN req' = [req EXCEPT ![r].at = "notify"] ELSE Finish(r)
    /\ UNCHANGED <<notices, counters, toggles, aborts, raced>>

Notify(r) ==
    /\ req[r].at = "notify"
    /\ unread' = [unread EXCEPT ![req[r].user][req[r].ad] = @ + 1]
    /\ Finish(r)
    /\ UNCHANGED <<wishlist, read, counters, toggles, aborts, saves, additions, raced>>

\* A notification that fails is logged and forgotten; a process that dies forgets all.
Abort(r) ==
    /\ req[r].at # "idle"
    /\ aborts < MaxAborts
    /\ aborts' = aborts + 1
    /\ Finish(r)
    /\ UNCHANGED <<wishlist, notices, counters, toggles, saves, additions, raced>>

-----------------------------------------------------------------------------
(* Notifications, read by their recipient *)

markNotificationRead(u, a) ==
    /\ unread[u][a] > 0
    /\ unread' = [unread EXCEPT ![u][a] = @ - 1]
    /\ read' = [read EXCEPT ![u][a] = @ + 1]
    /\ UNCHANGED <<wishlist, counters, req, toggles, aborts, saves, additions, raced>>

markAllNotificationsRead ==
    /\ unread # Zero
    /\ unread' = Zero
    /\ read' = [u \in Users |-> [a \in Ads |-> read[u][a] + unread[u][a]]]
    /\ UNCHANGED <<wishlist, counters, req, toggles, aborts, saves, additions, raced>>

-----------------------------------------------------------------------------
(* Views: one database call each *)

incrementViewCount(a) ==
    /\ views[a] < MaxViews
    /\ views' = [views EXCEPT ![a] = @ + 1]
    /\ UNCHANGED <<wishlist, notices, viewHistory, req, toggles, aborts, saves, additions,
                   raced>>

\* Every message that asks for an ad counts, again when it is delivered again.
handleAdGet(a) == incrementViewCount(a)

\* Regression: the count is left to incrementViewCount.
trackViewUncounted(u, a) ==
    /\ u \notin viewHistory[a]
    /\ viewHistory' = [viewHistory EXCEPT ![a] = @ \cup {u}]
    /\ UNCHANGED <<wishlist, notices, views, req, toggles, aborts, saves, additions, raced>>

\* trackViewWithVisitor
trackView(u, a) ==
    /\ viewHistory' = [viewHistory EXCEPT ![a] = @ \cup {u}]
    /\ views' = [views EXCEPT ![a] = Cardinality(viewHistory'[a])]
    /\ UNCHANGED <<wishlist, notices, req, toggles, aborts, saves, additions, raced>>

\* A visit of a user who is logged in, which the answer does not wait for.
getAdDetails(u, a) == trackView(u, a)

resyncViewCounts ==
    /\ views' = [a \in Ads |-> Cardinality(viewHistory[a])]
    /\ UNCHANGED <<wishlist, notices, viewHistory, req, toggles, aborts, saves, additions,
                   raced>>

\* How many wishlists an ad is on.
getAdWishlistCount(a) == Cardinality({u \in Users : a \in wishlist[u]})

-----------------------------------------------------------------------------
Next ==
    \/ \E r \in Reqs :
        \/ \E u \in Users, a \in Ads : ToggleFind(r, u, a)
        \/ ToggleSave(r) \/ Notify(r) \/ Abort(r)
    \/ \E u \in Users, a \in Ads : markNotificationRead(u, a)
    \/ \E a \in Viewed : handleAdGet(a) \/ \E u \in Users : getAdDetails(u, a)
    \/ markAllNotificationsRead
    \/ resyncViewCounts

Spec == Init /\ [][Next]_vars

-----------------------------------------------------------------------------
(* Properties *)

\* Every variable stays within its type.
TypeOK ==
    /\ wishlist \in [Users -> SUBSET Ads]
    /\ \A counts \in {unread, read, saves, additions} : counts \in [Users -> [Ads -> Nat]]
    /\ views \in [Ads -> Nat]
    /\ viewHistory \in [Ads -> SUBSET Users]
    /\ req \in [Reqs -> Request]
    /\ toggles \in 0..MaxToggles
    /\ aborts \in 0..MaxAborts
    /\ raced \subseteq Users

\* An ad is on a wishlist exactly when it was toggled an odd number of times, unless two
\* toggles of the user overlapped: the later one writes the list without the other; and
\* its count is over the users of whom that holds.
WishlistExact ==
    /\ \A u \in Users \ raced, a \in Ads : a \in wishlist[u] <=> saves[u][a] % 2 = 1
    /\ raced = {} => \A a \in Ads :
         getAdWishlistCount(a) = Cardinality({u \in Users : saves[u][a] % 2 = 1})

Telling(u, a) == {r \in Reqs : req[r].at = "notify" /\ req[r].user = u /\ req[r].ad = a}

\* The owner has one notification for each addition by another and none by themselves,
\* but for those about to be made and those that failed.
NoticesFollow ==
    /\ \A a \in Ads : unread[Owner][a] + read[Owner][a] = 0
    /\ \A u \in Users \ {Owner}, a \in Ads :
        LET told == unread[u][a] + read[u][a] + Cardinality(Telling(u, a))
        IN  told <= additions[u][a] /\ additions[u][a] <= told + aborts

\* The wishlists and the notifications of their owners follow what users toggled
\* (toggleWishlist).
WishlistFollows == WishlistExact /\ NoticesFollow

\* An ad has at least as many views as it has viewers, whichever of messages, visits and
\* recounts come last (incrementViewCount, trackViewWithVisitor, resyncViewCounts).
ViewsCover == \A a \in Ads : views[a] >= Cardinality(viewHistory[a])
=============================================================================
