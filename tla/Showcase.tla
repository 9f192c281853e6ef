------------------------------- MODULE Showcase -------------------------------
(* What the promotions of the storefront promise, whatever runs at the same time: *)
(* nothing is shown before an admin approved it, nothing is paid before it was    *)
(* approved, a payment is not forgotten while the promotion exists, and what is   *)
(* gone does not come back.  Banners implements it.                               *)

CONSTANT Items

VARIABLES
    approved,  \* items an admin approved, or that need no approval
    paid,      \* items paid for, or free of charge
    shown,     \* items the homepage may show
    gone       \* items deleted

vars == <<approved, paid, shown, gone>>

Init == approved = {} /\ paid = {} /\ shown = {} /\ gone = {}

\* An approval shows the item at once, if its dates allow it.
Approve(i) ==
    /\ i \notin approved \cup gone
    /\ approved' = approved \cup {i}
    /\ shown' \in {shown, shown \cup {i}}
    /\ paid' \in {paid, paid \cup {i}}
    /\ UNCHANGED gone

\* A second decision or a payment can show the item, or take it away.
Decide(i) ==
    /\ i \in approved \ gone
    /\ paid' \in {paid, paid \cup {i}}
    /\ shown' \in {shown \cup {i}, shown \ {i}}
    /\ UNCHANGED <<approved, gone>>

Hide(s) == shown' = shown \ s /\ UNCHANGED <<approved, paid, gone>>

Remove(s) ==
    /\ gone' = gone \cup s
    /\ approved' = approved \ s
    /\ paid' = paid \ s
    /\ shown' = shown \ s

Next == \/ \E i \in Items : Approve(i) \/ Decide(i)
        \/ \E s \in SUBSET Items : Hide(s) \/ Remove(s)

Spec == Init /\ [][Next]_vars
=============================================================================
