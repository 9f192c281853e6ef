----------------------------- MODULE RefundLedger -----------------------------
(* What the refunds of payments promise, whatever requests race or die: money is   *)
(* given back within the price, every entry recorded is of money given back and of *)
(* no other entry's, entries are not taken back, and the total stays within both,  *)
(* and stays once it says that all was refunded.  Payments implements it.          *)
EXTENDS Integers

CONSTANTS
    Accounts,  \* the orders
    Price      \* what each of them costs

VARIABLES
    given,     \* the money given back
    entered,   \* the sum of the entries recorded
    written,   \* the money given back that nobody will record
    total      \* the total that is kept of the entries

ledger == <<given, entered, written, total>>

Outstanding(o) == given[o] - entered[o] - written[o]

Init ==
    /\ given = [o \in Accounts |-> 0]
    /\ entered = [o \in Accounts |-> 0]
    /\ written = [o \in Accounts |-> 0]
    /\ total = [o \in Accounts |-> 0]

\* The answer may be lost at once.
GiveBack(o, a) ==
    /\ given[o] + a <= Price
    /\ given' = [given EXCEPT ![o] = @ + a]
    /\ written' \in {written, [written EXCEPT ![o] = @ + a]}
    /\ UNCHANGED <<entered, total>>

\* An entry comes with a new total, which may leave out other entries.
Enter(o, a, t) ==
    /\ a <= Outstanding(o)
    /\ a <= t /\ t <= entered[o] + a /\ t <= given[o]
    /\ total[o] = Price => t = Price
    /\ entered' = [entered EXCEPT ![o] = @ + a]
    /\ total' = [total EXCEPT ![o] = t]
    /\ UNCHANGED <<given, written>>

WriteOff(o, a) ==
    /\ a <= Outstanding(o)
    /\ written' = [written EXCEPT ![o] = @ + a]
    /\ UNCHANGED <<given, entered, total>>

Next ==
    \E o \in Accounts, a \in 1..Price :
        \/ GiveBack(o, a)
        \/ \E t \in 1..Price : Enter(o, a, t)
        \/ WriteOff(o, a)

Spec == Init /\ [][Next]_ledger
===============================================================================
