-------------------------------- MODULE Calls --------------------------------
(***************************************************************************)
(* Audio and video calls: src/src/calls/calls.service.ts and               *)
(* calls.gateway.ts.                                                       *)
(*                                                                         *)
(* A call is a document; two timers of the process, the service's and the  *)
(* gateway's, close it when nobody answers.  Every handler reads the call, *)
(* decides, and saves in a later database call.  A request, or a timer     *)
(* that fired, occupies a slot of Reqs and remembers the call as it read   *)
(* it; save() writes only the fields it changed.                           *)
(***************************************************************************)
EXTENDS Integers, FiniteSets

CONSTANTS
    Users,
    Reqs,        \* slots for handlers under way at the same time
    MaxCalls,    \* bound: calls ever made
    MaxRestarts, \* bound: restarts of the process
    None

ASSUME BoundsAssumption == MaxCalls \in Nat /\ MaxRestarts \in Nat
ASSUME NoneAssumption == None \notin Users

VARIABLES
    call,      \* the calls collection, in the order of creation
    made,      \* the number of calls made
    age,       \* how long ago each call started
    req,       \* the handlers in flight
    svcTimer,  \* calls with a timer in the service
    gwTimer,   \* calls with a timer in the gateway
    restarts,  \* restarts so far
    raced      \* second calls to a callee that the busy check could not rule out

vars == <<call, made, age, req, svcTimer, gwTimer, restarts, raced>>

-----------------------------------------------------------------------------
Calls == 1..MaxCalls

\* The ages the code tells apart.
Fresh == 0
Stale == 1      \* over 12 seconds: a ringing call is given up
Due == 2        \* over 30 seconds: the timers fire
Forgotten == 3  \* over 6 hours: an accepted call is given up

\* initiated, failed and busy are never set on a document.
CallStatus == {"none", "ringing", "accepted", "rejected", "missed", "ended"}
Active == {"ringing", "accepted"}
Over == {"rejected", "missed", "ended"}

\* answered, ended: answeredAt and endedAt are set; talked: durationSec counts from
\* an answer.
Call == [caller: Users \cup {None}, callee: Users \cup {None}, status: CallStatus,
         answered: BOOLEAN, ended: BOOLEAN, talked: BOOLEAN]

NoCall == [caller |-> None, callee |-> None, status |-> "none",
           answered |-> FALSE, ended |-> FALSE, talked |-> FALSE]

Step == {"idle", "clean_callee", "clean_caller", "busy_find", "create", "timers",
         "accept_save", "accept_clear", "accept_done", "end_read", "end_save"}

\* then: the step to go on with when the call in hand is closed; todo: the calls
\* still to close, with the status each gets.
Request == [at: Step, then: Step, caller: Users \cup {None}, callee: Users \cup {None},
            id: Calls \cup {0}, want: CallStatus, read: Call,
            todo: SUBSET (Calls \X CallStatus), stale: SUBSET Calls, raced: BOOLEAN]

Idle == [at |-> "idle", then |-> "idle", caller |-> None, callee |-> None, id |-> 0,
         want |-> "none", read |-> NoCall, todo |-> {}, stale |-> {}, raced |-> FALSE]

With(u, c) == u \in {call[c].caller, call[c].callee}
ActiveWith(u) == {c \in Calls : With(u, c) /\ call[c].status \in Active}

Begin(r, q) == req[r].at = "idle" /\ req' = [req EXCEPT ![r] = q]

\* Where a handler stands when endCallInternal returns: at the next call to close, in
\* the order of the collection, or at the step that follows.
Returned(q) ==
    LET clear == [q EXCEPT !.id = 0, !.want = "none", !.read = NoCall]
        next == CHOOSE t \in q.todo : \A s \in q.todo : t[1] <= s[1]
    IN  IF q.todo # {} THEN [clear EXCEPT !.at = "end_read", !.id = next[1],
                                          !.want = next[2], !.todo = @ \ {next}]
        ELSE IF q.then # "idle" THEN [clear EXCEPT !.at = q.then, !.then = "idle"]
        ELSE Idle

\* mongoose save(): a field assigned a value equal to the one read is not written.
\* Regression: save() writes every field, as a replacement of the document would.
SavedWhole(now, read, mine) == mine

Saved(now, read, mine) ==
    [f \in DOMAIN now |-> IF mine[f] = read[f] THEN now[f] ELSE mine[f]]

Init ==
    /\ call = [c \in Calls |-> NoCall]
    /\ made = 0
    /\ age = [c \in Calls |-> Fresh]
    /\ req = [r \in Reqs |-> Idle]
    /\ svcTimer = {}
    /\ gwTimer = {}
    /\ restarts = 0
    /\ raced = {}

-----------------------------------------------------------------------------
(* createCallInvite *)

StaleRinging(u) == {c \in ActiveWith(u) : call[c].status = "ringing" /\ age[c] >= Stale}
StaleAccepted(u) == {c \in ActiveWith(u) : call[c].status = "accepted" /\ age[c] >= Forgotten}

Inviting == {s \in Reqs : req[s].callee # None}

\* stale and raced are noted for the properties; raced: another invitation overlaps.
Invite(r, a, b) ==
    /\ a # b
    /\ made + Cardinality(Inviting) < MaxCalls
    /\ req[r].at = "idle"
    /\ LET q == [Idle EXCEPT !.at = "clean_callee", !.caller = a, !.callee = b,
                             !.stale = StaleRinging(a) \cup StaleRinging(b),
                             !.raced = Inviting # {}]
       IN  req' = [s \in Reqs |-> IF s = r THEN q
                                 ELSE IF s \in Inviting THEN [req[s] EXCEPT !.raced = TRUE]
                                 ELSE req[s]]
    /\ UNCHANGED <<call, made, age, svcTimer, gwTimer, restarts, raced>>

\* Regression: ringing calls are left to their timers.
CleanFindAccepted(r, at, next) ==
    /\ req[r].at = at
    /\ LET u == IF at = "clean_callee" THEN req[r].callee ELSE req[r].caller
           todo == StaleAccepted(u) \X {"ended"}
       IN  req' = [req EXCEPT ![r] = Returned([@ EXCEPT !.then = next, !.todo = todo])]
    /\ UNCHANGED <<call, made, age, svcTimer, gwTimer, restarts, raced>>

\* cleanupStaleActiveCallsForUser: the calls to close are found at once, and closed
\* one after the other.
CleanFind(r, at, next) ==
    /\ req[r].at = at
    /\ LET u == IF at = "clean_callee" THEN req[r].callee ELSE req[r].caller
           todo == (StaleRinging(u) \X {"missed"}) \cup (StaleAccepted(u) \X {"ended"})
       IN  req' = [req EXCEPT ![r] = Returned([@ EXCEPT !.then = next, !.todo = todo])]
    /\ UNCHANGED <<call, made, age, svcTimer, gwTimer, restarts, raced>>

CleanCallee(r) == CleanFind(r, "clean_callee", "clean_caller")
CleanCaller(r) == CleanFind(r, "clean_caller", "busy_find")

Newest(S) == CHOOSE c \in S : \A d \in S : d <= c

\* Regression: a redial does not close the previous invitation.
BusyFindOpen(r) ==
    /\ req[r].at = "busy_find"
    /\ LET busy == ActiveWith(req[r].callee)
           c == Newest(busy)
       IN  req' = [req EXCEPT ![r] =
             IF busy = {} \/ (call[c].status = "ringing" /\ call[c].caller = req[r].caller)
             THEN [@ EXCEPT !.at = "create"] ELSE Idle]
    /\ UNCHANGED <<call, made, age, svcTimer, gwTimer, restarts, raced>>

\* The newest active call of the callee makes them busy, unless it is an invitation
\* by the same caller, or a stale one: that is closed as missed.  Older ones are not
\* looked at, so the closing of a call by the callee is noted in raced too: a call to
\* the callee may ring beside it.
BusyFind(r) ==
    /\ req[r].at = "busy_find"
    /\ LET q == req[r]
           busy == ActiveWith(q.callee)
           c == Newest(busy)
           replaced == /\ call[c].status = "ringing"
                       /\ \/ call[c].caller = q.caller /\ call[c].callee = q.callee
                          \/ age[c] >= Stale
       IN  req' = [req EXCEPT ![r] =
             IF busy = {} THEN [q EXCEPT !.at = "create"]
             ELSE IF replaced THEN [q EXCEPT !.at = "end_read", !.then = "create",
                                             !.id = c, !.want = "missed",
                                             !.raced = @ \/ call[c].callee # q.callee]
             ELSE Idle]
    /\ UNCHANGED <<call, made, age, svcTimer, gwTimer, restarts, raced>>

Ringing(u) == {c \in Calls : call[c].status = "ringing" /\ call[c].callee = u}

Create(r) ==
    /\ req[r].at = "create"
    /\ made' = made + 1
    /\ call' = [call EXCEPT ![made + 1] = [NoCall EXCEPT !.caller = req[r].caller,
                              !.callee = req[r].callee, !.status = "ringing"]]
    /\ req' = [req EXCEPT ![r] = [Idle EXCEPT !.at = "timers", !.id = made + 1]]
    /\ raced' = IF req[r].raced /\ Ringing(req[r].callee) # {}
                THEN raced \cup {made + 1} ELSE raced
    /\ UNCHANGED <<age, svcTimer, gwTimer, restarts>>

\* Regression: only the gateway, not the Kafka controller, starts a timer.
StartTimersGateway(r) ==
    /\ req[r].at = "timers"
    /\ gwTimer' \in {gwTimer, gwTimer \cup {req[r].id}}
    /\ req' = [req EXCEPT ![r] = Idle]
    /\ UNCHANGED <<call, made, age, svcTimer, restarts, raced>>

\* The service starts its timer; the gateway starts one too, the Kafka controller
\* does not.
StartTimers(r) ==
    /\ req[r].at = "timers"
    /\ svcTimer' = svcTimer \cup {req[r].id}
    /\ gwTimer' \in {gwTimer, gwTimer \cup {req[r].id}}
    /\ req' = [req EXCEPT ![r] = Idle]
    /\ UNCHANGED <<call, made, age, restarts, raced>>

-----------------------------------------------------------------------------
(* acceptCall, by the callee *)

AcceptCall(r, c) ==
    /\ call[c].status = "ringing"
    /\ Begin(r, [Idle EXCEPT !.at = "accept_save", !.id = c, !.read = call[c]])
    /\ UNCHANGED <<call, made, age, svcTimer, gwTimer, restarts, raced>>

AcceptSave(r) ==
    /\ req[r].at = "accept_save"
    /\ LET c == req[r].id
           read == req[r].read
       IN  call' = [call EXCEPT ![c] =
                      Saved(@, read, [read EXCEPT !.status = "accepted", !.answered = TRUE])]
    /\ req' = [req EXCEPT ![r] = [Idle EXCEPT !.at = "accept_clear", !.id = req[r].id]]
    /\ UNCHANGED <<made, age, svcTimer, gwTimer, restarts, raced>>

\* The service clears its timer; the gateway clears its own after the chat message
\* about the call is stored.
AcceptClear(r) ==
    /\ req[r].at = "accept_clear"
    /\ svcTimer' = svcTimer \ {req[r].id}
    /\ req' = [req EXCEPT ![r].at = "accept_done"]
    /\ UNCHANGED <<call, made, age, gwTimer, restarts, raced>>

AcceptDone(r) ==
    /\ req[r].at = "accept_done"
    /\ gwTimer' \in {gwTimer, gwTimer \ {req[r].id}}
    /\ req' = [req EXCEPT ![r] = Idle]
    /\ UNCHANGED <<call, made, age, svcTimer, restarts, raced>>

-----------------------------------------------------------------------------
(* rejectCall, endCall and the timers; endCallInternal reads the call again and closes it *)

Close(r, c, want) ==
    /\ Begin(r, [Idle EXCEPT !.at = "end_read", !.id = c, !.want = want])
    /\ UNCHANGED <<call, made, age, restarts, raced>>

\* Regression: status and reason are swapped.
RejectCallSwapped(r, c) ==
    /\ call[c].status = "ringing"
    /\ Close(r, c, "declined")
    /\ UNCHANGED <<svcTimer, gwTimer>>

RejectCall(r, c) ==
    /\ call[c].status = "ringing"
    /\ Close(r, c, "rejected")
    /\ UNCHANGED <<svcTimer, gwTimer>>

EndCall(r, c) ==
    /\ call[c].status # "none"
    /\ Close(r, c, "ended")
    /\ UNCHANGED <<svcTimer, gwTimer>>

\* The service's timer closes the call whatever its status.
SvcTimerFires(r, c) ==
    /\ c \in svcTimer /\ age[c] >= Due
    /\ Close(r, c, "missed")
    /\ svcTimer' = svcTimer \ {c}
    /\ UNCHANGED gwTimer

\* The gateway's timer leaves a call alone that it reads as answered or closed.
MarkMissedIfUnanswered(r, c) ==
    /\ c \in gwTimer /\ age[c] >= Due
    /\ gwTimer' = gwTimer \ {c}
    /\ \/ /\ call[c].status = "ringing"
          /\ Close(r, c, "missed")
       \/ /\ call[c].status # "ringing"
          /\ UNCHANGED <<call, made, age, req, restarts, raced>>
    /\ UNCHANGED svcTimer

\* A client's request through the gateway clears the gateway's timer; a request
\* through the Kafka controller and the timers themselves do not.
GwTimerCleared(q) ==
    IF q.then = "idle" /\ q.want # "missed" THEN {gwTimer, gwTimer \ {q.id}} ELSE {gwTimer}

\* A call that is read as over stays as it is.
CloseRead(r) ==
    /\ req[r].at = "end_read"
    /\ LET q == req[r]
       IN  \/ /\ call[q.id].status \in Over
              /\ req' = [req EXCEPT ![r] = Returned(q)]
              /\ gwTimer' \in GwTimerCleared(q)
           \/ /\ call[q.id].status \notin Over
              /\ req' = [req EXCEPT ![r].at = "end_save", ![r].read = call[q.id]]
              /\ UNCHANGED gwTimer
    /\ UNCHANGED <<call, made, age, svcTimer, restarts, raced>>

\* Regression: endedAt is set only for a call that was answered.
CloseSaveUnstamped(r) ==
    /\ req[r].at = "end_save"
    /\ LET q == req[r]
           mine == [q.read EXCEPT !.status = q.want, !.ended = q.read.answered,
                                  !.talked = q.read.answered]
       IN  /\ call' = [call EXCEPT ![q.id] = Saved(@, q.read, mine)]
           /\ svcTimer' = svcTimer \ {q.id}
           /\ gwTimer' \in GwTimerCleared(q)
           /\ req' = [req EXCEPT ![r] = Returned(q)]
    /\ UNCHANGED <<made, age, restarts, raced>>

CloseSave(r) ==
    /\ req[r].at = "end_save"
    /\ LET q == req[r]
           mine == [q.read EXCEPT !.status = q.want, !.ended = TRUE,
                                  !.talked = q.read.answered]
       IN  /\ call' = [call EXCEPT ![q.id] = Saved(@, q.read, mine)]
           /\ svcTimer' = svcTimer \ {q.id}
           /\ gwTimer' \in GwTimerCleared(q)
           /\ req' = [req EXCEPT ![r] = Returned(q)]
    /\ UNCHANGED <<made, age, restarts, raced>>

-----------------------------------------------------------------------------
(* Time and restarts *)

\* A call made earlier is never younger than one made later.
Ages(c) ==
    /\ call[c].status # "none"
    /\ age[c] < Forgotten
    /\ \A d \in Calls : d < c => age[d] > age[c]
    /\ age' = [age EXCEPT ![c] = @ + 1]
    /\ UNCHANGED <<call, made, req, svcTimer, gwTimer, restarts, raced>>

\* The handlers under way and the timers are gone; the documents stay.
Restart ==
    /\ restarts < MaxRestarts
    /\ restarts' = restarts + 1
    /\ req' = [r \in Reqs |-> Idle]
    /\ svcTimer' = {}
    /\ gwTimer' = {}
    /\ UNCHANGED <<call, made, age, raced>>

-----------------------------------------------------------------------------
HandlerStep(r) ==
    \/ CleanCallee(r)
    \/ CleanCaller(r)
    \/ BusyFind(r)
    \/ Create(r)
    \/ StartTimers(r)
    \/ AcceptSave(r)
    \/ AcceptClear(r)
    \/ AcceptDone(r)
    \/ CloseRead(r)
    \/ CloseSave(r)

Next ==
    \/ \E r \in Reqs : HandlerStep(r)
    \/ \E r \in Reqs, a, b \in Users : Invite(r, a, b)
    \/ \E r \in Reqs, c \in Calls :
         \/ AcceptCall(r, c)
         \/ RejectCall(r, c)
         \/ EndCall(r, c)
         \/ SvcTimerFires(r, c)
         \/ MarkMissedIfUnanswered(r, c)
    \/ \E c \in Calls : Ages(c)
    \/ Restart

Spec == Init /\ [][Next]_vars

\* Time passes, a handler under way goes on, and a timer that is due fires: the
\* number of slots is a bound of the model, so a timer waits for one at most as long
\* as the slots are taken.
Fairness ==
    /\ \A r \in Reqs : WF_vars(HandlerStep(r))
    /\ \A c \in Calls : WF_vars(Ages(c))
    /\ \A c \in Calls : SF_vars(\E r \in Reqs : SvcTimerFires(r, c))

FairSpec == Spec /\ Fairness

-----------------------------------------------------------------------------
(* Properties *)

\* Every variable stays within its type.
TypeOK ==
    /\ call \in [Calls -> Call]
    /\ made \in 0..MaxCalls
    /\ age \in [Calls -> Fresh..Forgotten]
    /\ req \in [Reqs -> Request]
    /\ svcTimer \subseteq Calls
    /\ gwTimer \subseteq Calls
    /\ restarts \in 0..MaxRestarts
    /\ raced \subseteq Calls

\* The times of a call fit its status, whichever handlers and timers raced to save
\* it: an accepted call was answered, one that is over ended, and only an answered
\* call has a duration.
EndIsStamped ==
    \A c \in Calls : /\ call[c].status = "accepted" => call[c].answered
                     /\ call[c].status \in Over => call[c].ended
                     /\ call[c].talked => call[c].answered /\ call[c].ended

\* An answer or an end that was recorded is never lost to a handler or timer that
\* read the call before (acceptCall, endCallInternal).
TimesKept ==
    [][\A c \in Calls : /\ call[c].answered => call'[c].answered
                        /\ call[c].ended => call'[c].ended]_vars

\* The times of a call always fit its status, and none is lost to a stale save.
CallTimes == []EndIsStamped /\ TimesKept

\* An invitation looks for a busy callee only after every ringing call of either party
\* that was stale when it began is closed, also those whose timers a restart lost
\* (cleanupStaleActiveCallsForUser).
InviteClearsStale ==
    \A r \in Reqs : req[r].at \in {"busy_find", "create"} =>
        \A c \in req[r].stale : call[c].status # "ringing"

\* An invitation that overlaps with no other, and does not end a call the callee made,
\* never makes a callee ring twice, whatever answers, ends, timers and restarts come
\* between: of two calls that ring at a callee, the older was rung over by a raced one
\* (createCallInvite).
CalleeRingsOnce ==
    \A u \in Users : \A c, d \in Ringing(u) :
        c < d => \E e \in raced : call[e].callee = u /\ c < e /\ e <= d

\* While the process lives, no call rings for ever (startMissedCallTimer).
RingingEnds ==
    \A c \in Calls : call[c].status = "ringing" ~> call[c].status # "ringing"

\* A call recorded as missed was not answered (endCallInternal called by the timer
\* and by a redial).
MissedWasUnanswered ==
    \A c \in Calls : call[c].status = "missed" => ~call[c].answered
=============================================================================
