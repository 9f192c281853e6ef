----------------------------- MODULE CallsProofs -----------------------------
(* Proofs about Calls: whatever handlers, timers and restarts come between, the    *)
(* times of a call fit its status and none is lost.                                *)
EXTENDS Calls, FiniteSetTheorems, WellFoundedInduction, TLAPS

-----------------------------------------------------------------------------
InviteStep == {"clean_callee", "clean_caller", "busy_find", "create"}
SaveStep == {"accept_save", "end_save"}
EndStep == {"end_read", "end_save"}

\* What a handler knows, however old its read is: the calls it is about were made, and
\* what it read as answered or ended still is.
Knows(q) ==
    /\ q.then \in InviteStep \cup {"idle"}
    /\ q.at \in InviteStep \/ q.then # "idle" => q.callee # None
    /\ \A t \in q.todo : t[1] <= made /\ t[2] \in Over
    /\ q.at \in SaveStep \cup EndStep \cup {"timers"} => q.id \in Calls /\ q.id <= made
    /\ q.at \in EndStep => q.want \in Over
    /\ q.at = "accept_save" => q.read.status = "ringing"
    /\ q.at = "end_save" => q.read.status \in Active
    /\ q.at \in SaveStep => /\ q.read.answered => call[q.id].answered
                            /\ q.read.ended => call[q.id].ended

ReqOK == \A r \in Reqs : Knows(req[r])

\* The calls made are those in the collection, and only they have timers.
MadeOK ==
    /\ \A c \in Calls : IF c <= made THEN call[c].status # "none" ELSE call[c] = NoCall
    /\ \A c \in svcTimer \cup gwTimer : c <= made

\* There is room for the call of every invitation under way.
CountOK == IsFiniteSet(Inviting) /\ made + Cardinality(Inviting) <= MaxCalls

Inv == TypeOK /\ EndIsStamped /\ MadeOK /\ CountOK /\ ReqOK

\* What no step takes back.
Kept ==
    /\ made <= made'
    /\ \A c \in Calls : /\ call[c].answered => call'[c].answered
                        /\ call[c].ended => call'[c].ended

-----------------------------------------------------------------------------
(* The choices of a handler: a set of calls has an oldest and a newest one. *)

LEMMA LeastExists ==
    ASSUME NEW S \in SUBSET Nat, S # {}
    PROVE  \E x \in S : \A y \in S : x <= y
  <1> DEFINE Less == OpToRel(<, Nat)
  <1>1. IsWellFoundedOn(Less, Nat)
    BY NatLessThanWellFounded
  <1>2. \A x, y \in Nat : <<y, x>> \in Less <=> y < x
    BY DEF OpToRel
  <1> HIDE DEF Less
  <1>3. PICK x \in S : \A y \in S : ~(<<y, x>> \in Less)
    BY <1>1, WFMin
  <1>4. \A y \in S : y \in Nat /\ x \in Nat /\ ~(y < x)
    BY <1>2, <1>3
  <1> QED BY <1>4

LEMMA NewestExists ==
    ASSUME NEW S \in SUBSET Calls, S # {}
    PROVE  Newest(S) \in S /\ \A d \in S : d <= Newest(S)
  <1> DEFINE T == {MaxCalls - c : c \in S}
  <1>1. T \in SUBSET Nat /\ T # {}
    <2>1. \A c \in S : c \in Int /\ 1 <= c /\ c <= MaxCalls
      BY DEF Calls
    <2>2. \A c \in S : MaxCalls - c \in Nat
      BY <2>1, BoundsAssumption
    <2> QED BY <2>2
  <1>2. PICK x \in T : \A y \in T : x <= y
    <2> HIDE DEF T
    <2> QED BY <1>1, LeastExists
  <1>3. \E c \in S : \A d \in S : d <= c
    <2>1. PICK c \in S : x = MaxCalls - c
      OBVIOUS
    <2>2. \A d \in S : MaxCalls - c <= MaxCalls - d
      BY <1>2, <2>1
    <2> QED BY <2>2, BoundsAssumption DEF Calls
  <1> QED BY <1>3 DEF Newest

LEMMA NextExists ==
    ASSUME NEW todo \in SUBSET (Calls \X CallStatus), todo # {}
    PROVE  (CHOOSE t \in todo : \A s \in todo : t[1] <= s[1]) \in todo
  <1> DEFINE T == {t[1] : t \in todo}
  <1>1. T \in SUBSET Nat /\ T # {}
    BY BoundsAssumption DEF Calls
  <1>2. PICK x \in T : \A y \in T : x <= y
    <2> HIDE DEF T
    <2> QED BY <1>1, LeastExists
  <1>3. \E t \in todo : \A s \in todo : t[1] <= s[1]
    BY <1>2
  <1> QED BY <1>3

-----------------------------------------------------------------------------
(* What a step does to the handlers *)

LEMMA IdleOK == Idle \in Request /\ Knows(Idle) /\ Idle.callee = None /\ Idle.at = "idle"
  BY DEF Idle, Request, Step, Call, CallStatus, NoCall, Knows, InviteStep, SaveStep, EndStep

\* One handler moves on.
LEMMA MoveOK ==
    ASSUME Inv, Kept, made' = made, NEW r \in Reqs, NEW q \in Request,
           req' = [req EXCEPT ![r] = q], Knows(q)',
           q.callee # None => req[r].callee # None
    PROVE  req' \in [Reqs -> Request] /\ ReqOK' /\ CountOK'
  <1>1. req' \in [Reqs -> Request] /\ req'[r] = q /\ \A s \in Reqs \ {r} : req'[s] = req[s]
    BY DEF Inv, TypeOK
  <1>2. ASSUME NEW s \in Reqs \ {r} PROVE Knows(req[s])'
    <2>1. Knows(req[s]) /\ req'[s] = req[s] /\ req[s] \in Request
      BY <1>1 DEF Inv, ReqOK, TypeOK
    <2>2. \A t \in req[s].todo : t[1] <= made'
      BY <2>1 DEF Knows
    <2> QED BY <2>1, <2>2 DEF Kept, Knows, SaveStep, EndStep
  <1>3. ReqOK'
    BY <1>1, <1>2 DEF ReqOK
  <1>4. Inviting' \in SUBSET Inviting
    BY <1>1 DEF Inviting
  <1>5. IsFiniteSet(Inviting') /\ Cardinality(Inviting') <= Cardinality(Inviting)
    BY <1>4, FS_Subset DEF Inv, CountOK
  <1>6. Cardinality(Inviting) \in Nat /\ Cardinality(Inviting') \in Nat
    BY <1>5, FS_CardinalityType DEF Inv, CountOK
  <1>7. made \in Nat /\ MaxCalls \in Nat
    BY BoundsAssumption DEF Inv, TypeOK
  <1>8. made' + Cardinality(Inviting') <= MaxCalls
    BY <1>5, <1>6, <1>7 DEF Inv, CountOK
  <1> QED BY <1>1, <1>3, <1>5, <1>8 DEF CountOK

\* One handler moves on, and no document changes.
LEMMA ReadInv ==
    ASSUME Inv, UNCHANGED <<call, made, age, restarts, raced>>,
           svcTimer' \subseteq svcTimer, gwTimer' \subseteq gwTimer,
           NEW r \in Reqs, NEW q \in Request,
           req' = [req EXCEPT ![r] = q], Knows(q),
           q.callee # None => req[r].callee # None
    PROVE  Inv' /\ Kept
  <1>1. Kept
    BY DEF Kept, Inv, TypeOK
  <1>2. Knows(q)'
    BY DEF Knows
  <1>3. req' \in [Reqs -> Request] /\ ReqOK' /\ CountOK'
    BY <1>1, <1>2, MoveOK
  <1>4. TypeOK'
    BY <1>3 DEF Inv, TypeOK
  <1>5. EndIsStamped'
    BY DEF Inv, EndIsStamped
  <1>6. MadeOK'
    BY DEF Inv, MadeOK
  <1> QED BY <1>1, <1>3, <1>4, <1>5, <1>6 DEF Inv

\* Where endCallInternal returns to.
LEMMA ReturnedOK ==
    ASSUME NEW q \in Request, Knows(q), made \in Nat
    PROVE  /\ Returned(q) \in Request
           /\ Knows(Returned(q))
           /\ Returned(q).at \notin SaveStep \cup {"timers"}
           /\ Returned(q).callee # None => q.callee # None
  <1> DEFINE clear == [q EXCEPT !.id = 0, !.want = "none", !.read = NoCall]
             next == CHOOSE t \in q.todo : \A s \in q.todo : t[1] <= s[1]
  <1>0. clear \in Request /\ clear.todo = q.todo /\ clear.then = q.then /\ clear.callee = q.callee
    <2>1. NoCall \in Call /\ "none" \in CallStatus
      BY DEF NoCall, Call, CallStatus
    <2> QED BY <2>1 DEF Request
  <1>1. CASE q.todo # {}
    <2>1. q.todo \in SUBSET (Calls \X CallStatus)
      BY DEF Request
    <2>2. next \in q.todo
      BY <1>1, <2>1, NextExists
    <2>3. Returned(q) = [clear EXCEPT !.at = "end_read", !.id = next[1], !.want = next[2],
                                      !.todo = @ \ {next}]
      BY <1>1 DEF Returned
    <2>4. next[1] \in Calls /\ next[2] \in Over /\ next[2] \in CallStatus /\ next[1] <= made
      BY <2>1, <2>2 DEF Knows
    <2> HIDE DEF next, clear
    <2>5. Returned(q) \in Request
      BY <1>0, <2>3, <2>4, ZenonT(60) DEF Request, Step
    <2>6. /\ Returned(q).at = "end_read" /\ Returned(q).id = next[1]
          /\ Returned(q).want = next[2] /\ Returned(q).todo \subseteq q.todo
          /\ Returned(q).then = q.then /\ Returned(q).callee = q.callee
      BY <1>0, <2>3 DEF Request
    <2>7. Knows(Returned(q))
      BY <2>4, <2>6 DEF Knows, SaveStep, EndStep, InviteStep
    <2> QED BY <2>5, <2>6, <2>7 DEF SaveStep
  <1>2. CASE q.todo = {} /\ q.then = "idle"
    BY <1>2, IdleOK DEF Returned, SaveStep
  <1>3. CASE q.todo = {} /\ q.then # "idle"
    <2>1. Returned(q) = [clear EXCEPT !.at = q.then, !.then = "idle"]
      BY <1>3 DEF Returned
    <2>2. q.then \in InviteStep /\ q.callee # None
      BY <1>3 DEF Knows
    <2> HIDE DEF clear
    <2>3. Returned(q) \in Request
      BY <1>0, <2>1, <2>2 DEF Request, Step, InviteStep
    <2>4. /\ Returned(q).at = q.then /\ Returned(q).then = "idle"
          /\ Returned(q).todo = {} /\ Returned(q).callee = q.callee
      BY <1>0, <1>3, <2>1 DEF Request
    <2>5. Knows(Returned(q))
      BY <2>2, <2>4 DEF Knows, SaveStep, EndStep, InviteStep
    <2> QED BY <2>2, <2>3, <2>4, <2>5 DEF SaveStep, InviteStep
  <1> QED BY <1>1, <1>2, <1>3

-----------------------------------------------------------------------------
(* What save() does *)

\* What a handler about to save knows of the call, and sets.
FitToSave(c, read, mine) ==
    /\ read.status \in Active /\ mine.status \notin {"none", read.status}
    /\ read.answered => call[c].answered
    /\ read.ended => call[c].ended
    /\ mine.answered = read.answered \/ mine.answered
    /\ mine.ended = read.ended \/ mine.ended
    /\ mine.status = "accepted" => mine.answered
    /\ mine.status \in Over => mine.ended
    /\ mine.talked = read.talked \/ (mine.talked => mine.answered /\ mine.ended)

LEMMA SaveOK ==
    ASSUME Inv, NEW c \in Calls, c <= made, NEW read \in Call, NEW mine \in Call,
           FitToSave(c, read, mine), call' = [call EXCEPT ![c] = Saved(@, read, mine)],
           UNCHANGED made
    PROVE  /\ call' \in [Calls -> Call] /\ Kept /\ EndIsStamped'
           /\ \A d \in Calls : IF d <= made' THEN call'[d].status # "none" ELSE call'[d] = NoCall
  <1> DEFINE fields == {"caller", "callee", "status", "answered", "ended", "talked"}
  <1>1. call[c] \in Call /\ call \in [Calls -> Call]
    BY DEF Inv, TypeOK
  <1>2. DOMAIN call[c] = fields
    BY <1>1 DEF Call
  <1>3. \A f \in fields :
          Saved(call[c], read, mine)[f] = IF mine[f] = read[f] THEN call[c][f] ELSE mine[f]
    BY <1>2 DEF Saved
  <1>4. Saved(call[c], read, mine) \in Call
    BY <1>1, <1>2 DEF Saved, Call
  <1>5. /\ call' \in [Calls -> Call]
        /\ \A f \in fields : call'[c][f] = IF mine[f] = read[f] THEN call[c][f] ELSE mine[f]
        /\ \A d \in Calls \ {c} : call'[d] = call[d]
    BY <1>1, <1>3, <1>4
  <1>6. call'[c].status = mine.status
    BY <1>5 DEF FitToSave
  <1>7. /\ call[c].answered => call'[c].answered
        /\ call[c].ended => call'[c].ended
        /\ mine.answered => call'[c].answered
        /\ mine.ended => call'[c].ended
    <2>1. /\ call[c].answered \in BOOLEAN /\ call[c].ended \in BOOLEAN
          /\ read.answered \in BOOLEAN /\ read.ended \in BOOLEAN
          /\ mine.answered \in BOOLEAN /\ mine.ended \in BOOLEAN
      BY <1>1 DEF Call
    <2>2. /\ call'[c].answered = IF mine.answered = read.answered THEN call[c].answered
                                                                  ELSE mine.answered
          /\ call'[c].ended = IF mine.ended = read.ended THEN call[c].ended ELSE mine.ended
      BY <1>5
    <2> QED BY <2>1, <2>2 DEF FitToSave
  <1>8. Kept
    BY <1>5, <1>7 DEF Kept, Inv, TypeOK
  <1>9. call'[c].talked => call'[c].answered /\ call'[c].ended
    <2>1. CASE mine.talked = read.talked
      BY <1>5, <1>7, <2>1 DEF Inv, EndIsStamped
    <2>2. CASE mine.talked # read.talked
      BY <1>5, <1>7, <2>2 DEF FitToSave
    <2> QED BY <2>1, <2>2
  <1>10. EndIsStamped'
    BY <1>5, <1>6, <1>7, <1>9 DEF Inv, EndIsStamped, FitToSave
  <1>11. \A d \in Calls : IF d <= made' THEN call'[d].status # "none" ELSE call'[d] = NoCall
    BY <1>5, <1>6 DEF Inv, MadeOK, FitToSave
  <1> QED BY <1>5, <1>8, <1>10, <1>11

\* One handler moves on after its save.
LEMMA SaveInv ==
    ASSUME Inv, NEW r \in Reqs, NEW q \in Request, NEW mine \in Call,
           req[r].at \in SaveStep, req[r].read.status \in Active,
           FitToSave(req[r].id, req[r].read, mine),
           call' = [call EXCEPT ![req[r].id] = Saved(@, req[r].read, mine)],
           UNCHANGED <<made, age, restarts, raced>>,
           svcTimer' \subseteq svcTimer, gwTimer' \subseteq gwTimer,
           req' = [req EXCEPT ![r] = q], Knows(q), q.at \notin SaveStep,
           q.callee # None => req[r].callee # None
    PROVE  Inv' /\ Kept
  <1>1. req[r] \in Request /\ Knows(req[r])
    BY DEF Inv, TypeOK, ReqOK
  <1>2. req[r].id \in Calls /\ req[r].id <= made /\ req[r].read \in Call
    BY <1>1 DEF Knows, Request
  <1>3. /\ call' \in [Calls -> Call] /\ Kept /\ EndIsStamped'
        /\ \A d \in Calls : IF d <= made' THEN call'[d].status # "none" ELSE call'[d] = NoCall
    BY <1>2, SaveOK
  <1>4. Knows(q)'
    BY DEF Knows
  <1>5. req' \in [Reqs -> Request] /\ ReqOK' /\ CountOK'
    BY <1>3, <1>4, MoveOK
  <1>6. TypeOK'
    BY <1>3, <1>5 DEF Inv, TypeOK
  <1>7. MadeOK'
    BY <1>3 DEF Inv, MadeOK
  <1> QED BY <1>3, <1>5, <1>6, <1>7 DEF Inv

-----------------------------------------------------------------------------
(* The steps of an invitation *)

LEMMA InviteInv ==
    ASSUME Inv, NEW r \in Reqs, NEW a \in Users, NEW b \in Users, Invite(r, a, b)
    PROVE  Inv' /\ Kept
  <1> DEFINE q == [Idle EXCEPT !.at = "clean_callee", !.caller = a, !.callee = b,
                               !.stale = StaleRinging(a) \cup StaleRinging(b),
                               !.raced = Inviting # {}]
             noted(s) == [req[s] EXCEPT !.raced = TRUE]
  <1>1. q \in Request /\ Knows(q) /\ q.callee # None
    <2>1. StaleRinging(a) \cup StaleRinging(b) \subseteq Calls
      BY DEF StaleRinging, ActiveWith
    <2>2. (Inviting # {}) \in BOOLEAN
      OBVIOUS
    <2>3. q \in Request /\ q.callee = b /\ q.at = "clean_callee" /\ q.todo = {} /\ q.then = "idle"
      BY <2>1, <2>2, IdleOK DEF Request, Step, Idle
    <2> HIDE DEF q
    <2> QED BY <2>3, NoneAssumption DEF Knows, InviteStep, SaveStep, EndStep
  <1> HIDE DEF q
  <1>2. /\ req' = [s \in Reqs |-> IF s = r THEN q ELSE IF s \in Inviting THEN noted(s) ELSE req[s]]
        /\ UNCHANGED <<call, made, age, svcTimer, gwTimer, restarts, raced>>
        /\ made + Cardinality(Inviting) < MaxCalls /\ req[r].at = "idle"
    BY DEF Invite, q
  <1>3. ASSUME NEW s \in Reqs \ {r}
        PROVE  req'[s] \in Request /\ Knows(req'[s]) /\ req'[s].callee = req[s].callee
    <2>1. req[s] \in Request /\ Knows(req[s])
      BY DEF Inv, TypeOK, ReqOK
    <2>2. CASE s \in Inviting
      <3>1. req'[s] = noted(s)
        BY <1>2, <2>2
      <3> QED BY <2>1, <3>1, ZenonT(60) DEF Request, Knows
    <2>3. CASE s \notin Inviting
      BY <1>2, <2>1, <2>3
    <2> QED BY <2>2, <2>3
  <1>4. req' \in [Reqs -> Request] /\ \A s \in Reqs : Knows(req'[s])
    BY <1>1, <1>2, <1>3
  <1>5. ReqOK'
    BY <1>2, <1>4 DEF ReqOK, Knows
  <1>6. CountOK'
    <2>1. Inviting' = Inviting \cup {r}
      BY <1>1, <1>2, <1>3 DEF Inviting
    <2>2. IsFiniteSet(Inviting)
      BY DEF Inv, CountOK
    <2>3. Cardinality(Inviting) \in Nat
      BY <2>2, FS_CardinalityType
    <2>4. /\ IsFiniteSet(Inviting \cup {r})
          /\ Cardinality(Inviting \cup {r}) <= Cardinality(Inviting) + 1
      <3>1. /\ IsFiniteSet(Inviting \cup {r})
            /\ Cardinality(Inviting \cup {r}) =
                 IF r \in Inviting THEN Cardinality(Inviting) ELSE Cardinality(Inviting) + 1
        BY <2>2, FS_AddElement
      <3> QED BY <2>3, <3>1
    <2>5. /\ made \in Nat /\ MaxCalls \in Nat /\ made' = made
          /\ Cardinality(Inviting \cup {r}) \in Nat
      BY <1>2, <2>4, FS_CardinalityType, BoundsAssumption DEF Inv, TypeOK
    <2> QED BY <1>2, <2>1, <2>3, <2>4, <2>5 DEF CountOK
  <1>7. TypeOK' /\ EndIsStamped' /\ MadeOK' /\ Kept
    BY <1>2, <1>4 DEF Inv, TypeOK, EndIsStamped, MadeOK, Kept
  <1> QED BY <1>5, <1>6, <1>7 DEF Inv

LEMMA CleanInv ==
    ASSUME Inv, NEW r \in Reqs, CleanCallee(r) \/ CleanCaller(r)
    PROVE  Inv' /\ Kept
  <1>1. PICK next \in InviteStep, u \in {req[r].callee, req[r].caller} :
          /\ req[r].at \in InviteStep
          /\ req' = [req EXCEPT ![r] = Returned([@ EXCEPT !.then = next,
               !.todo = (StaleRinging(u) \X {"missed"}) \cup (StaleAccepted(u) \X {"ended"})])]
          /\ UNCHANGED <<call, made, age, svcTimer, gwTimer, restarts, raced>>
    BY DEF CleanCallee, CleanCaller, CleanFind, InviteStep
  <1> DEFINE todo == (StaleRinging(u) \X {"missed"}) \cup (StaleAccepted(u) \X {"ended"})
             q == [req[r] EXCEPT !.then = next, !.todo = todo]
  <1>2. req[r] \in Request /\ Knows(req[r]) /\ made \in Nat
    BY DEF Inv, TypeOK, ReqOK
  <1>3. \A t \in todo : t \in Calls \X CallStatus /\ t[1] <= made /\ t[2] \in Over
    <2>1. ASSUME NEW c \in StaleRinging(u) \cup StaleAccepted(u)
          PROVE  c \in Calls /\ c <= made
      <3>1. c \in Calls /\ call[c].status \in Active
        BY DEF StaleRinging, StaleAccepted, ActiveWith
      <3> QED BY <3>1 DEF Inv, MadeOK, NoCall, Active
    <2> QED BY <2>1 DEF Over, CallStatus
  <1> HIDE DEF todo
  <1>4. /\ q \in Request /\ q.then = next /\ q.todo = todo /\ q.at = req[r].at
        /\ q.callee = req[r].callee
    BY <1>2, <1>3 DEF Request, Step, InviteStep
  <1>5. Knows(q)
    <2> HIDE DEF q
    <2> QED BY <1>1, <1>2, <1>3, <1>4 DEF Knows, InviteStep, SaveStep, EndStep
  <1>6. req' = [req EXCEPT ![r] = Returned(q)]
    BY <1>1 DEF todo
  <1> HIDE DEF q
  <1>7. Returned(q) \in Request /\ Knows(Returned(q)) /\ (Returned(q).callee # None => q.callee # None)
    BY <1>2, <1>4, <1>5, ReturnedOK
  <1> QED BY <1>1, <1>4, <1>6, <1>7, ReadInv

\* What the busy check decides on: the newest active call c of the callee.
LEMMA BusyFindCases ==
    ASSUME Inv, NEW r \in Reqs, BusyFind(r)
    PROVE  /\ req[r] \in Request /\ Knows(req[r]) /\ req[r].at = "busy_find"
           /\ UNCHANGED <<call, made, age, svcTimer, gwTimer, restarts, raced>>
           /\ \/ /\ ActiveWith(req[r].callee) = {}
                 /\ req' = [req EXCEPT ![r] = [req[r] EXCEPT !.at = "create"]]
              \/ \E c \in ActiveWith(req[r].callee), noted \in BOOLEAN :
                   /\ \A d \in ActiveWith(req[r].callee) : d <= c
                   /\ call[c].status = "ringing"
                   /\ noted <=> req[r].raced \/ call[c].callee # req[r].callee
                   /\ req' = [req EXCEPT ![r] =
                        [req[r] EXCEPT !.at = "end_read", !.then = "create", !.id = c,
                                       !.want = "missed", !.raced = noted]]
              \/ req' = [req EXCEPT ![r] = Idle]
  <1> DEFINE busy == ActiveWith(req[r].callee)
             c == Newest(busy)
             noted == req[r].raced \/ call[c].callee # req[r].callee
             replaced == /\ call[c].status = "ringing"
                         /\ \/ call[c].caller = req[r].caller /\ call[c].callee = req[r].callee
                            \/ age[c] >= Stale
             q == [req[r] EXCEPT !.at = "end_read", !.then = "create", !.id = c,
                                 !.want = "missed", !.raced = noted]
  <1>1. /\ req[r] \in Request /\ Knows(req[r]) /\ req[r].at = "busy_find"
        /\ UNCHANGED <<call, made, age, svcTimer, gwTimer, restarts, raced>>
    BY DEF BusyFind, Inv, TypeOK, ReqOK
  <1>2. req' = [req EXCEPT ![r] = IF busy = {} THEN [req[r] EXCEPT !.at = "create"]
                                  ELSE IF replaced THEN q ELSE Idle]
    BY DEF BusyFind
  <1>3. CASE busy = {}
    BY <1>1, <1>2, <1>3
  <1>4. CASE busy # {} /\ replaced
    <2>1. c \in busy /\ \A d \in busy : d <= c
      <3>1. busy \in SUBSET Calls
        BY DEF ActiveWith
      <3> QED BY <1>4, <3>1, NewestExists
    <2>2. noted \in BOOLEAN
      BY <1>1 DEF Request
    <2>3. req' = [req EXCEPT ![r] = q]
      BY <1>2, <1>4
    <2>4. call[c].status = "ringing"
      BY <1>4
    <2> HIDE DEF c
    <2> QED BY <1>1, <2>1, <2>2, <2>3, <2>4
  <1>5. CASE busy # {} /\ ~replaced
    BY <1>1, <1>2, <1>5
  <1> QED BY <1>3, <1>4, <1>5

LEMMA BusyFindInv ==
    ASSUME Inv, NEW r \in Reqs, BusyFind(r)
    PROVE  Inv' /\ Kept
  <1>1. req[r] \in Request /\ Knows(req[r]) /\ req[r].at = "busy_find"
    BY BusyFindCases
  <1>2. UNCHANGED <<call, made, age, svcTimer, gwTimer, restarts, raced>>
    BY BusyFindCases
  <1>3. CASE req' = [req EXCEPT ![r] = [req[r] EXCEPT !.at = "create"]]
    <2> DEFINE q == [req[r] EXCEPT !.at = "create"]
    <2>1. q \in Request /\ Knows(q) /\ q.callee = req[r].callee
      BY <1>1 DEF Request, Step, Knows, InviteStep, SaveStep, EndStep
    <2> HIDE DEF q
    <2> QED BY <1>2, <1>3, <2>1, ReadInv DEF q
  <1>4. ASSUME NEW c \in ActiveWith(req[r].callee), NEW noted \in BOOLEAN,
               req' = [req EXCEPT ![r] =
                 [req[r] EXCEPT !.at = "end_read", !.then = "create", !.id = c,
                                !.want = "missed", !.raced = noted]]
        PROVE  Inv' /\ Kept
    <2>1. c \in Calls /\ c <= made
      <3>1. c \in Calls /\ call[c].status \in Active
        BY DEF ActiveWith
      <3> QED BY <3>1 DEF Inv, MadeOK, NoCall, Active
    <2> DEFINE q == [req[r] EXCEPT !.at = "end_read", !.then = "create", !.id = c,
                                   !.want = "missed", !.raced = noted]
    <2>2. /\ q \in Request /\ q.callee = req[r].callee /\ q.todo = req[r].todo
          /\ q.at = "end_read" /\ q.then = "create" /\ q.id = c /\ q.want = "missed"
      BY <1>1, <2>1, ZenonT(60) DEF Request, Step, CallStatus
    <2>3. req' = [req EXCEPT ![r] = q]
      BY <1>4
    <2> HIDE DEF q
    <2>4. Knows(q)
      BY <1>1, <2>1, <2>2 DEF Knows, InviteStep, SaveStep, EndStep, Over
    <2> QED BY <1>2, <2>2, <2>3, <2>4, ReadInv
  <1>5. CASE req' = [req EXCEPT ![r] = Idle]
    BY <1>2, <1>5, IdleOK, ReadInv
  <1> QED BY <1>3, <1>4, <1>5, BusyFindCases

\* There is room for the call: its invitation was counted.
LEMMA CreateInv ==
    ASSUME Inv, NEW r \in Reqs, Create(r)
    PROVE  Inv' /\ Kept
  <1> DEFINE started == [Idle EXCEPT !.at = "timers", !.id = made + 1]
             new == [NoCall EXCEPT !.caller = req[r].caller, !.callee = req[r].callee,
                                   !.status = "ringing"]
  <1>1. req[r] \in Request /\ Knows(req[r]) /\ req[r].at = "create" /\ made \in Nat
    BY DEF Create, Inv, TypeOK, ReqOK
  <1>2. r \in Inviting
    BY <1>1 DEF Inviting, Knows, InviteStep
  <1>3. /\ IsFiniteSet(Inviting) /\ Cardinality(Inviting) \in Nat
        /\ IsFiniteSet(Inviting \ {r})
        /\ Cardinality(Inviting \ {r}) = Cardinality(Inviting) - 1
        /\ Cardinality(Inviting \ {r}) \in Nat
    BY <1>2, FS_RemoveElement, FS_CardinalityType DEF Inv, CountOK
  <1>4. made + 1 \in Calls /\ MaxCalls \in Nat
    BY <1>1, <1>3, BoundsAssumption DEF Inv, CountOK, Calls
  <1>5. PICK q \in Request :
          /\ q = started
          /\ q.at = "timers" /\ q.id = made + 1 /\ q.callee = None /\ q.todo = {} /\ q.then = "idle"
    <2>1. /\ started \in Request /\ started.at = "timers" /\ started.id = made + 1
          /\ started.callee = None /\ started.todo = {} /\ started.then = "idle"
      BY <1>4, IdleOK DEF Request, Step, Idle
    <2> HIDE DEF started
    <2> QED BY <2>1
  <1>6. new \in Call /\ new.status = "ringing" /\ ~new.talked
    BY <1>1 DEF NoCall, Call, CallStatus, Request
  <1>7. /\ made' = made + 1
        /\ call' = [call EXCEPT ![made + 1] = new]
        /\ req' = [req EXCEPT ![r] = q]
        /\ raced' \subseteq raced \cup {made + 1}
        /\ UNCHANGED <<age, svcTimer, gwTimer, restarts>>
    BY <1>5 DEF Create
  <1> HIDE DEF started, new
  <1>8. /\ call' \in [Calls -> Call] /\ call'[made + 1] = new
        /\ \A c \in Calls \ {made + 1} : call'[c] = call[c]
    BY <1>4, <1>6, <1>7 DEF Inv, TypeOK
  <1>9. Kept
    <2>1. call[made + 1] = NoCall
      BY <1>1, <1>4 DEF Inv, MadeOK
    <2> QED BY <1>1, <1>7, <1>8, <2>1 DEF Kept, NoCall
  <1>10. req' \in [Reqs -> Request] /\ req'[r] = q /\ \A s \in Reqs \ {r} : req'[s] = req[s]
    BY <1>5, <1>7 DEF Inv, TypeOK
  <1>11. ReqOK'
    <2>1. Knows(q)'
      BY <1>1, <1>4, <1>5, <1>7 DEF Knows, InviteStep, SaveStep, EndStep
    <2>2. ASSUME NEW s \in Reqs \ {r} PROVE Knows(req[s])'
      <3>1. Knows(req[s]) /\ req'[s] = req[s] /\ req[s] \in Request
        BY <1>10 DEF Inv, ReqOK, TypeOK
      <3>2. \A t \in req[s].todo : t[1] <= made'
        <4>1. ASSUME NEW t \in req[s].todo PROVE t[1] <= made'
          <5>1. t[1] \in Calls /\ t[1] <= made
            BY <3>1 DEF Knows, Request
          <5> QED BY <1>1, <1>7, <5>1 DEF Calls
        <4> QED BY <4>1
      <3>3. ASSUME req[s].at \in SaveStep \cup EndStep \cup {"timers"}
            PROVE  req[s].id \in Calls /\ req[s].id <= made'
        <4>1. req[s].id \in Calls /\ req[s].id <= made
          BY <3>1, <3>3 DEF Knows
        <4> QED BY <1>1, <1>7, <4>1 DEF Calls
      <3> QED BY <1>9, <3>1, <3>2, <3>3 DEF Kept, Knows, SaveStep
    <2> QED BY <1>10, <2>1, <2>2 DEF ReqOK
  <1>12. CountOK'
    <2>1. Inviting' = Inviting \ {r}
      BY <1>5, <1>10 DEF Inviting
    <2> QED BY <1>1, <1>3, <1>4, <1>7, <2>1 DEF Inv, CountOK
  <1>13. EndIsStamped'
    BY <1>6, <1>8 DEF Inv, EndIsStamped, Over
  <1>14. MadeOK'
    <2>1. ASSUME NEW c \in Calls
          PROVE  IF c <= made' THEN call'[c].status # "none" ELSE call'[c] = NoCall
      BY <1>1, <1>4, <1>6, <1>7, <1>8 DEF Inv, MadeOK, Calls
    <2>2. ASSUME NEW c \in svcTimer \cup gwTimer PROVE c <= made'
      <3>1. c \in Calls /\ c <= made
        BY DEF Inv, MadeOK, TypeOK
      <3> QED BY <1>1, <1>7, <3>1 DEF Calls
    <2> QED BY <1>7, <2>1, <2>2 DEF MadeOK
  <1>15. TypeOK'
    <2>1. made' \in 0..MaxCalls
      BY <1>4, <1>7 DEF Calls
    <2> QED BY <1>4, <1>7, <1>8, <1>10, <2>1 DEF Inv, TypeOK
  <1> QED BY <1>9, <1>11, <1>12, <1>13, <1>14, <1>15 DEF Inv

LEMMA StartTimersInv ==
    ASSUME Inv, NEW r \in Reqs, StartTimers(r)
    PROVE  Inv' /\ Kept
  <1>1. req[r].id \in Calls /\ req[r].id <= made
    BY DEF StartTimers, Inv, ReqOK, Knows
  <1>2. Kept
    BY DEF StartTimers, Kept, Inv, TypeOK
  <1>3. Knows(Idle)' /\ req' = [req EXCEPT ![r] = Idle] /\ made' = made
    BY IdleOK DEF StartTimers, Knows, Idle, InviteStep, SaveStep, EndStep
  <1>4. req' \in [Reqs -> Request] /\ ReqOK' /\ CountOK'
    BY <1>2, <1>3, IdleOK, MoveOK
  <1>5. TypeOK' /\ EndIsStamped' /\ MadeOK'
    BY <1>1, <1>4 DEF StartTimers, Inv, TypeOK, EndIsStamped, MadeOK
  <1> QED BY <1>2, <1>4, <1>5 DEF Inv

-----------------------------------------------------------------------------
(* The steps of an answer *)

LEMMA AcceptCallInv ==
    ASSUME Inv, NEW r \in Reqs, NEW c \in Calls, AcceptCall(r, c)
    PROVE  Inv' /\ Kept
  <1> DEFINE q == [Idle EXCEPT !.at = "accept_save", !.id = c, !.read = call[c]]
  <1>1. /\ call[c] \in Call /\ call[c].status = "ringing" /\ req' = [req EXCEPT ![r] = q]
        /\ UNCHANGED <<call, made, age, svcTimer, gwTimer, restarts, raced>>
    BY DEF AcceptCall, Begin, Inv, TypeOK
  <1>2. c <= made
    BY <1>1 DEF Inv, MadeOK, NoCall
  <1>3. /\ q \in Request /\ q.at = "accept_save" /\ q.id = c /\ q.read = call[c]
        /\ q.callee = None /\ q.todo = {} /\ q.then = "idle"
    BY <1>1, IdleOK DEF Request, Step, Idle
  <1> HIDE DEF q
  <1>4. Knows(q)
    BY <1>1, <1>2, <1>3 DEF Knows, InviteStep, SaveStep, EndStep
  <1> QED BY <1>1, <1>3, <1>4, ReadInv

LEMMA AcceptSaveInv ==
    ASSUME Inv, NEW r \in Reqs, AcceptSave(r)
    PROVE  Inv' /\ Kept
  <1> DEFINE c == req[r].id
             read == req[r].read
             mine == [read EXCEPT !.status = "accepted", !.answered = TRUE]
             q == [Idle EXCEPT !.at = "accept_clear", !.id = c]
  <1>1. req[r] \in Request /\ Knows(req[r]) /\ req[r].at = "accept_save"
    BY DEF AcceptSave, Inv, TypeOK, ReqOK
  <1>2. /\ call' = [call EXCEPT ![c] = Saved(@, read, mine)] /\ req' = [req EXCEPT ![r] = q]
        /\ UNCHANGED <<made, age, svcTimer, gwTimer, restarts, raced>>
    BY DEF AcceptSave
  <1>3. /\ read \in Call /\ read.status = "ringing"
        /\ read.answered => call[c].answered
        /\ read.ended => call[c].ended
    BY <1>1 DEF Knows, Request, SaveStep
  <1>4. /\ mine \in Call /\ mine.status = "accepted" /\ mine.answered
        /\ mine.ended = read.ended /\ mine.talked = read.talked
    BY <1>3 DEF Call, CallStatus
  <1>5. /\ q \in Request /\ q.at = "accept_clear" /\ q.callee = None /\ q.todo = {} /\ q.then = "idle"
    BY <1>1, IdleOK DEF Request, Step, Idle
  <1> HIDE DEF q, mine
  <1>6. Knows(q)
    BY <1>5 DEF Knows, InviteStep, SaveStep, EndStep
  <1>7. FitToSave(c, read, mine) /\ read.status \in Active
    BY <1>3, <1>4 DEF FitToSave, Active, Over
  <1>8. req[r].at \in SaveStep /\ q.at \notin SaveStep
    BY <1>1, <1>5 DEF SaveStep
  <1> QED BY <1>2, <1>4, <1>5, <1>6, <1>7, <1>8, SaveInv

LEMMA AcceptEndInv ==
    ASSUME Inv, NEW r \in Reqs, AcceptClear(r) \/ AcceptDone(r)
    PROVE  Inv' /\ Kept
  <1>1. CASE AcceptClear(r)
    <2> DEFINE q == [req[r] EXCEPT !.at = "accept_done"]
    <2>1. req[r] \in Request /\ Knows(req[r]) /\ req[r].at = "accept_clear"
      BY <1>1 DEF AcceptClear, Inv, TypeOK, ReqOK
    <2>2. q \in Request /\ Knows(q) /\ q.callee = req[r].callee
      BY <2>1 DEF Request, Step, Knows, InviteStep, SaveStep, EndStep
    <2>3. /\ UNCHANGED <<call, made, age, restarts, raced>>
          /\ svcTimer' \subseteq svcTimer /\ gwTimer' \subseteq gwTimer
          /\ req' = [req EXCEPT ![r] = q]
      BY <1>1 DEF AcceptClear
    <2> HIDE DEF q
    <2> QED BY <2>2, <2>3, ReadInv
  <1>2. CASE AcceptDone(r)
    <2>1. /\ UNCHANGED <<call, made, age, restarts, raced>>
          /\ svcTimer' \subseteq svcTimer /\ gwTimer' \subseteq gwTimer
          /\ req' = [req EXCEPT ![r] = Idle]
      BY <1>2 DEF AcceptDone
    <2> QED BY <2>1, IdleOK, ReadInv
  <1> QED BY <1>1, <1>2

-----------------------------------------------------------------------------
(* The steps that close a call *)

LEMMA CloseInv ==
    ASSUME Inv, NEW r \in Reqs, NEW c \in Calls, NEW want \in Over, Close(r, c, want),
           c <= made, svcTimer' \subseteq svcTimer, gwTimer' \subseteq gwTimer
    PROVE  Inv' /\ Kept
  <1> DEFINE q == [Idle EXCEPT !.at = "end_read", !.id = c, !.want = want]
  <1>1. req' = [req EXCEPT ![r] = q] /\ UNCHANGED <<call, made, age, restarts, raced>>
    BY DEF Close, Begin
  <1>2. /\ q \in Request /\ q.at = "end_read" /\ q.id = c /\ q.want = want
        /\ q.callee = None /\ q.todo = {} /\ q.then = "idle"
    BY IdleOK DEF Request, Step, Idle, Over, CallStatus
  <1> HIDE DEF q
  <1>3. Knows(q)
    BY <1>2 DEF Knows, InviteStep, SaveStep, EndStep
  <1> QED BY <1>1, <1>2, <1>3, ReadInv

LEMMA ClosingInv ==
    ASSUME Inv, NEW r \in Reqs, NEW c \in Calls,
           \/ RejectCall(r, c) \/ EndCall(r, c)
           \/ SvcTimerFires(r, c) \/ MarkMissedIfUnanswered(r, c)
    PROVE  Inv' /\ Kept
  <1>1. call[c].status # "none" => c <= made
    BY DEF Inv, MadeOK, NoCall
  <1>2. CASE RejectCall(r, c)
    BY <1>1, <1>2, CloseInv DEF RejectCall, Over
  <1>3. CASE EndCall(r, c)
    BY <1>1, <1>3, CloseInv DEF EndCall, Over
  <1>4. CASE SvcTimerFires(r, c)
    <2>1. c <= made
      BY <1>4 DEF SvcTimerFires, Inv, MadeOK
    <2> QED BY <1>4, <2>1, CloseInv DEF SvcTimerFires, Over
  <1>5. CASE MarkMissedIfUnanswered(r, c)
    <2>1. CASE call[c].status = "ringing" /\ Close(r, c, "missed")
      BY <1>1, <1>5, <2>1, CloseInv DEF MarkMissedIfUnanswered, Over
    <2>2. CASE UNCHANGED <<call, made, age, req, restarts, raced>>
      <3>1. Inv'
        <4>1. UNCHANGED svcTimer /\ gwTimer' \subseteq gwTimer
          BY <1>5 DEF MarkMissedIfUnanswered
        <4> QED BY <2>2, <4>1 DEF Inv, TypeOK, EndIsStamped, MadeOK, CountOK, Inviting,
                                  ReqOK, Knows
      <3>2. Kept
        BY <2>2 DEF Kept, Inv, TypeOK
      <3> QED BY <3>1, <3>2
    <2> QED BY <1>5, <2>1, <2>2 DEF MarkMissedIfUnanswered
  <1> QED BY <1>2, <1>3, <1>4, <1>5

LEMMA CloseReadInv ==
    ASSUME Inv, NEW r \in Reqs, CloseRead(r)
    PROVE  Inv' /\ Kept
  <1> DEFINE q == req[r]
             p == [q EXCEPT !.at = "end_save", !.read = call[q.id]]
  <1>1. q \in Request /\ Knows(q) /\ q.at = "end_read" /\ made \in Nat
    BY DEF CloseRead, Inv, TypeOK, ReqOK
  <1>2. /\ UNCHANGED <<call, made, age, svcTimer, restarts, raced>>
        /\ gwTimer' \subseteq gwTimer
        /\ \/ req' = [req EXCEPT ![r] = Returned(q)]
           \/ call[q.id].status \notin Over /\ req' = [req EXCEPT ![r] = p]
    BY <1>1 DEF CloseRead, GwTimerCleared, Inv, TypeOK
  <1>3. CASE req' = [req EXCEPT ![r] = Returned(q)]
    <2>1. Returned(q) \in Request /\ Knows(Returned(q)) /\ (Returned(q).callee # None => q.callee # None)
      BY <1>1, ReturnedOK
    <2> QED BY <1>2, <1>3, <2>1, ReadInv
  <1>4. CASE call[q.id].status \notin Over /\ req' = [req EXCEPT ![r] = p]
    <2>1. q.id \in Calls /\ q.id <= made /\ q.want \in Over
      BY <1>1 DEF Knows, EndStep
    <2>2. call[q.id] \in Call /\ call[q.id].status \in Active
      BY <1>4, <2>1 DEF Inv, TypeOK, MadeOK, Call, CallStatus, Active, Over
    <2>3. /\ p \in Request /\ p.at = "end_save" /\ p.read = call[q.id] /\ p.id = q.id
          /\ p.want = q.want /\ p.todo = q.todo /\ p.then = q.then /\ p.callee = q.callee
      BY <1>1, <2>2 DEF Request, Step
    <2> HIDE DEF p, q
    <2>4. Knows(p)
      BY <1>1, <2>1, <2>2, <2>3 DEF Knows, InviteStep, SaveStep, EndStep
    <2> QED BY <1>2, <1>4, <2>3, <2>4, ReadInv DEF q
  <1> QED BY <1>2, <1>3, <1>4

LEMMA CloseSaveInv ==
    ASSUME Inv, NEW r \in Reqs, CloseSave(r)
    PROVE  Inv' /\ Kept
  <1> DEFINE q == req[r]
             read == q.read
             mine == [read EXCEPT !.status = q.want, !.ended = TRUE, !.talked = read.answered]
  <1>1. q \in Request /\ Knows(q) /\ q.at = "end_save" /\ made \in Nat
    BY DEF CloseSave, Inv, TypeOK, ReqOK
  <1>2. /\ UNCHANGED <<made, age, restarts, raced>>
        /\ svcTimer' \subseteq svcTimer /\ gwTimer' \subseteq gwTimer
        /\ call' = [call EXCEPT ![q.id] = Saved(@, read, mine)]
        /\ req' = [req EXCEPT ![r] = Returned(q)]
    BY DEF CloseSave, GwTimerCleared
  <1>3. /\ read \in Call /\ read.status \in Active /\ q.want \in Over
        /\ read.answered => call[q.id].answered
        /\ read.ended => call[q.id].ended
    BY <1>1 DEF Knows, Request, SaveStep, EndStep
  <1>4. /\ mine \in Call /\ mine.status = q.want /\ mine.ended
        /\ mine.answered = read.answered /\ mine.talked = read.answered
    BY <1>3 DEF Call, CallStatus, Over
  <1>5. /\ Returned(q) \in Request /\ Knows(Returned(q)) /\ Returned(q).at \notin SaveStep
        /\ Returned(q).callee # None => q.callee # None
    BY <1>1, ReturnedOK
  <1> HIDE DEF mine
  <1>6. FitToSave(q.id, read, mine)
    BY <1>3, <1>4 DEF FitToSave, Active, Over
  <1>7. req[r].at \in SaveStep
    BY <1>1 DEF SaveStep
  <1> QED BY <1>2, <1>3, <1>4, <1>5, <1>6, <1>7, SaveInv

-----------------------------------------------------------------------------
(* Every step, and the theorems *)

LEMMA RestartInv ==
    ASSUME Inv, Restart
    PROVE  Inv' /\ Kept
  <1>1. \A r \in Reqs : req'[r] = Idle
    BY DEF Restart
  <1>2. UNCHANGED <<call, made, age, raced>>
    BY DEF Restart
  <1>3. ReqOK'
    <2>1. ASSUME NEW r \in Reqs PROVE Knows(req[r])'
      <3>1. req'[r] = Idle
        BY <1>1
      <3>2. Idle.at = "idle" /\ Idle.then = "idle" /\ Idle.todo = {}
        BY DEF Idle
      <3> QED BY <3>1, <3>2 DEF Knows, InviteStep, SaveStep, EndStep
    <2> QED BY <2>1 DEF ReqOK
  <1>4. CountOK'
    <2>1. Inviting' = {}
      BY <1>1, IdleOK DEF Inviting
    <2>2. made \in 0..MaxCalls
      BY DEF Inv, TypeOK
    <2> QED BY <1>2, <2>1, <2>2, FS_EmptySet, BoundsAssumption DEF CountOK
  <1>5. TypeOK'
    BY <1>2, IdleOK, BoundsAssumption DEF Restart, Inv, TypeOK
  <1>6. EndIsStamped' /\ MadeOK' /\ Kept
    BY <1>2 DEF Restart, Inv, TypeOK, EndIsStamped, MadeOK, Kept
  <1> QED BY <1>3, <1>4, <1>5, <1>6 DEF Inv

LEMMA AgesInv ==
    ASSUME Inv, NEW c \in Calls, Ages(c)
    PROVE  Inv' /\ Kept
  <1>1. UNCHANGED <<call, made, req, svcTimer, gwTimer, restarts, raced>>
    BY DEF Ages
  <1>2. age' \in [Calls -> Fresh..Forgotten]
    BY DEF Ages, Inv, TypeOK, Fresh, Forgotten
  <1>3. Kept
    BY <1>1 DEF Kept, Inv, TypeOK
  <1> QED BY <1>1, <1>2, <1>3 DEF Inv, TypeOK, EndIsStamped, MadeOK, CountOK, Inviting, ReqOK, Knows

LEMMA InitInv == Init => Inv
  <1> SUFFICES ASSUME Init PROVE Inv
    OBVIOUS
  <1>1. TypeOK
    BY IdleOK, BoundsAssumption DEF Init, TypeOK, NoCall, Call, CallStatus, Fresh, Forgotten
  <1>2. EndIsStamped
    BY DEF Init, EndIsStamped, NoCall, Over
  <1>3. MadeOK
    BY DEF Init, MadeOK, Calls
  <1>4. ReqOK
    BY IdleOK DEF Init, ReqOK
  <1>5. Inviting = {}
    BY IdleOK DEF Init, Inviting
  <1>6. CountOK
    BY <1>5, FS_EmptySet, BoundsAssumption DEF Init, CountOK
  <1> QED BY <1>1, <1>2, <1>3, <1>4, <1>6 DEF Inv

LEMMA StepInv == Inv /\ [Next]_vars => Inv' /\ (Kept \/ UNCHANGED vars)
  <1> SUFFICES ASSUME Inv, [Next]_vars PROVE Inv' /\ (Kept \/ UNCHANGED vars)
    OBVIOUS
  <1>1. CASE UNCHANGED vars
    BY <1>1 DEF vars, Inv, TypeOK, EndIsStamped, MadeOK, CountOK, Inviting, ReqOK, Knows
  <1>2. ASSUME NEW r \in Reqs, HandlerStep(r) PROVE Inv' /\ Kept
    BY <1>2, CleanInv, BusyFindInv, CreateInv, StartTimersInv, AcceptSaveInv, AcceptEndInv,
       CloseReadInv, CloseSaveInv DEF HandlerStep
  <1> QED BY <1>1, <1>2, InviteInv, AcceptCallInv, ClosingInv, AgesInv, RestartInv DEF Next

\* The strengthened invariant holds in every state.
THEOREM Invariance == Spec => []Inv
  <1>1. Inv /\ [Next]_vars => Inv'
    BY StepInv
  <1> QED BY <1>1, InitInv, PTL DEF Spec

\* Every variable of the calls stays within its type; in particular there is always room
\* for the call of an invitation under way.
THEOREM CallsTypeOK == Spec => []TypeOK
  BY Invariance, PTL DEF Inv

LEMMA TimesAreKept == Spec => TimesKept
  <1>1. Inv /\ [Next]_vars =>
          [\A c \in Calls : /\ call[c].answered => call'[c].answered
                            /\ call[c].ended => call'[c].ended]_vars
    BY StepInv DEF Kept
  <1> QED BY <1>1, Invariance, PTL DEF Spec, TimesKept

\* However handlers, timers and restarts interleave, and however old the read that a save
\* is made of, the times of a call fit its status, and an answer or an end once recorded
\* stays (src/src/calls/calls.service.ts, acceptCall and endCallInternal).
THEOREM CallsKeepTimes == Spec => CallTimes
  <1>1. Spec => []EndIsStamped
    BY Invariance, PTL DEF Inv
  <1> QED BY <1>1, TimesAreKept DEF CallTimes


-----------------------------------------------------------------------------
(* An invitation closes what was stale, and looks whether the callee is busy. *)

\* A stale call is closed before the invitation looks for a busy callee.
ToClose(q, c) ==
    \/ q.at = "clean_callee"
    \/ \E t \in q.todo : t[1] = c
    \/ q.at \in EndStep /\ q.id = c
    \/ (q.at = "clean_caller" \/ q.then = "clean_caller") /\ With(q.caller, c)

StillStale(q, c) ==
    /\ c <= made /\ age[c] >= Stale
    /\ With(q.caller, c) \/ With(q.callee, c)

Clears(q) ==
    q.callee # None => \A c \in q.stale : call[c].status = "ringing" =>
                         StillStale(q, c) /\ ToClose(q, c)

\* After a call c to u, a raced one was made.
RungOver(c, u) == \E e \in raced : call[e].callee = u /\ c < e

\* An invitation that found its callee free, or is closing what kept the callee busy.
Checked(q) ==
    q.callee # None /\ ~q.raced /\ (q.at = "create" \/ q.then = "create") =>
        \A c \in Ringing(q.callee) : (q.at \in EndStep /\ q.id = c) \/ RungOver(c, q.callee)

Rings(q) ==
    /\ Clears(q)
    /\ Checked(q)
    /\ q.at \in InviteStep => q.todo = {} /\ q.then = "idle"
    /\ q.callee # None => q.at \in InviteStep \cup EndStep /\ \A c \in q.stale : c <= made

\* Two invitations under way at the same time are both raced.
Alone == \A r, s \in Inviting : r # s => req[r].raced

RingInv ==
    /\ \A r \in Reqs : Rings(req[r])
    /\ Alone
    /\ \A e \in raced : e <= made
    /\ CalleeRingsOnce

\* What no step does to a call made before: it does not ring again, and stays between
\* the same users.
Settled ==
    /\ made <= made' /\ raced \subseteq raced'
    /\ \A c \in Calls : c <= made =>
         /\ call'[c].caller = call[c].caller /\ call'[c].callee = call[c].callee
         /\ call'[c].status = "ringing" => call[c].status = "ringing"
    /\ \A c \in Calls : age[c] <= age'[c]

LEMMA ReadSettled ==
    ASSUME Inv, UNCHANGED <<call, made, age, raced>>
    PROVE  Settled
  BY DEF Settled, Inv, TypeOK, Fresh, Forgotten

\* save() leaves the parties alone, and sets a status that is not ringing.
LEMMA SaveSettled ==
    ASSUME Inv, NEW c \in Calls, NEW read \in Call, NEW mine \in Call,
           mine.caller = read.caller, mine.callee = read.callee,
           mine.status # read.status, mine.status # "ringing",
           call' = [call EXCEPT ![c] = Saved(@, read, mine)],
           UNCHANGED <<made, age, raced>>
    PROVE  Settled /\ call'[c].status # "ringing"
  <1>1. call[c] \in Call /\ call \in [Calls -> Call]
    BY DEF Inv, TypeOK
  <1>2. {"caller", "callee", "status"} \subseteq DOMAIN call[c]
    BY <1>1 DEF Call
  <1>3. \A f \in {"caller", "callee", "status"} :
          Saved(call[c], read, mine)[f] = IF mine[f] = read[f] THEN call[c][f] ELSE mine[f]
    BY <1>2 DEF Saved
  <1>4. call'[c] = Saved(call[c], read, mine) /\ \A d \in Calls \ {c} : call'[d] = call[d]
    BY <1>1
  <1>5. /\ call'[c].caller = call[c].caller /\ call'[c].callee = call[c].callee
        /\ call'[c].status # "ringing"
    BY <1>3, <1>4
  <1> QED BY <1>4, <1>5 DEF Settled, Inv, TypeOK, Fresh, Forgotten

\* Unless a call is made, fewer calls ring.
LEMMA RingingShrinks ==
    ASSUME Inv, MadeOK', Settled, made' = made
    PROVE  /\ \A c \in Calls : call'[c].status = "ringing" =>
                /\ call[c].status = "ringing" /\ c <= made
                /\ call'[c].caller = call[c].caller /\ call'[c].callee = call[c].callee
           /\ \A u \in Users : Ringing(u)' \subseteq Ringing(u)
  <1>1. ASSUME NEW c \in Calls, call'[c].status = "ringing"
        PROVE  /\ call[c].status = "ringing" /\ c <= made
               /\ call'[c].caller = call[c].caller /\ call'[c].callee = call[c].callee
    <2>1. c <= made
      BY <1>1 DEF MadeOK, NoCall
    <2> QED BY <1>1, <2>1 DEF Settled
  <1>2. \A u \in Users : Ringing(u)' \subseteq Ringing(u)
    BY <1>1 DEF Ringing
  <1> QED BY <1>1, <1>2

LEMMA RungOverStays ==
    ASSUME Inv, RingInv, Settled, NEW c \in Calls, NEW u \in Users, RungOver(c, u)
    PROVE  RungOver(c, u)'
  <1>1. PICK e \in raced : call[e].callee = u /\ c < e
    BY DEF RungOver
  <1>2. e \in Calls /\ e <= made /\ e \in raced'
    BY DEF Inv, TypeOK, RingInv, Settled
  <1>3. call'[e].callee = u
    BY <1>1, <1>2 DEF Settled
  <1> QED BY <1>1, <1>2, <1>3 DEF RungOver

LEMMA RingsStay ==
    ASSUME Inv, MadeOK', RingInv, Settled, made' = made, age' \in [Calls -> Fresh..Forgotten],
           NEW q \in Request, Rings(q)
    PROVE  Rings(q)'
  <1>1. Clears(q)'
    <2>1. ASSUME q.callee # None, NEW c \in q.stale, call'[c].status = "ringing"
          PROVE  StillStale(q, c)' /\ ToClose(q, c)'
      <3>1. c \in Calls
        BY DEF Request
      <3>2. /\ call[c].status = "ringing" /\ c <= made
            /\ call'[c].caller = call[c].caller /\ call'[c].callee = call[c].callee
        BY <2>1, <3>1, RingingShrinks
      <3>3. StillStale(q, c) /\ ToClose(q, c)
        BY <2>1, <3>2 DEF Rings, Clears
      <3>4. age'[c] >= Stale
        BY <3>1, <3>3 DEF StillStale, Settled, Inv, TypeOK, Fresh, Forgotten, Stale
      <3> QED BY <3>2, <3>3, <3>4 DEF StillStale, ToClose, With
    <2> QED BY <2>1 DEF Clears
  <1>2. Checked(q)'
    <2>1. ASSUME q.callee # None, ~q.raced, q.at = "create" \/ q.then = "create",
                 NEW c \in Ringing(q.callee)'
          PROVE  (q.at \in EndStep /\ q.id = c) \/ RungOver(c, q.callee)'
      <3>1. q.callee \in Users /\ c \in Calls
        BY <2>1 DEF Request, Ringing
      <3>2. c \in Ringing(q.callee)
        BY <2>1, <3>1, RingingShrinks
      <3>3. (q.at \in EndStep /\ q.id = c) \/ RungOver(c, q.callee)
        BY <2>1, <3>2 DEF Rings, Checked
      <3> QED BY <3>1, <3>3, RungOverStays
    <2> QED BY <2>1 DEF Checked
  <1> QED BY <1>1, <1>2 DEF Rings

LEMMA OnceStays ==
    ASSUME Inv, MadeOK', RingInv, Settled, made' = made
    PROVE  CalleeRingsOnce'
  <1>1. ASSUME NEW u \in Users, NEW c \in Ringing(u)', NEW d \in Ringing(u)', c < d
        PROVE  \E e \in raced' : call'[e].callee = u /\ c < e /\ e <= d
    <2>1. c \in Ringing(u) /\ d \in Ringing(u)
      BY RingingShrinks
    <2>2. PICK e \in raced : call[e].callee = u /\ c < e /\ e <= d
      BY <1>1, <2>1 DEF RingInv, CalleeRingsOnce
    <2>3. e \in Calls /\ e <= made /\ e \in raced'
      BY DEF Inv, TypeOK, RingInv, Settled
    <2> QED BY <2>2, <2>3 DEF Settled
  <1> QED BY <1>1 DEF CalleeRingsOnce

\* One handler moves on, and no call is made.
LEMMA RingMove ==
    ASSUME Inv, Inv', RingInv, Settled, UNCHANGED <<made, raced>>,
           NEW r \in Reqs, NEW q \in Request, req' = [req EXCEPT ![r] = q], Rings(q)',
           q.callee # None => req[r].callee # None /\ (req[r].raced => q.raced)
    PROVE  RingInv'
  <1>1. /\ req'[r] = q /\ \A s \in Reqs \ {r} : req'[s] = req[s]
        /\ MadeOK' /\ age' \in [Calls -> Fresh..Forgotten] /\ req \in [Reqs -> Request]
    BY DEF Inv, TypeOK
  <1>2. ASSUME NEW s \in Reqs PROVE Rings(req[s])'
    <2>1. CASE s = r
      BY <1>1, <2>1
    <2>2. CASE s # r
      <3>1. req[s] \in Request /\ Rings(req[s]) /\ req'[s] = req[s]
        BY <1>1, <2>2 DEF RingInv
      <3>2. ASSUME NEW p \in Request, Rings(p) PROVE Rings(p)'
        BY <1>1, <3>2, RingsStay
      <3>3. PICK p \in Request : p = req[s]
        BY <3>1
      <3>4. Rings(p)'
        BY <3>1, <3>2, <3>3
      <3>5. req'[s] = p
        BY <3>1, <3>3
      <3> QED BY <3>4, <3>5 DEF Rings, Clears, Checked, ToClose, StillStale, With, Ringing, RungOver
    <2> QED BY <2>1, <2>2
  <1>3. Alone'
    <2>1. ASSUME NEW s \in Reqs, req'[s].callee # None
          PROVE  s \in Inviting /\ (req[s].raced => req'[s].raced)
      BY <1>1, <2>1 DEF Inviting
    <2> QED BY <2>1 DEF Alone, Inviting, RingInv
  <1>4. CalleeRingsOnce'
    BY <1>1, OnceStays
  <1>5. \A e \in raced' : e <= made'
    BY DEF RingInv
  <1> QED BY <1>2, <1>3, <1>4, <1>5 DEF RingInv

LEMMA IdleRings == Rings(Idle) /\ Rings(Idle)'
  BY IdleOK DEF Idle, Rings, Clears, Checked, InviteStep

\* What is still to be done for the stale calls when the call in hand is closed.
LEMMA ReturnedRings ==
    ASSUME NEW q \in Request, Knows(q), made \in Nat,
           q.callee # None => \A c \in q.stale : c <= made',
           q.callee # None => \A c \in q.stale : call'[c].status = "ringing" =>
               /\ StillStale(q, c)'
               /\ (\E t \in q.todo : t[1] = c) \/ (q.then = "clean_caller" /\ With(q.caller, c)'),
           q.callee # None /\ ~q.raced /\ q.then = "create" =>
               \A c \in Ringing(q.callee)' : RungOver(c, q.callee)'
    PROVE  /\ Rings(Returned(q))'
           /\ Returned(q).callee # None => q.callee # None /\ Returned(q).raced = q.raced
  <1> DEFINE clear == [q EXCEPT !.id = 0, !.want = "none", !.read = NoCall]
             next == CHOOSE t \in q.todo : \A s \in q.todo : t[1] <= s[1]
             p == Returned(q)
  <1>0. /\ clear.todo = q.todo /\ clear.then = q.then /\ clear.callee = q.callee
        /\ clear.caller = q.caller /\ clear.stale = q.stale /\ clear.raced = q.raced
    BY DEF Request
  <1>1. CASE q.todo # {}
    <2>1. q.todo \in SUBSET (Calls \X CallStatus)
      BY DEF Request
    <2>2. next \in q.todo
      BY <1>1, <2>1, NextExists
    <2>3. p = [clear EXCEPT !.at = "end_read", !.id = next[1], !.want = next[2],
                            !.todo = @ \ {next}]
      BY <1>1 DEF Returned
    <2> HIDE DEF next, clear
    <2>4. /\ p.at = "end_read" /\ p.id = next[1] /\ p.todo = q.todo \ {next}
          /\ p.then = q.then /\ p.callee = q.callee /\ p.caller = q.caller
          /\ p.stale = q.stale /\ p.raced = q.raced
      <3>1. clear \in Request
        BY DEF clear, Request, NoCall, Call, CallStatus
      <3> QED BY <1>0, <2>3, <3>1 DEF Request
    <2> HIDE DEF p
    <2>5. Clears(p)'
      <3>1. ASSUME p.callee # None, NEW c \in p.stale, call'[c].status = "ringing"
            PROVE  StillStale(p, c)' /\ ToClose(p, c)'
        BY <2>4, <3>1 DEF StillStale, ToClose, EndStep, With
      <3> QED BY <3>1 DEF Clears
    <2>6. Checked(p)'
      BY <2>4 DEF Checked
    <2> QED BY <2>4, <2>5, <2>6 DEF Rings, InviteStep, EndStep, p
  <1>2. CASE q.todo = {} /\ q.then = "idle"
    BY <1>2, IdleOK, IdleRings DEF Returned
  <1>3. CASE q.todo = {} /\ q.then # "idle"
    <2>1. p = [clear EXCEPT !.at = q.then, !.then = "idle"]
      BY <1>3 DEF Returned
    <2>2. q.then \in InviteStep /\ q.callee # None
      BY <1>3 DEF Knows
    <2> HIDE DEF clear
    <2>3. /\ p.at = q.then /\ p.then = "idle" /\ p.todo = {} /\ p.callee = q.callee
          /\ p.caller = q.caller /\ p.stale = q.stale /\ p.raced = q.raced
      <3>1. clear \in Request
        BY DEF clear, Request, NoCall, Call, CallStatus
      <3> QED BY <1>0, <1>3, <2>1, <3>1 DEF Request
    <2> HIDE DEF p
    <2>4. Clears(p)'
      <3>1. ASSUME p.callee # None, NEW c \in p.stale, call'[c].status = "ringing"
            PROVE  StillStale(p, c)' /\ ToClose(p, c)'
        BY <1>3, <2>3, <3>1 DEF StillStale, ToClose, With
      <3> QED BY <3>1 DEF Clears
    <2>5. Checked(p)'
      BY <2>3 DEF Checked
    <2> QED BY <2>2, <2>3, <2>4, <2>5 DEF Rings, p
  <1> QED BY <1>1, <1>2, <1>3

\* A step of a handler that is not an invitation.
LEMMA OtherRings ==
    ASSUME Inv, Inv', RingInv, Settled, UNCHANGED <<made, raced>>,
           NEW r \in Reqs, NEW q \in Request, req' = [req EXCEPT ![r] = q],
           q.callee = None, Knows(q)
    PROVE  RingInv'
  <1>1. q.at \notin InviteStep
    BY DEF Knows
  <1>2. Rings(q)'
    BY <1>1 DEF Rings, Clears, Checked
  <1> QED BY <1>2, RingMove

LEMMA InviteRings ==
    ASSUME Inv, Inv', RingInv, NEW r \in Reqs, NEW a \in Users, NEW b \in Users, Invite(r, a, b)
    PROVE  RingInv'
  <1> DEFINE noted(s) == [req[s] EXCEPT !.raced = TRUE]
  <1>1. PICK q \in Request :
          /\ q.at = "clean_callee" /\ q.then = "idle" /\ q.caller = a /\ q.callee = b
          /\ q.stale = StaleRinging(a) \cup StaleRinging(b) /\ q.todo = {}
          /\ q.raced = (Inviting # {}) /\ q.callee # None
          /\ req' = [s \in Reqs |-> IF s = r THEN q ELSE IF s \in Inviting THEN noted(s)
                                     ELSE req[s]]
    <2> DEFINE q == [Idle EXCEPT !.at = "clean_callee", !.caller = a, !.callee = b,
                                 !.stale = StaleRinging(a) \cup StaleRinging(b),
                                 !.raced = Inviting # {}]
    <2>1. StaleRinging(a) \cup StaleRinging(b) \subseteq Calls
      BY DEF StaleRinging, ActiveWith
    <2>2. (Inviting # {}) \in BOOLEAN
      OBVIOUS
    <2>3. /\ q \in Request
          /\ q.at = "clean_callee" /\ q.then = "idle" /\ q.caller = a /\ q.callee = b
          /\ q.stale = StaleRinging(a) \cup StaleRinging(b) /\ q.todo = {}
          /\ q.raced = (Inviting # {})
      BY <2>1, <2>2, IdleOK DEF Request, Step, Idle
    <2>4. req' = [s \in Reqs |-> IF s = r THEN q ELSE IF s \in Inviting THEN noted(s) ELSE req[s]]
      BY DEF Invite
    <2> HIDE DEF q
    <2> QED BY <2>3, <2>4, NoneAssumption
  <1>2. /\ UNCHANGED <<call, made, age, svcTimer, gwTimer, restarts, raced>>
        /\ Settled
    BY ReadSettled DEF Invite
  <1>3. Rings(q)'
    <2>1. ASSUME NEW c \in q.stale PROVE StillStale(q, c)' /\ ToClose(q, c)' /\ c <= made'
      <3>1. /\ c \in Calls /\ call[c].status = "ringing" /\ age[c] >= Stale
            /\ With(a, c) \/ With(b, c)
        BY <1>1 DEF StaleRinging, ActiveWith
      <3>2. c <= made
        BY <3>1 DEF Inv, MadeOK, NoCall
      <3> QED BY <1>1, <1>2, <3>1, <3>2 DEF StillStale, ToClose, With
    <2> QED BY <1>1, <2>1 DEF Rings, Clears, Checked, InviteStep
  <1>4. ASSUME NEW s \in Reqs \ {r}
        PROVE  Rings(req[s])' /\ req'[s].callee = req[s].callee
               /\ (s \in Inviting => req'[s].raced)
    <2>1. req[s] \in Request /\ Rings(req[s])
      BY DEF Inv, TypeOK, RingInv
    <2>2. CASE s \in Inviting
      <3>1. req'[s] = noted(s)
        BY <1>1, <2>2
      <3>2. /\ noted(s).raced /\ noted(s).at = req[s].at /\ noted(s).then = req[s].then
            /\ noted(s).caller = req[s].caller /\ noted(s).callee = req[s].callee
            /\ noted(s).stale = req[s].stale /\ noted(s).todo = req[s].todo
            /\ noted(s).id = req[s].id
        BY <2>1 DEF Request
      <3> HIDE DEF noted
      <3>3. Clears(req[s])'
        BY <1>2, <2>1, <3>1, <3>2 DEF Rings, Clears, StillStale, ToClose, With
      <3>4. Checked(req[s])'
        BY <3>1, <3>2 DEF Checked
      <3> QED BY <1>2, <2>1, <3>1, <3>2, <3>3, <3>4 DEF Rings
    <2>3. CASE s \notin Inviting
      <3>1. req'[s] = req[s]
        BY <1>1, <2>3
      <3> QED BY <1>2, <2>1, <2>3, <3>1
              DEF Rings, Clears, Checked, StillStale, ToClose, With, Ringing, RungOver
    <2> QED BY <2>2, <2>3
  <1>5. req'[r] = q
    BY <1>1
  <1>6. \A s \in Reqs : Rings(req[s])'
    <2>1. ASSUME NEW s \in Reqs PROVE Rings(req[s])'
      <3>1. CASE s = r
        BY <1>3, <1>5, <3>1 DEF Rings, Clears, Checked, StillStale, ToClose, With, Ringing, RungOver
      <3> QED BY <1>4, <3>1
    <2> QED BY <2>1
  <1>7. Alone'
    <2>1. ASSUME NEW s \in Inviting', NEW t \in Inviting', s # t PROVE req'[s].raced
      <3>1. CASE s # r
        <4>1. s \in Reqs \ {r} /\ req'[s].callee # None
          BY <2>1, <3>1 DEF Inviting
        <4>2. s \in Inviting
          BY <1>4, <4>1 DEF Inviting
        <4> QED BY <1>4, <4>1, <4>2
      <3>2. CASE s = r
        <4>1. t \in Reqs \ {r} /\ req'[t].callee # None
          BY <2>1, <3>2 DEF Inviting
        <4>2. t \in Inviting
          BY <1>4, <4>1 DEF Inviting
        <4> QED BY <1>1, <1>5, <3>2, <4>2
      <3> QED BY <3>1, <3>2
    <2> QED BY <2>1 DEF Alone
  <1>8. CalleeRingsOnce'
    BY <1>2, OnceStays DEF Inv
  <1> QED BY <1>2, <1>6, <1>7, <1>8 DEF RingInv

\* The stale calls of the callee, then those of the caller, are taken up to be closed.
LEMMA CleanRings ==
    ASSUME Inv, Inv', RingInv, NEW r \in Reqs, CleanCallee(r) \/ CleanCaller(r)
    PROVE  RingInv'
  <1>1. PICK next \in {"clean_caller", "busy_find"}, u \in {req[r].callee, req[r].caller} :
          /\ \/ req[r].at = "clean_callee" /\ next = "clean_caller" /\ u = req[r].callee
             \/ req[r].at = "clean_caller" /\ next = "busy_find" /\ u = req[r].caller
          /\ req' = [req EXCEPT ![r] = Returned([@ EXCEPT !.then = next,
               !.todo = (StaleRinging(u) \X {"missed"}) \cup (StaleAccepted(u) \X {"ended"})])]
          /\ UNCHANGED <<call, made, age, svcTimer, gwTimer, restarts, raced>>
    BY DEF CleanCallee, CleanCaller, CleanFind
  <1> DEFINE todo == (StaleRinging(u) \X {"missed"}) \cup (StaleAccepted(u) \X {"ended"})
             p == [req[r] EXCEPT !.then = next, !.todo = todo]
  <1>2. /\ req[r] \in Request /\ Knows(req[r]) /\ made \in Nat /\ Rings(req[r])
        /\ req[r].at \in InviteStep /\ next \in InviteStep
    BY <1>1 DEF Inv, TypeOK, ReqOK, RingInv, InviteStep
  <1>3. \A t \in todo : t \in Calls \X CallStatus /\ t[1] <= made /\ t[2] \in Over
    <2>1. ASSUME NEW c \in StaleRinging(u) \cup StaleAccepted(u)
          PROVE  c \in Calls /\ c <= made
      <3>1. c \in Calls /\ call[c].status \in Active
        BY DEF StaleRinging, StaleAccepted, ActiveWith
      <3> QED BY <3>1 DEF Inv, MadeOK, NoCall, Active
    <2> QED BY <2>1 DEF Over, CallStatus
  <1>4. \A c \in StaleRinging(u) : \E t \in todo : t[1] = c
    <2>1. ASSUME NEW c \in StaleRinging(u) PROVE \E t \in todo : t[1] = c
      <3>1. <<c, "missed">> \in todo
        OBVIOUS
      <3> QED BY <3>1
    <2> QED BY <2>1
  <1> HIDE DEF todo
  <1>5. PICK q \in Request :
          /\ q = p /\ q.then = next /\ q.todo = todo /\ q.at = req[r].at
          /\ q.callee = req[r].callee /\ q.caller = req[r].caller /\ q.stale = req[r].stale
          /\ q.raced = req[r].raced
    <2>1. /\ p \in Request /\ p.then = next /\ p.todo = todo /\ p.at = req[r].at
          /\ p.callee = req[r].callee /\ p.caller = req[r].caller /\ p.stale = req[r].stale
          /\ p.raced = req[r].raced
      BY <1>2, <1>3 DEF Request, Step, InviteStep
    <2> HIDE DEF p
    <2> QED BY <2>1
  <1>6. Knows(q)
    BY <1>2, <1>3, <1>5 DEF Knows, InviteStep, SaveStep, EndStep
  <1>7. /\ req' = [req EXCEPT ![r] = Returned(q)]
        /\ UNCHANGED <<call, made, age, raced>> /\ Settled
    BY <1>1, <1>5, ReadSettled DEF todo
  <1> HIDE DEF p
  <1>8. ASSUME q.callee # None, NEW c \in q.stale, call'[c].status = "ringing"
        PROVE  /\ StillStale(q, c)'
               /\ (\E t \in q.todo : t[1] = c) \/ (q.then = "clean_caller" /\ With(q.caller, c)')
    <2>1. StillStale(req[r], c) /\ ToClose(req[r], c) /\ call[c].status = "ringing" /\ c \in Calls
      BY <1>2, <1>5, <1>7, <1>8 DEF Rings, Clears, Request
    <2>2. req[r].todo = {} /\ req[r].at \notin EndStep
      BY <1>2 DEF Rings, InviteStep, EndStep
    <2>3. With(u, c) => c \in StaleRinging(u)
      BY <2>1 DEF StaleRinging, ActiveWith, StillStale, Active
    <2>4. With(u, c) => \E t \in q.todo : t[1] = c
      BY <1>4, <1>5, <2>3
    <2>5. StillStale(q, c)'
      BY <1>5, <1>7, <2>1 DEF StillStale, With
    <2>6. CASE req[r].at = "clean_callee"
      <3>1. next = "clean_caller" /\ u = req[r].callee
        BY <1>1, <2>6
      <3> QED BY <1>5, <1>7, <2>1, <2>4, <2>5, <3>1 DEF StillStale, With
    <2>7. CASE req[r].at = "clean_caller"
      <3>1. next = "busy_find" /\ u = req[r].caller
        BY <1>1, <2>7
      <3>2. req[r].then = "clean_caller" => With(req[r].caller, c)
        BY <2>1, <2>2, <2>7 DEF ToClose
      <3> QED BY <2>1, <2>2, <2>4, <2>5, <2>7, <3>1, <3>2 DEF ToClose
    <2> QED BY <1>1, <2>6, <2>7
  <1>9. /\ Rings(Returned(q))'
        /\ Returned(q).callee # None => q.callee # None /\ Returned(q).raced = q.raced
    BY <1>1, <1>2, <1>5, <1>6, <1>7, <1>8, ReturnedRings DEF Rings
  <1>10. Returned(q) \in Request
    BY <1>2, <1>5, <1>6, ReturnedOK
  <1> QED BY <1>5, <1>7, <1>9, <1>10, RingMove

\* What the busy check leaves ringing was rung over, unless the callee's own call was
\* the newest.
LEMMA BusyFindRings ==
    ASSUME Inv, Inv', RingInv, NEW r \in Reqs, BusyFind(r)
    PROVE  RingInv'
  <1>1. /\ req[r] \in Request /\ Knows(req[r]) /\ req[r].at = "busy_find" /\ Rings(req[r])
        /\ req[r].callee \in Users /\ req[r].todo = {} /\ req[r].raced \in BOOLEAN
    BY BusyFindCases DEF RingInv, Rings, Knows, InviteStep, Request
  <1>2. UNCHANGED <<call, made, age, svcTimer, gwTimer, restarts, raced>> /\ Settled
    BY BusyFindCases, ReadSettled
  <1>3. req[r].callee # None /\ \A c \in req[r].stale : call[c].status # "ringing"
    BY <1>1 DEF Rings, Clears, ToClose, Knows, InviteStep, EndStep
  <1>4. CASE /\ ActiveWith(req[r].callee) = {}
             /\ req' = [req EXCEPT ![r] = [req[r] EXCEPT !.at = "create"]]
    <2> DEFINE p == [req[r] EXCEPT !.at = "create"]
    <2>1. PICK q \in Request :
            /\ q = p /\ q.at = "create" /\ q.callee = req[r].callee /\ q.todo = req[r].todo
            /\ q.then = req[r].then /\ q.stale = req[r].stale /\ q.caller = req[r].caller
            /\ q.raced = req[r].raced
      <3>1. /\ p \in Request /\ p.at = "create" /\ p.callee = req[r].callee
            /\ p.todo = req[r].todo /\ p.then = req[r].then /\ p.stale = req[r].stale
            /\ p.caller = req[r].caller /\ p.raced = req[r].raced
        BY <1>1 DEF Request, Step
      <3> HIDE DEF p
      <3> QED BY <3>1
    <2>2. Ringing(q.callee)' = {}
      BY <1>2, <1>4, <2>1 DEF Ringing, ActiveWith, With, Active
    <2>3. Rings(q)'
      BY <1>1, <1>2, <2>1, <2>2
         DEF Rings, Clears, Checked, StillStale, ToClose, With, InviteStep, EndStep
    <2> QED BY <1>1, <1>2, <1>4, <2>1, <2>3, RingMove
  <1>5. ASSUME NEW c \in ActiveWith(req[r].callee), NEW noted \in BOOLEAN,
               \A d \in ActiveWith(req[r].callee) : d <= c, call[c].status = "ringing",
               noted <=> req[r].raced \/ call[c].callee # req[r].callee,
               req' = [req EXCEPT ![r] =
                 [req[r] EXCEPT !.at = "end_read", !.then = "create", !.id = c,
                                !.want = "missed", !.raced = noted]]
        PROVE  RingInv'
    <2> DEFINE p == [req[r] EXCEPT !.at = "end_read", !.then = "create", !.id = c,
                                   !.want = "missed", !.raced = noted]
    <2>1. PICK q \in Request :
            /\ q = p /\ q.callee = req[r].callee /\ q.todo = req[r].todo
            /\ q.at = "end_read" /\ q.then = "create" /\ q.id = c /\ q.stale = req[r].stale
            /\ q.caller = req[r].caller /\ q.raced = noted
      <3>1. /\ p \in Request /\ p.callee = req[r].callee /\ p.todo = req[r].todo
            /\ p.at = "end_read" /\ p.then = "create" /\ p.id = c /\ p.stale = req[r].stale
            /\ p.caller = req[r].caller /\ p.raced = noted
        BY <1>1 DEF Request, Step, CallStatus, ActiveWith
      <3> HIDE DEF p
      <3> QED BY <3>1
    <2>2. req' = [req EXCEPT ![r] = q]
      BY <1>5, <2>1
    <2>3. Checked(q)'
      <3>1. ASSUME ~q.raced, NEW d \in Ringing(q.callee)'
            PROVE  q.id = d \/ RungOver(d, q.callee)'
        <4>1. d \in Ringing(req[r].callee) /\ c \in Ringing(req[r].callee) /\ d <= c
          BY <1>2, <1>5, <2>1, <3>1 DEF Ringing, ActiveWith, With, Active
        <4>2. CASE d < c
          <5>1. \E e \in raced : call[e].callee = req[r].callee /\ d < e
            BY <1>1, <4>1, <4>2 DEF RingInv, CalleeRingsOnce
          <5> QED BY <1>2, <2>1, <5>1 DEF RungOver
        <4>3. d = c \/ d < c
          BY <4>1 DEF Ringing, Calls
        <4> QED BY <2>1, <4>2, <4>3
      <3> QED BY <2>1, <3>1 DEF Checked, EndStep
    <2>4. Clears(q)'
      BY <1>2, <1>3, <2>1 DEF Clears
    <2>5. Rings(q)'
      BY <1>1, <1>2, <2>1, <2>3, <2>4 DEF Rings, InviteStep, EndStep
    <2>6. req[r].raced => q.raced
      BY <1>5, <2>1
    <2> QED BY <1>1, <1>2, <2>1, <2>2, <2>5, <2>6, RingMove
  <1>6. CASE req' = [req EXCEPT ![r] = Idle]
    BY <1>2, <1>6, IdleOK, IdleRings, RingMove
  <1> QED BY <1>4, <1>5, <1>6, BusyFindCases

\* The call made is raced, or rings at a callee whose other calls were rung over.
LEMMA CreateRings ==
    ASSUME Inv, Inv', RingInv, NEW r \in Reqs, Create(r)
    PROVE  RingInv'
  <1> DEFINE u == req[r].callee
             n == made + 1
             q == [Idle EXCEPT !.at = "timers", !.id = made + 1]
             new == [NoCall EXCEPT !.caller = req[r].caller, !.callee = u, !.status = "ringing"]
  <1>1. /\ req[r] \in Request /\ Knows(req[r]) /\ req[r].at = "create" /\ made \in Nat
        /\ Rings(req[r]) /\ u \in Users /\ req[r].raced \in BOOLEAN
    <2>1. req[r] \in Request /\ Knows(req[r]) /\ req[r].at = "create" /\ made \in Nat /\ Rings(req[r])
      BY DEF Create, Inv, TypeOK, ReqOK, RingInv
    <2>2. req[r].callee # None
      BY <2>1 DEF Knows, InviteStep
    <2> QED BY <2>1, <2>2 DEF Request
  <1>2. /\ made' = n /\ call' = [call EXCEPT ![n] = new] /\ req' = [req EXCEPT ![r] = q]
        /\ raced' = IF req[r].raced /\ Ringing(u) # {} THEN raced \cup {n} ELSE raced
        /\ age' = age
    BY DEF Create
  <1>3. n \in Calls
    BY <1>1, <1>2 DEF Inv, TypeOK, Calls
  <1>4. /\ call'[n].callee = u /\ call'[n].status = "ringing"
        /\ \A c \in Calls \ {n} : call'[c] = call[c]
    <2>1. new.callee = u /\ new.status = "ringing"
      BY DEF NoCall
    <2> HIDE DEF new
    <2> QED BY <1>2, <1>3, <2>1 DEF Inv, TypeOK
  <1>5. Settled
    BY <1>1, <1>2, <1>4 DEF Settled, Inv, TypeOK, Calls, Fresh, Forgotten
  <1>6. /\ req'[r] = q /\ \A s \in Reqs \ {r} : req'[s] = req[s]
        /\ q.callee = None /\ q.at = "timers"
    BY <1>2 DEF Inv, TypeOK, Idle
  <1> HIDE DEF q, new
  <1>7. ASSUME NEW s \in Reqs PROVE Rings(req[s])'
    <2>1. CASE s = r
      BY <1>6, <2>1 DEF Rings, Clears, Checked, InviteStep
    <2>2. CASE s # r
      <3>1. /\ req[s] \in Request /\ Knows(req[s]) /\ Rings(req[s]) /\ req'[s] = req[s]
        BY <1>6, <2>2 DEF Inv, TypeOK, ReqOK, RingInv
      <3>2. ASSUME req[s].callee # None PROVE req[s].raced
        <4>1. r \in Inviting /\ s \in Inviting
          BY <1>1, <3>2, NoneAssumption DEF Inviting
        <4> QED BY <2>2, <4>1 DEF RingInv, Alone
      <3>3. ASSUME req[s].callee # None, NEW c \in req[s].stale, call'[c].status = "ringing"
            PROVE  StillStale(req[s], c)' /\ ToClose(req[s], c)'
        <4>1. c \in Calls
          BY <3>1 DEF Request
        <4>2. CASE c = n
          BY <1>1, <3>1, <3>3, <4>2 DEF Rings
        <4>3. CASE c # n
          <5>1. call'[c] = call[c]
            BY <1>4, <4>1, <4>3
          <5>2. StillStale(req[s], c) /\ ToClose(req[s], c)
            BY <3>1, <3>3, <5>1 DEF Rings, Clears
          <5> QED BY <1>1, <1>2, <3>1, <4>1, <5>1, <5>2 DEF StillStale, ToClose, With, Calls
        <4> QED BY <4>2, <4>3
      <3>4. Clears(req[s])' /\ Checked(req[s])'
        BY <3>1, <3>2, <3>3 DEF Clears, Checked
      <3>5. ASSUME req[s].callee # None, NEW c \in req[s].stale PROVE c <= made'
        <4>1. c \in Calls /\ c <= made
          BY <3>1, <3>5 DEF Rings, Request
        <4> QED BY <1>1, <1>2, <4>1 DEF Calls
      <3> QED BY <3>1, <3>4, <3>5 DEF Rings
    <2> QED BY <2>1, <2>2
  <1>8. Alone'
    <2>1. Inviting' \subseteq Inviting
      BY <1>6 DEF Inviting
    <2>2. \A s \in Inviting' : req'[s] = req[s]
      BY <1>6 DEF Inviting
    <2> QED BY <2>1, <2>2 DEF Alone, RingInv
  <1>9. \A e \in raced' : e <= made'
    <2>1. ASSUME NEW e \in raced' PROVE e <= made'
      <3>1. e \in Calls /\ (e <= made \/ e = n)
        BY <1>2, <1>3 DEF RingInv, Inv, TypeOK
      <3> QED BY <1>1, <1>2, <3>1 DEF Calls
    <2> QED BY <2>1
  <1>10. CalleeRingsOnce'
    <2>1. ASSUME NEW v \in Users, NEW c \in Ringing(v)', NEW d \in Ringing(v)', c < d
          PROVE  \E e \in raced' : call'[e].callee = v /\ c < e /\ e <= d
      <3>1. /\ c \in Calls /\ d \in Calls /\ c <= n /\ d <= n
            /\ call'[c].status = "ringing" /\ call'[d].status = "ringing"
            /\ call'[c].callee = v /\ call'[d].callee = v
        <4>1. /\ c \in Calls /\ d \in Calls
              /\ call'[c].status = "ringing" /\ call'[d].status = "ringing"
              /\ call'[c].callee = v /\ call'[d].callee = v
          BY DEF Ringing
        <4> QED BY <1>2, <4>1 DEF Inv, MadeOK, NoCall
      <3>2. c # n
        BY <1>1, <2>1, <3>1 DEF Calls
      <3>3. c \in Ringing(v)
        BY <1>4, <3>1, <3>2 DEF Ringing
      <3>4. CASE d # n
        <4>1. d \in Ringing(v)
          BY <1>4, <3>1, <3>4 DEF Ringing
        <4>2. PICK e \in raced : call[e].callee = v /\ c < e /\ e <= d
          BY <2>1, <3>3, <4>1 DEF RingInv, CalleeRingsOnce
        <4>3. e \in Calls /\ e <= made /\ e \in raced'
          BY <1>2 DEF Inv, TypeOK, RingInv
        <4> QED BY <1>5, <4>2, <4>3 DEF Settled
      <3>5. CASE d = n
        <4>1. v = u
          BY <1>4, <3>1, <3>5
        <4>2. CASE req[r].raced
          <5>1. n \in raced'
            BY <1>2, <3>3, <4>1, <4>2
          <5> QED BY <1>1, <1>4, <2>1, <3>5, <4>1, <5>1
        <4>3. CASE ~req[r].raced
          <5>1. RungOver(c, u)
            BY <1>1, <3>3, <4>1, <4>3, NoneAssumption DEF Rings, Checked, EndStep
          <5>2. PICK e \in raced : call[e].callee = u /\ c < e
            BY <5>1 DEF RungOver
          <5>3. e \in Calls /\ e <= made /\ e \in raced'
            BY <1>2 DEF Inv, TypeOK, RingInv
          <5>4. call'[e].callee = u
            BY <1>5, <5>2, <5>3 DEF Settled
          <5> QED BY <1>1, <3>5, <4>1, <5>2, <5>3, <5>4 DEF Calls
        <4> QED BY <4>2, <4>3
      <3> QED BY <3>4, <3>5
    <2> QED BY <2>1 DEF CalleeRingsOnce
  <1> QED BY <1>7, <1>8, <1>9, <1>10 DEF RingInv

\* The call in hand does not ring any longer.
LEMMA ClosedRings ==
    ASSUME Inv, Inv', RingInv, Settled, UNCHANGED <<made, raced>>, NEW r \in Reqs,
           req[r].at \in EndStep, call'[req[r].id].status # "ringing",
           req' = [req EXCEPT ![r] = Returned(req[r])]
    PROVE  RingInv'
  <1>1. PICK q \in Request : q = req[r]
    BY DEF Inv, TypeOK
  <1>2. /\ Knows(q) /\ made \in Nat /\ Rings(q) /\ q.at \in EndStep
        /\ call'[q.id].status # "ringing" /\ req' = [req EXCEPT ![r] = Returned(q)]
        /\ MadeOK' /\ age' \in [Calls -> Fresh..Forgotten]
    BY <1>1 DEF Inv, TypeOK, ReqOK, RingInv
  <1>3. Clears(q)' /\ Checked(q)'
    <2>1. ASSUME NEW p \in Request, Rings(p) PROVE Rings(p)'
      BY <1>2, <2>1, RingsStay
    <2> QED BY <1>2, <2>1 DEF Rings
  <1>4. /\ Rings(Returned(q))'
        /\ Returned(q).callee # None => q.callee # None /\ Returned(q).raced = q.raced
    <2>1. ASSUME q.callee # None, NEW c \in q.stale, call'[c].status = "ringing"
          PROVE  /\ StillStale(q, c)'
                 /\ (\E t \in q.todo : t[1] = c) \/ (q.then = "clean_caller" /\ With(q.caller, c)')
      BY <1>2, <1>3, <2>1 DEF Clears, ToClose, EndStep, With
    <2>2. ASSUME q.callee # None, ~q.raced, q.then = "create", NEW c \in Ringing(q.callee)'
          PROVE  RungOver(c, q.callee)'
      BY <1>2, <1>3, <2>2 DEF Checked, Ringing
    <2> QED BY <1>2, <2>1, <2>2, ReturnedRings DEF Rings
  <1>5. Returned(q) \in Request
    BY <1>2, ReturnedOK
  <1> QED BY <1>1, <1>2, <1>4, <1>5, RingMove

LEMMA CloseReadRings ==
    ASSUME Inv, Inv', RingInv, NEW r \in Reqs, CloseRead(r)
    PROVE  RingInv'
  <1> DEFINE p == [req[r] EXCEPT !.at = "end_save", !.read = call[req[r].id]]
  <1>1. /\ req[r] \in Request /\ Knows(req[r]) /\ Rings(req[r]) /\ req[r].at = "end_read"
        /\ req[r].at \in EndStep
    BY DEF CloseRead, Inv, TypeOK, ReqOK, RingInv, EndStep
  <1>2. /\ UNCHANGED <<call, made, age, svcTimer, restarts, raced>> /\ Settled
        /\ \/ call[req[r].id].status \in Over /\ req' = [req EXCEPT ![r] = Returned(req[r])]
           \/ req' = [req EXCEPT ![r] = p]
    BY ReadSettled DEF CloseRead
  <1>3. CASE call[req[r].id].status \in Over /\ req' = [req EXCEPT ![r] = Returned(req[r])]
    BY <1>1, <1>2, <1>3, ClosedRings DEF Over
  <1>4. CASE req' = [req EXCEPT ![r] = p]
    <2>1. req[r].id \in Calls /\ call[req[r].id] \in Call
      BY <1>1 DEF Knows, Inv, TypeOK
    <2>2. PICK q \in Request :
            /\ q = p /\ q.at = "end_save" /\ q.callee = req[r].callee
            /\ q.caller = req[r].caller /\ q.todo = req[r].todo /\ q.then = req[r].then
            /\ q.stale = req[r].stale /\ q.raced = req[r].raced /\ q.id = req[r].id
      <3>1. /\ p \in Request /\ p.at = "end_save" /\ p.callee = req[r].callee
            /\ p.caller = req[r].caller /\ p.todo = req[r].todo /\ p.then = req[r].then
            /\ p.stale = req[r].stale /\ p.raced = req[r].raced /\ p.id = req[r].id
        BY <1>1, <2>1 DEF Request, Step
      <3> HIDE DEF p
      <3> QED BY <3>1
    <2>3. Rings(q)'
      BY <1>1, <1>2, <2>2 DEF Rings, Clears, Checked, StillStale, ToClose, With, Ringing,
                              RungOver, InviteStep, EndStep
    <2> QED BY <1>2, <1>4, <2>2, <2>3, RingMove
  <1> QED BY <1>2, <1>3, <1>4

LEMMA CloseSaveRings ==
    ASSUME Inv, Inv', RingInv, NEW r \in Reqs, CloseSave(r)
    PROVE  RingInv'
  <1> DEFINE q == req[r]
             read == q.read
             mine == [read EXCEPT !.status = q.want, !.ended = TRUE, !.talked = read.answered]
  <1>1. q \in Request /\ Knows(q) /\ q.at = "end_save" /\ q.at \in EndStep
    BY DEF CloseSave, Inv, TypeOK, ReqOK, EndStep
  <1>2. /\ UNCHANGED <<made, age, raced>>
        /\ call' = [call EXCEPT ![q.id] = Saved(@, read, mine)]
        /\ req' = [req EXCEPT ![r] = Returned(q)]
    BY DEF CloseSave
  <1>3. /\ read \in Call /\ read.status \in Active /\ q.want \in Over /\ q.id \in Calls
    BY <1>1 DEF Knows, Request, EndStep
  <1>4. /\ mine \in Call /\ mine.status = q.want
        /\ mine.caller = read.caller /\ mine.callee = read.callee
    BY <1>3 DEF Call, CallStatus, Over
  <1> HIDE DEF mine
  <1>5. Settled /\ call'[q.id].status # "ringing"
    BY <1>2, <1>3, <1>4, SaveSettled DEF Active, Over
  <1> QED BY <1>1, <1>2, <1>5, ClosedRings

\* The answer, the requests that close a call, and the timers.
LEMMA AnswerRings ==
    ASSUME Inv, Inv', RingInv, NEW r \in Reqs,
           StartTimers(r) \/ AcceptSave(r) \/ AcceptClear(r) \/ AcceptDone(r)
    PROVE  RingInv'
  <1>1. req[r] \in Request /\ Knows(req[r]) /\ Rings(req[r])
    BY DEF Inv, TypeOK, ReqOK, RingInv
  <1>2. CASE StartTimers(r) \/ AcceptDone(r)
    <2>1. UNCHANGED <<call, made, age, raced>> /\ req' = [req EXCEPT ![r] = Idle]
      BY <1>2 DEF StartTimers, AcceptDone
    <2> QED BY <2>1, IdleOK, ReadSettled, OtherRings
  <1>3. CASE AcceptClear(r)
    <2> DEFINE q == [req[r] EXCEPT !.at = "accept_done"]
    <2>1. UNCHANGED <<call, made, age, raced>> /\ req' = [req EXCEPT ![r] = q]
      BY <1>3 DEF AcceptClear
    <2>2. req[r].at = "accept_clear"
      BY <1>3 DEF AcceptClear
    <2>3. req[r].callee = None
      BY <1>1, <2>2 DEF Rings, InviteStep, EndStep
    <2>4. q \in Request /\ Knows(q) /\ q.callee = None
      BY <1>1, <2>2, <2>3 DEF Request, Step, Knows, InviteStep, SaveStep, EndStep
    <2> HIDE DEF q
    <2> QED BY <2>1, <2>4, ReadSettled, OtherRings
  <1>4. CASE AcceptSave(r)
    <2> DEFINE c == req[r].id
               read == req[r].read
               mine == [read EXCEPT !.status = "accepted", !.answered = TRUE]
               q == [Idle EXCEPT !.at = "accept_clear", !.id = c]
    <2>1. /\ call' = [call EXCEPT ![c] = Saved(@, read, mine)] /\ req' = [req EXCEPT ![r] = q]
          /\ UNCHANGED <<made, age, raced>> /\ req[r].at = "accept_save"
      BY <1>4 DEF AcceptSave
    <2>2. read \in Call /\ read.status = "ringing" /\ c \in Calls
      BY <1>1, <2>1 DEF Knows, Request, SaveStep
    <2>3. /\ mine \in Call /\ mine.status = "accepted"
          /\ mine.caller = read.caller /\ mine.callee = read.callee
      BY <2>2 DEF Call, CallStatus
    <2>4. q \in Request /\ q.at = "accept_clear" /\ q.callee = None /\ q.todo = {} /\ q.then = "idle"
      BY <2>2, IdleOK DEF Request, Step, Idle
    <2> HIDE DEF q, mine
    <2>5. Knows(q)
      BY <2>4 DEF Knows, InviteStep, SaveStep, EndStep
    <2>6. Settled
      BY <2>1, <2>2, <2>3, SaveSettled
    <2> QED BY <2>1, <2>4, <2>5, <2>6, OtherRings
  <1> QED BY <1>2, <1>3, <1>4

LEMMA ClosingRings ==
    ASSUME Inv, Inv', RingInv, NEW r \in Reqs, NEW c \in Calls,
           \/ AcceptCall(r, c) \/ RejectCall(r, c) \/ EndCall(r, c)
           \/ SvcTimerFires(r, c) \/ MarkMissedIfUnanswered(r, c)
    PROVE  RingInv'
  <1>1. UNCHANGED <<call, made, age, raced>> /\ Settled
    BY ReadSettled DEF AcceptCall, RejectCall, EndCall, SvcTimerFires, MarkMissedIfUnanswered, Close
  <1>2. \/ UNCHANGED req
        \/ \E read \in Call : req' = [req EXCEPT ![r] =
                                [Idle EXCEPT !.at = "accept_save", !.id = c, !.read = read]]
        \/ \E want \in Over : req' = [req EXCEPT ![r] =
                                [Idle EXCEPT !.at = "end_read", !.id = c, !.want = want]]
    <2>1. call[c] \in Call
      BY DEF Inv, TypeOK
    <2> QED BY <2>1 DEF AcceptCall, RejectCall, EndCall, SvcTimerFires, MarkMissedIfUnanswered,
                        Close, Begin, Over
  <1>3. CASE UNCHANGED req
    BY <1>1, <1>3 DEF RingInv, Rings, Clears, Checked, StillStale, ToClose, With, Ringing,
                      RungOver, Alone, Inviting, CalleeRingsOnce
  <1>4. ASSUME NEW q, req' = [req EXCEPT ![r] = q], q.callee = None, q.at \notin InviteStep,
               q \in Request
        PROVE  RingInv'
    <2>1. Rings(q)'
      BY <1>4 DEF Rings, Clears, Checked
    <2> QED BY <1>1, <1>4, <2>1, RingMove
  <1>5. ASSUME NEW read \in Call,
               req' = [req EXCEPT ![r] = [Idle EXCEPT !.at = "accept_save", !.id = c, !.read = read]]
        PROVE  RingInv'
    <2> DEFINE q == [Idle EXCEPT !.at = "accept_save", !.id = c, !.read = read]
    <2>1. q \in Request /\ q.callee = None /\ q.at \notin InviteStep
      BY IdleOK DEF Request, Step, Idle, InviteStep
    <2> HIDE DEF q
    <2> QED BY <1>4, <1>5, <2>1 DEF q
  <1>6. ASSUME NEW want \in Over,
               req' = [req EXCEPT ![r] = [Idle EXCEPT !.at = "end_read", !.id = c, !.want = want]]
        PROVE  RingInv'
    <2> DEFINE q == [Idle EXCEPT !.at = "end_read", !.id = c, !.want = want]
    <2>1. q \in Request /\ q.callee = None /\ q.at \notin InviteStep
      BY IdleOK DEF Request, Step, Idle, InviteStep, Over, CallStatus
    <2> HIDE DEF q
    <2> QED BY <1>4, <1>6, <2>1 DEF q
  <1> QED BY <1>2, <1>3, <1>5, <1>6

LEMMA AgesRings ==
    ASSUME Inv, Inv', RingInv, NEW c \in Calls, Ages(c)
    PROVE  RingInv'
  <1>1. UNCHANGED <<call, made, req, svcTimer, gwTimer, restarts, raced>>
    BY DEF Ages
  <1>2. Settled /\ MadeOK' /\ age' \in [Calls -> Fresh..Forgotten]
    BY <1>1 DEF Ages, Settled, Inv, TypeOK, Fresh, Forgotten
  <1>3. ASSUME NEW s \in Reqs PROVE Rings(req[s])'
    <2>1. ASSUME NEW p \in Request, Rings(p) PROVE Rings(p)'
      BY <1>1, <1>2, <2>1, RingsStay
    <2>2. PICK p \in Request : p = req[s] /\ Rings(p)
      BY DEF Inv, TypeOK, RingInv
    <2>3. Rings(p)' /\ req'[s] = p
      BY <1>1, <2>1, <2>2
    <2> QED BY <2>3 DEF Rings, Clears, Checked, ToClose, StillStale, With, Ringing, RungOver
  <1>4. CalleeRingsOnce'
    BY <1>1, <1>2, OnceStays
  <1> QED BY <1>1, <1>3, <1>4 DEF RingInv, Alone, Inviting

LEMMA RestartRings ==
    ASSUME Inv, Inv', RingInv, Restart
    PROVE  RingInv'
  <1>1. (\A r \in Reqs : req'[r] = Idle) /\ UNCHANGED <<call, made, age, raced>>
    BY DEF Restart
  <1>2. Settled /\ MadeOK'
    BY <1>1, ReadSettled DEF Inv
  <1>3. \A r \in Reqs : Rings(req[r])'
    BY <1>1, IdleOK DEF Rings, Clears, Checked, InviteStep
  <1>4. Inviting' = {}
    BY <1>1, IdleOK DEF Inviting
  <1>5. CalleeRingsOnce'
    BY <1>1, <1>2, OnceStays
  <1> QED BY <1>1, <1>3, <1>4, <1>5 DEF RingInv, Alone

LEMMA RingStep == Inv /\ Inv' /\ RingInv /\ [Next]_vars => RingInv'
  <1> SUFFICES ASSUME Inv, Inv', RingInv, [Next]_vars PROVE RingInv'
    OBVIOUS
  <1>1. CASE UNCHANGED vars
    BY <1>1 DEF vars, RingInv, Rings, Clears, Checked, StillStale, ToClose, With, Ringing,
                RungOver, Alone, Inviting, CalleeRingsOnce
  <1>2. ASSUME NEW r \in Reqs, HandlerStep(r) PROVE RingInv'
    BY <1>2, CleanRings, BusyFindRings, CreateRings, AnswerRings, CloseReadRings, CloseSaveRings
       DEF HandlerStep
  <1> QED BY <1>1, <1>2, InviteRings, ClosingRings, AgesRings, RestartRings DEF Next

LEMMA RingInit == Init => RingInv
  <1> SUFFICES ASSUME Init PROVE RingInv
    OBVIOUS
  <1>1. \A r \in Reqs : req[r] = Idle
    BY DEF Init
  <1>2. Inviting = {} /\ \A r \in Reqs : Rings(req[r])
    BY <1>1, IdleOK, IdleRings DEF Inviting
  <1>3. \A u \in Users : Ringing(u) = {}
    BY DEF Init, Ringing, NoCall
  <1> QED BY <1>2, <1>3 DEF Init, RingInv, Alone, CalleeRingsOnce

LEMMA RingInvariance == Spec => []RingInv
  <1>1. Inv /\ Inv' /\ RingInv /\ [Next]_vars => RingInv'
    BY RingStep
  <1> QED BY <1>1, RingInit, Invariance, PTL DEF Spec

\* Whatever answers, timers and restarts come between, an invitation looks for a busy
\* callee only when every ringing call that was stale as it began is closed
\* (src/src/calls/calls.service.ts, cleanupStaleActiveCallsForUser).
THEOREM InvitationsClearStale == Spec => []InviteClearsStale
  <1>1. Inv /\ RingInv => InviteClearsStale
    <2> SUFFICES ASSUME Inv, RingInv, NEW r \in Reqs, req[r].at \in {"busy_find", "create"},
                        NEW c \in req[r].stale, call[c].status = "ringing"
                 PROVE  FALSE
      BY DEF InviteClearsStale
    <2>1. Knows(req[r]) /\ Rings(req[r])
      BY DEF Inv, ReqOK, RingInv
    <2>2. req[r].callee # None /\ req[r].todo = {} /\ req[r].then = "idle"
      BY <2>1 DEF Knows, Rings, InviteStep
    <2>3. ToClose(req[r], c)
      BY <2>1, <2>2 DEF Rings, Clears
    <2> QED BY <2>2, <2>3 DEF ToClose, EndStep
  <1> QED BY <1>1, Invariance, RingInvariance, PTL

\* Of two calls that ring at the same callee, the older was rung over by a call whose
\* invitation overlapped with another or ended a call the callee made: an invitation on
\* its own never lets a callee ring twice (createCallInvite).
THEOREM CalleesRingOnce == Spec => []CalleeRingsOnce
  BY RingInvariance, PTL DEF RingInv

=============================================================================
