---------------------------- MODULE BannersProofs ----------------------------
(* Proofs about Banners: whatever handlers overlap, the promotions implement       *)
(* Showcase, for any number of merchants, promotions and handlers.                 *)
EXTENDS Banners, FiniteSetTheorems, WellFoundedInduction, TLAPS

SaveStep == {"review_save", "pay_save", "update_save"}
ListStep == {"cache_get", "fetch", "store"}

\* What is shown or paid was approved, offers are born approved, and nothing is left of
\* a promotion that does not exist.
DocOK == \A p \in Promos :
    IF Exists(p)
    THEN /\ p \notin gone
         /\ promo[p].merchant \in Merchants
         /\ promo[p].status \in {"approved", "active"} => promo[p].approved
         /\ promo[p].paid => promo[p].approved
         /\ promo[p].type = "offer" => promo[p].approved
    ELSE promo[p] = NoPromo

\* What a handler about to save knows, however old its read is: it takes no approval
\* and no payment away, and shows nothing that is not approved.
SaveOK(q) ==
    /\ q.id \in Promos
    /\ Exists(q.id) \/ q.id \in gone
    /\ q.mine.type = q.read.type /\ q.mine.merchant = q.read.merchant
    /\ q.mine.status # "none"
    /\ q.read.paid => q.mine.paid
    /\ q.read.approved => q.mine.approved
    /\ q.mine.status \in {"approved", "active"} => q.mine.approved
    /\ q.mine.paid => q.mine.approved
    /\ Exists(q.id) => /\ promo[q.id].type = q.read.type
                       /\ q.read.approved => promo[q.id].approved
                       /\ q.read.paid => promo[q.id].paid

RequestOK(q) ==
    /\ q.at \in SaveStep => SaveOK(q)
    /\ q.at = "delete" => q.id \in Promos
    /\ q.at \in ListStep => q.key \in Keys
    /\ q.at = "store" => q.rows \in Rows

ReqOK == \A r \in Reqs : RequestOK(req[r])

Inv == TypeOK /\ DocOK /\ ReqOK

\* The types of what the proofs say nothing else about.
RestOK ==
    /\ pays \in 0..MaxPays
    /\ updates \in 0..MaxUpdates
    /\ cache \in [Keys -> Rows \cup {None}]
    /\ unchecked \subseteq Promos
    /\ outdated \subseteq Keys

\* What no step takes from a promotion while it exists; and what is gone stays gone.
Kept ==
    /\ gone \subseteq gone'
    /\ \A p \in Promos : Exists(p) =>
         IF Exists(p)' THEN /\ promo'[p].type = promo[p].type
                            /\ promo[p].approved => promo'[p].approved
                            /\ promo[p].paid => promo'[p].paid
                       ELSE p \in gone'

\* Only handler r moved.
OnlyMoved(r) ==
    /\ req' \in [Reqs -> Request]
    /\ \A s \in Reqs \ {r} : req'[s] = req[s]

Shown(p) == (OnHomepage(p) /\ ~promo[p].over) \/ p \in NearbyOffers

-----------------------------------------------------------------------------
(* What save() does *)

LEMMA SavedPromo ==
    ASSUME NEW now \in Promo, NEW read \in Promo, NEW mine \in Promo
    PROVE  /\ Saved(now, read, mine) \in Promo
           /\ Saved(now, read, mine).status =
                IF mine.status = read.status THEN now.status ELSE mine.status
           /\ Saved(now, read, mine).type = IF mine.type = read.type THEN now.type ELSE mine.type
           /\ Saved(now, read, mine).merchant =
                IF mine.merchant = read.merchant THEN now.merchant ELSE mine.merchant
           /\ Saved(now, read, mine).paid = IF mine.paid = read.paid THEN now.paid ELSE mine.paid
           /\ Saved(now, read, mine).approved =
                IF mine.approved = read.approved THEN now.approved ELSE mine.approved
  <1>1. DOMAIN now = {"status", "type", "merchant", "paid", "paidAt", "visible", "over",
                      "approved"}
    BY DEF Promo
  <1>2. Saved(now, read, mine) \in Promo
    BY <1>1 DEF Saved, Promo
  <1>3. \A f \in DOMAIN now :
          Saved(now, read, mine)[f] = IF mine[f] = read[f] THEN now[f] ELSE mine[f]
    BY DEF Saved
  <1> QED BY <1>1, <1>2, <1>3

LEMMA IdleType == Idle \in Request
  BY NoneAssumption, BoundsAssumption
     DEF Idle, Request, Step, NoPromo, Promo, Status, Rows, Keys

\* What is shown was approved.
LEMMA ShownApproved ==
    ASSUME TypeOK, DocOK, NEW p \in Promos, Shown(p)
    PROVE  Exists(p) /\ promo[p].approved
  BY DEF TypeOK, DocOK, Shown, OnHomepage, NearbyOffers, Exists

-----------------------------------------------------------------------------
(* The mapping to Showcase *)

\* A step that leaves the promotions alone is a stutter of Showcase.
LEMMA Stutter ==
    ASSUME UNCHANGED <<promo, gone>>
    PROVE  UNCHANGED Show!vars
  BY DEF Show!vars, OnHomepage, NearbyOffers

\* A step that changes one promotion, which exists afterwards, is a step of Showcase.
LEMMA OneChanges ==
    ASSUME TypeOK, DocOK, TypeOK', DocOK', NEW p \in Promos,
           \A q \in Promos \ {p} : promo'[q] = promo[q],
           p \notin gone, Exists(p)', UNCHANGED gone,
           promo[p].approved => promo'[p].approved,
           promo[p].paid => promo'[p].paid
    PROVE  [Show!Next]_(Show!vars)
  <1> DEFINE A == {q \in Promos : promo[q].approved}
             B == {q \in Promos : promo[q].paid}
             C == {q \in Promos : OnHomepage(q) /\ ~promo[q].over} \cup NearbyOffers
  <1>1. \A q \in Promos \ {p} : /\ q \in A' <=> q \in A
                                /\ q \in B' <=> q \in B
                                /\ q \in C' <=> q \in C
    BY DEF OnHomepage, NearbyOffers
  <1>2. /\ A \subseteq Promos /\ B \subseteq Promos /\ C \subseteq Promos
        /\ A' \subseteq Promos /\ B' \subseteq Promos /\ C' \subseteq Promos
    BY DEF NearbyOffers
  <1>3. /\ p \in A => p \in A'
        /\ p \in B => p \in B'
        /\ p \in A <=> promo[p].approved
    OBVIOUS
  <1>4. (p \in B => p \in A) /\ (p \in C => p \in A)
    <2>1. p \in C => Shown(p)
      BY DEF Shown
    <2>2. p \in B => p \in A
      BY DEF DocOK, NoPromo
    <2> QED BY <2>1, <2>2, ShownApproved
  <1>5. (p \in B' => p \in A') /\ (p \in C' => p \in A')
    <2>1. p \in C' => Shown(p)'
      BY DEF Shown
    <2>2. Shown(p)' => promo'[p].approved
      BY DEF TypeOK, DocOK, Shown, OnHomepage, NearbyOffers, Exists
    <2> QED BY <2>1, <2>2 DEF DocOK
  <1> HIDE DEF A, B, C
  <1>6. CASE p \in A
    <2>1. A' = A /\ B' \in {B, B \cup {p}} /\ C' \in {C \cup {p}, C \ {p}}
      BY <1>1, <1>2, <1>3, <1>6
    <2>2. p \in A \ gone
      BY <1>6
    <2>3. Show!Decide(p)
      BY <2>1, <2>2 DEF Show!Decide, A, B, C
    <2> QED BY <2>3 DEF Show!Next
  <1>7. CASE p \notin A /\ p \in A'
    <2>1. A' = A \cup {p} /\ B' \in {B, B \cup {p}} /\ C' \in {C, C \cup {p}}
      BY <1>1, <1>2, <1>4, <1>7
    <2>2. p \notin A \cup gone
      BY <1>7
    <2>3. Show!Approve(p)
      BY <2>1, <2>2 DEF Show!Approve, A, B, C
    <2> QED BY <2>3 DEF Show!Next
  <1>8. CASE p \notin A /\ p \notin A'
    <2>1. A' = A /\ B' = B /\ C' = C
      BY <1>1, <1>2, <1>4, <1>5, <1>8
    <2>2. UNCHANGED Show!vars
      BY <2>1 DEF Show!vars, A, B, C
    <2> QED BY <2>2
  <1> QED BY <1>6, <1>7, <1>8

\* A deletion removes what there was of the promotions.
LEMMA DeletedRemoves ==
    ASSUME TypeOK, DocOK, NEW ids \in SUBSET Promos, Deleted(ids)
    PROVE  Show!Next
  <1> DEFINE A == {q \in Promos : promo[q].approved}
             B == {q \in Promos : promo[q].paid}
             C == {q \in Promos : OnHomepage(q) /\ ~promo[q].over} \cup NearbyOffers
  <1>0. PICK s \in SUBSET Promos : s = {q \in ids : Exists(q)}
    OBVIOUS
  <1>1. \A q \in Promos : /\ q \in s => promo'[q] = NoPromo
                          /\ q \notin s => promo'[q] = promo[q]
    BY <1>0 DEF TypeOK, DocOK, Deleted
  <1>2. /\ A' = A \ s
        /\ B' = B \ s
        /\ C' = C \ s
        /\ gone' = gone \cup s
    <2>1. \A q \in s : /\ promo'[q].status = "none"
                       /\ ~promo'[q].approved /\ ~promo'[q].paid
      BY <1>1 DEF NoPromo
    <2>2. A' = A \ s /\ B' = B \ s
      BY <1>1, <2>1
    <2>3. C' = C \ s
      BY <1>1, <2>1 DEF OnHomepage, NearbyOffers
    <2> QED BY <1>0, <2>2, <2>3 DEF Deleted
  <1>3. Show!Remove(s)
    BY <1>2 DEF Show!Remove
  <1> QED BY <1>3 DEF Show!Next

\* Promotions that expire are shown no more.
LEMMA HiddenHides ==
    ASSUME TypeOK, NEW s \in SUBSET Promos, UNCHANGED gone,
           \A q \in Promos \ s : promo'[q] = promo[q],
           \A q \in s : /\ promo'[q].approved = promo[q].approved
                        /\ promo'[q].paid = promo[q].paid
                        /\ ~Shown(q)'
    PROVE  Show!Next
  <1> DEFINE A == {q \in Promos : promo[q].approved}
             B == {q \in Promos : promo[q].paid}
             C == {q \in Promos : OnHomepage(q) /\ ~promo[q].over} \cup NearbyOffers
  <1>1. A' = A /\ B' = B
    OBVIOUS
  <1>2. C' = C \ s
    BY DEF Shown, OnHomepage, NearbyOffers
  <1>3. Show!Hide(s)
    BY <1>1, <1>2 DEF Show!Hide
  <1> QED BY <1>3 DEF Show!Next

-----------------------------------------------------------------------------
(* What a step leaves alone *)

\* What is kept is all that the handlers that did not move know.
LEMMA OthersOK ==
    ASSUME Inv, Kept, DocOK', \A s \in Reqs : req'[s] = req[s] \/ RequestOK(req[s])'
    PROVE  ReqOK'
  <1> SUFFICES ASSUME NEW s \in Reqs, req'[s] = req[s] PROVE RequestOK(req[s])'
    BY DEF ReqOK
  <1>1. RequestOK(req[s])
    BY DEF Inv, ReqOK
  <1>2. ASSUME SaveOK(req[s]) PROVE SaveOK(req[s])'
    BY <1>2 DEF SaveOK, Kept, DocOK, Exists
  <1> QED BY <1>1, <1>2 DEF RequestOK

\* A step of a handler that leaves the promotions alone.
LEMMA ReadStep ==
    ASSUME Inv, NEW r \in Reqs, OnlyMoved(r), RequestOK(req[r])', RestOK',
           UNCHANGED <<promo, gone>>
    PROVE  Inv' /\ [Show!Next]_(Show!vars)
  <1>1. Kept /\ DocOK'
    BY DEF Inv, Kept, DocOK, Exists
  <1>2. ReqOK'
    BY <1>1, OthersOK DEF OnlyMoved
  <1>3. TypeOK'
    BY DEF Inv, TypeOK, RestOK, OnlyMoved
  <1> QED BY <1>1, <1>2, <1>3, Stutter DEF Inv

\* A step of a handler that changes one promotion, which exists afterwards.
LEMMA WriteStep ==
    ASSUME Inv, NEW r \in Reqs, OnlyMoved(r), RequestOK(req[r])', RestOK',
           UNCHANGED gone, promo' \in [Promos -> Promo], DocOK', Kept,
           NEW p \in Promos, \A q \in Promos \ {p} : promo'[q] = promo[q],
           p \notin gone, Exists(p)',
           promo[p].approved => promo'[p].approved,
           promo[p].paid => promo'[p].paid
    PROVE  Inv' /\ [Show!Next]_(Show!vars)
  <1>1. ReqOK'
    BY OthersOK DEF OnlyMoved
  <1>2. TypeOK'
    BY DEF Inv, TypeOK, RestOK, OnlyMoved
  <1>3. TypeOK /\ DocOK
    BY DEF Inv
  <1> QED BY <1>1, <1>2, <1>3, OneChanges DEF Inv

LEMMA MoveOn ==
    ASSUME Inv, NEW r \in Reqs, NEW q \in Request, req' = [req EXCEPT ![r] = q]
    PROVE  OnlyMoved(r) /\ req'[r] = q
  BY DEF Inv, TypeOK, OnlyMoved

LEMMA IdleOK ==
    ASSUME Inv, NEW r \in Reqs, Finish(r)
    PROVE  OnlyMoved(r) /\ RequestOK(req[r])'
  <1>1. OnlyMoved(r) /\ req'[r] = Idle
    BY IdleType, MoveOn DEF Finish
  <1> QED BY <1>1 DEF RequestOK, Idle, SaveStep, ListStep

-----------------------------------------------------------------------------
(* One lemma for each action that writes *)

LEMMA SubmitRefines ==
    ASSUME Inv, NEW r \in Reqs, NEW m \in Merchants, NEW type \in {"banner", "offer"},
           Submit(r, m, type)
    PROVE  Inv' /\ [Show!Next]_(Show!vars)
  <1>1. PICK p \in Promos :
          /\ ~Exists(p) /\ p \notin gone
          /\ LET offer == type = "offer"
             IN  /\ promo' = [promo EXCEPT ![p] = [NoPromo EXCEPT
                       !.status = IF offer THEN "active" ELSE "under_review",
                       !.type = type, !.merchant = m, !.paid = offer,
                       !.visible = offer, !.approved = offer]]
                 /\ unchecked' = IF offer THEN unchecked \cup {p} ELSE unchecked
    BY DEF Submit
  <1> DEFINE q == [Idle EXCEPT !.at = "invalidate", !.touched = {m}]
             new == [NoPromo EXCEPT
                       !.status = IF type = "offer" THEN "active" ELSE "under_review",
                       !.type = type, !.merchant = m, !.paid = (type = "offer"),
                       !.visible = (type = "offer"), !.approved = (type = "offer")]
  <1>2. q \in Request /\ q.at = "invalidate"
    BY IdleType DEF Idle, Request, Step
  <1>3. req' = [req EXCEPT ![r] = q]
    BY DEF Submit, Begin
  <1>4. /\ new \in Promo /\ new.type = type /\ new.merchant = m
        /\ new.status = IF type = "offer" THEN "active" ELSE "under_review"
        /\ new.paid = (type = "offer") /\ new.approved = (type = "offer")
    <2>1. 0 \in 0..MaxPays
      BY BoundsAssumption
    <2>2. CASE type = "offer"
      BY <2>1, <2>2 DEF NoPromo, Promo, Status
    <2>3. CASE type = "banner"
      BY <2>1, <2>3 DEF NoPromo, Promo, Status
    <2> QED BY <2>2, <2>3
  <1>5. promo' = [promo EXCEPT ![p] = new]
    BY <1>1
  <1> HIDE DEF q, new
  <1>6. OnlyMoved(r) /\ req'[r] = q
    BY <1>2, <1>3, MoveOn
  <1>7. RequestOK(req[r])'
    BY <1>2, <1>6 DEF RequestOK, SaveStep, ListStep
  <1>8. UNCHANGED <<pays, updates, cache, gone, outdated>>
    BY DEF Submit
  <1>9. RestOK'
    BY <1>1, <1>8 DEF RestOK, Inv, TypeOK
  <1>10. /\ promo' \in [Promos -> Promo]
         /\ promo'[p] = new
         /\ \A x \in Promos \ {p} : promo'[x] = promo[x]
    BY <1>4, <1>5 DEF Inv, TypeOK
  <1>11. promo[p] = NoPromo
    BY <1>1 DEF Inv, DocOK
  <1>12. ~promo[p].approved /\ ~promo[p].paid
    BY <1>11 DEF NoPromo
  <1>13. DocOK'
    BY <1>1, <1>4, <1>8, <1>10, ZenonT(60) DEF Inv, DocOK, Exists
  <1>14. Kept
    BY <1>1, <1>8, <1>10 DEF Kept, Exists
  <1>15. Exists(p)'
    BY <1>4, <1>10 DEF Exists
  <1> QED BY <1>1, <1>6, <1>7, <1>8, <1>9, <1>10, <1>12, <1>13, <1>14, <1>15, WriteStep

\* A save adds approvals and payments and takes none, whatever was saved since the read.
LEMMA SaveRefines ==
    ASSUME Inv, NEW r \in Reqs, NEW at \in SaveStep, NEW next \in {"invalidate", "enforce_find"},
           Save(r, at, next), unchecked' \subseteq Promos
    PROVE  Inv' /\ [Show!Next]_(Show!vars)
  <1>1. req[r].at = at /\ req[r] \in Request /\ SaveOK(req[r])
    BY DEF Save, Inv, TypeOK, ReqOK, RequestOK
  <1>2. UNCHANGED <<pays, updates, cache, gone, outdated>>
    BY DEF Save
  <1>3. RestOK'
    BY <1>2 DEF RestOK, Inv, TypeOK
  <1>4. CASE ~Exists(req[r].id)
    <2>1. Finish(r) /\ UNCHANGED promo
      BY <1>4 DEF Save
    <2> QED BY <1>2, <1>3, <2>1, IdleOK, ReadStep
  <1>5. CASE Exists(req[r].id)
    <2> DEFINE q == [Idle EXCEPT !.at = next, !.touched = req[r].touched]
    <2>0. PICK p \in Promos, read \in Promo, mine \in Promo :
               p = req[r].id /\ read = req[r].read /\ mine = req[r].mine
      BY <1>1 DEF SaveOK, Request
    <2>1. p \notin gone /\ promo[p] \in Promo /\ promo[p].merchant \in Merchants
      BY <1>5, <2>0 DEF Inv, DocOK, TypeOK
    <2>2. promo' = [promo EXCEPT ![p] = Saved(@, read, mine)] /\ ForgetAndGoto(r, next)
      BY <1>5, <2>0 DEF Save
    <2>3. q \in Request /\ q.at = next
      BY <1>1, IdleType DEF Idle, Request, Step
    <2>4. OnlyMoved(r) /\ req'[r] = q
      BY <2>2, <2>3, MoveOn DEF ForgetAndGoto
    <2>5. RequestOK(req[r])'
      BY <2>3, <2>4 DEF RequestOK, SaveStep, ListStep
    <2> DEFINE new == Saved(promo[p], read, mine)
    <2>6. /\ promo' \in [Promos -> Promo]
          /\ promo'[p] = new
          /\ \A x \in Promos \ {p} : promo'[x] = promo[x]
      BY <2>1, <2>2, SavedPromo DEF Inv, TypeOK
    <2>7. /\ mine.type = read.type /\ mine.merchant = read.merchant /\ mine.status # "none"
          /\ read.paid => mine.paid
          /\ read.approved => mine.approved
          /\ mine.status \in {"approved", "active"} => mine.approved
          /\ mine.paid => mine.approved
          /\ promo[p].type = read.type
          /\ read.approved => promo[p].approved
          /\ read.paid => promo[p].paid
      BY <1>1, <1>5, <2>0 DEF SaveOK
    <2>8. /\ promo[p].status # "none"
          /\ promo[p].status \in {"approved", "active"} => promo[p].approved
          /\ promo[p].paid => promo[p].approved
          /\ promo[p].type = "offer" => promo[p].approved
      BY <1>5, <2>0 DEF Inv, DocOK, Exists
    <2>9. /\ read.paid \in BOOLEAN /\ read.approved \in BOOLEAN /\ mine.paid \in BOOLEAN
          /\ mine.approved \in BOOLEAN /\ promo[p].paid \in BOOLEAN
          /\ promo[p].approved \in BOOLEAN
      BY <2>1 DEF Promo
    <2>10. /\ new.status = IF mine.status = read.status THEN promo[p].status ELSE mine.status
           /\ new.type = IF mine.type = read.type THEN promo[p].type ELSE mine.type
           /\ new.merchant = IF mine.merchant = read.merchant THEN promo[p].merchant
                                                              ELSE mine.merchant
           /\ new.paid = IF mine.paid = read.paid THEN promo[p].paid ELSE mine.paid
           /\ new.approved = IF mine.approved = read.approved THEN promo[p].approved
                                                              ELSE mine.approved
      BY <2>1, SavedPromo
    <2> HIDE DEF q, new
    <2>11. /\ new.type = promo[p].type /\ new.merchant = promo[p].merchant
           /\ new.status # "none"
           /\ mine.approved => new.approved
           /\ promo[p].approved => new.approved
           /\ promo[p].paid => new.paid
      BY <2>7, <2>8, <2>9, <2>10
    <2>12. /\ new.status \in {"approved", "active"} => new.approved
           /\ new.paid => new.approved
           /\ new.type = "offer" => new.approved
      BY <2>7, <2>8, <2>10, <2>11
    <2>13. DocOK'
      BY <1>2, <2>1, <2>6, <2>11, <2>12 DEF Inv, DocOK, Exists
    <2>14. Kept
      <3> SUFFICES ASSUME NEW x \in Promos, Exists(x)
                   PROVE  IF Exists(x)' THEN /\ promo'[x].type = promo[x].type
                                             /\ promo[x].approved => promo'[x].approved
                                             /\ promo[x].paid => promo'[x].paid
                                        ELSE x \in gone'
        BY <1>2 DEF Kept
      <3>1. CASE x = p
        BY <2>6, <2>11, <3>1 DEF Exists
      <3>2. CASE x # p
        BY <2>6, <3>2 DEF Exists
      <3> QED BY <3>1, <3>2
    <2>15. Exists(p)'
      BY <2>6, <2>11 DEF Exists
    <2> QED BY <1>2, <1>3, <2>1, <2>4, <2>5, <2>6, <2>11, <2>13, <2>14, <2>15, WriteStep
  <1> QED BY <1>4, <1>5

\* A deletion, by the merchant or by the enforcement of the limit.
LEMMA DeleteRefines ==
    ASSUME Inv, NEW r \in Reqs, NEW ids \in SUBSET Promos, Deleted(ids),
           OnlyMoved(r), RequestOK(req[r])', RestOK'
    PROVE  Inv' /\ [Show!Next]_(Show!vars)
  <1>1. /\ promo' = [p \in Promos |-> IF p \in ids THEN NoPromo ELSE promo[p]]
        /\ gone' = gone \cup {p \in ids : Exists(p)}
    BY DEF Deleted
  <1>2. NoPromo \in Promo /\ NoPromo.status = "none"
    BY BoundsAssumption DEF NoPromo, Promo, Status
  <1>3. promo' \in [Promos -> Promo]
    BY <1>1, <1>2 DEF Inv, TypeOK
  <1>4. DocOK'
    <2> SUFFICES ASSUME NEW p \in Promos, DocOK
                 PROVE  IF promo'[p].status # "none"
                        THEN /\ p \notin gone'
                             /\ promo'[p].merchant \in Merchants
                             /\ promo'[p].status \in {"approved", "active"} => promo'[p].approved
                             /\ promo'[p].paid => promo'[p].approved
                             /\ promo'[p].type = "offer" => promo'[p].approved
                        ELSE promo'[p] = NoPromo
      BY DEF DocOK, Exists, Inv
    <2>1. CASE p \in ids
      BY <1>1, <1>2, <2>1
    <2>2. CASE p \notin ids
      BY <1>1, <2>2 DEF DocOK, Exists
    <2> QED BY <2>1, <2>2
  <1>5. Kept
    <2> SUFFICES ASSUME NEW x \in Promos, Exists(x)
                 PROVE  IF Exists(x)' THEN /\ promo'[x].type = promo[x].type
                                           /\ promo[x].approved => promo'[x].approved
                                           /\ promo[x].paid => promo'[x].paid
                                      ELSE x \in gone'
      BY <1>1 DEF Kept
    <2>1. CASE x \in ids
      BY <1>1, <1>2, <2>1 DEF Exists
    <2>2. CASE x \notin ids
      BY <1>1, <2>2 DEF Exists
    <2> QED BY <2>1, <2>2
  <1>6. ReqOK'
    BY <1>4, <1>5, OthersOK DEF OnlyMoved
  <1>7. gone' \subseteq Promos
    BY <1>1 DEF Inv, TypeOK
  <1>8. TypeOK'
    BY <1>3, <1>7 DEF TypeOK, RestOK, OnlyMoved
  <1>9. Show!Next
    BY DeletedRemoves DEF Inv
  <1> QED BY <1>4, <1>6, <1>8, <1>9 DEF Inv

\* Promotions that are closed, or whose dates pass, keep all but their place in the lists.
LEMMA HideRefines ==
    ASSUME Inv, NEW s \in SUBSET Promos, UNCHANGED gone, RestOK',
           req' \in [Reqs -> Request],
           \A r \in Reqs : req'[r] = req[r] \/ RequestOK(req[r])',
           promo' \in [Promos -> Promo],
           \A p \in Promos \ s : promo'[p] = promo[p],
           \A p \in s : /\ Exists(p)
                        /\ promo'[p].status \in {promo[p].status, "expired"}
                        /\ promo'[p].type = promo[p].type
                        /\ promo'[p].merchant = promo[p].merchant
                        /\ promo'[p].approved = promo[p].approved
                        /\ promo'[p].paid = promo[p].paid
                        /\ ~Shown(p)'
    PROVE  Inv' /\ [Show!Next]_(Show!vars)
  <1>1. DocOK'
    <2> SUFFICES ASSUME NEW p \in Promos, DocOK
                 PROVE  IF promo'[p].status # "none"
                        THEN /\ p \notin gone
                             /\ promo'[p].merchant \in Merchants
                             /\ promo'[p].status \in {"approved", "active"} => promo'[p].approved
                             /\ promo'[p].paid => promo'[p].approved
                             /\ promo'[p].type = "offer" => promo'[p].approved
                        ELSE promo'[p] = NoPromo
      BY DEF DocOK, Exists, Inv
    <2>1. CASE p \in s
      BY <2>1 DEF DocOK, Exists
    <2>2. CASE p \notin s
      BY <2>2 DEF DocOK, Exists
    <2> QED BY <2>1, <2>2
  <1>2. Kept
    BY DEF Kept, Exists
  <1>3. TypeOK'
    BY DEF Inv, TypeOK, RestOK
  <1>4. ReqOK'
    BY <1>1, <1>2, OthersOK
  <1>5. Show!Next
    BY HiddenHides DEF Inv
  <1> QED BY <1>1, <1>3, <1>4, <1>5 DEF Inv

LEMMA ExpireRefines ==
    ASSUME Inv, NEW r \in Reqs, ExpireUpdate(r)
    PROVE  Inv' /\ [Show!Next]_(Show!vars)
  <1> DEFINE q == [req[r] EXCEPT !.at = "expire_drop"]
  <1>1. req[r] \in Request
    BY DEF Inv, TypeOK
  <1>2. q \in Request /\ q.at = "expire_drop"
    BY <1>1 DEF Request, Step
  <1>3. req' = [req EXCEPT ![r] = q]
    BY DEF ExpireUpdate, Goto
  <1> HIDE DEF q
  <1>4. OnlyMoved(r) /\ RequestOK(req[r])'
    BY <1>2, <1>3, MoveOn DEF RequestOK, SaveStep, ListStep
  <1>5. UNCHANGED <<pays, updates, cache, gone, unchecked, outdated>>
    BY DEF ExpireUpdate
  <1>6. RestOK'
    BY <1>5 DEF RestOK, Inv, TypeOK
  <1>7. PICK s \in SUBSET Promos : s = {p \in req[r].ids : Exists(p)}
    BY <1>1 DEF Request
  <1>8. promo' = [p \in Promos |-> IF p \in s
                     THEN [promo[p] EXCEPT !.status = "expired", !.visible = FALSE]
                     ELSE promo[p]]
    BY <1>7 DEF ExpireUpdate
  <1>9. \A p \in Promos \ s : promo'[p] = promo[p]
    BY <1>8
  <1>10. \A p \in s : /\ promo[p] \in Promo
                      /\ promo'[p] = [promo[p] EXCEPT !.status = "expired", !.visible = FALSE]
    BY <1>8 DEF Inv, TypeOK
  <1>11. \A p \in s : /\ Exists(p)
                      /\ promo'[p] \in Promo
                      /\ promo'[p].status = "expired"
                      /\ promo'[p].type = promo[p].type
                      /\ promo'[p].merchant = promo[p].merchant
                      /\ promo'[p].approved = promo[p].approved
                      /\ promo'[p].paid = promo[p].paid
    <2> TAKE p \in s
    <2>1. Exists(p)
      BY <1>7
    <2>2. /\ promo[p] \in Promo
          /\ promo'[p] = [promo[p] EXCEPT !.status = "expired", !.visible = FALSE]
      BY <1>10
    <2>3. promo'[p] \in Promo /\ promo'[p].status = "expired"
      BY <2>2 DEF Promo, Status
    <2>4. /\ promo'[p].type = promo[p].type /\ promo'[p].merchant = promo[p].merchant
          /\ promo'[p].approved = promo[p].approved /\ promo'[p].paid = promo[p].paid
      BY <2>2 DEF Promo
    <2> QED BY <2>1, <2>3, <2>4
  <1>12. \A p \in s : ~Shown(p)'
    BY <1>11 DEF Shown, OnHomepage, NearbyOffers
  <1>13. promo' \in [Promos -> Promo]
    BY <1>8, <1>9, <1>11 DEF Inv, TypeOK
  <1>14. \A t \in Reqs : req'[t] = req[t] \/ RequestOK(req[t])'
    BY <1>4 DEF OnlyMoved
  <1> QED BY <1>4, <1>5, <1>6, <1>9, <1>11, <1>12, <1>13, <1>14, HideRefines DEF OnlyMoved

LEMMA DatesPassRefines ==
    ASSUME Inv, NEW p \in Promos, EndDatePasses(p)
    PROVE  Inv' /\ [Show!Next]_(Show!vars)
  <1>1. /\ Exists(p)
        /\ promo' = [promo EXCEPT ![p].over = TRUE]
        /\ UNCHANGED <<pays, updates, cache, req, gone, unchecked, outdated>>
    BY DEF EndDatePasses
  <1>2. promo[p] \in Promo /\ promo'[p] = [promo[p] EXCEPT !.over = TRUE]
    BY <1>1 DEF Inv, TypeOK
  <1>3. /\ promo'[p] \in Promo
        /\ promo'[p].over
        /\ promo'[p].status = promo[p].status
        /\ promo'[p].type = promo[p].type
        /\ promo'[p].merchant = promo[p].merchant
        /\ promo'[p].approved = promo[p].approved
        /\ promo'[p].paid = promo[p].paid
    BY <1>2 DEF Promo
  <1>4. ~Shown(p)'
    BY <1>3 DEF Shown, OnHomepage, NearbyOffers
  <1>5. \A q \in Promos \ {p} : promo'[q] = promo[q]
    BY <1>1 DEF Inv, TypeOK
  <1>6. promo' \in [Promos -> Promo]
    BY <1>1, <1>3, <1>5 DEF Inv, TypeOK
  <1>7. RestOK' /\ req' \in [Reqs -> Request]
    BY <1>1 DEF RestOK, Inv, TypeOK
  <1>8. {p} \in SUBSET Promos
    OBVIOUS
  <1> QED BY <1>1, <1>3, <1>4, <1>5, <1>6, <1>7, <1>8, HideRefines, ZenonT(60)

-----------------------------------------------------------------------------
(* The actions that leave the promotions alone *)

LEMMA BeginStep ==
    ASSUME Inv, NEW r \in Reqs, NEW q \in Request, Begin(r, q), RequestOK(q),
           UNCHANGED <<promo, gone>>, RestOK'
    PROVE  Inv' /\ [Show!Next]_(Show!vars)
  <1>1. OnlyMoved(r) /\ req'[r] = q
    BY MoveOn DEF Begin
  <1>2. RequestOK(req[r])'
    BY <1>1 DEF RequestOK, SaveOK, Exists
  <1> QED BY <1>1, <1>2, ReadStep

\* A handler that found a promotion holds a change of it that takes no approval and no
\* payment away.
LEMMA FindSaves ==
    ASSUME Inv, NEW r \in Reqs, NEW p \in Promos, Exists(p), NEW at \in SaveStep,
           NEW mine \in Promo,
           Begin(r, [Idle EXCEPT !.at = at, !.id = p, !.read = promo[p], !.mine = mine,
                                 !.touched = {promo[p].merchant}]),
           mine.type = promo[p].type, mine.merchant = promo[p].merchant,
           mine.status # "none",
           promo[p].paid => mine.paid, promo[p].approved => mine.approved,
           mine.status \in {"approved", "active"} => mine.approved,
           mine.paid => mine.approved,
           UNCHANGED <<promo, gone>>, RestOK'
    PROVE  Inv' /\ [Show!Next]_(Show!vars)
  <1> DEFINE q == [Idle EXCEPT !.at = at, !.id = p, !.read = promo[p], !.mine = mine,
                               !.touched = {promo[p].merchant}]
  <1>1. promo[p] \in Promo /\ promo[p].merchant \in Merchants
    BY DEF Inv, TypeOK, DocOK
  <1>2. /\ q \in Request
        /\ q.at = at /\ q.id = p /\ q.read = promo[p] /\ q.mine = mine
    BY <1>1, IdleType DEF Idle, Request, Step, SaveStep
  <1>3. Begin(r, q)
    OBVIOUS
  <1> HIDE DEF q
  <1>4. RequestOK(q)
    BY <1>2 DEF RequestOK, SaveOK, SaveStep, ListStep
  <1> QED BY <1>2, <1>3, <1>4, BeginStep

LEMMA ReviewFindRefines ==
    ASSUME Inv, NEW r \in Reqs, NEW p \in Promos, NEW decision \in {"approved", "rejected"},
           ReviewFind(r, p, decision)
    PROVE  Inv' /\ [Show!Next]_(Show!vars)
  <1> DEFINE mine == [promo[p] EXCEPT !.status = decision,
                                      !.visible = (decision = "approved"),
                                      !.approved = (@ \/ decision = "approved")]
  <1>1. Exists(p) /\ promo[p] \in Promo
    BY DEF ReviewFind, Exists, Inv, TypeOK
  <1>2. (promo[p].paid => promo[p].approved) /\ promo[p].approved \in BOOLEAN
    BY <1>1 DEF Inv, DocOK, Promo
  <1>3. /\ mine \in Promo /\ mine.type = promo[p].type /\ mine.merchant = promo[p].merchant
        /\ mine.status = decision /\ mine.paid = promo[p].paid
        /\ mine.approved = (promo[p].approved \/ decision = "approved")
    BY <1>1, <1>2 DEF Promo, Status
  <1>4. Begin(r, [Idle EXCEPT !.at = "review_save", !.id = p, !.read = promo[p],
                              !.mine = mine, !.touched = {promo[p].merchant}])
    BY DEF ReviewFind
  <1>5. UNCHANGED <<promo, pays, updates, cache, gone, unchecked, outdated>>
    BY DEF ReviewFind
  <1>6. RestOK'
    BY <1>5 DEF RestOK, Inv, TypeOK
  <1>7. "review_save" \in SaveStep
    BY DEF SaveStep
  <1> HIDE DEF mine
  <1> QED BY <1>1, <1>2, <1>3, <1>4, <1>5, <1>6, <1>7, FindSaves

LEMMA PayFindRefines ==
    ASSUME Inv, NEW r \in Reqs, NEW p \in Promos, PayFind(r, p)
    PROVE  Inv' /\ [Show!Next]_(Show!vars)
  <1> DEFINE mine == [promo[p] EXCEPT !.status = "active", !.paid = TRUE,
                                      !.paidAt = pays + 1, !.visible = TRUE]
  <1>1. Exists(p) /\ promo[p] \in Promo
    BY DEF PayFind, Exists, Inv, TypeOK
  <1>2. promo[p].approved
    BY <1>1 DEF PayFind, Inv, DocOK
  <1>3. pays + 1 \in 0..MaxPays
    BY BoundsAssumption DEF PayFind, Inv, TypeOK
  <1>4. /\ mine \in Promo /\ mine.type = promo[p].type /\ mine.merchant = promo[p].merchant
        /\ mine.status = "active" /\ mine.paid /\ mine.approved
    BY <1>1, <1>2, <1>3 DEF Promo, Status
  <1>5. Begin(r, [Idle EXCEPT !.at = "pay_save", !.id = p, !.read = promo[p],
                              !.mine = mine, !.touched = {promo[p].merchant}])
    BY DEF PayFind
  <1>6. pays' = pays + 1 /\ UNCHANGED <<promo, updates, cache, gone, unchecked, outdated>>
    BY DEF PayFind
  <1>7. RestOK'
    BY <1>3, <1>6 DEF RestOK, Inv, TypeOK
  <1>8. "pay_save" \in SaveStep
    BY DEF SaveStep
  <1> HIDE DEF mine
  <1> QED BY <1>1, <1>2, <1>4, <1>5, <1>6, <1>7, <1>8, FindSaves

\* New dates and actions go live only what was paid for, or is an offer.
LEMMA UpdateFindRefines ==
    ASSUME Inv, NEW r \in Reqs, NEW p \in Promos,
           NEW dates \in {"keep", "future", "past"}, NEW action \in {"none", "pause", "resume"},
           UpdateFind(r, p, dates, action)
    PROVE  Inv' /\ [Show!Next]_(Show!vars)
  <1> DEFINE moved == Redated(promo[p], dates)
             mine == Acted(moved, action)
  <1>1. Exists(p) /\ promo[p] \in Promo
    BY DEF UpdateFind, Inv, TypeOK
  <1>2. /\ promo[p].status \in {"approved", "active"} => promo[p].approved
        /\ promo[p].paid => promo[p].approved
        /\ promo[p].type = "offer" => promo[p].approved
        /\ promo[p].status # "none"
        /\ action = "resume" => promo[p].paid
    BY <1>1 DEF UpdateFind, Inv, DocOK, Exists
  <1>3. /\ moved \in Promo /\ moved.type = promo[p].type /\ moved.merchant = promo[p].merchant
        /\ moved.paid = promo[p].paid /\ moved.approved = promo[p].approved
        /\ moved.status = promo[p].status \/ (moved.status = "active" /\ promo[p].type = "offer")
    <2>1. CASE dates = "keep"
      BY <1>1, <2>1 DEF Redated
    <2>2. CASE dates # "keep" /\ promo[p].type = "offer" /\ promo[p].status # "expired"
      BY <1>1, <2>2 DEF Redated, Promo, Status
    <2>3. CASE dates # "keep" /\ ~(promo[p].type = "offer" /\ promo[p].status # "expired")
      BY <1>1, <2>3 DEF Redated, Promo, Status
    <2> QED BY <2>1, <2>2, <2>3
  <1> HIDE DEF moved
  <1>4. /\ mine \in Promo /\ mine.type = moved.type /\ mine.merchant = moved.merchant
        /\ mine.paid = moved.paid /\ mine.approved = moved.approved
        /\ \/ mine.status = moved.status
           \/ moved.status = "active" /\ mine.status = "approved"
           \/ action = "resume" /\ mine.status = "active"
    <2>1. CASE action = "pause" /\ moved.status = "active"
      BY <1>3, <2>1 DEF Acted, Promo, Status
    <2>2. CASE action = "pause" /\ moved.status # "active"
      BY <1>3, <2>2 DEF Acted, Promo, Status
    <2>3. CASE action = "resume"
      BY <1>3, <2>3 DEF Acted, Promo, Status
    <2>4. CASE action = "none"
      BY <1>3, <2>4 DEF Acted
    <2> QED BY <2>1, <2>2, <2>3, <2>4
  <1>5. Begin(r, [Idle EXCEPT !.at = "update_save", !.id = p, !.read = promo[p],
                              !.mine = mine, !.touched = {promo[p].merchant}])
    BY DEF UpdateFind, moved
  <1> HIDE DEF mine
  <1>6. /\ mine.status # "none"
        /\ mine.status \in {"approved", "active"} => mine.approved
        /\ mine.paid => mine.approved
        /\ mine.type = promo[p].type /\ mine.merchant = promo[p].merchant
        /\ promo[p].paid => mine.paid
        /\ promo[p].approved => mine.approved
    BY <1>2, <1>3, <1>4
  <1>7. /\ updates' = updates + 1 /\ updates + 1 \in 0..MaxUpdates
        /\ UNCHANGED <<promo, pays, cache, gone, unchecked, outdated>>
    BY BoundsAssumption DEF UpdateFind, Inv, TypeOK
  <1>8. RestOK'
    BY <1>7 DEF RestOK, Inv, TypeOK
  <1>9. "update_save" \in SaveStep
    BY DEF SaveStep
  <1> QED BY <1>1, <1>4, <1>5, <1>6, <1>7, <1>8, <1>9, FindSaves

LEMMA DeleteFindRefines ==
    ASSUME Inv, NEW r \in Reqs, NEW p \in Promos, DeleteFind(r, p)
    PROVE  Inv' /\ [Show!Next]_(Show!vars)
  <1> DEFINE q == [Idle EXCEPT !.at = "delete", !.id = p, !.touched = {promo[p].merchant}]
  <1>1. promo[p].merchant \in Merchants
    BY DEF DeleteFind, Inv, DocOK
  <1>2. q \in Request /\ q.at = "delete" /\ q.id = p
    BY <1>1, IdleType DEF Idle, Request, Step
  <1>3. Begin(r, q) /\ UNCHANGED <<promo, pays, updates, cache, gone, unchecked, outdated>>
    BY DEF DeleteFind
  <1>4. RestOK'
    BY <1>3 DEF RestOK, Inv, TypeOK
  <1> HIDE DEF q
  <1>5. RequestOK(q)
    BY <1>2 DEF RequestOK, SaveStep, ListStep
  <1> QED BY <1>2, <1>3, <1>4, <1>5, BeginStep

\* A list that is asked for, or the offers nearby: key is None for those.
LEMMA ListRefines ==
    ASSUME Inv, NEW r \in Reqs, ListNearby(r) \/ \E k \in Listed : List(r, k)
    PROVE  Inv' /\ [Show!Next]_(Show!vars)
  <1> DEFINE merchants == {promo[p].merchant : p \in Expired}
  <1>1. Expired \in SUBSET Promos /\ merchants \in SUBSET Merchants
    BY DEF Expired, Inv, DocOK, Exists
  <1>2. UNCHANGED <<promo, pays, updates, cache, gone, unchecked, outdated>>
    BY DEF List, ListNearby
  <1>3. RestOK'
    BY <1>2 DEF RestOK, Inv, TypeOK
  <1>4. ASSUME ListNearby(r) PROVE Inv' /\ [Show!Next]_(Show!vars)
    <2> DEFINE q == [Idle EXCEPT !.ids = Expired, !.at = "expire_update",
                                 !.touched = merchants]
    <2>1. Begin(r, q)
      BY <1>4 DEF ListNearby
    <2> HIDE DEF merchants
    <2>2. q \in Request /\ q.at = "expire_update"
      BY <1>1, IdleType DEF Idle, Request, Step
    <2> HIDE DEF q
    <2>3. RequestOK(q)
      BY <2>2 DEF RequestOK, SaveStep, ListStep
    <2> QED BY <1>2, <1>3, <2>1, <2>2, <2>3, BeginStep
  <1>5. ASSUME NEW k \in Listed, List(r, k) PROVE Inv' /\ [Show!Next]_(Show!vars)
    <2> DEFINE q == [Idle EXCEPT !.key = k, !.ids = Expired, !.touched = merchants,
                         !.at = IF Expired # {} THEN "expire_update" ELSE "cache_get"]
    <2>1. Begin(r, q)
      BY <1>5 DEF List
    <2> HIDE DEF merchants
    <2>2. k \in Keys
      BY ListedAssumption DEF Keys
    <2>3. q \in Request /\ q.at \in {"expire_update", "cache_get"} /\ q.key = k
      BY <1>1, <2>2, IdleType DEF Idle, Request, Step
    <2> HIDE DEF q
    <2>4. RequestOK(q)
      BY <2>2, <2>3 DEF RequestOK, SaveStep, ListStep
    <2> QED BY <1>2, <1>3, <2>1, <2>3, <2>4, BeginStep
  <1> QED BY <1>4, <1>5

\* A handler that goes on, or ends, after a look at the promotions or the lists.
LEMMA HandlerReadRefines ==
    ASSUME Inv, NEW r \in Reqs,
           EnforceFind(r) \/ Invalidate(r) \/ ExpireDrop(r) \/ CacheGet(r) \/ Fetch(r) \/ Store(r)
    PROVE  Inv' /\ [Show!Next]_(Show!vars)
  <1>1. req[r] \in Request /\ RequestOK(req[r])
    BY DEF Inv, TypeOK, ReqOK
  <1>2. UNCHANGED <<promo, gone>>
    BY DEF EnforceFind, Invalidate, ExpireDrop, CacheGet, Fetch, Store
  <1>3. RestOK'
    <2>1. CASE EnforceFind(r)
      BY <2>1 DEF EnforceFind, RestOK, Inv, TypeOK
    <2>2. CASE Invalidate(r) \/ ExpireDrop(r)
      BY <2>2 DEF Invalidate, ExpireDrop, DropKeys, RestOK, Inv, TypeOK
    <2>3. CASE CacheGet(r) \/ Fetch(r)
      BY <2>3 DEF CacheGet, Fetch, RestOK, Inv, TypeOK
    <2>4. CASE Store(r)
      <3>1. req[r].key \in Keys /\ req[r].rows \in Rows
        BY <1>1, <2>4 DEF Store, RequestOK, ListStep
      <3> QED BY <2>4, <3>1 DEF Store, RestOK, Inv, TypeOK
    <2> QED BY <2>1, <2>2, <2>3, <2>4
  <1>4. CASE Finish(r)
    BY <1>2, <1>3, <1>4, IdleOK, ReadStep
  <1>5. ASSUME NEW q \in Request, req' = [req EXCEPT ![r] = q], RequestOK(q)
        PROVE  Inv' /\ [Show!Next]_(Show!vars)
    <2>1. OnlyMoved(r) /\ req'[r] = q
      BY <1>5, MoveOn
    <2>2. RequestOK(req[r])'
      BY <1>2, <1>5, <2>1 DEF RequestOK, SaveOK, Exists
    <2> QED BY <1>2, <1>3, <2>1, <2>2, ReadStep
  <1>6. CASE EnforceFind(r)
    <2> PICK excess \in SUBSET Promos :
              excess = {p \in Live : Cardinality({q \in Live : PaidBefore(p, q)}) >= Limit}
      BY DEF Live
    <2> DEFINE q == [req[r] EXCEPT !.ids = excess,
                         !.at = IF excess = {} THEN "invalidate" ELSE "enforce_delete"]
    <2>1. req' = [req EXCEPT ![r] = q]
      BY <1>6 DEF EnforceFind, Inv, TypeOK
    <2>2. q \in Request /\ q.at \in {"invalidate", "enforce_delete"}
      BY <1>1 DEF Request, Step
    <2> HIDE DEF q
    <2>3. RequestOK(q)
      BY <2>2 DEF RequestOK, SaveStep, ListStep
    <2> QED BY <1>5, <2>1, <2>2, <2>3
  <1>7. CASE ExpireDrop(r) /\ req[r].key # None
    <2> DEFINE q == [req[r] EXCEPT !.at = "cache_get", !.ids = {}, !.touched = {}]
    <2>1. req' = [req EXCEPT ![r] = q]
      BY <1>7 DEF ExpireDrop, Inv, TypeOK
    <2>2. q \in Request /\ q.at = "cache_get" /\ q.key \in Keys
      BY <1>1, <1>7 DEF Request, Step
    <2> HIDE DEF q
    <2>3. RequestOK(q)
      BY <2>2 DEF RequestOK, SaveStep, ListStep
    <2> QED BY <1>5, <2>1, <2>2, <2>3
  <1>8. CASE CacheGet(r) /\ cache[req[r].key] = None
    <2> DEFINE q == [req[r] EXCEPT !.at = "fetch"]
    <2>1. req' = [req EXCEPT ![r] = q]
      BY <1>8 DEF CacheGet, Goto
    <2>2. q \in Request /\ q.at = "fetch" /\ q.key = req[r].key
      BY <1>1 DEF Request, Step
    <2>3. req[r].key \in Keys
      BY <1>1, <1>8 DEF CacheGet, RequestOK, ListStep
    <2> HIDE DEF q
    <2>4. RequestOK(q)
      BY <2>2, <2>3 DEF RequestOK, SaveStep, ListStep
    <2> QED BY <1>5, <2>1, <2>2, <2>4
  <1>9. CASE Fetch(r)
    <2>1. PICK rows \in Rows : rows = ListRows(req[r].key)
      BY DEF ListRows, RowsOf, Rows, Inv, TypeOK, Promo, Status
    <2> DEFINE q == [req[r] EXCEPT !.at = "store", !.rows = rows]
    <2>2. req' = [req EXCEPT ![r] = q]
      BY <1>9, <2>1 DEF Fetch, Inv, TypeOK
    <2>3. q \in Request /\ q.at = "store" /\ q.key = req[r].key /\ q.rows = rows
      BY <1>1 DEF Request, Step
    <2>4. req[r].key \in Keys
      BY <1>1, <1>9 DEF Fetch, RequestOK, ListStep
    <2> HIDE DEF q
    <2>5. RequestOK(q)
      BY <2>3, <2>4 DEF RequestOK, SaveStep, ListStep
    <2> QED BY <1>5, <2>2, <2>3, <2>5
  <1> QED BY <1>4, <1>6, <1>7, <1>8, <1>9 DEF Invalidate, ExpireDrop, CacheGet, Store

LEMMA HandlerDeleteRefines ==
    ASSUME Inv, NEW r \in Reqs, EnforceDelete(r) \/ DeleteOne(r)
    PROVE  Inv' /\ [Show!Next]_(Show!vars)
  <1>1. req[r] \in Request /\ RequestOK(req[r])
    BY DEF Inv, TypeOK, ReqOK
  <1>2. CASE EnforceDelete(r)
    <2> DEFINE q == [req[r] EXCEPT !.at = "invalidate", !.ids = {}]
    <2>1. req' = [req EXCEPT ![r] = q]
      BY <1>2 DEF EnforceDelete, Inv, TypeOK
    <2>2. q \in Request /\ q.at = "invalidate"
      BY <1>1 DEF Request, Step
    <2> HIDE DEF q
    <2>3. OnlyMoved(r) /\ RequestOK(req[r])'
      BY <2>1, <2>2, MoveOn DEF RequestOK, SaveStep, ListStep
    <2>4. PICK ids \in SUBSET Promos : ids = req[r].ids
      BY <1>1 DEF Request
    <2>5. {promo[p].merchant : p \in {i \in req[r].ids : Exists(i)}} \subseteq Keys
      BY <2>4 DEF Inv, DocOK, Keys
    <2>6. RestOK'
      BY <1>2, <2>5 DEF EnforceDelete, RestOK, Inv, TypeOK
    <2>7. Deleted(ids)
      BY <1>2, <2>4 DEF EnforceDelete, Deleted
    <2> QED BY <2>3, <2>6, <2>7, DeleteRefines
  <1>3. CASE DeleteOne(r)
    <2> DEFINE q == [Idle EXCEPT !.at = "invalidate", !.touched = req[r].touched]
    <2>1. req' = [req EXCEPT ![r] = q]
      BY <1>3 DEF DeleteOne, ForgetAndGoto
    <2>2. q \in Request /\ q.at = "invalidate"
      BY <1>1, IdleType DEF Idle, Request, Step
    <2> HIDE DEF q
    <2>3. OnlyMoved(r) /\ RequestOK(req[r])'
      BY <2>1, <2>2, MoveOn DEF RequestOK, SaveStep, ListStep
    <2>4. PICK ids \in SUBSET Promos : ids = {req[r].id}
      BY <1>1, <1>3 DEF DeleteOne, RequestOK
    <2>5. RestOK'
      BY <1>3 DEF DeleteOne, RestOK, Inv, TypeOK
    <2>6. Deleted(ids)
      BY <1>3, <2>4 DEF DeleteOne, Deleted
    <2> QED BY <2>3, <2>5, <2>6, DeleteRefines
  <1> QED BY <1>2, <1>3

LEMMA TimeToLiveRefines ==
    ASSUME Inv, NEW k \in Keys, TimeToLive(k)
    PROVE  Inv' /\ [Show!Next]_(Show!vars)
  <1>1. UNCHANGED <<promo, gone, req>>
    BY DEF TimeToLive
  <1>2. TypeOK'
    BY DEF TimeToLive, Inv, TypeOK
  <1>3. DocOK' /\ ReqOK'
    BY <1>1 DEF Inv, DocOK, ReqOK, RequestOK, SaveOK, Exists
  <1> QED BY <1>1, <1>2, <1>3, Stutter DEF Inv

-----------------------------------------------------------------------------
LEMMA InitRefines == Init => Inv /\ Show!Init
  <1> SUFFICES ASSUME Init PROVE Inv /\ Show!Init
    OBVIOUS
  <1>1. NoPromo \in Promo /\ NoPromo.status = "none" /\ NoPromo.type = "banner"
        /\ ~NoPromo.approved /\ ~NoPromo.paid
    BY BoundsAssumption DEF NoPromo, Promo, Status
  <1>2. TypeOK
    BY <1>1, IdleType, BoundsAssumption DEF Init, TypeOK
  <1>3. DocOK
    BY <1>1 DEF Init, DocOK, Exists
  <1>4. ReqOK
    BY DEF Init, ReqOK, RequestOK, Idle, SaveStep, ListStep
  <1>5. Show!Init
    BY <1>1 DEF Init, Show!Init, OnHomepage, NearbyOffers
  <1> QED BY <1>2, <1>3, <1>4, <1>5 DEF Inv

LEMMA StepRefines ==
    ASSUME Inv, [Next]_vars
    PROVE  Inv' /\ [Show!Next]_(Show!vars)
  <1>1. CASE UNCHANGED vars
    <2>1. Inv'
      BY <1>1 DEF vars, Inv, TypeOK, DocOK, ReqOK, RequestOK, SaveOK, Exists
    <2> QED BY <1>1, <2>1, Stutter DEF vars
  <1>2. ASSUME NEW r \in Reqs, Asked(r) PROVE Inv' /\ [Show!Next]_(Show!vars)
    BY <1>2, SubmitRefines, ReviewFindRefines, PayFindRefines, UpdateFindRefines,
       DeleteFindRefines, ListRefines DEF Asked
  <1>3. ASSUME NEW r \in Reqs, HandlerStep(r) PROVE Inv' /\ [Show!Next]_(Show!vars)
    <2>1. CASE ReviewSave(r) \/ PaySave(r) \/ UpdateSave(r)
      <3>1. unchecked' \subseteq Promos
        <4>1. CASE ReviewSave(r) \/ PaySave(r)
          BY <4>1 DEF ReviewSave, PaySave, Inv, TypeOK
        <4>2. CASE UpdateSave(r)
          <5>1. req[r].id \in Promos
            BY <4>2 DEF UpdateSave, Save, Inv, ReqOK, RequestOK, SaveOK, SaveStep
          <5> QED BY <4>2, <5>1 DEF UpdateSave, Inv, TypeOK
        <4> QED BY <2>1, <4>1, <4>2
      <3> QED BY <2>1, <3>1, SaveRefines DEF ReviewSave, PaySave, UpdateSave, SaveStep
    <2> QED BY <1>3, <2>1, HandlerReadRefines, HandlerDeleteRefines, ExpireRefines DEF HandlerStep
  <1>4. CASE \E r \in Reqs : (Free(r) /\ Asked(r)) \/ HandlerStep(r)
    BY <1>2, <1>3, <1>4
  <1>5. CASE \E k \in Keys : TimeToLive(k)
    BY <1>5, TimeToLiveRefines
  <1>6. CASE \E p \in Promos : EndDatePasses(p)
    BY <1>6, DatesPassRefines
  <1> QED BY <1>1, <1>4, <1>5, <1>6 DEF Next

\* The strengthened invariant holds in every state.
THEOREM Invariance == Spec => []Inv
  <1>1. Inv /\ [Next]_vars => Inv'
    BY StepRefines
  <1>2. Init => Inv
    BY InitRefines
  <1> QED BY <1>1, <1>2, PTL DEF Spec

\* Every variable stays within its type.
THEOREM BannersTypeOK == Spec => []TypeOK
  BY Invariance, PTL DEF Inv

\* The promotions implement Showcase: nothing is shown before it was approved, nothing
\* paid is forgotten and nothing deleted comes back, whatever reviews, payments,
\* changes, deletions and expiries overlap (src/src/banners/banners.service.ts).
THEOREM BannersImplementShowcase == Spec => ImplementsShowcase
  <1>1. Init => Show!Init
    BY InitRefines
  <1>2. Inv /\ [Next]_vars => [Show!Next]_(Show!vars)
    BY StepRefines
  <1> QED BY <1>1, <1>2, Invariance, PTL DEF Spec, ImplementsShowcase, Show!Spec

-----------------------------------------------------------------------------
(* The limit of live promotions *)

\* The live promotions the limit is about, but those a handler is going to delete.
Doomed == UNION {req[r].ids : r \in {s \in Reqs : req[s].at = "enforce_delete"}}
Counted == (Live \ unchecked) \ Doomed

ReviewOK(q) ==
    q.at = "review_save" => /\ q.read.status = "under_review"
                            /\ q.mine.status \in {"approved", "rejected"}

\* Once every payment has looked for the excess, what is left is within the limit.
LimitInv ==
    /\ \A r \in Reqs : ReviewOK(req[r])
    /\ (\A r \in Reqs : req[r].at # "enforce_find") => Cardinality(Counted) <= Limit

LEMMA LeastExists ==
    ASSUME NEW S \in SUBSET Nat, S # {}
    PROVE  \E x \in S : \A y \in S : x <= y
  <1> DEFINE Less == OpToRel(<, Nat)
  <1>1. IsWellFoundedOn(Less, Nat)
    BY NatLessThanWellFounded
  <1>2. \A x, y \in Nat : <<y, x>> \in Less <=> y < x
    BY DEF OpToRel
  <1> HIDE DEF Less
  <1>3. PICK x \in S : \A y \in S : ~(<<y, x>> \in Less)
    BY <1>1, WFMin
  <1>4. \A y \in S : y \in Nat /\ x \in Nat /\ ~(y < x)
    BY <1>2, <1>3
  <1> QED BY <1>4

\* The order of the enforcement has a first promotion.
LEMMA FirstPaid ==
    ASSUME TypeOK, NEW K \in SUBSET Promos, K # {}
    PROVE  \E p \in K : \A q \in K \ {p} : PaidBefore(p, q)
  <1>1. \A p \in K : p \in Nat /\ promo[p].paidAt \in Nat
    BY BoundsAssumption DEF TypeOK, Promo, Promos
  <1> DEFINE times == {promo[p].paidAt : p \in K}
  <1>2. PICK t \in times : \A u \in times : t <= u
    <2>1. times \in SUBSET Nat /\ times # {}
      BY <1>1
    <2> HIDE DEF times
    <2> QED BY <2>1, LeastExists
  <1> DEFINE earliest == {p \in K : promo[p].paidAt = t}
  <1>3. PICK p \in earliest : \A q \in earliest : p <= q
    <2>1. earliest \in SUBSET Nat /\ earliest # {}
      BY <1>1, <1>2
    <2> HIDE DEF earliest
    <2> QED BY <2>1, LeastExists
  <1>4. ASSUME NEW q \in K \ {p} PROVE PaidBefore(p, q)
    <2>1. t <= promo[q].paidAt /\ promo[p].paidAt = t /\ p \in K
      BY <1>2, <1>3
    <2>2. promo[q].paidAt = t => p <= q
      BY <1>3
    <2> QED BY <1>1, <2>1, <2>2 DEF PaidBefore
  <1> QED BY <1>3, <1>4

\* Those with fewer than Limit live promotions after them are at most Limit.
LEMMA KeptWithinLimit ==
    ASSUME TypeOK
    PROVE  Cardinality({p \in Live : ~(Cardinality({q \in Live : PaidBefore(p, q)}) >= Limit)}) <= Limit
  <1> DEFINE After(p) == {q \in Live : PaidBefore(p, q)}
             K == {p \in Live : ~(Cardinality(After(p)) >= Limit)}
  <1>1. Limit \in Nat
    BY LimitAssumption
  <1>2. IsFiniteSet(Live)
    <2>1. IsFiniteSet(Promos)
      BY BoundsAssumption, FS_Interval DEF Promos
    <2> QED BY <2>1, FS_Subset DEF Live
  <1>3. CASE K = {}
    <2> HIDE DEF K
    <2>1. Cardinality(K) <= Limit
      BY <1>1, <1>3, FS_EmptySet
    <2> QED BY <2>1 DEF K
  <1>4. CASE K # {}
    <2>1. PICK p \in K : \A q \in K \ {p} : PaidBefore(p, q)
      <3>1. K \in SUBSET Promos
        BY DEF Live
      <3> HIDE DEF K
      <3> QED BY <1>4, <3>1, FirstPaid
    <2>2. K \ {p} \subseteq After(p)
      BY <2>1
    <2>3. IsFiniteSet(After(p)) /\ IsFiniteSet(K)
      BY <1>2, FS_Subset
    <2>4. /\ Cardinality(K \ {p}) <= Cardinality(After(p))
          /\ Cardinality(K) \in Nat /\ Cardinality(After(p)) \in Nat
          /\ Cardinality(K \ {p}) = Cardinality(K) - 1
      BY <2>1, <2>2, <2>3, FS_Subset, FS_RemoveElement, FS_CardinalityType
    <2>5. ~(Cardinality(After(p)) >= Limit)
      BY <2>1
    <2> HIDE DEF K, After
    <2> QED BY <1>1, <2>4, <2>5 DEF K, After
  <1> QED BY <1>3, <1>4

LEMMA CountedFinite == TypeOK => IsFiniteSet(Live)
  <1>1. IsFiniteSet(Promos)
    BY BoundsAssumption, FS_Interval DEF Promos
  <1> QED BY <1>1, FS_Subset DEF Live

\* A handler that does not come from the look for the excess, and whose deletions are
\* done when it moves on.
Released(r) ==
    /\ req[r].at # "enforce_find"
    /\ req[r].at = "enforce_delete" => req[r].ids \cap Live' = {}
    /\ ReviewOK(req'[r])

LEMMA LimitKept ==
    ASSUME Inv, LimitInv,
           \A s \in Reqs : req'[s] = req[s] \/ Released(s),
           Live' \ unchecked' \subseteq Live \ unchecked
    PROVE  LimitInv'
  <1>1. \A s \in Reqs : ReviewOK(req[s])'
    BY DEF LimitInv, ReviewOK, Released
  <1>2. ASSUME \A s \in Reqs : req'[s].at # "enforce_find"
        PROVE  Cardinality(Counted') <= Limit
    <2>1. \A s \in Reqs : req[s].at # "enforce_find"
      BY <1>2 DEF Released
    <2>2. Counted' \subseteq Counted
      <3> SUFFICES ASSUME NEW p \in Counted' PROVE p \notin Doomed
        BY DEF Counted
      <3> SUFFICES ASSUME NEW s \in Reqs, req[s].at = "enforce_delete", p \in req[s].ids
                   PROVE  FALSE
        BY DEF Doomed
      <3>1. p \in Live' /\ p \notin Doomed'
        BY DEF Counted
      <3>2. CASE req'[s] = req[s]
        BY <3>1, <3>2 DEF Doomed
      <3>3. CASE Released(s)
        BY <3>1, <3>3 DEF Released
      <3> QED BY <3>2, <3>3
    <2>3. IsFiniteSet(Counted)
      BY CountedFinite, FS_Subset DEF Counted, Inv
    <2>4. /\ Cardinality(Counted') <= Cardinality(Counted)
          /\ Cardinality(Counted) \in Nat /\ Cardinality(Counted') \in Nat
      BY <2>2, <2>3, FS_Subset, FS_CardinalityType
    <2>5. Cardinality(Counted) <= Limit
      BY <2>1 DEF LimitInv
    <2> QED BY <2>4, <2>5, LimitAssumption
  <1> QED BY <1>1, <1>2 DEF LimitInv

\* A handler begins: a promotion submitted live is not counted.
LEMMA AskedLimit ==
    ASSUME Inv, LimitInv, NEW r \in Reqs, Asked(r)
    PROVE  LimitInv'
  <1>1. req[r].at = "idle" /\ \A s \in Reqs \ {r} : req'[s] = req[s]
    BY ZenonT(60) DEF Asked, Submit, ReviewFind, PayFind, UpdateFind, DeleteFind, List, ListNearby, Begin,
           Inv, TypeOK
  <1>2. ReviewOK(req'[r])
    <2>1. ASSUME NEW p \in Promos, NEW decision \in {"approved", "rejected"},
                 ReviewFind(r, p, decision)
          PROVE  ReviewOK(req'[r])
      <3> DEFINE mine == [promo[p] EXCEPT !.status = decision, !.visible = (decision = "approved"),
                                          !.approved = @ \/ decision = "approved"]
      <3>1. promo[p] \in Promo /\ promo[p].status = "under_review"
        BY <2>1 DEF ReviewFind, Inv, TypeOK
      <3>2. mine.status = decision
        BY <3>1 DEF Promo
      <3>3. req'[r] = [Idle EXCEPT !.at = "review_save", !.id = p, !.read = promo[p],
                                   !.mine = mine, !.touched = {promo[p].merchant}]
        BY <2>1 DEF ReviewFind, Begin, Inv, TypeOK
      <3> HIDE DEF mine
      <3>4. req'[r].read = promo[p] /\ req'[r].mine = mine
        BY <3>3 DEF Idle
      <3> QED BY <3>1, <3>2, <3>4 DEF ReviewOK
    <2>2. CASE \E m \in Merchants, type \in {"banner", "offer"} : Submit(r, m, type)
      BY <2>2 DEF Submit, Begin, ReviewOK, Idle, Inv, TypeOK
    <2>3. ASSUME NEW p \in Promos, PayFind(r, p) \/ DeleteFind(r, p) PROVE ReviewOK(req'[r])
      BY <2>3, ZenonT(60) DEF PayFind, DeleteFind, Begin, ReviewOK, Idle, Inv, TypeOK
    <2>4. ASSUME NEW p \in Promos, NEW dates \in {"keep", "future", "past"},
                 NEW action \in {"none", "pause", "resume"}, UpdateFind(r, p, dates, action)
          PROVE  ReviewOK(req'[r])
      BY <2>4 DEF UpdateFind, Begin, ReviewOK, Idle, Inv, TypeOK
    <2>5. CASE ListNearby(r) \/ \E k \in Listed : List(r, k)
      BY <2>5, ZenonT(60) DEF List, ListNearby, Begin, ReviewOK, Idle, Inv, TypeOK
    <2> QED BY <2>1, <2>2, <2>3, <2>4, <2>5 DEF Asked
  <1>3. Live' \ unchecked' \subseteq Live \ unchecked
    <2>1. CASE UNCHANGED <<promo, unchecked>>
      BY <2>1 DEF Live
    <2>2. ASSUME NEW m \in Merchants, NEW type \in {"banner", "offer"}, Submit(r, m, type)
          PROVE  Live' \ unchecked' \subseteq Live \ unchecked
      <3>1. PICK p \in Promos :
              LET offer == type = "offer"
              IN  /\ promo' = [promo EXCEPT ![p] = [NoPromo EXCEPT
                        !.status = IF offer THEN "active" ELSE "under_review",
                        !.type = type, !.merchant = m, !.paid = offer,
                        !.visible = offer, !.approved = offer]]
                  /\ unchecked' = IF offer THEN unchecked \cup {p} ELSE unchecked
        BY <2>2 DEF Submit
      <3>2. \A q \in Promos \ {p} : promo'[q] = promo[q]
        BY <3>1 DEF Inv, TypeOK
      <3>3. type # "offer" => promo'[p].status = "under_review"
        BY <3>1 DEF Inv, TypeOK, NoPromo
      <3>4. /\ unchecked \subseteq unchecked'
            /\ type = "offer" => p \in unchecked'
        BY <3>1
      <3>5. p \notin Live' \ unchecked'
        BY <3>3, <3>4 DEF Live
      <3> QED BY <3>2, <3>4, <3>5 DEF Live
    <2> QED BY <2>1, <2>2 DEF Asked, ReviewFind, PayFind, UpdateFind, DeleteFind, List, ListNearby
  <1>4. \A s \in Reqs : req'[s] = req[s] \/ Released(s)
    BY <1>1, <1>2 DEF Released
  <1> QED BY <1>3, <1>4, LimitKept

\* A save that goes on to the enforcement, or leaves nothing new to count.
LEMMA SaveLimit ==
    ASSUME Inv, LimitInv, NEW r \in Reqs, ReviewSave(r) \/ PaySave(r) \/ UpdateSave(r)
    PROVE  LimitInv'
  <1>1. PICK at \in SaveStep, next \in {"invalidate", "enforce_find"} :
          /\ Save(r, at, next) /\ (at = "pay_save" <=> next = "enforce_find")
          /\ \/ at \in {"review_save", "pay_save"} /\ UNCHANGED unchecked
             \/ at = "update_save" /\ unchecked' = unchecked \cup {req[r].id}
    BY DEF ReviewSave, PaySave, UpdateSave, SaveStep
  <1>2. /\ req[r].at = at /\ req[r] \in Request /\ SaveOK(req[r]) /\ ReviewOK(req[r])
        /\ req[r].at \notin {"enforce_find", "enforce_delete"}
    BY <1>1 DEF Save, Inv, TypeOK, ReqOK, RequestOK, LimitInv, SaveStep
  <1>3. /\ \A s \in Reqs \ {r} : req'[s] = req[s]
        /\ req'[r].at \in {next, "idle"} /\ (Exists(req[r].id) => req'[r].at = next)
        /\ IF Exists(req[r].id)
           THEN promo' = [promo EXCEPT ![req[r].id] = Saved(@, req[r].read, req[r].mine)]
           ELSE UNCHANGED promo
    <2>1. CASE Exists(req[r].id)
      <3>1. /\ ForgetAndGoto(r, next)
            /\ promo' = [promo EXCEPT ![req[r].id] = Saved(@, req[r].read, req[r].mine)]
        BY <1>1, <2>1 DEF Save
      <3> QED BY <2>1, <3>1 DEF ForgetAndGoto, Idle, Inv, TypeOK
    <2>2. CASE ~Exists(req[r].id)
      <3>1. Finish(r) /\ UNCHANGED promo
        BY <1>1, <2>2 DEF Save
      <3> QED BY <2>2, <3>1 DEF Finish, Idle, Inv, TypeOK
    <2> QED BY <2>1, <2>2
  <1>4. ReviewOK(req'[r])
    BY <1>3 DEF ReviewOK
  <1>5. CASE at = "pay_save" /\ Exists(req[r].id)
    <2>1. req'[r].at = "enforce_find"
      BY <1>1, <1>3, <1>5
    <2>2. \A s \in Reqs : ReviewOK(req[s])'
      BY <1>3, <1>4 DEF LimitInv, ReviewOK
    <2> QED BY <2>1, <2>2 DEF LimitInv
  <1>6. CASE ~(at = "pay_save" /\ Exists(req[r].id))
    <2>1. \A s \in Reqs : req'[s] = req[s] \/ Released(s)
      BY <1>2, <1>3, <1>4 DEF Released
    <2>2. Live' \ unchecked' \subseteq Live \ unchecked
      <3>1. CASE ~Exists(req[r].id)
        BY <1>1, <1>3, <3>1 DEF Live
      <3>2. CASE Exists(req[r].id)
        <4>1. PICK p \in Promos, read \in Promo, mine \in Promo :
                p = req[r].id /\ read = req[r].read /\ mine = req[r].mine
          BY <1>2 DEF SaveOK, Request
        <4>2. \A q \in Promos \ {p} : promo'[q] = promo[q]
          BY <1>3, <3>2, <4>1 DEF Inv, TypeOK
        <4>3. CASE at = "update_save"
          BY <1>1, <4>1, <4>2, <4>3 DEF Live
        <4>4. CASE at = "review_save"
          <5>1. promo[p] \in Promo /\ promo'[p] = Saved(promo[p], read, mine)
            BY <1>3, <3>2, <4>1 DEF Inv, TypeOK
          <5>2. promo'[p].status = mine.status
            BY <1>2, <4>1, <4>4, <5>1, SavedPromo DEF ReviewOK
          <5>3. p \notin Live'
            BY <1>2, <4>1, <4>4, <5>2 DEF ReviewOK, Live
          <5> QED BY <1>1, <4>2, <4>4, <5>3 DEF Live
        <4> QED BY <1>1, <1>6, <3>2, <4>3, <4>4
      <3> QED BY <3>1, <3>2
    <2> QED BY <2>1, <2>2, LimitKept
  <1> QED BY <1>5, <1>6

\* The look for the excess: what it does not mark is within the limit.
LEMMA EnforceFindLimit ==
    ASSUME Inv, LimitInv, NEW r \in Reqs, EnforceFind(r)
    PROVE  LimitInv'
  <1> DEFINE excess == {p \in Live : Cardinality({q \in Live : PaidBefore(p, q)}) >= Limit}
             kept == {p \in Live : ~(Cardinality({q \in Live : PaidBefore(p, q)}) >= Limit)}
  <1>1. /\ req'[r].ids = excess
        /\ req'[r].at = IF excess = {} THEN "invalidate" ELSE "enforce_delete"
        /\ \A s \in Reqs \ {r} : req'[s] = req[s]
        /\ UNCHANGED promo
    <2>1. req[r] \in Request
      BY DEF Inv, TypeOK
    <2> QED BY <2>1 DEF EnforceFind, Inv, TypeOK, Request
  <1>2. \A s \in Reqs : ReviewOK(req[s])'
    BY <1>1 DEF LimitInv, ReviewOK
  <1>3. Counted' \subseteq kept
    <2>1. excess \subseteq Doomed'
      BY <1>1 DEF Doomed
    <2>2. Live' = Live
      BY <1>1 DEF Live
    <2> QED BY <2>1, <2>2 DEF Counted
  <1>4. Cardinality(kept) <= Limit /\ IsFiniteSet(kept)
    BY KeptWithinLimit, CountedFinite, FS_Subset DEF Inv
  <1> HIDE DEF kept
  <1>5. /\ Cardinality(Counted') <= Cardinality(kept)
        /\ Cardinality(kept) \in Nat /\ Cardinality(Counted') \in Nat
    BY <1>3, <1>4, FS_Subset, FS_CardinalityType
  <1>6. Cardinality(Counted') <= Limit
    BY <1>4, <1>5, LimitAssumption
  <1> QED BY <1>2, <1>6 DEF LimitInv

\* The other steps make nothing live; a deletion removes what was marked for it.
LEMMA OtherLimit ==
    ASSUME Inv, LimitInv, NEW r \in Reqs,
           \/ EnforceDelete(r) \/ DeleteOne(r) \/ Invalidate(r) \/ ExpireUpdate(r)
           \/ ExpireDrop(r) \/ CacheGet(r) \/ Fetch(r) \/ Store(r)
    PROVE  LimitInv'
  <1>1. req[r] \in Request /\ \A s \in Reqs \ {r} : req'[s] = req[s]
    BY DEF EnforceDelete, DeleteOne, Invalidate, ExpireUpdate, ExpireDrop, CacheGet, Fetch, Store,
           ForgetAndGoto, Finish, Goto, Inv, TypeOK
  <1>2. req'[r].at # "review_save"
    <2>1. CASE Finish(r) \/ DeleteOne(r)
      <3>1. CASE Finish(r)
        BY <3>1 DEF Finish, Inv, TypeOK, Idle
      <3>2. CASE DeleteOne(r)
        BY <3>2 DEF DeleteOne, ForgetAndGoto, Inv, TypeOK, Idle
      <3> QED BY <2>1, <3>1, <3>2
    <2>2. CASE EnforceDelete(r) \/ ExpireUpdate(r) \/ Fetch(r)
      BY <1>1, <2>2, ZenonT(60) DEF EnforceDelete, ExpireUpdate, Fetch, Goto, Inv, TypeOK, Request
    <2>3. CASE ExpireDrop(r) /\ ~Finish(r)
      BY <1>1, <2>3 DEF ExpireDrop, Inv, TypeOK, Request
    <2>4. CASE CacheGet(r) /\ ~Finish(r)
      BY <1>1, <2>4 DEF CacheGet, Goto, Inv, TypeOK, Request
    <2> QED BY <2>1, <2>2, <2>3, <2>4 DEF Invalidate, Store
  <1>3. req[r].at # "enforce_find"
    BY DEF EnforceDelete, DeleteOne, Invalidate, ExpireUpdate, ExpireDrop, CacheGet, Fetch, Store
  <1>4. UNCHANGED unchecked
    BY DEF EnforceDelete, DeleteOne, Invalidate, ExpireUpdate, ExpireDrop, CacheGet, Fetch, Store
  <1>5. Live' \subseteq Live
    <2>1. CASE EnforceDelete(r) \/ DeleteOne(r)
      BY <2>1 DEF EnforceDelete, DeleteOne, Deleted, Live, NoPromo
    <2>2. CASE ExpireUpdate(r)
      <3>1. ASSUME NEW p \in Live' PROVE p \in Live
        <4>1. p \in Promos /\ promo[p] \in Promo /\ promo'[p].status = "active"
          BY DEF Live, Inv, TypeOK
        <4>2. promo'[p] = promo[p]
          BY <2>2, <4>1 DEF ExpireUpdate, Promo
        <4> QED BY <4>1, <4>2 DEF Live
      <3> QED BY <3>1
    <2>3. CASE UNCHANGED promo
      BY <2>3 DEF Live
    <2> QED BY <2>1, <2>2, <2>3 DEF Invalidate, ExpireDrop, CacheGet, Fetch, Store
  <1>6. req[r].at = "enforce_delete" => req[r].ids \cap Live' = {}
    BY DEF EnforceDelete, DeleteOne, Invalidate, ExpireUpdate, ExpireDrop, CacheGet, Fetch, Store,
           Deleted, Live, NoPromo
  <1>7. \A s \in Reqs : req'[s] = req[s] \/ Released(s)
    BY <1>1, <1>2, <1>3, <1>6 DEF Released, ReviewOK
  <1> QED BY <1>4, <1>5, <1>7, LimitKept

LEMMA LimitStep == Inv /\ LimitInv /\ [Next]_vars => LimitInv'
  <1> SUFFICES ASSUME Inv, LimitInv, [Next]_vars PROVE LimitInv'
    OBVIOUS
  <1>1. CASE UNCHANGED vars
    BY <1>1, LimitKept DEF vars, Live
  <1>2. ASSUME NEW r \in Reqs, HandlerStep(r) PROVE LimitInv'
    BY <1>2, SaveLimit, EnforceFindLimit, OtherLimit DEF HandlerStep
  <1>3. CASE \E k \in Keys : TimeToLive(k)
    BY <1>3, LimitKept DEF TimeToLive, Live
  <1>4. ASSUME NEW p \in Promos, EndDatePasses(p) PROVE LimitInv'
    <2>1. UNCHANGED <<req, unchecked>>
      BY <1>4 DEF EndDatePasses
    <2>2. \A q \in Promos : /\ promo'[q].status = promo[q].status
                            /\ promo'[q].paid = promo[q].paid
                            /\ promo'[q].visible = promo[q].visible
      BY <1>4 DEF EndDatePasses, Inv, TypeOK, Promo
    <2>3. Live' = Live
      BY <2>2 DEF Live
    <2> QED BY <2>1, <2>3, LimitKept
  <1>5. CASE \E r \in Reqs : (Free(r) /\ Asked(r)) \/ HandlerStep(r)
    BY <1>2, <1>5, AskedLimit
  <1> QED BY <1>1, <1>3, <1>4, <1>5 DEF Next

LEMMA LimitInit == Init => LimitInv
  <1> SUFFICES ASSUME Init PROVE LimitInv
    OBVIOUS
  <1>1. Counted = {}
    BY DEF Init, Counted, Live, NoPromo
  <1>2. Cardinality(Counted) <= Limit
    BY <1>1, FS_EmptySet, LimitAssumption
  <1> QED BY <1>2 DEF Init, LimitInv, ReviewOK, Idle

\* However many payments, changes, deletions and expiries overlap, once no payment is
\* between its save and the end of its enforcement at most Limit promotions are live, but
\* for those put live by their merchants since (enforceActiveBannerLimit).
THEOREM LimitHolds == Spec => []LimitAtRest
  <1>1. Inv /\ LimitInv => LimitAtRest
    <2> SUFFICES ASSUME Inv, LimitInv,
                        \A r \in Reqs : req[r].at \notin {"enforce_find", "enforce_delete"}
                 PROVE  Cardinality(Live \ unchecked) <= Limit
      BY DEF LimitAtRest
    <2>1. Counted = Live \ unchecked
      BY DEF Counted, Doomed
    <2> QED BY <2>1 DEF LimitInv
  <1>2. Inv /\ LimitInv /\ [Next]_vars => LimitInv'
    BY LimitStep
  <1> QED BY <1>1, <1>2, LimitInit, Invariance, PTL DEF Spec

-----------------------------------------------------------------------------
(* The lists in Redis *)

DropStep == {"enforce_find", "enforce_delete", "invalidate", "expire_drop"}

\* The promotions a handler is about to write.
Targets(r) ==
    IF req[r].at \in SaveStep \cup {"delete"} THEN {req[r].id}
    ELSE IF req[r].at = "expire_update" THEN req[r].ids ELSE {}

\* A handler drops the lists of the merchants of what it writes, however long ago it
\* found it: a promotion keeps its merchant and does not come back.
TouchedOK(r) ==
    \A p \in Targets(r) :
        IF Exists(p) THEN promo[p].merchant \in req[r].touched ELSE p \in gone

FollowInv == (\A r \in Reqs : TouchedOK(r)) /\ CacheFollows

MerchantsKept ==
    /\ gone \subseteq gone'
    /\ \A p \in Promos : Exists(p) =>
         IF Exists(p)' THEN promo'[p].merchant = promo[p].merchant ELSE p \in gone'

LEMMA OthersTouched ==
    ASSUME Inv, Inv', MerchantsKept, NEW r \in Reqs, TouchedOK(r), req'[r] = req[r]
    PROVE  TouchedOK(r)'
  <1>1. Targets(r)' = Targets(r)
    BY DEF Targets
  <1>2. Targets(r) \subseteq Promos
    BY DEF Targets, Inv, TypeOK, Request, ReqOK, RequestOK, SaveOK
  <1> SUFFICES ASSUME NEW p \in Targets(r)
               PROVE  IF Exists(p)' THEN promo'[p].merchant \in req[r].touched ELSE p \in gone'
    BY <1>1 DEF TouchedOK
  <1>3. p \in Promos /\ (Exists(p)' => p \notin gone')
    BY <1>2 DEF Inv, DocOK
  <1> QED BY <1>3 DEF TouchedOK, MerchantsKept

\* Which handlers are going to drop a list.
LEMMA DropsAre ==
    ASSUME NEW r \in Reqs, NEW k
    PROVE  r \in WillDrop(k) <=> /\ req[r].at \in DropStep
                                 /\ k \in {"home", "admin"} \cup req[r].touched
  BY DEF WillDrop, DropStep

\* Handler r moves, and still drops what it was going to.
StillDrops(r) ==
    /\ \A s \in Reqs \ {r} : req'[s] = req[s]
    /\ req[r].at \in DropStep => req'[r].at \in DropStep /\ req[r].touched \subseteq req'[r].touched

LEMMA DropsKept ==
    ASSUME NEW r \in Reqs, StillDrops(r), NEW k, WillDrop(k) # {}
    PROVE  WillDrop(k)' # {}
  <1>1. PICK s \in Reqs : s \in WillDrop(k)
    BY DEF WillDrop
  <1>2. req[s].at \in DropStep /\ k \in {"home", "admin"} \cup req[s].touched
    BY <1>1, DropsAre
  <1>3. req'[s].at \in DropStep /\ k \in {"home", "admin"} \cup req'[s].touched
    BY <1>2 DEF StillDrops
  <1> QED BY <1>3 DEF WillDrop, DropStep

\* A list agrees with the collection as before, when what changed is of other merchants.
LEMMA ListKept ==
    ASSUME NEW k \in Keys \ {"home", "admin"}, NEW rows,
           \A p \in Promos : \/ /\ promo'[p].status = promo[p].status
                                /\ promo'[p].merchant = promo[p].merchant
                             \/ promo[p].merchant # k /\ promo'[p].merchant # k
    PROVE  Follows(k, rows)' <=> Follows(k, rows)
  <1>1. ListRows(k) = RowsOf({p \in Promos : promo[p].merchant = k})
    BY DEF ListRows
  <1>2. ListRows(k)' = RowsOf({p \in Promos : promo[p].merchant = k})'
    BY DEF ListRows
  <1>3. {p \in Promos : promo'[p].merchant = k} = {p \in Promos : promo[p].merchant = k}
    OBVIOUS
  <1>4. RowsOf({p \in Promos : promo[p].merchant = k})' = RowsOf({p \in Promos : promo[p].merchant = k})
    BY <1>3 DEF RowsOf
  <1> QED BY <1>1, <1>2, <1>4 DEF Follows

\* A handler that leaves the collection and the lists alone.
LEMMA QuietFollow ==
    ASSUME Inv, Inv', FollowInv, NEW r \in Reqs, StillDrops(r), TouchedOK(r)',
           UNCHANGED <<promo, gone, cache, outdated>>
    PROVE  FollowInv'
  <1>1. MerchantsKept
    BY DEF MerchantsKept, Exists
  <1>2. \A s \in Reqs : TouchedOK(s)'
    BY <1>1, OthersTouched DEF FollowInv, StillDrops
  <1>3. CacheFollows'
    <2> SUFFICES ASSUME NEW k \in Keys, cache[k] # None, k \notin outdated
                 PROVE  Follows(k, cache[k])' \/ WillDrop(k)' # {}
      BY DEF CacheFollows
    <2>1. Follows(k, cache[k]) \/ WillDrop(k) # {}
      BY DEF FollowInv, CacheFollows
    <2>2. Follows(k, cache[k])' <=> Follows(k, cache[k])
      BY DEF Follows, ListRows, RowsOf, HomeRows, OnHomepage, ShownBefore, PaidBefore
    <2> QED BY <2>1, <2>2, DropsKept
  <1> QED BY <1>2, <1>3 DEF FollowInv

\* A handler that wrote promotions of merchants whose lists it is going to drop, or whose
\* lists are known to be left behind.
LEMMA WriteFollow ==
    ASSUME Inv, Inv', FollowInv, NEW r \in Reqs, StillDrops(r), MerchantsKept, Targets(r)' = {},
           req'[r].at \in DropStep, UNCHANGED cache, outdated \subseteq outdated',
           \A p \in Promos :
              \/ promo'[p] = promo[p]
              \/ {promo[p].merchant, promo'[p].merchant}
                    \subseteq req'[r].touched \cup outdated' \cup {None}
    PROVE  FollowInv'
  <1>1. \A s \in Reqs : TouchedOK(s)'
    <2>1. TouchedOK(r)'
      BY DEF TouchedOK
    <2> QED BY <2>1, OthersTouched DEF FollowInv, StillDrops
  <1>2. CacheFollows'
    <2> SUFFICES ASSUME NEW k \in Keys, cache[k] # None, k \notin outdated'
                 PROVE  Follows(k, cache[k])' \/ WillDrop(k)' # {}
      BY DEF CacheFollows
    <2>1. CASE k \in {"home", "admin"} \cup req'[r].touched
      BY <2>1 DEF WillDrop, DropStep
    <2>2. CASE k \notin {"home", "admin"} \cup req'[r].touched
      <3>1. k # None
        BY <2>2, NoneAssumption DEF Keys
      <3>2. \A p \in Promos : promo'[p] = promo[p] \/ (promo[p].merchant # k /\ promo'[p].merchant # k)
        BY <2>2, <3>1
      <3>3. Follows(k, cache[k])' <=> Follows(k, cache[k])
        <4>1. \A rows : Follows(k, rows)' <=> Follows(k, rows)
          BY <2>2, <3>2, ListKept
        <4>2. Follows(k, cache[k])' <=> Follows(k, cache[k])
          BY <4>1 DEF Follows
        <4> QED BY <4>2
      <3>4. Follows(k, cache[k]) \/ WillDrop(k) # {}
        BY DEF FollowInv, CacheFollows
      <3> QED BY <3>3, <3>4, DropsKept
    <2> QED BY <2>1, <2>2
  <1> QED BY <1>1, <1>2 DEF FollowInv

\* A handler that dropped its lists, and says nothing of the others.
LEMMA DropFollow ==
    ASSUME Inv, Inv', FollowInv, NEW r \in Reqs, \A s \in Reqs \ {r} : req'[s] = req[s],
           Targets(r)' = {}, DropKeys(req[r].touched), UNCHANGED <<promo, gone>>
    PROVE  FollowInv'
  <1>1. \A s \in Reqs : TouchedOK(s)'
    <2>1. TouchedOK(r)' /\ MerchantsKept
      BY DEF TouchedOK, MerchantsKept, Exists
    <2> QED BY <2>1, OthersTouched DEF FollowInv
  <1>2. CacheFollows'
    <2> SUFFICES ASSUME NEW k \in Keys, cache'[k] # None, k \notin outdated'
                 PROVE  Follows(k, cache[k])' \/ WillDrop(k)' # {}
      BY DEF CacheFollows
    <2>1. k \notin {"home", "admin"} \cup req[r].touched /\ cache'[k] = cache[k] /\ k \notin outdated
      BY DEF DropKeys
    <2>2. Follows(k, cache[k]) \/ WillDrop(k) # {}
      BY <2>1 DEF FollowInv, CacheFollows
    <2>3. Follows(k, cache[k])' <=> Follows(k, cache[k])
      BY <2>1 DEF Follows, ListRows, RowsOf, HomeRows, OnHomepage, ShownBefore, PaidBefore
    <2>4. ASSUME WillDrop(k) # {} PROVE WillDrop(k)' # {}
      <3>1. PICK s \in Reqs : s \in WillDrop(k)
        BY <2>4 DEF WillDrop
      <3>2. s # r
        BY <2>1, <3>1, DropsAre
      <3> QED BY <3>1, <3>2 DEF WillDrop
    <2> QED BY <2>2, <2>3, <2>4
  <1> QED BY <1>1, <1>2 DEF FollowInv

-----------------------------------------------------------------------------
\* A handler begins: it found promotions whose merchants' lists it is going to drop, or
\* submits one.
LEMMA AskedFollow ==
    ASSUME Inv, Inv', FollowInv, NEW r \in Reqs, Asked(r)
    PROVE  FollowInv'
  <1>1. req[r].at = "idle" /\ \A s \in Reqs \ {r} : req'[s] = req[s]
    BY ZenonT(60) DEF Asked, Submit, ReviewFind, PayFind, UpdateFind, DeleteFind, List, ListNearby, Begin,
           Inv, TypeOK
  <1>2. StillDrops(r) /\ r \in DOMAIN req
    BY <1>1 DEF StillDrops, DropStep, Inv, TypeOK
  <1>3. ASSUME NEW m \in Merchants, NEW type \in {"banner", "offer"}, Submit(r, m, type)
        PROVE  FollowInv'
    <2>1. /\ req'[r].at = "invalidate" /\ req'[r].touched = {m}
          /\ UNCHANGED <<cache, gone, outdated>>
      BY <1>2, <1>3 DEF Submit, Begin, Idle
    <2>2. PICK p \in Promos :
            /\ ~Exists(p)
            /\ LET offer == type = "offer"
               IN  promo' = [promo EXCEPT ![p] = [NoPromo EXCEPT
                        !.status = IF offer THEN "active" ELSE "under_review",
                        !.type = type, !.merchant = m, !.paid = offer,
                        !.visible = offer, !.approved = offer]]
      BY <1>3 DEF Submit
    <2>3. \A q \in Promos \ {p} : promo'[q] = promo[q]
      BY <2>2 DEF Inv, TypeOK
    <2>4. promo'[p].merchant = m /\ promo[p].merchant = None
      BY <2>2 DEF Inv, TypeOK, DocOK, NoPromo
    <2>5. MerchantsKept
      BY <2>1, <2>2, <2>3 DEF MerchantsKept, Exists
    <2>6. Targets(r)' = {}
      BY <2>1 DEF Targets, SaveStep
    <2>7. \A q \in Promos : \/ promo'[q] = promo[q]
                            \/ {promo[q].merchant, promo'[q].merchant}
                                  \subseteq req'[r].touched \cup outdated' \cup {None}
      BY <2>1, <2>3, <2>4
    <2> QED BY <1>2, <2>1, <2>5, <2>6, <2>7, WriteFollow DEF DropStep
  <1>4. ASSUME NEW p \in Promos, Exists(p), NEW at \in SaveStep \cup {"delete"},
               req'[r].at = at, req'[r].id = p, req'[r].touched = {promo[p].merchant},
               UNCHANGED <<promo, gone, cache, outdated>>
        PROVE  FollowInv'
    <2>1. TouchedOK(r)'
      BY <1>4 DEF TouchedOK, Targets, Exists
    <2> QED BY <1>2, <1>4, <2>1, QuietFollow
  <1>5. ASSUME NEW p \in Promos, NEW decision \in {"approved", "rejected"},
               ReviewFind(r, p, decision)
        PROVE  FollowInv'
    BY <1>2, <1>4, <1>5 DEF ReviewFind, Exists, Begin, Idle, SaveStep
  <1>6. ASSUME NEW p \in Promos, PayFind(r, p) PROVE FollowInv'
    BY <1>2, <1>4, <1>6 DEF PayFind, Exists, Begin, Idle, SaveStep
  <1>7. ASSUME NEW p \in Promos, NEW dates \in {"keep", "future", "past"},
               NEW action \in {"none", "pause", "resume"}, UpdateFind(r, p, dates, action)
        PROVE  FollowInv'
    BY <1>2, <1>4, <1>7 DEF UpdateFind, Exists, Begin, Idle, SaveStep
  <1>8. ASSUME NEW p \in Promos, DeleteFind(r, p) PROVE FollowInv'
    BY <1>2, <1>4, <1>8 DEF DeleteFind, Exists, Begin, Idle, SaveStep
  <1>9. CASE ListNearby(r) \/ \E k \in Listed : List(r, k)
    <2>1. /\ UNCHANGED <<promo, gone, cache, outdated>>
          /\ req'[r].ids = Expired
          /\ req'[r].touched = {promo[p].merchant : p \in Expired}
          /\ req'[r].at \in {"expire_update", "cache_get"}
      <3>1. ASSUME NEW k \in Keys, List(r, k)
            PROVE  /\ req'[r].ids = Expired
                   /\ req'[r].touched = {promo[p].merchant : p \in Expired}
                   /\ req'[r].at \in {"expire_update", "cache_get"}
        BY <1>2, <3>1 DEF List, Begin, Idle
      <3>2. CASE ListNearby(r)
        BY <1>2, <3>2 DEF ListNearby, Begin, Idle
      <3>3. Listed \subseteq Keys
        BY ListedAssumption DEF Keys
      <3> QED BY <1>9, <3>1, <3>2, <3>3 DEF List, ListNearby
    <2>2. \A p \in Expired : Exists(p)
      BY DEF Expired, Exists
    <2>3. TouchedOK(r)'
      BY <2>1, <2>2 DEF TouchedOK, Targets, SaveStep, Exists
    <2> QED BY <1>2, <2>1, <2>3, QuietFollow
  <1> QED BY <1>3, <1>5, <1>6, <1>7, <1>8, <1>9 DEF Asked

\* save() keeps the merchant, and the handler goes on to drop the lists.
LEMMA SaveFollow ==
    ASSUME Inv, Inv', FollowInv, NEW r \in Reqs, ReviewSave(r) \/ PaySave(r) \/ UpdateSave(r)
    PROVE  FollowInv'
  <1>1. PICK at \in SaveStep, next \in {"invalidate", "enforce_find"} : Save(r, at, next)
    BY DEF ReviewSave, PaySave, UpdateSave, SaveStep
  <1>2. /\ req[r].at = at /\ req[r] \in Request /\ SaveOK(req[r]) /\ TouchedOK(r)
        /\ req[r].at \notin DropStep /\ UNCHANGED <<cache, gone, outdated>>
    BY <1>1 DEF Save, Inv, TypeOK, ReqOK, RequestOK, FollowInv, SaveStep, DropStep
  <1>3. CASE ~Exists(req[r].id)
    <2>1. Finish(r) /\ UNCHANGED promo
      BY <1>1, <1>3 DEF Save
    <2>2. StillDrops(r) /\ req'[r].at = "idle"
      BY <1>2, <2>1 DEF StillDrops, Finish, Idle, Inv, TypeOK
    <2>3. TouchedOK(r)'
      BY <2>2 DEF TouchedOK, Targets, SaveStep
    <2> QED BY <1>2, <2>1, <2>2, <2>3, QuietFollow
  <1>4. CASE Exists(req[r].id)
    <2>1. PICK p \in Promos, read \in Promo, mine \in Promo :
            p = req[r].id /\ read = req[r].read /\ mine = req[r].mine
      BY <1>2 DEF SaveOK, Request
    <2>2. ForgetAndGoto(r, next) /\ promo' = [promo EXCEPT ![p] = Saved(@, read, mine)]
      BY <1>1, <1>4, <2>1 DEF Save
    <2>3. /\ \A s \in Reqs \ {r} : req'[s] = req[s]
          /\ req'[r].at = next /\ req'[r].touched = req[r].touched
      BY <2>2 DEF ForgetAndGoto, Idle, Inv, TypeOK
    <2>4. /\ promo[p] \in Promo /\ promo'[p] = Saved(promo[p], read, mine)
          /\ \A q \in Promos \ {p} : promo'[q] = promo[q]
      BY <2>2 DEF Inv, TypeOK
    <2>5. mine.merchant = read.merchant
      BY <1>2, <2>1 DEF SaveOK
    <2>6. promo'[p].merchant = promo[p].merchant
      BY <2>4, <2>5, SavedPromo
    <2>7. promo[p].merchant \in req[r].touched
      BY <1>2, <1>4, <2>1 DEF TouchedOK, Targets
    <2>8. MerchantsKept
      <3>1. Exists(p)'
        BY <1>2, <1>4, <2>1, <2>4, SavedPromo DEF SaveOK, Exists
      <3> QED BY <1>2, <2>4, <2>6, <3>1 DEF MerchantsKept, Exists
    <2>9. /\ StillDrops(r) /\ Targets(r)' = {} /\ req'[r].at \in DropStep
          /\ outdated \subseteq outdated'
      BY <1>2, <2>3 DEF StillDrops, Targets, SaveStep, DropStep
    <2>10. \A q \in Promos : \/ promo'[q] = promo[q]
                             \/ {promo[q].merchant, promo'[q].merchant}
                                   \subseteq req'[r].touched \cup outdated' \cup {None}
      BY <2>3, <2>4, <2>6, <2>7
    <2> QED BY <1>2, <2>8, <2>9, <2>10, WriteFollow
  <1> QED BY <1>3, <1>4

\* Promotions are deleted by the enforcement, for other merchants too, or one by its
\* merchant.
LEMMA DeleteFollow ==
    ASSUME Inv, Inv', FollowInv, NEW r \in Reqs, EnforceDelete(r) \/ DeleteOne(r)
    PROVE  FollowInv'
  <1> DEFINE ids == IF req[r].at = "delete" THEN {req[r].id} ELSE req[r].ids
  <1>1. /\ Deleted(ids) /\ UNCHANGED cache /\ outdated \subseteq outdated'
        /\ req[r] \in Request /\ \A s \in Reqs \ {r} : req'[s] = req[s]
        /\ req'[r].at = "invalidate" /\ req'[r].touched = req[r].touched
    <2>1. CASE EnforceDelete(r)
      BY <2>1 DEF EnforceDelete, Inv, TypeOK, Request
    <2>2. CASE DeleteOne(r)
      BY <2>2 DEF DeleteOne, ForgetAndGoto, Idle, Inv, TypeOK, Request
    <2> QED BY <2>1, <2>2
  <1>2. \A p \in ids : p \in Promos /\ Exists(p) => promo[p].merchant \in req[r].touched \cup outdated'
    <2>1. CASE EnforceDelete(r)
      BY <2>1 DEF EnforceDelete
    <2>2. CASE DeleteOne(r)
      BY <2>2 DEF DeleteOne, FollowInv, TouchedOK, Targets
    <2> QED BY <2>1, <2>2
  <1> HIDE DEF ids
  <1>3. \A p \in Promos : IF p \in ids THEN promo'[p] = NoPromo ELSE promo'[p] = promo[p]
    BY <1>1 DEF Deleted
  <1>4. MerchantsKept
    BY <1>1, <1>3 DEF MerchantsKept, Deleted, Exists, NoPromo
  <1>5. StillDrops(r) /\ Targets(r)' = {} /\ req'[r].at \in DropStep
    BY <1>1 DEF StillDrops, Targets, SaveStep, DropStep
  <1>6. \A p \in Promos : \/ promo'[p] = promo[p]
                          \/ {promo[p].merchant, promo'[p].merchant}
                                \subseteq req'[r].touched \cup outdated' \cup {None}
    <2>1. \A p \in Promos : ~Exists(p) => promo[p].merchant = None
      BY DEF Inv, DocOK, NoPromo
    <2> QED BY <1>1, <1>2, <1>3, <2>1 DEF NoPromo
  <1> QED BY <1>1, <1>4, <1>5, <1>6, WriteFollow

LEMMA ExpireFollow ==
    ASSUME Inv, Inv', FollowInv, NEW r \in Reqs, ExpireUpdate(r)
    PROVE  FollowInv'
  <1>1. /\ req[r] \in Request /\ req[r].at = "expire_update"
        /\ \A s \in Reqs \ {r} : req'[s] = req[s]
        /\ req'[r].at = "expire_drop" /\ req'[r].touched = req[r].touched
        /\ UNCHANGED <<cache, gone, outdated>>
    BY DEF ExpireUpdate, Goto, Inv, TypeOK, Request
  <1>2. \A p \in Promos : promo'[p] = IF p \in req[r].ids /\ Exists(p)
                                     THEN [promo[p] EXCEPT !.status = "expired", !.visible = FALSE]
                                     ELSE promo[p]
    BY DEF ExpireUpdate
  <1>3. \A p \in Promos : promo'[p].merchant = promo[p].merchant /\ (Exists(p) <=> Exists(p)')
    <2> SUFFICES ASSUME NEW p \in Promos
                 PROVE  promo'[p].merchant = promo[p].merchant /\ (Exists(p) <=> Exists(p)')
      OBVIOUS
    <2>1. promo[p] \in Promo
      BY DEF Inv, TypeOK
    <2> QED BY <1>2, <2>1 DEF Exists, Promo
  <1>4. MerchantsKept
    BY <1>1, <1>3 DEF MerchantsKept
  <1>5. \A p \in req[r].ids : Exists(p) => promo[p].merchant \in req[r].touched
    BY <1>1 DEF FollowInv, TouchedOK, Targets, SaveStep
  <1>6. /\ StillDrops(r) /\ Targets(r)' = {} /\ req'[r].at \in DropStep
        /\ outdated \subseteq outdated'
    BY <1>1 DEF StillDrops, Targets, SaveStep, DropStep
  <1>7. \A p \in Promos : \/ promo'[p] = promo[p]
                          \/ {promo[p].merchant, promo'[p].merchant}
                                \subseteq req'[r].touched \cup outdated' \cup {None}
    <2> SUFFICES ASSUME NEW p \in Promos, p \in req[r].ids, Exists(p)
                 PROVE  promo[p].merchant \in req[r].touched
      BY <1>1, <1>2, <1>3, ZenonT(60)
    <2> QED BY <1>5
  <1> QED BY <1>1, <1>4, <1>6, <1>7, WriteFollow

\* The lists are dropped, or a handler reads on.
LEMMA ReadOnFollow ==
    ASSUME Inv, Inv', FollowInv, NEW r \in Reqs,
           EnforceFind(r) \/ Invalidate(r) \/ ExpireDrop(r) \/ CacheGet(r) \/ Fetch(r)
    PROVE  FollowInv'
  <1>1. /\ req[r] \in Request /\ \A s \in Reqs \ {r} : req'[s] = req[s]
        /\ UNCHANGED <<promo, gone>>
    BY DEF EnforceFind, Invalidate, ExpireDrop, CacheGet, Fetch, Goto, Finish, Inv, TypeOK
  <1>2. /\ req'[r].at \in {"enforce_delete", "invalidate", "cache_get", "fetch", "store", "idle"}
        /\ EnforceFind(r) => req'[r].at \in DropStep /\ req'[r].touched = req[r].touched
    <2>1. CASE Finish(r)
      BY <2>1 DEF Finish, EnforceFind, Idle, Inv, TypeOK, Request
    <2>2. CASE EnforceFind(r) \/ (CacheGet(r) /\ ~Finish(r)) \/ Fetch(r)
      BY <1>1, <2>2 DEF EnforceFind, CacheGet, Fetch, Goto, Inv, TypeOK, Request, DropStep
    <2>3. CASE ExpireDrop(r) /\ ~Finish(r)
      BY <1>1, <2>3 DEF EnforceFind, ExpireDrop, Inv, TypeOK, Request
    <2> QED BY <2>1, <2>2, <2>3 DEF Invalidate
  <1>3. Targets(r)' = {}
    BY <1>2 DEF Targets, SaveStep
  <1>4. CASE Invalidate(r) \/ ExpireDrop(r)
    BY <1>1, <1>3, <1>4, DropFollow DEF Invalidate, ExpireDrop
  <1>5. CASE EnforceFind(r) \/ CacheGet(r) \/ Fetch(r)
    <2>1. StillDrops(r)
      BY <1>1, <1>2, <1>5 DEF StillDrops, CacheGet, Fetch, DropStep
    <2>2. TouchedOK(r)' /\ UNCHANGED <<cache, outdated>>
      BY <1>3, <1>5 DEF TouchedOK, EnforceFind, CacheGet, Fetch
    <2> QED BY <1>1, <2>1, <2>2, QuietFollow
  <1> QED BY <1>4, <1>5

\* A list that is stored agrees with the collection, or is known not to.
LEMMA StoreFollow ==
    ASSUME Inv, Inv', FollowInv, NEW r \in Reqs, Store(r)
    PROVE  FollowInv'
  <1>1. /\ req[r].at = "store" /\ req'[r].at = "idle" /\ req[r].key \in Keys
        /\ \A s \in Reqs \ {r} : req'[s] = req[s]
        /\ UNCHANGED <<promo, gone>>
    BY DEF Store, Finish, Idle, Inv, TypeOK, ReqOK, RequestOK, ListStep
  <1>2. StillDrops(r)
    BY <1>1 DEF StillDrops, DropStep
  <1>3. \A s \in Reqs : TouchedOK(s)'
    <2>1. TouchedOK(r)' /\ MerchantsKept
      BY <1>1 DEF TouchedOK, Targets, SaveStep, MerchantsKept, Exists
    <2> QED BY <1>1, <2>1, OthersTouched DEF FollowInv
  <1>4. ASSUME NEW k \in Keys, cache'[k] # None, k \notin outdated'
        PROVE  Follows(k, cache'[k]) \/ WillDrop(k)' # {}
    <2>1. CASE k = req[r].key
      <3>1. cache'[k] = req[r].rows
        BY <2>1 DEF Store, Inv, TypeOK
      <3>2. Follows(k, req[r].rows)
        BY <1>4, <2>1 DEF Store
      <3> QED BY <3>1, <3>2
    <2>2. CASE k # req[r].key
      <3>1. cache'[k] = cache[k] /\ k \notin outdated
        BY <1>4, <2>2 DEF Store, Inv, TypeOK
      <3>2. Follows(k, cache[k]) \/ WillDrop(k) # {}
        BY <1>4, <3>1 DEF FollowInv, CacheFollows
      <3> QED BY <1>2, <3>1, <3>2, DropsKept
    <2> QED BY <2>1, <2>2
  <1>5. CacheFollows'
    <2> SUFFICES ASSUME NEW k \in Keys, cache'[k] # None, k \notin outdated'
                 PROVE  Follows(k, cache[k])' \/ WillDrop(k)' # {}
      BY DEF CacheFollows
    <2>1. Follows(k, cache[k])' <=> Follows(k, cache'[k])
      BY <1>1 DEF Follows, ListRows, RowsOf, HomeRows, OnHomepage, ShownBefore, PaidBefore
    <2> QED BY <1>4, <2>1
  <1> QED BY <1>3, <1>5 DEF FollowInv

\* A list times out.
LEMMA TimeToLiveFollow ==
    ASSUME Inv, Inv', FollowInv, NEW l \in Keys, TimeToLive(l)
    PROVE  FollowInv'
  <1>1. UNCHANGED <<promo, req, gone>>
    BY DEF TimeToLive
  <1>2. \A s \in Reqs : TouchedOK(s)'
    BY <1>1 DEF FollowInv, TouchedOK, Targets, Exists
  <1>3. CacheFollows'
    <2> SUFFICES ASSUME NEW k \in Keys, cache'[k] # None, k \notin outdated'
                 PROVE  Follows(k, cache[k])' \/ WillDrop(k)' # {}
      BY DEF CacheFollows
    <2>1. cache'[k] = cache[k] /\ k \notin outdated
      BY DEF TimeToLive, Inv, TypeOK
    <2>2. Follows(k, cache[k]) \/ WillDrop(k) # {}
      BY <2>1 DEF FollowInv, CacheFollows
    <2>3. Follows(k, cache[k])' <=> Follows(k, cache[k])
      BY <1>1, <2>1 DEF Follows, ListRows, RowsOf, HomeRows, OnHomepage, ShownBefore, PaidBefore
    <2> QED BY <1>1, <2>2, <2>3 DEF WillDrop
  <1> QED BY <1>2, <1>3 DEF FollowInv

\* The end of a promotion is not in the lists: what is over is closed before a list is
\* looked up.
LEMMA DatesFollow ==
    ASSUME Inv, Inv', FollowInv, NEW q \in Promos, EndDatePasses(q)
    PROVE  FollowInv'
  <1>1. UNCHANGED <<req, gone, cache, outdated>>
    BY DEF EndDatePasses
  <1>2. \A p \in Promos : /\ promo'[p].status = promo[p].status
                          /\ promo'[p].type = promo[p].type
                          /\ promo'[p].visible = promo[p].visible
                          /\ promo'[p].merchant = promo[p].merchant
    BY DEF EndDatePasses, Inv, TypeOK, Promo
  <1>3. \A s \in Reqs : TouchedOK(s)'
    <2>1. MerchantsKept
      BY <1>1, <1>2 DEF MerchantsKept, Exists
    <2> QED BY <1>1, <2>1, OthersTouched DEF FollowInv
  <1>4. CacheFollows'
    <2> SUFFICES ASSUME NEW k \in Keys, cache[k] # None, k \notin outdated
                 PROVE  Follows(k, cache[k])' \/ WillDrop(k) # {}
      BY <1>1 DEF CacheFollows, WillDrop
    <2>1. Follows(k, cache[k]) \/ WillDrop(k) # {}
      BY DEF FollowInv, CacheFollows
    <2>2. CASE k = "home"
      BY <1>1, <1>2, <2>1, <2>2 DEF Follows, OnHomepage
    <2>3. CASE k # "home"
      <3>1. ListRows(k)' = ListRows(k)
        BY <1>2, <2>3 DEF ListRows, RowsOf
      <3> QED BY <1>1, <2>1, <2>3, <3>1 DEF Follows
    <2> QED BY <2>2, <2>3
  <1> QED BY <1>3, <1>4 DEF FollowInv

LEMMA FollowStep == Inv /\ FollowInv /\ [Next]_vars => FollowInv'
  <1> SUFFICES ASSUME Inv, FollowInv, [Next]_vars PROVE FollowInv'
    OBVIOUS
  <1>1. Inv'
    BY StepRefines
  <1>2. CASE UNCHANGED vars
    BY <1>2 DEF vars, FollowInv, TouchedOK, Targets, Exists, CacheFollows, WillDrop, Follows,
                ListRows, RowsOf, HomeRows, OnHomepage, ShownBefore, PaidBefore
  <1>3. ASSUME NEW r \in Reqs, HandlerStep(r) PROVE FollowInv'
    BY <1>1, <1>3, SaveFollow, DeleteFollow, ExpireFollow, ReadOnFollow, StoreFollow DEF HandlerStep
  <1>4. CASE \E r \in Reqs : (Free(r) /\ Asked(r)) \/ HandlerStep(r)
    BY <1>1, <1>3, <1>4, AskedFollow
  <1>5. CASE (\E k \in Keys : TimeToLive(k)) \/ \E p \in Promos : EndDatePasses(p)
    BY <1>1, <1>5, TimeToLiveFollow, DatesFollow
  <1> QED BY <1>2, <1>4, <1>5 DEF Next

LEMMA FollowInit == Init => FollowInv
  BY DEF Init, FollowInv, TouchedOK, Targets, SaveStep, Idle, CacheFollows

\* However handlers overlap, a list in Redis that disagrees with the collection is about
\* to be dropped, unless a write overtook the read that stored it, or the enforcement
\* took a row of another merchant from it (invalidateBannerCache).
THEOREM ListsFollow == Spec => []CacheFollows
  <1>1. FollowInv => CacheFollows
    BY DEF FollowInv
  <1> QED BY <1>1, FollowInit, FollowStep, Invariance, PTL DEF Spec

=============================================================================
