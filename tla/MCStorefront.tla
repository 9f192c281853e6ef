----------------------------- MODULE MCStorefront -----------------------------
(* What customers browse, as small instances side by side: banners and offers      *)
(* (Banners), products of merchants (Catalog), advertisements (Listings), and the  *)
(* vouchers of one customer who does one thing at a time (Vouchers).  They share   *)
(* no state: a behaviour is one of a single part.                                  *)
EXTENDS Banners, TLC

CONSTANTS
    \* Catalog
    MaxProducts, Stocks, MaxFailures,
    \* Listings
    MaxAds, MaxMessages, MaxSilent, MaxAborts,
    \* Vouchers
    customer, merchant, Offers, Vouchers, VoucherReqs

VARIABLES
    part,
    product, item, list, creq, failures, cgone, coutdated, overlapped,
    ad, page, topic, sent, lreq, silent, aborts, clashed, loutdated,
    voucher, order, stars, late, vreq, told, redeems, vaborts

catalogVars == <<product, item, list, creq, failures, cgone, coutdated, overlapped>>
listingVars == <<ad, page, topic, sent, lreq, silent, aborts, clashed, loutdated>>
voucherVars == <<voucher, order, stars, late, vreq, told, redeems, vaborts>>
storefrontVars == <<part, vars, catalogVars, listingVars, voucherVars>>

C == INSTANCE Catalog WITH req <- creq, gone <- cgone, outdated <- coutdated

L == INSTANCE Listings WITH req <- lreq, outdated <- loutdated

\* Vouchers with what is proved about it, which StorefrontProofs cites.
V == INSTANCE VouchersProofs WITH
    People <- {customer, merchant}, Owner <- [o \in Offers |-> merchant], Codes <- {},
    Reqs <- VoucherReqs, Sent <- {}, MaxStars <- 0, MaxAborts <- 0,
    req <- vreq, aborts <- vaborts

ASSUME CatalogAssumptions == C!Assumptions
ASSUME ListingsAssumptions == L!Assumptions

\* One customer does one thing at a time.
ASSUME VouchersAssumptions ==
    /\ \A r, s \in VoucherReqs : r = s
    /\ None \notin {customer, merchant} \cup Offers \cup Vouchers

\* Variables of a part that is not the one of the behaviour.
CatalogUnused ==
    /\ product = None /\ item = None /\ list = None /\ creq = None /\ failures = None
    /\ cgone = None /\ coutdated = None /\ overlapped = None

ListingsUnused ==
    /\ ad = None /\ page = None /\ topic = None /\ sent = None /\ lreq = None
    /\ silent = None /\ aborts = None /\ clashed = None /\ loutdated = None

VouchersUnused ==
    /\ voucher = None /\ order = None /\ stars = None /\ late = None /\ vreq = None
    /\ told = None /\ redeems = None /\ vaborts = None

StorefrontInit ==
    /\ part \in {"banners", "catalog", "listings", "vouchers"}
    /\ Init
    /\ IF part = "catalog" THEN C!Init ELSE CatalogUnused
    /\ IF part = "listings" THEN L!Init ELSE ListingsUnused
    /\ IF part = "vouchers" THEN V!Init ELSE VouchersUnused

BannersStep ==
    /\ part = "banners"
    /\ Next
    /\ UNCHANGED <<part, catalogVars, listingVars, voucherVars>>

CatalogStep ==
    /\ part = "catalog"
    /\ C!Next
    /\ UNCHANGED <<part, vars, listingVars, voucherVars>>

ListingsStep ==
    /\ part = "listings"
    /\ L!Next
    /\ UNCHANGED <<part, vars, catalogVars, voucherVars>>

VouchersStep ==
    /\ part = "vouchers"
    /\ V!Next
    /\ UNCHANGED <<part, vars, catalogVars, listingVars>>

StorefrontNext ==
    BannersStep \/ CatalogStep \/ ListingsStep \/ VouchersStep

StorefrontSpec == StorefrontInit /\ [][StorefrontNext]_storefrontVars

Symmetry == Permutations(Reqs)

-----------------------------------------------------------------------------
\* Every variable of the parts stays within its type.
StorefrontTypeOK ==
    /\ part = "banners" => TypeOK
    /\ part = "catalog" => C!TypeOK
    /\ part = "listings" => L!TypeOK
    /\ part = "vouchers" => V!TypeOK

\* What Redis holds of banners, products and advertisements follows the database, but
\* for the races and failures each part names.
CachesFollow ==
    /\ part = "banners" => CacheFollows
    /\ part = "catalog" => C!CacheFollows
    /\ part = "listings" => L!CacheFollows

\* The status of a product follows its stock (Catalog).
StatusFollowsStock == part = "catalog" => C!StatusFollowsStock

\* An advertisement is edited once (Listings).
EditedOnce == part = "listings" => L!EditedOnce

\* Of one customer who does one thing at a time, vouchers and orders agree (Vouchers).
InTurn == part = "vouchers" => V!InTurn
=============================================================================
