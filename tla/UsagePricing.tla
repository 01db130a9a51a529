---------------------------- MODULE UsagePricing -----------------------------
(***************************************************************************)
(* What an AI call is estimated to cost (internal/ai/costing.go and the     *)
(* rate handlers of internal/app/ai_cost_handlers.go): every metric of a    *)
(* usage ledger is charged once, at the rate in force when it was used, and *)
(* usage without a rate is priced again when rates are entered.             *)
(*                                                                         *)
(* Pricing is a transaction of two steps, for it reads the charges and the  *)
(* rates without locks: BeginPricing opens the read view and CommitPricing  *)
(* writes, unless the unique index over ledger and metric refuses a charge. *)
(***************************************************************************)
EXTENDS Integers, Sequences, FiniteSets, FiniteSetsExt, SequencesExt, Money

CONSTANTS
    Ledgers,            \* usage ledgers, each of one provider call
    Metrics,            \* what is counted: input text, output image, ...
    Quantity(_, _),     \* of a metric in a ledger, 0 when it was not used
    TierOf(_),          \* the service tier of a ledger's call
    UsedAt(_),          \* when its call was made
    UnitSize,           \* the quantity that a rate is for
    RateVersions,       \* the versions that users enter: sets of rates
    Authors, Pricers,   \* requests that enter rates, and that reprice
    MaxRates            \* bound: rate versions

(* Quantities count tokens; a rate that is negative is refused.              *)
ASSUME PricingAssumption ==
    /\ IsFiniteSet(Metrics) /\ UnitSize \in Nat \ {0} /\ MaxRates \in Nat
    /\ \A l \in Ledgers, m \in Metrics : Quantity(l, m) \in Nat
    /\ \A entries \in RateVersions : \A e \in entries : e.rate \in Nat

VARIABLES
    rates,              \* the rate cards, each with its version
    entering,           \* entering[a] : the newest version that author a read
    charges,            \* charges[l] : the frozen charges of ledger l
    ledger,             \* ledger[l] : pricing status and estimate, once captured
    pricing             \* pricing[p] : the ledgers left to p, and its open transaction

pricingVars == <<rates, entering, charges, ledger, pricing>>

Absent == [status |-> "absent", estimate |-> 0]
NoPricing == [stage |-> "idle", todo |-> {}]
LatestVersion(cards) == Max({0} \cup {r.version : r \in cards})
UsedMetrics(l) == {m \in Metrics : Quantity(l, m) > 0}
Charged(cs) == {c.metric : c \in cs}

-----------------------------------------------------------------------------
(* Rates *)

(* The maximum is read without a lock, so two authors may share a version    *)
(* as long as they rate different metrics.                                   *)
ReadVersion(a) ==
    /\ entering[a] = -1
    /\ entering' = [entering EXCEPT ![a] = LatestVersion(rates)]
    /\ UNCHANGED <<rates, charges, ledger, pricing>>

CreateRateVersion(a, entries) ==
    LET version == entering[a] + 1
        key(r) == <<r.version, r.tier, r.metric>>
        cards == {[version |-> version, tier |-> e.tier, metric |-> e.metric,
                   rate |-> e.rate, at |-> e.at] : e \in entries}
    IN  /\ entering[a] >= 0 /\ LatestVersion(rates) < MaxRates
        /\ rates' = IF {key(r) : r \in cards} \cap {key(r) : r \in rates} = {}
                    THEN rates \cup cards ELSE rates
        /\ entering' = [entering EXCEPT ![a] = -1]
        /\ UNCHANGED <<charges, ledger, pricing>>

(* The last to come into force before the use, of its tier or by default.    *)
RateFor(l, m, cards) ==
    LET inForce(tier) == {r \in cards : r.metric = m /\ r.tier = tier /\ r.at <= UsedAt(l)}
        found == IF inForce(TierOf(l)) # {} THEN inForce(TierOf(l)) ELSE inForce("default")
        later(r, s) == r.at > s.at \/ (r.at = s.at /\ r.version >= s.version)
    IN  {r \in found : \A s \in found : later(r, s)}

-----------------------------------------------------------------------------
(* Pricing *)

Charge(l, m, card) ==
    [metric |-> m, amount |-> Rounded(Quantity(l, m) * card.rate, UnitSize), card |-> card]

(* What has no charge yet is charged if there is a rate.                     *)
NewCharges(l, frozen, cards) ==
    {Charge(l, m, CHOOSE r \in RateFor(l, m, cards) : TRUE) :
        m \in {n \in UsedMetrics(l) \ Charged(frozen) : RateFor(l, n, cards) # {}}}

StatusAny(l, cs) == IF cs # {} \/ UsedMetrics(l) = {} THEN "priced" ELSE "unpriced"  \* mutant: no partial
StatusOf(l, cs) ==
    IF UsedMetrics(l) \subseteq Charged(cs) THEN "priced"
    ELSE IF cs # {} THEN "partial" ELSE "unpriced"
Priced(l, cs) == [status |-> StatusOf(l, cs), estimate |-> TotalOf(cs)]

(* The executor prices the ledger in the transaction that creates it.        *)
CaptureUsage(l) ==
    LET new == NewCharges(l, {}, rates)
    IN  /\ ledger[l] = Absent
        /\ charges' = [charges EXCEPT ![l] = new]
        /\ ledger' = [ledger EXCEPT ![l] = Priced(l, new)]
        /\ UNCHANGED <<rates, entering, pricing>>

RepriceUsage(p) ==
    /\ pricing[p] = NoPricing
    /\ pricing' = [pricing EXCEPT ![p] =
           [stage |-> "listed",
            todo |-> {l \in Ledgers : ledger[l].status \in {"partial", "unpriced"}}]]
    /\ UNCHANGED <<rates, entering, charges, ledger>>

BeginPricing(p) ==
    /\ pricing[p].stage = "listed"
    /\ IF pricing[p].todo = {} THEN pricing' = [pricing EXCEPT ![p] = NoPricing]
       ELSE LET l == CHOOSE k \in pricing[p].todo : TRUE
            IN  pricing' = [pricing EXCEPT ![p] =
                    [stage |-> "open", todo |-> pricing[p].todo \ {l}, ledger |-> l,
                     frozen |-> charges[l], rates |-> rates]]
    /\ UNCHANGED <<rates, entering, charges, ledger>>

(* The estimate is of the charges it saw and those it made.                  *)
CommitPricing(p) ==
    LET l == pricing[p].ledger
        frozen == pricing[p].frozen
        new == NewCharges(l, frozen, pricing[p].rates)
    IN  /\ pricing[p].stage = "open"
        /\ Charged(new) \cap Charged(charges[l]) = {}
        /\ charges' = [charges EXCEPT ![l] = @ \cup new]
        /\ ledger' = [ledger EXCEPT ![l] = Priced(l, frozen \cup new)]
        /\ pricing' = [pricing EXCEPT ![p] = [stage |-> "listed", todo |-> @.todo]]
        /\ UNCHANGED <<rates, entering>>

(* A charge that another transaction made, or a lost connection.             *)
AbortPricing(p) ==
    /\ pricing[p].stage = "open"
    /\ pricing' = [pricing EXCEPT ![p] = NoPricing]
    /\ UNCHANGED <<rates, entering, charges, ledger>>

PricingInit ==
    /\ rates = {} /\ entering = [a \in Authors |-> -1]
    /\ charges = [l \in Ledgers |-> {}] /\ ledger = [l \in Ledgers |-> Absent]
    /\ pricing = [p \in Pricers |-> NoPricing]

PricingNext ==
    \/ \E a \in Authors : ReadVersion(a) \/ \E es \in RateVersions : CreateRateVersion(a, es)
    \/ \E l \in Ledgers : CaptureUsage(l)
    \/ \E p \in Pricers : RepriceUsage(p) \/ BeginPricing(p) \/ CommitPricing(p) \/ AbortPricing(p)

PricingSpec == PricingInit /\ [][PricingNext]_pricingVars

-----------------------------------------------------------------------------
(* Properties *)

PricingTypeOK ==
    /\ \A l \in Ledgers : ledger[l].status \in {"absent", "priced", "partial", "unpriced"}
                          /\ ledger[l].estimate \in Nat
    /\ \A p \in Pricers : pricing[p].stage \in {"idle", "listed", "open"}
    /\ LatestVersion(rates) <= MaxRates

(* A ledger that says it is priced has one charge for each metric it used,   *)
(* each at a rate that was in force, and its estimate is their sum; one that *)
(* does not say so never claims more than its charges.  Two repricings at    *)
(* once, with rates entered in between, cannot charge twice or call a part   *)
(* the whole (costing.go PriceUsageLedger).                                  *)
PricedIsWhole ==
    \A l \in Ledgers :
        /\ Cardinality(charges[l]) = Cardinality(Charged(charges[l]))
        /\ \A c \in charges[l] : /\ c.card \in rates /\ c.card.at <= UsedAt(l)
                                 /\ c.card.tier \in {TierOf(l), "default"}
        /\ ledger[l].status = "priced" =>
               Charged(charges[l]) = UsedMetrics(l) /\ ledger[l].estimate = TotalOf(charges[l])
        /\ ledger[l].estimate <= TotalOf(charges[l])
        /\ ledger[l].status = "unpriced" => ledger[l].estimate = 0
=============================================================================
