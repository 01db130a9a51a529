------------------------------ MODULE MCAIOffice ------------------------------
(***************************************************************************)
(* Instances for TLC of the components around the AI workers: templates and *)
(* the creation of jobs, the review of texts, the pricing of usage, the     *)
(* reconciliation of costs and the provider's settings.  They share no      *)
(* state, so each behaviour is of one of them, chosen in Init as the office *)
(* at work, and the others stay as they are.                                *)
(***************************************************************************)
EXTENDS AIOffice, TLC

VARIABLE office

-----------------------------------------------------------------------------
(* Templates and jobs: two clients, two requests with one key, one template. *)

NoLists == [field \in Fields |-> <<>>]
PlainSlot(key, kind) ==
    [key |-> key, kind |-> kind, named |-> TRUE, sequence |-> 0, prompt |-> "plain",
     allowed |-> NoLists, style |-> "", views |-> <<>>, device |-> "no", extra |-> "yes",
     area |-> <<>>]
FrontSlot == [PlainSlot("front", "image") EXCEPT !.views = <<{"front"}>>,
                  !.allowed["size"] = <<{"1024x1024"}>>]
SideSlot == [PlainSlot("side", "image") EXCEPT !.views = <<{"side"}>>]

(* A form that can be published, with a slot whose view nobody has            *)
(* photographed, and one with an empty list of sizes and two slots of one     *)
(* key, which only a draft can have.                                          *)
SomeForms ==
    { [named |-> TRUE, platform |-> "shopee", prompt |-> "plain",
       slots |-> <<PlainSlot("title", "title"), FrontSlot, PlainSlot("back", "image"), SideSlot>>],
      [named |-> TRUE, platform |-> "lazada", prompt |-> "",
       slots |-> << [PlainSlot("title", "title") EXCEPT !.sequence = 2],
                    [PlainSlot("back", "image") EXCEPT !.sequence = 3],
                    [PlainSlot("back", "title") EXCEPT !.sequence = 4],
                    [PlainSlot("front", "image") EXCEPT !.sequence = 1,
                                                        !.allowed["size"] = <<{}>>] >>] }

Photo == [kind |-> "visual", view |-> "front"]
Sheet == [kind |-> "information", view |-> "supplemental_info"]
SomeSources == {Photo, Sheet, [kind |-> "sop", view |-> ""]}

Ask(key, slots, canvases, overrides) ==
    [key |-> key, version |-> 1, slots |-> slots, sources |-> {Photo, Sheet},
     canvases |-> canvases, overrides |-> overrides, preference |-> FALSE, device |-> TRUE]
Larger == [slot |-> "front", field |-> "size", value |-> "1024x1024"]
SomeRequests ==
    { Ask("k1", {"title", "front"}, <<>>, {Larger}),
      Ask("k1", {"title", "front", "back"}, <<[slots |-> {"front", "back"}]>>, {}),
      Ask("k2", {"title", "side"}, <<>>, {}) }

(* Clients do the same, and no operator chooses among them.                    *)
Symmetry == Permutations(Clients)

-----------------------------------------------------------------------------
(* Reviews: a job in two locales and one in one, with two results of an item. *)

SomeJobs == {"j1", "j2"}
SomeResults == {"r1", "r2", "r3", "r4"}
SomeTexts == {"t1", "t2", "bad"}
SomeJobOf(r) == IF r \in {"r1", "r2"} THEN "j1" ELSE "j2"
SomeItemOf(r) == CASE r \in {"r1", "r2"} -> "i1" [] r = "r3" -> "i2" [] OTHER -> "i3"
SomeKindOf(r) == IF r = "r3" THEN "seo_description" ELSE "title"
SomeLocalesOf(j) == IF j = "j1" THEN {"zh-CN", "en-US"} ELSE {"zh-CN"}
NotBad(text) == text # "bad"

-----------------------------------------------------------------------------
(* Pricing: calls of two tiers, rates that come late and round up. *)

SomeMetrics == {"input", "output"}
SomeQuantity(l, m) == CASE l = "l1" -> IF m = "input" THEN 3 ELSE 1
                        [] OTHER -> IF m = "input" THEN 2 ELSE 0
SomeTierOf(l) == IF l = "l1" THEN "default" ELSE "flex"
SomeUsedAt(l) == 1
Rate(tier, metric, rate, at) == [tier |-> tier, metric |-> metric, rate |-> rate, at |-> at]
SomeRateVersions ==
    { {Rate("default", "input", 3, 0)},
      {Rate("default", "input", 1, 1), Rate("default", "output", 2, 1)},
      {Rate("flex", "input", 5, 2), Rate("default", "output", 1, 0)} }

-----------------------------------------------------------------------------
(* Settings: two keys with one fingerprint, one of another provider project. *)

SomeKeys == {"k1", "k2", "bad"}
SomeFingerprint(key) == IF key \in {"k1", "k2"} THEN "f1" ELSE "f2"
NotBadKey(key) == key # "bad"
Model(id, supports) == [id |-> id, supports |-> supports]
SomeModelsOf(key) ==
    {Model("mainline", {"text", "image_tool"}), Model("painter", {"images_api"})}
    \cup (IF key = "k1" THEN {Model("other", {"text", "image_tool"})} ELSE {})
Config(mode, responses) ==
    [mode |-> mode, text |-> "mainline", responses |-> responses, generation |-> "painter"]
SomeConfigurations ==
    {Config("responses", "other"), Config("images", "mainline"), Config("responses", "mainline")}

-----------------------------------------------------------------------------
(* Costs: two runs over a day whose bill changes, or over one or two days,   *)
(* each of a month of its own.                                               *)

SomeDayOf(b) == IF b = "b2" THEN 2 ELSE 1
SomeMonthOf(day) == day
SomeRanges == {{2}}

TwoDays == INSTANCE CostReconciliation WITH
    Buckets <- {"b1", "b2"}, UsageJobs <- SomeJobs, Ranges <- {{1}, {1, 2}},
    Amounts <- {3}, MaxBills <- 0, MaxUsage <- 1

-----------------------------------------------------------------------------

OfficeInit ==
    /\ office \in {"jobs", "reviews", "prices", "settings", "costs", "days"}
    /\ Init /\ ReviewInit /\ PricingInit /\ ProviderInit
    /\ IF office = "costs" THEN CostInit ELSE TwoDays!CostInit

OfficeNext ==
    \/ /\ office = "jobs" /\ Next
       /\ UNCHANGED <<office, reviewVars, pricingVars, providerVars, costVars>>
    \/ /\ office = "reviews" /\ ReviewNext
       /\ UNCHANGED <<office, vars, pricingVars, providerVars, costVars>>
    \/ /\ office = "prices" /\ PricingNext
       /\ UNCHANGED <<office, vars, reviewVars, providerVars, costVars>>
    \/ /\ office = "settings" /\ ProviderNext
       /\ UNCHANGED <<office, vars, reviewVars, pricingVars, costVars>>
    \/ /\ \/ office = "costs" /\ CostNext
          \/ office = "days" /\ TwoDays!CostNext
       /\ UNCHANGED <<office, vars, reviewVars, pricingVars, providerVars>>

OfficeSpec ==
    OfficeInit /\ [][OfficeNext]_<<office, vars, reviewVars, pricingVars,
                                   providerVars, costVars>>

=============================================================================
