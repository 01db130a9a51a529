------------------------------ MODULE Inventory ------------------------------
(***************************************************************************)
(* Stock and its cost: drafts, posting, the three kinds of correction       *)
(* (internal/app/inventory_handlers.go and inventory_corrections.go) and    *)
(* the product form, which saves the whole SKU row it once read             *)
(* (internal/app/handlers.go).                                              *)
(*                                                                         *)
(* A transaction locks its document and its SKUs until it commits, so it is *)
(* one step where it reads what it has locked.  Two steps are taken for     *)
(* what it reads before: the rates of a draft that is then edited, the time *)
(* a quantity correction will be filed under, the row behind a form.        *)
(*                                                                         *)
(* Money is a whole number of the smallest unit that is stored; averages    *)
(* are rounded to it.  An exchange rate is part of the price.  A request    *)
(* that repeats an idempotency key changes nothing and is not a step.       *)
(***************************************************************************)
EXTENDS Integers, Sequences, FiniteSets, FiniteSetsExt, SequencesExt, Functions, Money

CONSTANTS
    SKUs,           \* the stock keeping units
    Documents,      \* what users may enter as a draft
    Recosts,        \* what users may enter as a cost correction: prices and charges
    Quantities,     \* what users may enter as a corrected quantity
    Opening,        \* the stock of each SKU before the first document
    MaxRows,        \* bound: inventory transactions
    MaxPostings,    \* bound: posting requests under way at once
    MaxRecosts,     \* bound: cost corrections
    Edited          \* bound: the SKUs whose form is opened

ASSUME StockAssumption ==
    /\ IsFiniteSet(SKUs) /\ Opening \in [SKUs -> Int]   \* createSKU takes any number
    /\ \A d \in Documents :
        /\ d.type \in {"purchase_receipt", "sale_issue", "customer_return", "supplier_return",
                       "stock_adjustment"}
        /\ d.charges \in Nat
        /\ d.lines \in Seq([sku : SKUs, quantity : Int, price : Nat])
    /\ \A c \in Recosts : c.prices \in [SKUs -> Nat] /\ c.charges \in Nat
    /\ \A q \in Quantities : q \in [SKUs -> Int]
    /\ Edited \subseteq SKUs

VARIABLES
    balance,        \* balance[s] : stock, average and value in the row of SKU s
    rows,           \* the inventory transactions, in the order of their ids
    ledger,         \* the posted lines, in the order they were committed
    clock,          \* the documents posted so far
    postings,       \* posting requests that have read their draft
    correcting,     \* the quantity correction that is under way, if any
    form,           \* the product form that is open, if any
    overwritten,    \* the SKUs whose balance a form has set back
    recosts         \* cost corrections so far

vars == <<balance, rows, ledger, clock, postings, correcting, form, overwritten, recosts>>
desk == <<form, overwritten>>

Types == {"purchase_receipt", "sale_issue", "customer_return", "supplier_return",
          "stock_adjustment"}
Balance == [stock : Int, average : Int, value : Int]
Line == [sku : SKUs, delta : Int, price : Nat]
Row == [type : Types, status : {"draft", "posted"}, lines : Seq(Line), charges : Nat,
        version : Nat, posted : Nat, reverses : Nat]
Entry == [row : Nat, sku : SKUs, delta : Int, cost : Int, before : Balance, after : Balance]
NoForm == [none |-> TRUE]
NoCorrection == [row |-> 0, lines |-> <<>>, now |-> 0]

(* The elements of a set, in the order of a rank that no two of them share. *)
Ordered(S, rank) ==
    [k \in 1..Cardinality(S) |->
        CHOOSE x \in S : Cardinality({y \in S : rank[y] < rank[x]}) = k - 1]

-----------------------------------------------------------------------------
(* Money *)

NoDebt(b) == IF b.stock = 0 /\ b.value < 0 THEN [b EXCEPT !.value = 0] ELSE b

(* Goods that come with a cost of their own, and goods moved at the average. *)
Receive(b, n, cost) ==
    LET stock == b.stock + n
    IN  NoDebt([stock |-> stock, value |-> b.value + cost,
                average |-> IF stock > 0 THEN Rounded(b.value + cost, stock) ELSE b.average])
AdjustStock(b, n) == [b EXCEPT !.stock = @ + n]   \* mutant: the value is forgotten
Adjust(b, n) == [b EXCEPT !.stock = @ + n, !.value = @ + n * b.average]
Move(b, n) == NoDebt(Adjust(b, n))

(* The cost of each line of a receipt: charges are spread over the lines by  *)
(* their worth, and the last one takes what rounding leaves.                 *)
Worth(l) == l.delta * l.price
TotalWorth(lines) == SumFunction([i \in DOMAIN lines |-> Worth(lines[i])])
Shares(lines, charges) ==
    [i \in DOMAIN lines |-> IF charges = 0 THEN 0
                            ELSE Rounded(charges * Worth(lines[i]), TotalWorth(lines))]
LineCosts(lines, charges) ==
    LET share == Shares(lines, charges)
        last == Len(lines)
        rest == charges - SumFunctionOnSet(share, 1..(last - 1))
    IN  [i \in DOMAIN lines |-> Worth(lines[i]) + (IF i < last THEN share[i] ELSE rest)]
Spreads(lines, charges) == charges = 0 \/ TotalWorth(lines) > 0

-----------------------------------------------------------------------------
(* Documents *)

Signed(type, quantity) ==
    IF type \in {"sale_issue", "supplier_return"} THEN - quantity ELSE quantity

Accepted(d) ==
    /\ d.lines # <<>>
    /\ \A i \in DOMAIN d.lines :
        /\ d.lines[i].quantity # 0
        /\ d.lines[i].quantity > 0 \/ d.type = "stock_adjustment"
        /\ \A j \in DOMAIN d.lines : d.lines[i].sku = d.lines[j].sku => i = j
    /\ d.charges = 0 \/ d.type = "purchase_receipt"

Lines(d) == [i \in DOMAIN d.lines |->
                [sku |-> d.lines[i].sku,
                 delta |-> Signed(d.type, d.lines[i].quantity),
                 price |-> IF d.type = "purchase_receipt" THEN d.lines[i].price ELSE 0]]

Draft(d, version) ==
    [type |-> d.type, status |-> "draft", lines |-> Lines(d), charges |-> d.charges,
     version |-> version, posted |-> 0, reverses |-> 0]

Posted(type, lines, time, reverses) ==
    [type |-> type, status |-> "posted", lines |-> lines, charges |-> 0,
     version |-> 0, posted |-> time, reverses |-> reverses]

SKUsOf(lines) == {lines[i].sku : i \in DOMAIN lines}
LineOf(lines, s) == CHOOSE i \in DOMAIN lines : lines[i].sku = s
EntriesOf(s) == {e \in DOMAIN ledger : ledger[e].sku = s}
EntryOf(r, s) == CHOOSE e \in EntriesOf(s) : ledger[e].row = r
FiledAt(e) == rows[ledger[e].row].posted

(* posted_at of a document that takes the time now, and of one that took it  *)
(* when now documents were posted.                                           *)
Now == 2 * (clock + 1)
Then(now) == 2 * now + 1

(* Every line of a document goes to the ledger and to its SKU.               *)
Books(r, lines, cost, after) ==
    /\ ledger' = ledger \o [i \in DOMAIN lines |->
            [row |-> r, sku |-> lines[i].sku, delta |-> lines[i].delta, cost |-> cost[i],
             before |-> balance[lines[i].sku], after |-> after[i]]]
    /\ balance' = [s \in SKUs |-> IF s \in SKUsOf(lines) THEN after[LineOf(lines, s)]
                                  ELSE balance[s]]
    /\ clock' = clock + 1

-----------------------------------------------------------------------------
OpeningRow(s) == Posted("stock_adjustment", <<[sku |-> s, delta |-> Opening[s], price |-> 0]>>, 0, 0)
OpeningEntry(s, r) ==
    [row |-> r, sku |-> s, delta |-> Opening[s], cost |-> 0,
     before |-> [stock |-> 0, average |-> 0, value |-> 0],
     after |-> [stock |-> Opening[s], average |-> 0, value |-> 0]]

(* createSKU books what is there at a cost of zero. *)
Init ==
    /\ balance = [s \in SKUs |-> [stock |-> Opening[s], average |-> 0, value |-> 0]]
    /\ LET stocked == SetToSeq({s \in SKUs : Opening[s] # 0})
       IN  /\ rows = [r \in DOMAIN stocked |-> OpeningRow(stocked[r])]
           /\ ledger = [r \in DOMAIN stocked |-> OpeningEntry(stocked[r], r)]
    /\ clock = 0
    /\ postings = {} /\ correcting = NoCorrection
    /\ form = NoForm /\ overwritten = {}
    /\ recosts = 0

SaveDraft(d) ==
    /\ Accepted(d)
    /\ Len(rows) < MaxRows /\ form = NoForm   \* bound: no draft while a form is open
    /\ rows' = Append(rows, Draft(d, 0))
    /\ UNCHANGED <<balance, ledger, clock, postings, correcting, recosts, desk>>

EditableAlways(r) == TRUE   \* mutant: posted documents can be edited
Editable(r) == rows[r].status = "draft"

(* The lines are deleted and made anew, with new ids. *)
UpdateDraft(r, d) ==
    /\ Accepted(d)
    /\ Editable(r)
    /\ rows[r].version = 0 /\ form = NoForm   \* bound: edited once, no form open
    /\ rows' = [rows EXCEPT ![r] = Draft(d, 1)]
    /\ UNCHANGED <<balance, ledger, clock, postings, correcting, recosts, desk>>

(* postInventoryTransaction reads the draft and finds its rates ... *)
PreparePosting(r) ==
    /\ rows[r].status = "draft"
    /\ Cardinality(postings) < MaxPostings
    /\ postings' = postings \cup {[row |-> r, version |-> rows[r].version]}
    /\ UNCHANGED <<balance, rows, ledger, clock, correcting, recosts, desk>>

(* ... which it looks up by the ids of lines and charges when it posts.  What *)
(* was entered since has no rate, and MySQL takes an empty one for an error. *)
Rated(p) == p.version = rows[p.row].version

Covered(lines) == \A i \in DOMAIN lines : balance[lines[i].sku].stock + lines[i].delta >= 0
PostableAgain(p) ==   \* mutant: the status is only asked before the lock
    Rated(p) /\ Spreads(rows[p.row].lines, rows[p.row].charges) /\ Covered(rows[p.row].lines)
Postable(p) ==
    /\ rows[p.row].status = "draft"
    /\ Rated(p)
    /\ Spreads(rows[p.row].lines, rows[p.row].charges)
    /\ Covered(rows[p.row].lines)

Post(p) ==
    LET lines == rows[p.row].lines
        receipt == rows[p.row].type = "purchase_receipt"
        b(i) == balance[lines[i].sku]
        cost == IF receipt THEN LineCosts(lines, rows[p.row].charges)
                ELSE [i \in DOMAIN lines |->
                        (IF lines[i].delta < 0 THEN - lines[i].delta ELSE lines[i].delta)
                            * b(i).average]
    IN  /\ Postable(p)
        /\ Books(p.row, lines, cost, [i \in DOMAIN lines |->
                    IF receipt THEN Receive(b(i), lines[i].delta, cost[i])
                    ELSE Move(b(i), lines[i].delta)])
        /\ rows' = [rows EXCEPT ![p.row].status = "posted", ![p.row].posted = Now]
        /\ postings' \in {postings \ {p}, postings}   \* it may have been sent twice
        /\ UNCHANGED <<correcting, recosts, desk>>

(* Posted or edited before, stock too low, or charges with nothing to bear them. *)
PostRefused(p) ==
    /\ ~ Postable(p)
    /\ postings' = postings \ {p}
    /\ UNCHANGED <<balance, rows, ledger, clock, correcting, recosts, desk>>

-----------------------------------------------------------------------------
(* Corrections of a posted document, which they lock. *)

Correctable(r) == rows[r].status = "posted" /\ correcting.row # r

Reversed(r) == \E v \in DOMAIN rows : rows[v].reverses = r
Latest(s) == CHOOSE e \in EntriesOf(s) : \A f \in EntriesOf(s) : FiledAt(e) >= FiledAt(f)

(* validateExactReversal: the SKUs are as the document left them. *)
UntouchedUnchecked(r, s) == TRUE   \* mutant: only asked before the locks
Untouched(r, s) == Latest(s) = EntryOf(r, s) /\ balance[s] = ledger[EntryOf(r, s)].after

VoidCorrection(r) ==
    LET lines == rows[r].lines
        entry(i) == ledger[EntryOf(r, lines[i].sku)]
        undone == [i \in DOMAIN lines |-> [lines[i] EXCEPT !.delta = - @, !.price = 0]]
    IN  /\ Correctable(r) /\ ~ Reversed(r)
        /\ Len(rows) < MaxRows
        /\ \A s \in SKUsOf(lines) : Untouched(r, s)
        /\ Books(Len(rows) + 1, undone, [i \in DOMAIN lines |-> entry(i).cost],
                 [i \in DOMAIN lines |-> entry(i).before])
        /\ rows' = Append(rows, Posted("stock_adjustment", undone, Now, r))
        /\ UNCHANGED <<postings, correcting, recosts, desk>>

(* replaySKUCost: the entries of a SKU from a receipt on, in the order they   *)
(* are filed, and the balance after each of them when the receipt costs cost. *)
Replayed(r, s) ==
    Ordered({e \in EntriesOf(s) : FiledAt(e) >= rows[r].posted},
            [e \in EntriesOf(s) |-> FiledAt(e)])
StartsFrom(r, s) == ledger[EntryOf(r, s)].before
ReplayedCost(e, r, b, cost) ==
    IF ledger[e].row = r THEN cost
    ELSE IF rows[ledger[e].row].type = "purchase_receipt" THEN ledger[e].cost
    ELSE (IF ledger[e].delta < 0 THEN - ledger[e].delta ELSE ledger[e].delta) * b.average
Balances(r, s, cost) ==
    LET order == Replayed(r, s)
        b[k \in 0..Len(order)] ==
            IF k = 0 THEN StartsFrom(r, s)
            ELSE LET e == ledger[order[k]]
                 IN  IF rows[e.row].type = "purchase_receipt"
                     THEN Receive(b[k - 1], e.delta, ReplayedCost(order[k], r, b[k - 1], cost))
                     ELSE Move(b[k - 1], e.delta)
    IN  b

(* The quantities of a posted line stay as they were. *)
RevisedAfter(line, before, after, cost) ==   \* mutant: what an entry found is not revised
    [line EXCEPT !.cost = cost, !.after = [after EXCEPT !.stock = line.after.stock]]
Revised(line, before, after, cost) ==
    [line EXCEPT !.cost = cost,
                 !.before = [before EXCEPT !.stock = line.before.stock],
                 !.after = [after EXCEPT !.stock = line.after.stock]]

CostCorrection(r, c) ==
    LET lines == [i \in DOMAIN rows[r].lines |->
                    LET l == rows[r].lines[i] IN [l EXCEPT !.price = c.prices[l.sku]]]
        cost(s) == LineCosts(lines, c.charges)[LineOf(lines, s)]
        order == [s \in SKUsOf(lines) |-> Replayed(r, s)]
        b == [s \in SKUsOf(lines) |-> Balances(r, s, cost(s))]
        end(s) == b[s][Len(order[s])]
    IN  /\ Correctable(r)
        /\ rows[r].type = "purchase_receipt"
        /\ recosts < MaxRecosts
        /\ Spreads(lines, c.charges)
        /\ \A s \in SKUsOf(lines) :
            /\ \A k \in DOMAIN b[s] : b[s][k].stock >= 0
            /\ end(s).stock = balance[s].stock
        /\ ledger' = [e \in DOMAIN ledger |->
                LET s == ledger[e].sku
                IN  IF s \in SKUsOf(lines) /\ e \in ToSet(order[s])
                    THEN LET k == CHOOSE k \in DOMAIN order[s] : order[s][k] = e
                         IN  Revised(ledger[e], b[s][k - 1], b[s][k],
                                     ReplayedCost(e, r, b[s][k - 1], cost(s)))
                    ELSE ledger[e]]
        /\ balance' = [s \in SKUs |-> IF s \in SKUsOf(lines)
                                      THEN [end(s) EXCEPT !.stock = balance[s].stock]
                                      ELSE balance[s]]
        /\ recosts' = recosts + 1
        /\ UNCHANGED <<rows, clock, postings, correcting, desk>>

(* What is left to book when a document should have had other quantities.    *)
QuantityDeltas(r, q) ==
    LET lines == rows[r].lines
        missing(l) == Signed(rows[r].type, q[l.sku]) - l.delta
        wrong == {i \in DOMAIN lines : missing(lines[i]) # 0}
        order == Ordered(wrong, [i \in wrong |-> i])
    IN  [k \in DOMAIN order |->
            [lines[order[k]] EXCEPT !.delta = missing(lines[order[k]]), !.price = 0]]

(* quantityCorrection takes the time once it has locked the document ...      *)
QuantityCorrection(r, q) ==
    LET deltas == QuantityDeltas(r, q)
    IN  /\ Correctable(r) /\ correcting = NoCorrection
        /\ Len(rows) < MaxRows
        /\ deltas # <<>> /\ Covered(deltas)
        /\ correcting' = [row |-> r, lines |-> deltas, now |-> clock]
        /\ UNCHANGED <<balance, rows, ledger, clock, postings, recosts, desk>>

(* ... and waits for the SKUs, which others may book in the meantime.        *)
QuantityBooked ==
    LET lines == correcting.lines
        b(i) == balance[lines[i].sku]
        size(i) == IF lines[i].delta < 0 THEN - lines[i].delta ELSE lines[i].delta
    IN  /\ correcting # NoCorrection
        /\ Len(rows) < MaxRows
        /\ Covered(lines)
        /\ Books(Len(rows) + 1, lines, [i \in DOMAIN lines |-> size(i) * b(i).average],
                 [i \in DOMAIN lines |-> Adjust(b(i), lines[i].delta)])
        /\ rows' = Append(rows, Posted("stock_adjustment", lines, Then(correcting.now), 0))
        /\ correcting' = NoCorrection
        /\ UNCHANGED <<postings, recosts, desk>>

QuantityRefused ==
    /\ correcting # NoCorrection
    /\ ~ Covered(correcting.lines) \/ Len(rows) = MaxRows
    /\ correcting' = NoCorrection
    /\ UNCHANGED <<balance, rows, ledger, clock, postings, recosts, desk>>

-----------------------------------------------------------------------------
(* updateSKU reads the row, checks that the form shows its stock, ... *)
OpenForm(s) ==
    /\ form = NoForm /\ overwritten = {}   \* bound: one at a time, until one was late
    /\ form' = [sku |-> s, balance |-> balance[s]]
    /\ UNCHANGED <<balance, rows, ledger, clock, postings, correcting, recosts, overwritten>>

(* ... and saves all of it, stock, average and value too. *)
SaveForm ==
    /\ form # NoForm
    /\ balance' = [balance EXCEPT ![form.sku] = form.balance]
    /\ overwritten' = IF balance[form.sku] # form.balance
                      THEN overwritten \cup {form.sku} ELSE overwritten
    /\ form' = NoForm
    /\ UNCHANGED <<rows, ledger, clock, postings, correcting, recosts>>

Next ==
    \/ \E d \in Documents : SaveDraft(d)
    \/ \E r \in DOMAIN rows, d \in Documents : UpdateDraft(r, d)
    \/ \E r \in DOMAIN rows : PreparePosting(r)
    \/ \E p \in postings : Post(p)
    \/ \E p \in postings : PostRefused(p)
    \/ \E r \in DOMAIN rows : VoidCorrection(r)
    \/ \E r \in DOMAIN rows, c \in Recosts : CostCorrection(r, c)
    \/ \E r \in DOMAIN rows, q \in Quantities : QuantityCorrection(r, q)
    \/ QuantityBooked
    \/ QuantityRefused
    \/ \E s \in Edited : OpenForm(s)
    \/ SaveForm

Spec == Init /\ [][Next]_vars

-----------------------------------------------------------------------------
(* Properties *)

(* Rows and entries are well formed, and a draft has booked nothing.         *)
TypeOK ==
    /\ balance \in [SKUs -> Balance]
    /\ rows \in Seq(Row)
    /\ ledger \in Seq(Entry)
    /\ \A e \in DOMAIN ledger :
           ledger[e].row \in DOMAIN rows /\ rows[ledger[e].row].status = "posted"
    /\ \A p \in postings : p.row \in DOMAIN rows
    /\ overwritten \subseteq SKUs
    /\ clock \in Nat /\ recosts \in Nat

Deltas == [e \in DOMAIN ledger |-> ledger[e].delta]
Costs == [e \in DOMAIN ledger |-> ledger[e].cost]
Booked(s) == SumFunctionOnSet(Deltas, EntriesOf(s))

(* What the answer of updateSKU says: stock changes only through the ledger. *)
StockIsBooked == \A s \in SKUs : balance[s].stock = Booked(s)

(* Whoever posts, corrects or voids at the same time, the stock of a SKU is  *)
(* what the ledger adds up to, and was never negative, or below what the SKU *)
(* was created with; only a product form that was saved late can set it back. *)
Lowest(s) == IF Opening[s] < 0 THEN Opening[s] ELSE 0
LedgerAddsUp ==
    \A s \in SKUs \ overwritten :
        /\ balance[s].stock = Booked(s)
        /\ \A e \in EntriesOf(s) : ledger[e].before.stock >= Lowest(s)
                                /\ ledger[e].after.stock >= Lowest(s)

(* However often and however late posting is asked for, and whatever is       *)
(* edited meanwhile: a posted document is in the ledger once, with the        *)
(* quantities that were entered last, and a receipt at the cost that was.     *)
BookedAsEntered ==
    \A r \in DOMAIN rows : rows[r].status = "posted" =>
        LET entries == {e \in DOMAIN ledger : ledger[e].row = r}
            booked(e) == [sku |-> ledger[e].sku, delta |-> ledger[e].delta]
            entered(i) == [sku |-> rows[r].lines[i].sku, delta |-> rows[r].lines[i].delta]
        IN  /\ Cardinality(entries) = Len(rows[r].lines)
            /\ {booked(e) : e \in entries} = {entered(i) : i \in DOMAIN rows[r].lines}
            /\ rows[r].type = "purchase_receipt" /\ recosts = 0 =>
                SumFunctionOnSet(Costs, entries)
                    = TotalWorth(rows[r].lines) + rows[r].charges

FiledInOrder(s) == \A e, f \in EntriesOf(s) : e < f => FiledAt(e) < FiledAt(f)
Follows(e, f) ==
    /\ e < f /\ ledger[e].sku = ledger[f].sku
    /\ \A g \in (e + 1)..(f - 1) : ledger[g].sku # ledger[e].sku

(* The history of a SKU has no gaps: each entry begins with the stock,       *)
(* average and value that the one before it ended with, and the last one     *)
(* ends with those of the SKU, however often earlier receipts were recosted  *)
(* or voided -- if the entries are filed in the order they were made.        *)
HistoryHasNoGaps ==
    \A s \in SKUs \ overwritten : FiledInOrder(s) =>
        /\ \A e, f \in EntriesOf(s) : Follows(e, f) => ledger[e].after = ledger[f].before
        /\ \A e \in EntriesOf(s) :
            (\A f \in EntriesOf(s) : f <= e) => ledger[e].after = balance[s]

(* A document is voided only while it is the last to have touched its SKUs,  *)
(* also if what was done since has come to nothing: unless a product form    *)
(* that was saved late has set a SKU back to what the document had left.     *)
VoidsUndoTheLast ==
    \A v \in DOMAIN rows : rows[v].reverses # 0 =>
        \A s \in SKUsOf(rows[v].lines) \ overwritten :
            Follows(EntryOf(rows[v].reverses, s), EntryOf(v, s))

(* Rounding does not add up: value and stock times average never differ by   *)
(* more than half a unit for each piece that was ever in stock at once -- if *)
(* the entries are filed in the order they were made: a replay passes        *)
(* through other stocks if they are not -- and if the SKU was not created    *)
(* with a negative stock.                                                    *)
ValueTracksAverage ==
    \A s \in SKUs \ overwritten : FiledInOrder(s) /\ Opening[s] >= 0 =>
        LET gap == balance[s].value - balance[s].stock * balance[s].average
            most == Max({0} \cup {ledger[e].after.stock : e \in EntriesOf(s)})
        IN  2 * gap <= most /\ - 2 * gap <= most
=============================================================================
