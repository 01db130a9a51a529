--------------------------- MODULE InventoryProofs ---------------------------
(***************************************************************************)
(* What the stock ledger keeps whatever the SKUs, the documents and the     *)
(* bounds: the stock of a SKU is what the ledger adds up to, a document is  *)
(* booked once and as it was entered, only the last document is voided, no  *)
(* gap opens in a history, and values stay close to their averages.         *)
(*                                                                         *)
(* The steps are of three kinds.  A document is filed (Proper: posting,     *)
(* voiding, a quantity correction), a receipt is costed again (Recosted), or *)
(* nothing is booked (Quiet).  Each kind is shown to keep the inductive     *)
(* invariant once, and each step to be of its kind.                         *)
(***************************************************************************)
EXTENDS Inventory, DataFacts

-----------------------------------------------------------------------------
(* The inductive invariant *)

Distinct(lines) == \A i, j \in DOMAIN lines : lines[i].sku = lines[j].sku => i = j
GoodLines(lines) ==
    /\ lines \in Seq(Line) /\ lines # <<>> /\ Distinct(lines)
    /\ \A i \in DOMAIN lines : lines[i].delta # 0

GoodRow(r) ==
    /\ GoodLines(rows[r].lines)
    /\ rows[r].type = "purchase_receipt" =>
           \A i \in DOMAIN rows[r].lines : rows[r].lines[i].delta > 0
    /\ rows[r].status = "draft" => rows[r].reverses = 0

Working ==
    /\ \A r \in DOMAIN rows : GoodRow(r)
    /\ correcting # NoCorrection =>
           /\ correcting = [row |-> correcting.row, lines |-> correcting.lines, now |-> correcting.now]
           /\ correcting.row \in Nat /\ GoodLines(correcting.lines)
           /\ correcting.now \in Nat /\ correcting.now <= clock
    /\ form # NoForm => form \in [sku : SKUs, balance : Balance]

Matched ==
    /\ \A e \in DOMAIN ledger : \E i \in DOMAIN rows[ledger[e].row].lines :
           /\ ledger[e].sku = rows[ledger[e].row].lines[i].sku
           /\ ledger[e].delta = rows[ledger[e].row].lines[i].delta
    /\ \A e, f \in DOMAIN ledger : ledger[e].row = ledger[f].row /\ ledger[e].sku = ledger[f].sku => e = f
    /\ \A r \in DOMAIN rows : rows[r].status = "posted" =>
           \A i \in DOMAIN rows[r].lines : \E e \in DOMAIN ledger :
               ledger[e].row = r /\ ledger[e].sku = rows[r].lines[i].sku

CostsMatch ==
    \A e \in DOMAIN ledger : recosts = 0 /\ rows[ledger[e].row].type = "purchase_receipt" =>
        LET row == rows[ledger[e].row]
        IN  /\ Spreads(row.lines, row.charges)
            /\ ledger[e].cost = LineCosts(row.lines, row.charges)[LineOf(row.lines, ledger[e].sku)]

AddsUp == \A s \in SKUs \ overwritten : balance[s].stock = Booked(s)

StocksFit ==
    /\ \A e \in DOMAIN ledger :
        /\ ledger[e].after.stock = ledger[e].before.stock + ledger[e].delta
        /\ ledger[e].before.stock >= Lowest(ledger[e].sku)
        /\ ledger[e].after.stock >= Lowest(ledger[e].sku)
    /\ \A s \in SKUs : balance[s].stock >= Lowest(s)
    /\ form # NoForm => form.balance.stock >= Lowest(form.sku)

Filing ==
    /\ \A e \in DOMAIN ledger : FiledAt(e) <= 2 * clock
    /\ \A e, f \in DOMAIN ledger : ledger[e].sku = ledger[f].sku /\ FiledAt(e) = FiledAt(f) => e = f
    /\ \A e, f, g \in DOMAIN ledger :
        ledger[e].sku = ledger[f].sku /\ ledger[f].sku = ledger[g].sku =>
            (e < f /\ f < g /\ FiledAt(f) < FiledAt(e) => FiledAt(e) < FiledAt(g))
    /\ correcting # NoCorrection =>
        /\ \A e \in DOMAIN ledger : FiledAt(e) # Then(correcting.now)
        /\ \A e, f \in DOMAIN ledger :
            e < f /\ ledger[e].sku = ledger[f].sku /\ FiledAt(f) < FiledAt(e) =>
                FiledAt(e) < Then(correcting.now)

Gapless(s) ==
    /\ \A e, f \in EntriesOf(s) : Follows(e, f) => ledger[e].after.stock = ledger[f].before.stock
    /\ \A e \in EntriesOf(s) :
        (\A f \in EntriesOf(s) : f <= e) => ledger[e].after.stock = balance[s].stock
StocksFollow == \A s \in SKUs \ overwritten : Gapless(s)

Voids ==
    /\ VoidsUndoTheLast
    /\ \A v \in DOMAIN rows : rows[v].reverses # 0 =>
        /\ rows[v].reverses \in DOMAIN rows /\ rows[rows[v].reverses].status = "posted"
        /\ SKUsOf(rows[v].lines) = SKUsOf(rows[rows[v].reverses].lines)

Gap(b) == b.value - b.stock * b.average
MostIn(L, E) == Max({0} \cup {L[e].after.stock : e \in E})
Most(s) == MostIn(ledger, EntriesOf(s))
Near(b, n) == 2 * Gap(b) <= n /\ - 2 * Gap(b) <= n
ValuesNear ==
    \A s \in SKUs \ overwritten : FiledInOrder(s) /\ Opening[s] >= 0 =>
        /\ Near(balance[s], Most(s))
        /\ \A e \in EntriesOf(s) : Near(ledger[e].before, Most(s)) /\ Near(ledger[e].after, Most(s))

IInv == TypeOK /\ Working /\ Matched /\ CostsMatch /\ AddsUp /\ StocksFit /\ Filing
           /\ StocksFollow /\ Voids /\ HistoryHasNoGaps /\ ValuesNear

-----------------------------------------------------------------------------
(* Order *)

(* A finite set whose elements have ranks of their own is put in order. *)
LEMMA OrderedFacts ==
    ASSUME NEW S, IsFiniteSet(S), NEW rank, \A x \in S : rank[x] \in Int,
           \A x, y \in S : rank[x] = rank[y] => x = y
    PROVE  LET o == Ordered(S, rank)
           IN  /\ Cardinality(S) \in Nat /\ DOMAIN o = 1..Cardinality(S)
               /\ o \in [1..Cardinality(S) -> S]
               /\ \A x \in S : \E k \in 1..Cardinality(S) : o[k] = x
               /\ \A j, k \in 1..Cardinality(S) : j < k <=> rank[o[j]] < rank[o[k]]
<1> DEFINE n == Cardinality(S)
           below(x) == {y \in S : rank[y] < rank[x]}
           p == [x \in S |-> Cardinality(below(x)) + 1]
           o == Ordered(S, rank)
<1>1. n \in Nat
  BY FS_CardinalityType
<1>2. \A x \in S : IsFiniteSet(below(x)) /\ Cardinality(below(x)) \in Nat /\ Cardinality(below(x)) < n
  <2> TAKE x \in S
  <2>1. below(x) \in SUBSET S /\ below(x) # S
    OBVIOUS
  <2> QED
    BY <2>1, Smaller
<1>3. ASSUME NEW x \in S, NEW y \in S, rank[x] < rank[y]
      PROVE  p[x] < p[y]
  <2>1. below(x) \in SUBSET below(y)
    BY <1>3
  <2>2. x \in below(y) /\ x \notin below(x)
    BY <1>3
  <2>3. Cardinality(below(x)) < Cardinality(below(y))
    <3>1. IsFiniteSet(below(y)) /\ below(x) # below(y)
      BY <1>2, <2>2
    <3> QED
      BY <2>1, <3>1, Smaller
  <2>4. p[x] = Cardinality(below(x)) + 1 /\ p[y] = Cardinality(below(y)) + 1
    OBVIOUS
  <2> HIDE DEF below, p
  <2> QED
    BY <1>2, <2>3, <2>4
<1>4. p \in Injection(S, 1..n)
  <2>1. p \in [S -> 1..n]
    <3> HIDE DEF below, n
    <3>1. \A x \in S : Cardinality(below(x)) + 1 \in 1..n
      BY <1>1, <1>2
    <3> QED
      BY <3>1
  <2>2. \A x, y \in S : p[x] = p[y] => x = y
    <3> TAKE x, y \in S
    <3> HIDE DEF p
    <3> HAVE p[x] = p[y]
    <3>1. p[x] \in Int /\ p[y] \in Int
      BY <2>1
    <3> QED
      BY <1>3, <3>1
  <2> QED
    BY <2>1, <2>2 DEF Injection, IsInjective
<1>5. p \in Surjection(S, 1..n)
  <2>1. IsFiniteSet(1..n) /\ Cardinality(1..n) = n
    BY <1>1, FS_Interval
  <2> HIDE DEF p
  <2> QED
    BY <1>4, <2>1, FS_Injection
<1>6. \A k \in 1..n : o[k] \in S /\ p[o[k]] = k
  <2> TAKE k \in 1..n
  <2>1. PICK x \in S : p[x] = k
    BY <1>5 DEF Surjection
  <2>2. o[k] = CHOOSE y \in S : Cardinality(below(y)) = k - 1
    BY DEF Ordered
  <2>3. Cardinality(below(x)) = k - 1
    <3>1. p[x] = Cardinality(below(x)) + 1
      OBVIOUS
    <3> HIDE DEF below, p
    <3> QED
      BY <1>2, <2>1, <3>1
  <2>4. o[k] \in S /\ Cardinality(below(o[k])) = k - 1
    BY <2>2, <2>3
  <2>5. p[o[k]] = Cardinality(below(o[k])) + 1
    BY <2>4
  <2> HIDE DEF below, p, o
  <2> QED
    BY <2>4, <2>5
<1>7. DOMAIN o = 1..n /\ o = [k \in 1..n |-> o[k]]
  <2> DEFINE pick(k) == CHOOSE x \in S : Cardinality(below(x)) = k - 1
  <2>1. o = [k \in 1..n |-> pick(k)]
    BY DEF Ordered
  <2> HIDE DEF pick, o
  <2> QED
    BY <2>1
<1>8. \A x \in S : p[x] \in 1..n
  BY <1>4 DEF Injection
<1> HIDE DEF o, p, n, below
<1>9. o \in [1..n -> S]
  BY <1>6, <1>7
<1>10. \A x \in S : \E k \in 1..n : o[k] = x
  <2> TAKE x \in S
  <2>1. p[o[p[x]]] = p[x] /\ o[p[x]] \in S
    BY <1>6, <1>8
  <2>2. o[p[x]] = x
    BY <1>4, <2>1 DEF Injection, IsInjective
  <2> QED
    BY <1>8, <2>2
<1>11. \A j, k \in 1..n : j < k <=> rank[o[j]] < rank[o[k]]
  <2> TAKE j, k \in 1..n
  <2>1. o[j] \in S /\ o[k] \in S /\ p[o[j]] = j /\ p[o[k]] = k
    BY <1>6
  <2>2. rank[o[j]] \in Int /\ rank[o[k]] \in Int
    BY <2>1
  <2>3. rank[o[j]] < rank[o[k]] => j < k
    BY <1>3, <2>1
  <2>4. rank[o[k]] < rank[o[j]] => k < j
    BY <1>3, <2>1
  <2>5. rank[o[k]] = rank[o[j]] => k = j
    BY <2>1
  <2> QED
    BY <1>1, <2>2, <2>3, <2>4, <2>5
<1> QED
  BY <1>1, <1>7, <1>9, <1>10, <1>11 DEF n, o

(* The charges of a receipt go to its lines whole: what rounding leaves is   *)
(* borne by the last one.                                                    *)
LEMMA LineCostsFacts ==
    ASSUME NEW lines \in Seq(Line), lines # <<>>, NEW charges \in Nat, Spreads(lines, charges)
    PROVE  /\ LineCosts(lines, charges) \in [DOMAIN lines -> Int]
           /\ SumFunction(LineCosts(lines, charges)) = TotalWorth(lines) + charges
<1> DEFINE n == Len(lines)
           share == Shares(lines, charges)
           rest == charges - SumFunctionOnSet(share, 1..(n - 1))
           worth == [i \in 1..n |-> Worth(lines[i])]
           part == [i \in 1..n |-> IF i < n THEN share[i] ELSE rest]
           cost == LineCosts(lines, charges)
<1>1. n \in Nat /\ n > 0 /\ DOMAIN lines = 1..n
  BY EmptySeq, LenProperties
<1>2. IsFiniteSet(1..n) /\ IsFiniteSet(1..(n - 1)) /\ (1..n) \ {n} = 1..(n - 1) /\ n \in 1..n
  <2>1. 1 \in Int /\ n \in Int /\ n - 1 \in Int
    BY <1>1
  <2>2. (1..n) \ {n} = 1..(n - 1) /\ n \in 1..n
    BY <1>1
  <2> HIDE DEF n
  <2> QED
    BY <2>1, <2>2, FS_Interval
<1>3. \A i \in 1..n : worth[i] \in Int
  <2> TAKE i \in 1..n
  <2>1. lines[i] \in Line
    BY <1>1, ElementOfSeq
  <2> QED
    BY <2>1 DEF Worth, Line
<1>4. TotalWorth(lines) = SumFunctionOnSet(worth, 1..n) /\ TotalWorth(lines) \in Int
  <2>1. TotalWorth(lines) = SumFunctionOnSet(worth, 1..n)
    BY <1>1 DEF TotalWorth, SumFunction
  <2> HIDE DEF worth
  <2> QED
    BY <1>2, <1>3, <2>1, SumInt
<1>5. \A i \in 1..n : share[i] \in Int
  <2> TAKE i \in 1..n
  <2>1. share[i] = IF charges = 0 THEN 0
                   ELSE Rounded(charges * worth[i], TotalWorth(lines))
    BY <1>1 DEF Shares
  <2>2. CASE charges = 0
    BY <2>1, <2>2
  <2>3. CASE charges # 0
    <3>1. charges * worth[i] \in Int /\ TotalWorth(lines) \in Nat /\ TotalWorth(lines) > 0
      BY <1>3, <1>4, <2>3 DEF Spreads
    <3> HIDE DEF worth
    <3> QED
      BY <2>1, <2>3, <3>1, RoundedFacts
  <2> QED
    BY <2>2, <2>3
<1> HIDE DEF share
<1>6. rest \in Int
  <2>1. \A i \in 1..(n - 1) : share[i] \in Int
    BY <1>1, <1>5
  <2>2. SumFunctionOnSet(share, 1..(n - 1)) \in Int
    BY <1>2, <2>1, SumInt
  <2> QED
    BY <2>2
<1>7. \A i \in 1..n : part[i] \in Int
  BY <1>5, <1>6
<1>8. SumFunctionOnSet(part, 1..n) = charges
  <2>1. SumFunctionOnSet(part, 1..n) = part[n] + SumFunctionOnSet(part, 1..(n - 1))
    <3> HIDE DEF part, n
    <3> QED
      BY <1>2, <1>7, SumTake
  <2>2. SumFunctionOnSet(part, 1..(n - 1)) = SumFunctionOnSet(share, 1..(n - 1))
    <3>1. \A i \in 1..(n - 1) : part[i] = share[i]
      BY <1>1
    <3> HIDE DEF part, n
    <3> QED
      BY <1>2, <3>1, SumSame
  <2>3. part[n] = rest /\ SumFunctionOnSet(share, 1..(n - 1)) \in Int
    <3>1. \A i \in 1..(n - 1) : share[i] \in Int
      BY <1>1, <1>5
    <3> QED
      BY <1>1, <1>2, <3>1, SumInt
  <2> HIDE DEF part
  <2> QED
    BY <2>1, <2>2, <2>3
<1>9. cost = [i \in 1..n |-> worth[i] + part[i]]
  BY <1>1 DEF LineCosts, share
<1>10. SumFunctionOnSet(cost, 1..n) = SumFunctionOnSet(worth, 1..n) + SumFunctionOnSet(part, 1..n)
  <2>1. \A i \in 1..n : worth[i] \in Int /\ part[i] \in Int /\ cost[i] = worth[i] + part[i]
    BY <1>3, <1>7, <1>9
  <2> HIDE DEF worth, part, cost, n
  <2> QED
    BY <1>2, <2>1, SumPlus
<1>11. cost \in [1..n -> Int] /\ SumFunction(cost) = SumFunctionOnSet(cost, 1..n)
  <2> HIDE DEF worth, part
  <2>1. cost \in [1..n -> Int]
    BY <1>3, <1>7, <1>9
  <2> HIDE DEF cost
  <2> QED
    BY <2>1 DEF SumFunction
<1> QED
  BY <1>1, <1>4, <1>8, <1>10, <1>11

-----------------------------------------------------------------------------
(* What posting, voiding and quantity corrections have in common: document r *)
(* is posted and its lines go to the ledger and to their SKUs.               *)
Filed(r, lines, cost, after) ==
    /\ Books(r, lines, cost, after)
    /\ GoodLines(lines) /\ cost \in [DOMAIN lines -> Int] /\ after \in [DOMAIN lines -> Balance]
    /\ rows' \in Seq(Row) /\ r \in Nat /\ DOMAIN rows' = DOMAIN rows \cup {r}
    /\ \A q \in DOMAIN rows : q # r => rows'[q] = rows[q]
    /\ r \in DOMAIN rows => rows[r].status = "draft"
    /\ rows'[r].status = "posted" /\ rows'[r].lines = lines /\ GoodRow(r)'
    /\ \A i \in DOMAIN lines :
        /\ after[i].stock = balance[lines[i].sku].stock + lines[i].delta
        /\ after[i].stock >= Lowest(lines[i].sku)
    /\ postings' \subseteq postings /\ UNCHANGED <<recosts, desk>>

New(r, line, cost, after) ==
    [row |-> r, sku |-> line.sku, delta |-> line.delta, cost |-> cost,
     before |-> balance[line.sku], after |-> after]

(* Entry e of the ledger that results is of line i. *)
Made(e, r, line, cost, after) ==
    /\ ledger'[e].row = r /\ ledger'[e].sku = line.sku /\ ledger'[e].delta = line.delta
    /\ ledger'[e].cost = cost /\ ledger'[e].before = balance[line.sku] /\ ledger'[e].after = after

Fresh == DOMAIN ledger' \ DOMAIN ledger

Longer(r, lines, cost, after) ==
    /\ DOMAIN ledger \subseteq DOMAIN ledger' /\ DOMAIN ledger' \subseteq Nat
    /\ \A e \in DOMAIN ledger :
        /\ ledger'[e] = ledger[e] /\ ledger[e] \in Entry
        /\ ledger[e].row # r /\ ledger[e].row \in DOMAIN rows
        /\ rows'[ledger[e].row] = rows[ledger[e].row]
    /\ \A e \in DOMAIN ledger, f \in Fresh : e < f
    /\ \A i \in DOMAIN lines : \E e \in Fresh : Made(e, r, lines[i], cost[i], after[i])
    /\ \A e \in Fresh : \E i \in DOMAIN lines : Made(e, r, lines[i], cost[i], after[i])
    /\ \A e, f \in Fresh : ledger'[e].sku = ledger'[f].sku => e = f

(* The new entries come last; the old ones and their documents stay.         *)
LEMMA FiledEntries ==
    ASSUME TypeOK, NEW r, NEW lines, NEW cost, NEW after, Filed(r, lines, cost, after)
    PROVE  Longer(r, lines, cost, after) /\ ledger' \in Seq(Entry)
<1> DEFINE n == Len(ledger)
           k == Len(lines)
           new == [i \in 1..k |-> New(r, lines[i], cost[i], after[i])]
<1>1. n \in Nat /\ DOMAIN ledger = 1..n /\ ledger \in [1..n -> Entry]
  BY LenProperties DEF TypeOK
<1>2. k \in Nat /\ k > 0 /\ DOMAIN lines = 1..k /\ lines \in [1..k -> Line]
  <2>1. lines \in Seq(Line) /\ lines # <<>>
    BY DEF Filed, GoodLines
  <2> QED
    BY <2>1, LenProperties, EmptySeq
<1>3. \A i \in 1..k : new[i] \in Entry
  <2> TAKE i \in 1..k
  <2>1. lines[i] \in Line /\ cost[i] \in Int /\ after[i] \in Balance /\ r \in Nat
    BY <1>2 DEF Filed
  <2>2. balance[lines[i].sku] \in Balance
    BY <2>1 DEF TypeOK, Line
  <2> QED
    BY <2>1, <2>2 DEF New, Entry, Line
<1>4. new \in Seq(Entry) /\ Len(new) = k
  <2>1. new \in [1..k -> Entry]
    BY <1>3
  <2> HIDE DEF new
  <2>2. new \in Seq(Entry)
    BY <1>2, <2>1, SeqDef
  <2> QED
    BY <1>2, <2>1, <2>2, LenProperties
<1>5. ledger' = ledger \o new
  BY <1>2 DEF Filed, Books, New
<1> HIDE DEF new
<1>6. /\ ledger' \in Seq(Entry) /\ Len(ledger') = n + k
      /\ \A i \in 1..(n + k) : ledger'[i] = IF i <= n THEN ledger[i] ELSE new[i - n]
  <2>1. ledger \in Seq(Entry)
    BY DEF TypeOK
  <2>2. /\ ledger \o new \in Seq(Entry) /\ Len(ledger \o new) = Len(ledger) + Len(new)
        /\ \A i \in 1..(Len(ledger) + Len(new)) :
              (ledger \o new)[i] = IF i <= Len(ledger) THEN ledger[i] ELSE new[i - Len(ledger)]
    BY <1>4, <2>1, ConcatProperties
  <2> QED
    BY <1>4, <1>5, <2>2
<1>7. DOMAIN ledger' = 1..(n + k)
  BY <1>6, LenProperties
<1> HIDE DEF n, k
<1>8. \A e \in 1..n : ledger'[e] = ledger[e]
  BY <1>1, <1>2, <1>6
<1>9. \A i \in 1..k : ledger'[n + i] = New(r, lines[i], cost[i], after[i])
  <2> TAKE i \in 1..k
  <2>1. n + i \in 1..(n + k) /\ ~ (n + i <= n) /\ (n + i) - n = i
    BY <1>1, <1>2
  <2>2. new[i] = New(r, lines[i], cost[i], after[i])
    BY DEF new
  <2> QED
    BY <1>6, <2>1, <2>2
<1>10. ASSUME NEW e \in 1..n
       PROVE  ledger[e].row # r /\ ledger[e].row \in DOMAIN rows
              /\ rows'[ledger[e].row] = rows[ledger[e].row]
  <2>1. ledger[e].row \in DOMAIN rows /\ rows[ledger[e].row].status = "posted"
    BY <1>1 DEF TypeOK
  <2> QED
    BY <2>1 DEF Filed
<1>11. ASSUME NEW e \in (1..(n + k)) \ (1..n)
       PROVE  \E i \in 1..k : e = n + i
  <2>1. e - n \in 1..k /\ e = n + (e - n)
    BY <1>1, <1>2
  <2> QED
    BY <2>1
<1>12. Distinct(lines)
  BY DEF Filed, GoodLines
<1>13. Fresh = (1..(n + k)) \ (1..n)
  BY <1>1, <1>7 DEF Fresh
<1>14. ASSUME NEW i \in 1..k
      PROVE  n + i \in Fresh /\ Made(n + i, r, lines[i], cost[i], after[i])
  <2>1. n + i \in Fresh
    BY <1>1, <1>2, <1>13
  <2>2. ledger'[n + i] = New(r, lines[i], cost[i], after[i])
    BY <1>9
  <2> QED
    BY <2>1, <2>2 DEF New, Made
<1>15. ASSUME NEW e \in Fresh
      PROVE  \E i \in 1..k : e = n + i /\ Made(e, r, lines[i], cost[i], after[i])
  <2>1. PICK i \in 1..k : e = n + i
    BY <1>11, <1>13
  <2> QED
    BY <1>14, <2>1
<1>16. ASSUME NEW e \in Fresh, NEW f \in Fresh, ledger'[e].sku = ledger'[f].sku
      PROVE  e = f
  <2>1. PICK i \in 1..k : e = n + i /\ Made(e, r, lines[i], cost[i], after[i])
    BY <1>15
  <2>2. PICK j \in 1..k : f = n + j /\ Made(f, r, lines[j], cost[j], after[j])
    BY <1>15
  <2>3. lines[i].sku = lines[j].sku
    BY <1>16, <2>1, <2>2 DEF Made
  <2> QED
    BY <1>1, <1>2, <1>12, <2>1, <2>2, <2>3 DEF Distinct
<1>17. \A e \in DOMAIN ledger, f \in Fresh : e < f
  BY <1>1, <1>2, <1>13
<1>18. DOMAIN ledger \subseteq DOMAIN ledger' /\ DOMAIN ledger' \subseteq Nat
  BY <1>1, <1>2, <1>7
<1> QED
  BY <1>1, <1>2, <1>6, <1>8, <1>10, <1>14, <1>15, <1>16, <1>17, <1>18 DEF Longer

(* A document has one line for a SKU. *)
LEMMA LineOfFacts ==
    ASSUME NEW lines, Distinct(lines)
    PROVE  /\ \A i \in DOMAIN lines : lines[i].sku \in SKUsOf(lines) /\ LineOf(lines, lines[i].sku) = i
           /\ \A s \in SKUsOf(lines) : LineOf(lines, s) \in DOMAIN lines /\ lines[LineOf(lines, s)].sku = s
<1>1. ASSUME NEW s, NEW i \in DOMAIN lines, lines[i].sku = s
      PROVE  LineOf(lines, s) = i
  <2>1. LineOf(lines, s) \in DOMAIN lines /\ lines[LineOf(lines, s)].sku = s
    BY <1>1 DEF LineOf
  <2> QED
    BY <1>1, <2>1 DEF Distinct
<1> QED
  BY <1>1 DEF SKUsOf

(* The balances of its SKUs are those it leaves, the others stay. *)
LEMMA FiledBalances ==
    ASSUME TypeOK, NEW r, NEW lines, NEW cost, NEW after, Filed(r, lines, cost, after)
    PROVE  /\ balance' \in [SKUs -> Balance]
           /\ \A i \in DOMAIN lines : lines[i].sku \in SKUs /\ balance'[lines[i].sku] = after[i]
           /\ \A s \in SKUs : s \notin SKUsOf(lines) => balance'[s] = balance[s]
           /\ \A s \in SKUs : s \in SKUsOf(lines) => \E i \in DOMAIN lines : lines[i].sku = s
<1>1. /\ balance' = [s \in SKUs |-> IF s \in SKUsOf(lines) THEN after[LineOf(lines, s)]
                                    ELSE balance[s]]
      /\ Distinct(lines) /\ lines \in Seq(Line) /\ after \in [DOMAIN lines -> Balance]
  BY DEF Filed, Books, GoodLines
<1>2. /\ \A i \in DOMAIN lines : lines[i].sku \in SKUsOf(lines) /\ LineOf(lines, lines[i].sku) = i
      /\ \A s \in SKUsOf(lines) : LineOf(lines, s) \in DOMAIN lines /\ lines[LineOf(lines, s)].sku = s
  BY <1>1, LineOfFacts
<1>3. \A i \in DOMAIN lines : lines[i].sku \in SKUs
  <2>1. lines \in [1..Len(lines) -> Line] /\ DOMAIN lines = 1..Len(lines)
    BY <1>1, LenProperties
  <2> QED
    BY <2>1 DEF Line
<1>4. \A s \in SKUs : (IF s \in SKUsOf(lines) THEN after[LineOf(lines, s)] ELSE balance[s]) \in Balance
  BY <1>1, <1>2 DEF TypeOK
<1> QED
  BY <1>1, <1>2, <1>3, <1>4

(* Rows, entries and balances stay well formed when a document is filed. *)
LEMMA FiledTypeOK ==
    ASSUME TypeOK, NEW r, NEW lines, NEW cost, NEW after, Filed(r, lines, cost, after)
    PROVE  TypeOK'
<1>1. Longer(r, lines, cost, after) /\ ledger' \in Seq(Entry)
  BY FiledEntries
<1>2. balance' \in [SKUs -> Balance]
  BY FiledBalances
<1>3. /\ rows' \in Seq(Row) /\ DOMAIN rows' = DOMAIN rows \cup {r} /\ rows'[r].status = "posted"
      /\ overwritten' = overwritten /\ recosts' = recosts /\ clock' = clock + 1
      /\ postings' \subseteq postings
  BY DEF Filed, Books, desk
<1>4. ASSUME NEW e \in DOMAIN ledger'
      PROVE  ledger'[e].row \in DOMAIN rows' /\ rows'[ledger'[e].row].status = "posted"
  <2>1. CASE e \in DOMAIN ledger
    BY <1>1, <1>3, <2>1 DEF TypeOK, Longer
  <2>2. CASE e \in Fresh
    <3>1. ledger'[e].row = r
      BY <1>1, <2>2 DEF Longer, Made
    <3> QED
      BY <1>3, <3>1
  <2> QED
    BY <2>1, <2>2 DEF Fresh
<1>5. /\ overwritten' \subseteq SKUs /\ clock' \in Nat /\ recosts' \in Nat
      /\ \A p \in postings' : p.row \in DOMAIN rows'
  BY <1>3 DEF TypeOK
<1> QED
  BY <1>1, <1>2, <1>3, <1>4, <1>5 DEF TypeOK

(* Every posted line still has its entry, and every entry its line. *)
LEMMA FiledMatched ==
    ASSUME TypeOK, Matched, NEW r, NEW lines, NEW cost, NEW after, Filed(r, lines, cost, after)
    PROVE  Matched'
<1>1. Longer(r, lines, cost, after)
  BY FiledEntries
<1>2. /\ DOMAIN rows' = DOMAIN rows \cup {r} /\ rows'[r].status = "posted" /\ rows'[r].lines = lines
      /\ \A q \in DOMAIN rows : q # r => rows'[q] = rows[q]
  BY DEF Filed
<1>3. DOMAIN ledger' = DOMAIN ledger \cup Fresh
  BY <1>1 DEF Longer, Fresh
<1>4. ASSUME NEW e \in DOMAIN ledger'
      PROVE  \E i \in DOMAIN rows'[ledger'[e].row].lines :
                 /\ ledger'[e].sku = rows'[ledger'[e].row].lines[i].sku
                 /\ ledger'[e].delta = rows'[ledger'[e].row].lines[i].delta
  <2>1. CASE e \in DOMAIN ledger
    <3>1. ledger'[e] = ledger[e] /\ rows'[ledger[e].row] = rows[ledger[e].row]
      BY <1>1, <2>1 DEF Longer
    <3>2. \E i \in DOMAIN rows[ledger[e].row].lines :
                 /\ ledger[e].sku = rows[ledger[e].row].lines[i].sku
                 /\ ledger[e].delta = rows[ledger[e].row].lines[i].delta
      BY <2>1 DEF Matched
    <3> QED
      BY <3>1, <3>2
  <2>2. CASE e \in Fresh
    <3>1. PICK i \in DOMAIN lines : Made(e, r, lines[i], cost[i], after[i])
      BY <1>1, <2>2 DEF Longer
    <3> QED
      BY <1>2, <3>1 DEF Made
  <2> QED
    BY <1>3, <2>1, <2>2
<1>5. ASSUME NEW e \in DOMAIN ledger', NEW f \in DOMAIN ledger',
             ledger'[e].row = ledger'[f].row, ledger'[e].sku = ledger'[f].sku
      PROVE  e = f
  <2>1. \A d \in DOMAIN ledger : ledger'[d] = ledger[d] /\ ledger[d].row # r
    BY <1>1 DEF Longer
  <2>2. \A d \in Fresh : ledger'[d].row = r
    BY <1>1 DEF Longer, Made
  <2>3. CASE e \in DOMAIN ledger /\ f \in DOMAIN ledger
    BY <1>5, <2>1, <2>3 DEF Matched
  <2>4. CASE e \in Fresh /\ f \in Fresh
    BY <1>1, <1>5, <2>4 DEF Longer
  <2> QED
    BY <1>3, <1>5, <2>1, <2>2, <2>3, <2>4
<1>6. ASSUME NEW q \in DOMAIN rows', rows'[q].status = "posted", NEW i \in DOMAIN rows'[q].lines
      PROVE  \E e \in DOMAIN ledger' : ledger'[e].row = q /\ ledger'[e].sku = rows'[q].lines[i].sku
  <2>1. CASE q = r
    <3>1. PICK e \in Fresh : Made(e, r, lines[i], cost[i], after[i])
      BY <1>1, <1>2, <2>1 DEF Longer
    <3> QED
      BY <1>2, <1>3, <2>1, <3>1 DEF Made
  <2>2. CASE q # r
    <3>1. q \in DOMAIN rows /\ rows'[q] = rows[q]
      BY <1>2, <2>2
    <3>2. PICK e \in DOMAIN ledger : ledger[e].row = q /\ ledger[e].sku = rows[q].lines[i].sku
      BY <1>6, <3>1 DEF Matched
    <3>3. e \in DOMAIN ledger' /\ ledger'[e] = ledger[e]
      BY <1>1 DEF Longer
    <3> QED
      BY <3>1, <3>2, <3>3
  <2> QED
    BY <2>1, <2>2
<1> QED
  BY <1>4, <1>5, <1>6 DEF Matched

(* Documents stay well formed. *)
LEMMA FiledWorking ==
    ASSUME TypeOK, Working, NEW r, NEW lines, NEW cost, NEW after, Filed(r, lines, cost, after),
           correcting' \in {correcting, NoCorrection}
    PROVE  Working'
<1>1. /\ DOMAIN rows' = DOMAIN rows \cup {r} /\ GoodRow(r)' /\ clock' = clock + 1 /\ form' = form
      /\ \A q \in DOMAIN rows : q # r => rows'[q] = rows[q]
  BY DEF Filed, Books, desk
<1>2. ASSUME NEW q \in DOMAIN rows'
      PROVE  GoodRow(q)'
  <2>1. CASE q = r
    BY <1>1, <2>1
  <2>2. CASE q # r
    <3>1. q \in DOMAIN rows /\ rows'[q] = rows[q] /\ GoodRow(q)
      BY <1>1, <2>2 DEF Working
    <3> QED
      BY <3>1 DEF GoodRow
  <2> QED
    BY <2>1, <2>2
<1>3. correcting' # NoCorrection => correcting' = correcting
  OBVIOUS
<1>4. clock \in Nat
  BY DEF TypeOK
<1> QED
  BY <1>1, <1>2, <1>3, <1>4 DEF Working

(* A receipt is booked at what it cost. *)
LEMMA FiledCosts ==
    ASSUME TypeOK, CostsMatch, NEW r, NEW lines, NEW cost, NEW after, Filed(r, lines, cost, after),
           rows'[r].type = "purchase_receipt" /\ recosts = 0 =>
               /\ Spreads(lines, rows'[r].charges)
               /\ cost = LineCosts(lines, rows'[r].charges)
    PROVE  CostsMatch'
<1>1. Longer(r, lines, cost, after)
  BY FiledEntries
<1>2. rows'[r].lines = lines /\ recosts' = recosts /\ Distinct(lines)
  BY DEF Filed, GoodLines
<1>3. ASSUME NEW e \in DOMAIN ledger', recosts' = 0, rows'[ledger'[e].row].type = "purchase_receipt"
      PROVE  LET row == rows'[ledger'[e].row]
             IN  /\ Spreads(row.lines, row.charges)
                 /\ ledger'[e].cost = LineCosts(row.lines, row.charges)[LineOf(row.lines, ledger'[e].sku)]
  <2>1. CASE e \in DOMAIN ledger
    <3>1. ledger'[e] = ledger[e] /\ rows'[ledger[e].row] = rows[ledger[e].row]
      BY <1>1, <2>1 DEF Longer
    <3> QED
      BY <1>2, <1>3, <2>1, <3>1 DEF CostsMatch
  <2>2. CASE e \in Fresh
    <3>1. PICK i \in DOMAIN lines : Made(e, r, lines[i], cost[i], after[i])
      BY <1>1, <2>2 DEF Longer
    <3>2. ledger'[e].row = r /\ ledger'[e].cost = cost[i] /\ LineOf(lines, ledger'[e].sku) = i
      BY <1>2, <3>1, LineOfFacts DEF Made
    <3> QED
      BY <1>2, <1>3, <3>2
  <2> QED
    BY <2>1, <2>2 DEF Fresh
<1> QED
  BY <1>3 DEF CostsMatch

(* What becomes of a SKU: nothing, or an entry more that comes last.         *)
Kept(s) ==
    /\ EntriesOf(s)' = EntriesOf(s) /\ balance'[s] = balance[s]
    /\ \A f \in EntriesOf(s) : ledger'[f] = ledger[f] /\ FiledAt(f)' = FiledAt(f)
Grown(s, e, r, line, cost, after) ==
    /\ line.sku = s /\ line.delta \in Int /\ line.delta # 0
    /\ Made(e, r, line, cost, after) /\ FiledAt(e)' = rows'[r].posted
    /\ e \notin DOMAIN ledger /\ EntriesOf(s)' = EntriesOf(s) \cup {e} /\ e \in Nat
    /\ \A f \in DOMAIN ledger : f < e
    /\ \A f \in EntriesOf(s) : ledger'[f] = ledger[f] /\ FiledAt(f)' = FiledAt(f)
    /\ balance'[s] = after /\ after \in Balance /\ after.stock = balance[s].stock + line.delta
    /\ after.stock >= Lowest(s)

(* What a filed document does to the history of one SKU. *)
LEMMA FiledHistory ==
    ASSUME TypeOK, NEW r, NEW lines, NEW cost, NEW after, Filed(r, lines, cost, after), NEW s \in SKUs
    PROVE  \/ s \notin SKUsOf(lines) /\ Kept(s)
           \/ \E i \in DOMAIN lines, e \in Fresh : Grown(s, e, r, lines[i], cost[i], after[i])
<1>1. Longer(r, lines, cost, after)
  BY FiledEntries
<1>2. /\ DOMAIN ledger' = DOMAIN ledger \cup Fresh
      /\ \A f \in DOMAIN ledger : ledger'[f] = ledger[f] /\ FiledAt(f)' = FiledAt(f)
  BY <1>1 DEF Longer, Fresh, FiledAt
<1>3. CASE s \notin SKUsOf(lines)
  <2>1. balance'[s] = balance[s]
    BY <1>3, FiledBalances
  <2>2. \A e \in Fresh : ledger'[e].sku # s
    BY <1>1, <1>3 DEF Longer, Made, SKUsOf
  <2>3. EntriesOf(s)' = EntriesOf(s)
    BY <1>2, <2>2 DEF EntriesOf
  <2> QED
    BY <1>2, <1>3, <2>1, <2>3 DEF Kept, EntriesOf
<1>4. CASE s \in SKUsOf(lines)
  <2>1. PICK i \in DOMAIN lines : lines[i].sku = s
    BY <1>4 DEF SKUsOf
  <2>2. PICK e \in Fresh : Made(e, r, lines[i], cost[i], after[i])
    BY <1>1 DEF Longer
  <2>3. EntriesOf(s)' = EntriesOf(s) \cup {e}
    <3>1. ledger'[e].sku = s
      BY <2>1, <2>2 DEF Made
    <3>2. \A f \in Fresh : ledger'[f].sku = s => f = e
      BY <1>1, <3>1 DEF Longer
    <3> QED
      BY <1>2, <2>2, <3>1, <3>2 DEF EntriesOf
  <2>4. balance'[s] = after[i]
    BY <2>1, FiledBalances
  <2>5. /\ after[i] \in Balance /\ after[i].stock = balance[s].stock + lines[i].delta
        /\ after[i].stock >= Lowest(s)
    BY <2>1 DEF Filed
  <2>6. lines[i].delta \in Int /\ lines[i].delta # 0
    <3>1. lines \in Seq(Line) /\ lines[i].delta # 0
      BY DEF Filed, GoodLines
    <3>2. lines \in [1..Len(lines) -> Line] /\ DOMAIN lines = 1..Len(lines)
      BY <3>1, LenProperties
    <3> QED
      BY <3>1, <3>2 DEF Line
  <2>7. e \notin DOMAIN ledger /\ e \in Nat /\ \A f \in DOMAIN ledger : f < e
    BY <1>1 DEF Longer, Fresh
  <2>8. FiledAt(e)' = rows'[r].posted
    BY <2>2 DEF FiledAt, Made
  <2>9. \A f \in EntriesOf(s) : ledger'[f] = ledger[f] /\ FiledAt(f)' = FiledAt(f)
    BY <1>2 DEF EntriesOf
  <2>10. Grown(s, e, r, lines[i], cost[i], after[i])
    BY <2>1, <2>2, <2>3, <2>4, <2>5, <2>6, <2>7, <2>8, <2>9 DEF Grown
  <2> QED
    BY <2>10
<1> QED
  BY <1>3, <1>4

(* The entries of a SKU are finitely many, with quantities and balances.     *)
LEMMA EntriesFacts ==
    ASSUME TypeOK, NEW s
    PROVE  /\ IsFiniteSet(EntriesOf(s)) /\ EntriesOf(s) \in SUBSET Nat /\ EntriesOf(s) \in SUBSET DOMAIN ledger
           /\ \A e \in EntriesOf(s) : ledger[e] \in Entry /\ ledger[e].sku = s /\ Deltas[e] = ledger[e].delta
<1>1. Len(ledger) \in Nat /\ DOMAIN ledger = 1..Len(ledger) /\ ledger \in [1..Len(ledger) -> Entry]
  BY LenProperties DEF TypeOK
<1>2. IsFiniteSet(1..Len(ledger)) /\ 1..Len(ledger) \in SUBSET Nat
  BY <1>1, FS_Interval
<1>3. EntriesOf(s) \in SUBSET DOMAIN ledger
  BY DEF EntriesOf
<1>4. IsFiniteSet(EntriesOf(s)) /\ EntriesOf(s) \in SUBSET Nat
  BY <1>1, <1>2, <1>3, FS_Subset
<1> QED
  BY <1>1, <1>3, <1>4 DEF EntriesOf, Deltas

(* Each SKU of the document gains what its new entry books. *)
LEMMA FiledAddsUp ==
    ASSUME TypeOK, AddsUp, NEW r, NEW lines, NEW cost, NEW after, Filed(r, lines, cost, after)
    PROVE  AddsUp'
<1>1. ASSUME NEW s \in SKUs \ overwritten
      PROVE  balance'[s].stock = Booked(s)'
  <2>1. balance[s].stock = Booked(s)
    BY <1>1 DEF AddsUp
  <2>2. /\ IsFiniteSet(EntriesOf(s)) /\ EntriesOf(s) \in SUBSET DOMAIN ledger
        /\ \A e \in EntriesOf(s) : ledger[e] \in Entry /\ Deltas[e] = ledger[e].delta
    BY EntriesFacts
  <2>3. DOMAIN ledger \subseteq DOMAIN ledger'
    BY FiledEntries DEF Longer
  <2>4. \A e \in DOMAIN ledger' : Deltas'[e] = ledger'[e].delta
    BY DEF Deltas
  <2>5. CASE Kept(s)
    <3>1. \A e \in EntriesOf(s) : Deltas'[e] = Deltas[e]
      BY <2>2, <2>3, <2>4, <2>5 DEF Kept
    <3>2. SumFunctionOnSet(Deltas', EntriesOf(s)) = SumFunctionOnSet(Deltas, EntriesOf(s))
      BY <2>2, <3>1, SumSame
    <3> QED
      BY <2>1, <2>5, <3>2 DEF Kept, Booked
  <2>6. ASSUME NEW i \in DOMAIN lines, NEW e \in Fresh, Grown(s, e, r, lines[i], cost[i], after[i])
        PROVE  balance'[s].stock = Booked(s)'
    <3> DEFINE old == EntriesOf(s)
               all == old \cup {e}
    <3>1. \A f \in old : Deltas'[f] = Deltas[f] /\ Deltas[f] \in Int
      BY <2>2, <2>3, <2>4, <2>6 DEF Grown, Entry
    <3>2. Deltas'[e] = lines[i].delta /\ lines[i].delta \in Int
      BY <2>4, <2>6 DEF Grown, Made, Fresh
    <3>3. e \notin old /\ EntriesOf(s)' = all /\ balance'[s].stock = balance[s].stock + lines[i].delta
      BY <2>2, <2>6 DEF Grown
    <3>4. IsFiniteSet(all)
      BY <2>2, FS_AddElement
    <3> HIDE DEF old
    <3>5. \A f \in all : Deltas'[f] \in Int
      BY <3>1, <3>2
    <3>6. SumFunctionOnSet(Deltas', all) = Deltas'[e] + SumFunctionOnSet(Deltas', all \ {e})
      BY <3>4, <3>5, SumTake
    <3>7. all \ {e} = old
      BY <3>3
    <3>8. SumFunctionOnSet(Deltas', old) = SumFunctionOnSet(Deltas, old)
      BY <2>2, <3>1, SumSame DEF old
    <3>9. SumFunctionOnSet(Deltas, old) \in Int
      BY <2>2, <3>1, SumInt DEF old
    <3>10. Booked(s) = SumFunctionOnSet(Deltas, old) /\ Booked(s)' = SumFunctionOnSet(Deltas', all)
      BY <3>3 DEF Booked, old
    <3> HIDE DEF all
    <3>11. SumFunctionOnSet(Deltas', all) = lines[i].delta + SumFunctionOnSet(Deltas, old)
      BY <3>2, <3>6, <3>7, <3>8
    <3>12. Booked(s)' = lines[i].delta + Booked(s) /\ Booked(s) \in Int
      BY <3>9, <3>10, <3>11
    <3> QED
      BY <2>1, <3>2, <3>3, <3>12
  <2> QED
    BY <2>5, <2>6, FiledHistory
<1>2. overwritten' = overwritten
  BY DEF Filed, desk
<1> QED
  BY <1>1, <1>2 DEF AddsUp

(* No stock falls below its lowest when a document is filed. *)
LEMMA FiledStocksFit ==
    ASSUME TypeOK, StocksFit, NEW r, NEW lines, NEW cost, NEW after, Filed(r, lines, cost, after)
    PROVE  StocksFit'
<1>1. Longer(r, lines, cost, after)
  BY FiledEntries
<1>2. form' = form
  BY DEF Filed, desk
<1>3. ASSUME NEW e \in DOMAIN ledger'
      PROVE  /\ ledger'[e].after.stock = ledger'[e].before.stock + ledger'[e].delta
             /\ ledger'[e].before.stock >= Lowest(ledger'[e].sku)
             /\ ledger'[e].after.stock >= Lowest(ledger'[e].sku)
  <2>1. CASE e \in DOMAIN ledger
    BY <1>1, <2>1 DEF Longer, StocksFit
  <2>2. CASE e \in Fresh
    <3>1. PICK i \in DOMAIN lines : Made(e, r, lines[i], cost[i], after[i])
      BY <1>1, <2>2 DEF Longer
    <3>2. /\ lines[i].sku \in SKUs /\ after[i].stock = balance[lines[i].sku].stock + lines[i].delta
          /\ after[i].stock >= Lowest(lines[i].sku)
      BY FiledBalances DEF Filed
    <3> QED
      BY <3>1, <3>2 DEF Made, StocksFit
  <2> QED
    BY <2>1, <2>2 DEF Fresh
<1>4. ASSUME NEW s \in SKUs
      PROVE  balance'[s].stock >= Lowest(s)
  <2>1. CASE Kept(s)
    BY <2>1 DEF Kept, StocksFit
  <2>2. ASSUME NEW i \in DOMAIN lines, NEW e \in Fresh, Grown(s, e, r, lines[i], cost[i], after[i])
        PROVE  balance'[s].stock >= Lowest(s)
    BY <2>2 DEF Grown
  <2> QED
    BY <2>1, <2>2, FiledHistory
<1> QED
  BY <1>2, <1>3, <1>4 DEF StocksFit, Lowest

(* A document is filed under the time it takes once it holds its locks, or   *)
(* took before.                                                              *)
Timed(r) ==
    \/ rows'[r].posted = Now /\ correcting' = correcting
    \/ /\ correcting # NoCorrection /\ rows'[r].posted = Then(correcting.now)
       /\ correcting' = NoCorrection

(* When an entry was filed is a number. *)
LEMMA FiledAtFacts ==
    ASSUME TypeOK
    PROVE  /\ \A e \in DOMAIN ledger : FiledAt(e) \in Nat
           /\ \A r \in DOMAIN rows : rows[r] \in Row
<1>1. rows \in [1..Len(rows) -> Row] /\ DOMAIN rows = 1..Len(rows)
  BY LenProperties DEF TypeOK
<1> QED
  BY <1>1 DEF TypeOK, FiledAt, Row

(* Filing times stay distinct, and only one correction is ever late. *)
LEMMA FiledFiling ==
    ASSUME TypeOK, Working, Filing, NEW r, NEW lines, NEW cost, NEW after,
           Filed(r, lines, cost, after), Timed(r)
    PROVE  Filing'
<1> DEFINE t == rows'[r].posted
<1>1. Longer(r, lines, cost, after)
  BY FiledEntries
<1>2. DOMAIN ledger' = DOMAIN ledger \cup Fresh /\ DOMAIN ledger' \subseteq Nat
  BY <1>1 DEF Longer, Fresh
<1>3. \A e \in DOMAIN ledger : FiledAt(e)' = FiledAt(e) /\ FiledAt(e) \in Nat /\ FiledAt(e) <= 2 * clock
                             /\ ledger'[e] = ledger[e]
  BY <1>1, FiledAtFacts DEF Longer, FiledAt, Filing
<1>4. \A e \in Fresh : FiledAt(e)' = t /\ e \notin DOMAIN ledger
  BY <1>1 DEF Longer, Made, FiledAt, Fresh
<1>5. clock' = clock + 1 /\ clock \in Nat
  BY DEF Filed, Books, TypeOK
<1>6. correcting # NoCorrection => correcting.now \in Nat /\ correcting.now <= clock
  BY DEF Working
<1>7. t \in Int /\ t <= 2 * clock'
  <2>1. CASE t = Now
    BY <1>5, <2>1 DEF Now
  <2>2. CASE correcting # NoCorrection /\ t = Then(correcting.now)
    BY <1>5, <1>6, <2>2 DEF Then
  <2> QED
    BY <2>1, <2>2 DEF Timed
<1>8. \A e \in DOMAIN ledger : FiledAt(e) # t
  <2>1. CASE t = Now
    BY <1>3, <1>5, <2>1 DEF Now
  <2>2. CASE correcting # NoCorrection /\ t = Then(correcting.now)
    BY <2>2 DEF Filing
  <2> QED
    BY <2>1, <2>2 DEF Timed
<1>9. \A e, f \in DOMAIN ledger :
          e < f /\ ledger[e].sku = ledger[f].sku /\ FiledAt(f) < FiledAt(e) => FiledAt(e) < t
  <2>1. CASE t = Now
    BY <1>3, <1>5, <2>1 DEF Now
  <2>2. CASE correcting # NoCorrection /\ t = Then(correcting.now)
    BY <2>2 DEF Filing
  <2> QED
    BY <2>1, <2>2 DEF Timed
<1>10. correcting' # NoCorrection =>
         correcting' = correcting /\ t # Then(correcting.now) /\ t = Now
  <2>1. CASE t = Now /\ correcting' = correcting
    BY <1>5, <1>6, <2>1 DEF Now, Then
  <2> QED
    BY <2>1 DEF Timed
<1>11. \A e \in DOMAIN ledger' : FiledAt(e)' <= 2 * clock'
  BY <1>2, <1>3, <1>4, <1>5, <1>7
<1>12. ASSUME NEW e \in DOMAIN ledger', NEW f \in DOMAIN ledger',
             ledger'[e].sku = ledger'[f].sku, FiledAt(e)' = FiledAt(f)'
       PROVE  e = f
  <2>1. CASE e \in DOMAIN ledger /\ f \in DOMAIN ledger
    BY <1>3, <1>12, <2>1 DEF Filing
  <2>2. CASE e \in Fresh /\ f \in Fresh
    BY <1>1, <1>12, <2>2 DEF Longer
  <2> QED
    BY <1>2, <1>3, <1>4, <1>8, <1>12, <2>1, <2>2
<1>13. ASSUME NEW e \in DOMAIN ledger', NEW f \in DOMAIN ledger', e < f,
              ledger'[e].sku = ledger'[f].sku
       PROVE  e \in DOMAIN ledger
  <2>1. CASE e \in Fresh /\ f \in Fresh
    BY <1>1, <1>2, <1>13, <2>1 DEF Longer
  <2>2. CASE e \in Fresh /\ f \in DOMAIN ledger
    BY <1>1, <1>2, <1>13, <2>2 DEF Longer
  <2> QED
    BY <1>2, <2>1, <2>2
<1>14. ASSUME NEW e \in DOMAIN ledger', NEW f \in DOMAIN ledger', NEW g \in DOMAIN ledger',
              ledger'[e].sku = ledger'[f].sku, ledger'[f].sku = ledger'[g].sku,
              e < f, f < g, FiledAt(f)' < FiledAt(e)'
       PROVE  FiledAt(e)' < FiledAt(g)'
  <2>1. e \in DOMAIN ledger /\ f \in DOMAIN ledger
    BY <1>13, <1>14
  <2>2. CASE g \in DOMAIN ledger
    BY <1>3, <1>14, <2>1, <2>2 DEF Filing
  <2>3. CASE g \in Fresh
    BY <1>3, <1>4, <1>9, <1>14, <2>1, <2>3
  <2> QED
    BY <1>2, <2>2, <2>3
<1>15. ASSUME correcting' # NoCorrection
       PROVE  /\ \A e \in DOMAIN ledger' : FiledAt(e)' # Then(correcting'.now)
              /\ \A e, f \in DOMAIN ledger' :
                    e < f /\ ledger'[e].sku = ledger'[f].sku /\ FiledAt(f)' < FiledAt(e)' =>
                        FiledAt(e)' < Then(correcting'.now)
  <2>1. \A e \in DOMAIN ledger' : FiledAt(e)' # Then(correcting'.now)
    BY <1>2, <1>3, <1>4, <1>10, <1>15 DEF Filing
  <2>2. ASSUME NEW e \in DOMAIN ledger', NEW f \in DOMAIN ledger', e < f,
               ledger'[e].sku = ledger'[f].sku, FiledAt(f)' < FiledAt(e)'
        PROVE  FiledAt(e)' < Then(correcting'.now)
    <3>1. e \in DOMAIN ledger
      BY <1>13, <2>2
    <3>2. CASE f \in DOMAIN ledger
      BY <1>3, <1>10, <1>15, <2>2, <3>1, <3>2 DEF Filing
    <3>3. CASE f \in Fresh
      <4>1. FiledAt(e)' <= 2 * clock /\ FiledAt(f)' = 2 * (clock + 1) /\ FiledAt(e)' \in Nat
        BY <1>3, <1>4, <1>10, <1>15, <3>1, <3>3 DEF Now
      <4> QED
        BY <1>5, <2>2, <4>1
    <3> QED
      BY <1>2, <3>2, <3>3
  <2> QED
    BY <2>1, <2>2
<1> QED
  BY <1>11, <1>12, <1>14, <1>15 DEF Filing

(* Entries that were neighbours stay neighbours, and what follows the last   *)
(* entry of a SKU is the new one.                                            *)
LEMMA FiledFollows ==
    ASSUME TypeOK, NEW r, NEW lines, NEW cost, NEW after, Filed(r, lines, cost, after), NEW s \in SKUs
    PROVE  /\ \A e, f \in EntriesOf(s) : Follows(e, f)' <=> Follows(e, f)
           /\ \A e \in EntriesOf(s), f \in Fresh : ledger'[f].sku = s =>
                  (Follows(e, f)' <=> \A g \in EntriesOf(s) : g <= e)
           /\ \A e \in EntriesOf(s), f \in Fresh : ~ Follows(f, e)'
<1>1. Longer(r, lines, cost, after)
  BY FiledEntries
<1>2. /\ Len(ledger) \in Nat /\ DOMAIN ledger = 1..Len(ledger)
      /\ DOMAIN ledger' = DOMAIN ledger \cup Fresh /\ DOMAIN ledger' \subseteq Nat
      /\ \A e \in DOMAIN ledger : ledger'[e] = ledger[e]
      /\ \A e \in DOMAIN ledger, f \in Fresh : e < f
      /\ \A e, f \in Fresh : ledger'[e].sku = ledger'[f].sku => e = f
  BY <1>1, LenProperties DEF Longer, Fresh, TypeOK
<1>3. Len(ledger') \in Nat /\ DOMAIN ledger' = 1..Len(ledger')
  BY FiledEntries, LenProperties
<1>4. \A e \in EntriesOf(s) : e \in DOMAIN ledger /\ ledger[e].sku = s /\ e \in Nat
  BY <1>2 DEF EntriesOf
<1>5. ASSUME NEW e \in EntriesOf(s), NEW f \in EntriesOf(s)
      PROVE  Follows(e, f)' <=> Follows(e, f)
  <2>1. \A g \in (e + 1)..(f - 1) : g \in DOMAIN ledger /\ ledger'[g] = ledger[g]
    BY <1>2, <1>4
  <2>2. ledger'[e] = ledger[e] /\ ledger'[f] = ledger[f]
    BY <1>2, <1>4
  <2> QED
    BY <2>1, <2>2 DEF Follows
<1>6. ASSUME NEW e \in EntriesOf(s), NEW f \in Fresh, ledger'[f].sku = s
      PROVE  Follows(e, f)' <=> \A g \in EntriesOf(s) : g <= e
  <2>1. f \in Nat /\ e < f /\ ledger'[e].sku = s /\ e \in Nat
    BY <1>2, <1>4
  <2>2. ASSUME Follows(e, f)', NEW g \in EntriesOf(s), ~ (g <= e)
        PROVE  FALSE
    <3>1. g \in Nat /\ g < f /\ ledger'[g].sku = s
      BY <1>2, <1>4
    <3>2. g \in (e + 1)..(f - 1)
      BY <2>1, <2>2, <3>1
    <3> QED
      BY <2>1, <2>2, <3>1, <3>2 DEF Follows
  <2>3. ASSUME \A g \in EntriesOf(s) : g <= e, NEW g \in (e + 1)..(f - 1), ledger'[g].sku = s
        PROVE  FALSE
    <3>1. g \in DOMAIN ledger' /\ g \in Nat /\ e < g /\ g # f
      BY <1>2, <1>3, <1>4, <2>1
    <3>2. g \in DOMAIN ledger /\ ledger[g].sku = s
      BY <1>2, <1>6, <2>3, <3>1
    <3>3. g \in EntriesOf(s)
      BY <3>2 DEF EntriesOf
    <3> QED
      BY <2>1, <2>3, <3>1, <3>3
  <2> QED
    BY <1>6, <2>1, <2>2, <2>3 DEF Follows
<1>7. ASSUME NEW e \in EntriesOf(s), NEW f \in Fresh
      PROVE  ~ Follows(f, e)'
  <2>1. f \in Nat /\ e < f /\ e \in Nat
    BY <1>2, <1>4
  <2> QED
    BY <2>1 DEF Follows
<1> QED
  BY <1>5, <1>6, <1>7

(* The stocks of a SKU join up: a new entry begins with what there is.       *)
LEMMA FiledStocksFollow ==
    ASSUME TypeOK, StocksFollow, NEW r, NEW lines, NEW cost, NEW after, Filed(r, lines, cost, after)
    PROVE  StocksFollow'
<1>1. overwritten' = overwritten
  BY DEF Filed, desk
<1>2. ASSUME NEW s \in SKUs \ overwritten
      PROVE  Gapless(s)'
  <2>1. Gapless(s)
    BY <1>2 DEF StocksFollow
  <2>2. CASE Kept(s)
    BY <2>1, <2>2, FiledFollows DEF Kept, Gapless
  <2>3. ASSUME NEW i \in DOMAIN lines, NEW e \in Fresh, Grown(s, e, r, lines[i], cost[i], after[i])
        PROVE  Gapless(s)'
    <3>1. /\ EntriesOf(s)' = EntriesOf(s) \cup {e} /\ e \notin EntriesOf(s) /\ e \in Nat
          /\ \A f \in EntriesOf(s) : f < e /\ ledger'[f] = ledger[f]
          /\ ledger'[e].sku = s /\ ledger'[e].before = balance[s] /\ ledger'[e].after = balance'[s]
      BY <2>3 DEF Grown, Made, EntriesOf
    <3>2. ASSUME NEW f \in EntriesOf(s), Follows(f, e)'
          PROVE  ledger[f].after.stock = balance[s].stock
      BY <2>1, <3>1, <3>2, FiledFollows DEF Gapless
    <3>3. ~ Follows(e, e)'
      BY <3>1 DEF Follows
    <3>4. ASSUME NEW f \in EntriesOf(s)', NEW g \in EntriesOf(s)', Follows(f, g)'
          PROVE  ledger'[f].after.stock = ledger'[g].before.stock
      BY <2>1, <3>1, <3>2, <3>3, <3>4, FiledFollows DEF Gapless
    <3>5. ASSUME NEW f \in EntriesOf(s)', \A g \in EntriesOf(s)' : g <= f
          PROVE  ledger'[f].after.stock = balance'[s].stock
      <4>1. f = e
        <5>1. EntriesOf(s) \in SUBSET Nat
          BY EntriesFacts
        <5> QED
          BY <3>1, <3>5, <5>1
      <4> QED
        BY <3>1, <4>1
    <3> QED
      BY <3>4, <3>5 DEF Gapless
  <2> QED
    BY <2>2, <2>3, FiledHistory
<1> QED
  BY <1>1, <1>2 DEF StocksFollow

(* A filed document begins where the history of its SKUs ended. *)
LEMMA FiledNoGaps ==
    ASSUME TypeOK, HistoryHasNoGaps, NEW r, NEW lines, NEW cost, NEW after, Filed(r, lines, cost, after)
    PROVE  HistoryHasNoGaps'
<1>1. overwritten' = overwritten
  BY DEF Filed, desk
<1>2. ASSUME NEW s \in SKUs \ overwritten, FiledInOrder(s)'
      PROVE  /\ \A e, f \in EntriesOf(s)' : Follows(e, f)' => ledger'[e].after = ledger'[f].before
             /\ \A e \in EntriesOf(s)' :
                  (\A f \in EntriesOf(s)' : f <= e) => ledger'[e].after = balance'[s]
  <2>1. ASSUME FiledInOrder(s)
        PROVE  /\ \A e, f \in EntriesOf(s) : Follows(e, f) => ledger[e].after = ledger[f].before
               /\ \A e \in EntriesOf(s) :
                    (\A f \in EntriesOf(s) : f <= e) => ledger[e].after = balance[s]
    BY <1>2, <2>1 DEF HistoryHasNoGaps
  <2>2. CASE Kept(s)
    <3>1. FiledInOrder(s)
      BY <1>2, <2>2 DEF Kept, FiledInOrder
    <3> QED
      BY <2>1, <2>2, <3>1, FiledFollows DEF Kept
  <2>3. ASSUME NEW i \in DOMAIN lines, NEW e \in Fresh, Grown(s, e, r, lines[i], cost[i], after[i])
        PROVE  /\ \A f, g \in EntriesOf(s)' : Follows(f, g)' => ledger'[f].after = ledger'[g].before
               /\ \A f \in EntriesOf(s)' :
                    (\A g \in EntriesOf(s)' : g <= f) => ledger'[f].after = balance'[s]
    <3>1. /\ EntriesOf(s)' = EntriesOf(s) \cup {e} /\ e \notin EntriesOf(s) /\ e \in Nat
          /\ \A f \in EntriesOf(s) : f < e /\ ledger'[f] = ledger[f] /\ FiledAt(f)' = FiledAt(f)
          /\ ledger'[e].sku = s /\ ledger'[e].before = balance[s] /\ ledger'[e].after = balance'[s]
      BY <2>3 DEF Grown, Made, EntriesOf
    <3>2. FiledInOrder(s)
      BY <1>2, <3>1 DEF FiledInOrder
    <3>3. ASSUME NEW f \in EntriesOf(s), Follows(f, e)'
          PROVE  ledger[f].after = balance[s]
      BY <2>1, <3>1, <3>2, <3>3, FiledFollows
    <3>4. ~ Follows(e, e)'
      BY <3>1 DEF Follows
    <3>5. ASSUME NEW f \in EntriesOf(s)', NEW g \in EntriesOf(s)', Follows(f, g)'
          PROVE  ledger'[f].after = ledger'[g].before
      BY <2>1, <3>1, <3>2, <3>3, <3>4, <3>5, FiledFollows
    <3>6. ASSUME NEW f \in EntriesOf(s)', \A g \in EntriesOf(s)' : g <= f
          PROVE  ledger'[f].after = balance'[s]
      <4>1. f = e
        <5>1. EntriesOf(s) \in SUBSET Nat
          BY EntriesFacts
        <5> QED
          BY <3>1, <3>6, <5>1
      <4> QED
        BY <3>1, <4>1
    <3> QED
      BY <3>5, <3>6
  <2> QED
    BY <2>2, <2>3, FiledHistory
<1> QED
  BY <1>1, <1>2 DEF HistoryHasNoGaps

(* The most pieces of a SKU that were in stock at once. *)
LEMMA MostOf ==
    ASSUME NEW L, NEW E, IsFiniteSet(E), \A e \in E : L[e].after.stock \in Int
    PROVE  /\ MostIn(L, E) \in Nat /\ \A e \in E : L[e].after.stock <= MostIn(L, E)
           /\ MostIn(L, E) = 0 \/ \E e \in E : MostIn(L, E) = L[e].after.stock
<1> DEFINE f == [e \in E |-> L[e].after.stock]
           T == {0} \cup {L[e].after.stock : e \in E}
<1>1. T = {0} \cup {f[e] : e \in E}
  OBVIOUS
<1>2. \A e \in E : f[e] \in Int
  OBVIOUS
<1>3. \E m \in T : \A n \in T : n <= m
  <2> HIDE DEF f, T
  <2> QED
    BY <1>1, <1>2, LargestOf
<1>4. T \in SUBSET Int
  OBVIOUS
<1>5. Max(T) \in T /\ \A n \in T : n <= Max(T)
  <2> HIDE DEF T
  <2>1. \E m \in T : \A n \in T : m >= n
    BY <1>3, <1>4
  <2>2. Max(T) \in T /\ \A n \in T : Max(T) >= n
    BY <2>1 DEF Max
  <2> QED
    BY <1>4, <2>2
<1>6. MostIn(L, E) = Max(T)
  BY DEF MostIn
<1>7. \A e \in E : L[e].after.stock \in T
  OBVIOUS
<1>8. \A n \in T : n = 0 \/ \E e \in E : n = L[e].after.stock
  OBVIOUS
<1>9. 0 \in T
  OBVIOUS
<1> HIDE DEF T
<1>10. Max(T) \in Int /\ 0 <= Max(T)
  BY <1>4, <1>5, <1>9
<1> QED
  BY <1>5, <1>6, <1>7, <1>8, <1>10

(* The most that a SKU ever had in stock. *)
LEMMA MostFacts ==
    ASSUME TypeOK, NEW s
    PROVE  /\ Most(s) \in Nat /\ \A e \in EntriesOf(s) : ledger[e].after.stock <= Most(s)
           /\ Most(s) = 0 \/ \E e \in EntriesOf(s) : Most(s) = ledger[e].after.stock
<1>1. IsFiniteSet(EntriesOf(s)) /\ \A e \in EntriesOf(s) : ledger[e] \in Entry
  BY EntriesFacts
<1>2. \A e \in EntriesOf(s) : ledger[e].after.stock \in Int
  BY <1>1 DEF Entry, Balance
<1> QED
  BY <1>1, <1>2, MostOf DEF Most

(* What is near stays near when there was more in stock. *)
LEMMA NearMore ==
    ASSUME NEW b \in Balance, NEW m \in Int, NEW n \in Int, m <= n, Near(b, m)
    PROVE  Near(b, n)
<1>1. Gap(b) \in Int
  BY DEF Gap, Balance
<1> QED
  BY <1>1 DEF Near

(* The balance a document leaves is near too. *)
Stays(s, after) ==
    s \notin overwritten /\ FiledInOrder(s) /\ Opening[s] >= 0 =>
        \A n \in Nat : n >= Most(s) /\ n >= after.stock => Near(after, n)

(* Values stay near their averages when a document is filed. *)
LEMMA FiledNear ==
    ASSUME TypeOK, ValuesNear, NEW r, NEW lines, NEW cost, NEW after, Filed(r, lines, cost, after),
           \A i \in DOMAIN lines : Stays(lines[i].sku, after[i])
    PROVE  ValuesNear'
<1>1. overwritten' = overwritten
  BY DEF Filed, desk
<1>2. ASSUME NEW s \in SKUs \ overwritten, FiledInOrder(s)', Opening[s] >= 0
      PROVE  /\ Near(balance'[s], Most(s)')
             /\ \A e \in EntriesOf(s)' : Near(ledger'[e].before, Most(s)') /\ Near(ledger'[e].after, Most(s)')
  <2>1. /\ IsFiniteSet(EntriesOf(s))
        /\ \A e \in EntriesOf(s) : ledger[e] \in Entry /\ ledger[e].after.stock \in Int
    BY EntriesFacts DEF Entry, Balance
  <2>2. Most(s) \in Nat /\ (Most(s) = 0 \/ \E e \in EntriesOf(s) : Most(s) = ledger[e].after.stock)
    BY MostFacts
  <2>3. balance[s] \in Balance
    BY DEF TypeOK
  <2>4. CASE Kept(s)
    <3>1. FiledInOrder(s) /\ EntriesOf(s)' = EntriesOf(s) /\ \A e \in EntriesOf(s) : ledger'[e] = ledger[e]
      BY <1>2, <2>4 DEF Kept, FiledInOrder
    <3>2. Most(s)' = Most(s)
      <4>1. {ledger'[e].after.stock : e \in EntriesOf(s)'} = {ledger[e].after.stock : e \in EntriesOf(s)}
        BY <3>1
      <4> QED
        BY <4>1 DEF Most, MostIn
    <3> QED
      BY <1>2, <2>4, <3>1, <3>2 DEF ValuesNear, Kept
  <2>5. ASSUME NEW i \in DOMAIN lines, NEW e \in Fresh, Grown(s, e, r, lines[i], cost[i], after[i])
        PROVE  /\ Near(balance'[s], Most(s)')
               /\ \A f \in EntriesOf(s)' : Near(ledger'[f].before, Most(s)') /\ Near(ledger'[f].after, Most(s)')
    <3>1. /\ EntriesOf(s)' = EntriesOf(s) \cup {e}
          /\ \A f \in EntriesOf(s) : f < e /\ ledger'[f] = ledger[f] /\ FiledAt(f)' = FiledAt(f)
          /\ ledger'[e].before = balance[s] /\ ledger'[e].after = after[i] /\ balance'[s] = after[i]
          /\ after[i] \in Balance /\ lines[i].sku = s
      BY <2>5 DEF Grown, Made, EntriesOf
    <3>2. FiledInOrder(s)
      BY <1>2, <3>1 DEF FiledInOrder
    <3>3. /\ Near(balance[s], Most(s))
          /\ \A f \in EntriesOf(s) : Near(ledger[f].before, Most(s)) /\ Near(ledger[f].after, Most(s))
      BY <1>2, <3>2 DEF ValuesNear
    <3>4. Most(s)' \in Nat /\ \A f \in EntriesOf(s)' : ledger'[f].after.stock <= Most(s)'
      <4>1. IsFiniteSet(EntriesOf(s)')
        BY <2>1, <3>1, FS_AddElement
      <4>2. \A f \in EntriesOf(s)' : ledger'[f].after.stock \in Int
        BY <2>1, <3>1 DEF Balance
      <4>3. Most(s)' = MostIn(ledger', EntriesOf(s)')
        BY DEF Most
      <4> QED
        BY <4>1, <4>2, <4>3, MostOf
    <3>5. Most(s) <= Most(s)'
      BY <2>1, <2>2, <3>1, <3>4
    <3>6. Near(after[i], Most(s)')
      <4>1. Stays(s, after[i]) /\ after[i].stock <= Most(s)'
        BY <3>1, <3>4
      <4>2. Most(s)' >= Most(s) /\ Most(s)' >= after[i].stock
        BY <2>2, <3>1, <3>4, <3>5, <4>1 DEF Balance
      <4> QED
        BY <1>2, <3>2, <3>4, <4>1, <4>2 DEF Stays
    <3>7. Near(balance[s], Most(s)')
      BY <2>2, <2>3, <3>3, <3>4, <3>5, NearMore
    <3>8. ASSUME NEW f \in EntriesOf(s)
          PROVE  Near(ledger[f].before, Most(s)') /\ Near(ledger[f].after, Most(s)')
      <4>1. ledger[f].before \in Balance /\ ledger[f].after \in Balance
        BY <2>1 DEF Entry
      <4> QED
        BY <2>2, <3>3, <3>4, <3>5, <4>1, NearMore
    <3> QED
      BY <3>1, <3>6, <3>7, <3>8
  <2> QED
    BY <2>4, <2>5, FiledHistory
<1> QED
  BY <1>1, <1>2 DEF ValuesNear

(* A document has one entry for each of its SKUs. *)
LEMMA EntryOfFacts ==
    ASSUME TypeOK, Matched
    PROVE  /\ \A s : \A e \in EntriesOf(s) : EntryOf(ledger[e].row, s) = e
           /\ \A r \in DOMAIN rows : rows[r].status = "posted" =>
                  \A s \in SKUsOf(rows[r].lines) :
                      EntryOf(r, s) \in EntriesOf(s) /\ ledger[EntryOf(r, s)].row = r
<1>1. ASSUME NEW s, NEW e \in EntriesOf(s)
      PROVE  EntryOf(ledger[e].row, s) = e
  <2>1. EntryOf(ledger[e].row, s) \in EntriesOf(s) /\ ledger[EntryOf(ledger[e].row, s)].row = ledger[e].row
    BY <1>1 DEF EntryOf
  <2> QED
    BY <1>1, <2>1 DEF Matched, EntriesOf
<1>2. ASSUME NEW r \in DOMAIN rows, rows[r].status = "posted", NEW s \in SKUsOf(rows[r].lines)
      PROVE  EntryOf(r, s) \in EntriesOf(s) /\ ledger[EntryOf(r, s)].row = r
  <2>1. PICK e \in DOMAIN ledger : ledger[e].row = r /\ ledger[e].sku = s
    BY <1>2 DEF Matched, SKUsOf
  <2> QED
    BY <2>1 DEF EntryOf, EntriesOf
<1> QED
  BY <1>1, <1>2

(* Every SKU of a document that undoes another was last touched by that one. *)
Undoes(r, lines) ==
    LET v == rows'[r].reverses
    IN  v # 0 =>
        /\ v \in DOMAIN rows /\ rows[v].status = "posted"
        /\ SKUsOf(lines) = SKUsOf(rows[v].lines)
        /\ \A s \in SKUsOf(lines) \ overwritten : \A g \in EntriesOf(s) : g <= EntryOf(v, s)

(* What was voided last stays so: later entries come after the void. *)
LEMMA FiledVoids ==
    ASSUME TypeOK, Working, Matched, Voids, NEW r, NEW lines, NEW cost, NEW after,
           Filed(r, lines, cost, after), Undoes(r, lines)
    PROVE  Voids'
<1>1. Longer(r, lines, cost, after)
  BY FiledEntries
<1>2. /\ DOMAIN rows' = DOMAIN rows \cup {r} /\ rows'[r].lines = lines
      /\ \A q \in DOMAIN rows : q # r => rows'[q] = rows[q]
      /\ r \in DOMAIN rows => rows[r].status = "draft"
      /\ overwritten' = overwritten
  BY DEF Filed, desk
<1>3. Matched'
  BY FiledMatched
<1>4. ASSUME NEW s, NEW q, NEW e \in EntriesOf(s)', ledger'[e].row = q
      PROVE  EntryOf(q, s)' = e
  <2>1. EntryOf(q, s)' \in EntriesOf(s)' /\ ledger'[EntryOf(q, s)'].row = q
    BY <1>4 DEF EntryOf
  <2> QED
    BY <1>3, <1>4, <2>1 DEF Matched, EntriesOf
<1>5. ASSUME NEW s, NEW e \in EntriesOf(s)
      PROVE  e \in EntriesOf(s)' /\ ledger'[e] = ledger[e]
  BY <1>1, <1>5 DEF Longer, EntriesOf
<1>6. ASSUME NEW q \in DOMAIN rows, rows[q].status = "posted"
      PROVE  q # r /\ q \in DOMAIN rows' /\ rows'[q] = rows[q]
             /\ \A s \in SKUsOf(rows[q].lines) :
                  s \in SKUs /\ EntryOf(q, s) \in EntriesOf(s) /\ EntryOf(q, s)' = EntryOf(q, s)
  <2>1. q # r /\ q \in DOMAIN rows' /\ rows'[q] = rows[q]
    BY <1>2, <1>6
  <2>2. ASSUME NEW s \in SKUsOf(rows[q].lines)
        PROVE  s \in SKUs /\ EntryOf(q, s) \in EntriesOf(s) /\ EntryOf(q, s)' = EntryOf(q, s)
    <3>1. EntryOf(q, s) \in EntriesOf(s) /\ ledger[EntryOf(q, s)].row = q
      BY <1>6, EntryOfFacts
    <3>2. PICK e : e = EntryOf(q, s)
      OBVIOUS
    <3>3. e \in EntriesOf(s)' /\ ledger'[e].row = q
      BY <1>5, <3>1, <3>2
    <3>4. EntryOf(q, s)' = e
      BY <1>4, <3>3
    <3>5. ledger[e] \in Entry /\ ledger[e].sku = s
      BY <3>1, <3>2, EntriesFacts
    <3> QED
      BY <3>1, <3>2, <3>4, <3>5 DEF Entry
  <2> QED
    BY <2>1, <2>2
<1>7. ASSUME NEW v \in DOMAIN rows', rows'[v].reverses # 0
      PROVE  /\ \A s \in SKUsOf(rows'[v].lines) \ overwritten' :
                    Follows(EntryOf(rows[v].reverses, s), EntryOf(v, s))'
             /\ rows'[v].reverses \in DOMAIN rows' /\ rows'[rows'[v].reverses].status = "posted"
             /\ SKUsOf(rows'[v].lines) = SKUsOf(rows'[rows'[v].reverses].lines)
  <2>1. CASE v # r
    <3>1. v \in DOMAIN rows /\ rows'[v] = rows[v] /\ rows[v].status = "posted"
      <4>1. v \in DOMAIN rows /\ rows'[v] = rows[v] /\ GoodRow(v)
        BY <1>2, <2>1 DEF Working
      <4>2. rows[v] \in Row
        BY <4>1, FiledAtFacts
      <4> QED
        BY <1>7, <4>1, <4>2 DEF GoodRow, Row
    <3>2. PICK x : x = rows[v].reverses
      OBVIOUS
    <3>3. /\ x # 0 /\ x \in DOMAIN rows /\ rows[x].status = "posted"
          /\ SKUsOf(rows[v].lines) = SKUsOf(rows[x].lines)
      BY <1>7, <3>1, <3>2 DEF Voids
    <3>4. /\ x \in DOMAIN rows' /\ rows'[x] = rows[x]
          /\ \A s \in SKUsOf(rows[v].lines) :
                /\ s \in SKUs /\ EntryOf(x, s) \in EntriesOf(s) /\ EntryOf(x, s)' = EntryOf(x, s)
                /\ EntryOf(v, s) \in EntriesOf(s) /\ EntryOf(v, s)' = EntryOf(v, s)
      BY <1>6, <3>1, <3>3
    <3>5. ASSUME NEW s \in SKUsOf(rows[v].lines) \ overwritten
          PROVE  Follows(EntryOf(x, s), EntryOf(v, s))'
      <4>1. PICK e, f : e = EntryOf(x, s) /\ f = EntryOf(v, s)
        OBVIOUS
      <4>2. Follows(e, f)
        BY <3>1, <3>2, <3>3, <3>5, <4>1 DEF Voids, VoidsUndoTheLast
      <4>3. e \in EntriesOf(s) /\ f \in EntriesOf(s) /\ s \in SKUs
        BY <3>4, <3>5, <4>1
      <4>4. Follows(e, f)'
        BY <4>2, <4>3, FiledFollows
      <4>5. EntryOf(x, s)' = e /\ EntryOf(v, s)' = f
        BY <3>4, <3>5, <4>1
      <4> QED
        BY <4>4, <4>5 DEF Follows
    <3>6. \A s \in SKUsOf(rows'[v].lines) \ overwritten' :
              Follows(EntryOf(rows[v].reverses, s), EntryOf(v, s))'
      <4>1. rows'[v].reverses = x
        BY <3>1, <3>2
      <4> QED
        BY <1>2, <3>1, <3>5, <4>1
    <3> QED
      BY <3>1, <3>2, <3>3, <3>4, <3>6
  <2>2. CASE v = r
    <3>1. PICK x : x = rows'[r].reverses
      OBVIOUS
    <3>2. /\ x # 0 /\ x \in DOMAIN rows /\ rows[x].status = "posted"
          /\ SKUsOf(lines) = SKUsOf(rows[x].lines)
          /\ \A s \in SKUsOf(lines) \ overwritten : \A g \in EntriesOf(s) : g <= EntryOf(x, s)
      BY <1>7, <2>2, <3>1 DEF Undoes
    <3>3. /\ x \in DOMAIN rows' /\ rows'[x] = rows[x]
          /\ \A s \in SKUsOf(lines) :
                s \in SKUs /\ EntryOf(x, s) \in EntriesOf(s) /\ EntryOf(x, s)' = EntryOf(x, s)
      BY <1>6, <3>2
    <3>4. ASSUME NEW s \in SKUsOf(lines) \ overwritten
          PROVE  Follows(EntryOf(x, s), EntryOf(r, s))'
      <4>1. PICK i \in DOMAIN lines : lines[i].sku = s
        BY <3>4 DEF SKUsOf
      <4>2. PICK f \in Fresh : Made(f, r, lines[i], cost[i], after[i])
        BY <1>1 DEF Longer
      <4>3. ledger'[f].row = r /\ ledger'[f].sku = s
        BY <4>1, <4>2 DEF Made
      <4>4. EntryOf(r, s)' = f
        <5>1. f \in EntriesOf(s)'
          BY <4>2, <4>3 DEF EntriesOf, Fresh
        <5> QED
          BY <1>4, <4>3, <5>1
      <4>5. PICK e : e = EntryOf(x, s)
        OBVIOUS
      <4>6. e \in EntriesOf(s) /\ s \in SKUs /\ \A g \in EntriesOf(s) : g <= e
        BY <3>2, <3>3, <3>4, <4>5
      <4>7. Follows(e, f)'
        BY <4>2, <4>3, <4>6, FiledFollows
      <4>8. EntryOf(x, s)' = e
        BY <3>3, <3>4, <4>5
      <4> QED
        BY <4>4, <4>7, <4>8 DEF Follows
    <3>5. \A s \in SKUsOf(rows'[v].lines) \ overwritten' :
              Follows(EntryOf(rows[v].reverses, s), EntryOf(v, s))'
      <4>1. rows'[v].reverses = x
        BY <2>2, <3>1
      <4> QED
        BY <1>2, <2>2, <3>4, <4>1
    <3> QED
      BY <1>2, <2>2, <3>1, <3>2, <3>3, <3>5
  <2> QED
    BY <2>1, <2>2
<1> QED
  BY <1>7 DEF Voids, VoidsUndoTheLast

-----------------------------------------------------------------------------
(* The three steps that book a document *)

(* Goods moved at the average leave value and average as near as they were. *)
LEMMA MoveFacts ==
    ASSUME NEW b \in Balance, NEW n \in Int
    PROVE  /\ Adjust(b, n) \in Balance /\ Adjust(b, n).stock = b.stock + n
           /\ Move(b, n) \in Balance /\ Move(b, n).stock = b.stock + n
           /\ \A m \in Nat : Near(b, m) => Near(Adjust(b, n), m) /\ Near(Move(b, n), m)
<1> DEFINE a == Adjust(b, n)
<1>1. b.stock \in Int /\ b.value \in Int /\ b.average \in Int
  BY DEF Balance
<1>2. n * b.average \in Int
  BY <1>1
<1> DEFINE c == [b EXCEPT !.stock = b.stock + n]
<1>3. a = [c EXCEPT !.value = b.value + n * b.average]
  BY DEF Adjust
<1>4. c \in Balance /\ c.stock = b.stock + n /\ c.average = b.average
  BY <1>1 DEF Balance
<1> HIDE DEF a, c
<1>5. a \in Balance
  BY <1>2, <1>1, <1>3, <1>4 DEF Balance
<1>6. a.stock = b.stock + n /\ a.value = b.value + n * b.average /\ a.average = b.average
  BY <1>3, <1>4 DEF Balance
<1>7. Gap(a) = Gap(b)
  <2>1. (b.stock + n) * b.average = b.stock * b.average + n * b.average /\ b.stock * b.average \in Int
    BY <1>1
  <2>2. Gap(a) = (b.value + n * b.average) - (b.stock + n) * b.average
    BY <1>6 DEF Gap
  <2> QED
    BY <1>1, <1>2, <2>1, <2>2 DEF Gap
<1>8. Move(b, n) = a \/ /\ Move(b, n) = [a EXCEPT !.value = 0] /\ a.stock = 0
  BY DEF Move, NoDebt, a
<1>9. Move(b, n) \in Balance /\ Move(b, n).stock = a.stock
  BY <1>5, <1>8 DEF Balance
<1>10. Move(b, n) # a => Gap(Move(b, n)) = 0
  <2>1. ASSUME Move(b, n) = [a EXCEPT !.value = 0], a.stock = 0
        PROVE  Gap(Move(b, n)) = 0
    BY <1>5, <2>1 DEF Gap, Balance
  <2> QED
    BY <1>8, <2>1
<1>11. ASSUME NEW m \in Nat, Near(b, m)
      PROVE  Near(a, m) /\ Near(Move(b, n), m)
  BY <1>7, <1>10, <1>11 DEF Near
<1> QED
  BY <1>5, <1>6, <1>9, <1>11 DEF a

(* The average of what is received is rounded anew. *)
LEMMA ReceiveFacts ==
    ASSUME NEW b \in Balance, NEW n \in Int, NEW cost \in Int
    PROVE  /\ Receive(b, n, cost) \in Balance /\ Receive(b, n, cost).stock = b.stock + n
           /\ b.stock + n > 0 => \A m \in Nat : b.stock + n <= m => Near(Receive(b, n, cost), m)
<1> DEFINE stock == b.stock + n
           a == [stock |-> stock, value |-> b.value + cost,
                 average |-> IF stock > 0 THEN Rounded(b.value + cost, stock) ELSE b.average]
<1>1. b.stock \in Int /\ b.value \in Int /\ b.average \in Int
  BY DEF Balance
<1>2. stock \in Int /\ b.value + cost \in Int
  BY <1>1
<1>3. stock > 0 =>
        /\ Rounded(b.value + cost, stock) \in Int
        /\ 2 * ((b.value + cost) - stock * Rounded(b.value + cost, stock)) <= stock
        /\ - 2 * ((b.value + cost) - stock * Rounded(b.value + cost, stock)) <= stock
  <2> HIDE DEF stock
  <2> QED
    BY <1>2, RoundedFacts
<1>4. Receive(b, n, cost) = NoDebt(a)
  BY DEF Receive
<1>5. a \in Balance /\ a.stock = stock
  BY <1>1, <1>2, <1>3 DEF Balance
<1>6. stock > 0 => 2 * Gap(a) <= stock /\ - 2 * Gap(a) <= stock
  BY <1>3 DEF Gap
<1>7. NoDebt(a) = a \/ (NoDebt(a) = [a EXCEPT !.value = 0] /\ stock = 0)
  BY <1>5 DEF NoDebt
<1> HIDE DEF a, stock
<1>8. NoDebt(a) \in Balance /\ NoDebt(a).stock = stock
  BY <1>5, <1>7 DEF Balance
<1>9. ASSUME stock > 0, NEW m \in Nat, stock <= m
      PROVE  Near(NoDebt(a), m)
  <2>1. NoDebt(a) = a /\ Gap(a) \in Int
    BY <1>5, <1>7, <1>9 DEF Gap, Balance
  <2> QED
    BY <1>2, <1>6, <1>9, <2>1 DEF Near
<1> QED
  BY <1>4, <1>8, <1>9 DEF stock

(* What has to be known of a step that books a document. *)
Proper(r, lines, cost, after) ==
    /\ Filed(r, lines, cost, after) /\ Timed(r) /\ Undoes(r, lines)
    /\ rows'[r].type = "purchase_receipt" /\ recosts = 0 =>
           /\ Spreads(lines, rows'[r].charges)
           /\ cost = LineCosts(lines, rows'[r].charges)
    /\ \A i \in DOMAIN lines : Stays(lines[i].sku, after[i])

(* Filing a document keeps the invariant. *)
LEMMA ProperIInv ==
    ASSUME IInv, NEW r, NEW lines, NEW cost, NEW after, Proper(r, lines, cost, after)
    PROVE  IInv'
<1>1. /\ Filed(r, lines, cost, after) /\ Timed(r) /\ Undoes(r, lines)
      /\ rows'[r].type = "purchase_receipt" /\ recosts = 0 =>
             /\ Spreads(lines, rows'[r].charges)
             /\ cost = LineCosts(lines, rows'[r].charges)
      /\ \A i \in DOMAIN lines : Stays(lines[i].sku, after[i])
  BY DEF Proper
<1>2. /\ TypeOK /\ Working /\ Matched /\ CostsMatch /\ AddsUp /\ StocksFit /\ Filing
      /\ StocksFollow /\ Voids /\ HistoryHasNoGaps /\ ValuesNear
  BY DEF IInv
<1>3. correcting' \in {correcting, NoCorrection}
  BY <1>1 DEF Timed
<1>4. TypeOK' /\ Working' /\ Matched'
  BY <1>1, <1>2, <1>3, FiledTypeOK, FiledWorking, FiledMatched
<1>5. CostsMatch' /\ AddsUp' /\ StocksFit'
  BY <1>1, <1>2, FiledCosts, FiledAddsUp, FiledStocksFit
<1>6. Filing' /\ StocksFollow' /\ Voids'
  BY <1>1, <1>2, FiledFiling, FiledStocksFollow, FiledVoids
<1>7. HistoryHasNoGaps' /\ ValuesNear'
  BY <1>1, <1>2, FiledNoGaps, FiledNear
<1> QED
  BY <1>4, <1>5, <1>6, <1>7 DEF IInv

(* Goods moved at the average leave a balance that is as near as before.     *)
LEMMA NearStays ==
    ASSUME TypeOK, ValuesNear, NEW s \in SKUs, NEW b \in Balance,
           \A m \in Nat : Near(balance[s], m) => Near(b, m)
    PROVE  Stays(s, b)
<1> SUFFICES ASSUME s \notin overwritten, FiledInOrder(s), Opening[s] >= 0,
                    NEW n \in Nat, n >= Most(s), n >= b.stock
             PROVE  Near(b, n)
  BY DEF Stays
<1>1. Near(balance[s], Most(s)) /\ balance[s] \in Balance /\ Most(s) \in Nat
  BY MostFacts DEF ValuesNear, TypeOK
<1>2. Near(balance[s], n)
  BY <1>1, NearMore
<1> QED
  BY <1>2

(* Posting files a document. *)
LEMMA PostProper ==
    ASSUME IInv, NEW p \in postings, Post(p)
    PROVE  \E r, lines, cost, after : Proper(r, lines, cost, after)
<1> DEFINE r == p.row
           l == rows[r].lines
           receipt == rows[r].type = "purchase_receipt"
           moved == [i \in DOMAIN l |-> (IF l[i].delta < 0 THEN - l[i].delta ELSE l[i].delta)
                                            * balance[l[i].sku].average]
           c == IF receipt THEN LineCosts(l, rows[r].charges) ELSE moved
           a == [i \in DOMAIN l |-> IF receipt THEN Receive(balance[l[i].sku], l[i].delta, c[i])
                                    ELSE Move(balance[l[i].sku], l[i].delta)]
<1>1. TypeOK /\ Working /\ StocksFit /\ ValuesNear
  BY DEF IInv
<1>2. r \in DOMAIN rows /\ rows[r] \in Row /\ rows[r].status = "draft" /\ GoodRow(r)
  BY <1>1, FiledAtFacts DEF TypeOK, Working, Post, Postable
<1>3. GoodLines(l) /\ l \in Seq(Line) /\ l # <<>> /\ rows[r].charges \in Nat /\ rows[r].reverses = 0
  BY <1>2 DEF GoodRow, GoodLines, Row
<1>4. Spreads(l, rows[r].charges) /\ Covered(l)
  BY DEF Post, Postable
<1>5. ASSUME NEW i \in DOMAIN l
      PROVE  /\ l[i].sku \in SKUs /\ l[i].delta \in Int /\ balance[l[i].sku] \in Balance
             /\ balance[l[i].sku].stock + l[i].delta >= 0
             /\ receipt => l[i].delta > 0
  <2>1. l[i] \in Line
    BY <1>3, ElementOfSeq, LenProperties
  <2> QED
    BY <1>1, <1>2, <1>4, <2>1 DEF Line, TypeOK, Covered, GoodRow
<1>6. /\ Books(r, l, c, a) /\ rows' = [rows EXCEPT ![r].status = "posted", ![r].posted = Now]
      /\ postings' \subseteq postings /\ UNCHANGED <<correcting, recosts, desk>>
  BY DEF Post
<1>7. c \in [DOMAIN l -> Int]
  <2>1. CASE receipt
    BY <1>3, <1>4, <2>1, LineCostsFacts
  <2>2. \A i \in DOMAIN l : (IF l[i].delta < 0 THEN - l[i].delta ELSE l[i].delta)
                                * balance[l[i].sku].average \in Int
    BY <1>5 DEF Balance
  <2> QED
    BY <2>1, <2>2
<1>8. clock \in Nat /\ Now \in Nat
  BY <1>1 DEF TypeOK, Now
<1>9. /\ rows' \in Seq(Row) /\ DOMAIN rows' = DOMAIN rows
      /\ \A q \in DOMAIN rows : q # r => rows'[q] = rows[q]
      /\ rows'[r] = [rows[r] EXCEPT !.status = "posted", !.posted = Now]
  <2> DEFINE row == [rows[r] EXCEPT !.status = "posted", !.posted = Now]
  <2>1. rows' = [rows EXCEPT ![r] = row]
    BY <1>6
  <2>2. row \in Row
    BY <1>2, <1>8 DEF Row
  <2>3. rows \in Seq(Row) /\ r \in 1..Len(rows) /\ DOMAIN rows = 1..Len(rows)
    BY <1>1, <1>2, LenProperties DEF TypeOK
  <2> HIDE DEF row, r
  <2>4. rows' \in Seq(Row)
    BY <2>1, <2>2, <2>3, ExceptSeq
  <2>5. DOMAIN rows' = DOMAIN rows /\ rows'[r] = row /\ \A q \in DOMAIN rows : q # r => rows'[q] = rows[q]
    BY <2>1, <2>3
  <2> QED
    BY <2>4, <2>5 DEF row
<1>10. /\ rows'[r].status = "posted" /\ rows'[r].lines = l /\ rows'[r].type = rows[r].type
       /\ rows'[r].posted = Now /\ rows'[r].charges = rows[r].charges /\ rows'[r].reverses = 0
  BY <1>2, <1>3, <1>9 DEF Row
<1>11. GoodRow(r)'
  BY <1>2, <1>10 DEF GoodRow
<1> HIDE DEF r, c, moved
<1>12. ASSUME NEW i \in DOMAIN l
       PROVE  /\ a[i] \in Balance /\ a[i].stock = balance[l[i].sku].stock + l[i].delta
              /\ a[i].stock >= Lowest(l[i].sku) /\ Stays(l[i].sku, a[i])
  <2> DEFINE s == l[i].sku
             b == balance[s]
             n == l[i].delta
  <2>1. s \in SKUs /\ n \in Int /\ b \in Balance /\ b.stock + n >= 0 /\ (receipt => n > 0) /\ c[i] \in Int
    BY <1>5, <1>7
  <2>2. Opening[s] \in Int
    BY <2>1, StockAssumption
  <2>3. Lowest(s) <= 0
    BY <2>2 DEF Lowest
  <2>4. CASE receipt
    <3>1. a[i] = Receive(b, n, c[i])
      BY <2>4
    <3> HIDE DEF s, b, n, a
    <3>2. a[i] \in Balance /\ a[i].stock = b.stock + n
      BY <2>1, <3>1, ReceiveFacts
    <3>3. ASSUME Opening[s] >= 0
          PROVE  \A m \in Nat : b.stock + n <= m => Near(a[i], m)
      <4>1. b.stock >= 0 /\ b.stock + n > 0
        <5>1. b.stock >= Lowest(s) /\ Lowest(s) = 0
          BY <1>1, <2>1, <2>2, <3>3 DEF StocksFit, Lowest, b
        <5> QED
          BY <2>1, <2>4, <5>1 DEF Balance
      <4> QED
        BY <2>1, <3>1, <4>1, ReceiveFacts
    <3>4. Stays(s, a[i])
      BY <3>2, <3>3 DEF Stays
    <3>5. a[i].stock >= Lowest(s)
      BY <2>1, <2>2, <2>3, <3>2 DEF Balance, Lowest
    <3> QED
      BY <3>2, <3>4, <3>5 DEF s, b, n
  <2>5. CASE ~ receipt
    <3>1. a[i] = Move(b, n)
      BY <2>5
    <3> HIDE DEF s, n, a
    <3>2. a[i] \in Balance /\ a[i].stock = b.stock + n
          /\ \A m \in Nat : Near(b, m) => Near(a[i], m)
      BY <2>1, <3>1, MoveFacts
    <3>3. Stays(s, a[i])
      BY <1>1, <2>1, <3>2, NearStays
    <3>4. a[i].stock >= Lowest(s)
      BY <2>1, <2>2, <2>3, <3>2 DEF Balance, Lowest
    <3> QED
      BY <3>2, <3>3, <3>4 DEF s, n
  <2> QED
    BY <2>4, <2>5
<1>13. a \in [DOMAIN l -> Balance]
  <2>1. a = [i \in DOMAIN l |-> a[i]]
    OBVIOUS
  <2> HIDE DEF a
  <2> QED
    BY <1>12, <2>1
<1> HIDE DEF a
<1>14. r \in Nat /\ DOMAIN rows' = DOMAIN rows \cup {r}
  <2>1. DOMAIN rows = 1..Len(rows)
    BY <1>1, LenProperties DEF TypeOK
  <2> QED
    BY <1>2, <1>9, <2>1
<1>15. Filed(r, l, c, a)
  BY <1>2, <1>3, <1>6, <1>7, <1>9, <1>10, <1>11, <1>12, <1>13, <1>14 DEF Filed
<1>16. Timed(r) /\ Undoes(r, l)
  BY <1>6, <1>10 DEF Timed, Undoes
<1>17. rows'[r].type = "purchase_receipt" /\ recosts = 0 =>
           Spreads(l, rows'[r].charges) /\ c = LineCosts(l, rows'[r].charges)
  BY <1>4, <1>10 DEF c
<1> QED
  BY <1>12, <1>15, <1>16, <1>17 DEF Proper

(* A correction has a row of its own, after all others. *)
LEMMA AppendedRow ==
    ASSUME TypeOK, NEW row \in Row, rows' = Append(rows, row), NEW r, r = Len(rows) + 1
    PROVE  /\ rows' \in Seq(Row) /\ r \in Nat /\ r # 0 /\ r \notin DOMAIN rows
           /\ DOMAIN rows' = DOMAIN rows \cup {r} /\ rows'[r] = row
           /\ \A q \in DOMAIN rows : q # r => rows'[q] = rows[q]
<1>1. rows \in Seq(Row) /\ Len(rows) \in Nat /\ DOMAIN rows = 1..Len(rows)
  BY LenProperties DEF TypeOK
<1>2. /\ rows' \in Seq(Row) /\ Len(rows') = Len(rows) + 1
      /\ \A i \in 1..Len(rows) : rows'[i] = rows[i]
      /\ rows'[Len(rows) + 1] = row
  BY <1>1, AppendProperties
<1>3. DOMAIN rows' = 1..(Len(rows) + 1)
  BY <1>2, LenProperties
<1> QED
  BY <1>1, <1>2, <1>3

(* So does a quantity correction, late as it may be, *)
LEMMA QuantityBookedProper ==
    ASSUME IInv, QuantityBooked
    PROVE  \E r, lines, cost, after : Proper(r, lines, cost, after)
<1> DEFINE l == correcting.lines
           c == [i \in DOMAIN l |-> (IF l[i].delta < 0 THEN - l[i].delta ELSE l[i].delta)
                                        * balance[l[i].sku].average]
           a == [i \in DOMAIN l |-> Adjust(balance[l[i].sku], l[i].delta)]
           row == Posted("stock_adjustment", l, Then(correcting.now), 0)
<1>1. TypeOK /\ Working /\ StocksFit /\ ValuesNear
  BY DEF IInv
<1>2. correcting # NoCorrection /\ GoodLines(l) /\ correcting.now \in Nat /\ Covered(l)
  BY <1>1 DEF Working, QuantityBooked
<1>3. l \in Seq(Line) /\ l # <<>>
  BY <1>2 DEF GoodLines
<1>4. ASSUME NEW i \in DOMAIN l
      PROVE  /\ l[i].sku \in SKUs /\ l[i].delta \in Int /\ balance[l[i].sku] \in Balance
             /\ balance[l[i].sku].stock + l[i].delta >= 0
  <2>1. l[i] \in Line
    BY <1>3, ElementOfSeq, LenProperties
  <2> QED
    BY <1>1, <1>2, <2>1 DEF Line, TypeOK, Covered
<1>5. row \in Row
  <2>1. Then(correcting.now) \in Nat
    BY <1>2 DEF Then
  <2> QED
    BY <1>3, <2>1 DEF Posted, Row, Types
<1>6. /\ Books(Len(rows) + 1, l, c, a) /\ rows' = Append(rows, row)
      /\ correcting' = NoCorrection /\ UNCHANGED <<postings, recosts, desk>>
  BY DEF QuantityBooked
<1>7. PICK r : r = Len(rows) + 1
  OBVIOUS
<1>8. /\ rows' \in Seq(Row) /\ r \in Nat /\ r # 0 /\ r \notin DOMAIN rows
      /\ DOMAIN rows' = DOMAIN rows \cup {r} /\ rows'[r] = row
      /\ \A q \in DOMAIN rows : q # r => rows'[q] = rows[q]
  <2> HIDE DEF row
  <2> QED
    BY <1>1, <1>5, <1>6, <1>7, AppendedRow
<1>9. c \in [DOMAIN l -> Int]
  <2>1. \A i \in DOMAIN l : (IF l[i].delta < 0 THEN - l[i].delta ELSE l[i].delta)
                                * balance[l[i].sku].average \in Int
    BY <1>4 DEF Balance
  <2> QED
    BY <2>1
<1>10. ASSUME NEW i \in DOMAIN l
       PROVE  /\ a[i] \in Balance /\ a[i].stock = balance[l[i].sku].stock + l[i].delta
              /\ a[i].stock >= Lowest(l[i].sku) /\ Stays(l[i].sku, a[i])
  <2> DEFINE s == l[i].sku
             b == balance[s]
             n == l[i].delta
  <2>1. s \in SKUs /\ n \in Int /\ b \in Balance /\ b.stock + n >= 0 /\ a[i] = Adjust(b, n)
    BY <1>4
  <2>2. Opening[s] \in Int
    BY <2>1, StockAssumption
  <2> HIDE DEF s, n, a
  <2>3. a[i] \in Balance /\ a[i].stock = b.stock + n
        /\ \A m \in Nat : Near(b, m) => Near(a[i], m)
    BY <2>1, MoveFacts
  <2>4. Stays(s, a[i])
    BY <1>1, <2>1, <2>3, NearStays
  <2>5. a[i].stock >= Lowest(s)
    BY <2>1, <2>2, <2>3 DEF Balance, Lowest
  <2> QED
    BY <2>3, <2>4, <2>5 DEF s, n
<1>11. a \in [DOMAIN l -> Balance]
  <2>1. a = [i \in DOMAIN l |-> a[i]]
    OBVIOUS
  <2> HIDE DEF a
  <2> QED
    BY <1>10, <2>1
<1>12. /\ rows'[r].status = "posted" /\ rows'[r].lines = l /\ rows'[r].type = "stock_adjustment"
       /\ rows'[r].posted = Then(correcting.now) /\ rows'[r].reverses = 0
  BY <1>8 DEF Posted
<1>13. GoodRow(r)'
  BY <1>2, <1>12 DEF GoodRow
<1> HIDE DEF a, c, row
<1>14. Filed(r, l, c, a)
  BY <1>2, <1>6, <1>7, <1>8, <1>9, <1>10, <1>11, <1>12, <1>13 DEF Filed
<1>15. Timed(r) /\ Undoes(r, l)
  BY <1>2, <1>6, <1>12 DEF Timed, Undoes
<1> QED
  BY <1>10, <1>12, <1>14, <1>15 DEF Proper

(* The latest entry of a SKU: there is one. *)
LEMMA LatestFacts ==
    ASSUME TypeOK, NEW s, EntriesOf(s) # {}
    PROVE  Latest(s) \in EntriesOf(s) /\ \A f \in EntriesOf(s) : FiledAt(Latest(s)) >= FiledAt(f)
<1> DEFINE f == [e \in EntriesOf(s) |-> FiledAt(e)]
           T == {0} \cup {f[e] : e \in EntriesOf(s)}
<1>1. IsFiniteSet(EntriesOf(s)) /\ \A e \in EntriesOf(s) : f[e] = FiledAt(e) /\ f[e] \in Nat
  BY EntriesFacts, FiledAtFacts
<1> HIDE DEF f
<1>2. PICK m \in T : \A n \in T : n <= m
  <2>1. \A e \in EntriesOf(s) : f[e] \in Int
    BY <1>1
  <2> QED
    BY <1>1, <2>1, LargestOf
<1>3. \E e \in EntriesOf(s) : \A g \in EntriesOf(s) : FiledAt(e) >= FiledAt(g)
  <2>1. \A g \in EntriesOf(s) : FiledAt(g) <= m /\ FiledAt(g) \in Nat
    BY <1>1, <1>2
  <2>2. CASE m = 0
    BY <2>1, <2>2
  <2>3. CASE m # 0
    <3>1. PICK e \in EntriesOf(s) : m = FiledAt(e)
      BY <1>1, <1>2, <2>3
    <3> QED
      BY <2>1, <3>1
  <2> QED
    BY <2>2, <2>3
<1> QED
  BY <1>3 DEF Latest

(* An entry that is the latest one and left the stock there is is the last   *)
(* one: whatever had come later and was filed earlier would have changed it. *)
LEMMA UntouchedIsLast ==
    ASSUME IInv, NEW s \in SKUs \ overwritten, NEW e \in EntriesOf(s), Latest(s) = e,
           balance[s] = ledger[e].after
    PROVE  \A g \in EntriesOf(s) : g <= e
<1> SUFFICES ASSUME NEW g \in EntriesOf(s), ~ (g <= e) PROVE FALSE
  OBVIOUS
<1>1. TypeOK /\ Working /\ Matched /\ StocksFit /\ Filing /\ Gapless(s)
  BY DEF IInv, StocksFollow
<1>2. /\ \A f \in EntriesOf(s) : f \in DOMAIN ledger /\ f \in Nat /\ ledger[f].sku = s /\ FiledAt(f) \in Nat
      /\ \A f \in EntriesOf(s) : ledger[f] \in Entry
  BY <1>1, EntriesFacts, FiledAtFacts
<1>3. \A f \in EntriesOf(s) : FiledAt(e) >= FiledAt(f)
  BY <1>1, LatestFacts
<1>4. e < g /\ FiledAt(g) < FiledAt(e)
  BY <1>1, <1>2, <1>3 DEF Filing
<1>5. \A f \in EntriesOf(s) : f <= g
  <2> SUFFICES ASSUME NEW f \in EntriesOf(s), g < f PROVE FALSE
    BY <1>2
  <2>1. FiledAt(e) < FiledAt(f)
    BY <1>1, <1>2, <1>4 DEF Filing
  <2> QED
    BY <1>2, <1>3, <2>1
<1>6. Follows(e, g)
  <2> SUFFICES ASSUME NEW f \in (e + 1)..(g - 1), ledger[f].sku = s PROVE FALSE
    BY <1>2, <1>4 DEF Follows
  <2>1. f \in DOMAIN ledger /\ e < f /\ f < g
    <3>1. Len(ledger) \in Nat /\ DOMAIN ledger = 1..Len(ledger)
      BY <1>1, LenProperties DEF TypeOK
    <3> QED
      BY <1>2, <3>1
  <2>2. f \in EntriesOf(s)
    BY <2>1 DEF EntriesOf
  <2>3. FiledAt(f) < FiledAt(e)
    BY <1>1, <1>2, <1>3, <2>1, <2>2 DEF Filing
  <2>4. FiledAt(e) < FiledAt(g)
    BY <1>1, <1>2, <2>1, <2>2, <2>3 DEF Filing
  <2> QED
    BY <1>2, <1>4, <2>4
<1>7. ledger[e].after.stock = ledger[g].before.stock /\ ledger[g].after.stock = balance[s].stock
  BY <1>1, <1>5, <1>6 DEF Gapless
<1>8. ledger[g].after.stock = ledger[g].before.stock + ledger[g].delta
  BY <1>1, <1>2 DEF StocksFit
<1>9. ledger[g].delta # 0 /\ ledger[g].delta \in Int /\ ledger[g].before.stock \in Int
  <2>1. PICK i \in DOMAIN rows[ledger[g].row].lines : ledger[g].delta = rows[ledger[g].row].lines[i].delta
    BY <1>1, <1>2 DEF Matched
  <2>2. ledger[g].row \in DOMAIN rows
    BY <1>1, <1>2 DEF TypeOK
  <2>3. GoodRow(ledger[g].row)
    BY <1>1, <2>2 DEF Working
  <2> QED
    BY <1>2, <2>1, <2>3 DEF GoodRow, GoodLines, Entry, Balance
<1> QED
  BY <1>7, <1>8, <1>9

(* and so does voiding. *)
LEMMA VoidProper ==
    ASSUME IInv, NEW v \in DOMAIN rows, VoidCorrection(v)
    PROVE  \E r, lines, cost, after : Proper(r, lines, cost, after)
<1> DEFINE l == rows[v].lines
           entry(i) == ledger[EntryOf(v, l[i].sku)]
           u == [i \in DOMAIN l |-> [l[i] EXCEPT !.delta = - @, !.price = 0]]
           c == [i \in DOMAIN l |-> entry(i).cost]
           a == [i \in DOMAIN l |-> entry(i).before]
           row == Posted("stock_adjustment", u, Now, v)
<1>1. TypeOK /\ Working /\ StocksFit /\ ValuesNear /\ Matched
  BY DEF IInv
<1>2. rows[v] \in Row /\ rows[v].status = "posted" /\ GoodRow(v)
  BY <1>1, FiledAtFacts DEF Working, VoidCorrection, Correctable
<1>3. GoodLines(l) /\ l \in Seq(Line) /\ l # <<>> /\ Distinct(l)
  BY <1>2 DEF GoodRow, GoodLines
<1>4. /\ Books(Len(rows) + 1, u, c, a) /\ rows' = Append(rows, row)
      /\ \A s \in SKUsOf(l) : Untouched(v, s)
      /\ UNCHANGED <<postings, correcting, recosts, desk>>
  BY DEF VoidCorrection
<1>5. DOMAIN l = 1..Len(l) /\ Len(l) \in Nat /\ Len(l) > 0
  BY <1>3, LenProperties, EmptySeq
<1>6. ASSUME NEW i \in DOMAIN l
      PROVE  /\ l[i] \in Line /\ l[i].delta # 0
             /\ u[i] = [sku |-> l[i].sku, delta |-> - l[i].delta, price |-> 0]
             /\ u[i] \in Line /\ u[i].delta # 0 /\ u[i].sku = l[i].sku /\ u[i].delta = - l[i].delta
  <2>1. l[i] \in Line /\ l[i].delta # 0
    BY <1>3, <1>5, ElementOfSeq DEF GoodLines
  <2>2. u[i] = [l[i] EXCEPT !.delta = - l[i].delta, !.price = 0]
    OBVIOUS
  <2>3. u[i] = [sku |-> l[i].sku, delta |-> - l[i].delta, price |-> 0]
    BY <2>1, <2>2 DEF Line
  <2> HIDE DEF u
  <2> QED
    BY <2>1, <2>3 DEF Line
<1>7. DOMAIN u = DOMAIN l
  OBVIOUS
<1>8. u \in Seq(Line) /\ u # <<>>
  <2>1. u = [i \in 1..Len(l) |-> u[i]]
    BY <1>5
  <2> HIDE DEF u
  <2>2. u \in [1..Len(l) -> Line]
    BY <1>5, <1>6, <2>1
  <2>3. u \in Seq(Line)
    BY <1>5, <2>2, SeqDef
  <2>4. Len(u) = Len(l)
    BY <1>5, <1>7, <2>3, LenProperties
  <2> QED
    BY <1>5, <2>3, <2>4, EmptySeq
<1> HIDE DEF u
<1>9. GoodLines(u) /\ SKUsOf(u) = SKUsOf(l)
  <2>1. Distinct(u)
    BY <1>3, <1>6, <1>7 DEF Distinct
  <2>2. SKUsOf(u) = SKUsOf(l)
    BY <1>6, <1>7 DEF SKUsOf
  <2> QED
    BY <1>6, <1>7, <1>8, <2>1, <2>2 DEF GoodLines
<1>10. ASSUME NEW i \in DOMAIN l
       PROVE  LET e == EntryOf(v, l[i].sku)
              IN  /\ e \in EntriesOf(l[i].sku) /\ ledger[e] \in Entry /\ ledger[e].delta = l[i].delta
                  /\ ledger[e].sku = l[i].sku /\ Latest(l[i].sku) = e
                  /\ balance[l[i].sku] = ledger[e].after /\ l[i].sku \in SKUs
  <2> DEFINE s == l[i].sku
             e == EntryOf(v, s)
  <2>1. s \in SKUsOf(l) /\ s \in SKUs
    BY <1>6 DEF SKUsOf, Line
  <2>2. e \in EntriesOf(s) /\ ledger[e].row = v
    BY <1>1, <1>2, <2>1, EntryOfFacts
  <2>3. ledger[e] \in Entry /\ ledger[e].sku = s /\ e \in DOMAIN ledger
    BY <1>1, <2>2, EntriesFacts DEF EntriesOf
  <2>4. ledger[e].delta = l[i].delta
    <3>1. PICK j \in DOMAIN l : ledger[e].sku = l[j].sku /\ ledger[e].delta = l[j].delta
      BY <1>1, <2>2, <2>3 DEF Matched
    <3> QED
      BY <1>3, <2>3, <3>1 DEF Distinct
  <2>5. Latest(s) = e /\ balance[s] = ledger[e].after
    BY <1>4, <2>1 DEF Untouched
  <2> QED
    BY <2>1, <2>2, <2>3, <2>4, <2>5
<1>11. ASSUME NEW i \in DOMAIN u
       PROVE  /\ c[i] \in Int /\ a[i] \in Balance
              /\ a[i].stock = balance[u[i].sku].stock + u[i].delta
              /\ a[i].stock >= Lowest(u[i].sku) /\ Stays(u[i].sku, a[i])
  <2>1. PICK s, e : s = l[i].sku /\ e = EntryOf(v, s)
    OBVIOUS
  <2>2. /\ e \in EntriesOf(s) /\ ledger[e] \in Entry /\ ledger[e].delta = l[i].delta
        /\ ledger[e].sku = s /\ balance[s] = ledger[e].after /\ s \in SKUs /\ e \in DOMAIN ledger
    BY <1>7, <1>10, <2>1 DEF EntriesOf
  <2>3. c[i] = ledger[e].cost /\ a[i] = ledger[e].before /\ u[i].sku = s /\ u[i].delta = - l[i].delta
        /\ l[i].delta \in Int
    BY <1>6, <1>7, <2>1 DEF Line
  <2>4. /\ ledger[e].after.stock = ledger[e].before.stock + ledger[e].delta
        /\ ledger[e].before.stock >= Lowest(s)
    BY <1>1, <2>2 DEF StocksFit
  <2>5. ledger[e].before \in Balance /\ ledger[e].cost \in Int
    BY <2>2 DEF Entry
  <2> HIDE DEF a, c
  <2>6. a[i].stock = balance[s].stock + u[i].delta
    BY <2>2, <2>3, <2>4, <2>5 DEF Balance
  <2>7. Stays(s, a[i])
    <3> SUFFICES ASSUME s \notin overwritten, FiledInOrder(s), Opening[s] >= 0,
                        NEW n \in Nat, n >= Most(s)
                 PROVE  Near(a[i], n)
      BY DEF Stays
    <3>1. Near(ledger[e].before, Most(s)) /\ Most(s) \in Nat
      BY <1>1, <2>2, MostFacts DEF ValuesNear
    <3> QED
      BY <2>3, <2>5, <3>1, NearMore
  <2> QED
    BY <2>3, <2>4, <2>5, <2>6, <2>7
<1>12. clock \in Nat /\ Now \in Nat /\ v \in Nat /\ v # 0
  <2>1. Len(rows) \in Nat /\ DOMAIN rows = 1..Len(rows)
    BY <1>1, LenProperties DEF TypeOK
  <2> QED
    BY <1>1, <2>1 DEF TypeOK, Now
<1>13. row \in Row
  BY <1>8, <1>12 DEF Posted, Row, Types
<1>14. PICK r : r = Len(rows) + 1
  OBVIOUS
<1>15. /\ rows' \in Seq(Row) /\ r \in Nat /\ r # 0 /\ r \notin DOMAIN rows
       /\ DOMAIN rows' = DOMAIN rows \cup {r} /\ rows'[r] = row
       /\ \A q \in DOMAIN rows : q # r => rows'[q] = rows[q]
  <2> HIDE DEF row
  <2> QED
    BY <1>1, <1>4, <1>13, <1>14, AppendedRow
<1>16. c \in [DOMAIN u -> Int] /\ a \in [DOMAIN u -> Balance]
  <2>1. c = [i \in DOMAIN u |-> c[i]] /\ a = [i \in DOMAIN u |-> a[i]]
    BY <1>7
  <2> HIDE DEF a, c
  <2> QED
    BY <1>11, <2>1
<1>17. /\ rows'[r].status = "posted" /\ rows'[r].lines = u /\ rows'[r].type = "stock_adjustment"
       /\ rows'[r].posted = Now /\ rows'[r].reverses = v
  BY <1>15 DEF Posted
<1>18. GoodRow(r)'
  BY <1>9, <1>17 DEF GoodRow
<1> HIDE DEF a, c, row
<1>19. Filed(r, u, c, a)
  BY <1>4, <1>9, <1>11, <1>14, <1>15, <1>16, <1>17, <1>18 DEF Filed
<1>20. Undoes(r, u)
  <2>1. ASSUME NEW s \in SKUsOf(u) \ overwritten
        PROVE  \A g \in EntriesOf(s) : g <= EntryOf(v, s)
    <3>1. PICK i \in DOMAIN l : l[i].sku = s
      BY <1>9, <2>1 DEF SKUsOf
    <3>2. PICK e : e = EntryOf(v, s)
      OBVIOUS
    <3>3. e \in EntriesOf(s) /\ Latest(s) = e /\ balance[s] = ledger[e].after /\ s \in SKUs \ overwritten
      BY <1>10, <2>1, <3>1, <3>2
    <3> QED
      BY <3>2, <3>3, UntouchedIsLast
  <2> QED
    BY <1>2, <1>9, <1>17, <2>1 DEF Undoes
<1>21. Timed(r)
  BY <1>4, <1>17 DEF Timed
<1> QED
  BY <1>11, <1>17, <1>19, <1>20, <1>21 DEF Proper

-----------------------------------------------------------------------------
(* The steps that leave the ledger and what is posted as they are *)

Began ==
    /\ correcting = NoCorrection
    /\ correcting' = [row |-> correcting'.row, lines |-> correcting'.lines, now |-> clock]
    /\ correcting'.row \in Nat /\ GoodLines(correcting'.lines)

Quiet ==
    /\ UNCHANGED <<ledger, clock, recosts>>
    /\ balance' \in [SKUs -> Balance] /\ overwritten \subseteq overwritten' /\ overwritten' \subseteq SKUs
    /\ \A s \in SKUs : /\ s \notin overwritten' => balance'[s] = balance[s]
                       /\ balance'[s].stock >= Lowest(s)
    /\ rows' \in Seq(Row) /\ DOMAIN rows \subseteq DOMAIN rows'
    /\ \A q \in DOMAIN rows : rows[q].status = "posted" => rows'[q] = rows[q]
    /\ \A q \in DOMAIN rows' : /\ GoodRow(q)'
                               /\ rows'[q].status = "posted" => q \in DOMAIN rows /\ rows'[q] = rows[q]
    /\ \A p \in postings' : p.row \in DOMAIN rows'
    /\ correcting' = correcting \/ correcting' = NoCorrection \/ Began
    /\ form' = form \/ form' = NoForm
         \/ (form' \in [sku : SKUs, balance : Balance] /\ form'.balance = balance[form'.sku])

(* What books nothing keeps the invariant. *)
LEMMA QuietIInv ==
    ASSUME IInv, Quiet
    PROVE  IInv'
<1>1. /\ TypeOK /\ Working /\ Matched /\ CostsMatch /\ AddsUp /\ StocksFit /\ Filing
      /\ StocksFollow /\ Voids /\ HistoryHasNoGaps /\ ValuesNear
  BY DEF IInv
<1>2. /\ ledger' = ledger /\ clock' = clock /\ recosts' = recosts
      /\ overwritten \subseteq overwritten' /\ overwritten' \subseteq SKUs
      /\ \A s \in SKUs \ overwritten' : balance'[s] = balance[s]
  BY DEF Quiet
<1>3. ASSUME NEW e \in DOMAIN ledger
      PROVE  /\ ledger[e].row \in DOMAIN rows /\ rows[ledger[e].row].status = "posted"
             /\ ledger[e].row \in DOMAIN rows' /\ rows'[ledger[e].row] = rows[ledger[e].row]
  BY <1>1, <1>3 DEF TypeOK, Quiet
<1>4. /\ \A e \in DOMAIN ledger : FiledAt(e)' = FiledAt(e)
      /\ \A s : EntriesOf(s)' = EntriesOf(s) /\ Booked(s)' = Booked(s) /\ Most(s)' = Most(s)
      /\ \A e, f : Follows(e, f)' <=> Follows(e, f)
      /\ \A r, s : EntryOf(r, s)' = EntryOf(r, s)
  BY <1>2, <1>3 DEF FiledAt, EntriesOf, Booked, Deltas, Most, Follows, EntryOf
<1>5. \A s : FiledInOrder(s)' <=> FiledInOrder(s)
  BY <1>4 DEF FiledInOrder, EntriesOf
<1>6. TypeOK'
  BY <1>1, <1>2, <1>3 DEF TypeOK, Quiet
<1>7. Working'
  <2>1. \A q \in DOMAIN rows' : GoodRow(q)'
    BY DEF Quiet
  <2>2. correcting' # NoCorrection =>
           /\ correcting' = [row |-> correcting'.row, lines |-> correcting'.lines, now |-> correcting'.now]
           /\ correcting'.row \in Nat /\ GoodLines(correcting'.lines)
           /\ correcting'.now \in Nat /\ correcting'.now <= clock'
    <3>1. CASE correcting' = correcting
      BY <1>1, <1>2, <3>1 DEF Working
    <3>2. CASE Began
      <4>1. correcting'.now = clock /\ clock \in Nat
        BY <1>1, <3>2 DEF Began, TypeOK
      <4> QED
        BY <1>2, <3>2, <4>1 DEF Began
    <3> QED
      BY <3>1, <3>2 DEF Quiet
  <2>3. form' # NoForm => form' \in [sku : SKUs, balance : Balance]
    BY <1>1 DEF Working, Quiet
  <2> QED
    BY <2>1, <2>2, <2>3 DEF Working
<1>8. Matched'
  <2>1. ASSUME NEW e \in DOMAIN ledger'
        PROVE  \E i \in DOMAIN rows'[ledger'[e].row].lines :
                   /\ ledger'[e].sku = rows'[ledger'[e].row].lines[i].sku
                   /\ ledger'[e].delta = rows'[ledger'[e].row].lines[i].delta
    BY <1>1, <1>2, <1>3 DEF Matched
  <2>2. ASSUME NEW q \in DOMAIN rows', rows'[q].status = "posted", NEW i \in DOMAIN rows'[q].lines
        PROVE  \E e \in DOMAIN ledger' : ledger'[e].row = q /\ ledger'[e].sku = rows'[q].lines[i].sku
    <3>1. q \in DOMAIN rows /\ rows'[q] = rows[q]
      BY <2>2 DEF Quiet
    <3> QED
      BY <1>1, <1>2, <2>2, <3>1 DEF Matched
  <2>3. ASSUME NEW e \in DOMAIN ledger', NEW f \in DOMAIN ledger',
               ledger'[e].row = ledger'[f].row, ledger'[e].sku = ledger'[f].sku
        PROVE  e = f
    BY <1>1, <1>2, <2>3 DEF Matched
  <2> QED
    BY <2>1, <2>2, <2>3 DEF Matched
<1>9. CostsMatch'
  <2> SUFFICES ASSUME NEW e \in DOMAIN ledger', recosts' = 0,
                      rows'[ledger'[e].row].type = "purchase_receipt"
               PROVE  LET row == rows'[ledger'[e].row]
                      IN  /\ Spreads(row.lines, row.charges)
                          /\ ledger'[e].cost = LineCosts(row.lines, row.charges)[LineOf(row.lines, ledger'[e].sku)]
    BY DEF CostsMatch
  <2>1. rows'[ledger'[e].row] = rows[ledger[e].row] /\ ledger'[e] = ledger[e] /\ e \in DOMAIN ledger
    BY <1>2, <1>3
  <2> QED
    BY <1>1, <1>2, <2>1 DEF CostsMatch
<1>10. AddsUp'
  BY <1>1, <1>2, <1>4 DEF AddsUp
<1>11. StocksFit'
  <2>1. form' # NoForm => form'.balance.stock >= Lowest(form'.sku)
    BY <1>1 DEF StocksFit, Quiet
  <2> QED
    BY <1>1, <1>2, <2>1 DEF StocksFit, Quiet
<1>12. Filing'
  <2>1. \A e \in DOMAIN ledger' : FiledAt(e)' <= 2 * clock'
    BY <1>1, <1>2, <1>4 DEF Filing
  <2>2. \A e, f \in DOMAIN ledger' : ledger'[e].sku = ledger'[f].sku /\ FiledAt(e)' = FiledAt(f)' => e = f
    BY <1>1, <1>2, <1>4 DEF Filing
  <2>3. \A e, f, g \in DOMAIN ledger' :
           ledger'[e].sku = ledger'[f].sku /\ ledger'[f].sku = ledger'[g].sku =>
               (e < f /\ f < g /\ FiledAt(f)' < FiledAt(e)' => FiledAt(e)' < FiledAt(g)')
    BY <1>1, <1>2, <1>4 DEF Filing
  <2>4. ASSUME correcting' # NoCorrection
        PROVE  /\ \A e \in DOMAIN ledger' : FiledAt(e)' # Then(correcting'.now)
               /\ \A e, f \in DOMAIN ledger' :
                    e < f /\ ledger'[e].sku = ledger'[f].sku /\ FiledAt(f)' < FiledAt(e)' =>
                        FiledAt(e)' < Then(correcting'.now)
    <3>1. CASE correcting' = correcting
      BY <1>1, <1>2, <1>4, <2>4, <3>1 DEF Filing
    <3>2. CASE Began
      <4>1. correcting'.now = clock /\ clock \in Nat
        BY <1>1, <3>2 DEF Began, TypeOK
      <4>2. \A e \in DOMAIN ledger : FiledAt(e) \in Nat /\ FiledAt(e) <= 2 * clock
        BY <1>1, FiledAtFacts DEF Filing
      <4> QED
        BY <1>2, <1>4, <4>1, <4>2 DEF Then
    <3> QED
      BY <2>4, <3>1, <3>2 DEF Quiet
  <2> QED
    BY <2>1, <2>2, <2>3, <2>4 DEF Filing
<1>13. StocksFollow'
  BY <1>1, <1>2, <1>4 DEF StocksFollow, Gapless
<1>14. Voids'
  <2> SUFFICES ASSUME NEW v \in DOMAIN rows', rows'[v].reverses # 0
               PROVE  /\ \A s \in SKUsOf(rows'[v].lines) \ overwritten' :
                             Follows(EntryOf(rows[v].reverses, s), EntryOf(v, s))'
                      /\ rows'[v].reverses \in DOMAIN rows' /\ rows'[rows'[v].reverses].status = "posted"
                      /\ SKUsOf(rows'[v].lines) = SKUsOf(rows'[rows'[v].reverses].lines)
    BY DEF Voids, VoidsUndoTheLast
  <2>1. v \in DOMAIN rows /\ rows'[v] = rows[v]
    <3>1. GoodRow(v)' /\ rows'[v] \in Row
      <4>1. Len(rows') \in Nat /\ rows' \in [1..Len(rows') -> Row] /\ DOMAIN rows' = 1..Len(rows')
        BY LenProperties DEF Quiet
      <4> QED
        BY <4>1 DEF Quiet
    <3>2. rows'[v].status = "posted"
      BY <3>1 DEF GoodRow, Row
    <3> QED
      BY <3>2 DEF Quiet
  <2>2. PICK x : x = rows[v].reverses
    OBVIOUS
  <2>3. /\ x # 0 /\ x \in DOMAIN rows /\ rows[x].status = "posted"
        /\ SKUsOf(rows[v].lines) = SKUsOf(rows[x].lines)
        /\ \A s \in SKUsOf(rows[v].lines) \ overwritten : Follows(EntryOf(x, s), EntryOf(v, s))
    BY <1>1, <2>1, <2>2 DEF Voids, VoidsUndoTheLast
  <2>4. x \in DOMAIN rows' /\ rows'[x] = rows[x]
    BY <2>3 DEF Quiet
  <2>5. \A s \in SKUsOf(rows'[v].lines) \ overwritten' :
            Follows(EntryOf(rows[v].reverses, s), EntryOf(v, s))'
    <3> SUFFICES ASSUME NEW s \in SKUsOf(rows[v].lines) \ overwritten
                 PROVE  Follows(EntryOf(rows[v].reverses, s), EntryOf(v, s))'
      BY <1>2, <2>1
    <3>1. PICK e, f : e = EntryOf(x, s) /\ f = EntryOf(v, s)
      OBVIOUS
    <3>2. Follows(e, f)'
      BY <1>4, <2>3, <3>1
    <3>3. EntryOf(x, s)' = e /\ EntryOf(v, s)' = f /\ rows'[v].reverses = x
      BY <1>4, <2>1, <2>2, <3>1
    <3> QED
      BY <3>2, <3>3 DEF Follows
  <2> QED
    BY <2>1, <2>2, <2>3, <2>4, <2>5
<1>15. HistoryHasNoGaps'
  BY <1>1, <1>2, <1>4, <1>5 DEF HistoryHasNoGaps
<1>16. ValuesNear'
  BY <1>1, <1>2, <1>4, <1>5 DEF ValuesNear
<1> QED
  BY <1>6, <1>7, <1>8, <1>9, <1>10, <1>11, <1>12, <1>13, <1>14, <1>15, <1>16 DEF IInv

(* A draft that was accepted is a good document. *)
LEMMA DraftFacts ==
    ASSUME NEW d \in Documents, Accepted(d), NEW version \in Nat
    PROVE  LET row == Draft(d, version)
           IN  /\ row \in Row /\ GoodLines(row.lines) /\ row.status = "draft" /\ row.reverses = 0
               /\ row.type = "purchase_receipt" => \A i \in DOMAIN row.lines : row.lines[i].delta > 0
<1> DEFINE l == Lines(d)
<1>1. /\ d.type \in Types /\ d.charges \in Nat
      /\ d.lines \in Seq([sku : SKUs, quantity : Int, price : Nat])
  BY StockAssumption DEF Types
<1>2. /\ Len(d.lines) \in Nat /\ DOMAIN d.lines = 1..Len(d.lines) /\ Len(d.lines) # 0
      /\ d.lines \in [1..Len(d.lines) -> [sku : SKUs, quantity : Int, price : Nat]]
  BY <1>1, LenProperties, EmptySeq DEF Accepted
<1>3. DOMAIN l = 1..Len(d.lines) /\ l = [i \in 1..Len(d.lines) |-> l[i]]
  BY <1>2 DEF Lines
<1>4. ASSUME NEW i \in 1..Len(d.lines)
      PROVE  /\ l[i] \in Line /\ l[i].sku = d.lines[i].sku /\ l[i].delta # 0
             /\ d.type = "purchase_receipt" => l[i].delta > 0
  <2>1. /\ d.lines[i].sku \in SKUs /\ d.lines[i].quantity \in Int /\ d.lines[i].price \in Nat
        /\ d.lines[i].quantity # 0 /\ (d.lines[i].quantity > 0 \/ d.type = "stock_adjustment")
    BY <1>2 DEF Accepted
  <2>2. l[i] = [sku |-> d.lines[i].sku, delta |-> Signed(d.type, d.lines[i].quantity),
                price |-> IF d.type = "purchase_receipt" THEN d.lines[i].price ELSE 0]
    BY <1>2 DEF Lines
  <2>3. Signed(d.type, d.lines[i].quantity) \in Int /\ Signed(d.type, d.lines[i].quantity) # 0
        /\ (d.type = "purchase_receipt" => Signed(d.type, d.lines[i].quantity) > 0)
    BY <2>1 DEF Signed
  <2> HIDE DEF l
  <2> QED
    BY <2>1, <2>2, <2>3 DEF Line
<1>5. \A i, j \in DOMAIN l : l[i].sku = l[j].sku => i = j
  BY <1>2, <1>3, <1>4 DEF Accepted
<1> HIDE DEF l
<1>6. l \in Seq(Line) /\ Len(l) = Len(d.lines)
  <2>1. l \in [1..Len(d.lines) -> Line]
    BY <1>3, <1>4
  <2>2. l \in Seq(Line)
    BY <1>2, <2>1, SeqDef
  <2> QED
    BY <1>2, <1>3, <2>2, LenProperties
<1>7. GoodLines(l)
  <2>1. l # <<>>
    BY <1>2, <1>6, EmptySeq
  <2> QED
    BY <1>3, <1>4, <1>5, <1>6, <2>1 DEF GoodLines, Distinct
<1>8. Draft(d, version) = [type |-> d.type, status |-> "draft", lines |-> l, charges |-> d.charges,
                           version |-> version, posted |-> 0, reverses |-> 0]
  BY DEF Draft, l
<1>9. Draft(d, version) \in Row
  BY <1>1, <1>6, <1>8 DEF Row
<1>10. /\ Draft(d, version).lines = l /\ Draft(d, version).status = "draft"
       /\ Draft(d, version).reverses = 0 /\ Draft(d, version).type = d.type
  BY <1>8
<1> QED
  BY <1>3, <1>4, <1>7, <1>9, <1>10

(* A signed quantity is a number. *)
LEMMA SignedFacts == \A type, n : n \in Int => Signed(type, n) \in Int
  BY DEF Signed

(* What is left to book has a line for each SKU that was wrong. *)
LEMMA QuantityDeltasFacts ==
    ASSUME TypeOK, Working, NEW r \in DOMAIN rows, NEW q \in Quantities, QuantityDeltas(r, q) # <<>>
    PROVE  GoodLines(QuantityDeltas(r, q))
<1> DEFINE l == rows[r].lines
           missing(x) == Signed(rows[r].type, q[x.sku]) - x.delta
           wrong == {i \in DOMAIN l : missing(l[i]) # 0}
           o == Ordered(wrong, [i \in wrong |-> i])
           n == Cardinality(wrong)
           u == [k \in DOMAIN o |-> [l[o[k]] EXCEPT !.delta = missing(l[o[k]]), !.price = 0]]
<1>1. GoodLines(l) /\ l \in Seq(Line)
  BY DEF Working, GoodRow, GoodLines
<1>2. Len(l) \in Nat /\ DOMAIN l = 1..Len(l) /\ l \in [1..Len(l) -> Line]
  BY <1>1, LenProperties
<1>3. IsFiniteSet(wrong) /\ wrong \in SUBSET Int
  <2>1. IsFiniteSet(1..Len(l))
    BY <1>2, FS_Interval
  <2>2. wrong \in SUBSET (1..Len(l))
    BY <1>2
  <2> HIDE DEF wrong
  <2>3. IsFiniteSet(wrong)
    BY <2>1, <2>2, FS_Subset
  <2> QED
    BY <1>2, <2>2, <2>3
<1>4. u = QuantityDeltas(r, q)
  BY DEF QuantityDeltas
<1>5. /\ n \in Nat /\ DOMAIN o = 1..n /\ o \in [1..n -> wrong]
      /\ \A j, k \in 1..n : j < k <=> o[j] < o[k]
  <2> DEFINE rank == [i \in wrong |-> i]
  <2>1. /\ \A x \in wrong : rank[x] = x /\ rank[x] \in Int
        /\ \A x, y \in wrong : rank[x] = rank[y] => x = y
    BY <1>3
  <2>2. o = Ordered(wrong, rank)
    OBVIOUS
  <2> HIDE DEF wrong, rank, o
  <2>3. /\ n \in Nat /\ DOMAIN o = 1..n /\ o \in [1..n -> wrong]
        /\ \A j, k \in 1..n : j < k <=> rank[o[j]] < rank[o[k]]
    BY <1>3, <2>1, <2>2, OrderedFacts
  <2> QED
    BY <2>1, <2>3
<1>6. \A k \in 1..n : o[k] \in DOMAIN l /\ missing(l[o[k]]) # 0
  <2>1. \A i \in wrong : i \in DOMAIN l /\ missing(l[i]) # 0
    OBVIOUS
  <2> HIDE DEF wrong, missing, o
  <2> QED
    BY <1>5, <2>1
<1> HIDE DEF o, n, wrong
<1>7. ASSUME NEW k \in 1..n
      PROVE  u[k] \in Line /\ u[k].delta # 0 /\ u[k].sku = l[o[k]].sku
  <2> DEFINE x == l[o[k]]
             m == missing(x)
  <2>1. x \in Line
    BY <1>2, <1>6
  <2>2. m \in Int
    <3>1. q[x.sku] \in Int /\ x.delta \in Int
      BY <2>1, StockAssumption DEF Line
    <3>2. Signed(rows[r].type, q[x.sku]) \in Int
      BY <3>1, SignedFacts
    <3> QED
      BY <3>1, <3>2
  <2>3. u[k] = [x EXCEPT !.delta = m, !.price = 0]
    BY <1>5
  <2>4. m # 0
    BY <1>6
  <2> HIDE DEF x, m, u
  <2>5. u[k] = [sku |-> x.sku, delta |-> m, price |-> 0]
    BY <2>1, <2>3 DEF Line
  <2>6. u[k] \in Line /\ u[k].delta # 0 /\ u[k].sku = x.sku
    BY <2>1, <2>2, <2>4, <2>5 DEF Line
  <2> QED
    BY <2>6 DEF x
<1>8. u = [k \in 1..n |-> u[k]] /\ DOMAIN u = 1..n
  BY <1>5
<1> HIDE DEF u
<1>9. u \in Seq(Line)
  <2>1. u \in [1..n -> Line]
    BY <1>7, <1>8
  <2> QED
    BY <1>5, <2>1, SeqDef
<1>10. Distinct(u)
  <2> SUFFICES ASSUME NEW j \in 1..n, NEW k \in 1..n, u[j].sku = u[k].sku PROVE j = k
    BY <1>8 DEF Distinct
  <2>1. l[o[j]].sku = l[o[k]].sku
    BY <1>7
  <2>2. o[j] = o[k] /\ o[j] \in Int
    BY <1>1, <1>2, <1>6, <2>1 DEF GoodLines, Distinct
  <2>3. ~ (j < k) /\ ~ (k < j)
    BY <1>5, <2>2
  <2> QED
    BY <1>5, <2>3
<1> QED
  BY <1>4, <1>7, <1>8, <1>9, <1>10 DEF GoodLines

(* Drafts, refusals and the product form book nothing. *)
LEMMA QuietSteps ==
    ASSUME IInv,
           \/ \E d \in Documents : SaveDraft(d)
           \/ \E r \in DOMAIN rows, d \in Documents : UpdateDraft(r, d)
           \/ \E r \in DOMAIN rows : PreparePosting(r)
           \/ \E p \in postings : PostRefused(p)
           \/ \E r \in DOMAIN rows, q \in Quantities : QuantityCorrection(r, q)
           \/ QuantityRefused
           \/ \E s \in Edited : OpenForm(s)
           \/ SaveForm
           \/ UNCHANGED vars
    PROVE  Quiet
<1>1. TypeOK /\ Working /\ StocksFit
  BY DEF IInv
<1>2. /\ rows \in Seq(Row) /\ Len(rows) \in Nat /\ DOMAIN rows = 1..Len(rows)
      /\ \A q \in DOMAIN rows : rows[q] \in Row /\ GoodRow(q)
  BY <1>1, FiledAtFacts, LenProperties DEF TypeOK, Working
<1>3. /\ balance \in [SKUs -> Balance] /\ overwritten \subseteq SKUs
      /\ \A s \in SKUs : balance[s].stock >= Lowest(s)
      /\ \A p \in postings : p.row \in DOMAIN rows
  BY <1>1 DEF TypeOK, StocksFit
<1>4. ASSUME rows' = rows
      PROVE  /\ rows' \in Seq(Row) /\ DOMAIN rows \subseteq DOMAIN rows'
             /\ \A q \in DOMAIN rows : rows[q].status = "posted" => rows'[q] = rows[q]
             /\ \A q \in DOMAIN rows' : /\ GoodRow(q)'
                                        /\ rows'[q].status = "posted" => q \in DOMAIN rows /\ rows'[q] = rows[q]
  BY <1>2, <1>4 DEF GoodRow
<1>5. ASSUME balance' = balance, overwritten' = overwritten
      PROVE  /\ balance' \in [SKUs -> Balance] /\ overwritten \subseteq overwritten' /\ overwritten' \subseteq SKUs
             /\ \A s \in SKUs : /\ s \notin overwritten' => balance'[s] = balance[s]
                                /\ balance'[s].stock >= Lowest(s)
  BY <1>3, <1>5
<1>6. ASSUME NEW d \in Documents, SaveDraft(d)
      PROVE  Quiet
  <2> DEFINE row == Draft(d, 0)
  <2>1. /\ row \in Row /\ GoodLines(row.lines) /\ row.status = "draft" /\ row.reverses = 0
        /\ row.type = "purchase_receipt" => \A i \in DOMAIN row.lines : row.lines[i].delta > 0
    BY <1>6, DraftFacts DEF SaveDraft
  <2>2. PICK n : n = Len(rows) + 1
    OBVIOUS
  <2>3. /\ rows' = Append(rows, row) /\ UNCHANGED <<balance, ledger, clock, postings, correcting, recosts, desk>>
    BY <1>6 DEF SaveDraft
  <2> HIDE DEF row
  <2>4. /\ rows' \in Seq(Row) /\ DOMAIN rows' = DOMAIN rows \cup {n} /\ rows'[n] = row /\ n \notin DOMAIN rows
        /\ \A q \in DOMAIN rows : q # n => rows'[q] = rows[q]
    BY <1>1, <2>1, <2>2, <2>3, AppendedRow
  <2>5. ASSUME NEW q \in DOMAIN rows'
        PROVE  GoodRow(q)' /\ (rows'[q].status = "posted" => q \in DOMAIN rows /\ rows'[q] = rows[q])
    BY <1>2, <2>1, <2>4 DEF GoodRow
  <2> QED
    BY <1>3, <1>5, <2>3, <2>4, <2>5 DEF Quiet, desk
<1>7. ASSUME NEW r \in DOMAIN rows, NEW d \in Documents, UpdateDraft(r, d)
      PROVE  Quiet
  <2> DEFINE row == Draft(d, 1)
  <2>1. /\ row \in Row /\ GoodLines(row.lines) /\ row.status = "draft" /\ row.reverses = 0
        /\ row.type = "purchase_receipt" => \A i \in DOMAIN row.lines : row.lines[i].delta > 0
    BY <1>7, DraftFacts DEF UpdateDraft
  <2>2. /\ rows' = [rows EXCEPT ![r] = row] /\ rows[r].status = "draft"
        /\ UNCHANGED <<balance, ledger, clock, postings, correcting, recosts, desk>>
    BY <1>7 DEF UpdateDraft, Editable
  <2> HIDE DEF row
  <2>3. rows' \in Seq(Row)
    BY <1>2, <2>1, <2>2, ExceptSeq
  <2>4. DOMAIN rows' = DOMAIN rows /\ rows'[r] = row /\ \A q \in DOMAIN rows : q # r => rows'[q] = rows[q]
    BY <1>2, <2>2
  <2>5. ASSUME NEW q \in DOMAIN rows'
        PROVE  GoodRow(q)' /\ (rows'[q].status = "posted" => q \in DOMAIN rows /\ rows'[q] = rows[q])
    BY <1>2, <2>1, <2>4 DEF GoodRow
  <2> QED
    BY <1>3, <1>5, <2>2, <2>3, <2>4, <2>5 DEF Quiet, desk
<1>8. ASSUME NEW r \in DOMAIN rows, PreparePosting(r)
      PROVE  Quiet
  <2>1. \A p \in postings' : p.row \in DOMAIN rows
    BY <1>3, <1>8 DEF PreparePosting
  <2> QED
    BY <1>4, <1>5, <1>8, <2>1 DEF PreparePosting, Quiet, desk
<1>9. ASSUME NEW p \in postings, PostRefused(p)
      PROVE  Quiet
  <2>1. \A x \in postings' : x.row \in DOMAIN rows
    BY <1>3, <1>9 DEF PostRefused
  <2> QED
    BY <1>4, <1>5, <1>9, <2>1 DEF PostRefused, Quiet, desk
<1>10. ASSUME NEW r \in DOMAIN rows, NEW q \in Quantities, QuantityCorrection(r, q)
       PROVE  Quiet
  <2>1. /\ correcting = NoCorrection
        /\ correcting' = [row |-> r, lines |-> QuantityDeltas(r, q), now |-> clock]
        /\ QuantityDeltas(r, q) # <<>>
        /\ UNCHANGED <<balance, rows, ledger, clock, postings, recosts, desk>>
    BY <1>10 DEF QuantityCorrection
  <2>2. GoodLines(QuantityDeltas(r, q))
    BY <1>1, <2>1, QuantityDeltasFacts
  <2>3. PICK l : l = QuantityDeltas(r, q)
    OBVIOUS
  <2>4. correcting' = [row |-> r, lines |-> l, now |-> clock] /\ GoodLines(l) /\ r \in Nat
    BY <1>2, <2>1, <2>2, <2>3
  <2>5. Began
    BY <2>1, <2>4 DEF Began
  <2> QED
    BY <1>3, <1>4, <1>5, <2>1, <2>5 DEF Quiet, desk
<1>11. CASE QuantityRefused
  BY <1>3, <1>4, <1>5, <1>11 DEF QuantityRefused, Quiet, desk
<1>12. ASSUME NEW s \in Edited, OpenForm(s)
       PROVE  Quiet
  <2>1. s \in SKUs
    BY StockAssumption
  <2>2. form' = [sku |-> s, balance |-> balance[s]]
    BY <1>12 DEF OpenForm
  <2> QED
    BY <1>3, <1>4, <1>5, <1>12, <2>1, <2>2 DEF OpenForm, Quiet, desk
<1>13. CASE SaveForm
  <2>1. form \in [sku : SKUs, balance : Balance] /\ form.balance.stock >= Lowest(form.sku)
    BY <1>1, <1>13 DEF SaveForm, Working, StocksFit
  <2>2. balance' = [balance EXCEPT ![form.sku] = form.balance]
    BY <1>13 DEF SaveForm
  <2>3. /\ balance' \in [SKUs -> Balance] /\ balance'[form.sku] = form.balance
        /\ \A s \in SKUs : s # form.sku => balance'[s] = balance[s]
    BY <1>3, <2>1, <2>2
  <2>4. /\ overwritten' = IF balance[form.sku] # form.balance
                           THEN overwritten \cup {form.sku} ELSE overwritten
        /\ form' = NoForm /\ UNCHANGED <<rows, ledger, clock, postings, correcting, recosts>>
    BY <1>13 DEF SaveForm
  <2>5. \A s \in SKUs : /\ s \notin overwritten' => balance'[s] = balance[s]
                        /\ balance'[s].stock >= Lowest(s)
    BY <1>3, <2>1, <2>3, <2>4
  <2>6. overwritten \subseteq overwritten' /\ overwritten' \subseteq SKUs
    BY <1>3, <2>1, <2>4
  <2>7. /\ rows' \in Seq(Row) /\ DOMAIN rows \subseteq DOMAIN rows'
        /\ \A q \in DOMAIN rows : rows[q].status = "posted" => rows'[q] = rows[q]
        /\ \A q \in DOMAIN rows' : /\ GoodRow(q)'
                                   /\ rows'[q].status = "posted" => q \in DOMAIN rows /\ rows'[q] = rows[q]
    BY <1>4, <2>4
  <2>8. \A p \in postings' : p.row \in DOMAIN rows'
    BY <1>3, <2>4
  <2> QED
    BY <2>3, <2>4, <2>5, <2>6, <2>7, <2>8 DEF Quiet
<1>14. CASE UNCHANGED vars
  BY <1>3, <1>4, <1>5, <1>14 DEF vars, Quiet
<1> QED
  BY <1>6, <1>7, <1>8, <1>9, <1>10, <1>11, <1>12, <1>13, <1>14

-----------------------------------------------------------------------------
(* Cost corrections *)

(* The balance after entry e when it was prev before it. *)
NextBalance(prev, e, r, cost) ==
    IF rows[ledger[e].row].type = "purchase_receipt"
    THEN Receive(prev, ledger[e].delta, ReplayedCost(e, r, prev, cost))
    ELSE Move(prev, ledger[e].delta)

Chain(g, n, o, r, cost, start) ==
    g = [k \in 0..n |-> IF k = 0 THEN start ELSE NextBalance(g[k - 1], o[k], r, cost)]

(* A replay has a balance after each of its entries. *)
LEMMA ChainExists ==
    ASSUME NEW n \in Nat, NEW o, NEW r, NEW cost, NEW start
    PROVE  \E g : Chain(g, n, o, r, cost, start)
<1> DEFINE T == {m \in 0..n : ~ \E g : Chain(g, m, o, r, cost, start)}
<1> SUFFICES ASSUME T # {} PROVE FALSE
  OBVIOUS
<1>1. PICK m \in T : \A k \in T : m <= k
  <2>1. T \in SUBSET Nat
    OBVIOUS
  <2> HIDE DEF T
  <2> QED
    BY <2>1, Least
<1>2. m \in 0..n /\ ~ \E g : Chain(g, m, o, r, cost, start)
  OBVIOUS
<1>3. m # 0
  <2> DEFINE g == [k \in 0..0 |-> start]
  <2>1. g = [k \in 0..0 |-> IF k = 0 THEN start ELSE NextBalance(g[k - 1], o[k], r, cost)]
    OBVIOUS
  <2>2. Chain(g, 0, o, r, cost, start)
    BY <2>1 DEF Chain
  <2> QED
    BY <1>2, <2>2
<1>4. PICK g : Chain(g, m - 1, o, r, cost, start)
  <2>1. m - 1 \in 0..n /\ ~ (m <= m - 1)
    BY <1>2, <1>3
  <2> QED
    BY <1>1, <2>1
<1> DEFINE h == [k \in 0..m |-> IF k < m THEN g[k] ELSE NextBalance(g[m - 1], o[m], r, cost)]
<1>5. \A k \in 0..(m - 1) : h[k] = g[k]
  BY <1>2
<1>6. \A k \in 0..(m - 1) : g[k] = IF k = 0 THEN start ELSE NextBalance(g[k - 1], o[k], r, cost)
  BY <1>4 DEF Chain
<1>7. h[m] = NextBalance(g[m - 1], o[m], r, cost)
  BY <1>2
<1>8. h = [k \in 0..m |-> h[k]]
  OBVIOUS
<1> HIDE DEF h
<1>9. \A k \in 0..m : h[k] = IF k = 0 THEN start ELSE NextBalance(h[k - 1], o[k], r, cost)
  <2> SUFFICES ASSUME NEW k \in 0..m
               PROVE  h[k] = IF k = 0 THEN start ELSE NextBalance(h[k - 1], o[k], r, cost)
    OBVIOUS
  <2>1. CASE k = m
    <3>1. h[m - 1] = g[m - 1]
      BY <1>2, <1>3, <1>5
    <3> QED
      BY <1>3, <1>7, <2>1, <3>1
  <2>2. CASE k # m
    <3>1. k \in 0..(m - 1) /\ (k # 0 => k - 1 \in 0..(m - 1))
      BY <1>2, <2>2
    <3>2. h[k] = g[k] /\ (k # 0 => h[k - 1] = g[k - 1])
      BY <1>5, <3>1
    <3> QED
      BY <1>6, <3>1, <3>2
  <2> QED
    BY <2>1, <2>2
<1>10. Chain(h, m, o, r, cost, start)
  BY <1>8, <1>9 DEF Chain
<1> QED
  BY <1>2, <1>10

(* Each balance of a replay is well formed, and near its average. *)
LEMMA NextFacts ==
    ASSUME TypeOK, NEW b \in Balance, NEW e \in DOMAIN ledger, NEW r, NEW cost \in Int
    PROVE  /\ NextBalance(b, e, r, cost) \in Balance
           /\ NextBalance(b, e, r, cost).stock = b.stock + ledger[e].delta
<1>1. ledger[e] \in Entry
  <2>1. ledger \in [1..Len(ledger) -> Entry] /\ DOMAIN ledger = 1..Len(ledger)
    BY LenProperties DEF TypeOK
  <2> QED
    BY <2>1
<1>2. ledger[e].delta \in Int /\ ledger[e].cost \in Int
  BY <1>1 DEF Entry
<1>3. ReplayedCost(e, r, b, cost) \in Int
  <2>1. (IF ledger[e].delta < 0 THEN - ledger[e].delta ELSE ledger[e].delta) * b.average \in Int
    BY <1>2 DEF Balance
  <2> QED
    BY <1>2, <2>1 DEF ReplayedCost
<1> QED
  BY <1>2, <1>3, ReceiveFacts, MoveFacts DEF NextBalance

(* A replay goes through the entries of a SKU from the receipt on, in the    *)
(* order they are filed, and each balance comes from the one before.         *)
Replay(r, s, cost, o, b) ==
    /\ Len(o) \in Nat /\ DOMAIN o = 1..Len(o)
    /\ \A k \in 1..Len(o) : o[k] \in EntriesOf(s) /\ FiledAt(o[k]) >= rows[r].posted
    /\ \A e \in EntriesOf(s) : FiledAt(e) >= rows[r].posted => \E k \in 1..Len(o) : o[k] = e
    /\ \A j, k \in 1..Len(o) : j < k <=> FiledAt(o[j]) < FiledAt(o[k])
    /\ DOMAIN b = 0..Len(o) /\ b[0] = StartsFrom(r, s)
    /\ \A k \in 1..Len(o) : b[k] = NextBalance(b[k - 1], o[k], r, cost)
    /\ \A k \in 0..Len(o) : b[k] \in Balance

(* The order and the balances of a replay. *)
LEMMA ReplayFacts ==
    ASSUME IInv, NEW r \in DOMAIN rows, rows[r].status = "posted",
           NEW s \in SKUsOf(rows[r].lines), NEW cost \in Int
    PROVE  Replay(r, s, cost, Replayed(r, s), Balances(r, s, cost))
<1> DEFINE S == {e \in EntriesOf(s) : FiledAt(e) >= rows[r].posted}
           rank == [e \in EntriesOf(s) |-> FiledAt(e)]
           o == Replayed(r, s)
           n == Len(o)
           start == StartsFrom(r, s)
           b == Balances(r, s, cost)
<1>1. TypeOK /\ Filing /\ Matched
  BY DEF IInv
<1>2. /\ IsFiniteSet(EntriesOf(s)) /\ EntriesOf(s) \in SUBSET DOMAIN ledger
      /\ \A e \in EntriesOf(s) : ledger[e] \in Entry /\ ledger[e].sku = s /\ FiledAt(e) \in Nat
  BY <1>1, EntriesFacts, FiledAtFacts
<1>3. /\ IsFiniteSet(S)
      /\ \A e \in S : e \in EntriesOf(s) /\ rank[e] = FiledAt(e) /\ rank[e] \in Int
                   /\ FiledAt(e) >= rows[r].posted
      /\ \A e \in EntriesOf(s) : FiledAt(e) >= rows[r].posted => e \in S
      /\ \A e, f \in S : rank[e] = rank[f] => e = f
  <2>1. S \in SUBSET EntriesOf(s)
    OBVIOUS
  <2>2. IsFiniteSet(S)
    BY <1>2, <2>1, FS_Subset
  <2>3. \A e, f \in S : rank[e] = rank[f] => e = f
    BY <1>1, <1>2 DEF Filing
  <2> QED
    BY <1>2, <2>2, <2>3
<1>4. o = Ordered(S, rank)
  BY DEF Replayed
<1> HIDE DEF S, rank, o
<1>5. /\ Cardinality(S) \in Nat /\ DOMAIN o = 1..Cardinality(S)
      /\ o \in [1..Cardinality(S) -> S]
      /\ \A x \in S : \E k \in 1..Cardinality(S) : o[k] = x
      /\ \A j, k \in 1..Cardinality(S) : j < k <=> rank[o[j]] < rank[o[k]]
  BY <1>3, <1>4, OrderedFacts
<1>6. n = Cardinality(S)
  <2>1. o \in Seq(S)
    BY <1>5, SeqDef
  <2> QED
    BY <1>5, <2>1, LenProperties
<1>7. start \in Balance
  <2>1. EntryOf(r, s) \in EntriesOf(s)
    BY <1>1, EntryOfFacts
  <2> QED
    BY <1>2, <2>1 DEF StartsFrom, Entry
<1>8. b = CHOOSE g : Chain(g, n, o, r, cost, start)
  BY DEF Balances, Chain, NextBalance, o
<1>9. n \in Nat
  BY <1>5, <1>6
<1> HIDE DEF b, start, n
<1>10. Chain(b, n, o, r, cost, start)
  BY <1>8, <1>9, ChainExists
<1>11. /\ DOMAIN b = 0..n /\ b[0] = start
       /\ \A k \in 1..n : b[k] = NextBalance(b[k - 1], o[k], r, cost)
  <2>1. b = [k \in 0..n |-> IF k = 0 THEN start ELSE NextBalance(b[k - 1], o[k], r, cost)]
    BY <1>10 DEF Chain
  <2>2. DOMAIN b = 0..n /\ \A k \in 0..n : b[k] = IF k = 0 THEN start ELSE NextBalance(b[k - 1], o[k], r, cost)
    BY <2>1
  <2>3. 0 \in 0..n /\ \A k \in 1..n : k \in 0..n /\ k # 0
    BY <1>9
  <2> QED
    BY <2>2, <2>3
<1>12. \A k \in 0..n : b[k] \in Balance
  <2> DEFINE T == {k \in 0..n : b[k] \notin Balance}
  <2> SUFFICES ASSUME T # {} PROVE FALSE
    OBVIOUS
  <2>1. PICK m \in T : \A k \in T : m <= k
    <3>1. T \in SUBSET Nat
      BY <1>9
    <3> HIDE DEF T
    <3> QED
      BY <3>1, Least
  <2>2. m \in 0..n /\ b[m] \notin Balance /\ m # 0
    BY <1>7, <1>11
  <2>3. m - 1 \in 0..n /\ ~ (m <= m - 1) /\ m \in 1..n
    BY <1>9, <2>2
  <2>4. b[m - 1] \in Balance
    BY <2>1, <2>3
  <2>5. o[m] \in DOMAIN ledger
    BY <1>2, <1>3, <1>5, <1>6, <2>3
  <2> QED
    BY <1>1, <1>11, <2>2, <2>3, <2>4, <2>5, NextFacts
<1>13. \A k \in 1..n : o[k] \in S
  BY <1>5, <1>6
<1>14. \A j, k \in 1..n : j < k <=> FiledAt(o[j]) < FiledAt(o[k])
  <2>1. \A j, k \in 1..n : j < k <=> rank[o[j]] < rank[o[k]]
    BY <1>5, <1>6
  <2> QED
    BY <1>3, <1>13, <2>1
<1> QED
  BY <1>3, <1>5, <1>6, <1>9, <1>11, <1>12, <1>13, <1>14 DEF Replay, n, o, b, start

(* Filed in the order they were made, the entries of a replay are those from *)
(* the receipt to the last, and their stocks come out as they were.          *)
LEMMA ReplayInOrder ==
    ASSUME IInv, NEW r \in DOMAIN rows, rows[r].status = "posted",
           NEW s \in SKUsOf(rows[r].lines), s \notin overwritten, FiledInOrder(s),
           NEW cost \in Int, NEW o, NEW b, Replay(r, s, cost, o, b)
    PROVE  /\ Len(o) > 0 /\ o[1] = EntryOf(r, s)
           /\ \A j, k \in 1..Len(o) : j < k <=> o[j] < o[k]
           /\ \A e \in EntriesOf(s) : o[1] <= e => \E k \in 1..Len(o) : o[k] = e
           /\ \A k \in 1..Len(o) : k + 1 \in 1..Len(o) => Follows(o[k], o[k + 1])
           /\ \A k \in 1..Len(o) : /\ b[k - 1].stock = ledger[o[k]].before.stock
                                   /\ b[k].stock = ledger[o[k]].after.stock
           /\ Opening[s] >= 0 => \A k \in 0..Len(o) : Near(b[k], Most(s))
<1> DEFINE e0 == EntryOf(r, s)
           n == Len(o)
<1>1. TypeOK /\ Working /\ StocksFit /\ StocksFollow /\ Matched /\ ValuesNear
  BY DEF IInv
<1>2. /\ \A e \in EntriesOf(s) : e \in DOMAIN ledger /\ e \in Nat /\ ledger[e] \in Entry
                              /\ ledger[e].sku = s /\ FiledAt(e) \in Nat
  BY <1>1, EntriesFacts, FiledAtFacts
<1>3. e0 \in EntriesOf(s) /\ ledger[e0].row = r /\ FiledAt(e0) = rows[r].posted
  BY <1>1, EntryOfFacts DEF FiledAt
<1>4. s \in SKUs
  BY <1>2, <1>3 DEF Entry
<1>5. \A e, f \in EntriesOf(s) : e < f <=> FiledAt(e) < FiledAt(f)
  <2> SUFFICES ASSUME NEW e \in EntriesOf(s), NEW f \in EntriesOf(s)
               PROVE  e < f <=> FiledAt(e) < FiledAt(f)
    OBVIOUS
  <2>1. (e < f => FiledAt(e) < FiledAt(f)) /\ (f < e => FiledAt(f) < FiledAt(e))
    BY DEF FiledInOrder
  <2>2. e \in Nat /\ f \in Nat /\ FiledAt(e) \in Nat /\ FiledAt(f) \in Nat
    BY <1>2
  <2>3. e = f => FiledAt(e) = FiledAt(f)
    OBVIOUS
  <2> QED
    BY <2>1, <2>2, <2>3
<1>6. /\ n \in Nat /\ \A k \in 1..n : o[k] \in EntriesOf(s) /\ FiledAt(o[k]) >= rows[r].posted
      /\ \A e \in EntriesOf(s) : FiledAt(e) >= rows[r].posted => \E k \in 1..n : o[k] = e
      /\ \A j, k \in 1..n : j < k <=> FiledAt(o[j]) < FiledAt(o[k])
      /\ b[0] = ledger[e0].before
      /\ \A k \in 1..n : b[k] = NextBalance(b[k - 1], o[k], r, cost)
      /\ \A k \in 0..n : b[k] \in Balance
  BY DEF Replay, StartsFrom
<1> HIDE DEF e0, n
<1>7. \A j, k \in 1..n : j < k <=> o[j] < o[k]
  BY <1>5, <1>6
<1>8. n > 0 /\ o[1] = e0
  <2>1. PICK k \in 1..n : o[k] = e0
    BY <1>2, <1>3, <1>6
  <2>2. 1 \in 1..n /\ n > 0
    BY <1>6, <2>1
  <2>3. ~ (1 < k)
    <3>1. FiledAt(o[1]) >= FiledAt(o[k])
      BY <1>3, <1>6, <2>1, <2>2
    <3>2. FiledAt(o[1]) \in Nat /\ FiledAt(o[k]) \in Nat
      BY <1>2, <1>6, <2>2
    <3> QED
      BY <1>6, <2>2, <3>1, <3>2
  <2> QED
    BY <1>6, <2>1, <2>2, <2>3
<1>9. \A e \in EntriesOf(s) : e0 <= e => FiledAt(e) >= rows[r].posted
  <2> SUFFICES ASSUME NEW e \in EntriesOf(s), e0 <= e PROVE FiledAt(e) >= FiledAt(e0)
    BY <1>3
  <2>1. e \in Nat /\ e0 \in Nat /\ FiledAt(e) \in Nat /\ FiledAt(e0) \in Nat
    BY <1>2, <1>3
  <2>2. ~ (e < e0)
    BY <2>1
  <2> QED
    BY <1>3, <1>5, <2>1, <2>2
<1>10. \A e \in EntriesOf(s) : o[1] <= e => \E k \in 1..n : o[k] = e
  BY <1>6, <1>8, <1>9
<1>11. ASSUME NEW k \in 1..n, k + 1 \in 1..n
       PROVE  Follows(o[k], o[k + 1])
  <2>1. /\ o[k] \in EntriesOf(s) /\ o[k + 1] \in EntriesOf(s) /\ o[k] < o[k + 1]
        /\ o[k] \in Nat /\ o[k + 1] \in Nat /\ o[1] \in Nat /\ o[1] <= o[k]
    <3>1. k < k + 1 /\ 1 \in 1..n /\ (k = 1 \/ 1 < k)
      BY <1>6, <1>8
    <3> QED
      BY <1>2, <1>6, <1>7, <1>11, <3>1
  <2>2. ASSUME NEW g \in (o[k] + 1)..(o[k + 1] - 1), ledger[g].sku = s
        PROVE  FALSE
    <3>1. g \in EntriesOf(s)
      <4>1. Len(ledger) \in Nat /\ DOMAIN ledger = 1..Len(ledger)
        BY <1>1, LenProperties DEF TypeOK
      <4>2. g \in DOMAIN ledger
        BY <1>2, <2>1, <4>1
      <4> QED
        BY <2>2, <4>2 DEF EntriesOf
    <3>2. PICK j \in 1..n : o[j] = g
      BY <1>10, <2>1, <3>1
    <3>3. k < j /\ j < k + 1
      BY <1>7, <1>11, <2>1, <3>2
    <3> QED
      BY <1>6, <3>3
  <2> QED
    BY <1>2, <2>1, <2>2 DEF Follows
<1>12. \A k \in 1..n : b[k - 1].stock = ledger[o[k]].before.stock /\ b[k].stock = ledger[o[k]].after.stock
  <2> DEFINE T == {k \in 1..n : ~ (/\ b[k - 1].stock = ledger[o[k]].before.stock
                                   /\ b[k].stock = ledger[o[k]].after.stock)}
  <2> SUFFICES ASSUME T # {} PROVE FALSE
    OBVIOUS
  <2>1. PICK m \in T : \A k \in T : m <= k
    <3>1. T \in SUBSET Nat
      BY <1>6
    <3> HIDE DEF T
    <3> QED
      BY <3>1, Least
  <2>2. m \in 1..n /\ ~ (/\ b[m - 1].stock = ledger[o[m]].before.stock
                         /\ b[m].stock = ledger[o[m]].after.stock)
    OBVIOUS
  <2>3. m # 1 => m - 1 \in 1..n /\ m - 1 \notin T
    <3>1. m # 1 => m - 1 \in 1..n /\ ~ (m <= m - 1)
      BY <1>6, <2>2
    <3> HIDE DEF T
    <3> QED
      BY <2>1, <3>1
  <2>4. o[m] \in EntriesOf(s) /\ o[m] \in DOMAIN ledger /\ b[m - 1] \in Balance
    BY <1>2, <1>6, <2>2
  <2>5. b[m - 1].stock = ledger[o[m]].before.stock
    <3>1. CASE m = 1
      BY <1>6, <1>8, <3>1
    <3>2. CASE m # 1
      <4>1. PICK j : j = m - 1
        OBVIOUS
      <4>2. j \in 1..n /\ j + 1 = m /\ b[j].stock = ledger[o[j]].after.stock
        BY <1>6, <2>2, <2>3, <3>2, <4>1
      <4>3. Follows(o[j], o[m])
        BY <1>11, <2>2, <4>2
      <4>4. ledger[o[j]].after.stock = ledger[o[m]].before.stock
        BY <1>1, <1>4, <1>6, <2>4, <4>2, <4>3 DEF StocksFollow, Gapless
      <4> QED
        BY <4>1, <4>2, <4>4
    <3> QED
      BY <3>1, <3>2
  <2>6. b[m].stock = b[m - 1].stock + ledger[o[m]].delta
    BY <1>1, <1>6, <2>2, <2>4, NextFacts
  <2>7. ledger[o[m]].after.stock = ledger[o[m]].before.stock + ledger[o[m]].delta
    BY <1>1, <2>4 DEF StocksFit
  <2> QED
    BY <2>2, <2>5, <2>6, <2>7
<1>13. ASSUME Opening[s] >= 0
       PROVE  \A k \in 0..n : Near(b[k], Most(s))
  <2> DEFINE T == {k \in 0..n : ~ Near(b[k], Most(s))}
  <2> SUFFICES ASSUME T # {} PROVE FALSE
    OBVIOUS
  <2>1. PICK m \in T : \A k \in T : m <= k
    <3>1. T \in SUBSET Nat
      BY <1>6
    <3> HIDE DEF T
    <3> QED
      BY <3>1, Least
  <2>2. m \in 0..n /\ ~ Near(b[m], Most(s))
    OBVIOUS
  <2>3. m # 0
    <3>1. Near(ledger[e0].before, Most(s))
      BY <1>1, <1>3, <1>4, <1>13 DEF ValuesNear
    <3> QED
      BY <1>6, <2>2, <3>1
  <2>4. m \in 1..n /\ m - 1 \in 0..n /\ Near(b[m - 1], Most(s))
    <3>1. m \in 1..n /\ m - 1 \in 0..n /\ ~ (m <= m - 1)
      BY <1>6, <2>2, <2>3
    <3> QED
      BY <2>1, <3>1
  <2>5. PICK prev, e : prev = b[m - 1] /\ e = o[m]
    OBVIOUS
  <2>6. /\ prev \in Balance /\ Near(prev, Most(s)) /\ e \in EntriesOf(s) /\ e \in DOMAIN ledger
        /\ b[m] = NextBalance(prev, e, r, cost) /\ ledger[e] \in Entry
        /\ prev.stock = ledger[e].before.stock /\ b[m].stock = ledger[e].after.stock
    BY <1>2, <1>6, <1>12, <2>4, <2>5
  <2>7. Most(s) \in Nat /\ ledger[e].after.stock <= Most(s)
    BY <1>1, <2>6, MostFacts
  <2>8. ledger[e].delta \in Int /\ ledger[e].cost \in Int
    BY <2>6 DEF Entry
  <2>9. CASE rows[ledger[e].row].type = "purchase_receipt"
    <3>1. b[m] = Receive(prev, ledger[e].delta, ReplayedCost(e, r, prev, cost))
      BY <2>6, <2>9 DEF NextBalance
    <3>2. ReplayedCost(e, r, prev, cost) \in Int
      BY <2>8, <2>9 DEF ReplayedCost
    <3>3. ledger[e].delta > 0
      <4>1. ledger[e].row \in DOMAIN rows
        BY <1>1, <2>6 DEF TypeOK
      <4>2. PICK i \in DOMAIN rows[ledger[e].row].lines : ledger[e].delta = rows[ledger[e].row].lines[i].delta
        BY <1>1, <2>6 DEF Matched
      <4> QED
        BY <1>1, <2>9, <4>1, <4>2 DEF Working, GoodRow
    <3>4. prev.stock >= 0
      <4>1. ledger[e].before.stock >= Lowest(s)
        BY <1>1, <1>2, <2>6 DEF StocksFit
      <4>2. Lowest(s) = 0
        BY <1>4, <1>13, StockAssumption DEF Lowest
      <4> QED
        BY <2>6, <4>1, <4>2
    <3>5. prev.stock + ledger[e].delta > 0 /\ prev.stock + ledger[e].delta <= Most(s)
      <4>1. prev.stock + ledger[e].delta = b[m].stock
        BY <2>6, <2>8, <3>1, <3>2, ReceiveFacts
      <4> QED
        BY <2>6, <2>7, <2>8, <3>3, <3>4, <4>1 DEF Balance
    <3>6. Near(b[m], Most(s))
      BY <2>6, <2>7, <2>8, <3>1, <3>2, <3>5, ReceiveFacts
    <3> QED
      BY <2>2, <3>6
  <2>10. CASE rows[ledger[e].row].type # "purchase_receipt"
    <3>1. b[m] = Move(prev, ledger[e].delta)
      BY <2>6, <2>10 DEF NextBalance
    <3>2. Near(b[m], Most(s))
      BY <2>6, <2>7, <2>8, <3>1, MoveFacts
    <3> QED
      BY <2>2, <3>2
  <2> QED
    BY <2>9, <2>10
<1> QED
  BY <1>7, <1>8, <1>10, <1>11, <1>12, <1>13 DEF e0, n

(* A revised line stays well formed and keeps its quantities. *)
LEMMA RevisedFacts ==
    ASSUME NEW line \in Entry, NEW before \in Balance, NEW after \in Balance, NEW cost \in Int
    PROVE  LET new == Revised(line, before, after, cost)
           IN  /\ new \in Entry /\ new.row = line.row /\ new.sku = line.sku /\ new.delta = line.delta
               /\ new.before.stock = line.before.stock /\ new.after.stock = line.after.stock
<1> DEFINE x == [before EXCEPT !.stock = line.before.stock]
           y == [after EXCEPT !.stock = line.after.stock]
           new == Revised(line, before, after, cost)
<1>1. line.before \in Balance /\ line.after \in Balance
  BY DEF Entry
<1>2. x \in Balance /\ x.stock = line.before.stock
  BY <1>1 DEF Balance
<1>3. y \in Balance /\ y.stock = line.after.stock
  BY <1>1 DEF Balance
<1>4. new = [line EXCEPT !.cost = cost, !.before = x, !.after = y]
  BY DEF Revised
<1> HIDE DEF x, y, new
<1>5. new = [row |-> line.row, sku |-> line.sku, delta |-> line.delta, cost |-> cost,
             before |-> x, after |-> y]
  BY <1>4 DEF Entry
<1>6. /\ new.row = line.row /\ new.sku = line.sku /\ new.delta = line.delta
      /\ new.before = x /\ new.after = y
  BY <1>5
<1>7. new \in Entry
  BY <1>2, <1>3, <1>5 DEF Entry
<1> QED
  BY <1>2, <1>3, <1>6, <1>7 DEF new

(* It takes all of a balance that has its stock. *)
LEMMA RevisedWhole ==
    ASSUME NEW line \in Entry, NEW before \in Balance, NEW after \in Balance, NEW cost,
           line.before.stock = before.stock, line.after.stock = after.stock
    PROVE  Revised(line, before, after, cost).before = before /\ Revised(line, before, after, cost).after = after
<1>1. [before EXCEPT !.stock = line.before.stock] = before
  BY DEF Balance
<1>2. [after EXCEPT !.stock = line.after.stock] = after
  BY DEF Balance
<1>3. Revised(line, before, after, cost) = [line EXCEPT !.cost = cost, !.before = before, !.after = after]
  BY <1>1, <1>2 DEF Revised
<1>4. Revised(line, before, after, cost)
        = [row |-> line.row, sku |-> line.sku, delta |-> line.delta, cost |-> cost,
           before |-> before, after |-> after]
  BY <1>3 DEF Entry
<1> QED
  BY <1>4

(* What a cost correction does: the entries that are replayed get new costs  *)
(* and balances, and so do their SKUs.                                       *)
Touched(r, s, e, cost) ==
    \E k \in 1..Len(Replayed(r, s)) :
        LET b == Balances(r, s, cost)
        IN  /\ Replayed(r, s)[k] = e
            /\ ledger'[e] = Revised(ledger[e], b[k - 1], b[k], ReplayedCost(e, r, b[k - 1], cost))
Recosted(r, cost) ==
    LET skus == SKUsOf(rows[r].lines)
    IN  /\ rows[r].status = "posted" /\ \A s \in skus : cost[s] \in Int
        /\ ledger' = [e \in DOMAIN ledger |-> ledger'[e]]
        /\ \A e \in DOMAIN ledger :
            IF ledger[e].sku \in skus /\ \E k \in 1..Len(Replayed(r, ledger[e].sku)) : Replayed(r, ledger[e].sku)[k] = e
            THEN Touched(r, ledger[e].sku, e, cost[ledger[e].sku])
            ELSE ledger'[e] = ledger[e]
        /\ balance' = [s \in SKUs |-> balance'[s]]
        /\ \A s \in SKUs :
            IF s \in skus
            THEN LET end == Balances(r, s, cost[s])[Len(Replayed(r, s))]
                 IN  balance'[s] = [end EXCEPT !.stock = balance[s].stock] /\ end.stock = balance[s].stock
            ELSE balance'[s] = balance[s]
        /\ recosts' = recosts + 1 /\ UNCHANGED <<rows, clock, postings, correcting, desk>>

(* A cost correction costs a receipt again. *)
LEMMA CostCorrectionRecosts ==
    ASSUME IInv, NEW r \in DOMAIN rows, NEW c \in Recosts, CostCorrection(r, c)
    PROVE  \E cost : Recosted(r, cost)
<1> DEFINE l == rows[r].lines
           p == [i \in DOMAIN l |-> LET x == l[i] IN [x EXCEPT !.price = c.prices[x.sku]]]
           cost == [s \in SKUsOf(p) |-> LineCosts(p, c.charges)[LineOf(p, s)]]
           o == [s \in SKUsOf(p) |-> Replayed(r, s)]
           b == [s \in SKUsOf(p) |-> Balances(r, s, LineCosts(p, c.charges)[LineOf(p, s)])]
<1>1. TypeOK /\ Working
  BY DEF IInv
<1>2. GoodLines(l) /\ l \in Seq(Line) /\ l # <<>> /\ Distinct(l)
  BY <1>1 DEF Working, GoodRow, GoodLines
<1>3. Len(l) \in Nat /\ DOMAIN l = 1..Len(l) /\ l \in [1..Len(l) -> Line] /\ Len(l) # 0
  BY <1>2, LenProperties, EmptySeq
<1>4. c.prices \in [SKUs -> Nat] /\ c.charges \in Nat
  BY StockAssumption
<1>5. \A i \in DOMAIN l : p[i] \in Line /\ p[i].sku = l[i].sku
  <2> SUFFICES ASSUME NEW i \in DOMAIN l PROVE p[i] \in Line /\ p[i].sku = l[i].sku
    OBVIOUS
  <2>1. PICK x : x = l[i]
    OBVIOUS
  <2>2. x \in Line /\ p[i] = [x EXCEPT !.price = c.prices[x.sku]]
    BY <1>3, <2>1
  <2>3. c.prices[x.sku] \in Nat
    BY <1>4, <2>2 DEF Line
  <2> HIDE DEF p
  <2> QED
    BY <2>1, <2>2, <2>3 DEF Line
<1>6. DOMAIN p = DOMAIN l /\ p = [i \in 1..Len(l) |-> p[i]]
  BY <1>3
<1>7. /\ Correctable(r) /\ Spreads(p, c.charges)
      /\ \A s \in SKUsOf(p) : b[s][Len(o[s])].stock = balance[s].stock
      /\ ledger' = [e \in DOMAIN ledger |->
             LET s == ledger[e].sku
             IN  IF s \in SKUsOf(p) /\ e \in ToSet(o[s])
                 THEN LET k == CHOOSE k \in DOMAIN o[s] : o[s][k] = e
                      IN  Revised(ledger[e], b[s][k - 1], b[s][k],
                                  ReplayedCost(e, r, b[s][k - 1], LineCosts(p, c.charges)[LineOf(p, s)]))
                 ELSE ledger[e]]
      /\ balance' = [s \in SKUs |-> IF s \in SKUsOf(p)
                                    THEN [b[s][Len(o[s])] EXCEPT !.stock = balance[s].stock]
                                    ELSE balance[s]]
      /\ recosts' = recosts + 1
      /\ UNCHANGED <<rows, clock, postings, correcting, desk>>
  BY DEF CostCorrection
<1>8. rows[r].status = "posted"
  BY <1>7 DEF Correctable
<1> HIDE DEF p
<1>9. p \in Seq(Line) /\ p # <<>>
  <2>1. p \in Seq(Line)
    <3>1. p \in [1..Len(l) -> Line]
      BY <1>3, <1>5, <1>6
    <3> QED
      BY <1>3, <3>1, SeqDef
  <2>2. Len(p) = Len(l)
    BY <1>3, <1>6, <2>1, LenProperties
  <2> QED
    BY <1>3, <2>1, <2>2, EmptySeq
<1>10. SKUsOf(p) = SKUsOf(l) /\ Distinct(p)
  <2>1. DOMAIN p = DOMAIN l /\ \A i \in DOMAIN p : p[i].sku = l[i].sku
    BY <1>5, <1>6
  <2>2. SKUsOf(p) = SKUsOf(l)
    BY <2>1 DEF SKUsOf
  <2>3. Distinct(p)
    BY <1>2, <2>1 DEF Distinct
  <2> QED
    BY <2>2, <2>3
<1>11. \A s \in SKUsOf(p) : cost[s] \in Int /\ cost[s] = LineCosts(p, c.charges)[LineOf(p, s)]
  <2>1. LineCosts(p, c.charges) \in [DOMAIN p -> Int]
    BY <1>4, <1>7, <1>9, LineCostsFacts
  <2>2. \A s \in SKUsOf(p) : LineOf(p, s) \in DOMAIN p
    BY <1>10, LineOfFacts
  <2> QED
    BY <2>1, <2>2
<1>12. \A s \in SKUsOf(p) : o[s] = Replayed(r, s) /\ b[s] = Balances(r, s, cost[s])
  BY <1>11
<1>13. \A s \in SKUsOf(p) : DOMAIN Replayed(r, s) = 1..Len(Replayed(r, s))
  <2> SUFFICES ASSUME NEW s \in SKUsOf(p) PROVE DOMAIN Replayed(r, s) = 1..Len(Replayed(r, s))
    OBVIOUS
  <2>1. Replay(r, s, cost[s], Replayed(r, s), Balances(r, s, cost[s]))
    BY <1>8, <1>10, <1>11, ReplayFacts
  <2> QED
    BY <2>1 DEF Replay
<1> HIDE DEF cost, o, b
<1>14. ASSUME NEW e \in DOMAIN ledger
       PROVE  IF ledger[e].sku \in SKUsOf(p) /\ \E k \in 1..Len(Replayed(r, ledger[e].sku)) : Replayed(r, ledger[e].sku)[k] = e
              THEN Touched(r, ledger[e].sku, e, cost[ledger[e].sku])
              ELSE ledger'[e] = ledger[e]
  <2>1. PICK s, x : s = ledger[e].sku /\ x = Replayed(r, s)
    OBVIOUS
  <2>2. CASE s \in SKUsOf(p) /\ \E k \in 1..Len(x) : x[k] = e
    <3>1. o[s] = x /\ b[s] = Balances(r, s, cost[s]) /\ DOMAIN x = 1..Len(x)
          /\ cost[s] = LineCosts(p, c.charges)[LineOf(p, s)]
      BY <1>11, <1>12, <1>13, <2>1, <2>2
    <3>2. e \in ToSet(o[s])
      BY <2>2, <3>1 DEF ToSet
    <3>3. PICK k : k = CHOOSE j \in DOMAIN o[s] : o[s][j] = e
      OBVIOUS
    <3>4. k \in 1..Len(x) /\ x[k] = e
      BY <2>2, <3>1, <3>3
    <3>5. ledger'[e] = Revised(ledger[e], b[s][k - 1], b[s][k],
                               ReplayedCost(e, r, b[s][k - 1], LineCosts(p, c.charges)[LineOf(p, s)]))
      BY <1>7, <2>1, <2>2, <3>2, <3>3
    <3>6. Touched(r, s, e, cost[s])
      BY <2>1, <3>1, <3>4, <3>5 DEF Touched
    <3> QED
      BY <2>1, <2>2, <3>6
  <2>3. CASE ~ (s \in SKUsOf(p) /\ \E k \in 1..Len(x) : x[k] = e)
    <3>1. ~ (s \in SKUsOf(p) /\ e \in ToSet(o[s]))
      BY <1>12, <1>13, <2>1, <2>3 DEF ToSet
    <3> QED
      BY <1>7, <2>1, <2>3, <3>1
  <2> QED
    BY <2>2, <2>3
<1>15. ASSUME NEW s \in SKUs
       PROVE  IF s \in SKUsOf(p)
              THEN LET end == Balances(r, s, cost[s])[Len(Replayed(r, s))]
                   IN  balance'[s] = [end EXCEPT !.stock = balance[s].stock] /\ end.stock = balance[s].stock
              ELSE balance'[s] = balance[s]
  BY <1>7, <1>12
<1>16. ledger' = [e \in DOMAIN ledger |-> ledger'[e]] /\ balance' = [s \in SKUs |-> balance'[s]]
  BY <1>7
<1>17. Recosted(r, cost)
  BY <1>7, <1>8, <1>10, <1>11, <1>14, <1>15, <1>16 DEF Recosted
<1> QED
  BY <1>17

(* The quantities and the stocks of what is replayed stay as they were. *)
Alike(e) ==
    /\ ledger'[e] \in Entry /\ ledger'[e].row = ledger[e].row /\ ledger'[e].sku = ledger[e].sku
    /\ ledger'[e].delta = ledger[e].delta /\ ledger'[e].before.stock = ledger[e].before.stock
    /\ ledger'[e].after.stock = ledger[e].after.stock

(* Quantities, stocks and documents stay as they were. *)
LEMMA RecostedKeeps ==
    ASSUME IInv, NEW r \in DOMAIN rows, NEW cost, Recosted(r, cost)
    PROVE  /\ ledger' \in Seq(Entry) /\ DOMAIN ledger' = DOMAIN ledger /\ \A e \in DOMAIN ledger : Alike(e)
           /\ balance' \in [SKUs -> Balance] /\ \A s \in SKUs : balance'[s].stock = balance[s].stock
<1> DEFINE skus == SKUsOf(rows[r].lines)
<1>1. TypeOK /\ rows[r].status = "posted" /\ \A s \in skus : cost[s] \in Int
  BY DEF IInv, Recosted
<1>2. /\ Len(ledger) \in Nat /\ DOMAIN ledger = 1..Len(ledger)
      /\ \A e \in DOMAIN ledger : ledger[e] \in Entry
  BY <1>1, LenProperties DEF TypeOK
<1>3. \A s \in skus : Replay(r, s, cost[s], Replayed(r, s), Balances(r, s, cost[s]))
  BY <1>1, ReplayFacts
<1>4. \A s \in skus : \A k \in 1..Len(Replayed(r, s)) :
          /\ Balances(r, s, cost[s])[k] \in Balance /\ Balances(r, s, cost[s])[k - 1] \in Balance
  <2> SUFFICES ASSUME NEW s \in skus, NEW k \in 1..Len(Replayed(r, s))
               PROVE  Balances(r, s, cost[s])[k] \in Balance /\ Balances(r, s, cost[s])[k - 1] \in Balance
    OBVIOUS
  <2>1. k \in 0..Len(Replayed(r, s)) /\ k - 1 \in 0..Len(Replayed(r, s))
    BY <1>3 DEF Replay
  <2> QED
    BY <1>3, <2>1 DEF Replay
<1>5. ASSUME NEW e \in DOMAIN ledger
      PROVE  Alike(e)
  <2>1. PICK s : s = ledger[e].sku
    OBVIOUS
  <2>2. ledger[e] \in Entry
    BY <1>2
  <2>3. CASE ledger'[e] = ledger[e]
    BY <2>2, <2>3 DEF Alike
  <2>4. CASE s \in skus /\ Touched(r, s, e, cost[s])
    <3>1. PICK k \in 1..Len(Replayed(r, s)) :
             ledger'[e] = Revised(ledger[e], Balances(r, s, cost[s])[k - 1], Balances(r, s, cost[s])[k],
                                  ReplayedCost(e, r, Balances(r, s, cost[s])[k - 1], cost[s]))
      BY <2>4 DEF Touched
    <3>2. PICK b, a, n : /\ b = Balances(r, s, cost[s])[k - 1] /\ a = Balances(r, s, cost[s])[k]
                         /\ n = ReplayedCost(e, r, b, cost[s])
      OBVIOUS
    <3>3. b \in Balance /\ a \in Balance
      BY <1>4, <2>4, <3>2
    <3>4. n \in Int
      <4>1. cost[s] \in Int /\ ledger[e].cost \in Int /\ ledger[e].delta \in Int /\ b.average \in Int
        BY <1>1, <2>2, <2>4, <3>3 DEF Entry, Balance
      <4>2. (IF ledger[e].delta < 0 THEN - ledger[e].delta ELSE ledger[e].delta) * b.average \in Int
        BY <4>1
      <4> QED
        BY <3>2, <4>1, <4>2 DEF ReplayedCost
    <3>5. ledger'[e] = Revised(ledger[e], b, a, n)
      BY <3>1, <3>2
    <3> QED
      BY <2>2, <3>3, <3>4, <3>5, RevisedFacts DEF Alike
  <2> QED
    BY <2>1, <2>3, <2>4 DEF Recosted
<1>6. ledger' \in Seq(Entry) /\ DOMAIN ledger' = DOMAIN ledger
  <2>1. ledger' = [e \in 1..Len(ledger) |-> ledger'[e]]
    BY <1>2 DEF Recosted
  <2>2. \A e \in 1..Len(ledger) : ledger'[e] \in Entry
    BY <1>2, <1>5 DEF Alike
  <2>3. ledger' \in [1..Len(ledger) -> Entry]
    BY <2>1, <2>2
  <2>4. ledger' \in Seq(Entry)
    BY <1>2, <2>3, SeqDef
  <2> QED
    BY <1>2, <2>3, <2>4
<1>7. ASSUME NEW s \in SKUs
      PROVE  balance'[s] \in Balance /\ balance'[s].stock = balance[s].stock
  <2>1. balance[s] \in Balance
    BY <1>1 DEF TypeOK
  <2>2. CASE s \in skus
    <3>1. PICK b : b = Balances(r, s, cost[s])[Len(Replayed(r, s))]
      OBVIOUS
    <3>2. b \in Balance
      <4>1. Len(Replayed(r, s)) \in 0..Len(Replayed(r, s))
        BY <1>3, <2>2 DEF Replay
      <4> QED
        BY <1>3, <2>2, <3>1, <4>1 DEF Replay
    <3>3. balance'[s] = [b EXCEPT !.stock = balance[s].stock]
      BY <2>2, <3>1 DEF Recosted
    <3> QED
      BY <2>1, <3>2, <3>3 DEF Balance
  <2>3. CASE s \notin skus
    BY <2>1, <2>3 DEF Recosted
  <2> QED
    BY <2>2, <2>3
<1>8. balance' \in [SKUs -> Balance]
  <2>1. balance' = [s \in SKUs |-> balance'[s]]
    BY DEF Recosted
  <2> QED
    BY <1>7, <2>1
<1> QED
  BY <1>5, <1>6, <1>7, <1>8

(* Where all was filed in the order it was made, a replay leaves no gap, and *)
(* no value further from its average.                                        *)
LEMMA RecostedHistory ==
    ASSUME IInv, NEW r \in DOMAIN rows, NEW cost, Recosted(r, cost),
           NEW s \in SKUs \ overwritten, FiledInOrder(s)
    PROVE  /\ \A e, f \in EntriesOf(s) : Follows(e, f) => ledger'[e].after = ledger'[f].before
           /\ \A e \in EntriesOf(s) : (\A f \in EntriesOf(s) : f <= e) => ledger'[e].after = balance'[s]
           /\ Opening[s] >= 0 =>
                /\ Near(balance'[s], Most(s))
                /\ \A e \in EntriesOf(s) : Near(ledger'[e].before, Most(s)) /\ Near(ledger'[e].after, Most(s))
<1>1. TypeOK /\ Matched /\ HistoryHasNoGaps /\ ValuesNear
  BY DEF IInv
<1>2. /\ \A e \in EntriesOf(s) : e \in DOMAIN ledger /\ e \in Nat /\ ledger[e] \in Entry /\ ledger[e].sku = s
  BY <1>1, EntriesFacts
<1>3. /\ \A e, f \in EntriesOf(s) : Follows(e, f) => ledger[e].after = ledger[f].before
      /\ \A e \in EntriesOf(s) : (\A f \in EntriesOf(s) : f <= e) => ledger[e].after = balance[s]
      /\ Opening[s] >= 0 =>
           /\ Near(balance[s], Most(s))
           /\ \A e \in EntriesOf(s) : Near(ledger[e].before, Most(s)) /\ Near(ledger[e].after, Most(s))
  BY <1>1 DEF HistoryHasNoGaps, ValuesNear
<1>4. CASE s \notin SKUsOf(rows[r].lines)
  <2>1. balance'[s] = balance[s] /\ \A e \in EntriesOf(s) : ledger'[e] = ledger[e]
    BY <1>2, <1>4 DEF Recosted
  <2> QED
    BY <1>3, <2>1
<1>5. CASE s \in SKUsOf(rows[r].lines)
  <2>1. PICK o, b : o = Replayed(r, s) /\ b = Balances(r, s, cost[s])
    OBVIOUS
  <2>2. rows[r].status = "posted" /\ cost[s] \in Int
    BY <1>5 DEF Recosted
  <2>3. Replay(r, s, cost[s], o, b)
    BY <1>5, <2>1, <2>2, ReplayFacts
  <2>4. /\ Len(o) \in Nat /\ \A k \in 1..Len(o) : o[k] \in EntriesOf(s)
        /\ b[0] = ledger[EntryOf(r, s)].before /\ \A k \in 0..Len(o) : b[k] \in Balance
    BY <2>3 DEF Replay, StartsFrom
  <2>5. /\ Len(o) > 0 /\ o[1] = EntryOf(r, s)
        /\ \A j, k \in 1..Len(o) : j < k <=> o[j] < o[k]
        /\ \A e \in EntriesOf(s) : o[1] <= e => \E k \in 1..Len(o) : o[k] = e
        /\ \A k \in 1..Len(o) : k + 1 \in 1..Len(o) => Follows(o[k], o[k + 1])
        /\ \A k \in 1..Len(o) : /\ b[k - 1].stock = ledger[o[k]].before.stock
                                /\ b[k].stock = ledger[o[k]].after.stock
        /\ Opening[s] >= 0 => \A k \in 0..Len(o) : Near(b[k], Most(s))
    BY <1>5, <2>2, <2>3, ReplayInOrder
  <2>6. ASSUME NEW k \in 1..Len(o)
        PROVE  ledger'[o[k]].before = b[k - 1] /\ ledger'[o[k]].after = b[k]
    <3>1. PICK e : e = o[k]
      OBVIOUS
    <3>2. e \in EntriesOf(s) /\ e \in DOMAIN ledger /\ ledger[e] \in Entry /\ ledger[e].sku = s
      BY <1>2, <2>4, <3>1
    <3>3. Touched(r, s, e, cost[s])
      BY <1>5, <2>1, <3>1, <3>2 DEF Recosted
    <3>4. PICK j \in 1..Len(o) : o[j] = e /\ ledger'[e] = Revised(ledger[e], b[j - 1], b[j], ReplayedCost(e, r, b[j - 1], cost[s]))
      BY <2>1, <3>3 DEF Touched
    <3>5. j = k
      <4>1. ~ (j < k) /\ ~ (k < j)
        BY <1>2, <2>4, <2>5, <3>1, <3>2, <3>4
      <4> QED
        BY <2>4, <4>1
    <3>6. PICK x, y, n : x = b[k - 1] /\ y = b[k] /\ n = ReplayedCost(e, r, x, cost[s])
      OBVIOUS
    <3>7. x \in Balance /\ y \in Balance
      <4>1. k \in 0..Len(o) /\ k - 1 \in 0..Len(o)
        BY <2>4
      <4> QED
        BY <2>4, <3>6, <4>1
    <3>8. n \in Int
      <4>1. ledger[e].cost \in Int /\ ledger[e].delta \in Int /\ x.average \in Int
        BY <3>2, <3>7 DEF Entry, Balance
      <4>2. (IF ledger[e].delta < 0 THEN - ledger[e].delta ELSE ledger[e].delta) * x.average \in Int
        BY <4>1
      <4> QED
        BY <2>2, <3>6, <4>1, <4>2 DEF ReplayedCost
    <3>9. ledger'[e] = Revised(ledger[e], x, y, n)
      BY <3>4, <3>5, <3>6
    <3>10. x.stock = ledger[e].before.stock /\ y.stock = ledger[e].after.stock
      BY <2>5, <3>1, <3>6
    <3>11. ledger'[e].before = x /\ ledger'[e].after = y
      <4>1. PICK line : line = ledger[e]
        OBVIOUS
      <4>2. line \in Entry /\ line.before.stock = x.stock /\ line.after.stock = y.stock
        BY <3>2, <3>10, <4>1
      <4>3. Revised(line, x, y, n).before = x /\ Revised(line, x, y, n).after = y
        BY <3>7, <4>2, RevisedWhole
      <4> QED
        BY <3>9, <4>1, <4>3
    <3> QED
      BY <3>1, <3>6, <3>11
  <2>7. ASSUME NEW e \in EntriesOf(s), ~ (o[1] <= e)
        PROVE  ledger'[e] = ledger[e]
    <3>1. \A k \in 1..Len(o) : o[k] # e
      <4> SUFFICES ASSUME NEW k \in 1..Len(o), o[k] = e PROVE FALSE
        OBVIOUS
      <4>1. 1 \in 1..Len(o) /\ (k = 1 \/ 1 < k)
        BY <2>4, <2>5
      <4>2. o[1] \in Nat /\ o[k] \in Nat
        BY <1>2, <2>4, <4>1
      <4> QED
        BY <2>5, <2>7, <4>1, <4>2
    <3> QED
      BY <1>2, <2>1, <3>1 DEF Recosted
  <2>8. PICK n : n = Len(o)
    OBVIOUS
  <2>9. balance'[s] = b[n]
    <3>1. balance'[s] = [b[n] EXCEPT !.stock = balance[s].stock] /\ b[n].stock = balance[s].stock
      BY <1>5, <2>1, <2>8 DEF Recosted
    <3>2. b[n] \in Balance
      BY <2>4, <2>8
    <3> QED
      BY <3>1, <3>2 DEF Balance
  <2>10. 1 \in 1..n /\ n \in 1..n /\ o[1] \in EntriesOf(s) /\ o[1] \in Nat /\ o[n] \in EntriesOf(s) /\ o[n] \in Nat
    BY <1>2, <2>4, <2>5, <2>8
  <2>11. ASSUME NEW e \in EntriesOf(s), NEW f \in EntriesOf(s), Follows(e, f)
         PROVE  ledger'[e].after = ledger'[f].before
    <3>1. e \in Nat /\ f \in Nat /\ e < f /\ ledger[e].after = ledger[f].before
          /\ \A g \in (e + 1)..(f - 1) : ledger[g].sku # s
      BY <1>2, <1>3, <2>11 DEF Follows
    <3>2. CASE f < o[1]
      BY <2>7, <2>10, <3>1, <3>2
    <3>3. CASE f = o[1]
      <4>1. ledger'[e] = ledger[e]
        BY <2>7, <2>10, <3>1, <3>3
      <4>2. ledger'[f].before = b[0]
        BY <2>6, <2>8, <2>10, <3>3
      <4> QED
        BY <2>4, <2>5, <3>1, <3>3, <4>1, <4>2
    <3>4. CASE o[1] < f
      <4>1. PICK k \in 1..n : o[k] = f
        <5>1. o[1] <= f
          BY <2>10, <3>1, <3>4
        <5>2. \A d \in EntriesOf(s) : o[1] <= d => \E k \in 1..n : o[k] = d
          BY <2>5, <2>8
        <5> QED
          BY <5>1, <5>2
      <4>2. k # 1 /\ n \in Nat
        BY <2>4, <2>8, <2>10, <3>4, <4>1
      <4>3. PICK j : j = k - 1
        OBVIOUS
      <4>4. j \in 1..n /\ j + 1 = k /\ j < k
        BY <4>2, <4>3
      <4>5. Follows(o[j], f) /\ o[j] \in EntriesOf(s) /\ o[j] \in Nat /\ ledger[o[j]].sku = s
        BY <1>2, <2>4, <2>5, <2>8, <4>1, <4>4
      <4>6. o[j] < f /\ \A g \in (o[j] + 1)..(f - 1) : ledger[g].sku # s
        BY <4>5 DEF Follows
      <4>7. o[j] = e
        <5>1. ~ (e < o[j])
          <6>1. e < o[j] => o[j] \in (e + 1)..(f - 1)
            BY <3>1, <4>5, <4>6
          <6> QED
            BY <3>1, <4>5, <6>1
        <5>2. ~ (o[j] < e)
          <6>1. o[j] < e => e \in (o[j] + 1)..(f - 1)
            BY <3>1, <4>5, <4>6
          <6> QED
            BY <1>2, <4>6, <6>1
        <5> QED
          BY <3>1, <4>5, <5>1, <5>2
      <4>8. ledger'[e].after = b[j] /\ ledger'[f].before = b[k - 1]
        BY <2>6, <2>8, <4>1, <4>4, <4>7
      <4> QED
        BY <4>3, <4>8
    <3> QED
      BY <2>10, <3>1, <3>2, <3>3, <3>4
  <2>12. ASSUME NEW e \in EntriesOf(s), \A f \in EntriesOf(s) : f <= e
         PROVE  ledger'[e].after = balance'[s]
    <3>1. PICK k \in 1..n : o[k] = e
      BY <2>5, <2>8, <2>10, <2>12
    <3>2. k = n
      <4>1. ~ (k < n)
        <5>1. o[n] <= o[k] /\ o[k] \in Nat
          BY <1>2, <2>10, <2>12, <3>1
        <5> QED
          BY <2>5, <2>8, <2>10, <5>1
      <4> QED
        BY <2>4, <2>8, <4>1
    <3> QED
      BY <2>6, <2>8, <2>9, <3>1, <3>2
  <2>13. ASSUME Opening[s] >= 0
         PROVE  /\ Near(balance'[s], Most(s))
                /\ \A e \in EntriesOf(s) : Near(ledger'[e].before, Most(s)) /\ Near(ledger'[e].after, Most(s))
    <3>1. \A k \in 0..n : Near(b[k], Most(s))
      BY <2>5, <2>8, <2>13
    <3>2. Near(balance'[s], Most(s))
      BY <2>4, <2>8, <2>9, <3>1
    <3>3. ASSUME NEW e \in EntriesOf(s)
          PROVE  Near(ledger'[e].before, Most(s)) /\ Near(ledger'[e].after, Most(s))
      <4>1. CASE o[1] <= e
        <5>1. PICK k \in 1..n : o[k] = e
          BY <2>5, <2>8, <4>1
        <5>2. k \in 0..n /\ k - 1 \in 0..n
          BY <2>4, <2>8
        <5> QED
          BY <2>6, <2>8, <3>1, <5>1, <5>2
      <4>2. CASE ~ (o[1] <= e)
        BY <1>3, <2>7, <2>13, <4>2
      <4> QED
        BY <4>1, <4>2
    <3> QED
      BY <3>2, <3>3
  <2> QED
    BY <2>11, <2>12, <2>13
<1> QED
  BY <1>4, <1>5


(* Revised costs keep the invariant. *)
LEMMA RecostedIInv ==
    ASSUME IInv, NEW r \in DOMAIN rows, NEW cost, Recosted(r, cost)
    PROVE  IInv'
<1>1. /\ TypeOK /\ Working /\ Matched /\ CostsMatch /\ AddsUp /\ StocksFit /\ Filing
      /\ StocksFollow /\ Voids /\ HistoryHasNoGaps /\ ValuesNear
  BY DEF IInv
<1>2. /\ rows' = rows /\ clock' = clock /\ postings' = postings /\ correcting' = correcting
      /\ form' = form /\ overwritten' = overwritten /\ recosts' = recosts + 1
  BY DEF Recosted, desk
<1>3. /\ ledger' \in Seq(Entry) /\ DOMAIN ledger' = DOMAIN ledger
      /\ balance' \in [SKUs -> Balance] /\ \A s \in SKUs : balance'[s].stock = balance[s].stock
  BY RecostedKeeps
<1>4. \A e \in DOMAIN ledger :
          /\ ledger'[e].row = ledger[e].row /\ ledger'[e].sku = ledger[e].sku
          /\ ledger'[e].delta = ledger[e].delta /\ ledger'[e].before.stock = ledger[e].before.stock
          /\ ledger'[e].after.stock = ledger[e].after.stock
  BY RecostedKeeps DEF Alike
<1>5. /\ \A e \in DOMAIN ledger : FiledAt(e)' = FiledAt(e)
      /\ \A s : EntriesOf(s)' = EntriesOf(s)
  BY <1>2, <1>3, <1>4 DEF FiledAt, EntriesOf
<1>6. \A e \in DOMAIN ledger, f \in DOMAIN ledger : Follows(e, f)' <=> Follows(e, f)
  <2> SUFFICES ASSUME NEW e \in DOMAIN ledger, NEW f \in DOMAIN ledger PROVE Follows(e, f)' <=> Follows(e, f)
    OBVIOUS
  <2>1. DOMAIN ledger = 1..Len(ledger) /\ Len(ledger) \in Nat
    BY <1>1, LenProperties DEF TypeOK
  <2>2. \A g \in (e + 1)..(f - 1) : g \in DOMAIN ledger
    BY <2>1
  <2>3. ledger'[e].sku = ledger[e].sku /\ ledger'[f].sku = ledger[f].sku
        /\ \A g \in (e + 1)..(f - 1) : ledger'[g].sku = ledger[g].sku
    BY <1>4, <2>2
  <2> QED
    BY <2>3 DEF Follows
<1>7. \A q, s : EntryOf(q, s)' = EntryOf(q, s)
  <2> SUFFICES ASSUME NEW q, NEW s PROVE EntryOf(q, s)' = EntryOf(q, s)
    OBVIOUS
  <2>1. \A e \in EntriesOf(s) : ledger'[e].row = ledger[e].row
    BY <1>4 DEF EntriesOf
  <2>2. EntryOf(q, s)' = CHOOSE e \in EntriesOf(s) : ledger'[e].row = q
    BY <1>5 DEF EntryOf
  <2> QED
    BY <2>1, <2>2 DEF EntryOf
<1>8. ASSUME NEW s
      PROVE  Booked(s)' = Booked(s) /\ Most(s)' = Most(s) /\ (FiledInOrder(s)' <=> FiledInOrder(s))
  <2>1. /\ IsFiniteSet(EntriesOf(s)) /\ EntriesOf(s) \in SUBSET DOMAIN ledger
        /\ \A e \in EntriesOf(s) : Deltas[e] = ledger[e].delta
    BY <1>1, EntriesFacts
  <2>2. \A e \in EntriesOf(s) : Deltas'[e] = Deltas[e]
    <3>1. \A e \in DOMAIN ledger : Deltas'[e] = ledger'[e].delta
      BY <1>3 DEF Deltas
    <3> QED
      BY <1>4, <2>1, <3>1
  <2>3. Booked(s)' = Booked(s)
    <3>1. Booked(s)' = SumFunctionOnSet(Deltas', EntriesOf(s))
      BY <1>5 DEF Booked
    <3> QED
      BY <2>1, <2>2, <3>1, SumSame DEF Booked
  <2>4. Most(s)' = Most(s)
    <3>1. Most(s)' = MostIn(ledger', EntriesOf(s))
      BY <1>5 DEF Most
    <3>2. {ledger'[e].after.stock : e \in EntriesOf(s)} = {ledger[e].after.stock : e \in EntriesOf(s)}
      BY <1>4, <2>1
    <3> QED
      BY <3>1, <3>2 DEF Most, MostIn
  <2>5. FiledInOrder(s)' <=> FiledInOrder(s)
    BY <1>5, <2>1 DEF FiledInOrder
  <2> QED
    BY <2>3, <2>4, <2>5
<1>9. TypeOK'
  <2>1. recosts' \in Nat
    BY <1>1, <1>2 DEF TypeOK
  <2>2. \A e \in DOMAIN ledger' : ledger'[e].row \in DOMAIN rows' /\ rows'[ledger'[e].row].status = "posted"
    BY <1>1, <1>2, <1>3, <1>4 DEF TypeOK
  <2> QED
    BY <1>1, <1>2, <1>3, <2>1, <2>2 DEF TypeOK
<1>10. Working'
  BY <1>1, <1>2 DEF Working, GoodRow
<1>11. Matched'
  <2>1. \A e \in DOMAIN ledger' : \E i \in DOMAIN rows'[ledger'[e].row].lines :
           /\ ledger'[e].sku = rows'[ledger'[e].row].lines[i].sku
           /\ ledger'[e].delta = rows'[ledger'[e].row].lines[i].delta
    BY <1>1, <1>2, <1>3, <1>4 DEF Matched
  <2>2. \A e, f \in DOMAIN ledger' :
            ledger'[e].row = ledger'[f].row /\ ledger'[e].sku = ledger'[f].sku => e = f
    BY <1>1, <1>3, <1>4 DEF Matched
  <2>3. ASSUME NEW q \in DOMAIN rows', rows'[q].status = "posted", NEW i \in DOMAIN rows'[q].lines
        PROVE  \E e \in DOMAIN ledger' : ledger'[e].row = q /\ ledger'[e].sku = rows'[q].lines[i].sku
    BY <1>1, <1>2, <1>3, <1>4, <2>3 DEF Matched
  <2> QED
    BY <2>1, <2>2, <2>3 DEF Matched
<1>12. CostsMatch'
  <2>1. recosts' # 0
    BY <1>1, <1>2 DEF TypeOK
  <2> QED
    BY <2>1 DEF CostsMatch
<1>13. AddsUp'
  BY <1>1, <1>2, <1>3, <1>8 DEF AddsUp
<1>14. StocksFit'
  <2>1. ASSUME NEW e \in DOMAIN ledger'
        PROVE  /\ ledger'[e].after.stock = ledger'[e].before.stock + ledger'[e].delta
               /\ ledger'[e].before.stock >= Lowest(ledger'[e].sku)
               /\ ledger'[e].after.stock >= Lowest(ledger'[e].sku)
    BY <1>1, <1>3, <1>4 DEF StocksFit
  <2>2. \A s \in SKUs : balance'[s].stock >= Lowest(s)
    BY <1>1, <1>3 DEF StocksFit
  <2>3. form' # NoForm => form'.balance.stock >= Lowest(form'.sku)
    BY <1>1, <1>2 DEF StocksFit
  <2> QED
    BY <2>1, <2>2, <2>3 DEF StocksFit
<1>15. Filing'
  <2>1. \A e \in DOMAIN ledger' : FiledAt(e)' <= 2 * clock'
    BY <1>1, <1>2, <1>3, <1>5 DEF Filing
  <2>2. \A e, f \in DOMAIN ledger' : ledger'[e].sku = ledger'[f].sku /\ FiledAt(e)' = FiledAt(f)' => e = f
    BY <1>1, <1>3, <1>4, <1>5 DEF Filing
  <2>3. \A e, f, g \in DOMAIN ledger' :
           ledger'[e].sku = ledger'[f].sku /\ ledger'[f].sku = ledger'[g].sku =>
               (e < f /\ f < g /\ FiledAt(f)' < FiledAt(e)' => FiledAt(e)' < FiledAt(g)')
    BY <1>1, <1>3, <1>4, <1>5 DEF Filing
  <2>4. ASSUME correcting' # NoCorrection
        PROVE  /\ \A e \in DOMAIN ledger' : FiledAt(e)' # Then(correcting'.now)
               /\ \A e, f \in DOMAIN ledger' :
                    e < f /\ ledger'[e].sku = ledger'[f].sku /\ FiledAt(f)' < FiledAt(e)' =>
                        FiledAt(e)' < Then(correcting'.now)
    BY <1>1, <1>2, <1>3, <1>4, <1>5, <2>4 DEF Filing
  <2> QED
    BY <2>1, <2>2, <2>3, <2>4 DEF Filing
<1>16. StocksFollow'
  <2> SUFFICES ASSUME NEW s \in SKUs \ overwritten PROVE Gapless(s)'
    BY <1>2 DEF StocksFollow
  <2>1. \A e \in EntriesOf(s) : e \in DOMAIN ledger
    BY DEF EntriesOf
  <2>2. Gapless(s) /\ balance'[s].stock = balance[s].stock
    BY <1>1, <1>3 DEF StocksFollow
  <2>3. \A e, f \in EntriesOf(s) : Follows(e, f)' => ledger'[e].after.stock = ledger'[f].before.stock
    BY <1>4, <1>6, <2>1, <2>2 DEF Gapless
  <2>4. \A e \in EntriesOf(s) :
            (\A f \in EntriesOf(s) : f <= e) => ledger'[e].after.stock = balance'[s].stock
    BY <1>4, <2>1, <2>2 DEF Gapless
  <2> QED
    BY <1>5, <2>3, <2>4 DEF Gapless
<1>17. Voids'
  <2> SUFFICES ASSUME NEW v \in DOMAIN rows, rows[v].reverses # 0
               PROVE  /\ \A s \in SKUsOf(rows[v].lines) \ overwritten :
                             Follows(EntryOf(rows[v].reverses, s), EntryOf(v, s))'
                      /\ rows[v].reverses \in DOMAIN rows /\ rows[rows[v].reverses].status = "posted"
                      /\ SKUsOf(rows[v].lines) = SKUsOf(rows[rows[v].reverses].lines)
    BY <1>2 DEF Voids, VoidsUndoTheLast
  <2>1. PICK x : x = rows[v].reverses
    OBVIOUS
  <2>2. /\ x \in DOMAIN rows /\ rows[x].status = "posted"
        /\ SKUsOf(rows[v].lines) = SKUsOf(rows[x].lines)
        /\ \A s \in SKUsOf(rows[v].lines) \ overwritten : Follows(EntryOf(x, s), EntryOf(v, s))
    BY <1>1, <2>1 DEF Voids, VoidsUndoTheLast
  <2>3. rows[v].status = "posted"
    <3>1. GoodRow(v) /\ rows[v] \in Row
      BY <1>1, LenProperties DEF Working, TypeOK
    <3> QED
      BY <3>1 DEF GoodRow, Row
  <2>4. ASSUME NEW s \in SKUsOf(rows[v].lines) \ overwritten
        PROVE  Follows(EntryOf(rows[v].reverses, s), EntryOf(v, s))'
    <3>1. PICK e, f : e = EntryOf(x, s) /\ f = EntryOf(v, s)
      OBVIOUS
    <3>2. e \in DOMAIN ledger /\ f \in DOMAIN ledger
      BY <1>1, <2>2, <2>3, <3>1, EntryOfFacts DEF EntriesOf
    <3>3. Follows(e, f)'
      BY <1>6, <2>2, <3>1, <3>2
    <3>4. EntryOf(x, s)' = e /\ EntryOf(v, s)' = f /\ rows'[v].reverses = x
      BY <1>2, <1>7, <2>1, <3>1
    <3> QED
      BY <3>3, <3>4 DEF Follows
  <2> QED
    BY <2>1, <2>2, <2>4
<1>18. HistoryHasNoGaps'
  <2> SUFFICES ASSUME NEW s \in SKUs \ overwritten, FiledInOrder(s)
               PROVE  /\ \A e, f \in EntriesOf(s) : Follows(e, f)' => ledger'[e].after = ledger'[f].before
                      /\ \A e \in EntriesOf(s) :
                            (\A f \in EntriesOf(s) : f <= e) => ledger'[e].after = balance'[s]
    BY <1>2, <1>5, <1>8 DEF HistoryHasNoGaps
  <2>1. /\ \A e, f \in EntriesOf(s) : Follows(e, f) => ledger'[e].after = ledger'[f].before
        /\ \A e \in EntriesOf(s) : (\A f \in EntriesOf(s) : f <= e) => ledger'[e].after = balance'[s]
    BY RecostedHistory
  <2>2. \A e \in EntriesOf(s) : e \in DOMAIN ledger
    BY DEF EntriesOf
  <2> QED
    BY <1>6, <2>1, <2>2
<1>19. ValuesNear'
  <2> SUFFICES ASSUME NEW s \in SKUs \ overwritten, FiledInOrder(s), Opening[s] >= 0
               PROVE  /\ Near(balance'[s], Most(s))
                      /\ \A e \in EntriesOf(s) : Near(ledger'[e].before, Most(s)) /\ Near(ledger'[e].after, Most(s))
    BY <1>2, <1>5, <1>8 DEF ValuesNear, Near, Gap
  <2> QED
    BY RecostedHistory
<1> QED
  BY <1>9, <1>10, <1>11, <1>12, <1>13, <1>14, <1>15, <1>16, <1>17, <1>18, <1>19 DEF IInv


-----------------------------------------------------------------------------
(* The invariant holds throughout. *)

(* The elements of a finite set in some order. *)
LEMMA SetToSeqFacts ==
    ASSUME NEW S, IsFiniteSet(S)
    PROVE  /\ Cardinality(S) \in Nat /\ SetToSeq(S) \in [1..Cardinality(S) -> S]
           /\ \A i, j \in 1..Cardinality(S) : SetToSeq(S)[i] = SetToSeq(S)[j] => i = j
           /\ \A x \in S : \E i \in 1..Cardinality(S) : SetToSeq(S)[i] = x
<1> DEFINE n == Cardinality(S)
           q == SetToSeq(S)
<1>1. n \in Nat /\ ExistsBijection(1..n, S)
  BY FS_CardinalityType
<1>2. PICK f : f \in Bijection(1..n, S)
  BY <1>1 DEF ExistsBijection
<1>3. f \in [1..n -> S] /\ IsInjective(f)
  BY <1>2 DEF Bijection, Injection
<1>4. q \in [1..n -> S] /\ IsInjective(q)
  BY <1>3 DEF SetToSeq
<1>5. q \in Injection(1..n, S)
  BY <1>4 DEF Injection
<1>6. q \in Surjection(1..n, S)
  <2>1. IsFiniteSet(1..n) /\ Cardinality(1..n) = n
    BY <1>1, FS_Interval
  <2> HIDE DEF q
  <2> QED
    BY <1>5, <2>1, FS_Injection
<1> HIDE DEF q, n
<1>7. \A i, j \in 1..n : q[i] = q[j] => i = j
  BY <1>4 DEF IsInjective
<1>8. \A x \in S : \E i \in 1..n : q[i] = x
  BY <1>6 DEF Surjection
<1> QED
  BY <1>1, <1>4, <1>7, <1>8 DEF n, q

(* At first every entry is of a SKU of its own.                              *)
Opened(n, q) ==
    /\ n \in Nat /\ q \in [1..n -> SKUs] /\ \A i, j \in 1..n : q[i] = q[j] => i = j
    /\ \A i \in 1..n : Opening[q[i]] # 0
    /\ \A s \in SKUs : Opening[s] # 0 => \E i \in 1..n : q[i] = s
    /\ rows = [i \in 1..n |-> OpeningRow(q[i])]
    /\ ledger = [i \in 1..n |-> OpeningEntry(q[i], i)]

(* What createSKU books. *)
LEMMA InitOpened ==
    ASSUME Init
    PROVE  \E n, q : Opened(n, q)
<1> DEFINE S == {s \in SKUs : Opening[s] # 0}
           n == Cardinality(S)
           q == SetToSeq(S)
<1>1. IsFiniteSet(S)
  BY StockAssumption, FS_Subset
<1>2. /\ n \in Nat /\ q \in [1..n -> S] /\ \A i, j \in 1..n : q[i] = q[j] => i = j
      /\ \A x \in S : \E i \in 1..n : q[i] = x
  <2> HIDE DEF S
  <2> QED
    BY <1>1, SetToSeqFacts
<1>3. DOMAIN q = 1..n /\ rows = [r \in DOMAIN q |-> OpeningRow(q[r])]
      /\ ledger = [r \in DOMAIN q |-> OpeningEntry(q[r], r)]
  BY <1>2 DEF Init
<1> HIDE DEF q, n
<1>4. Opened(n, q)
  BY <1>2, <1>3 DEF Opened
<1> QED
  BY <1>4

(* The invariant holds at first. *)
LEMMA InitIInv ==
    ASSUME Init
    PROVE  IInv
<1>1. PICK n, q : Opened(n, q)
  BY InitOpened
<1>2. /\ n \in Nat /\ q \in [1..n -> SKUs] /\ \A i, j \in 1..n : q[i] = q[j] => i = j
      /\ \A i \in 1..n : Opening[q[i]] # 0
      /\ \A s \in SKUs : Opening[s] # 0 => \E i \in 1..n : q[i] = s
  BY <1>1 DEF Opened
<1>3. DOMAIN rows = 1..n /\ DOMAIN ledger = 1..n
  BY <1>1 DEF Opened
<1>4. /\ clock = 0 /\ recosts = 0 /\ postings = {} /\ overwritten = {}
      /\ correcting = NoCorrection /\ form = NoForm
      /\ balance = [s \in SKUs |-> [stock |-> Opening[s], average |-> 0, value |-> 0]]
  BY DEF Init
<1>5. \A s \in SKUs : /\ Opening[s] \in Int /\ balance[s].stock = Opening[s]
                      /\ balance[s].average = 0 /\ balance[s].value = 0
  BY <1>4, StockAssumption
<1>6. ASSUME NEW i \in 1..n
      PROVE  /\ rows[i].type = "stock_adjustment" /\ rows[i].status = "posted"
             /\ rows[i].posted = 0 /\ rows[i].reverses = 0 /\ rows[i] \in Row
             /\ rows[i].lines[1].sku = q[i] /\ rows[i].lines[1].delta = Opening[q[i]]
             /\ DOMAIN rows[i].lines = {1} /\ rows[i].lines \in Seq(Line) /\ rows[i].lines # <<>>
  <2>1. PICK line : line = [sku |-> q[i], delta |-> Opening[q[i]], price |-> 0]
    OBVIOUS
  <2>2. line \in Line
    BY <1>2, <1>5, <2>1 DEF Line
  <2>3. rows[i] = [type |-> "stock_adjustment", status |-> "posted", lines |-> <<line>>, charges |-> 0,
                   version |-> 0, posted |-> 0, reverses |-> 0]
    BY <1>1, <2>1 DEF Opened, OpeningRow, Posted
  <2>4. <<line>> \in Seq(Line) /\ DOMAIN <<line>> = {1} /\ <<line>>[1] = line /\ <<line>> # <<>>
    BY <2>2
  <2>5. rows[i] \in Row
    BY <2>3, <2>4 DEF Row, Types
  <2> QED
    BY <2>1, <2>3, <2>4, <2>5
<1>7. ASSUME NEW i \in 1..n
      PROVE  /\ ledger[i] \in Entry /\ ledger[i].row = i /\ ledger[i].sku = q[i]
             /\ ledger[i].delta = Opening[q[i]] /\ ledger[i].before.stock = 0
             /\ ledger[i].before.value = 0 /\ ledger[i].before.average = 0
             /\ ledger[i].after = balance[q[i]]
  <2>1. q[i] \in SKUs /\ Opening[q[i]] \in Int /\ i \in Nat
    BY <1>2, <1>5
  <2>2. ledger[i] = [row |-> i, sku |-> q[i], delta |-> Opening[q[i]], cost |-> 0,
                     before |-> [stock |-> 0, average |-> 0, value |-> 0],
                     after |-> [stock |-> Opening[q[i]], average |-> 0, value |-> 0]]
    BY <1>1 DEF Opened, OpeningEntry
  <2> QED
    BY <1>4, <2>1, <2>2 DEF Entry, Balance
<1>8. ASSUME NEW s \in SKUs
      PROVE  \/ EntriesOf(s) = {} /\ Opening[s] = 0
             \/ \E i \in 1..n : q[i] = s /\ EntriesOf(s) = {i}
  <2>1. EntriesOf(s) = {i \in 1..n : q[i] = s}
    BY <1>3, <1>7 DEF EntriesOf
  <2>2. CASE \E i \in 1..n : q[i] = s
    BY <1>2, <2>1, <2>2
  <2>3. CASE ~ \E i \in 1..n : q[i] = s
    BY <1>2, <2>1, <2>3
  <2> QED
    BY <2>2, <2>3
<1>9. TypeOK
  <2>1. balance \in [SKUs -> Balance]
    BY <1>4, <1>5 DEF Balance
  <2>2. rows \in Seq(Row) /\ ledger \in Seq(Entry)
    <3>1. rows = [i \in 1..n |-> rows[i]] /\ ledger = [i \in 1..n |-> ledger[i]]
      BY <1>1 DEF Opened
    <3>2. rows \in [1..n -> Row] /\ ledger \in [1..n -> Entry]
      BY <1>6, <1>7, <3>1
    <3> QED
      BY <1>2, <3>2, SeqDef
  <2>3. \A e \in DOMAIN ledger : ledger[e].row \in DOMAIN rows /\ rows[ledger[e].row].status = "posted"
    BY <1>3, <1>6, <1>7
  <2> QED
    BY <1>4, <2>1, <2>2, <2>3 DEF TypeOK
<1>10. Working
  <2>1. ASSUME NEW r \in DOMAIN rows PROVE GoodRow(r)
    <3>1. r \in 1..n
      BY <1>3
    <3>2. \A i \in DOMAIN rows[r].lines : i = 1 /\ rows[r].lines[i].delta # 0
      BY <1>2, <1>6, <3>1
    <3>3. GoodLines(rows[r].lines)
      BY <1>6, <3>1, <3>2 DEF GoodLines, Distinct
    <3> QED
      BY <1>6, <3>1, <3>3 DEF GoodRow
  <2> QED
    BY <1>4, <2>1 DEF Working
<1>11. Matched
  <2>1. ASSUME NEW e \in DOMAIN ledger
        PROVE  \E i \in DOMAIN rows[ledger[e].row].lines :
                   /\ ledger[e].sku = rows[ledger[e].row].lines[i].sku
                   /\ ledger[e].delta = rows[ledger[e].row].lines[i].delta
    <3>1. e \in 1..n /\ ledger[e].row = e /\ 1 \in DOMAIN rows[e].lines
      BY <1>3, <1>6, <1>7
    <3> QED
      BY <1>6, <1>7, <3>1
  <2>2. \A e, f \in DOMAIN ledger : ledger[e].row = ledger[f].row /\ ledger[e].sku = ledger[f].sku => e = f
    BY <1>3, <1>7
  <2>3. ASSUME NEW r \in DOMAIN rows, NEW i \in DOMAIN rows[r].lines
        PROVE  \E e \in DOMAIN ledger : ledger[e].row = r /\ ledger[e].sku = rows[r].lines[i].sku
    <3>1. r \in 1..n /\ r \in DOMAIN ledger /\ i = 1
      BY <1>3, <1>6
    <3> QED
      BY <1>6, <1>7, <3>1
  <2> QED
    BY <2>1, <2>2, <2>3 DEF Matched
<1>12. CostsMatch
  BY <1>3, <1>6, <1>7 DEF CostsMatch
<1>13. AddsUp
  <2> SUFFICES ASSUME NEW s \in SKUs PROVE balance[s].stock = Booked(s)
    BY DEF AddsUp
  <2>1. CASE EntriesOf(s) = {} /\ Opening[s] = 0
    <3>1. SumFunctionOnSet(Deltas, {}) = 0
      BY FS_EmptySet, SumFirst
    <3> QED
      BY <1>5, <2>1, <3>1 DEF Booked
  <2>2. ASSUME NEW i \in 1..n, q[i] = s, EntriesOf(s) = {i}
        PROVE  balance[s].stock = Booked(s)
    <3>1. IsFiniteSet({i}) /\ Deltas[i] = Opening[s]
      <4>1. IsFiniteSet({i})
        BY FS_Singleton
      <4> QED
        BY <1>3, <1>7, <2>2, <4>1 DEF Deltas
    <3>2. PICK none : none = {i} \ {i}
      OBVIOUS
    <3>3. none = {} /\ SumFunctionOnSet(Deltas, none) = 0
      BY <3>2, FS_EmptySet, SumFirst
    <3>4. SumFunctionOnSet(Deltas, {i}) = Deltas[i] + SumFunctionOnSet(Deltas, none)
      <4>1. \A x \in {i} : Deltas[x] \in Int
        BY <1>5, <3>1
      <4> QED
        BY <3>1, <3>2, <4>1, SumTake
    <3>5. Booked(s) = SumFunctionOnSet(Deltas, {i}) /\ Opening[s] \in Int /\ balance[s].stock = Opening[s]
      BY <1>5, <2>2 DEF Booked
    <3> QED
      BY <3>1, <3>3, <3>4, <3>5
  <2> QED
    BY <1>8, <2>1, <2>2
<1>14. StocksFit
  <2>1. \A s \in SKUs : Opening[s] \in Int /\ Opening[s] >= Lowest(s) /\ 0 >= Lowest(s)
    BY <1>5 DEF Lowest
  <2>2. ASSUME NEW e \in DOMAIN ledger
        PROVE  /\ ledger[e].after.stock = ledger[e].before.stock + ledger[e].delta
               /\ ledger[e].before.stock >= Lowest(ledger[e].sku)
               /\ ledger[e].after.stock >= Lowest(ledger[e].sku)
    <3>1. e \in 1..n /\ q[e] \in SKUs /\ ledger[e].after.stock = Opening[q[e]]
      BY <1>2, <1>3, <1>5, <1>7
    <3> QED
      BY <1>7, <2>1, <3>1
  <2> QED
    BY <1>4, <1>5, <2>1, <2>2 DEF StocksFit
<1>15. Filing
  <2>1. \A e \in DOMAIN ledger : FiledAt(e) = 0
    BY <1>3, <1>6, <1>7 DEF FiledAt
  <2>2. \A e, f \in DOMAIN ledger : ledger[e].sku = ledger[f].sku => e = f
    BY <1>2, <1>3, <1>7
  <2> QED
    BY <1>4, <2>1, <2>2 DEF Filing
<1>16. ASSUME NEW s \in SKUs, NEW e \in EntriesOf(s)
       PROVE  /\ ledger[e].after = balance[s] /\ e \in 1..n /\ q[e] = s
              /\ \A f \in EntriesOf(s) : f = e
  BY <1>7, <1>8
<1>17. \A s \in SKUs : \A e, f \in EntriesOf(s) : ~ Follows(e, f)
  BY <1>16 DEF Follows
<1>18. StocksFollow
  BY <1>16, <1>17 DEF StocksFollow, Gapless
<1>19. Voids
  BY <1>3, <1>6 DEF Voids, VoidsUndoTheLast
<1>20. HistoryHasNoGaps
  BY <1>16, <1>17 DEF HistoryHasNoGaps
<1>21. ValuesNear
  <2> SUFFICES ASSUME NEW s \in SKUs
               PROVE  /\ Near(balance[s], Most(s))
                      /\ \A e \in EntriesOf(s) : Near(ledger[e].before, Most(s)) /\ Near(ledger[e].after, Most(s))
    BY DEF ValuesNear
  <2>1. Most(s) \in Nat
    BY <1>9, MostFacts
  <2>2. Near(balance[s], Most(s))
    BY <1>5, <2>1 DEF Near, Gap
  <2>3. ASSUME NEW e \in EntriesOf(s) PROVE Near(ledger[e].before, Most(s)) /\ Near(ledger[e].after, Most(s))
    <3>1. Near(ledger[e].before, Most(s))
      BY <1>7, <1>16, <2>1 DEF Near, Gap
    <3> QED
      BY <1>16, <2>2, <3>1
  <2> QED
    BY <2>2, <2>3
<1> QED
  BY <1>9, <1>10, <1>11, <1>12, <1>13, <1>14, <1>15, <1>18, <1>19, <1>20, <1>21 DEF IInv


(* Every step keeps the invariant.                                           *)
LEMMA Step ==
    ASSUME IInv, [Next]_vars
    PROVE  IInv'
<1>1. CASE \E p \in postings : Post(p)
  BY <1>1, PostProper, ProperIInv
<1>2. CASE \E r \in DOMAIN rows : VoidCorrection(r)
  BY <1>2, VoidProper, ProperIInv
<1>3. CASE QuantityBooked
  BY <1>3, QuantityBookedProper, ProperIInv
<1>4. CASE \E r \in DOMAIN rows, c \in Recosts : CostCorrection(r, c)
  <2>1. PICK r \in DOMAIN rows, c \in Recosts : CostCorrection(r, c)
    BY <1>4
  <2>2. PICK cost : Recosted(r, cost)
    BY <2>1, CostCorrectionRecosts
  <2> QED
    BY <2>2, RecostedIInv
<1>5. CASE \/ \E d \in Documents : SaveDraft(d)
           \/ \E r \in DOMAIN rows, d \in Documents : UpdateDraft(r, d)
           \/ \E r \in DOMAIN rows : PreparePosting(r)
           \/ \E p \in postings : PostRefused(p)
           \/ \E r \in DOMAIN rows, q \in Quantities : QuantityCorrection(r, q)
           \/ QuantityRefused
           \/ \E s \in Edited : OpenForm(s)
           \/ SaveForm
           \/ UNCHANGED vars
  BY <1>5, QuietSteps, QuietIInv
<1> QED
  BY <1>1, <1>2, <1>3, <1>4, <1>5 DEF Next

(* The strengthened invariant holds in every state the program reaches.      *)
THEOREM InventoryInvariant == Spec => []IInv
<1>1. Init => IInv
  BY InitIInv
<1>2. IInv /\ [Next]_vars => IInv'
  BY Step
<1> QED
  BY <1>1, <1>2, PTL DEF Spec

(* Rows and entries are well formed, and what is in the ledger is posted.    *)
THEOREM InventoryTypeOK == Spec => []TypeOK
<1>1. IInv => TypeOK
  BY DEF IInv
<1> QED
  BY <1>1, InventoryInvariant, PTL

(* Stock is what the ledger adds up to, and it never was negative (or below  *)
(* what the SKU was created with), however posting, the three corrections    *)
(* and the product form interleave (Books, SaveForm).                        *)
THEOREM StockIsTheLedgers == Spec => []LedgerAddsUp
<1>1. IInv => LedgerAddsUp
  BY DEF IInv, AddsUp, StocksFit, LedgerAddsUp, EntriesOf
<1> QED
  BY <1>1, InventoryInvariant, PTL

(* The entries of a posted document are those of its lines, one for each.    *)
LEMMA EntriesOfRow ==
    ASSUME IInv, NEW r \in DOMAIN rows, rows[r].status = "posted",
           NEW entries, entries = {e \in DOMAIN ledger : ledger[e].row = r}
    PROVE  /\ Cardinality(entries) = Len(rows[r].lines)
           /\ \A e \in entries : \E i \in DOMAIN rows[r].lines :
                  ledger[e].sku = rows[r].lines[i].sku /\ ledger[e].delta = rows[r].lines[i].delta
           /\ \A i \in DOMAIN rows[r].lines : \E e \in entries :
                  ledger[e].sku = rows[r].lines[i].sku /\ ledger[e].delta = rows[r].lines[i].delta
           /\ rows[r].type = "purchase_receipt" /\ recosts = 0 =>
                  SumFunctionOnSet(Costs, entries) = TotalWorth(rows[r].lines) + rows[r].charges
<1>1. TypeOK /\ Working /\ Matched /\ CostsMatch
  BY DEF IInv
<1>2. PICK lines, charges : lines = rows[r].lines /\ charges = rows[r].charges
  OBVIOUS
<1>3. PICK n, D : n = Len(lines) /\ D = DOMAIN lines
  OBVIOUS
<1>4. rows[r] \in Row /\ lines \in Seq(Line) /\ charges \in Nat
  <2>1. rows[r] \in Row
    BY <1>1, LenProperties DEF TypeOK
  <2> QED
    BY <1>2, <2>1 DEF Row
<1>5. /\ n \in Nat /\ D = 1..n /\ lines # <<>> /\ Distinct(lines)
      /\ IsFiniteSet(D) /\ Cardinality(D) = n
  <2>1. n \in Nat /\ D = 1..n
    BY <1>3, <1>4, LenProperties
  <2>2. lines # <<>> /\ Distinct(lines)
    BY <1>1, <1>2 DEF Working, GoodRow, GoodLines
  <2> QED
    BY <2>1, <2>2, FS_Interval
<1>6. /\ \A i \in D : lines[i].sku \in SKUsOf(lines) /\ LineOf(lines, lines[i].sku) = i
  BY <1>3, <1>5, LineOfFacts
<1>7. PICK h : h = [i \in D |-> EntryOf(r, lines[i].sku)]
  OBVIOUS
<1>8. \A i \in D : h[i] \in entries /\ h[i] \in DOMAIN ledger /\ ledger[h[i]].sku = lines[i].sku
  BY <1>1, <1>2, <1>6, <1>7, EntryOfFacts DEF EntriesOf
<1>9. \A e \in entries : \E i \in D :
          h[i] = e /\ ledger[e].sku = lines[i].sku /\ ledger[e].delta = lines[i].delta
  <2> SUFFICES ASSUME NEW e \in entries
               PROVE  \E i \in D : h[i] = e /\ ledger[e].sku = lines[i].sku /\ ledger[e].delta = lines[i].delta
    OBVIOUS
  <2>1. e \in DOMAIN ledger /\ ledger[e].row = r
    OBVIOUS
  <2>2. PICK i \in D : ledger[e].sku = lines[i].sku /\ ledger[e].delta = lines[i].delta
    BY <1>1, <1>2, <1>3, <2>1 DEF Matched
  <2>3. h[i] = EntryOf(r, lines[i].sku)
    BY <1>7
  <2>4. e \in EntriesOf(lines[i].sku)
    BY <2>1, <2>2 DEF EntriesOf
  <2>5. h[i] = e
    BY <1>1, <2>1, <2>3, <2>4, EntryOfFacts
  <2> QED
    BY <2>2, <2>5
<1>10. \A i, j \in D : h[i] = h[j] => i = j
  BY <1>3, <1>5, <1>8 DEF Distinct
<1>11. \A i \in D : ledger[h[i]].delta = lines[i].delta
  <2> SUFFICES ASSUME NEW i \in D PROVE ledger[h[i]].delta = lines[i].delta
    OBVIOUS
  <2>1. PICK j \in D : h[j] = h[i] /\ ledger[h[i]].delta = lines[j].delta
    BY <1>8, <1>9
  <2> QED
    BY <1>10, <2>1
<1>12. entries = Images(h, D)
  BY <1>8, <1>9 DEF Images
<1>13. Cardinality(entries) = n
  <2>1. PICK g, f : g = [i \in D |-> 0] /\ f = [x \in entries |-> 0]
    OBVIOUS
  <2>2. \A i \in D : g[i] = f[h[i]] /\ g[i] \in Int
    BY <1>8, <2>1
  <2>3. SumFunctionOnSet(f, Images(h, D)) = SumFunctionOnSet(g, D) /\ Cardinality(Images(h, D)) = Cardinality(D)
    BY <1>5, <1>10, <2>2, SumImage
  <2> QED
    BY <1>5, <1>12, <2>3
<1>14. ASSUME rows[r].type = "purchase_receipt", recosts = 0
       PROVE  SumFunctionOnSet(Costs, entries) = TotalWorth(lines) + charges
  <2>1. PICK g : g = LineCosts(lines, charges)
    OBVIOUS
  <2>2. ASSUME NEW i \in D
        PROVE  Spreads(lines, charges) /\ Costs[h[i]] = g[i]
    <3>1. ledger[h[i]].row = r /\ h[i] \in DOMAIN ledger /\ ledger[h[i]].sku = lines[i].sku
      BY <1>8
    <3>2. Spreads(lines, charges) /\ ledger[h[i]].cost = LineCosts(lines, charges)[LineOf(lines, lines[i].sku)]
      BY <1>1, <1>2, <1>14, <3>1 DEF CostsMatch
    <3> QED
      BY <1>6, <2>1, <3>1, <3>2 DEF Costs
  <2>3. 1 \in D
    BY <1>3, <1>4, <1>5, EmptySeq, LenProperties
  <2>4. g \in [D -> Int] /\ SumFunction(g) = TotalWorth(lines) + charges
    BY <1>3, <1>4, <1>5, <2>1, <2>2, <2>3, LineCostsFacts
  <2>5. SumFunction(g) = SumFunctionOnSet(g, D)
    BY <2>4 DEF SumFunction
  <2>6. \A i \in D : g[i] = Costs[h[i]] /\ g[i] \in Int
    BY <2>2, <2>4
  <2>7. SumFunctionOnSet(Costs, Images(h, D)) = SumFunctionOnSet(g, D)
    BY <1>5, <1>10, <2>6, SumImage
  <2> QED
    BY <1>12, <2>4, <2>5, <2>7
<1> QED
  BY <1>2, <1>3, <1>8, <1>9, <1>11, <1>13, <1>14

(* A posted document is in the ledger once, with the quantities entered last *)
(* and, a receipt, at the cost entered last, however often posting was asked *)
(* for and whatever was edited between its two steps (PreparePosting, Post). *)
THEOREM PostedOnce == Spec => []BookedAsEntered
<1>1. IInv => BookedAsEntered
  <2> SUFFICES ASSUME IInv, NEW r \in DOMAIN rows, rows[r].status = "posted",
                      NEW entries, entries = {e \in DOMAIN ledger : ledger[e].row = r}
               PROVE  /\ Cardinality(entries) = Len(rows[r].lines)
                      /\ {[sku |-> ledger[e].sku, delta |-> ledger[e].delta] : e \in entries}
                          = {[sku |-> rows[r].lines[i].sku, delta |-> rows[r].lines[i].delta] :
                                i \in DOMAIN rows[r].lines}
                      /\ rows[r].type = "purchase_receipt" /\ recosts = 0 =>
                             SumFunctionOnSet(Costs, entries) = TotalWorth(rows[r].lines) + rows[r].charges
    BY DEF BookedAsEntered
  <2>1. /\ Cardinality(entries) = Len(rows[r].lines)
        /\ \A e \in entries : \E i \in DOMAIN rows[r].lines :
               ledger[e].sku = rows[r].lines[i].sku /\ ledger[e].delta = rows[r].lines[i].delta
        /\ \A i \in DOMAIN rows[r].lines : \E e \in entries :
               ledger[e].sku = rows[r].lines[i].sku /\ ledger[e].delta = rows[r].lines[i].delta
        /\ rows[r].type = "purchase_receipt" /\ recosts = 0 =>
               SumFunctionOnSet(Costs, entries) = TotalWorth(rows[r].lines) + rows[r].charges
    BY EntriesOfRow
  <2>2. {[sku |-> ledger[e].sku, delta |-> ledger[e].delta] : e \in entries}
            = {[sku |-> rows[r].lines[i].sku, delta |-> rows[r].lines[i].delta] :
                  i \in DOMAIN rows[r].lines}
    BY <2>1
  <2> QED
    BY <2>1, <2>2
<1> QED
  BY <1>1, InventoryInvariant, PTL

(* Only the last document that touched its SKUs is ever voided               *)
(* (VoidCorrection, validateExactReversal).                                  *)
THEOREM VoidsAreLast == Spec => []VoidsUndoTheLast
<1>1. IInv => VoidsUndoTheLast
  BY DEF IInv, Voids
<1> QED
  BY <1>1, InventoryInvariant, PTL

(* No gap opens in the history of a SKU whose entries are filed in order,    *)
(* whatever is posted, voided or replayed at a new cost (CostCorrection).    *)
THEOREM NoGaps == Spec => []HistoryHasNoGaps
<1>1. IInv => HistoryHasNoGaps
  BY DEF IInv
<1> QED
  BY <1>1, InventoryInvariant, PTL

(* The value of a stock stays within half a unit per piece of its average:   *)
(* the rounding of an average is never carried on (Receive, Adjust).         *)
THEOREM ValueFollowsAverage == Spec => []ValueTracksAverage
<1>1. IInv => ValueTracksAverage
  BY DEF IInv, ValuesNear, ValueTracksAverage, Near, Gap, Most, MostIn
<1> QED
  BY <1>1, InventoryInvariant, PTL
=============================================================================
