----------------------------- MODULE TradeProofs ------------------------------
(***************************************************************************)
(* Stock, its documents and its accounts explain each other, and no        *)
(* counter of a sale exceeds its line, for any documents, warehouses,      *)
(* users, quantities and costs.                                            *)
(***************************************************************************)
EXTENDS Trade, Sums, TLAPS

-----------------------------------------------------------------------------
\* Sums over a set that stays, or grows by one member.

LEMMA SumStays ==
  ASSUME NEW S, IsFiniteSet(S), NEW f, NEW g, \A x \in S : g[x] = f[x]
  PROVE  SumFunctionOnSet(g, S) = SumFunctionOnSet(f, S)
BY SumAgrees

LEMMA SumGrows ==
  ASSUME NEW S, IsFiniteSet(S), NEW f, NEW g, NEW d, d \notin S, g[d] \in Int,
         \A x \in S : f[x] \in Int /\ g[x] = f[x]
  PROVE  SumFunctionOnSet(g, S \cup {d}) = SumFunctionOnSet(f, S) + g[d]
<1>1. \A x \in S \cup {d} : g[x] \in Int
  OBVIOUS
<1>2. SumFunctionOnSet(g, S \cup {d}) = g[d] + SumFunctionOnSet(g, S)
  BY <1>1, SumAdd
<1>3. SumFunctionOnSet(g, S) = SumFunctionOnSet(f, S)
  BY SumStays
<1>4. SumFunctionOnSet(f, S) \in Int
  BY SumType
<1> QED BY <1>2, <1>3, <1>4

-----------------------------------------------------------------------------
\* Rounding is off by at most one half.

LEMMA HalfIs ==
  ASSUME NEW a \in Nat, NEW b \in Nat \ {0}
  PROVE  /\ Half(a, b) \in Nat
         /\ 2 * (b * Half(a, b)) <= 2 * a + b
         /\ 2 * a - b <= 2 * (b * Half(a, b))
<1> DEFINE n == 2 * a + b  k == 2 * b  h == n \div k
<1>1. n \in Nat /\ k \in Nat /\ k > 0
  OBVIOUS
<1>2. h \in Int /\ h >= 0 /\ k * h <= n /\ n < k * h + k
  <2> HIDE DEF n, k
  <2> QED BY <1>1
<1>3. k * h = 2 * (b * h)
  <2> HIDE DEF n, h
  <2> QED BY <1>2
<1> HIDE DEF h
<1> QED BY <1>2, <1>3 DEF Half, h

\* Money at a cost, and the average of what there is.
LEMMA MoneyIs ==
  ASSUME NEW q \in Nat, NEW cost \in Nat
  PROVE  /\ MoneyOf(q, cost) \in Nat
         /\ 2 * (Scale * MoneyOf(q, cost)) <= 2 * (q * cost) + Scale
         /\ 2 * (q * cost) - Scale <= 2 * (Scale * MoneyOf(q, cost))
<1>1. q * cost \in Nat /\ Scale \in Nat \ {0}
  BY StockAssumption
<1>2. MoneyOf(q, cost) = Half(q * cost, Scale)
  BY <1>1 DEF MoneyOf, Rounded
<1> QED BY <1>1, <1>2, HalfIs

LEMMA AverageIs ==
  ASSUME NEW a \in Int, NEW b \in Nat \ {0}
  PROVE  /\ Rounded(a, b) \in Int
         /\ 2 * (b * Rounded(a, b)) <= 2 * a + b
         /\ 2 * a - b <= 2 * (b * Rounded(a, b))
<1>1. CASE a >= 0
  BY <1>1, HalfIs DEF Rounded
<1>2. CASE a < 0
  <2> DEFINE h == Half(-a, b)
  <2>1. -a \in Nat /\ Rounded(a, b) = -h
    BY <1>2 DEF Rounded
  <2>2. h \in Nat /\ 2 * (b * h) <= 2 * (-a) + b /\ 2 * (-a) - b <= 2 * (b * h)
    BY <2>1, HalfIs
  <2> HIDE DEF h
  <2>3. b * (-h) = -(b * h) /\ b * h \in Int
    BY <2>2
  <2> QED BY <2>1, <2>2, <2>3
<1> QED BY <1>1, <1>2

LEMMA AnyAverage == ASSUME NEW a \in Int, NEW b \in Int, b # 0 PROVE Rounded(a, b) \in Int
<1>1. \A x \in Nat : \A y \in Nat \ {0} : Half(x, y) \in Int
  BY HalfIs
<1> QED BY <1>1 DEF Rounded

-----------------------------------------------------------------------------
(* One balance and the movements of its warehouse.  The value drifts from  *)
(* what the movements say each time goods leave at a rounded average; the  *)
(* drift is owned up to only when the last unit leaves, and until then is  *)
(* in the distance between the value and the average times the quantity.   *)

Balance == [qty : Int, value : Int, avg : Nat]
Movements == [received : Nat, receivedValue : Nat, shipped : Nat, shippedValue : Nat,
              shipments : Nat]

Drift(b, m) == Scale * (b.value - (m.receivedValue - m.shippedValue))
Gap(b) == Scale * b.value - b.qty * b.avg
Bound(m) == Scale * m.shipments + m.shipped
Within2(x, y) == x <= y /\ -x <= y

\* Where stock stays at or above zero.
Costed(b, m) ==
  /\ b.qty >= 0
  /\ b.qty = 0 => b.value = 0
  /\ Within2(2 * Drift(b, m), Bound(m))
  /\ Within2(2 * Drift(b, m) + 2 * Gap(b), Bound(m) + b.qty)
  /\ Within2(2 * Drift(b, m) - 2 * Gap(b), Bound(m) + b.qty)

LEMMA InIs ==
  ASSUME NEW b \in Balance, NEW m \in Movements, NEW q \in Nat \ {0}, NEW cost \in Nat,
         CostIsValid(In(b, q, cost)), b.qty = m.received - m.shipped
  PROVE  /\ In(b, q, cost) \in Balance /\ AddIn(m, q, cost) \in Movements
         /\ In(b, q, cost).qty = b.qty + q
         /\ In(b, q, cost).qty = AddIn(m, q, cost).received - AddIn(m, q, cost).shipped
         /\ AddIn(m, q, cost).received = m.received + q
         /\ AddIn(m, q, cost).shipped = m.shipped
         /\ AddIn(m, q, cost).receivedValue - AddIn(m, q, cost).shippedValue =
              m.receivedValue - m.shippedValue + MoneyOf(q, cost)
<1>1. MoneyOf(q, cost) \in Nat
  BY MoneyIs
<1> DEFINE n == AddIn(m, q, cost)
<1>2. /\ n.received = m.received + q /\ n.receivedValue = m.receivedValue + MoneyOf(q, cost)
      /\ n.shipped = m.shipped /\ n.shippedValue = m.shippedValue
  BY DEF AddIn, Movements
<1> DEFINE qty == b.qty + q  value == b.value + MoneyOf(q, cost)
           avg == IF qty = 0 THEN 0 ELSE Rounded(value * Scale, qty)
<1>3. In(b, q, cost) = [qty |-> qty, value |-> value, avg |-> avg]
  BY DEF In
<1>4. qty \in Int /\ value \in Int /\ value * Scale \in Int
  BY <1>1, StockAssumption DEF Balance
<1>5. avg \in Int
  BY <1>4, AnyAverage
<1> HIDE DEF n, qty, value, avg
<1>6. avg >= 0
  BY <1>3 DEF CostIsValid
<1>7. In(b, q, cost) \in Balance
  BY <1>3, <1>4, <1>5, <1>6 DEF Balance
<1>8. n \in Movements
  <2> DEFINE k == [m EXCEPT !.received = m.received + q]
  <2>1. k \in Movements /\ k.receivedValue = m.receivedValue
    BY DEF Movements
  <2>2. n = [k EXCEPT !.receivedValue = m.receivedValue + MoneyOf(q, cost)]
    BY DEF AddIn, n
  <2>3. m.receivedValue + MoneyOf(q, cost) \in Nat
    BY <1>1 DEF Movements
  <2> HIDE DEF k
  <2> QED BY <2>1, <2>2, <2>3 DEF Movements
<1> QED BY <1>1, <1>2, <1>3, <1>7, <1>8 DEF Balance, Movements, n, qty

LEMMA InKeeps ==
  ASSUME NEW b \in Balance, NEW m \in Movements, NEW q \in Nat \ {0}, NEW cost \in Nat,
         Costed(b, m)
  PROVE  Costed(In(b, q, cost), AddIn(m, q, cost))
<1> DEFINE money == MoneyOf(q, cost)  qty == b.qty + q  value == b.value + money
           avg == Rounded(value * Scale, qty)
           b2 == In(b, q, cost)  m2 == AddIn(m, q, cost)
<1>1. money \in Nat
  BY MoneyIs
<1>2. qty \in Nat \ {0} /\ value \in Int /\ Scale \in Nat /\ value * Scale \in Int
  BY <1>1, StockAssumption DEF Costed, Balance
<1>3. avg \in Int /\ 2 * (qty * avg) <= 2 * (value * Scale) + qty
      /\ 2 * (value * Scale) - qty <= 2 * (qty * avg)
  BY <1>2, AverageIs
<1> HIDE DEF money
<1>4. b2.qty = qty /\ b2.value = value /\ b2.avg = avg
  BY <1>2 DEF In, money
<1>5. m2.receivedValue = m.receivedValue + money /\ m2.shippedValue = m.shippedValue
      /\ m2.shipments = m.shipments /\ m2.shipped = m.shipped
  BY DEF AddIn, Movements, money
<1> HIDE DEF b2, m2
<1>6. Drift(b2, m2) = Drift(b, m)
  <2>1. b2.value - (m2.receivedValue - m2.shippedValue) = b.value - (m.receivedValue - m.shippedValue)
    BY <1>1, <1>4, <1>5 DEF Balance, Movements
  <2> QED BY <2>1 DEF Drift
<1>7. Bound(m2) = Bound(m)
  BY <1>5 DEF Bound
<1> HIDE DEF qty, avg, value
<1>8. Within2(2 * Gap(b2), qty) /\ Gap(b2) \in Int
  <2>1. Gap(b2) = value * Scale - qty * avg /\ qty * avg \in Int /\ value * Scale \in Int
    BY <1>2, <1>3, <1>4 DEF Gap
  <2> HIDE DEF Gap
  <2> QED BY <1>2, <1>3, <2>1 DEF Within2
<1>9. Drift(b, m) \in Int /\ Bound(m) \in Int /\ Within2(2 * Drift(b, m), Bound(m))
  <2>1. Scale \in Nat
    BY StockAssumption
  <2>2. b.value - (m.receivedValue - m.shippedValue) \in Int /\ m.shipments \in Nat /\ m.shipped \in Nat
    BY DEF Balance, Movements
  <2> QED BY <2>1, <2>2 DEF Drift, Bound, Costed
<1> HIDE DEF Gap, Drift, Bound
<1>10. Costed(b2, m2)
  BY <1>2, <1>4, <1>6, <1>7, <1>8, <1>9 DEF Costed, Within2
<1> QED BY <1>10 DEF b2, m2

LEMMA OutIs ==
  ASSUME NEW b \in Balance, NEW m \in Movements, NEW q \in Nat \ {0},
         b.qty = m.received - m.shipped
  PROVE  /\ Out(b, q) \in Balance /\ AddOut(m, q, b.avg) \in Movements
         /\ Out(b, q).qty = b.qty - q
         /\ Out(b, q).qty = AddOut(m, q, b.avg).received - AddOut(m, q, b.avg).shipped
         /\ AddOut(m, q, b.avg).received = m.received
         /\ AddOut(m, q, b.avg).shipped = m.shipped + q
         /\ AddOut(m, q, b.avg).receivedValue - AddOut(m, q, b.avg).shippedValue =
              m.receivedValue - m.shippedValue - MoneyOf(q, b.avg)
<1> DEFINE money == MoneyOf(q, b.avg)  n == AddOut(m, q, b.avg)
<1>1. money \in Nat
  BY MoneyIs DEF Balance
<1>2. /\ n.received = m.received /\ n.receivedValue = m.receivedValue
      /\ n.shipped = m.shipped + q /\ n.shippedValue = m.shippedValue + money
  BY DEF AddOut, Movements
<1>3. n \in Movements
  <2> DEFINE k == [m EXCEPT !.shipped = m.shipped + q]
             l == [k EXCEPT !.shippedValue = m.shippedValue + money]
  <2>1. k \in Movements /\ k.shippedValue = m.shippedValue /\ k.shipments = m.shipments
    BY DEF Movements
  <2>2. n = [l EXCEPT !.shipments = m.shipments + 1]
    BY DEF AddOut
  <2>3. m.shippedValue + money \in Nat /\ m.shipments + 1 \in Nat
    BY <1>1 DEF Movements
  <2> HIDE DEF k, n
  <2>4. l \in Movements
    BY <2>1, <2>3 DEF Movements
  <2> HIDE DEF l
  <2> QED BY <2>2, <2>3, <2>4 DEF Movements
<1> HIDE DEF money, n
<1>4. /\ Out(b, q).qty = b.qty - q
      /\ Out(b, q) \in Balance
  <2>1. b.qty - q \in Int /\ b.value - money \in Int /\ b.avg \in Nat
    BY <1>1 DEF Balance
  <2> QED BY <2>1 DEF Out, Balance, money
<1> QED BY <1>1, <1>2, <1>3, <1>4 DEF Balance, Movements, n, money

LEMMA OutKeeps ==
  ASSUME NEW b \in Balance, NEW m \in Movements, NEW q \in Nat \ {0},
         Costed(b, m), q <= b.qty
  PROVE  Costed(Out(b, q), AddOut(m, q, b.avg))
<1> DEFINE money == MoneyOf(q, b.avg)  b2 == Out(b, q)  m2 == AddOut(m, q, b.avg)
<1>1. /\ money \in Nat /\ Scale \in Nat \ {0}
      /\ 2 * (Scale * money) <= 2 * (q * b.avg) + Scale
      /\ 2 * (q * b.avg) - Scale <= 2 * (Scale * money)
  BY MoneyIs, StockAssumption DEF Balance
<1> HIDE DEF money
<1>2. /\ m2.receivedValue = m.receivedValue /\ m2.shippedValue = m.shippedValue + money
      /\ m2.shipments = m.shipments + 1 /\ m2.shipped = m.shipped + q
  BY DEF AddOut, Movements, money
<1>3. /\ b.qty \in Nat /\ b.value \in Int /\ b.avg \in Nat /\ m.receivedValue \in Nat
      /\ m.shippedValue \in Nat /\ m.shipments \in Nat /\ m.shipped \in Nat
  BY DEF Balance, Movements, Costed
<1>4. Bound(m2) = Bound(m) + Scale + q /\ Bound(m) \in Nat
  <2> DEFINE s == m.shipments
  <2>1. s \in Nat /\ m2.shipments = s + 1 /\ Bound(m) = Scale * s + m.shipped
    BY <1>2, <1>3 DEF Bound
  <2> HIDE DEF s, m2
  <2>2. Scale * (s + 1) = Scale * s + Scale /\ Scale * s \in Nat
    BY <1>1, <2>1
  <2>3. Bound(m2) = Scale * (s + 1) + (m.shipped + q)
    BY <1>2, <2>1 DEF Bound
  <2> QED BY <1>1, <1>3, <2>1, <2>2, <2>3
<1>5. Drift(b, m) \in Int /\ Gap(b) \in Int
  BY <1>1, <1>3 DEF Drift, Gap
<1> DEFINE cost == Scale * money - q * b.avg
<1>6. cost \in Int /\ Within2(2 * cost, Scale)
  BY <1>1, <1>3 DEF Within2
<1>7. CASE q < b.qty
  <2>1. b2.qty = b.qty - q /\ b2.value = b.value - money /\ b2.avg = b.avg /\ b2.qty > 0
    BY <1>3, <1>7 DEF Out, money
  <2> HIDE DEF b2, m2
  <2>2. Drift(b2, m2) = Drift(b, m)
    <3>1. b2.value - (m2.receivedValue - m2.shippedValue) = b.value - (m.receivedValue - m.shippedValue)
      BY <1>1, <1>2, <1>3, <2>1
    <3> QED BY <3>1 DEF Drift
  <2>3. Gap(b2) = Gap(b) - cost
    <3>1. Scale * (b.value - money) = Scale * b.value - Scale * money
      BY <1>1, <1>3
    <3>2. (b.qty - q) * b.avg = b.qty * b.avg - q * b.avg
      BY <1>3
    <3>3. Scale * b.value \in Int /\ Scale * money \in Int /\ b.qty * b.avg \in Int /\ q * b.avg \in Int
      BY <1>1, <1>3
    <3> QED BY <2>1, <3>1, <3>2, <3>3 DEF Gap
  <2>4. b2.qty \in Nat \ {0}
    BY <1>3, <2>1
  <2> HIDE DEF cost
  <2>5. Costed(b2, m2)
    <3> HIDE DEF Drift, Gap, Bound
    <3> QED BY <1>1, <1>3, <1>4, <1>5, <1>6, <2>1, <2>2, <2>3, <2>4 DEF Costed, Within2
  <2> QED BY <2>5 DEF b2, m2
<1>8. CASE q = b.qty
  <2>1. b2.qty = 0 /\ b2.value = 0 /\ b2.avg = 0
    BY <1>3, <1>8 DEF Out
  <2> HIDE DEF b2, m2
  <2>2. Gap(b2) = 0
    BY <1>1, <2>1 DEF Gap
  <2>3. Drift(b2, m2) = Drift(b, m) - Gap(b) + cost
    <3> DEFINE told == m.receivedValue - m.shippedValue
    <3>1. b2.value - (m2.receivedValue - m2.shippedValue) = money - told /\ told \in Int
      BY <1>1, <1>2, <1>3, <2>1
    <3>2. Scale * (money - told) = Scale * money - Scale * told
      BY <1>1, <3>1
    <3>3. Scale * (b.value - told) = Scale * b.value - Scale * told
      BY <1>1, <1>3, <3>1
    <3>4. Scale * b.value \in Int /\ Scale * money \in Int /\ Scale * told \in Int /\ q * b.avg \in Int
      BY <1>1, <1>3, <3>1
    <3>5. Drift(b2, m2) = Scale * money - Scale * told
      BY <3>1, <3>2 DEF Drift
    <3>6. Drift(b, m) = Scale * b.value - Scale * told
      BY <3>3 DEF Drift
    <3>7. Gap(b) = Scale * b.value - q * b.avg
      BY <1>8 DEF Gap
    <3> HIDE DEF told
    <3> QED BY <3>4, <3>5, <3>6, <3>7
  <2> HIDE DEF cost
  <2>4. Costed(b2, m2)
    <3> HIDE DEF Drift, Gap, Bound
    <3> QED BY <1>1, <1>3, <1>4, <1>5, <1>6, <1>8, <2>1, <2>2, <2>3 DEF Costed, Within2
  <2> QED BY <2>4 DEF b2, m2
<1> QED BY <1>3, <1>7, <1>8

\* What the movements of a balance of ordinary stock leave unexplained.
LEMMA CostedMeans ==
  ASSUME NEW b \in Balance, NEW m \in Movements, Costed(b, m)
  PROVE  LET drift == b.value - (m.receivedValue - m.shippedValue)
             size == IF drift < 0 THEN -drift ELSE drift
         IN  2 * Scale * size <= Scale * m.shipments + m.shipped
<1> DEFINE drift == b.value - (m.receivedValue - m.shippedValue)
<1>1. drift \in Int /\ Scale \in Nat /\ Bound(m) \in Int
  BY StockAssumption DEF Balance, Movements, Bound
<1>2. Within2(2 * (Scale * drift), Bound(m))
  BY DEF Costed, Drift
<1>3. 2 * Scale * drift = 2 * (Scale * drift) /\ 2 * Scale * (-drift) = -(2 * (Scale * drift))
  <2> HIDE DEF drift
  <2> QED BY <1>1
<1> HIDE DEF drift
<1>4. 2 * Scale * (IF drift < 0 THEN -drift ELSE drift) <= Bound(m)
  BY <1>1, <1>2, <1>3 DEF Within2
<1> QED BY <1>4 DEF Bound, drift

-----------------------------------------------------------------------------
(* All balances and their movements, added up.                             *)

StockFits(b, m) ==
  /\ b \in [Warehouses -> Balance] /\ m \in [Warehouses -> Movements]
  /\ \A w \in Warehouses : b[w].qty = m[w].received - m[w].shipped
  /\ \A w \in Warehouses \ Negative : Costed(b[w], m[w])

Net(m) == SumFunctionOnSet([w \in Warehouses |-> m[w].receivedValue - m[w].shippedValue],
                           Warehouses)
Shipped(m) == SumFunctionOnSet([w \in Warehouses |-> m[w].shipped], Warehouses)
Received(m) == SumFunctionOnSet([w \in Warehouses |-> m[w].received], Warehouses)

LEMMA TotalsAreIntegers ==
  ASSUME NEW m \in [Warehouses -> Movements]
  PROVE  Net(m) \in Int /\ Shipped(m) \in Int /\ Received(m) \in Int
<1>1. \A w \in Warehouses : m[w] \in Movements
  OBVIOUS
<1>2. Net(m) \in Int
  <2> DEFINE f == [w \in Warehouses |-> m[w].receivedValue - m[w].shippedValue]
  <2>1. \A w \in Warehouses : f[w] \in Int
    BY <1>1 DEF Movements
  <2> HIDE DEF f
  <2>2. SumFunctionOnSet(f, Warehouses) \in Int
    BY <2>1, SumType, StockAssumption
  <2> QED BY <2>2 DEF Net, f
<1>3. Shipped(m) \in Int
  <2> DEFINE f == [w \in Warehouses |-> m[w].shipped]
  <2>1. \A w \in Warehouses : f[w] \in Int
    BY <1>1 DEF Movements
  <2> HIDE DEF f
  <2>2. SumFunctionOnSet(f, Warehouses) \in Int
    BY <2>1, SumType, StockAssumption
  <2> QED BY <2>2 DEF Shipped, f
<1>4. Received(m) \in Int
  <2> DEFINE f == [w \in Warehouses |-> m[w].received]
  <2>1. \A w \in Warehouses : f[w] \in Int
    BY <1>1 DEF Movements
  <2> HIDE DEF f
  <2>2. SumFunctionOnSet(f, Warehouses) \in Int
    BY <2>1, SumType, StockAssumption
  <2> QED BY <2>2 DEF Received, f
<1> QED BY <1>2, <1>3, <1>4

LEMMA OneWarehouse ==
  ASSUME NEW m \in [Warehouses -> Movements], NEW w \in Warehouses, NEW n \in Movements,
         NEW k, k = [m EXCEPT ![w] = n]
  PROVE  /\ k \in [Warehouses -> Movements]
         /\ Net(k) = Net(m) + ((n.receivedValue - n.shippedValue)
                               - (m[w].receivedValue - m[w].shippedValue))
         /\ Shipped(k) = Shipped(m) + (n.shipped - m[w].shipped)
         /\ Received(k) = Received(m) + (n.received - m[w].received)
<1>1. k \in [Warehouses -> Movements] /\ k[w] = n /\ \A v \in Warehouses \ {w} : k[v] = m[v]
  OBVIOUS
<1>2. \A v \in Warehouses : m[v] \in Movements /\ k[v] \in Movements
  BY <1>1
<1>3. IsFiniteSet(Warehouses)
  BY StockAssumption
<1>4. Net(k) = Net(m) + ((n.receivedValue - n.shippedValue)
                         - (m[w].receivedValue - m[w].shippedValue))
  <2> DEFINE f == [v \in Warehouses |-> m[v].receivedValue - m[v].shippedValue]
             g == [v \in Warehouses |-> k[v].receivedValue - k[v].shippedValue]
  <2>1. /\ \A v \in Warehouses : f[v] \in Int
        /\ g[w] \in Int /\ \A v \in Warehouses \ {w} : g[v] = f[v]
        /\ f[w] = m[w].receivedValue - m[w].shippedValue
        /\ g[w] = n.receivedValue - n.shippedValue
    BY <1>1, <1>2 DEF Movements
  <2> HIDE DEF f, g
  <2>2. SumFunctionOnSet(g, Warehouses) = SumFunctionOnSet(f, Warehouses) + (g[w] - f[w])
    BY <1>3, <2>1, SumChange
  <2>3. Net(k) = SumFunctionOnSet(g, Warehouses) /\ Net(m) = SumFunctionOnSet(f, Warehouses)
    BY DEF Net, f, g
  <2> QED BY <2>1, <2>2, <2>3
<1>5. Shipped(k) = Shipped(m) + (n.shipped - m[w].shipped)
  <2> DEFINE f == [v \in Warehouses |-> m[v].shipped]
             g == [v \in Warehouses |-> k[v].shipped]
  <2>1. /\ \A v \in Warehouses : f[v] \in Int
        /\ g[w] \in Int /\ \A v \in Warehouses \ {w} : g[v] = f[v]
        /\ f[w] = m[w].shipped /\ g[w] = n.shipped
    BY <1>1, <1>2 DEF Movements
  <2> HIDE DEF f, g
  <2>2. SumFunctionOnSet(g, Warehouses) = SumFunctionOnSet(f, Warehouses) + (g[w] - f[w])
    BY <1>3, <2>1, SumChange
  <2>3. Shipped(k) = SumFunctionOnSet(g, Warehouses) /\ Shipped(m) = SumFunctionOnSet(f, Warehouses)
    BY DEF Shipped, f, g
  <2> QED BY <2>1, <2>2, <2>3
<1>6. Received(k) = Received(m) + (n.received - m[w].received)
  <2> DEFINE f == [v \in Warehouses |-> m[v].received]
             g == [v \in Warehouses |-> k[v].received]
  <2>1. /\ \A v \in Warehouses : f[v] \in Int
        /\ g[w] \in Int /\ \A v \in Warehouses \ {w} : g[v] = f[v]
        /\ f[w] = m[w].received /\ g[w] = n.received
    BY <1>1, <1>2 DEF Movements
  <2> HIDE DEF f, g
  <2>2. SumFunctionOnSet(g, Warehouses) = SumFunctionOnSet(f, Warehouses) + (g[w] - f[w])
    BY <1>3, <2>1, SumChange
  <2>3. Received(k) = SumFunctionOnSet(g, Warehouses) /\ Received(m) = SumFunctionOnSet(f, Warehouses)
    BY DEF Received, f, g
  <2> QED BY <2>1, <2>2, <2>3
<1> QED BY <1>1, <1>4, <1>5, <1>6

\* Goods come into a warehouse.
TakesIn(b, m, w, q, cost, b2, m2) ==
  /\ StockFits(b, m) /\ w \in Warehouses /\ q \in Nat \ {0} /\ cost \in Nat
  /\ CostIsValid(In(b[w], q, cost))
  /\ b2 = [b EXCEPT ![w] = In(b[w], q, cost)]
  /\ m2 = [m EXCEPT ![w] = AddIn(m[w], q, cost)]

LEMMA ComesIn ==
  ASSUME NEW b, NEW m, NEW w, NEW q, NEW cost, NEW b2, NEW m2, TakesIn(b, m, w, q, cost, b2, m2)
  PROVE  /\ StockFits(b2, m2)
         /\ Net(m2) = Net(m) + MoneyOf(q, cost)
         /\ Shipped(m2) = Shipped(m) /\ Received(m2) = Received(m) + q
<1> DEFINE x == In(b[w], q, cost)  y == AddIn(m[w], q, cost)
<1>0. /\ StockFits(b, m) /\ w \in Warehouses /\ q \in Nat \ {0} /\ cost \in Nat
      /\ CostIsValid(In(b[w], q, cost))
      /\ b2 = [b EXCEPT ![w] = In(b[w], q, cost)]
      /\ m2 = [m EXCEPT ![w] = AddIn(m[w], q, cost)]
  BY DEF TakesIn
<1>1. /\ b[w] \in Balance /\ m[w] \in Movements /\ b[w].qty = m[w].received - m[w].shipped
      /\ w \notin Negative => Costed(b[w], m[w])
  BY <1>0 DEF StockFits
<1>2. /\ x \in Balance /\ y \in Movements /\ x.qty = y.received - y.shipped
      /\ y.received = m[w].received + q /\ y.shipped = m[w].shipped
      /\ y.receivedValue - y.shippedValue =
           m[w].receivedValue - m[w].shippedValue + MoneyOf(q, cost)
  BY <1>0, <1>1, InIs
<1>3. w \notin Negative => Costed(x, y)
  BY <1>0, <1>1, InKeeps
<1>4. MoneyOf(q, cost) \in Nat
  BY <1>0, MoneyIs
<1> HIDE DEF x, y
<1>5. b2 = [b EXCEPT ![w] = x] /\ m2 = [m EXCEPT ![w] = y]
  BY <1>0 DEF x, y
<1>6. StockFits(b2, m2)
  BY <1>0, <1>2, <1>3, <1>5 DEF StockFits
<1>7. m \in [Warehouses -> Movements]
  BY <1>0 DEF StockFits
<1>8. /\ Net(m2) = Net(m) + ((y.receivedValue - y.shippedValue)
                             - (m[w].receivedValue - m[w].shippedValue))
      /\ Shipped(m2) = Shipped(m) + (y.shipped - m[w].shipped)
      /\ Received(m2) = Received(m) + (y.received - m[w].received)
  <2>1. y \in Movements /\ m2 = [m EXCEPT ![w] = y]
    BY <1>2, <1>5
  <2>2. w \in Warehouses
    BY <1>0
  <2> QED BY ONLY <1>7, <2>1, <2>2, OneWarehouse
<1>9. Net(m) \in Int /\ Shipped(m) \in Int /\ Received(m) \in Int
  BY <1>7, TotalsAreIntegers
<1>10. /\ m[w].receivedValue - m[w].shippedValue \in Int /\ m[w].shipped \in Int
       /\ m[w].received \in Int
  BY <1>1 DEF Movements
<1> QED BY <1>0, <1>2, <1>4, <1>6, <1>8, <1>9, <1>10

\* Goods leave a warehouse at its average.
TakesOut(b, m, w, q, b2, m2) ==
  /\ StockFits(b, m) /\ w \in Warehouses /\ q \in Nat \ {0}
  /\ w \in Negative \/ b[w].qty >= q
  /\ b2 = [b EXCEPT ![w] = Out(b[w], q)]
  /\ m2 = [m EXCEPT ![w] = AddOut(m[w], q, b[w].avg)]

LEMMA GoesOut ==
  ASSUME NEW b, NEW m, NEW w, NEW q, NEW b2, NEW m2, TakesOut(b, m, w, q, b2, m2)
  PROVE  /\ StockFits(b2, m2)
         /\ Net(m2) = Net(m) - MoneyOf(q, b[w].avg)
         /\ Shipped(m2) = Shipped(m) + q /\ Received(m2) = Received(m)
<1> DEFINE x == Out(b[w], q)  y == AddOut(m[w], q, b[w].avg)  money == MoneyOf(q, b[w].avg)
<1>0. /\ StockFits(b, m) /\ w \in Warehouses /\ q \in Nat \ {0}
      /\ w \in Negative \/ b[w].qty >= q
      /\ b2 = [b EXCEPT ![w] = Out(b[w], q)]
      /\ m2 = [m EXCEPT ![w] = AddOut(m[w], q, b[w].avg)]
  BY DEF TakesOut
<1>1. /\ b[w] \in Balance /\ m[w] \in Movements /\ b[w].qty = m[w].received - m[w].shipped
      /\ w \notin Negative => Costed(b[w], m[w])
  BY <1>0 DEF StockFits
<1>2. /\ x \in Balance /\ y \in Movements /\ x.qty = y.received - y.shipped
      /\ y.received = m[w].received /\ y.shipped = m[w].shipped + q
      /\ y.receivedValue - y.shippedValue = m[w].receivedValue - m[w].shippedValue - money
  BY <1>0, <1>1, OutIs
<1>3. w \notin Negative => Costed(x, y)
  <2>1. CASE w \notin Negative
    <3>1. b[w].qty \in Int /\ q <= b[w].qty
      BY <1>0, <1>1, <2>1 DEF Balance
    <3> QED BY <1>0, <1>1, <2>1, <3>1, OutKeeps
  <2> QED BY <2>1
<1>4. money \in Nat
  BY <1>0, <1>1, MoneyIs DEF Balance
<1> HIDE DEF x, y, money
<1>5. b2 = [b EXCEPT ![w] = x] /\ m2 = [m EXCEPT ![w] = y]
  BY <1>0 DEF x, y
<1>6. StockFits(b2, m2)
  BY <1>0, <1>2, <1>3, <1>5 DEF StockFits
<1>7. m \in [Warehouses -> Movements]
  BY <1>0 DEF StockFits
<1>8. /\ Net(m2) = Net(m) + ((y.receivedValue - y.shippedValue)
                             - (m[w].receivedValue - m[w].shippedValue))
      /\ Shipped(m2) = Shipped(m) + (y.shipped - m[w].shipped)
      /\ Received(m2) = Received(m) + (y.received - m[w].received)
  <2>1. y \in Movements /\ m2 = [m EXCEPT ![w] = y]
    BY <1>2, <1>5
  <2>2. w \in Warehouses
    BY <1>0
  <2> QED BY ONLY <1>7, <2>1, <2>2, OneWarehouse
<1>9. Net(m) \in Int /\ Shipped(m) \in Int /\ Received(m) \in Int
  BY <1>7, TotalsAreIntegers
<1>10. /\ m[w].receivedValue - m[w].shippedValue \in Int /\ m[w].shipped \in Int
       /\ m[w].received \in Int
  BY <1>1 DEF Movements
<1>11. Net(m2) = Net(m) - money /\ Shipped(m2) = Shipped(m) + q /\ Received(m2) = Received(m)
  BY <1>0, <1>2, <1>4, <1>8, <1>9, <1>10
<1> QED BY <1>6, <1>11 DEF money

-----------------------------------------------------------------------------
(* What the inventory accounts hold together.                              *)

InLedger(g) == SumFunctionOnSet([a \in InventoryAccounts |-> g[a]], InventoryAccounts)

LEMMA InventoryAccountsFinite == IsFiniteSet(InventoryAccounts)
<1> DEFINE S == {Account[w] : w \in Warehouses}
           f == [w \in Warehouses |-> Account[w]]
<1>1. f \in Surjection(Warehouses, S)
  BY DEF Surjection
<1>2. IsFiniteSet(S)
  BY <1>1, FS_Surjection, StockAssumption
<1>3. InventoryAccounts = S \cup {"INVENTORY"}
  BY DEF InventoryAccounts
<1> QED BY <1>2, <1>3, FS_AddElement

Adding(g, a, n) == [g EXCEPT ![a] = g[a] + n]

LEMMA OneAccount ==
  ASSUME NEW g, g \in [Accounts -> Int], NEW a, a \in Accounts, NEW n, n \in Int
  PROVE  /\ Adding(g, a, n) \in [Accounts -> Int]
         /\ a \in InventoryAccounts => InLedger(Adding(g, a, n)) = InLedger(g) + n
         /\ a \notin InventoryAccounts => InLedger(Adding(g, a, n)) = InLedger(g)
         /\ InLedger(g) \in Int
<1> DEFINE h == Adding(g, a, n)
           e == [x \in InventoryAccounts |-> g[x]]
           f == [x \in InventoryAccounts |-> h[x]]
<1>1. h \in [Accounts -> Int] /\ h[a] = g[a] + n /\ g[a] \in Int
      /\ \A x \in Accounts \ {a} : h[x] = g[x]
  BY DEF Adding
<1> HIDE DEF h
<1>2. InventoryAccounts \subseteq Accounts
  BY DEF Accounts
<1>3. \A x \in InventoryAccounts : e[x] = g[x] /\ f[x] = h[x] /\ e[x] \in Int
  BY <1>2
<1>4. InLedger(h) = SumFunctionOnSet(f, InventoryAccounts)
      /\ InLedger(g) = SumFunctionOnSet(e, InventoryAccounts)
  BY DEF InLedger
<1> HIDE DEF e, f
<1>5. SumFunctionOnSet(e, InventoryAccounts) \in Int
  BY <1>3, InventoryAccountsFinite, SumType
<1>6. CASE a \in InventoryAccounts
  <2>1. f[a] \in Int /\ \A x \in InventoryAccounts \ {a} : f[x] = e[x]
    BY <1>1, <1>2, <1>3, <1>6
  <2>2. SumFunctionOnSet(f, InventoryAccounts) =
          SumFunctionOnSet(e, InventoryAccounts) + (f[a] - e[a])
    <3>1. \A x \in InventoryAccounts : e[x] \in Int
      BY <1>3
    <3> QED BY <1>6, <2>1, <3>1, InventoryAccountsFinite, SumChange
  <2> QED BY <1>1, <1>3, <1>4, <1>5, <1>6, <2>2 DEF h
<1>7. CASE a \notin InventoryAccounts
  <2>1. \A x \in InventoryAccounts : e[x] = f[x]
    BY <1>1, <1>2, <1>3, <1>7
  <2>2. SumFunctionOnSet(e, InventoryAccounts) = SumFunctionOnSet(f, InventoryAccounts)
    BY <2>1, InventoryAccountsFinite, SumAgrees
  <2> QED BY <1>1, <1>4, <1>5, <1>7, <2>2 DEF h
<1> QED BY <1>6, <1>7

\* An entry of two accounts, which may be one.
AfterEntry(g, debit, credit, n) ==
  [a \in Accounts |-> g[a] + (IF a = debit THEN n ELSE 0) - (IF a = credit THEN n ELSE 0)]

\* Its part in the inventory accounts.
Share(a, n) == IF a \in InventoryAccounts THEN n ELSE 0

LEMMA BookedIs ==
  ASSUME NEW g, g \in [Accounts -> Int], NEW debit, debit \in Accounts,
         NEW credit, credit \in Accounts, NEW n, n \in Int
  PROVE  /\ AfterEntry(g, debit, credit, n) \in [Accounts -> Int]
         /\ InLedger(AfterEntry(g, debit, credit, n)) =
              InLedger(g) + Share(debit, n) - Share(credit, n)
         /\ InLedger(g) \in Int
<1> DEFINE k == Adding(g, debit, n)  h == AfterEntry(g, debit, credit, n)  r == -n
<1>1. r \in Int
  OBVIOUS
<1>2. k = [g EXCEPT ![debit] = g[debit] + n]
  BY DEF Adding
<1>3. Adding(k, credit, r) = [k EXCEPT ![credit] = k[credit] + r]
  BY DEF Adding
<1>4. h = [a \in Accounts |-> g[a] + (IF a = debit THEN n ELSE 0) - (IF a = credit THEN n ELSE 0)]
  BY DEF AfterEntry
<1>5. /\ k \in [Accounts -> Int]
      /\ debit \in InventoryAccounts => InLedger(k) = InLedger(g) + n
      /\ debit \notin InventoryAccounts => InLedger(k) = InLedger(g)
      /\ InLedger(g) \in Int
  BY OneAccount
<1> HIDE DEF k, h, r
<1>6. k \in [Accounts -> Int]
  BY <1>5
<1>7. /\ Adding(k, credit, r) \in [Accounts -> Int]
      /\ credit \in InventoryAccounts => InLedger(Adding(k, credit, r)) = InLedger(k) + r
      /\ credit \notin InventoryAccounts => InLedger(Adding(k, credit, r)) = InLedger(k)
  BY <1>1, <1>6, OneAccount
<1>8. h = Adding(k, credit, r)
  <2> DEFINE l == Adding(k, credit, r)
  <2> HIDE DEF l
  <2>1. h \in [Accounts -> Int] /\ l \in [Accounts -> Int]
    BY <1>4, <1>7 DEF l
  <2>2. ASSUME NEW a \in Accounts PROVE h[a] = l[a]
    <3>1. g[a] \in Int /\ k[a] = g[a] + (IF a = debit THEN n ELSE 0)
      BY <1>2
    <3>2. l[a] = k[a] + (IF a = credit THEN r ELSE 0)
      <4>1. k[a] \in Int
        BY <1>6
      <4> QED BY <1>3, <1>6, <4>1 DEF l
    <3>3. h[a] = g[a] + (IF a = debit THEN n ELSE 0) - (IF a = credit THEN n ELSE 0)
      BY <1>4
    <3> QED BY <3>1, <3>2, <3>3 DEF r
  <2>3. h = l
    BY <2>1, <2>2
  <2> QED BY <2>3 DEF l
<1>9. /\ h \in [Accounts -> Int]
      /\ InLedger(h) = InLedger(g) + Share(debit, n) - Share(credit, n)
  BY <1>5, <1>7, <1>8 DEF Share, r
<1> QED BY <1>5, <1>9 DEF h

-----------------------------------------------------------------------------
(* What documents add up to.                                               *)

Qtys(rows, S) == SumFunctionOnSet([x \in S |-> rows[x].qty], S)
Values(rows, S) == SumFunctionOnSet([x \in S |-> rows[x].value], S)
HasRow(rows, x) == rows[x] \in Document

LEMMA DocumentsFinite == ASSUME NEW S, S \subseteq Docs PROVE IsFiniteSet(S)
BY KindAssumption, FS_Subset

LEMMA RowFields ==
  ASSUME NEW rows, NEW x, HasRow(rows, x)
  PROVE  /\ rows[x].qty \in Nat \ {0} /\ rows[x].cost \in Nat /\ rows[x].value \in Nat
         /\ rows[x].qty \in Quantities /\ rows[x].source \in Docs \cup {NoDoc}
BY QuantityAssumption DEF HasRow, Document

LEMMA QtysStay ==
  ASSUME NEW S, S \subseteq Docs, NEW rows, NEW rows2,
         \A x \in S : rows2[x].qty = rows[x].qty
  PROVE  Qtys(rows2, S) = Qtys(rows, S)
<1> DEFINE f == [x \in S |-> rows[x].qty]  g == [x \in S |-> rows2[x].qty]
<1>1. \A x \in S : f[x] = g[x]
  OBVIOUS
<1> HIDE DEF f, g
<1>2. SumFunctionOnSet(f, S) = SumFunctionOnSet(g, S)
  BY <1>1, DocumentsFinite, SumAgrees
<1> QED BY <1>2 DEF Qtys, f, g

QtysJoin(S, d, rows, rows2) ==
  /\ S \subseteq Docs /\ d \in Docs \ S
  /\ \A x \in S : HasRow(rows, x) /\ rows2[x].qty = rows[x].qty
  /\ rows2[d].qty \in Int

LEMMA QtysGrow ==
  ASSUME NEW S, NEW d, NEW rows, NEW rows2, QtysJoin(S, d, rows, rows2)
  PROVE  /\ Qtys(rows2, S \cup {d}) = Qtys(rows, S) + rows2[d].qty
         /\ Qtys(rows, S) \in Nat
<1> DEFINE f == [x \in S |-> rows[x].qty]  T == S \cup {d}
           g == [x \in T |-> rows2[x].qty]
<1>1. \A x \in S : f[x] \in Nat /\ g[x] = f[x]
  BY RowFields DEF QtysJoin
<1>2. g[d] = rows2[d].qty /\ T = S \cup {d}
  BY DEF QtysJoin
<1>3. IsFiniteSet(S)
  BY DocumentsFinite DEF QtysJoin
<1>4. Qtys(rows2, T) = SumFunctionOnSet(g, T) /\ Qtys(rows, S) = SumFunctionOnSet(f, S)
  BY DEF Qtys
<1> HIDE DEF f, g, T
<1>5. SumFunctionOnSet(f, S) \in Nat
  BY <1>1, <1>3, SumNat
<1>6. SumFunctionOnSet(g, S \cup {d}) = SumFunctionOnSet(f, S) + g[d]
  <2>1. g[d] \in Int
    BY <1>2 DEF QtysJoin
  <2>2. d \notin S
    BY DEF QtysJoin
  <2>3. \A x \in S : f[x] \in Int /\ g[x] = f[x]
    BY <1>1
  <2> QED BY ONLY <1>3, <2>1, <2>2, <2>3, SumGrows
<1>7. Qtys(rows2, S \cup {d}) = Qtys(rows, S) + rows2[d].qty
  BY <1>2, <1>4, <1>6
<1>8. Qtys(rows, S) \in Nat
  BY <1>4, <1>5
<1> QED BY <1>7, <1>8

LEMMA ValuesStay ==
  ASSUME NEW S, S \subseteq Docs, NEW rows, NEW rows2,
         \A x \in S : rows2[x].value = rows[x].value
  PROVE  Values(rows2, S) = Values(rows, S)
<1> DEFINE f == [x \in S |-> rows[x].value]  g == [x \in S |-> rows2[x].value]
<1>1. \A x \in S : f[x] = g[x]
  OBVIOUS
<1> HIDE DEF f, g
<1>2. SumFunctionOnSet(f, S) = SumFunctionOnSet(g, S)
  BY <1>1, DocumentsFinite, SumAgrees
<1> QED BY <1>2 DEF Values, f, g

ValuesJoin(S, d, rows, rows2) ==
  /\ S \subseteq Docs /\ d \in Docs \ S
  /\ \A x \in S : HasRow(rows, x) /\ rows2[x].value = rows[x].value
  /\ rows2[d].value \in Int

LEMMA ValuesGrow ==
  ASSUME NEW S, NEW d, NEW rows, NEW rows2, ValuesJoin(S, d, rows, rows2)
  PROVE  /\ Values(rows2, S \cup {d}) = Values(rows, S) + rows2[d].value
         /\ Values(rows, S) \in Nat
<1> DEFINE f == [x \in S |-> rows[x].value]  T == S \cup {d}
           g == [x \in T |-> rows2[x].value]
<1>1. \A x \in S : f[x] \in Nat /\ g[x] = f[x]
  BY RowFields DEF ValuesJoin
<1>2. g[d] = rows2[d].value /\ T = S \cup {d}
  BY DEF ValuesJoin
<1>3. IsFiniteSet(S)
  BY DocumentsFinite DEF ValuesJoin
<1>4. Values(rows2, T) = SumFunctionOnSet(g, T) /\ Values(rows, S) = SumFunctionOnSet(f, S)
  BY DEF Values
<1> HIDE DEF f, g, T
<1>5. SumFunctionOnSet(f, S) \in Nat
  BY <1>1, <1>3, SumNat
<1>6. SumFunctionOnSet(g, S \cup {d}) = SumFunctionOnSet(f, S) + g[d]
  <2>1. g[d] \in Int
    BY <1>2 DEF ValuesJoin
  <2>2. d \notin S
    BY DEF ValuesJoin
  <2>3. \A x \in S : f[x] \in Int /\ g[x] = f[x]
    BY <1>1
  <2> QED BY ONLY <1>3, <2>1, <2>2, <2>3, SumGrows
<1>7. Values(rows2, S \cup {d}) = Values(rows, S) + rows2[d].value
  BY <1>2, <1>4, <1>6
<1>8. Values(rows, S) \in Nat
  BY <1>4, <1>5
<1> QED BY <1>7, <1>8

-----------------------------------------------------------------------------
(* The rows: what a document refers to is there, and was posted where its  *)
(* kind asks for that; what is posted stays in the database as posted.     *)

SourceFits(d) ==
  LET source == doc[d].source
  IN  CASE Kind[d] = "DN" -> source \in Of("SO") \cap Entered
        [] Kind[d] = "SI" -> source \in WrittenOf("DN")
        [] Kind[d] \in {"SR", "CN"} -> source \in WrittenOf("SI")
        [] Kind[d] = "GR" -> source \in {NoDoc} \cup (Of("PO") \cap Entered)
        [] Kind[d] = "PB" -> source \in {NoDoc} \cup (Of("GR") \cap Entered)
        [] Kind[d] = "PR" -> source \in (Of("GR") \cup Of("PB")) \cap Entered
        [] Kind[d] = "DBN" -> source \in (Of("PR") \cup Of("PB")) \cap Entered
        [] OTHER -> source = NoDoc
MovesNothing(d) == Kind[d] = "CN" \/ (Kind[d] = "PR" /\ doc[d].how = "NO_STOCK_EFFECT")
PriceFits(d) ==
  /\ d \notin written => doc[d].value = 0
  /\ d \in written /\ Kind[d] = "SI" => doc[d].cost = doc[doc[d].source].cost
  /\ d \in written /\ MovesNothing(d) => doc[d].cost = 0 /\ doc[d].value = 0
StatusFits(d) ==
  Kind[d] # "SO" /\ doc[d].status \in {"POSTED", "PARTIAL", "COMPLETED"} => d \in written
CallFits(c) == call[c] = Idle \/ call[c] \in [step : Steps, doc : Entered, read : Nat]

RowsInv ==
  /\ doc \in [Docs -> Document \cup {Blank, Unused}]
  /\ DOMAIN call = Callers /\ \A c \in Callers : CallFits(c)
  /\ written \subseteq Entered
  /\ \A d \in Entered : SourceFits(d) /\ PriceFits(d) /\ StatusFits(d)

RowsOf(rows) == {d \in Docs : HasRow(rows, d)}

LEMMA EnteredIs ==
  ASSUME NEW rows, rows \in [Docs -> Document \cup {Blank, Unused}]
  PROVE  {d \in Docs : rows[d].status \in DocumentStatus} = RowsOf(rows)
<1>1. ASSUME NEW d \in Docs PROVE rows[d].status \in DocumentStatus <=> HasRow(rows, d)
  <2>1. CASE rows[d] \in Document
    BY <2>1 DEF HasRow, Document
  <2>2. CASE rows[d] = Blank
    BY <2>2 DEF HasRow, Document, Blank, DocumentStatus
  <2>3. CASE rows[d] = Unused
    BY <2>3 DEF HasRow, Document, Unused, DocumentStatus
  <2> QED BY <2>1, <2>2, <2>3
<1> QED BY <1>1 DEF RowsOf

LEMMA EnteredNow == ASSUME RowsInv PROVE Entered = RowsOf(doc)
BY EnteredIs DEF RowsInv, Entered, Exists

LEMMA EnteredRow == ASSUME RowsInv, NEW d \in Entered
                    PROVE  d \in Docs /\ doc[d] \in Document /\ HasRow(doc, d)
BY EnteredNow DEF RowsOf, HasRow

\* What a document says stays; what it was costed at stays.
Kept(x) ==
  doc'[x].source = doc[x].source /\ doc'[x].qty = doc[x].qty /\ doc'[x].how = doc[x].how
Books(x) == doc'[x].cost = doc[x].cost /\ doc'[x].value = doc[x].value
StatusKept(x) == Kind[x] # "SO" => doc'[x].status = doc[x].status

\* One document is posted: nothing else changes but the state of an order.
Posts(c, d) ==
  /\ c \in Callers /\ d \in Entered
  /\ doc' \in [Docs -> Document \cup {Blank, Unused}]
  /\ Entered' = Entered
  /\ \A x \in Entered : Kept(x)
  /\ \A x \in Entered \ {d} : Books(x) /\ StatusKept(x)
  /\ d \in written => Books(d)
  /\ written' = written \cup {d}
  /\ call' = [call EXCEPT ![c] = Idle]

LEMMA PostingCall ==
  ASSUME RowsInv, NEW c \in Callers, NEW kind, Posting(c, kind)
  PROVE  /\ call[c].doc \in Entered /\ Kind[call[c].doc] = kind /\ call[c].read \in Nat
         /\ call[c].doc \in Of(kind) /\ HasRow(doc, call[c].doc)
<1>1. call[c] # Idle
  BY DEF Posting, Idle
<1>2. call[c] \in [step : Steps, doc : Entered, read : Nat]
  BY <1>1 DEF RowsInv, CallFits
<1> QED BY <1>2, EnteredRow DEF Posting, Of

AsPosted(rows, d, cost, value) ==
  [rows EXCEPT ![d].status = "POSTED", ![d].cost = cost, ![d].value = value]

LEMMA PostedIs ==
  ASSUME NEW rows, rows \in [Docs -> Document \cup {Blank, Unused}], NEW d, d \in RowsOf(rows),
         NEW cost, cost \in Nat, NEW value, value \in Nat,
         NEW next, next = AsPosted(rows, d, cost, value)
  PROVE  /\ next \in [Docs -> Document \cup {Blank, Unused}]
         /\ RowsOf(next) = RowsOf(rows)
         /\ \A x \in Docs \ {d} : next[x] = rows[x]
         /\ next[d].source = rows[d].source /\ next[d].qty = rows[d].qty
         /\ next[d].how = rows[d].how /\ next[d].status = "POSTED"
         /\ next[d].cost = cost /\ next[d].value = value
<1> DEFINE new == [rows[d] EXCEPT !.status = "POSTED", !.cost = cost, !.value = value]
<1>1. d \in Docs /\ rows[d] \in Document
  BY DEF RowsOf, HasRow
<1>2. next = [rows EXCEPT ![d] = new]
  BY <1>1 DEF AsPosted
<1>3. /\ new \in Document
      /\ new.source = rows[d].source /\ new.qty = rows[d].qty
      /\ new.how = rows[d].how /\ new.status = "POSTED"
      /\ new.cost = cost /\ new.value = value
  BY <1>1 DEF Document, DocumentStatus
<1> HIDE DEF new
<1>4. next \in [Docs -> Document \cup {Blank, Unused}] /\ next[d] = new
      /\ \A x \in Docs \ {d} : next[x] = rows[x]
  BY <1>1, <1>2, <1>3
<1>5. RowsOf(next) = RowsOf(rows)
  BY <1>1, <1>3, <1>4 DEF RowsOf, HasRow
<1> QED BY <1>3, <1>4, <1>5

LEMMA PostsIs ==
  ASSUME RowsInv, NEW c \in Callers, NEW kind, Posting(c, kind), NEW cost \in Nat, NEW value \in Nat,
         Post(c, Posted(call[c].doc, cost, value)),
         call[c].doc \in written =>
           cost = doc[call[c].doc].cost /\ value = doc[call[c].doc].value
  PROVE  /\ Posts(c, call[c].doc)
         /\ doc'[call[c].doc].cost = cost /\ doc'[call[c].doc].value = value
<1> DEFINE d == call[c].doc
<1>1. d \in Entered /\ doc \in [Docs -> Document \cup {Blank, Unused}]
  BY PostingCall DEF RowsInv
<1>2. d \in RowsOf(doc)
  BY <1>1, EnteredNow
<1>3. /\ written' = written \cup {d} /\ call' = [call EXCEPT ![c] = Idle]
      /\ doc' = AsPosted(doc, d, cost, value)
  BY DEF Post, Posted, AsPosted
<1> HIDE DEF d
<1>4. /\ doc' \in [Docs -> Document \cup {Blank, Unused}]
      /\ RowsOf(doc') = RowsOf(doc)
      /\ \A x \in Docs \ {d} : doc'[x] = doc[x]
      /\ doc'[d].source = doc[d].source /\ doc'[d].qty = doc[d].qty
      /\ doc'[d].how = doc[d].how
      /\ doc'[d].cost = cost /\ doc'[d].value = value
  <2>1. doc \in [Docs -> Document \cup {Blank, Unused}]
    BY <1>1
  <2> QED BY <1>2, <1>3, <2>1, PostedIs
<1>5. Entered' = RowsOf(doc')
  <2>1. Entered' = {x \in Docs : doc'[x].status \in DocumentStatus}
    BY DEF Entered, Exists
  <2> QED BY <1>4, <2>1, EnteredIs
<1>6. Entered' = Entered
  BY <1>4, <1>5, EnteredNow
<1>7. d \in written => cost = doc[d].cost /\ value = doc[d].value
  BY DEF d
<1>8. Entered \subseteq Docs
  BY DEF Entered
<1>9. Posts(c, d)
  BY <1>1, <1>3, <1>4, <1>6, <1>7, <1>8 DEF Posts, Kept, Books, StatusKept
<1> QED BY <1>4, <1>9 DEF d

LEMMA RowsAfterPosting ==
  ASSUME RowsInv, NEW c, NEW d, Posts(c, d),
         Kind[d] = "SI" => doc'[d].cost = doc[doc[d].source].cost,
         MovesNothing(d) => doc'[d].cost = 0 /\ doc'[d].value = 0
  PROVE  RowsInv'
<1>1. /\ Entered' = Entered /\ written' = written \cup {d} /\ call' = [call EXCEPT ![c] = Idle]
      /\ c \in Callers /\ d \in Entered
      /\ doc' \in [Docs -> Document \cup {Blank, Unused}]
  BY DEF Posts
<1>2. DOMAIN call' = Callers /\ \A k \in Callers : CallFits(k)'
  BY <1>1 DEF RowsInv, CallFits
<1>3. written' \subseteq Entered'
  BY <1>1 DEF RowsInv
<1>4. ASSUME NEW x \in Entered PROVE SourceFits(x)'
  <2>1. doc'[x].source = doc[x].source /\ SourceFits(x)
    BY DEF Posts, Kept, RowsInv
  <2>2. \A k : WrittenOf(k) \subseteq WrittenOf(k)'
    BY <1>1 DEF WrittenOf
  <2> QED BY <1>1, <2>1, <2>2 DEF SourceFits
<1>5. ASSUME NEW x \in Entered PROVE PriceFits(x)'
  <2>1. PriceFits(x) /\ SourceFits(x) /\ Kept(x)
    BY DEF RowsInv, Posts
  <2>2. MovesNothing(x)' <=> MovesNothing(x)
    BY <2>1 DEF MovesNothing, Kept
  <2>3. CASE Kind[x] = "SI"
    <3> DEFINE n == doc[x].source
    <3>1. n \in WrittenOf("DN")
      BY <2>1, <2>3 DEF SourceFits
    <3>2. n \in written /\ n \in Entered /\ Kind[n] = "DN"
      BY <3>1 DEF WrittenOf, Of, RowsInv
    <3>3. Books(n) /\ doc'[x].source = n
      BY <2>1, <3>2 DEF Posts, Kept
    <3>4. ~MovesNothing(x)
      BY <2>3 DEF MovesNothing
    <3> HIDE DEF n
    <3>5. x # d => Books(x) /\ (x \in written' => x \in written)
      BY <1>1 DEF Posts
    <3>6. x = d => x \in written' /\ doc'[x].cost = doc'[n].cost
      BY <1>1, <2>3, <3>3 DEF Books, n
    <3> QED BY <1>1, <2>1, <2>2, <2>3, <3>3, <3>4, <3>5, <3>6 DEF PriceFits, Books, n
  <2>4. CASE Kind[x] # "SI"
    <3>1. x # d => Books(x) /\ (x \in written' <=> x \in written)
      BY <1>1 DEF Posts
    <3>2. x = d => x \in written'
      BY <1>1
    <3> QED BY <2>1, <2>2, <2>4, <3>1, <3>2 DEF PriceFits, Books
  <2> QED BY <2>3, <2>4
<1>6. ASSUME NEW x \in Entered PROVE StatusFits(x)'
  <2>1. CASE x = d
    BY <1>1, <2>1 DEF StatusFits
  <2>2. CASE x # d
    <3>1. StatusFits(x) /\ StatusKept(x)
      BY <2>2 DEF RowsInv, Posts
    <3> QED BY <1>1, <3>1 DEF StatusFits, StatusKept
  <2> QED BY <2>1, <2>2
<1> QED BY <1>1, <1>2, <1>3, <1>4, <1>5, <1>6 DEF RowsInv

\* Sums over posted documents move by the one that is posted.
LEMMA TotalsAfterPosting ==
  ASSUME RowsInv, NEW c, NEW d, Posts(c, d), NEW T, T \subseteq Docs
  PROVE  /\ Values(doc', T \cap written') =
              Values(doc, T \cap written) + (IF d \in T THEN doc'[d].value - doc[d].value ELSE 0)
         /\ Qtys(doc', T \cap written') =
              Qtys(doc, T \cap written) + (IF d \in T \ written THEN doc[d].qty ELSE 0)
         /\ Values(doc, T \cap written) \in Int /\ Qtys(doc, T \cap written) \in Nat
<1> DEFINE S == T \cap written
<1>1. S \subseteq Docs /\ \A x \in S : HasRow(doc, x) /\ x \in Entered
  BY EnteredRow DEF RowsInv
<1>2. \A x \in S : doc'[x].value = doc[x].value /\ doc'[x].qty = doc[x].qty
  BY <1>1 DEF Posts, Books, Kept
<1>3. d \in Entered /\ HasRow(doc, d) /\ doc'[d].qty = doc[d].qty /\ written' = written \cup {d}
  BY EnteredRow DEF Posts, Kept
<1>4. doc[d].qty \in Nat /\ doc[d].value \in Nat /\ d \in Docs
  BY <1>3, RowFields DEF Entered
<1>5. doc'[d].value \in Nat
  <2>1. doc'[d].status \in DocumentStatus /\ doc' \in [Docs -> Document \cup {Blank, Unused}]
    BY <1>3 DEF Posts, Entered, Exists
  <2>2. d \in RowsOf(doc')
    BY <1>4, <2>1, EnteredIs
  <2> QED BY <2>2, RowFields DEF RowsOf
<1>6. IsFiniteSet(S)
  BY <1>1, DocumentsFinite
<1>7. Values(doc, S) \in Int /\ Qtys(doc, S) \in Nat
  <2> DEFINE f == [x \in S |-> doc[x].value]  g == [x \in S |-> doc[x].qty]
  <2>1. \A x \in S : f[x] \in Int /\ g[x] \in Nat
    BY <1>1, RowFields
  <2> HIDE DEF f, g, S
  <2>2. SumFunctionOnSet(f, S) \in Int
    BY <1>6, <2>1, SumType
  <2>3. SumFunctionOnSet(g, S) \in Nat
    BY <1>6, <2>1, SumNat
  <2> QED BY <2>2, <2>3 DEF Values, Qtys, f, g
<1>8. CASE d \in T /\ d \notin written
  <2>1. T \cap written' = S \cup {d} /\ d \in Docs \ S
    BY <1>3, <1>4, <1>8
  <2> HIDE DEF S
  <2>2. Values(doc', S \cup {d}) = Values(doc, S) + doc'[d].value
    <3>1. doc'[d].value \in Int /\ d \in Docs \ S
      BY <1>5, <2>1
    <3>2. S \subseteq Docs /\ \A x \in S : HasRow(doc, x) /\ doc'[x].value = doc[x].value
      BY <1>1, <1>2
    <3>3. ValuesJoin(S, d, doc, doc')
      BY <3>1, <3>2 DEF ValuesJoin
    <3> QED BY <3>3, ValuesGrow
  <2>3. Qtys(doc', S \cup {d}) = Qtys(doc, S) + doc'[d].qty
    <3>1. doc'[d].qty \in Int /\ d \in Docs \ S
      BY <1>3, <1>4, <2>1
    <3>2. S \subseteq Docs /\ \A x \in S : HasRow(doc, x) /\ doc'[x].qty = doc[x].qty
      BY <1>1, <1>2
    <3>3. QtysJoin(S, d, doc, doc')
      BY <3>1, <3>2 DEF QtysJoin
    <3> QED BY <3>3, QtysGrow
  <2>4. doc[d].value = 0
    BY <1>3, <1>8 DEF RowsInv, PriceFits
  <2>5. Values(doc', T \cap written') = Values(doc, S) + (doc'[d].value - doc[d].value)
    <3>1. doc'[d].value - doc[d].value = doc'[d].value
      BY <1>5, <2>4
    <3> QED BY <2>1, <2>2, <3>1
  <2>6. Qtys(doc', T \cap written') = Qtys(doc, S) + doc[d].qty
    BY <1>3, <2>1, <2>3
  <2> QED BY <1>7, <1>8, <2>5, <2>6 DEF S
<1>9. CASE ~(d \in T /\ d \notin written)
  <2>1. T \cap written' = S
    BY <1>3, <1>9
  <2>2. d \in T => doc'[d].value = doc[d].value
    BY <1>9 DEF Posts, Books
  <2> HIDE DEF S
  <2>3. Values(doc', S) = Values(doc, S)
    BY <1>1, <1>2, ValuesStay
  <2>4. Qtys(doc', S) = Qtys(doc, S)
    BY <1>1, <1>2, QtysStay
  <2>5. d \in T => doc'[d].value - doc[d].value = 0
    BY <1>4, <1>5, <2>2
  <2>6. Values(doc', T \cap written') = Values(doc, S) /\ Qtys(doc', T \cap written') = Qtys(doc, S)
    BY <2>1, <2>3, <2>4
  <2> QED BY <1>7, <1>9, <2>5, <2>6 DEF S
<1> QED BY <1>8, <1>9

\* A request that writes no document, or only decides on one.
Rests ==
  /\ doc' \in [Docs -> Document \cup {Blank, Unused}]
  /\ Entered' = Entered
  /\ \A x \in Entered : Kept(x) /\ Books(x)
  /\ \A x \in Entered : doc'[x].status \in {"SUBMITTED", "APPROVED", "REJECTED", doc[x].status}
  /\ written' = written

LEMMA RowsAfterRest ==
  ASSUME RowsInv, Rests, NEW c \in Callers, NEW new, call' = [call EXCEPT ![c] = new],
         new = Idle \/ new \in [step : Steps, doc : Entered, read : Nat]
  PROVE  RowsInv'
<1>1. Entered' = Entered /\ written' = written /\ doc' \in [Docs -> Document \cup {Blank, Unused}]
  BY DEF Rests
<1>2. DOMAIN call' = Callers /\ \A k \in Callers : CallFits(k)'
  BY <1>1 DEF RowsInv, CallFits
<1>3. ASSUME NEW x \in Entered PROVE SourceFits(x)'
  <2>1. doc'[x].source = doc[x].source /\ SourceFits(x)
    BY DEF Rests, Kept, RowsInv
  <2>2. \A k : WrittenOf(k)' = WrittenOf(k)
    BY <1>1 DEF WrittenOf
  <2> QED BY <1>1, <2>1, <2>2 DEF SourceFits
<1>4. ASSUME NEW x \in Entered PROVE PriceFits(x)'
  <2>1. PriceFits(x) /\ SourceFits(x) /\ Kept(x) /\ Books(x)
    BY DEF RowsInv, Rests
  <2>2. MovesNothing(x)' <=> MovesNothing(x)
    BY <2>1 DEF MovesNothing, Kept
  <2>3. Kind[x] = "SI" => doc'[doc[x].source].cost = doc[doc[x].source].cost
    <3>1. CASE Kind[x] = "SI"
      <4>1. doc[x].source \in WrittenOf("DN")
        BY <2>1, <3>1 DEF SourceFits
      <4>2. doc[x].source \in Entered
        BY <4>1 DEF WrittenOf, RowsInv
      <4> QED BY <4>2 DEF Rests, Books
    <3> QED BY <3>1
  <2> QED BY <1>1, <2>1, <2>2, <2>3 DEF PriceFits, Kept, Books
<1>5. ASSUME NEW x \in Entered PROVE StatusFits(x)'
  <2>1. StatusFits(x) /\ doc'[x].status \in {"SUBMITTED", "APPROVED", "REJECTED", doc[x].status}
    BY DEF RowsInv, Rests
  <2> QED BY <1>1, <2>1 DEF StatusFits
<1> QED BY <1>1, <1>2, <1>3, <1>4, <1>5 DEF RowsInv

LEMMA NoRowsMove ==
  ASSUME RowsInv, UNCHANGED <<doc, written>>
  PROVE  Rests
<1>1. Entered' = Entered
  BY DEF Entered, Exists
<1> QED BY <1>1 DEF Rests, RowsInv, Kept, Books

LEMMA LoadIs ==
  ASSUME RowsInv, NEW c \in Callers, NEW step \in Steps, NEW d \in Entered, NEW read \in Nat,
         Load(c, step, d, read)
  PROVE  Rests /\ RowsInv'
<1>1. Rests
  BY NoRowsMove DEF Load
<1>2. call' = [call EXCEPT ![c] = [step |-> step, doc |-> d, read |-> read]]
  BY DEF Load
<1>3. [step |-> step, doc |-> d, read |-> read] \in [step : Steps, doc : Entered, read : Nat]
  OBVIOUS
<1> QED BY <1>1, <1>2, <1>3, RowsAfterRest

LEMMA AbandonIs ==
  ASSUME RowsInv, NEW c \in Callers, Abandon(c)
  PROVE  Rests /\ RowsInv'
<1>1. Rests
  BY NoRowsMove DEF Abandon
<1>2. call' = [call EXCEPT ![c] = Idle]
  BY DEF Abandon
<1> QED BY <1>1, <1>2, RowsAfterRest

LEMMA DecideIs ==
  ASSUME RowsInv, NEW c \in Callers, Decide(c)
  PROVE  Rests /\ RowsInv'
<1> DEFINE d == call[c].doc
           now == Outcome(call[c].step, d)
           new == [doc[d] EXCEPT !.status = now]
<1>1. call[c] # Idle
  BY DEF Decide, Idle
<1>2. d \in Entered
  BY <1>1 DEF RowsInv, CallFits
<1>3. d \in Docs /\ doc[d] \in Document
  BY <1>2, EnteredRow
<1>4. now \in {"SUBMITTED", "APPROVED", "REJECTED"}
  BY DEF Decide, Outcome
<1>5. doc' = [doc EXCEPT ![d].status = now] /\ written' = written /\ call' = [call EXCEPT ![c] = Idle]
  BY DEF Decide
<1> HIDE DEF now, d
<1>6. doc' = [doc EXCEPT ![d] = new]
  BY <1>3, <1>5 DEF RowsInv
<1>7. /\ new \in Document /\ new.source = doc[d].source /\ new.qty = doc[d].qty
      /\ new.how = doc[d].how /\ new.cost = doc[d].cost /\ new.value = doc[d].value
      /\ new.status = now
  BY <1>3, <1>4 DEF Document, DocumentStatus
<1> HIDE DEF new
<1>8. /\ doc' \in [Docs -> Document \cup {Blank, Unused}] /\ doc'[d] = new
      /\ \A x \in Docs \ {d} : doc'[x] = doc[x]
  BY <1>3, <1>6, <1>7 DEF RowsInv
<1>9. Entered' = Entered
  <2>1. Entered' = {x \in Docs : doc'[x].status \in DocumentStatus}
    BY DEF Entered, Exists
  <2>2. RowsOf(doc') = RowsOf(doc)
    BY <1>3, <1>7, <1>8 DEF RowsOf, HasRow
  <2> QED BY <1>8, <2>1, <2>2, EnteredIs, EnteredNow
<1>10. \A x \in Entered : Kept(x) /\ Books(x)
         /\ doc'[x].status \in {"SUBMITTED", "APPROVED", "REJECTED", doc[x].status}
  BY <1>4, <1>7, <1>8 DEF Kept, Books, Entered
<1>11. Rests
  BY <1>5, <1>8, <1>9, <1>10 DEF Rests
<1> QED BY <1>5, <1>11, RowsAfterRest

\* A row is entered.
Enters(d) ==
  /\ d \in Docs \ Entered
  /\ doc' \in [Docs -> Document \cup {Blank, Unused}]
  /\ Entered' = Entered \cup {d}
  /\ \A x \in Entered : doc'[x] = doc[x]
  /\ doc'[d].status = "DRAFT" /\ doc'[d].value = 0
  /\ UNCHANGED <<written, call>>

LEMMA DraftIs ==
  ASSUME RowsInv, NEW d \in Docs, NEW source \in Docs \cup {NoDoc}, NEW q, NEW cost \in Nat,
         NEW how \in Effects, Draft(d, source, q, cost, how)
  PROVE  /\ Enters(d) /\ q \in Quantities
         /\ doc'[d].source = source /\ doc'[d].qty = q /\ doc'[d].how = how
<1> DEFINE new == [status |-> "DRAFT", source |-> source, qty |-> q,
                   cost |-> cost, value |-> 0, how |-> how]
<1>1. q \in Quantities /\ doc[d] = Blank /\ doc' = [doc EXCEPT ![d] = new] /\ UNCHANGED <<written, call>>
  BY DEF Draft
<1>2. new \in Document /\ new.status = "DRAFT" /\ new.source = source /\ new.qty = q
      /\ new.how = how /\ new.value = 0
  BY <1>1 DEF Document, DocumentStatus
<1> HIDE DEF new
<1>3. /\ doc' \in [Docs -> Document \cup {Blank, Unused}] /\ doc'[d] = new
      /\ \A x \in Docs \ {d} : doc'[x] = doc[x]
  BY <1>1, <1>2 DEF RowsInv
<1>4. d \notin Entered
  BY <1>1 DEF Entered, Exists, Blank, DocumentStatus
<1>5. Entered' = Entered \cup {d}
  <2>1. Entered' = {x \in Docs : doc'[x].status \in DocumentStatus}
    BY DEF Entered, Exists
  <2>2. RowsOf(doc') = RowsOf(doc) \cup {d}
    BY <1>2, <1>3 DEF RowsOf, HasRow
  <2> QED BY <1>3, <2>1, <2>2, EnteredIs, EnteredNow
<1> QED BY <1>1, <1>2, <1>3, <1>4, <1>5 DEF Enters, Entered

LEMMA RowsAfterDraft ==
  ASSUME RowsInv, NEW d, Enters(d), SourceFits(d)'
  PROVE  RowsInv'
<1>1. /\ Entered' = Entered \cup {d} /\ written' = written /\ call' = call
      /\ doc' \in [Docs -> Document \cup {Blank, Unused}] /\ d \notin written
  BY DEF Enters, RowsInv
<1>2. DOMAIN call' = Callers /\ \A k \in Callers : CallFits(k)'
  BY <1>1 DEF RowsInv, CallFits
<1>3. written' \subseteq Entered'
  BY <1>1 DEF RowsInv
<1>4. ASSUME NEW x \in Entered PROVE SourceFits(x)' /\ PriceFits(x)' /\ StatusFits(x)'
  <2>1. SourceFits(x) /\ PriceFits(x) /\ StatusFits(x) /\ doc'[x] = doc[x]
    BY DEF RowsInv, Enters
  <2>2. \A k : WrittenOf(k)' = WrittenOf(k)
    BY <1>1 DEF WrittenOf
  <2>3. SourceFits(x)'
    BY <1>1, <2>1, <2>2 DEF SourceFits
  <2>4. StatusFits(x)'
    BY <1>1, <2>1 DEF StatusFits
  <2>5. Kind[x] = "SI" => doc'[doc[x].source] = doc[doc[x].source]
    <3>1. CASE Kind[x] = "SI"
      <4>1. doc[x].source \in WrittenOf("DN")
        BY <2>1, <3>1 DEF SourceFits
      <4>2. doc[x].source \in Entered
        BY <4>1 DEF WrittenOf, RowsInv
      <4> QED BY <4>2 DEF Enters
    <3> QED BY <3>1
  <2>6. MovesNothing(x)' <=> MovesNothing(x)
    BY <2>1 DEF MovesNothing
  <2>7. PriceFits(x)'
    BY <1>1, <2>1, <2>5, <2>6 DEF PriceFits
  <2> QED BY <2>3, <2>4, <2>7
<1>5. PriceFits(d)' /\ StatusFits(d)'
  BY <1>1 DEF PriceFits, StatusFits, Enters
<1> QED BY <1>1, <1>2, <1>3, <1>4, <1>5 DEF RowsInv

-----------------------------------------------------------------------------
(* The sums over posted documents that stock and ledger are compared with. *)

ShippingRows ==
  {d \in Entered : \/ Kind[d] \in {"DN", "ST"}
                   \/ Kind[d] = "PR" /\ doc[d].how # "NO_STOCK_EFFECT"
                   \/ Kind[d] = "SA" /\ doc[d].how = "decrease"}
ReceivingRows ==
  {d \in Entered : Kind[d] \in {"GR", "ST"} \/ (Kind[d] = "SA" /\ doc[d].how = "increase")}
BillsWithout == {d \in Entered : Kind[d] = "PB" /\ doc[d].source = NoDoc}
BillsOfReceipts == {d \in Entered : Kind[d] = "PB" /\ doc[d].source # NoDoc}

Part(d, T, n) == IF d \in T THEN n ELSE 0

BooksInv ==
  /\ StockFits(balance, moved)
  /\ gl \in [Accounts -> Int]
  /\ Shipped(moved) = Qtys(doc, ShippingRows \cap written)
  /\ Received(moved) = OpeningStock + Qtys(doc, ReceivingRows \cap written)
  /\ InLedger(gl) - Net(moved) =
       Values(doc, Of("SR") \cap written) - Values(doc, Of("SI") \cap written)
       + Values(doc, BillsWithout \cap written)
       + Values(doc, Of("PR") \cap written) - Values(doc, Of("DBN") \cap written)
  /\ -gl["GOODS_IN_TRANSIT"] =
       Values(doc, Of("GR") \cap written) - Values(doc, BillsOfReceipts \cap written)

LEMMA SetsOfRows ==
  /\ \A k : Of(k) \subseteq Docs
  /\ ShippingRows \subseteq Docs /\ ReceivingRows \subseteq Docs
  /\ BillsWithout \subseteq Docs /\ BillsOfReceipts \subseteq Docs
BY DEF Of, ShippingRows, ReceivingRows, BillsWithout, BillsOfReceipts, Entered

\* Nothing is posted, and nothing is moved or booked.
LEMMA BooksAfterNothing ==
  ASSUME RowsInv, BooksInv, UNCHANGED <<stockVars, written>>,
         \A x \in Entered : x \in Entered' /\ Kept(x) /\ Books(x)
  PROVE  BooksInv'
<1>1. UNCHANGED <<balance, moved, gl>> /\ written' = written /\ written \subseteq Entered
  BY DEF stockVars, RowsInv
<1>2. ASSUME NEW T, T \subseteq Docs
      PROVE  Values(doc', T \cap written) = Values(doc, T \cap written)
             /\ Qtys(doc', T \cap written) = Qtys(doc, T \cap written)
  <2> DEFINE S == T \cap written
  <2>1. S \subseteq Docs /\ \A x \in S : doc'[x].value = doc[x].value /\ doc'[x].qty = doc[x].qty
    BY <1>1, <1>2 DEF Kept, Books
  <2> HIDE DEF S
  <2>2. Values(doc', S) = Values(doc, S)
    BY <2>1, ValuesStay
  <2>3. Qtys(doc', S) = Qtys(doc, S)
    BY <2>1, QtysStay
  <2> QED BY <2>2, <2>3 DEF S
<1>3. /\ ShippingRows' \cap written = ShippingRows \cap written
      /\ ReceivingRows' \cap written = ReceivingRows \cap written
      /\ BillsWithout' \cap written = BillsWithout \cap written
      /\ BillsOfReceipts' \cap written = BillsOfReceipts \cap written
  BY <1>1 DEF ShippingRows, ReceivingRows, BillsWithout, BillsOfReceipts, Kept
<1>4. \A k : Of(k)' = Of(k)
  BY DEF Of
<1>5. /\ Values(doc', Of("SR") \cap written) = Values(doc, Of("SR") \cap written)
      /\ Values(doc', Of("SI") \cap written) = Values(doc, Of("SI") \cap written)
      /\ Values(doc', Of("PR") \cap written) = Values(doc, Of("PR") \cap written)
      /\ Values(doc', Of("DBN") \cap written) = Values(doc, Of("DBN") \cap written)
      /\ Values(doc', Of("GR") \cap written) = Values(doc, Of("GR") \cap written)
      /\ Values(doc', BillsWithout \cap written) = Values(doc, BillsWithout \cap written)
      /\ Values(doc', BillsOfReceipts \cap written) = Values(doc, BillsOfReceipts \cap written)
      /\ Qtys(doc', ShippingRows \cap written) = Qtys(doc, ShippingRows \cap written)
      /\ Qtys(doc', ReceivingRows \cap written) = Qtys(doc, ReceivingRows \cap written)
  BY <1>2, SetsOfRows
<1> QED BY <1>1, <1>3, <1>4, <1>5 DEF BooksInv

\* A document is posted, and v is what it adds to what was posted of it.
Tells(d, v) ==
  /\ StockFits(balance', moved') /\ gl' \in [Accounts -> Int]
  /\ Shipped(moved') = Shipped(moved) + Part(d, ShippingRows \ written, doc[d].qty)
  /\ Received(moved') = Received(moved) + Part(d, ReceivingRows \ written, doc[d].qty)
  /\ InLedger(gl') - Net(moved') = InLedger(gl) - Net(moved)
       + Part(d, Of("SR"), v) - Part(d, Of("SI"), v) + Part(d, BillsWithout, v)
       + Part(d, Of("PR"), v) - Part(d, Of("DBN"), v)
  /\ -gl'["GOODS_IN_TRANSIT"] = -gl["GOODS_IN_TRANSIT"]
       + Part(d, Of("GR"), v) - Part(d, BillsOfReceipts, v)

LEMMA BooksAfterPosting ==
  ASSUME RowsInv, BooksInv, NEW c, NEW d, Posts(c, d), NEW v, v = doc'[d].value - doc[d].value,
         Tells(d, v)
  PROVE  BooksInv'
<1>1. ASSUME NEW T, T \subseteq Docs
      PROVE  /\ Values(doc', T \cap written') = Values(doc, T \cap written) + Part(d, T, v)
             /\ Qtys(doc', T \cap written') =
                  Qtys(doc, T \cap written) + Part(d, T \ written, doc[d].qty)
             /\ Values(doc, T \cap written) \in Int /\ Qtys(doc, T \cap written) \in Nat
  BY <1>1, TotalsAfterPosting DEF Part
<1>2. /\ ShippingRows' = ShippingRows /\ ReceivingRows' = ReceivingRows
      /\ BillsWithout' = BillsWithout /\ BillsOfReceipts' = BillsOfReceipts
  BY DEF ShippingRows, ReceivingRows, BillsWithout, BillsOfReceipts, Kept, Posts
<1>3. \A k : Of(k)' = Of(k)
  BY DEF Of
<1>4. v \in Int /\ doc[d].qty \in Nat
  <2>1. doc'[d].value \in Nat
    <3>1. d \in Docs /\ doc'[d].status \in DocumentStatus
           /\ doc' \in [Docs -> Document \cup {Blank, Unused}]
      BY DEF Posts, Entered, Exists
    <3>2. d \in RowsOf(doc')
      BY <3>1, EnteredIs
    <3> QED BY <3>2, RowFields DEF RowsOf
  <2>2. doc[d].value \in Nat /\ doc[d].qty \in Nat
    BY EnteredRow, RowFields DEF Posts
  <2> QED BY <2>1, <2>2
<1>5. Shipped(moved') = Qtys(doc', ShippingRows \cap written')
  BY <1>1, SetsOfRows DEF BooksInv, Tells
<1>6. Received(moved') = OpeningStock + Qtys(doc', ReceivingRows \cap written')
  <2>1. /\ Qtys(doc', ReceivingRows \cap written') =
             Qtys(doc, ReceivingRows \cap written) + Part(d, ReceivingRows \ written, doc[d].qty)
        /\ Qtys(doc, ReceivingRows \cap written) \in Nat
    BY <1>1, SetsOfRows
  <2>2. Part(d, ReceivingRows \ written, doc[d].qty) \in Nat /\ OpeningStock \in Nat
    BY <1>4, StockAssumption DEF Part
  <2> QED BY <2>1, <2>2 DEF BooksInv, Tells
<1>7. InLedger(gl') - Net(moved') =
        Values(doc', Of("SR") \cap written') - Values(doc', Of("SI") \cap written')
        + Values(doc', BillsWithout \cap written')
        + Values(doc', Of("PR") \cap written') - Values(doc', Of("DBN") \cap written')
  <2> DEFINE A(T) == Values(doc, T \cap written)  B(T) == Values(doc', T \cap written')
             P(T) == Part(d, T, v)
  <2>1. \A T \in {Of("SR"), Of("SI"), BillsWithout, Of("PR"), Of("DBN")} :
          B(T) = A(T) + P(T) /\ A(T) \in Int
    BY <1>1, SetsOfRows
  <2>2. \A T : P(T) \in Int
    BY <1>4 DEF Part
  <2>3. InLedger(gl') - Net(moved') =
          (A(Of("SR")) - A(Of("SI")) + A(BillsWithout) + A(Of("PR")) - A(Of("DBN")))
          + P(Of("SR")) - P(Of("SI")) + P(BillsWithout) + P(Of("PR")) - P(Of("DBN"))
    BY DEF BooksInv, Tells
  <2> HIDE DEF A, B, P
  <2>4. InLedger(gl') - Net(moved') =
          B(Of("SR")) - B(Of("SI")) + B(BillsWithout) + B(Of("PR")) - B(Of("DBN"))
    BY <2>1, <2>2, <2>3
  <2> QED BY <2>4 DEF B
<1>8. -gl'["GOODS_IN_TRANSIT"] =
        Values(doc', Of("GR") \cap written') - Values(doc', BillsOfReceipts \cap written')
  <2> DEFINE A(T) == Values(doc, T \cap written)  B(T) == Values(doc', T \cap written')
             P(T) == Part(d, T, v)
  <2>1. \A T \in {Of("GR"), BillsOfReceipts} : B(T) = A(T) + P(T) /\ A(T) \in Int
    BY <1>1, SetsOfRows
  <2>2. \A T : P(T) \in Int
    BY <1>4 DEF Part
  <2>3. -gl'["GOODS_IN_TRANSIT"] = (A(Of("GR")) - A(BillsOfReceipts))
                                   + P(Of("GR")) - P(BillsOfReceipts)
    BY DEF BooksInv, Tells
  <2> HIDE DEF A, B, P
  <2>4. -gl'["GOODS_IN_TRANSIT"] = B(Of("GR")) - B(BillsOfReceipts)
    BY <2>1, <2>2, <2>3
  <2> QED BY <2>4 DEF B
<1> QED BY <1>2, <1>3, <1>5, <1>6, <1>7, <1>8 DEF BooksInv, Tells

-----------------------------------------------------------------------------
(* What each posting does to rows, stock and ledger.                       *)

LEMMA AccountsAre ==
  /\ "INVENTORY" \in InventoryAccounts
  /\ \A w \in Warehouses : Account[w] \in InventoryAccounts
  /\ \A a \in InventoryAccounts : a \in Accounts /\ a \notin OtherAccounts
  /\ \A a \in OtherAccounts : a \in Accounts /\ a \notin InventoryAccounts
BY AccountAssumption DEF InventoryAccounts, Accounts

LEMMA EntryIs ==
  ASSUME gl \in [Accounts -> Int], NEW debit, debit \in Accounts, NEW credit, credit \in Accounts,
         NEW n, n \in Int, gl' = Booked(debit, credit, n)
  PROVE  /\ gl' \in [Accounts -> Int]
         /\ InLedger(gl') = InLedger(gl) + Share(debit, n) - Share(credit, n)
         /\ InLedger(gl) \in Int
         /\ \A a \in Accounts :
              gl'[a] = gl[a] + (IF a = debit THEN n ELSE 0) - (IF a = credit THEN n ELSE 0)
<1>1. gl' = AfterEntry(gl, debit, credit, n)
  BY DEF Booked, AfterEntry
<1>2. \A a \in Accounts :
        gl'[a] = gl[a] + (IF a = debit THEN n ELSE 0) - (IF a = credit THEN n ELSE 0)
  BY DEF Booked
<1>3. /\ AfterEntry(gl, debit, credit, n) \in [Accounts -> Int]
      /\ InLedger(AfterEntry(gl, debit, credit, n)) =
           InLedger(gl) + Share(debit, n) - Share(credit, n)
      /\ InLedger(gl) \in Int
  BY BookedIs
<1> QED BY <1>1, <1>2, <1>3

\* The accrual is not what most entries are about.
LEMMA EntryElsewhere ==
  ASSUME gl \in [Accounts -> Int], NEW debit, debit \in Accounts \ {"GOODS_IN_TRANSIT"},
         NEW credit, credit \in Accounts \ {"GOODS_IN_TRANSIT"}, NEW n, n \in Int,
         gl' = Booked(debit, credit, n)
  PROVE  gl'["GOODS_IN_TRANSIT"] = gl["GOODS_IN_TRANSIT"]
<1>1. "GOODS_IN_TRANSIT" \in Accounts
  BY AccountsAre DEF OtherAccounts
<1>2. gl["GOODS_IN_TRANSIT"] \in Int
  BY <1>1
<1> QED BY <1>1, <1>2, EntryIs

LEMMA LeavesMain ==
  ASSUME BooksInv, NEW q \in Nat \ {0}, MoveOut(Main, q)
  PROVE  /\ balance[Main].avg \in Nat
         /\ StockFits(balance', moved')
         /\ Net(moved') = Net(moved) - MoneyOf(q, balance[Main].avg)
         /\ Shipped(moved') = Shipped(moved) + q /\ Received(moved') = Received(moved)
         /\ Net(moved) \in Int /\ Shipped(moved) \in Int /\ Received(moved) \in Int
<1>1. Main \in Warehouses /\ StockFits(balance, moved)
  BY StockAssumption DEF BooksInv
<1>2. /\ Main \in Negative \/ balance[Main].qty >= q
      /\ balance' = [balance EXCEPT ![Main] = Out(balance[Main], q)]
      /\ moved' = [moved EXCEPT ![Main] = AddOut(moved[Main], q, balance[Main].avg)]
  BY DEF MoveOut, Available
<1>3. balance[Main] \in Balance /\ moved \in [Warehouses -> Movements]
  BY <1>1 DEF StockFits
<1>4. balance[Main].avg \in Nat
  BY <1>3 DEF Balance
<1>5. Net(moved) \in Int /\ Shipped(moved) \in Int /\ Received(moved) \in Int
  BY <1>3, TotalsAreIntegers
<1>6. /\ StockFits(balance', moved')
      /\ Net(moved') = Net(moved) - MoneyOf(q, balance[Main].avg)
      /\ Shipped(moved') = Shipped(moved) + q /\ Received(moved') = Received(moved)
  <2>1. TakesOut(balance, moved, Main, q, balance', moved')
    BY <1>1, <1>2 DEF TakesOut
  <2> QED BY <2>1, GoesOut
<1> QED BY <1>4, <1>5, <1>6

LEMMA EntersMain ==
  ASSUME BooksInv, NEW q \in Nat \ {0}, NEW cost \in Nat, MoveIn(Main, q, cost)
  PROVE  /\ StockFits(balance', moved')
         /\ Net(moved') = Net(moved) + MoneyOf(q, cost)
         /\ Shipped(moved') = Shipped(moved) /\ Received(moved') = Received(moved) + q
         /\ Net(moved) \in Int /\ Shipped(moved) \in Int /\ Received(moved) \in Int
<1>1. Main \in Warehouses /\ StockFits(balance, moved)
  BY StockAssumption DEF BooksInv
<1>2. /\ CostIsValid(In(balance[Main], q, cost))
      /\ balance' = [balance EXCEPT ![Main] = In(balance[Main], q, cost)]
      /\ moved' = [moved EXCEPT ![Main] = AddIn(moved[Main], q, cost)]
  BY DEF MoveIn
<1>3. moved \in [Warehouses -> Movements]
  BY <1>1 DEF StockFits
<1>4. Net(moved) \in Int /\ Shipped(moved) \in Int /\ Received(moved) \in Int
  BY <1>3, TotalsAreIntegers
<1>5. /\ StockFits(balance', moved')
      /\ Net(moved') = Net(moved) + MoneyOf(q, cost)
      /\ Shipped(moved') = Shipped(moved) /\ Received(moved') = Received(moved) + q
  <2>1. TakesIn(balance, moved, Main, q, cost, balance', moved')
    BY <1>1, <1>2 DEF TakesIn
  <2> QED BY <2>1, ComesIn
<1> QED BY <1>4, <1>5

LEMMA RowOfCall ==
  ASSUME RowsInv, NEW c \in Callers, NEW kind, Posting(c, kind), NEW d, d = call[c].doc
  PROVE  /\ d \in Entered /\ Kind[d] = kind /\ call[c].read \in Nat
         /\ d \in Docs /\ doc[d] \in Document
         /\ doc[d].qty \in Nat \ {0} /\ doc[d].cost \in Nat /\ doc[d].value \in Nat
         /\ SourceFits(d) /\ PriceFits(d)
<1>1. d \in Entered /\ Kind[d] = kind /\ call[c].read \in Nat
  BY PostingCall
<1>2. d \in Docs /\ doc[d] \in Document /\ HasRow(doc, d)
  BY <1>1, EnteredRow
<1>3. doc[d].qty \in Nat \ {0} /\ doc[d].cost \in Nat /\ doc[d].value \in Nat
  BY <1>2, RowFields
<1> QED BY <1>1, <1>2, <1>3 DEF RowsInv

LEMMA DeliveryPosted ==
  ASSUME RowsInv, BooksInv, NEW c \in Callers, PostDelivery(c)
  PROVE  Posts(c, call[c].doc) /\ RowsInv' /\ BooksInv'
<1> DEFINE d == call[c].doc  order == doc[d].source  q == doc[d].qty  cost == balance[Main].avg
           m == MoneyOf(q, cost)  rows == AsPosted(doc, d, cost, m)
           state == Fulfilment(rows[order].status, doc[order].qty, call[c].read + q)
           v == doc'[d].value - doc[d].value
<1>1. Posting(c, "DN") /\ d \notin written /\ MoveOut(Main, q)
      /\ gl' = Booked("COGS", "INVENTORY", m)
  BY DEF PostDelivery, KeysAreFree
<1>2. /\ doc' = [rows EXCEPT ![order].status = state]
      /\ written' = written \cup {d} /\ call' = [call EXCEPT ![c] = Idle]
  BY DEF PostDelivery, Post, Posted, AsPosted
<1>3. /\ d \in Entered /\ Kind[d] = "DN" /\ d \in Docs /\ q \in Nat \ {0}
      /\ order \in Of("SO") /\ order \in Entered
  <2>1. d \in Entered /\ Kind[d] = "DN" /\ d \in Docs /\ q \in Nat \ {0} /\ SourceFits(d)
    BY <1>1, RowOfCall
  <2> QED BY <2>1 DEF SourceFits
<1> HIDE DEF d
<1>4. /\ cost \in Nat /\ StockFits(balance', moved') /\ Net(moved') = Net(moved) - m
      /\ Shipped(moved') = Shipped(moved) + q /\ Received(moved') = Received(moved)
      /\ Net(moved) \in Int /\ Received(moved) \in Int
  BY <1>1, <1>3, LeavesMain
<1>5. m \in Nat
  BY <1>3, <1>4, MoneyIs
<1> HIDE DEF cost, m
<1>6. /\ rows \in [Docs -> Document \cup {Blank, Unused}] /\ RowsOf(rows) = RowsOf(doc)
      /\ \A x \in Docs \ {d} : rows[x] = doc[x]
      /\ rows[d].source = doc[d].source /\ rows[d].qty = doc[d].qty
      /\ rows[d].how = doc[d].how /\ rows[d].cost = cost /\ rows[d].value = m
  <2>1. doc \in [Docs -> Document \cup {Blank, Unused}]
    BY DEF RowsInv
  <2>2. d \in RowsOf(doc)
    BY <1>3, EnteredNow
  <2>3. cost \in Nat
    BY <1>4
  <2>4. rows = AsPosted(doc, d, cost, m)
    OBVIOUS
  <2> HIDE DEF rows
  <2> QED BY ONLY <1>5, <2>1, <2>2, <2>3, <2>4, PostedIs
<1>7. order # d /\ order \in Docs /\ doc[order] \in Document /\ rows[order] = doc[order]
  <2>1. Kind[order] = "SO"
    BY <1>3 DEF Of
  <2>2. order \in Docs /\ doc[order] \in Document
    BY <1>3, EnteredRow
  <2>3. order # d
    BY <1>3, <2>1
  <2> QED BY <1>6, <2>2, <2>3
<1>8. state \in DocumentStatus
  BY <1>7 DEF Fulfilment, DocumentStatus, Document
<1> HIDE DEF state, rows
<1>9. /\ doc' \in [Docs -> Document \cup {Blank, Unused}]
      /\ \A x \in Docs \ {order} : doc'[x] = rows[x]
      /\ doc'[order] \in Document /\ Kept(order) /\ Books(order)
  <2> DEFINE new == [doc[order] EXCEPT !.status = state]
  <2>1. new \in Document /\ new.source = doc[order].source /\ new.qty = doc[order].qty
        /\ new.how = doc[order].how /\ new.cost = doc[order].cost /\ new.value = doc[order].value
    BY <1>7, <1>8 DEF Document
  <2>2. doc' = [rows EXCEPT ![order] = new]
    BY <1>2, <1>6, <1>7
  <2> HIDE DEF new, order
  <2>3. doc'[order] = new /\ \A x \in Docs \ {order} : doc'[x] = rows[x]
    BY <1>6, <1>7, <2>2
  <2>4. doc' \in [Docs -> Document \cup {Blank, Unused}]
    BY <1>6, <1>7, <2>1, <2>2
  <2> QED BY <2>1, <2>3, <2>4 DEF Kept, Books
<1> HIDE DEF order, q
<1>10. Entered' = Entered
  <2>1. Entered' = {x \in Docs : doc'[x].status \in DocumentStatus}
    BY DEF Entered, Exists
  <2>2. RowsOf(doc') = RowsOf(rows)
    BY <1>6, <1>7, <1>9 DEF RowsOf, HasRow
  <2> QED BY <1>6, <1>9, <2>1, <2>2, EnteredIs, EnteredNow
<1>11. doc'[d] = rows[d] /\ Kind[order] = "SO"
  BY <1>3, <1>7, <1>9 DEF Of
<1>12. Posts(c, d)
  <2>1. \A x \in Entered : Kept(x)
    BY <1>6, <1>9, <1>11 DEF Kept, Entered
  <2>2. \A x \in Entered \ {d} : Books(x) /\ StatusKept(x)
    BY <1>6, <1>9, <1>11 DEF Books, StatusKept, Entered
  <2> QED BY <1>1, <1>2, <1>3, <1>9, <1>10, <2>1, <2>2 DEF Posts
<1>13. RowsInv'
  BY <1>3, <1>12, RowsAfterPosting DEF MovesNothing
<1>14. BooksInv'
  <2>1. gl \in [Accounts -> Int] /\ "COGS" \in OtherAccounts
    BY DEF BooksInv, OtherAccounts
  <2>2. "COGS" \in Accounts /\ "COGS" \notin InventoryAccounts
        /\ "INVENTORY" \in Accounts /\ "INVENTORY" \in InventoryAccounts
    BY <2>1, AccountsAre
  <2>3. /\ gl' \in [Accounts -> Int]
        /\ InLedger(gl') = InLedger(gl) + Share("COGS", m) - Share("INVENTORY", m)
        /\ InLedger(gl) \in Int
    BY <1>1, <1>5, <2>1, <2>2, EntryIs
  <2>4. gl'["GOODS_IN_TRANSIT"] = gl["GOODS_IN_TRANSIT"]
    BY <1>1, <1>5, <2>1, <2>2, EntryElsewhere
  <2>5. /\ d \in ShippingRows \ written /\ d \notin ReceivingRows
        /\ d \notin Of("SR") /\ d \notin Of("SI") /\ d \notin Of("PR") /\ d \notin Of("DBN")
        /\ d \notin Of("GR") /\ d \notin BillsWithout /\ d \notin BillsOfReceipts
    BY <1>1, <1>3 DEF ShippingRows, ReceivingRows, Of, BillsWithout, BillsOfReceipts
  <2>6. gl["GOODS_IN_TRANSIT"] \in Int
    BY <2>1, AccountsAre DEF OtherAccounts
  <2>7. InLedger(gl') = InLedger(gl) - m
    BY <1>5, <2>2, <2>3 DEF Share
  <2>8. Tells(d, v)
    <3> HIDE DEF v
    <3> QED BY <1>4, <1>5, <2>3, <2>4, <2>5, <2>6, <2>7 DEF Tells, Part, q
  <2> HIDE DEF v
  <2> QED BY <1>12, <2>8, BooksAfterPosting DEF v
<1> QED BY <1>12, <1>13, <1>14 DEF d

LEMMA InvoicePosted ==
  ASSUME RowsInv, BooksInv, NEW c \in Callers, PostInvoice(c)
  PROVE  Posts(c, call[c].doc) /\ RowsInv' /\ BooksInv'
<1> DEFINE d == call[c].doc  note == doc[d].source  cost == doc[note].cost
           cogs == CostBooked(d, cost)  value == doc[d].value + cogs
           v == doc'[d].value - doc[d].value
<1>1. /\ Posting(c, "SI") /\ gl' = Booked("COGS", "INVENTORY", cogs)
      /\ Post(c, Posted(d, cost, value)) /\ UNCHANGED <<balance, moved>>
  BY DEF PostInvoice
<1>2. /\ d \in Entered /\ Kind[d] = "SI" /\ d \in Docs /\ doc[d].qty \in Nat \ {0}
      /\ doc[d].value \in Nat /\ PriceFits(d) /\ SourceFits(d)
  BY <1>1, RowOfCall
<1>3. note \in Entered /\ cost \in Nat
  <2>1. note \in WrittenOf("DN")
    BY <1>2 DEF SourceFits
  <2>2. note \in Entered
    BY <2>1 DEF WrittenOf, RowsInv
  <2> QED BY <2>2, EnteredRow, RowFields
<1>4. cogs \in Nat /\ (d \in written => cogs = 0)
  BY <1>2, <1>3, MoneyIs DEF CostBooked, KeysAreFree
<1>5. value \in Nat /\ (d \in written => cost = doc[d].cost /\ value = doc[d].value)
  BY <1>2, <1>4 DEF PriceFits
<1> HIDE DEF cost, cogs, value
<1>6. Posts(c, d) /\ doc'[d].cost = cost /\ doc'[d].value = value
  BY <1>1, <1>3, <1>5, PostsIs
<1>7. v = cogs
  BY <1>2, <1>4, <1>6 DEF value
<1>8. RowsInv'
  BY <1>2, <1>6, RowsAfterPosting DEF MovesNothing, cost
<1> HIDE DEF d
<1>9. Tells(d, cogs)
  <2>1. gl \in [Accounts -> Int] /\ "COGS" \in OtherAccounts /\ StockFits(balance, moved)
    BY DEF BooksInv, OtherAccounts
  <2>2. "COGS" \in Accounts /\ "COGS" \notin InventoryAccounts
        /\ "INVENTORY" \in Accounts /\ "INVENTORY" \in InventoryAccounts
    BY <2>1, AccountsAre
  <2>3. /\ gl' \in [Accounts -> Int]
        /\ InLedger(gl') = InLedger(gl) + Share("COGS", cogs) - Share("INVENTORY", cogs)
        /\ InLedger(gl) \in Int
    BY <1>1, <1>4, <2>1, <2>2, EntryIs
  <2>4. gl'["GOODS_IN_TRANSIT"] = gl["GOODS_IN_TRANSIT"]
    BY <1>1, <1>4, <2>1, <2>2, EntryElsewhere
  <2>5. /\ d \notin ShippingRows /\ d \notin ReceivingRows
        /\ d \notin Of("SR") /\ d \in Of("SI") /\ d \notin Of("PR") /\ d \notin Of("DBN")
        /\ d \notin Of("GR") /\ d \notin BillsWithout /\ d \notin BillsOfReceipts
    BY <1>2 DEF ShippingRows, ReceivingRows, Of, BillsWithout, BillsOfReceipts
  <2>6. gl["GOODS_IN_TRANSIT"] \in Int
    BY <2>1, AccountsAre DEF OtherAccounts
  <2>7. InLedger(gl') = InLedger(gl) - cogs
    BY <1>4, <2>2, <2>3 DEF Share
  <2>8. Net(moved) \in Int /\ Shipped(moved) \in Int /\ Received(moved) \in Int
    BY <2>1, TotalsAreIntegers DEF StockFits
  <2> QED BY <1>1, <1>4, <2>1, <2>3, <2>4, <2>5, <2>6, <2>7, <2>8 DEF Tells, Part
<1>10. BooksInv'
  BY <1>6, <1>7, <1>9, BooksAfterPosting
<1> QED BY <1>6, <1>8, <1>10 DEF d

LEMMA ReturnPosted ==
  ASSUME RowsInv, BooksInv, NEW c \in Callers, PostReturn(c)
  PROVE  Posts(c, call[c].doc) /\ RowsInv' /\ BooksInv'
<1> DEFINE d == call[c].doc  cost == doc[d].cost
           cogs == IF doc[d].how = "RESTOCK" THEN CostBooked(d, cost) ELSE 0
           value == doc[d].value + cogs
           v == doc'[d].value - doc[d].value
<1>1. /\ Posting(c, "SR") /\ gl' = Booked("INVENTORY", "COGS", cogs)
      /\ Post(c, Posted(d, cost, value)) /\ UNCHANGED <<balance, moved>>
  BY DEF PostReturn, salesVars
<1>2. /\ d \in Entered /\ Kind[d] = "SR" /\ d \in Docs /\ doc[d].qty \in Nat \ {0}
      /\ doc[d].value \in Nat /\ cost \in Nat
  BY <1>1, RowOfCall
<1>3. cogs \in Nat /\ (d \in written => cogs = 0)
  BY <1>2, MoneyIs DEF CostBooked, KeysAreFree
<1>4. value \in Nat /\ (d \in written => cost = doc[d].cost /\ value = doc[d].value)
  BY <1>2, <1>3
<1> HIDE DEF cost, cogs, value
<1>5. Posts(c, d) /\ doc'[d].cost = cost /\ doc'[d].value = value
  BY <1>1, <1>2, <1>4, PostsIs
<1>6. v = cogs
  BY <1>2, <1>3, <1>5 DEF value
<1>7. RowsInv'
  BY <1>2, <1>5, RowsAfterPosting DEF MovesNothing
<1> HIDE DEF d
<1>8. Tells(d, cogs)
  <2>1. gl \in [Accounts -> Int] /\ "COGS" \in OtherAccounts /\ StockFits(balance, moved)
    BY DEF BooksInv, OtherAccounts
  <2>2. "COGS" \in Accounts /\ "COGS" \notin InventoryAccounts
        /\ "INVENTORY" \in Accounts /\ "INVENTORY" \in InventoryAccounts
    BY <2>1, AccountsAre
  <2>3. /\ gl' \in [Accounts -> Int]
        /\ InLedger(gl') = InLedger(gl) + Share("INVENTORY", cogs) - Share("COGS", cogs)
        /\ InLedger(gl) \in Int
    BY <1>1, <1>3, <2>1, <2>2, EntryIs
  <2>4. gl'["GOODS_IN_TRANSIT"] = gl["GOODS_IN_TRANSIT"]
    BY <1>1, <1>3, <2>1, <2>2, EntryElsewhere
  <2>5. /\ d \notin ShippingRows /\ d \notin ReceivingRows
        /\ d \in Of("SR") /\ d \notin Of("SI") /\ d \notin Of("PR") /\ d \notin Of("DBN")
        /\ d \notin Of("GR") /\ d \notin BillsWithout /\ d \notin BillsOfReceipts
    BY <1>2 DEF ShippingRows, ReceivingRows, Of, BillsWithout, BillsOfReceipts
  <2>6. gl["GOODS_IN_TRANSIT"] \in Int
    BY <2>1, AccountsAre DEF OtherAccounts
  <2>7. InLedger(gl') = InLedger(gl) + cogs
    BY <1>3, <2>2, <2>3 DEF Share
  <2>8. Net(moved) \in Int /\ Shipped(moved) \in Int /\ Received(moved) \in Int
    BY <2>1, TotalsAreIntegers DEF StockFits
  <2> QED BY <1>1, <1>3, <2>1, <2>3, <2>4, <2>5, <2>6, <2>7, <2>8 DEF Tells, Part
<1>9. BooksInv'
  BY <1>5, <1>6, <1>8, BooksAfterPosting
<1> QED BY <1>5, <1>7, <1>9 DEF d

\* Nothing is booked and nothing moves.
LEMMA TellsNothing ==
  ASSUME BooksInv, UNCHANGED <<balance, moved, gl>>, NEW d, NEW v,
         d \in ShippingRows => d \in written, d \in ReceivingRows => d \in written,
         v = 0 \/ d \in Of("CN")
  PROVE  Tells(d, v)
<1>1. gl \in [Accounts -> Int] /\ StockFits(balance, moved)
  BY DEF BooksInv
<1>2. "GOODS_IN_TRANSIT" \in Accounts /\ "INVENTORY" \in Accounts
  BY AccountsAre DEF OtherAccounts
<1>3. Net(moved) \in Int /\ Shipped(moved) \in Int /\ Received(moved) \in Int
  BY <1>1, TotalsAreIntegers DEF StockFits
<1>4. InLedger(gl) \in Int
  BY <1>1, <1>2, OneAccount
<1>5. gl["GOODS_IN_TRANSIT"] \in Int
  BY <1>1, <1>2
<1>6. \A T \in {Of("SR"), Of("SI"), BillsWithout, Of("PR"), Of("DBN"), Of("GR"), BillsOfReceipts} :
        Part(d, T, v) = 0
  BY DEF Part, Of, BillsWithout, BillsOfReceipts
<1>7. Part(d, ShippingRows \ written, doc[d].qty) = 0 /\ Part(d, ReceivingRows \ written, doc[d].qty) = 0
  BY DEF Part
<1> QED BY <1>1, <1>3, <1>4, <1>5, <1>6, <1>7 DEF Tells

LEMMA CreditPosted ==
  ASSUME RowsInv, BooksInv, NEW c \in Callers, PostCredit(c)
  PROVE  Posts(c, call[c].doc) /\ RowsInv' /\ BooksInv'
<1> DEFINE d == call[c].doc  v == doc'[d].value - doc[d].value
<1>1. Posting(c, "CN") /\ Post(c, Posted(d, 0, 0)) /\ UNCHANGED <<balance, moved, gl>>
  BY DEF PostCredit, stockVars
<1>2. /\ d \in Entered /\ Kind[d] = "CN" /\ d \in Docs /\ PriceFits(d)
  BY <1>1, RowOfCall
<1>3. d \in written => 0 = doc[d].cost /\ 0 = doc[d].value
  BY <1>2 DEF PriceFits, MovesNothing
<1>4. Posts(c, d) /\ doc'[d].cost = 0 /\ doc'[d].value = 0
  BY <1>1, <1>3, PostsIs
<1>5. RowsInv'
  BY <1>2, <1>4, RowsAfterPosting
<1> HIDE DEF d
<1>6. d \in Of("CN") /\ d \notin ShippingRows /\ d \notin ReceivingRows
  BY <1>2 DEF Of, ShippingRows, ReceivingRows
<1>7. Tells(d, v)
  BY <1>1, <1>6, TellsNothing
<1> HIDE DEF v
<1>8. BooksInv'
  BY <1>4, <1>7, BooksAfterPosting DEF v
<1> QED BY <1>4, <1>5, <1>8 DEF d

LEMMA ReceiptPosted ==
  ASSUME RowsInv, BooksInv, NEW c \in Callers, PostReceipt(c)
  PROVE  Posts(c, call[c].doc) /\ RowsInv' /\ BooksInv'
<1> DEFINE d == call[c].doc  q == doc[d].qty  cost == doc[d].cost  m == MoneyOf(q, cost)
           v == doc'[d].value - doc[d].value
<1>1. /\ Posting(c, "GR") /\ d \notin written /\ MoveIn(Main, q, cost)
      /\ gl' = Booked("INVENTORY", "GOODS_IN_TRANSIT", m) /\ Post(c, Posted(d, cost, m))
  BY DEF PostReceipt, KeysAreFree
<1>2. /\ d \in Entered /\ Kind[d] = "GR" /\ d \in Docs /\ q \in Nat \ {0} /\ cost \in Nat
      /\ PriceFits(d)
  BY <1>1, RowOfCall
<1>3. m \in Nat /\ doc[d].value = 0
  BY <1>1, <1>2, MoneyIs DEF PriceFits
<1>4. /\ StockFits(balance', moved') /\ Net(moved') = Net(moved) + m
      /\ Shipped(moved') = Shipped(moved) /\ Received(moved') = Received(moved) + q
      /\ Net(moved) \in Int /\ Shipped(moved) \in Int /\ Received(moved) \in Int
  BY <1>1, <1>2, EntersMain
<1> HIDE DEF m, cost
<1>5. Posts(c, d) /\ doc'[d].cost = cost /\ doc'[d].value = m
  BY <1>1, <1>2, <1>3, PostsIs
<1>6. v = m
  BY <1>3, <1>5
<1>7. RowsInv'
  BY <1>2, <1>5, RowsAfterPosting DEF MovesNothing
<1> HIDE DEF d
<1>8. Tells(d, m)
  <2>1. gl \in [Accounts -> Int] /\ "GOODS_IN_TRANSIT" \in OtherAccounts
    BY DEF BooksInv, OtherAccounts
  <2>2. "GOODS_IN_TRANSIT" \in Accounts /\ "GOODS_IN_TRANSIT" \notin InventoryAccounts
        /\ "INVENTORY" \in Accounts /\ "INVENTORY" \in InventoryAccounts
    BY <2>1, AccountsAre
  <2>3. /\ gl' \in [Accounts -> Int]
        /\ InLedger(gl') = InLedger(gl) + Share("INVENTORY", m) - Share("GOODS_IN_TRANSIT", m)
        /\ InLedger(gl) \in Int
    BY <1>1, <1>3, <2>1, <2>2, EntryIs
  <2>4. gl["GOODS_IN_TRANSIT"] \in Int
    BY <2>1, <2>2
  <2>5. -gl'["GOODS_IN_TRANSIT"] = -gl["GOODS_IN_TRANSIT"] + m
    BY <1>1, <1>3, <2>2, <2>4 DEF Booked
  <2>6. /\ d \notin ShippingRows /\ d \in ReceivingRows \ written
        /\ d \notin Of("SR") /\ d \notin Of("SI") /\ d \notin Of("PR") /\ d \notin Of("DBN")
        /\ d \in Of("GR") /\ d \notin BillsWithout /\ d \notin BillsOfReceipts
    BY <1>1, <1>2 DEF ShippingRows, ReceivingRows, Of, BillsWithout, BillsOfReceipts
  <2>7. InLedger(gl') = InLedger(gl) + m
    BY <1>3, <2>2, <2>3 DEF Share
  <2> QED BY <1>3, <1>4, <2>3, <2>4, <2>5, <2>6, <2>7 DEF Tells, Part
<1>9. BooksInv'
  BY <1>5, <1>6, <1>8, BooksAfterPosting
<1> QED BY <1>5, <1>7, <1>9 DEF d

LEMMA BillPosted ==
  ASSUME RowsInv, BooksInv, NEW c \in Callers, PostBill(c)
  PROVE  Posts(c, call[c].doc) /\ RowsInv' /\ BooksInv'
<1> DEFINE d == call[c].doc  cost == doc[d].cost  m == MoneyOf(doc[d].qty, cost)
           account == BillAccount(doc[d].source)  v == doc'[d].value - doc[d].value
<1>1. /\ Posting(c, "PB") /\ d \notin written /\ Post(c, Posted(d, cost, m))
      /\ gl' = Booked(account, "ACCOUNTS_PAYABLE", m) /\ UNCHANGED <<balance, moved>>
  BY DEF PostBill, KeysAreFree
<1>2. /\ d \in Entered /\ Kind[d] = "PB" /\ d \in Docs /\ doc[d].qty \in Nat \ {0}
      /\ cost \in Nat /\ PriceFits(d)
  BY <1>1, RowOfCall
<1>3. m \in Nat /\ doc[d].value = 0
  BY <1>1, <1>2, MoneyIs DEF PriceFits
<1>4. /\ doc[d].source = NoDoc => account = "INVENTORY"
      /\ doc[d].source # NoDoc => account = "GOODS_IN_TRANSIT"
  BY DEF BillAccount
<1> HIDE DEF m, cost, account
<1>5. Posts(c, d) /\ doc'[d].cost = cost /\ doc'[d].value = m
  BY <1>1, <1>2, <1>3, PostsIs
<1>6. v = m
  BY <1>3, <1>5
<1>7. RowsInv'
  BY <1>2, <1>5, RowsAfterPosting DEF MovesNothing
<1> HIDE DEF d
<1>8. Tells(d, m)
  <2>1. gl \in [Accounts -> Int] /\ StockFits(balance, moved)
        /\ "GOODS_IN_TRANSIT" \in OtherAccounts /\ "ACCOUNTS_PAYABLE" \in OtherAccounts
    BY DEF BooksInv, OtherAccounts
  <2>2. "GOODS_IN_TRANSIT" \in Accounts /\ "GOODS_IN_TRANSIT" \notin InventoryAccounts
        /\ "ACCOUNTS_PAYABLE" \in Accounts /\ "ACCOUNTS_PAYABLE" \notin InventoryAccounts
        /\ "INVENTORY" \in Accounts /\ "INVENTORY" \in InventoryAccounts
    BY <2>1, AccountsAre
  <2>3. account \in Accounts
    BY <1>4, <2>2
  <2>4. /\ gl' \in [Accounts -> Int]
        /\ InLedger(gl') = InLedger(gl) + Share(account, m) - Share("ACCOUNTS_PAYABLE", m)
        /\ InLedger(gl) \in Int
    BY <1>1, <1>3, <2>1, <2>2, <2>3, EntryIs
  <2>5. gl["GOODS_IN_TRANSIT"] \in Int
    BY <2>1, <2>2
  <2>6. /\ d \notin ShippingRows /\ d \notin ReceivingRows
        /\ d \notin Of("SR") /\ d \notin Of("SI") /\ d \notin Of("PR") /\ d \notin Of("DBN")
        /\ d \notin Of("GR")
        /\ d \in BillsWithout <=> doc[d].source = NoDoc
        /\ d \in BillsOfReceipts <=> doc[d].source # NoDoc
    BY <1>2 DEF ShippingRows, ReceivingRows, Of, BillsWithout, BillsOfReceipts
  <2>7. Net(moved) \in Int /\ Shipped(moved) \in Int /\ Received(moved) \in Int
    BY <2>1, TotalsAreIntegers DEF StockFits
  <2>8. CASE doc[d].source = NoDoc
    <3>1. InLedger(gl') = InLedger(gl) + m /\ gl'["GOODS_IN_TRANSIT"] = gl["GOODS_IN_TRANSIT"]
      BY <1>1, <1>3, <1>4, <2>2, <2>4, <2>5, <2>8 DEF Share, Booked
    <3> QED BY <1>1, <1>3, <2>1, <2>4, <2>5, <2>6, <2>7, <2>8, <3>1 DEF Tells, Part
  <2>9. CASE doc[d].source # NoDoc
    <3>1. InLedger(gl') = InLedger(gl) /\ -gl'["GOODS_IN_TRANSIT"] = -gl["GOODS_IN_TRANSIT"] - m
      BY <1>1, <1>3, <1>4, <2>2, <2>4, <2>5, <2>9 DEF Share, Booked
    <3> QED BY <1>1, <1>3, <2>1, <2>4, <2>5, <2>6, <2>7, <2>9, <3>1 DEF Tells, Part
  <2> QED BY <2>8, <2>9
<1>9. BooksInv'
  BY <1>5, <1>6, <1>8, BooksAfterPosting
<1> QED BY <1>5, <1>7, <1>9 DEF d

LEMMA PurchaseReturnPosted ==
  ASSUME RowsInv, BooksInv, NEW c \in Callers, PostPurchaseReturn(c)
  PROVE  Posts(c, call[c].doc) /\ RowsInv' /\ BooksInv'
<1> DEFINE d == call[c].doc  q == doc[d].qty  cost == balance[Main].avg  m == MoneyOf(q, cost)
           v == doc'[d].value - doc[d].value
<1>1. Posting(c, "PR") /\ gl' = gl
  BY DEF PostPurchaseReturn
<1>2. /\ d \in Entered /\ Kind[d] = "PR" /\ d \in Docs /\ q \in Nat \ {0}
      /\ PriceFits(d)
  BY <1>1, RowOfCall
<1>3. CASE doc[d].how = "NO_STOCK_EFFECT" /\ Post(c, Posted(d, 0, 0)) /\ UNCHANGED <<balance, moved>>
  <2>1. 0 = doc[d].value /\ (d \in written => 0 = doc[d].cost)
    BY <1>2, <1>3 DEF PriceFits, MovesNothing
  <2>2. Posts(c, d) /\ doc'[d].cost = 0 /\ doc'[d].value = 0
    BY <1>1, <1>3, <2>1, PostsIs
  <2>3. RowsInv'
    BY <1>2, <2>2, RowsAfterPosting
  <2>4. v = 0
    BY <2>1, <2>2
  <2>5. d \notin ShippingRows /\ d \notin ReceivingRows
    BY <1>2, <1>3 DEF ShippingRows, ReceivingRows
  <2> HIDE DEF d, v
  <2>6. Tells(d, v)
    BY <1>1, <1>3, <2>4, <2>5, TellsNothing
  <2>7. BooksInv'
    BY <2>2, <2>6, BooksAfterPosting DEF v
  <2> QED BY <2>2, <2>3, <2>7 DEF d
<1>4. CASE /\ doc[d].how = "RESTOCK" /\ d \notin written /\ MoveOut(Main, q)
           /\ Post(c, Posted(d, cost, m))
  <2>1. /\ cost \in Nat /\ StockFits(balance', moved') /\ Net(moved') = Net(moved) - m
        /\ Shipped(moved') = Shipped(moved) + q /\ Received(moved') = Received(moved)
        /\ Net(moved) \in Int /\ Shipped(moved) \in Int /\ Received(moved) \in Int
    BY <1>2, <1>4, LeavesMain
  <2>2. m \in Nat /\ doc[d].value = 0
    BY <1>2, <1>4, <2>1, MoneyIs DEF PriceFits
  <2> HIDE DEF m, cost
  <2>3. Posts(c, d) /\ doc'[d].cost = cost /\ doc'[d].value = m
    BY <1>1, <1>4, <2>1, <2>2, PostsIs
  <2>4. v = m
    BY <2>2, <2>3
  <2>5. RowsInv'
    BY <1>2, <1>4, <2>3, RowsAfterPosting DEF MovesNothing
  <2>6. /\ d \in ShippingRows \ written /\ d \notin ReceivingRows
        /\ d \notin Of("SR") /\ d \notin Of("SI") /\ d \in Of("PR") /\ d \notin Of("DBN")
        /\ d \notin Of("GR") /\ d \notin BillsWithout /\ d \notin BillsOfReceipts
    BY <1>2, <1>4 DEF ShippingRows, ReceivingRows, Of, BillsWithout, BillsOfReceipts
  <2> HIDE DEF d, v
  <2>7. gl \in [Accounts -> Int]
    BY DEF BooksInv
  <2>8. InLedger(gl) \in Int /\ gl["GOODS_IN_TRANSIT"] \in Int
    BY <2>7, AccountsAre, OneAccount DEF OtherAccounts
  <2>9. Tells(d, m)
    BY <1>1, <1>2, <2>1, <2>2, <2>6, <2>7, <2>8 DEF Tells, Part
  <2>10. BooksInv'
    BY <2>3, <2>4, <2>9, BooksAfterPosting DEF v
  <2> QED BY <2>3, <2>5, <2>10 DEF d
<1> QED BY <1>3, <1>4 DEF PostPurchaseReturn, KeysAreFree

LEMMA DebitNotePosted ==
  ASSUME RowsInv, BooksInv, NEW c \in Callers, PostDebitNote(c)
  PROVE  Posts(c, call[c].doc) /\ RowsInv' /\ BooksInv'
<1> DEFINE d == call[c].doc  cost == doc[d].cost  m == MoneyOf(doc[d].qty, cost)
           v == doc'[d].value - doc[d].value
<1>1. /\ Posting(c, "DBN") /\ d \notin written /\ Post(c, Posted(d, cost, m))
      /\ gl' = Booked("ACCOUNTS_PAYABLE", "INVENTORY", m) /\ UNCHANGED <<balance, moved>>
  BY DEF PostDebitNote, KeysAreFree
<1>2. /\ d \in Entered /\ Kind[d] = "DBN" /\ d \in Docs /\ doc[d].qty \in Nat \ {0}
      /\ cost \in Nat /\ PriceFits(d)
  BY <1>1, RowOfCall
<1>3. m \in Nat /\ doc[d].value = 0
  BY <1>1, <1>2, MoneyIs DEF PriceFits
<1> HIDE DEF m, cost
<1>4. Posts(c, d) /\ doc'[d].cost = cost /\ doc'[d].value = m
  BY <1>1, <1>2, <1>3, PostsIs
<1>5. v = m
  BY <1>3, <1>4
<1>6. RowsInv'
  BY <1>2, <1>4, RowsAfterPosting DEF MovesNothing
<1> HIDE DEF d
<1>7. Tells(d, m)
  <2>1. gl \in [Accounts -> Int] /\ StockFits(balance, moved) /\ "ACCOUNTS_PAYABLE" \in OtherAccounts
    BY DEF BooksInv, OtherAccounts
  <2>2. "ACCOUNTS_PAYABLE" \in Accounts /\ "ACCOUNTS_PAYABLE" \notin InventoryAccounts
        /\ "INVENTORY" \in Accounts /\ "INVENTORY" \in InventoryAccounts
    BY <2>1, AccountsAre
  <2>3. /\ gl' \in [Accounts -> Int]
        /\ InLedger(gl') = InLedger(gl) + Share("ACCOUNTS_PAYABLE", m) - Share("INVENTORY", m)
        /\ InLedger(gl) \in Int
    BY <1>1, <1>3, <2>1, <2>2, EntryIs
  <2>4. gl'["GOODS_IN_TRANSIT"] = gl["GOODS_IN_TRANSIT"]
    BY <1>1, <1>3, <2>1, <2>2, EntryElsewhere
  <2>5. /\ d \notin ShippingRows /\ d \notin ReceivingRows
        /\ d \notin Of("SR") /\ d \notin Of("SI") /\ d \notin Of("PR") /\ d \in Of("DBN")
        /\ d \notin Of("GR") /\ d \notin BillsWithout /\ d \notin BillsOfReceipts
    BY <1>2 DEF ShippingRows, ReceivingRows, Of, BillsWithout, BillsOfReceipts
  <2>6. gl["GOODS_IN_TRANSIT"] \in Int
    BY <2>1, AccountsAre DEF OtherAccounts
  <2>7. InLedger(gl') = InLedger(gl) - m
    BY <1>3, <2>2, <2>3 DEF Share
  <2>8. Net(moved) \in Int /\ Shipped(moved) \in Int /\ Received(moved) \in Int
    BY <2>1, TotalsAreIntegers DEF StockFits
  <2> QED BY <1>1, <1>3, <2>1, <2>3, <2>4, <2>5, <2>6, <2>7, <2>8 DEF Tells, Part
<1>8. BooksInv'
  BY <1>4, <1>5, <1>7, BooksAfterPosting
<1> QED BY <1>4, <1>6, <1>8 DEF d

LEMMA AdjustmentPosted ==
  ASSUME RowsInv, BooksInv, NEW c \in Callers, PostAdjustment(c)
  PROVE  Posts(c, call[c].doc) /\ RowsInv' /\ BooksInv'
<1> DEFINE d == call[c].doc  q == doc[d].qty  cost == AdjustmentCost(d)  m == MoneyOf(q, cost)
           gain == doc[d].how = "increase"  v == doc'[d].value - doc[d].value
<1>1. /\ Posting(c, "SA") /\ d \notin written /\ Post(c, Posted(d, cost, m))
      /\ \/ /\ gain /\ MoveIn(Main, q, cost)
            /\ gl' = Booked(Account[Main], "INVENTORY_GAIN", m)
         \/ /\ doc[d].how = "decrease" /\ MoveOut(Main, q)
            /\ gl' = Booked("INVENTORY_LOSS", Account[Main], m)
  BY DEF PostAdjustment, KeysAreFree
<1>2. /\ d \in Entered /\ Kind[d] = "SA" /\ d \in Docs /\ q \in Nat \ {0}
      /\ doc[d].cost \in Nat /\ PriceFits(d)
  BY <1>1, RowOfCall
<1>3. gain => cost = doc[d].cost
  BY DEF AdjustmentCost
<1>4. ~gain => cost = balance[Main].avg
  BY DEF AdjustmentCost
<1>5. doc[d].value = 0
  BY <1>1, <1>2 DEF PriceFits
<1> HIDE DEF cost
<1>6. /\ gl \in [Accounts -> Int] /\ "INVENTORY_GAIN" \in OtherAccounts
      /\ "INVENTORY_LOSS" \in OtherAccounts /\ "GOODS_IN_TRANSIT" \in OtherAccounts
  BY DEF BooksInv, OtherAccounts
<1>7. /\ "INVENTORY_GAIN" \in Accounts \ {"GOODS_IN_TRANSIT"} /\ "INVENTORY_GAIN" \notin InventoryAccounts
      /\ "INVENTORY_LOSS" \in Accounts \ {"GOODS_IN_TRANSIT"} /\ "INVENTORY_LOSS" \notin InventoryAccounts
      /\ Account[Main] \in Accounts \ {"GOODS_IN_TRANSIT"} /\ Account[Main] \in InventoryAccounts
  BY <1>6, AccountsAre, StockAssumption
<1>8. gl["GOODS_IN_TRANSIT"] \in Int
  BY <1>6, AccountsAre
<1>9. /\ d \notin Of("SR") /\ d \notin Of("SI") /\ d \notin Of("PR") /\ d \notin Of("DBN")
      /\ d \notin Of("GR") /\ d \notin BillsWithout /\ d \notin BillsOfReceipts
  BY <1>2 DEF Of, BillsWithout, BillsOfReceipts
<1>10. /\ d \in ShippingRows <=> doc[d].how = "decrease"
       /\ d \in ReceivingRows <=> gain
  BY <1>2 DEF ShippingRows, ReceivingRows
<1>11. ASSUME gain PROVE cost \in Nat /\ m \in Nat /\ Tells(d, m)
  <2>1. MoveIn(Main, q, cost) /\ gl' = Booked(Account[Main], "INVENTORY_GAIN", m) /\ cost \in Nat
    BY <1>1, <1>2, <1>3, <1>11
  <2>2. /\ StockFits(balance', moved') /\ Net(moved') = Net(moved) + m
        /\ Shipped(moved') = Shipped(moved) /\ Received(moved') = Received(moved) + q
        /\ Net(moved) \in Int /\ Shipped(moved) \in Int /\ Received(moved) \in Int
    BY <1>2, <2>1, EntersMain
  <2>3. m \in Nat
    BY <1>2, <2>1, MoneyIs
  <2> HIDE DEF m
  <2>4. /\ gl' \in [Accounts -> Int]
        /\ InLedger(gl') = InLedger(gl) + Share(Account[Main], m) - Share("INVENTORY_GAIN", m)
        /\ InLedger(gl) \in Int
    BY <1>6, <1>7, <2>1, <2>3, EntryIs
  <2>5. gl'["GOODS_IN_TRANSIT"] = gl["GOODS_IN_TRANSIT"]
    BY <1>6, <1>7, <2>1, <2>3, EntryElsewhere
  <2>6. InLedger(gl') = InLedger(gl) + m
    BY <1>7, <2>3, <2>4 DEF Share
  <2>7. cost \in Nat /\ m \in Nat /\ Tells(d, m)
    <3> HIDE DEF d
    <3> QED BY <1>1, <1>8, <1>9, <1>10, <1>11, <2>1, <2>2, <2>3, <2>4, <2>5, <2>6 DEF Tells, Part
  <2> QED BY <2>7 DEF m
<1>12. ASSUME ~gain PROVE cost \in Nat /\ m \in Nat /\ Tells(d, m)
  <2>1. MoveOut(Main, q) /\ gl' = Booked("INVENTORY_LOSS", Account[Main], m) /\ doc[d].how = "decrease"
    BY <1>1, <1>12
  <2>2. /\ cost \in Nat /\ StockFits(balance', moved') /\ Net(moved') = Net(moved) - m
        /\ Shipped(moved') = Shipped(moved) + q /\ Received(moved') = Received(moved)
        /\ Net(moved) \in Int /\ Shipped(moved) \in Int /\ Received(moved) \in Int
    BY <1>2, <1>4, <1>12, <2>1, LeavesMain
  <2>3. m \in Nat
    BY <1>2, <2>2, MoneyIs
  <2> HIDE DEF m
  <2>4. /\ gl' \in [Accounts -> Int]
        /\ InLedger(gl') = InLedger(gl) + Share("INVENTORY_LOSS", m) - Share(Account[Main], m)
        /\ InLedger(gl) \in Int
    BY <1>6, <1>7, <2>1, <2>3, EntryIs
  <2>5. gl'["GOODS_IN_TRANSIT"] = gl["GOODS_IN_TRANSIT"]
    BY <1>6, <1>7, <2>1, <2>3, EntryElsewhere
  <2>6. InLedger(gl') = InLedger(gl) - m
    BY <1>7, <2>3, <2>4 DEF Share
  <2>7. cost \in Nat /\ m \in Nat /\ Tells(d, m)
    <3> HIDE DEF d
    <3> QED BY <1>1, <1>8, <1>9, <1>10, <1>12, <2>1, <2>2, <2>3, <2>4, <2>5, <2>6 DEF Tells, Part
  <2> QED BY <2>7 DEF m
<1>13. cost \in Nat /\ m \in Nat /\ Tells(d, m)
  BY <1>11, <1>12
<1> HIDE DEF m
<1>14. Posts(c, d) /\ doc'[d].cost = cost /\ doc'[d].value = m
  BY <1>1, <1>13, PostsIs
<1>15. v = m
  BY <1>5, <1>13, <1>14
<1>16. RowsInv'
  BY <1>2, <1>14, RowsAfterPosting DEF MovesNothing
<1>17. BooksInv'
  BY <1>13, <1>14, <1>15, BooksAfterPosting
<1> QED BY <1>14, <1>16, <1>17

\* Out of one warehouse and into another is out of one and into another.
TakesAcross(b, m, to, q, b2, m2) ==
  /\ StockFits(b, m) /\ to \in Warehouses \ {Main} /\ q \in Nat \ {0}
  /\ Main \in Negative \/ b[Main].qty >= q
  /\ CostIsValid(In(b[to], q, b[Main].avg))
  /\ b2 = [b EXCEPT ![Main] = Out(b[Main], q), ![to] = In(b[to], q, b[Main].avg)]
  /\ m2 = [m EXCEPT ![Main] = AddOut(m[Main], q, b[Main].avg),
                    ![to] = AddIn(m[to], q, b[Main].avg)]

LEMMA MovesAcross ==
  ASSUME NEW b, NEW m, NEW to, NEW q, NEW b2, NEW m2, TakesAcross(b, m, to, q, b2, m2)
  PROVE  /\ b[Main].avg \in Nat /\ MoneyOf(q, b[Main].avg) \in Nat
         /\ StockFits(b2, m2) /\ Net(m2) = Net(m) /\ Net(m) \in Int
         /\ Shipped(m2) = Shipped(m) + q /\ Received(m2) = Received(m) + q
<1> DEFINE cost == b[Main].avg
           b1 == [b EXCEPT ![Main] = Out(b[Main], q)]
           m1 == [m EXCEPT ![Main] = AddOut(m[Main], q, cost)]
<1>1. Main \in Warehouses /\ b \in [Warehouses -> Balance] /\ m \in [Warehouses -> Movements]
  BY StockAssumption DEF StockFits, TakesAcross
<1>2. cost \in Nat
  BY <1>1 DEF Balance
<1>3. MoneyOf(q, cost) \in Nat
  BY <1>2, MoneyIs DEF TakesAcross
<1>4. TakesOut(b, m, Main, q, b1, m1)
  BY <1>1 DEF TakesOut, TakesAcross
<1>5. /\ b1[to] = b[to] /\ m1[to] = m[to]
      /\ b2 = [b1 EXCEPT ![to] = In(b1[to], q, cost)]
      /\ m2 = [m1 EXCEPT ![to] = AddIn(m1[to], q, cost)]
  BY <1>1 DEF TakesAcross
<1> HIDE DEF b1, m1
<1>6. /\ StockFits(b1, m1) /\ Net(m1) = Net(m) - MoneyOf(q, cost)
      /\ Shipped(m1) = Shipped(m) + q /\ Received(m1) = Received(m)
  BY <1>4, GoesOut
<1> HIDE DEF cost
<1>7. TakesIn(b1, m1, to, q, cost, b2, m2)
  BY <1>2, <1>5, <1>6 DEF TakesIn, TakesAcross, cost
<1>8. /\ StockFits(b2, m2) /\ Net(m2) = Net(m1) + MoneyOf(q, cost)
      /\ Shipped(m2) = Shipped(m1) /\ Received(m2) = Received(m1) + q
  BY <1>7, ComesIn
<1>9. Net(m) \in Int /\ Shipped(m) \in Int /\ Received(m) \in Int
  BY <1>1, TotalsAreIntegers
<1>10. Net(m2) = Net(m) /\ Shipped(m2) = Shipped(m) + q /\ Received(m2) = Received(m) + q
  BY <1>3, <1>6, <1>8, <1>9 DEF TakesAcross
<1> QED BY <1>2, <1>3, <1>8, <1>9, <1>10 DEF cost

LEMMA TransferPosted ==
  ASSUME RowsInv, BooksInv, NEW c \in Callers, NEW to \in Warehouses, PostTransfer(c, to)
  PROVE  Posts(c, call[c].doc) /\ RowsInv' /\ BooksInv'
<1> DEFINE d == call[c].doc  q == doc[d].qty  cost == balance[Main].avg  m == MoneyOf(q, cost)
           v == doc'[d].value - doc[d].value
<1>1. /\ Posting(c, "ST") /\ d \notin written /\ Post(c, Posted(d, cost, m))
      /\ gl' = Booked(Account[to], Account[Main], m) /\ to \in Warehouses \ {Main}
      /\ Main \in Negative \/ balance[Main].qty >= q
      /\ CostIsValid(In(balance[to], q, cost))
      /\ balance' = [balance EXCEPT ![Main] = Out(balance[Main], q), ![to] = In(balance[to], q, cost)]
      /\ moved' = [moved EXCEPT ![Main] = AddOut(moved[Main], q, cost), ![to] = AddIn(moved[to], q, cost)]
  BY DEF PostTransfer, KeysAreFree, Available
<1>2. /\ d \in Entered /\ Kind[d] = "ST" /\ d \in Docs /\ q \in Nat \ {0} /\ PriceFits(d)
  BY <1>1, RowOfCall
<1>3. StockFits(balance, moved) /\ gl \in [Accounts -> Int] /\ doc[d].value = 0
  BY <1>1, <1>2 DEF BooksInv, PriceFits
<1>4. /\ cost \in Nat /\ m \in Nat
      /\ StockFits(balance', moved') /\ Net(moved') = Net(moved) /\ Net(moved) \in Int
      /\ Shipped(moved') = Shipped(moved) + q /\ Received(moved') = Received(moved) + q
  <2> HIDE DEF d, q
  <2>1. TakesAcross(balance, moved, to, q, balance', moved')
    BY <1>1, <1>2, <1>3 DEF TakesAcross
  <2> QED BY <2>1, MovesAcross
<1> HIDE DEF m, cost
<1>5. Posts(c, d) /\ doc'[d].cost = cost /\ doc'[d].value = m
  BY <1>1, <1>4, PostsIs
<1>6. v = m
  BY <1>3, <1>4, <1>5
<1>7. RowsInv'
  BY <1>2, <1>5, RowsAfterPosting DEF MovesNothing
<1> HIDE DEF d
<1>8. Tells(d, m)
  <2>1. /\ Account[to] \in Accounts \ {"GOODS_IN_TRANSIT"} /\ Account[to] \in InventoryAccounts
        /\ Account[Main] \in Accounts \ {"GOODS_IN_TRANSIT"} /\ Account[Main] \in InventoryAccounts
    BY <1>1, AccountsAre, StockAssumption DEF OtherAccounts
  <2>2. /\ gl' \in [Accounts -> Int]
        /\ InLedger(gl') = InLedger(gl) + Share(Account[to], m) - Share(Account[Main], m)
        /\ InLedger(gl) \in Int
    BY <1>1, <1>3, <1>4, <2>1, EntryIs
  <2>3. gl'["GOODS_IN_TRANSIT"] = gl["GOODS_IN_TRANSIT"]
    BY <1>1, <1>3, <1>4, <2>1, EntryElsewhere
  <2>4. gl["GOODS_IN_TRANSIT"] \in Int
    BY <1>3, AccountsAre DEF OtherAccounts
  <2>5. InLedger(gl') = InLedger(gl)
    BY <1>4, <2>1, <2>2 DEF Share
  <2>6. /\ d \in ShippingRows \ written /\ d \in ReceivingRows \ written
        /\ d \notin Of("SR") /\ d \notin Of("SI") /\ d \notin Of("PR") /\ d \notin Of("DBN")
        /\ d \notin Of("GR") /\ d \notin BillsWithout /\ d \notin BillsOfReceipts
    BY <1>1, <1>2 DEF ShippingRows, ReceivingRows, Of, BillsWithout, BillsOfReceipts
  <2> QED BY <1>4, <2>2, <2>3, <2>4, <2>5, <2>6 DEF Tells, Part
<1>9. BooksInv'
  BY <1>5, <1>6, <1>8, BooksAfterPosting
<1> QED BY <1>5, <1>7, <1>9 DEF d

-----------------------------------------------------------------------------
(* Counters: what was taken from a line, and by whom.                      *)

CountersFit ==
  /\ delivered \in [Of("SO") -> Nat] /\ invoiced \in [Of("DN") -> Nat]
  /\ returned \in [Of("SI") -> Nat] /\ received \in [Of("PO") -> Nat]
  /\ billed \in [Of("GR") -> Nat] /\ sentBack \in [Of("GR") \cup Of("PB") -> Nat]

NoteFits(n) ==
  /\ n \notin written => invoiced[n] = 0
  /\ n \in Entered => /\ Qtys(doc, PostedOf("SI", n)) <= invoiced[n]
                      /\ invoiced[n] <= doc[n].qty
InvoiceFits(i) ==
  /\ i \notin Entered => returned[i] = 0
  /\ i \in Entered => /\ Qtys(doc, From("SR", i)) = returned[i] /\ returned[i] <= doc[i].qty
                      /\ Qtys(doc, From("CN", i)) <= doc[i].qty
OrderFits(o) == o \in Entered /\ doc[o].status = "COMPLETED" => delivered[o] >= doc[o].qty

SalesInv ==
  /\ \A n \in Of("DN") : NoteFits(n)
  /\ \A i \in Of("SI") : InvoiceFits(i)
  /\ \A o \in Of("SO") : OrderFits(o)

LEMMA FromIs == \A k, s : From(k, s) = {x \in Of(k) \cap Entered : doc[x].source = s}
BY DEF From, Of, Entered

LEMMA FromThen ==
  \A k, s : From(k, s)' = {x \in Of(k) : x \in Entered' /\ doc'[x].source = s}
BY DEF From, Of, Entered

LEMMA QtysAreNat ==
  ASSUME NEW S, S \subseteq Docs, \A x \in S : HasRow(doc, x)
  PROVE  Qtys(doc, S) \in Nat
<1> DEFINE f == [x \in S |-> doc[x].qty]
<1>1. \A x \in S : f[x] \in Nat
  BY RowFields
<1> HIDE DEF f
<1>2. SumFunctionOnSet(f, S) \in Nat
  BY <1>1, DocumentsFinite, SumNat
<1> QED BY <1>2 DEF Qtys, f

LEMMA NoQuantity == \A rows : Qtys(rows, {}) = 0
BY SumEmpty DEF Qtys

LEMMA FromRows ==
  ASSUME RowsInv, NEW k, NEW s
  PROVE  /\ From(k, s) \subseteq Docs /\ \A x \in From(k, s) : HasRow(doc, x) /\ x \in Entered
         /\ PostedOf(k, s) \subseteq Docs /\ \A x \in PostedOf(k, s) : HasRow(doc, x) /\ x \in Entered
<1>1. \A x \in From(k, s) : x \in Entered
  BY FromIs
<1>2. \A x \in PostedOf(k, s) : x \in From(k, s)
  BY DEF PostedOf
<1> QED BY <1>1, <1>2, EnteredRow

\* Nothing refers to a document that is not there.
LEMMA NothingFrom ==
  ASSUME RowsInv, NEW s
  PROVE  /\ s \notin written => From("SR", s) = {} /\ From("CN", s) = {} /\ From("SI", s) = {}
<1>1. \A x \in Entered : Kind[x] \in {"SR", "CN", "SI"} => doc[x].source \in written
  BY DEF RowsInv, SourceFits, WrittenOf
<1> QED BY <1>1, FromIs DEF Of

LEMMA SalesAfterRest ==
  ASSUME RowsInv, SalesInv, Rests, UNCHANGED salesVars
  PROVE  SalesInv'
<1>1. /\ Entered' = Entered /\ written' = written /\ \A x \in Entered : Kept(x)
      /\ UNCHANGED <<delivered, invoiced, returned>>
  BY DEF Rests, salesVars
<1>2. \A k : Of(k)' = Of(k)
  BY DEF Of
<1>3. \A k, s : From(k, s)' = From(k, s)
  BY <1>1, FromThen, FromIs DEF Kept
<1>4. \A k, s : PostedOf(k, s)' = PostedOf(k, s)
  BY <1>1, <1>3 DEF PostedOf
<1>5. \A k, s : /\ Qtys(doc', From(k, s)) = Qtys(doc, From(k, s))
                /\ Qtys(doc', PostedOf(k, s)) = Qtys(doc, PostedOf(k, s))
  BY <1>1, FromRows, QtysStay DEF Kept
<1>6. ASSUME NEW n \in Of("DN") PROVE NoteFits(n)'
  BY <1>1, <1>4, <1>5 DEF SalesInv, NoteFits, Kept
<1>7. ASSUME NEW i \in Of("SI") PROVE InvoiceFits(i)'
  BY <1>1, <1>3, <1>5 DEF SalesInv, InvoiceFits, Kept
<1>8. ASSUME NEW o \in Of("SO") PROVE OrderFits(o)'
  BY <1>1 DEF SalesInv, OrderFits, Kept, Rests
<1> QED BY <1>2, <1>6, <1>7, <1>8 DEF SalesInv

\* A document that no counter is about is entered.
LEMMA SalesAfterDraft ==
  ASSUME RowsInv, SalesInv, NEW d, Enters(d), Kind[d] \notin {"SR", "CN"}, UNCHANGED salesVars
  PROVE  SalesInv'
<1>1. /\ Entered' = Entered \cup {d} /\ written' = written /\ d \notin Entered
      /\ \A x \in Entered : doc'[x] = doc[x]
      /\ UNCHANGED <<delivered, invoiced, returned>> /\ written \subseteq Entered
  BY DEF Enters, salesVars, RowsInv
<1>2. \A k : Of(k)' = Of(k)
  BY DEF Of
<1>3. \A k, s : k # Kind[d] => From(k, s)' = From(k, s)
  BY <1>1, FromThen, FromIs DEF Of
<1>4. \A k, s : PostedOf(k, s)' = PostedOf(k, s)
  BY <1>1, FromThen, FromIs DEF PostedOf
<1>5. \A k, s : /\ Qtys(doc', From(k, s)) = Qtys(doc, From(k, s))
                /\ Qtys(doc', PostedOf(k, s)) = Qtys(doc, PostedOf(k, s))
  <2> TAKE k, s
  <2>1. /\ \A x \in From(k, s) : doc'[x].qty = doc[x].qty
        /\ \A x \in PostedOf(k, s) : doc'[x].qty = doc[x].qty
    BY <1>1, FromRows
  <2> QED BY <2>1, FromRows, QtysStay
<1>6. ASSUME NEW n \in Of("DN") PROVE NoteFits(n)'
  <2>1. CASE n \in Entered
    BY <1>1, <1>4, <1>5, <2>1 DEF SalesInv, NoteFits
  <2>2. CASE n \notin Entered
    <3>1. n \notin written /\ invoiced[n] = 0
      BY <1>1, <2>2 DEF SalesInv, NoteFits
    <3>2. PostedOf("SI", n) = {}
      BY <3>1, NothingFrom DEF PostedOf
    <3>3. n = d => doc'[n].qty \in Nat
      <4>1. d \in Entered' => d \in RowsOf(doc')
        BY EnteredIs DEF Enters, Entered, Exists
      <4> QED BY <1>1, <4>1, RowFields DEF RowsOf
    <3>4. Qtys(doc', PostedOf("SI", n)') = 0
      BY <1>4, <3>2, NoQuantity
    <3> QED BY <1>1, <2>2, <3>1, <3>3, <3>4 DEF NoteFits
  <2> QED BY <2>1, <2>2
<1>7. ASSUME NEW i \in Of("SI") PROVE InvoiceFits(i)'
  <2>1. From("SR", i)' = From("SR", i) /\ From("CN", i)' = From("CN", i)
    BY <1>3
  <2>2. CASE i \in Entered
    BY <1>1, <1>5, <2>1, <2>2 DEF SalesInv, InvoiceFits
  <2>3. CASE i \notin Entered
    <3>1. i \notin written /\ returned[i] = 0
      BY <1>1, <2>3 DEF SalesInv, InvoiceFits
    <3>2. From("SR", i) = {} /\ From("CN", i) = {}
      BY <3>1, NothingFrom
    <3>3. i = d => doc'[i].qty \in Nat
      <4>1. d \in Entered' => d \in RowsOf(doc')
        BY EnteredIs DEF Enters, Entered, Exists
      <4> QED BY <1>1, <4>1, RowFields DEF RowsOf
    <3>4. Qtys(doc', From("SR", i)') = 0 /\ Qtys(doc', From("CN", i)') = 0
      BY <2>1, <3>2, NoQuantity
    <3> QED BY <1>1, <2>3, <3>1, <3>3, <3>4 DEF InvoiceFits
  <2> QED BY <2>2, <2>3
<1>8. ASSUME NEW o \in Of("SO") PROVE OrderFits(o)'
  BY <1>1 DEF SalesInv, OrderFits, Enters
<1> QED BY <1>2, <1>6, <1>7, <1>8 DEF SalesInv

\* A return takes its quantity from the invoice as it is entered.
LEMMA SalesAfterReturnDraft ==
  ASSUME RowsInv, SalesInv, NEW d \in Docs, NEW i, DraftReturn(d, i), Enters(d),
         doc'[d].source = i, HasRow(doc', d),
         returned' = [returned EXCEPT ![i] = returned[i] + doc'[d].qty],
         doc'[d].qty <= RemainingToReturn(i), returned \in [Of("SI") -> Nat]
  PROVE  SalesInv'
<1>1. /\ Entered' = Entered \cup {d} /\ written' = written /\ d \notin Entered
      /\ \A x \in Entered : doc'[x] = doc[x]
      /\ UNCHANGED <<delivered, invoiced>> /\ written \subseteq Entered
      /\ Kind[d] = "SR" /\ i \in Of("SI")
      /\ doc[i].status \in {"POSTED", "PARTIAL", "COMPLETED"}
  BY DEF Enters, RowsInv, DraftReturn
<1>2. \A k : Of(k)' = Of(k)
  BY DEF Of
<1>3. \A k, s : k # "SR" => From(k, s)' = From(k, s)
  BY <1>1, FromThen, FromIs DEF Of
<1>4. \A s : PostedOf("SI", s)' = PostedOf("SI", s)
  BY <1>1, <1>3 DEF PostedOf
<1>5. \A k, s : /\ Qtys(doc', From(k, s)) = Qtys(doc, From(k, s))
                /\ Qtys(doc', PostedOf(k, s)) = Qtys(doc, PostedOf(k, s))
  <2> TAKE k, s
  <2>1. /\ \A x \in From(k, s) : doc'[x].qty = doc[x].qty
        /\ \A x \in PostedOf(k, s) : doc'[x].qty = doc[x].qty
    BY <1>1, FromRows
  <2> QED BY <2>1, FromRows, QtysStay
<1>6. ASSUME NEW n \in Of("DN") PROVE NoteFits(n)'
  <2>1. n # d /\ (n \in Entered' <=> n \in Entered)
    BY <1>1 DEF Of
  <2> QED BY <1>1, <1>4, <1>5, <2>1 DEF SalesInv, NoteFits
<1>7. i \in Entered /\ doc[i].qty \in Nat /\ doc'[d].qty \in Nat \ {0}
  BY <1>1, RowFields, EnteredRow DEF Entered, Exists, DocumentStatus, Of
<1>8. From("SR", i)' = From("SR", i) \cup {d} /\ d \notin From("SR", i)
  BY <1>1, FromThen, FromIs DEF Of
<1>9. Qtys(doc', From("SR", i)') = Qtys(doc, From("SR", i)) + doc'[d].qty
  <2>1. doc'[d].qty \in Nat
    BY RowFields
  <2>2. From("SR", i) \subseteq Docs /\ \A x \in From("SR", i) : HasRow(doc, x) /\ x \in Entered
    BY FromRows
  <2>3. QtysJoin(From("SR", i), d, doc, doc')
    BY <1>1, <1>8, <2>1, <2>2 DEF QtysJoin
  <2> QED BY <1>8, <2>3, QtysGrow
<1>10. ASSUME NEW j \in Of("SI") PROVE InvoiceFits(j)'
  <2>1. j # d /\ (j \in Entered' <=> j \in Entered) /\ From("CN", j)' = From("CN", j)
    BY <1>1, <1>3 DEF Of
  <2>2. CASE j = i
    <3>1. returned[i] \in Nat /\ returned'[i] = returned[i] + doc'[d].qty
      BY <1>1
    <3>2. /\ Qtys(doc, From("SR", i)) = returned[i] /\ returned[i] <= doc[i].qty
          /\ Qtys(doc, From("CN", i)) <= doc[i].qty /\ doc'[i] = doc[i]
      BY <1>1, <1>7 DEF SalesInv, InvoiceFits
    <3>3. returned'[i] <= doc[i].qty
      BY <1>7, <3>1 DEF RemainingToReturn
    <3> QED BY <1>1, <1>5, <1>7, <1>9, <2>1, <2>2, <3>1, <3>2, <3>3 DEF InvoiceFits
  <2>3. CASE j # i
    <3>1. returned'[j] = returned[j]
      BY <2>3
    <3>2. From("SR", j)' = From("SR", j)
      BY <1>1, <2>3, FromThen, FromIs
    <3> QED BY <1>1, <1>5, <2>1, <3>1, <3>2 DEF SalesInv, InvoiceFits
  <2> QED BY <2>2, <2>3
<1>11. ASSUME NEW o \in Of("SO") PROVE OrderFits(o)'
  BY <1>1 DEF SalesInv, OrderFits, Enters
<1> QED BY <1>2, <1>6, <1>10, <1>11 DEF SalesInv

\* A credit note is summed with the notes before it.
LEMMA SalesAfterCreditDraft ==
  ASSUME RowsInv, SalesInv, NEW d \in Docs, NEW i, DraftCredit(d, i), Enters(d),
         doc'[d].source = i, HasRow(doc', d),
         doc'[d].qty + Qtys(doc, From("CN", i)) <= doc[i].qty
  PROVE  SalesInv'
<1>1. /\ Entered' = Entered \cup {d} /\ written' = written /\ d \notin Entered
      /\ \A x \in Entered : doc'[x] = doc[x]
      /\ UNCHANGED <<delivered, invoiced, returned>> /\ written \subseteq Entered
      /\ Kind[d] = "CN" /\ i \in Of("SI")
      /\ doc[i].status \in {"POSTED", "PARTIAL", "COMPLETED"}
  BY DEF Enters, RowsInv, DraftCredit, salesVars
<1>2. \A k : Of(k)' = Of(k)
  BY DEF Of
<1>3. \A k, s : k # "CN" => From(k, s)' = From(k, s)
  BY <1>1, FromThen, FromIs DEF Of
<1>4. \A s : PostedOf("SI", s)' = PostedOf("SI", s)
  BY <1>1, <1>3 DEF PostedOf
<1>5. \A k, s : /\ Qtys(doc', From(k, s)) = Qtys(doc, From(k, s))
                /\ Qtys(doc', PostedOf(k, s)) = Qtys(doc, PostedOf(k, s))
  <2> TAKE k, s
  <2>1. /\ \A x \in From(k, s) : doc'[x].qty = doc[x].qty
        /\ \A x \in PostedOf(k, s) : doc'[x].qty = doc[x].qty
    BY <1>1, FromRows
  <2> QED BY <2>1, FromRows, QtysStay
<1>6. ASSUME NEW n \in Of("DN") PROVE NoteFits(n)'
  <2>1. n # d /\ (n \in Entered' <=> n \in Entered)
    BY <1>1 DEF Of
  <2> QED BY <1>1, <1>4, <1>5, <2>1 DEF SalesInv, NoteFits
<1>7. i \in Entered
  BY <1>1 DEF Entered, Exists, DocumentStatus, Of
<1>8. From("CN", i)' = From("CN", i) \cup {d} /\ d \notin From("CN", i)
  BY <1>1, FromThen, FromIs DEF Of
<1>9. /\ Qtys(doc', From("CN", i)') = Qtys(doc, From("CN", i)) + doc'[d].qty
      /\ Qtys(doc, From("CN", i)) \in Nat /\ doc'[d].qty \in Nat
  <2>1. doc'[d].qty \in Nat
    BY RowFields
  <2>2. From("CN", i) \subseteq Docs /\ \A x \in From("CN", i) : HasRow(doc, x) /\ x \in Entered
    BY FromRows
  <2>3. QtysJoin(From("CN", i), d, doc, doc')
    BY <1>1, <1>8, <2>1, <2>2 DEF QtysJoin
  <2> QED BY <1>8, <2>1, <2>3, QtysGrow
<1>10. ASSUME NEW j \in Of("SI") PROVE InvoiceFits(j)'
  <2>1. j # d /\ (j \in Entered' <=> j \in Entered) /\ From("SR", j)' = From("SR", j)
    BY <1>1, <1>3 DEF Of
  <2>2. CASE j = i
    <3>1. /\ Qtys(doc, From("SR", i)) = returned[i] /\ returned[i] <= doc[i].qty
          /\ doc'[i] = doc[i]
      BY <1>1, <1>7 DEF SalesInv, InvoiceFits
    <3>2. Qtys(doc', From("CN", i)') <= doc[i].qty
      BY <1>9
    <3> QED BY <1>1, <1>5, <1>7, <2>1, <2>2, <3>1, <3>2 DEF InvoiceFits
  <2>3. CASE j # i
    <3>1. From("CN", j)' = From("CN", j)
      BY <1>1, <2>3, FromThen, FromIs
    <3> QED BY <1>1, <1>5, <2>1, <3>1 DEF SalesInv, InvoiceFits
  <2> QED BY <2>2, <2>3
<1>11. ASSUME NEW o \in Of("SO") PROVE OrderFits(o)'
  BY <1>1 DEF SalesInv, OrderFits, Enters
<1> QED BY <1>2, <1>6, <1>10, <1>11 DEF SalesInv

\* Postings that leave a counter alone.
LEMMA ReturnsAfterPosting ==
  ASSUME RowsInv, SalesInv, NEW c, NEW d, Posts(c, d), returned' = returned
  PROVE  \A i \in Of("SI") : InvoiceFits(i)'
<1>1. Entered' = Entered /\ \A x \in Entered : Kept(x)
  BY DEF Posts
<1>2. \A k, s : From(k, s)' = From(k, s)
  BY <1>1, FromThen, FromIs DEF Kept
<1>3. \A k, s : Qtys(doc', From(k, s)) = Qtys(doc, From(k, s))
  BY <1>1, FromRows, QtysStay DEF Kept
<1> QED BY <1>1, <1>2, <1>3 DEF SalesInv, InvoiceFits, Kept

LEMMA NotesAfterPosting ==
  ASSUME RowsInv, SalesInv, NEW c, NEW d, Posts(c, d), Kind[d] # "SI", invoiced' = invoiced
  PROVE  \A n \in Of("DN") : NoteFits(n)'
<1>1. Entered' = Entered /\ written' = written \cup {d} /\ \A x \in Entered : Kept(x)
  BY DEF Posts
<1>2. \A s : PostedOf("SI", s)' = PostedOf("SI", s)
  BY <1>1, FromThen, FromIs DEF Kept, PostedOf, Of
<1>3. \A k, s : Qtys(doc', PostedOf(k, s)) = Qtys(doc, PostedOf(k, s))
  BY <1>1, FromRows, QtysStay DEF Kept
<1> QED BY <1>1, <1>2, <1>3 DEF SalesInv, NoteFits, Kept

\* Every posting but a delivery writes the row of its document and no other.
LEMMA OrdersAfterPosting ==
  ASSUME RowsInv, SalesInv, NEW c, NEW d, Posts(c, d), Kind[d] # "SO", delivered' = delivered,
         NEW cost, NEW value, doc' = AsPosted(doc, d, cost, value)
  PROVE  \A o \in Of("SO") : OrderFits(o)'
<1>1. Entered' = Entered /\ \A x \in Entered : Kept(x)
  BY DEF Posts
<1>2. \A o \in Docs : o # d => doc'[o] = doc[o]
  BY DEF AsPosted, RowsInv
<1> QED BY <1>1, <1>2 DEF SalesInv, OrderFits, Of

LEMMA SalesAfterOther ==
  ASSUME RowsInv, SalesInv, NEW c, NEW d, Posts(c, d), Kind[d] \notin {"SI", "SO"},
         UNCHANGED salesVars, NEW cost, NEW value, doc' = AsPosted(doc, d, cost, value)
  PROVE  SalesInv'
<1>1. delivered' = delivered /\ invoiced' = invoiced /\ returned' = returned
  BY DEF salesVars
<1>2. \A k : Of(k)' = Of(k)
  BY DEF Of
<1> QED BY <1>1, <1>2, ReturnsAfterPosting, NotesAfterPosting, OrdersAfterPosting DEF SalesInv

\* The counter of a delivery covers what its posted invoices bill.
LEMMA SalesAfterInvoice ==
  ASSUME RowsInv, SalesInv, CountersFit, NEW c \in Callers, PostInvoice(c),
         Posts(c, call[c].doc)
  PROVE  SalesInv'
<1> DEFINE d == call[c].doc  note == doc[d].source  q == doc[d].qty
<1>1. /\ Posting(c, "SI") /\ invoiced[note] + q <= doc[note].qty
      /\ invoiced' = [invoiced EXCEPT ![note] = invoiced[note] + q]
      /\ delivered' = delivered /\ returned' = returned
      /\ Post(c, Posted(d, doc[note].cost, doc[d].value + CostBooked(d, doc[note].cost)))
  BY DEF PostInvoice, WithinDelivered
<1>2. d \in Entered /\ d \in Docs /\ Kind[d] = "SI" /\ q \in Nat \ {0} /\ SourceFits(d)
  BY <1>1, RowOfCall
<1>3. note \in Of("DN") /\ note \in written
  BY <1>2 DEF SourceFits, WrittenOf
<1>4. doc' = AsPosted(doc, d, doc[note].cost, doc[d].value + CostBooked(d, doc[note].cost))
  BY <1>1 DEF Post, Posted, AsPosted
<1>5. Posts(c, d)
  OBVIOUS
<1> HIDE DEF d, q
<1>6. Entered' = Entered /\ written' = written \cup {d} /\ \A x \in Entered : Kept(x)
  BY <1>5 DEF Posts
<1>7. \A i \in Of("SI") : InvoiceFits(i)'
  BY <1>1, <1>5, ReturnsAfterPosting
<1>8. \A o \in Of("SO") : OrderFits(o)'
  BY <1>1, <1>2, <1>4, <1>5, OrdersAfterPosting
<1>9. d \in From("SI", note)
  BY <1>2, FromIs DEF Of, note
<1>10. \A s : PostedOf("SI", s)' = IF s = note THEN PostedOf("SI", s) \cup {d} ELSE PostedOf("SI", s)
  BY <1>2, <1>6, <1>9, FromThen, FromIs DEF Kept, PostedOf, Of, note
<1>11. note \in Entered /\ doc[note].qty \in Nat /\ invoiced[note] \in Nat
  BY <1>3, EnteredRow, RowFields DEF RowsInv, CountersFit
<1>12. \A s : Qtys(doc', PostedOf("SI", s)) = Qtys(doc, PostedOf("SI", s))
  BY <1>6, FromRows, QtysStay DEF Kept
<1>13. ASSUME NEW n \in Of("DN") PROVE NoteFits(n)'
  <2>1. NoteFits(n)
    BY DEF SalesInv
  <2>2. CASE n = note
    <3>1. invoiced'[n] = invoiced[n] + q /\ doc'[n].qty = doc[n].qty
      BY <1>1, <1>3, <1>6, <1>11, <2>2 DEF Kept, CountersFit
    <3>2. /\ Qtys(doc, PostedOf("SI", n)) \in Nat
          /\ Qtys(doc', PostedOf("SI", n)') \in Nat
          /\ Qtys(doc', PostedOf("SI", n)') <= Qtys(doc, PostedOf("SI", n)) + q
      <4>1. CASE d \in PostedOf("SI", n)
        <5>1. PostedOf("SI", n)' = PostedOf("SI", n)
          BY <1>10, <2>2, <4>1
        <5>2. Qtys(doc, PostedOf("SI", n)) \in Nat
          BY FromRows, QtysAreNat
        <5> QED BY <1>2, <1>12, <5>1, <5>2
      <4>2. CASE d \notin PostedOf("SI", n)
        <5>1. PostedOf("SI", n)' = PostedOf("SI", n) \cup {d}
          BY <1>10, <2>2
        <5>2. doc'[d].qty = q
          BY <1>2, <1>6 DEF Kept, q
        <5>3. /\ PostedOf("SI", n) \subseteq Docs
              /\ \A x \in PostedOf("SI", n) : HasRow(doc, x) /\ x \in Entered
          BY FromRows
        <5>4. \A x \in PostedOf("SI", n) : doc'[x].qty = doc[x].qty
          BY <1>6, <5>3 DEF Kept
        <5>5. QtysJoin(PostedOf("SI", n), d, doc, doc')
          BY <1>2, <4>2, <5>2, <5>3, <5>4 DEF QtysJoin
        <5> QED BY <1>2, <5>1, <5>2, <5>5, QtysGrow
      <4> QED BY <4>1, <4>2
    <3>3. n \in written' /\ n \in Entered /\ n \in written
      BY <1>3, <1>6, <1>11, <2>2
    <3>4. /\ Qtys(doc, PostedOf("SI", n)) <= invoiced[n] /\ invoiced[n] + q <= doc[n].qty
          /\ invoiced[n] \in Nat
      BY <1>1, <1>11, <2>1, <2>2, <3>3 DEF NoteFits
    <3>5. Qtys(doc', PostedOf("SI", n)') <= invoiced'[n] /\ invoiced'[n] <= doc'[n].qty
      BY <1>2, <3>1, <3>2, <3>4
    <3> QED BY <3>3, <3>5 DEF NoteFits
  <2>3. CASE n # note
    <3>1. invoiced'[n] = invoiced[n] /\ PostedOf("SI", n)' = PostedOf("SI", n)
      BY <1>1, <1>10, <2>3
    <3> QED BY <1>6, <1>12, <2>1, <3>1 DEF NoteFits, Kept
  <2> QED BY <2>2, <2>3
<1>14. \A k : Of(k)' = Of(k)
  BY DEF Of
<1> QED BY <1>7, <1>8, <1>13, <1>14 DEF SalesInv

\* A delivery completes its order only at a counter that covers it.
LEMMA SalesAfterDelivery ==
  ASSUME RowsInv, SalesInv, CountersFit, NEW c \in Callers, PostDelivery(c),
         Posts(c, call[c].doc)
  PROVE  SalesInv'
<1> DEFINE d == call[c].doc  order == doc[d].source  q == doc[d].qty
           rows == AsPosted(doc, d, balance[Main].avg, MoneyOf(q, balance[Main].avg))
           taken == call[c].read + q
           state == Fulfilment(rows[order].status, doc[order].qty, taken)
<1>1. /\ Posting(c, "DN") /\ delivered' = [delivered EXCEPT ![order] = taken]
      /\ invoiced' = invoiced /\ returned' = returned
      /\ doc' = [rows EXCEPT ![order].status = state]
  BY DEF PostDelivery, Post, Posted, AsPosted
<1>2. /\ d \in Entered /\ d \in Docs /\ Kind[d] = "DN" /\ q \in Nat \ {0} /\ SourceFits(d)
      /\ call[c].read \in Nat
  BY <1>1, RowOfCall
<1>3. order \in Of("SO") /\ order \in Entered /\ Kind[order] = "SO" /\ order \in Docs
  BY <1>2 DEF SourceFits, Of
<1>4. Posts(c, d)
  OBVIOUS
<1> HIDE DEF d, q
<1>5. Entered' = Entered /\ \A x \in Entered : Kept(x)
  BY <1>4 DEF Posts
<1>6. (\A i \in Of("SI") : InvoiceFits(i)') /\ \A n \in Of("DN") : NoteFits(n)'
  BY <1>1, <1>2, <1>4, ReturnsAfterPosting, NotesAfterPosting
<1>7. taken \in Nat /\ doc[order].qty \in Nat
  BY <1>2, <1>3, EnteredRow, RowFields
<1>8. rows[order] = doc[order] /\ \A x \in Of("SO") : rows[x] = doc[x]
  BY <1>2, <1>3 DEF AsPosted, RowsInv, Of
<1>9. DOMAIN rows = Docs
  BY DEF AsPosted, RowsInv
<1>10. ASSUME NEW o \in Of("SO") PROVE OrderFits(o)'
  <2>1. CASE o = order
    <3>1. delivered'[o] = taken
      BY <1>1, <1>3, <2>1 DEF CountersFit
    <3>2. doc'[o] = [rows[order] EXCEPT !.status = state] /\ doc'[o].qty = doc[order].qty
      BY <1>1, <1>3, <1>5, <1>9, <2>1 DEF Kept
    <3>3. doc[order] \in Document
      BY <1>3, EnteredRow
    <3>4. doc'[o].status = state
      BY <1>8, <3>2, <3>3 DEF Document
    <3>5. state = "COMPLETED" => taken >= doc[order].qty
      BY DEF Fulfilment
    <3> QED BY <2>1, <3>1, <3>2, <3>4, <3>5 DEF OrderFits
  <2>2. CASE o # order
    <3>1. delivered'[o] = delivered[o] /\ doc'[o] = doc[o]
      BY <1>1, <1>8, <1>9, <2>2 DEF Of
    <3> QED BY <1>5, <3>1 DEF SalesInv, OrderFits
  <2> QED BY <2>1, <2>2
<1>11. \A k : Of(k)' = Of(k)
  BY DEF Of
<1> QED BY <1>6, <1>10, <1>11 DEF SalesInv

-----------------------------------------------------------------------------
(* Every step.                                                             *)

TradeInv == RowsInv /\ BooksInv /\ CountersFit /\ SalesInv

\* What a step of one side may do to the counters of the other.
LEMMA CountersStay ==
  ASSUME CountersFit, UNCHANGED salesVars, UNCHANGED purchaseVars
  PROVE  CountersFit'
BY DEF CountersFit, salesVars, purchaseVars, Of

LEMMA SalesCountersStay ==
  ASSUME CountersFit, UNCHANGED salesVars,
         received' \in [Of("PO") -> Nat], billed' \in [Of("GR") -> Nat],
         sentBack' \in [Of("GR") \cup Of("PB") -> Nat]
  PROVE  CountersFit'
BY DEF CountersFit, salesVars, Of

LEMMA PurchaseCountersStay ==
  ASSUME CountersFit, UNCHANGED purchaseVars,
         delivered' \in [Of("SO") -> Nat], invoiced' \in [Of("DN") -> Nat],
         returned' \in [Of("SI") -> Nat]
  PROVE  CountersFit'
BY DEF CountersFit, purchaseVars, Of

LEMMA RestKeeps ==
  ASSUME TradeInv, Rests, RowsInv', UNCHANGED <<stockVars, salesVars, purchaseVars>>
  PROVE  TradeInv' /\ \A x \in written : Books(x)
<1>1. written' = written /\ Entered' = Entered /\ \A x \in Entered : Kept(x) /\ Books(x)
  BY DEF Rests
<1>2. BooksInv'
  BY <1>1, BooksAfterNothing DEF TradeInv
<1>3. SalesInv' /\ CountersFit'
  BY SalesAfterRest, CountersStay DEF TradeInv
<1> QED BY <1>1, <1>2, <1>3 DEF TradeInv, RowsInv

LEMMA DraftKeeps ==
  ASSUME TradeInv, NEW d, Enters(d), SourceFits(d)', UNCHANGED stockVars, CountersFit', SalesInv'
  PROVE  TradeInv' /\ \A x \in written : Books(x)
<1>1. written' = written /\ Entered' = Entered \cup {d} /\ \A x \in Entered : doc'[x] = doc[x]
  BY DEF Enters
<1>2. \A x \in Entered : x \in Entered' /\ Kept(x) /\ Books(x)
  BY <1>1 DEF Kept, Books
<1>3. BooksInv'
  BY <1>1, <1>2, BooksAfterNothing DEF TradeInv
<1>4. RowsInv'
  BY RowsAfterDraft DEF TradeInv
<1> QED BY <1>2, <1>3, <1>4 DEF TradeInv, RowsInv

\* What was posted keeps its figures whatever is posted.
LEMMA PostKeeps ==
  ASSUME NEW c, NEW d, Posts(c, d), RowsInv
  PROVE  \A x \in written : Books(x)
<1>1. \A x \in written : x \in Entered
  BY DEF RowsInv
<1> QED BY <1>1 DEF Posts

\* A request is loaded.
LEMMA CounterBehindIs ==
  ASSUME TradeInv, NEW d \in Entered
  PROVE  CounterBehind(d) \in Nat
<1>1. SourceFits(d) /\ NoDoc \notin Docs /\ CountersFit
  BY KindAssumption DEF TradeInv, RowsInv
<1>2. \A k : Of(k) \subseteq Docs
  BY DEF Of
<1>3. CASE Kind[d] = "GR"
  BY <1>1, <1>2, <1>3 DEF CounterBehind, SourceFits, CountersFit
<1>4. CASE Kind[d] = "PB"
  BY <1>1, <1>2, <1>4 DEF CounterBehind, SourceFits, CountersFit
<1>5. CASE Kind[d] = "PR"
  BY <1>1, <1>2, <1>5 DEF CounterBehind, SourceFits, CountersFit
<1>6. CASE Kind[d] = "DBN"
  BY <1>1, <1>2, <1>6 DEF CounterBehind, SourceFits, CountersFit
<1> QED BY <1>3, <1>4, <1>5, <1>6 DEF CounterBehind

LEMMA BeginKeeps ==
  ASSUME TradeInv, NEW c \in Callers, NEW step \in Steps, NEW d \in Entered, Begin(c, step, d)
  PROVE  TradeInv' /\ \A x \in written : Books(x)
<1>1. RowsInv /\ CountersFit /\ UNCHANGED <<stockVars, salesVars, purchaseVars>>
  BY DEF Begin, LoadSales, LoadPurchase, LoadDelivery, TradeInv
<1>2. \E read \in Nat : Load(c, step, d, read)
  <2>1. CASE LoadDelivery(c, d) /\ step = "post"
    <3>1. Kind[d] = "DN" /\ Load(c, step, d, delivered[doc[d].source])
      BY <2>1 DEF LoadDelivery
    <3>2. doc[d].source \in Of("SO")
      BY <1>1, <3>1 DEF RowsInv, SourceFits
    <3>3. delivered[doc[d].source] \in Nat
      BY <1>1, <3>2 DEF CountersFit
    <3> QED BY <3>1, <3>3
  <2>2. CASE LoadPurchase(c, step, d)
    BY <2>2, CounterBehindIs DEF LoadPurchase
  <2>3. CASE LoadSales(c, step, d) \/ Load(c, step, d, 0)
    BY <2>3 DEF LoadSales
  <2> QED BY <2>1, <2>2, <2>3 DEF Begin
<1>3. Rests /\ RowsInv'
  BY <1>1, <1>2, LoadIs
<1> QED BY <1>1, <1>3, RestKeeps

LEMMA DecisionKeeps ==
  ASSUME TradeInv, NEW c \in Callers, Decide(c) \/ Abandon(c),
         UNCHANGED <<stockVars, salesVars, purchaseVars>>
  PROVE  TradeInv' /\ \A x \in written : Books(x)
<1>1. Rests /\ RowsInv'
  BY DecideIs, AbandonIs DEF TradeInv
<1> QED BY <1>1, RestKeeps

\* A draft is entered.
LEMMA EnteredHasRow == ASSUME NEW d, Enters(d) PROVE HasRow(doc', d)
<1>1. Entered' = {x \in Docs : doc'[x].status \in DocumentStatus}
  BY DEF Entered, Exists
<1>2. Entered' = RowsOf(doc') /\ d \in Entered'
  BY <1>1, EnteredIs DEF Enters
<1> QED BY <1>2 DEF RowsOf

LEMMA SourceThen ==
  ASSUME NEW d, Enters(d), RowsInv
  PROVE  \A x \in Entered : x \in Entered' /\ \A k : x \in WrittenOf(k) => x \in WrittenOf(k)'
BY DEF Enters, WrittenOf, Of

LEMMA PlainDraftKeeps ==
  ASSUME TradeInv, NEW d \in Docs, NEW source \in Docs \cup {NoDoc}, NEW q, NEW cost \in Nat,
         NEW how \in Effects, Draft(d, source, q, cost, how),
         Enters(d) /\ doc'[d].source = source => SourceFits(d)',
         Kind[d] \notin {"SR", "CN"}, UNCHANGED <<stockVars, salesVars, purchaseVars>>
  PROVE  TradeInv' /\ \A x \in written : Books(x)
<1>1. Enters(d) /\ SourceFits(d)'
  BY DraftIs DEF TradeInv
<1>2. SalesInv' /\ CountersFit'
  BY <1>1, SalesAfterDraft, CountersStay DEF TradeInv
<1> QED BY <1>1, <1>2, DraftKeeps

LEMMA OrderDraftKeeps ==
  ASSUME TradeInv, NEW d \in Docs, CreateOrder(d) \/ CreatePurchaseOrder(d),
         UNCHANGED <<salesVars, purchaseVars>>
  PROVE  TradeInv' /\ \A x \in written : Books(x)
<1>1. PICK q \in Quantities : Draft(d, NoDoc, q, 0, "")
  BY DEF CreateOrder, CreatePurchaseOrder
<1>2. Kind[d] \in {"SO", "PO"} /\ UNCHANGED stockVars
  BY DEF CreateOrder, CreatePurchaseOrder
<1>3. doc'[d].source = NoDoc => SourceFits(d)'
  BY <1>2 DEF SourceFits
<1>4. NoDoc \in Docs \cup {NoDoc} /\ 0 \in Nat /\ "" \in Effects
  BY DEF Effects
<1> QED BY <1>1, <1>2, <1>3, <1>4, PlainDraftKeeps

LEMMA DeliveryDraftKeeps ==
  ASSUME TradeInv, NEW d \in Docs, NEW source \in Entered,
         DraftDelivery(d, source) \/ DraftInvoice(d, source), UNCHANGED purchaseVars
  PROVE  TradeInv' /\ \A x \in written : Books(x)
<1>1. PICK q \in Quantities : Draft(d, source, q, 0, "")
  BY DEF DraftDelivery, DraftInvoice
<1>2. Kind[d] \in {"DN", "SI"} /\ UNCHANGED <<stockVars, salesVars>>
  BY DEF DraftDelivery, DraftInvoice
<1>3. /\ Kind[d] = "DN" => source \in Of("SO")
      /\ Kind[d] = "SI" => source \in WrittenOf("DN")
  <2>1. CASE Kind[d] = "DN"
    BY <2>1 DEF DraftDelivery, DraftInvoice
  <2>2. CASE Kind[d] = "SI"
    <3>1. source \in Of("DN") /\ doc[source].status = "POSTED" /\ Kind[source] = "DN"
      BY <2>2 DEF DraftDelivery, DraftInvoice, Of
    <3>2. source \in written
      BY <3>1 DEF TradeInv, RowsInv, StatusFits
    <3> QED BY <2>2, <3>1, <3>2 DEF WrittenOf
  <2> QED BY <2>1, <2>2
<1>4. ASSUME Enters(d), doc'[d].source = source PROVE SourceFits(d)'
  <2>1. source \in Entered' /\ \A k : source \in WrittenOf(k) => source \in WrittenOf(k)'
    BY <1>4, SourceThen DEF TradeInv
  <2> QED BY <1>2, <1>3, <1>4, <2>1 DEF SourceFits, Of
<1>5. source \in Docs \cup {NoDoc} /\ 0 \in Nat /\ "" \in Effects
  BY DEF Entered, Effects
<1> QED BY <1>1, <1>2, <1>4, <1>5, PlainDraftKeeps

LEMMA StockDraftKeeps ==
  ASSUME TradeInv, NEW d \in Docs, DraftTransfer(d) \/ DraftAdjustment(d),
         UNCHANGED <<salesVars, purchaseVars>>
  PROVE  TradeInv' /\ \A x \in written : Books(x)
<1>1. balance[Main].avg \in Nat /\ Costs \subseteq Nat
  BY StockAssumption DEF TradeInv, BooksInv, StockFits, Balance
<1>2. \E q \in Quantities, cost \in Nat, how \in Effects : Draft(d, NoDoc, q, cost, how)
  BY <1>1 DEF DraftTransfer, DraftAdjustment, Effects
<1>3. PICK q \in Quantities, cost \in Nat, how \in Effects : Draft(d, NoDoc, q, cost, how)
  BY <1>2
<1>4. Kind[d] \in {"ST", "SA"} /\ UNCHANGED stockVars
  BY DEF DraftTransfer, DraftAdjustment
<1>5. doc'[d].source = NoDoc => SourceFits(d)'
  BY <1>4 DEF SourceFits
<1>6. NoDoc \in Docs \cup {NoDoc}
  OBVIOUS
<1> QED BY <1>3, <1>4, <1>5, <1>6, PlainDraftKeeps

LEMMA PurchaseDraftKeeps ==
  ASSUME TradeInv, NEW d \in Docs, NEW source \in Entered \cup {NoDoc}, DraftPurchase(d, source),
         UNCHANGED salesVars
  PROVE  TradeInv' /\ \A x \in written : Books(x)
<1>1. \E q \in Quantities, cost \in Nat, how \in Effects : Draft(d, source, q, cost, how)
  BY StockAssumption DEF DraftPurchase, Effects
<1>2. PICK q \in Quantities, cost \in Nat, how \in Effects : Draft(d, source, q, cost, how)
  BY <1>1
<1>3. /\ Kind[d] \in {"GR", "PB", "PR", "DBN"} /\ source \in Origins(Kind[d])
      /\ UNCHANGED <<stockVars, purchaseVars>>
  BY DEF DraftPurchase
<1>4. source \in Docs \cup {NoDoc}
  BY DEF Entered
<1>5. /\ Kind[d] = "GR" => source \in {NoDoc} \cup Of("PO")
      /\ Kind[d] = "PB" => source \in {NoDoc} \cup Of("GR")
      /\ Kind[d] = "PR" => source \in Of("GR") \cup Of("PB")
      /\ Kind[d] = "DBN" => source \in Of("PR") \cup Of("PB")
  BY <1>3 DEF Origins
<1>6. NoDoc \notin Of("GR") \cup Of("PR") \cup Of("PB") \cup Of("PO")
  BY KindAssumption DEF Of
<1>7. ASSUME Enters(d), doc'[d].source = source PROVE SourceFits(d)'
  <2>1. source # NoDoc => source \in Entered'
    BY <1>7, SourceThen DEF TradeInv
  <2>2. \A k : Of(k)' = Of(k)
    BY DEF Of
  <2> QED BY <1>3, <1>5, <1>6, <1>7, <2>1, <2>2 DEF SourceFits
<1> QED BY <1>2, <1>3, <1>4, <1>7, PlainDraftKeeps

LEMMA ReturnDraftKeeps ==
  ASSUME TradeInv, NEW d \in Docs, NEW source \in Entered, DraftReturn(d, source),
         UNCHANGED purchaseVars
  PROVE  TradeInv' /\ \A x \in written : Books(x)
<1> DEFINE cost == doc[doc[source].source].cost
<1>1. PICK q \in Quantities, how \in {"RESTOCK", "WRITE_OFF", "NO_STOCK_EFFECT"} :
        /\ q <= RemainingToReturn(source)
        /\ Draft(d, source, q, cost, how)
        /\ returned' = [returned EXCEPT ![source] = returned[source] + q]
  BY DEF DraftReturn
<1>2. /\ Kind[d] = "SR" /\ source \in Of("SI") /\ Kind[source] = "SI"
      /\ doc[source].status \in {"POSTED", "PARTIAL", "COMPLETED"}
      /\ UNCHANGED <<stockVars, delivered, invoiced>>
  BY DEF DraftReturn, Of
<1>3. cost \in Nat
  <2>1. doc[source].source \in WrittenOf("DN")
    BY <1>2 DEF TradeInv, RowsInv, SourceFits
  <2>2. doc[source].source \in Entered
    BY <2>1 DEF WrittenOf, TradeInv, RowsInv
  <2> QED BY <2>2, EnteredRow, RowFields DEF TradeInv
<1>4. source \in WrittenOf("SI") /\ source \in Docs
  BY <1>2 DEF TradeInv, RowsInv, StatusFits, WrittenOf, Entered
<1> HIDE DEF cost
<1>5. how \in Effects /\ source \in Docs \cup {NoDoc}
  BY <1>4 DEF Effects
<1>6. Enters(d) /\ doc'[d].source = source /\ doc'[d].qty = q
  BY <1>1, <1>3, <1>5, DraftIs DEF TradeInv
<1>7. HasRow(doc', d)
  BY <1>6, EnteredHasRow
<1>8. SourceFits(d)'
  <2>1. source \in WrittenOf("SI")'
    BY <1>4, <1>6, SourceThen DEF TradeInv
  <2> QED BY <1>2, <1>6, <2>1 DEF SourceFits
<1>9. returned \in [Of("SI") -> Nat]
  BY DEF TradeInv, CountersFit
<1>10. SalesInv'
  BY <1>1, <1>6, <1>7, <1>9, SalesAfterReturnDraft DEF TradeInv
<1>11. CountersFit'
  <2>1. returned' \in [Of("SI") -> Nat]
    BY <1>1, <1>2, <1>9, QuantityAssumption
  <2> QED BY <1>2, <2>1, PurchaseCountersStay DEF TradeInv, CountersFit
<1> QED BY <1>2, <1>6, <1>8, <1>10, <1>11, DraftKeeps

LEMMA CreditDraftKeeps ==
  ASSUME TradeInv, NEW d \in Docs, NEW source \in Entered, DraftCredit(d, source),
         UNCHANGED purchaseVars
  PROVE  TradeInv' /\ \A x \in written : Books(x)
<1>1. PICK q \in Quantities : q <= RemainingToCredit(source) /\ Draft(d, source, q, 0, "")
  BY DEF DraftCredit
<1>2. /\ Kind[d] = "CN" /\ source \in Of("SI") /\ Kind[source] = "SI"
      /\ doc[source].status \in {"POSTED", "PARTIAL", "COMPLETED"}
      /\ UNCHANGED <<stockVars, salesVars>>
  BY DEF DraftCredit, Of
<1>3. source \in WrittenOf("SI") /\ source \in Docs
  BY <1>2 DEF TradeInv, RowsInv, StatusFits, WrittenOf, Entered
<1>4. "" \in Effects /\ source \in Docs \cup {NoDoc} /\ 0 \in Nat
  BY <1>3 DEF Effects
<1>5. Enters(d) /\ doc'[d].source = source /\ doc'[d].qty = q
  BY <1>1, <1>4, DraftIs DEF TradeInv
<1>6. HasRow(doc', d)
  BY <1>5, EnteredHasRow
<1>7. SourceFits(d)'
  <2>1. source \in WrittenOf("SI")'
    BY <1>3, <1>5, SourceThen DEF TradeInv
  <2> QED BY <1>2, <1>5, <2>1 DEF SourceFits
<1>8. q + Qtys(doc, From("CN", source)) <= doc[source].qty
  <2>1. Qtys(doc, From("CN", source)) \in Nat
    BY FromRows, QtysAreNat DEF TradeInv
  <2>2. q <= doc[source].qty - Qtys(doc, From("CN", source))
    BY <1>1 DEF RemainingToCredit, Credited, QtyOf, SumOver, Qtys
  <2>3. doc[source].qty \in Nat /\ q \in Nat
    BY EnteredRow, RowFields, QuantityAssumption DEF TradeInv
  <2> QED BY <2>1, <2>2, <2>3
<1>9. SalesInv'
  BY <1>5, <1>6, <1>8, SalesAfterCreditDraft DEF TradeInv
<1>10. CountersFit'
  BY <1>2, CountersStay DEF TradeInv
<1> QED BY <1>2, <1>5, <1>7, <1>9, <1>10, DraftKeeps

LEMMA EnterKeeps ==
  ASSUME TradeInv, NEW d \in Docs, Enter(d)
  PROVE  TradeInv' /\ \A x \in written : Books(x)
<1>1. CASE (CreateOrder(d) /\ UNCHANGED purchaseVars) \/ (CreatePurchaseOrder(d) /\ UNCHANGED salesVars)
  <2>1. UNCHANGED <<salesVars, purchaseVars>>
    BY <1>1 DEF CreateOrder, CreatePurchaseOrder
  <2> QED BY <1>1, <2>1, OrderDraftKeeps
<1>2. ASSUME NEW s \in Entered, DraftDelivery(d, s) \/ DraftInvoice(d, s), UNCHANGED purchaseVars
      PROVE  TradeInv' /\ \A x \in written : Books(x)
  BY <1>2, DeliveryDraftKeeps
<1>3. ASSUME NEW s \in Entered, DraftReturn(d, s), UNCHANGED purchaseVars
      PROVE  TradeInv' /\ \A x \in written : Books(x)
  BY <1>3, ReturnDraftKeeps
<1>4. ASSUME NEW s \in Entered, DraftCredit(d, s), UNCHANGED purchaseVars
      PROVE  TradeInv' /\ \A x \in written : Books(x)
  BY <1>4, CreditDraftKeeps
<1>5. ASSUME NEW s \in Entered \cup {NoDoc}, DraftPurchase(d, s), UNCHANGED salesVars
      PROVE  TradeInv' /\ \A x \in written : Books(x)
  BY <1>5, PurchaseDraftKeeps
<1>6. CASE (DraftTransfer(d) \/ DraftAdjustment(d)) /\ UNCHANGED <<salesVars, purchaseVars>>
  BY <1>6, StockDraftKeeps
<1> QED BY <1>1, <1>2, <1>3, <1>4, <1>5, <1>6 DEF Enter

\* A document is posted.
LEMMA TakenIs ==
  ASSUME RowsInv, NEW c \in Callers, NEW kind, Posting(c, kind), NEW S, NEW counter \in [S -> Nat]
  PROVE  Taken(counter, c) \in [S -> Nat]
<1>1. call[c].read \in Nat /\ doc[call[c].doc].qty \in Nat
  BY RowOfCall
<1> QED BY <1>1 DEF Taken

LEMMA AsPostedBy ==
  ASSUME NEW c, NEW cost, NEW value, Post(c, Posted(call[c].doc, cost, value))
  PROVE  doc' = AsPosted(doc, call[c].doc, cost, value)
BY DEF Post, Posted, AsPosted

LEMMA SalesPostKeeps ==
  ASSUME TradeInv, NEW c \in Callers, UNCHANGED purchaseVars,
         PostDelivery(c) \/ PostInvoice(c) \/ PostReturn(c) \/ PostCredit(c)
  PROVE  TradeInv' /\ \A x \in written : Books(x)
<1> DEFINE d == call[c].doc
<1>1. Posts(c, d) /\ RowsInv' /\ BooksInv'
  BY DeliveryPosted, InvoicePosted, ReturnPosted, CreditPosted DEF TradeInv
<1>2. \A x \in written : Books(x)
  BY <1>1, PostKeeps DEF TradeInv
<1>3. CASE PostDelivery(c)
  <2>1. SalesInv'
    BY <1>1, <1>3, SalesAfterDelivery DEF TradeInv
  <2>2. /\ Posting(c, "DN")
        /\ delivered' = [delivered EXCEPT ![doc[d].source] = call[c].read + doc[d].qty]
        /\ UNCHANGED <<invoiced, returned>>
    BY <1>3 DEF PostDelivery
  <2>3. call[c].read + doc[d].qty \in Nat
    <3>1. call[c].read \in Nat /\ doc[d].qty \in Nat
      BY <2>2, RowOfCall DEF TradeInv
    <3> QED BY <3>1
  <2>4. delivered \in [Of("SO") -> Nat]
        /\ invoiced' \in [Of("DN") -> Nat] /\ returned' \in [Of("SI") -> Nat]
    BY <2>2 DEF TradeInv, CountersFit
  <2> HIDE DEF d
  <2>5. delivered' \in [Of("SO") -> Nat]
    BY <2>2, <2>3, <2>4
  <2>6. CountersFit'
    BY <2>4, <2>5, PurchaseCountersStay DEF TradeInv
  <2> QED BY <1>1, <1>2, <2>1, <2>6 DEF TradeInv
<1>4. CASE PostInvoice(c)
  <2>1. SalesInv'
    BY <1>1, <1>4, SalesAfterInvoice DEF TradeInv
  <2>2. /\ Posting(c, "SI")
        /\ invoiced' = [invoiced EXCEPT ![doc[d].source] = invoiced[doc[d].source] + doc[d].qty]
        /\ UNCHANGED <<delivered, returned>>
    BY <1>4 DEF PostInvoice
  <2>3. doc[d].qty \in Nat
    BY <2>2, RowOfCall DEF TradeInv
  <2>4. invoiced \in [Of("DN") -> Nat]
        /\ delivered' \in [Of("SO") -> Nat] /\ returned' \in [Of("SI") -> Nat]
    BY <2>2 DEF TradeInv, CountersFit
  <2> HIDE DEF d
  <2>5. invoiced' \in [Of("DN") -> Nat]
    <3> DEFINE s == doc[d].source  new == invoiced[s] + doc[d].qty
    <3>1. s \in Of("DN") => new \in Nat
      BY <2>3, <2>4
    <3>2. invoiced' = [invoiced EXCEPT ![s] = new]
      BY <2>2
    <3> HIDE DEF s, new
    <3> QED BY <2>4, <3>1, <3>2
  <2>6. CountersFit'
    BY <2>4, <2>5, PurchaseCountersStay DEF TradeInv
  <2> QED BY <1>1, <1>2, <2>1, <2>6 DEF TradeInv
<1>5. CASE PostReturn(c) \/ PostCredit(c)
  <2>1. UNCHANGED salesVars /\ \E k \in {"SR", "CN"} : Posting(c, k)
    BY <1>5 DEF PostReturn, PostCredit
  <2>2. Kind[d] \notin {"SI", "SO"}
    BY <2>1 DEF Posting
  <2>3. \E cost, value : doc' = AsPosted(doc, d, cost, value)
    BY <1>5, AsPostedBy DEF PostReturn, PostCredit
  <2>4. SalesInv'
    BY <1>1, <2>1, <2>2, <2>3, SalesAfterOther DEF TradeInv
  <2>5. CountersFit'
    BY <2>1, CountersStay DEF TradeInv
  <2> QED BY <1>1, <1>2, <2>4, <2>5 DEF TradeInv
<1> QED BY <1>3, <1>4, <1>5

LEMMA PurchasePostKeeps ==
  ASSUME TradeInv, NEW c \in Callers, UNCHANGED salesVars,
         PostReceipt(c) \/ PostBill(c) \/ PostPurchaseReturn(c) \/ PostDebitNote(c)
  PROVE  TradeInv' /\ \A x \in written : Books(x)
<1> DEFINE d == call[c].doc
<1>1. Posts(c, d) /\ RowsInv' /\ BooksInv'
  BY ReceiptPosted, BillPosted, PurchaseReturnPosted, DebitNotePosted DEF TradeInv
<1>2. \E k \in {"GR", "PB", "PR", "DBN"} : Posting(c, k)
  BY DEF PostReceipt, PostBill, PostPurchaseReturn, PostDebitNote
<1>3. Kind[d] \notin {"SI", "SO"}
  BY <1>2 DEF Posting
<1>4. \E cost, value : doc' = AsPosted(doc, d, cost, value)
  BY AsPostedBy DEF PostReceipt, PostBill, PostPurchaseReturn, PostDebitNote
<1>5. SalesInv'
  BY <1>1, <1>3, <1>4, SalesAfterOther DEF TradeInv
<1>6. /\ Taken(received, c) \in [Of("PO") -> Nat] /\ Taken(billed, c) \in [Of("GR") -> Nat]
      /\ Taken(sentBack, c) \in [Of("GR") \cup Of("PB") -> Nat]
  BY <1>2, TakenIs DEF TradeInv, CountersFit
<1>7. /\ received' \in {received, Taken(received, c)} /\ billed' \in {billed, Taken(billed, c)}
      /\ sentBack' \in {sentBack, Taken(sentBack, c)}
  BY DEF PostReceipt, PostBill, PostPurchaseReturn, PostDebitNote
<1>8. CountersFit'
  <2>1. /\ received' \in [Of("PO") -> Nat] /\ billed' \in [Of("GR") -> Nat]
        /\ sentBack' \in [Of("GR") \cup Of("PB") -> Nat]
    BY <1>6, <1>7 DEF TradeInv, CountersFit
  <2> QED BY <2>1, SalesCountersStay DEF TradeInv
<1> QED BY <1>1, <1>5, <1>8, PostKeeps DEF TradeInv

LEMMA StockPostKeeps ==
  ASSUME TradeInv, NEW c \in Callers, UNCHANGED <<salesVars, purchaseVars>>,
         PostAdjustment(c) \/ \E to \in Warehouses : PostTransfer(c, to)
  PROVE  TradeInv' /\ \A x \in written : Books(x)
<1> DEFINE d == call[c].doc
<1>1. Posts(c, d) /\ RowsInv' /\ BooksInv'
  BY AdjustmentPosted, TransferPosted DEF TradeInv
<1>2. \E k \in {"SA", "ST"} : Posting(c, k)
  BY DEF PostAdjustment, PostTransfer
<1>3. Kind[d] \notin {"SI", "SO"}
  BY <1>2 DEF Posting
<1>4. \E cost, value : doc' = AsPosted(doc, d, cost, value)
  BY AsPostedBy DEF PostAdjustment, PostTransfer
<1>5. SalesInv'
  BY <1>1, <1>3, <1>4, SalesAfterOther DEF TradeInv
<1> QED BY <1>1, <1>5, CountersStay, PostKeeps DEF TradeInv

LEMMA NothingKeeps ==
  ASSUME TradeInv, UNCHANGED tradeVars
  PROVE  TradeInv' /\ \A x \in written : Books(x)
<1>1. /\ UNCHANGED <<doc, written, call>> /\ UNCHANGED <<stockVars, salesVars, purchaseVars>>
  BY DEF tradeVars, docVars
<1>2. Rests
  BY <1>1, NoRowsMove DEF TradeInv
<1>3. RowsInv'
  <2>1. Entered' = Entered /\ \A k : WrittenOf(k)' = WrittenOf(k)
    BY <1>1 DEF Entered, Exists, WrittenOf, Of
  <2>2. \A x \in Entered : SourceFits(x)' /\ PriceFits(x)' /\ StatusFits(x)'
    BY <1>1, <2>1 DEF TradeInv, RowsInv, SourceFits, PriceFits, StatusFits, MovesNothing
  <2> QED BY <1>1, <2>1, <2>2 DEF TradeInv, RowsInv, CallFits
<1> QED BY <1>1, <1>2, <1>3, RestKeeps

LEMMA EveryStepKeeps ==
  ASSUME TradeInv, [TradeNext]_tradeVars
  PROVE  TradeInv' /\ \A x \in written : Books(x)
<1>1. ASSUME NEW d \in Docs, Enter(d) PROVE TradeInv' /\ \A x \in written : Books(x)
  BY <1>1, EnterKeeps
<1>2. ASSUME NEW c \in Callers, NEW step \in Steps, NEW d \in Entered, Begin(c, step, d)
      PROVE  TradeInv' /\ \A x \in written : Books(x)
  BY <1>2, BeginKeeps
<1>3. ASSUME NEW c \in Callers, Write(c) PROVE TradeInv' /\ \A x \in written : Books(x)
  BY <1>3, DecisionKeeps, SalesPostKeeps, PurchasePostKeeps, StockPostKeeps DEF Write
<1>4. ASSUME NEW c \in Callers, Abandon(c), UNCHANGED <<stockVars, salesVars, purchaseVars>>
      PROVE  TradeInv' /\ \A x \in written : Books(x)
  BY <1>4, DecisionKeeps
<1> QED BY <1>1, <1>2, <1>3, <1>4, NothingKeeps DEF TradeNext

-----------------------------------------------------------------------------
(* The initial states.                                                     *)

LEMMA RowsInitially ==
  ASSUME DocumentsInit
  PROVE  /\ RowsInv /\ written = {}
         /\ \A x \in Entered : Kind[x] \in {"SO", "PO"} /\ doc[x].status = "APPROVED"
<1>1. PICK plan \in Plans, q \in Quantities :
        doc = [d \in Docs |->
          IF d \notin plan THEN Unused
          ELSE IF d \notin Approved THEN Blank
          ELSE [status |-> "APPROVED", source |-> NoDoc, qty |-> q, cost |-> 0,
                value |-> 0, how |-> ""]]
  BY DEF DocumentsInit
<1>2. written = {} /\ call = [c \in Callers |-> Idle]
  BY DEF DocumentsInit
<1>3. doc \in [Docs -> Document \cup {Blank, Unused}]
  BY <1>1 DEF Document, DocumentStatus, Effects
<1>4. ASSUME NEW x \in Entered
      PROVE  /\ Kind[x] \in {"SO", "PO"} /\ doc[x].status = "APPROVED"
             /\ doc[x].source = NoDoc /\ doc[x].value = 0
  <2>1. x \in Docs /\ doc[x].status \in DocumentStatus
    BY DEF Entered, Exists
  <2>2. x \in Approved
    BY <1>1, <2>1 DEF Blank, Unused, DocumentStatus
  <2> QED BY <1>1, <2>1, <2>2, PlanAssumption DEF Unused, DocumentStatus
<1>5. \A x \in Entered : SourceFits(x) /\ PriceFits(x) /\ StatusFits(x)
  BY <1>2, <1>4 DEF SourceFits, PriceFits, StatusFits
<1> QED BY <1>2, <1>3, <1>4, <1>5 DEF RowsInv, CallFits

NoStock == [qty |-> 0, value |-> 0, avg |-> 0]

LEMMA OpeningIs ==
  /\ NoStock \in Balance /\ NoMoves \in Movements /\ Costed(NoStock, NoMoves)
  /\ In(NoStock, OpeningStock, OpeningCost) \in Balance
  /\ AddIn(NoMoves, OpeningStock, OpeningCost) \in Movements
  /\ Costed(In(NoStock, OpeningStock, OpeningCost), AddIn(NoMoves, OpeningStock, OpeningCost))
  /\ In(NoStock, OpeningStock, OpeningCost).qty = OpeningStock
  /\ AddIn(NoMoves, OpeningStock, OpeningCost) =
       [received |-> OpeningStock, receivedValue |-> MoneyOf(OpeningStock, OpeningCost),
        shipped |-> 0, shippedValue |-> 0, shipments |-> 0]
<1> DEFINE q == OpeningStock  cost == OpeningCost  m == MoneyOf(q, cost)
<1>1. q \in Nat /\ cost \in Nat /\ Scale \in Nat \ {0} /\ m \in Nat
  BY StockAssumption, MoneyIs
<1>2. NoStock \in Balance /\ NoMoves \in Movements
  BY DEF NoStock, NoMoves, Balance, Movements
<1>3. Costed(NoStock, NoMoves)
  BY <1>1 DEF NoStock, NoMoves, Costed, Within2, Drift, Gap, Bound
<1>4. AddIn(NoMoves, q, cost) =
        [received |-> q, receivedValue |-> m, shipped |-> 0, shippedValue |-> 0, shipments |-> 0]
  <2>1. NoMoves.received + q = q /\ NoMoves.receivedValue + m = m
    <3> HIDE DEF m
    <3> QED BY <1>1 DEF NoMoves
  <2>2. AddIn(NoMoves, q, cost) = [NoMoves EXCEPT !.received = q, !.receivedValue = m]
    BY <2>1 DEF AddIn
  <2> HIDE DEF m
  <2> QED BY <2>2 DEF NoMoves
<1>5. AddIn(NoMoves, q, cost) \in Movements
  BY <1>1, <1>4 DEF Movements
<1>6. CASE q = 0
  <2>1. q * cost = 0
    BY <1>1, <1>6
  <2>2. m = 0
    <3>1. 2 * (Scale * m) <= 2 * (q * cost) + Scale
      BY <1>1, MoneyIs
    <3>2. 2 * (Scale * m) <= Scale
      BY <1>1, <2>1, <3>1
    <3>3. m >= 1 => Scale * m >= Scale
      BY <1>1
    <3> QED BY <1>1, <3>2, <3>3
  <2>3. In(NoStock, q, cost) = NoStock
    BY <1>1, <1>6, <2>2 DEF In, NoStock
  <2>4. AddIn(NoMoves, q, cost) = NoMoves
    BY <1>4, <1>6, <2>2 DEF NoMoves
  <2> QED BY <1>2, <1>3, <1>4, <1>5, <1>6, <2>3, <2>4 DEF NoStock
<1>7. CASE q # 0
  <2>1. q \in Nat \ {0} /\ m * Scale \in Nat
    BY <1>1, <1>7
  <2> DEFINE a == Rounded(m * Scale, q)
  <2>2. In(NoStock, q, cost) = [qty |-> q, value |-> m, avg |-> a]
    BY <1>1, <2>1 DEF In, NoStock
  <2>3. a \in Nat
    BY <2>1, HalfIs DEF Rounded
  <2> HIDE DEF a, m
  <2>4. CostIsValid(In(NoStock, q, cost)) /\ In(NoStock, q, cost) \in Balance
        /\ In(NoStock, q, cost).qty = q
    BY <1>1, <2>2, <2>3 DEF CostIsValid, Balance
  <2>5. Costed(In(NoStock, q, cost), AddIn(NoMoves, q, cost))
    BY <1>1, <1>2, <1>3, <2>1, InKeeps
  <2> QED BY <1>2, <1>3, <1>4, <1>5, <2>4, <2>5 DEF m
<1> QED BY <1>6, <1>7

LEMMA StockInitially ==
  ASSUME StockInit
  PROVE  /\ StockFits(balance, moved) /\ Shipped(moved) = 0 /\ Received(moved) = OpeningStock
         /\ gl \in [Accounts -> Int] /\ InLedger(gl) = Net(moved) /\ InLedger(gl) \in Int
         /\ gl["GOODS_IN_TRANSIT"] = 0
<1> DEFINE worth == MoneyOf(OpeningStock, OpeningCost)
           first == AddIn(NoMoves, OpeningStock, OpeningCost)
           still == [w \in Warehouses |-> NoMoves]
           flat == [a \in Accounts |-> 0]
           paid == Adding(flat, "INVENTORY", worth)
<1>1. /\ balance = [w \in Warehouses |->
           IF w = Main THEN In(NoStock, OpeningStock, OpeningCost) ELSE NoStock]
      /\ moved = [w \in Warehouses |-> IF w = Main THEN first ELSE NoMoves]
      /\ gl = [a \in Accounts |-> CASE a = "INVENTORY" -> worth
                                    [] a = "ACCOUNTS_PAYABLE" -> -worth
                                    [] OTHER -> 0]
  BY DEF StockInit, NoStock
<1>2. Main \in Warehouses /\ worth \in Nat /\ IsFiniteSet(Warehouses)
      /\ OpeningStock \in Nat
  BY StockAssumption, MoneyIs
<1>3. /\ first \in Movements
      /\ first.received = OpeningStock /\ first.shipped = 0
      /\ first.receivedValue - first.shippedValue = worth
  <2>1. worth - 0 = worth
    BY <1>2
  <2> QED BY <2>1, OpeningIs
<1>4. StockFits(balance, moved)
  <2>1. /\ balance \in [Warehouses -> Balance] /\ moved \in [Warehouses -> Movements]
    BY <1>1, <1>3, OpeningIs
  <2>2. \A w \in Warehouses : Costed(balance[w], moved[w])
    BY <1>1, OpeningIs
  <2>3. \A w \in Warehouses : balance[w].qty = moved[w].received - moved[w].shipped
    <3>1. OpeningStock = OpeningStock - 0 /\ 0 = 0 - 0
      BY <1>2
    <3>2. NoStock.qty = 0 /\ NoMoves.received = 0 /\ NoMoves.shipped = 0
      BY DEF NoStock, NoMoves
    <3>3. In(NoStock, OpeningStock, OpeningCost).qty = OpeningStock
      BY OpeningIs
    <3> HIDE DEF first
    <3> QED BY <1>1, <1>3, <3>1, <3>2, <3>3
  <2> QED BY <2>1, <2>2, <2>3 DEF StockFits
<1> HIDE DEF first, worth
<1>5. still \in [Warehouses -> Movements] /\ moved = [still EXCEPT ![Main] = first]
  BY <1>1, <1>2, OpeningIs
<1>6. Net(still) = 0 /\ Shipped(still) = 0 /\ Received(still) = 0
  <2>1. NoMoves.received = 0 /\ NoMoves.shipped = 0
        /\ NoMoves.receivedValue - NoMoves.shippedValue = 0
    BY DEF NoMoves
  <2>2. Net(still) = 0
    <3> DEFINE f == [w \in Warehouses |-> still[w].receivedValue - still[w].shippedValue]
    <3>1. \A w \in Warehouses : f[w] = 0
      BY <2>1
    <3>2. SumFunctionOnSet(f, Warehouses) = 0
      <4> HIDE DEF f
      <4> QED BY <1>2, <3>1, SumOfZeros
    <3> QED BY <3>2 DEF Net
  <2>3. Shipped(still) = 0
    <3> DEFINE f == [w \in Warehouses |-> still[w].shipped]
    <3>1. \A w \in Warehouses : f[w] = 0
      BY <2>1
    <3>2. SumFunctionOnSet(f, Warehouses) = 0
      <4> HIDE DEF f
      <4> QED BY <1>2, <3>1, SumOfZeros
    <3> QED BY <3>2 DEF Shipped
  <2>4. Received(still) = 0
    <3> DEFINE f == [w \in Warehouses |-> still[w].received]
    <3>1. \A w \in Warehouses : f[w] = 0
      BY <2>1
    <3>2. SumFunctionOnSet(f, Warehouses) = 0
      <4> HIDE DEF f
      <4> QED BY <1>2, <3>1, SumOfZeros
    <3> QED BY <3>2 DEF Received
  <2> QED BY <2>2, <2>3, <2>4
<1>7. still[Main].received = 0 /\ still[Main].shipped = 0
      /\ still[Main].receivedValue - still[Main].shippedValue = 0
  BY <1>2 DEF NoMoves
<1> HIDE DEF still
<1>8. Net(moved) = worth /\ Shipped(moved) = 0 /\ Received(moved) = OpeningStock
  <2>1. /\ Net(moved) = Net(still) + ((first.receivedValue - first.shippedValue)
                          - (still[Main].receivedValue - still[Main].shippedValue))
        /\ Shipped(moved) = Shipped(still) + (first.shipped - still[Main].shipped)
        /\ Received(moved) = Received(still) + (first.received - still[Main].received)
    BY <1>2, <1>3, <1>5, OneWarehouse
  <2> QED BY <1>2, <1>3, <1>6, <1>7, <2>1
<1>9. /\ "INVENTORY" \in Accounts /\ "INVENTORY" \in InventoryAccounts
      /\ "ACCOUNTS_PAYABLE" \in Accounts /\ "ACCOUNTS_PAYABLE" \notin InventoryAccounts
      /\ "GOODS_IN_TRANSIT" \in Accounts
  BY AccountsAre DEF OtherAccounts
<1>10. flat \in [Accounts -> Int] /\ InLedger(flat) = 0
  <2> DEFINE f == [a \in InventoryAccounts |-> flat[a]]
  <2>1. \A a \in InventoryAccounts : f[a] = 0
    BY AccountsAre
  <2>2. SumFunctionOnSet(f, InventoryAccounts) = 0
    <3> HIDE DEF f
    <3> QED BY <2>1, InventoryAccountsFinite, SumOfZeros
  <2> QED BY <2>2 DEF InLedger
<1>11. gl = Adding(paid, "ACCOUNTS_PAYABLE", -worth)
  BY <1>1, <1>2, <1>9 DEF Adding
<1>12. paid \in [Accounts -> Int] /\ InLedger(paid) = worth
  <2> HIDE DEF flat
  <2>1. /\ paid \in [Accounts -> Int] /\ InLedger(paid) = InLedger(flat) + worth
    <3>1. worth \in Int /\ flat \in [Accounts -> Int]
      BY <1>2, <1>10
    <3>2. /\ Adding(flat, "INVENTORY", worth) \in [Accounts -> Int]
          /\ InLedger(Adding(flat, "INVENTORY", worth)) = InLedger(flat) + worth
      BY ONLY <1>9, <3>1, OneAccount
    <3> QED BY <3>2
  <2> QED BY <1>2, <1>10, <2>1
<1>13. gl \in [Accounts -> Int] /\ InLedger(gl) = InLedger(paid)
  <2> HIDE DEF paid
  <2>1. -worth \in Int
    BY <1>2
  <2> QED BY <1>9, <1>11, <1>12, <2>1, OneAccount
<1>14. gl["GOODS_IN_TRANSIT"] = 0
  BY <1>1, <1>9
<1> QED BY <1>2, <1>4, <1>8, <1>12, <1>13, <1>14

LEMMA TradeInitially == TradeInit => TradeInv
<1> SUFFICES ASSUME TradeInit PROVE TradeInv
  OBVIOUS
<1>1. /\ RowsInv /\ written = {}
      /\ \A x \in Entered : Kind[x] \in {"SO", "PO"} /\ doc[x].status = "APPROVED"
  BY RowsInitially DEF TradeInit
<1>2. BooksInv
  <2>1. /\ StockFits(balance, moved) /\ Shipped(moved) = 0 /\ Received(moved) = OpeningStock
        /\ gl \in [Accounts -> Int] /\ InLedger(gl) = Net(moved) /\ InLedger(gl) \in Int
        /\ gl["GOODS_IN_TRANSIT"] = 0
    BY StockInitially DEF TradeInit
  <2>2. \A S : Qtys(doc, S \cap written) = 0 /\ Values(doc, S \cap written) = 0
    <3>1. \A S : S \cap written = {}
      BY <1>1
    <3> QED BY <3>1, NoQuantity, SumEmpty DEF Values
  <2>3. OpeningStock \in Nat
    BY StockAssumption
  <2>4. /\ Qtys(doc, ShippingRows \cap written) = 0 /\ Qtys(doc, ReceivingRows \cap written) = 0
        /\ Values(doc, Of("SR") \cap written) = 0 /\ Values(doc, Of("SI") \cap written) = 0
        /\ Values(doc, BillsWithout \cap written) = 0 /\ Values(doc, Of("PR") \cap written) = 0
        /\ Values(doc, Of("DBN") \cap written) = 0 /\ Values(doc, Of("GR") \cap written) = 0
        /\ Values(doc, BillsOfReceipts \cap written) = 0
    BY <2>2
  <2>5. Shipped(moved) = Qtys(doc, ShippingRows \cap written)
        /\ Received(moved) = OpeningStock + Qtys(doc, ReceivingRows \cap written)
    BY <2>1, <2>3, <2>4
  <2>6. InLedger(gl) - Net(moved) = 0
    <3>1. Net(moved) \in Int /\ InLedger(gl) = Net(moved)
      BY <2>1
    <3> QED BY ONLY <3>1
  <2>7. -gl["GOODS_IN_TRANSIT"] = 0
    <3> DEFINE n == gl["GOODS_IN_TRANSIT"]  k == -n
    <3>1. n = 0 /\ n \in Int
      BY <2>1
    <3>2. k \in Int /\ n + k = 0
      <4> HIDE DEF n
      <4> QED BY <3>1
    <3> HIDE DEF n, k
    <3>3. k = 0
      BY <3>1, <3>2
    <3> QED BY <3>3 DEF n, k
  <2> QED BY <2>1, <2>4, <2>5, <2>6, <2>7 DEF BooksInv
<1>3. /\ delivered = [o \in Of("SO") |-> 0] /\ invoiced = [n \in Of("DN") |-> 0]
      /\ returned = [i \in Of("SI") |-> 0]
  BY DEF TradeInit, SalesInit
<1>4. CountersFit
  BY <1>3 DEF TradeInit, PurchasingInit, CountersFit
<1>5. SalesInv
  BY <1>1, <1>3 DEF SalesInv, NoteFits, InvoiceFits, OrderFits, Of
<1> QED BY <1>1, <1>2, <1>4, <1>5 DEF TradeInv

-----------------------------------------------------------------------------
(* The theorems.                                                           *)

LEMMA TradeAlwaysFits == TradeSpec => []TradeInv
<1>1. TradeInv /\ [TradeNext]_tradeVars => TradeInv'
  BY EveryStepKeeps
<1> QED BY <1>1, TradeInitially, PTL DEF TradeSpec

\* A balance and the movements of its warehouse, and no movement without a
\* document (post_stock_movement and the idempotency keys it writes).
THEOREM StockAlwaysExplained == TradeSpec => []StockIsExplained
<1>1. TradeInv => StockIsExplained
  <2> SUFFICES ASSUME TradeInv PROVE StockIsExplained
    OBVIOUS
  <2>1. StockFits(balance, moved)
    BY DEF TradeInv, BooksInv
  <2>2. TradeTypeOK
    <3>1. \A c \in Callers : call[c] = Idle \/
            call[c] \in [step : Steps, doc : {d \in Docs : Exists(d)}, read : Nat]
      BY DEF TradeInv, RowsInv, CallFits, Entered
    <3>2. /\ \A w \in Warehouses : balance[w] \in [qty : Int, value : Int, avg : Nat]
          /\ \A w \in Warehouses \ Negative : balance[w].qty >= 0
      BY <2>1 DEF StockFits, Balance, Costed
    <3>3. written \subseteq Docs
      BY DEF TradeInv, RowsInv, Entered
    <3> QED BY <3>1, <3>2, <3>3 DEF TradeTypeOK, TradeInv, RowsInv, BooksInv, CountersFit
  <2>3. BalanceFollowsMovements
    <3> SUFFICES ASSUME NEW w \in Warehouses
                 PROVE  /\ balance[w].qty = moved[w].received - moved[w].shipped
                        /\ w \notin Negative =>
                             /\ balance[w].qty = 0 => balance[w].value = 0
                             /\ LET drift == balance[w].value
                                               - (moved[w].receivedValue - moved[w].shippedValue)
                                    size == IF drift < 0 THEN -drift ELSE drift
                                IN  2 * Scale * size
                                      <= Scale * moved[w].shipments + moved[w].shipped
      BY DEF BalanceFollowsMovements
    <3>1. /\ balance[w] \in Balance /\ moved[w] \in Movements
          /\ balance[w].qty = moved[w].received - moved[w].shipped
          /\ w \notin Negative => Costed(balance[w], moved[w])
      BY <2>1 DEF StockFits
    <3>2. ASSUME w \notin Negative
          PROVE  LET drift == balance[w].value - (moved[w].receivedValue - moved[w].shippedValue)
                     size == IF drift < 0 THEN -drift ELSE drift
                 IN  2 * Scale * size <= Scale * moved[w].shipments + moved[w].shipped
      BY <3>1, <3>2, CostedMeans
    <3>3. w \notin Negative => (balance[w].qty = 0 => balance[w].value = 0)
      BY <3>1 DEF Costed
    <3> QED BY <3>1, <3>2, <3>3
  <2>4. StockMovesWithDocuments
    <3> DEFINE shipping == WrittenOf("DN") \cup WrittenOf("ST")
                 \cup {d \in WrittenOf("PR") : doc[d].how # "NO_STOCK_EFFECT"}
                 \cup {d \in WrittenOf("SA") : doc[d].how = "decrease"}
               receiving == WrittenOf("GR") \cup WrittenOf("ST")
                 \cup {d \in WrittenOf("SA") : doc[d].how = "increase"}
    <3>1. \A x \in written : x \in Entered /\ x \in Docs
      BY DEF TradeInv, RowsInv, Entered
    <3>2. shipping = ShippingRows \cap written /\ receiving = ReceivingRows \cap written
      BY <3>1 DEF ShippingRows, ReceivingRows, WrittenOf, Of
    <3>3. /\ SumOver(Warehouses, LAMBDA w : moved[w].shipped) = Shipped(moved)
          /\ SumOver(Warehouses, LAMBDA w : moved[w].received) = Received(moved)
      BY DEF SumOver, Shipped, Received
    <3> HIDE DEF shipping, receiving
    <3>4. QtyOf(shipping) = Qtys(doc, shipping) /\ QtyOf(receiving) = Qtys(doc, receiving)
      BY DEF QtyOf, SumOver, Qtys
    <3>5. /\ Shipped(moved) = Qtys(doc, ShippingRows \cap written)
          /\ Received(moved) = OpeningStock + Qtys(doc, ReceivingRows \cap written)
      BY DEF TradeInv, BooksInv
    <3>6. /\ SumOver(Warehouses, LAMBDA w : moved[w].shipped) = QtyOf(shipping)
          /\ SumOver(Warehouses, LAMBDA w : moved[w].received) = OpeningStock + QtyOf(receiving)
      BY <3>2, <3>3, <3>4, <3>5
    <3> QED BY <3>6 DEF StockMovesWithDocuments, shipping, receiving
  <2> QED BY <2>2, <2>3, <2>4 DEF StockIsExplained
<1> QED BY <1>1, TradeAlwaysFits, PTL

\* No delivery is invoiced twice, no invoice returned or credited beyond what
\* it sold, no order completed by less than it asks (the services of
\* apps/sales), however requests overlap.
THEOREM QuantitiesAlwaysWithin == TradeSpec => []QuantitiesStayWithinSource
<1>1. TradeInv => QuantitiesStayWithinSource
  <2> SUFFICES ASSUME TradeInv PROVE QuantitiesStayWithinSource
    OBVIOUS
  <2>1. SalesInv
    BY DEF TradeInv
  <2>2. \A k, s : QtyOf(From(k, s)) = Qtys(doc, From(k, s))
                  /\ QtyOf(PostedOf(k, s)) = Qtys(doc, PostedOf(k, s))
    BY DEF QtyOf, SumOver, Qtys
  <2>3. \A k : \A x \in Of(k) : Exists(x) => x \in Entered
    BY DEF Of, Entered
  <2>4. NothingInvoicedTwice
    BY <2>1, <2>2, <2>3 DEF SalesInv, NoteFits, NothingInvoicedTwice
  <2>5. ReturnsStayWithinInvoice
    BY <2>1, <2>2, <2>3 DEF SalesInv, InvoiceFits, ReturnsStayWithinInvoice, Credited
  <2>6. CompletedMeansDelivered
    BY <2>1, <2>3 DEF SalesInv, OrderFits, CompletedMeansDelivered
  <2> QED BY <2>4, <2>5, <2>6 DEF QuantitiesStayWithinSource
<1> QED BY <1>1, TradeAlwaysFits, PTL

\* The inventory accounts differ from the movements, and the accrual of goods
\* received from nothing, by documents that can be named (the entries of
\* apps/inventory, apps/sales and apps/purchases).
THEOREM LedgerAlwaysExplained == TradeSpec => []LedgerExplainsStock
<1>1. TradeInv => LedgerExplainsStock
  <2> SUFFICES ASSUME TradeInv PROVE LedgerExplainsStock
    OBVIOUS
  <2> DEFINE without == {b \in WrittenOf("PB") : doc[b].source = NoDoc}
             ofReceipts == {b \in WrittenOf("PB") : doc[b].source # NoDoc}
  <2>1. \A x \in written : x \in Entered /\ x \in Docs
    BY DEF TradeInv, RowsInv, Entered
  <2>2. without = BillsWithout \cap written /\ ofReceipts = BillsOfReceipts \cap written
    BY <2>1 DEF BillsWithout, BillsOfReceipts, WrittenOf, Of
  <2>3. InventoryInLedger = InLedger(gl) /\ NetMoved = Net(moved)
    BY DEF InventoryInLedger, InLedger, NetMoved, Net, SumOver
  <2> HIDE DEF without, ofReceipts
  <2>4. /\ \A k : ValueOf(WrittenOf(k)) = Values(doc, Of(k) \cap written)
        /\ ValueOf(without) = Values(doc, without) /\ ValueOf(ofReceipts) = Values(doc, ofReceipts)
    BY DEF ValueOf, SumOver, Values, WrittenOf
  <2>5. InventoryInLedger - NetMoved =
          ValueOf(WrittenOf("SR")) - ValueOf(WrittenOf("SI")) + ValueOf(without)
          + ValueOf(WrittenOf("PR")) - ValueOf(WrittenOf("DBN"))
    BY <2>2, <2>3, <2>4 DEF TradeInv, BooksInv
  <2>6. -gl["GOODS_IN_TRANSIT"] = ValueOf(WrittenOf("GR")) - ValueOf(ofReceipts)
    BY <2>2, <2>4 DEF TradeInv, BooksInv
  <2> QED BY <2>5, <2>6
          DEF LedgerExplainsStock, InventoryDifferenceIsExplained, AccrualIsReceiptsLessBills,
              without, ofReceipts
<1> QED BY <1>1, TradeAlwaysFits, PTL

\* No later call, decision or draft changes what a document was posted at
\* (PostingEngine.post, post_stock_movement).
THEOREM PostedValuesAlwaysStand == TradeSpec => PostedValuesStand
<1>1. TradeInv /\ [TradeNext]_tradeVars
        => [\A d \in written :
              doc'[d].value = doc[d].value /\ doc'[d].cost = doc[d].cost]_tradeVars
  BY EveryStepKeeps DEF Books
<1> QED BY <1>1, TradeAlwaysFits, PTL DEF TradeSpec, PostedValuesStand
=============================================================================
