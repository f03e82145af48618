------------------------- MODULE TradingSession_proofs -------------------------
(***************************************************************************)
(* Theorems about TradingSession: for any universe, any caps and any       *)
(* number of cycles, the caps hold of the positions, an entry never works  *)
(* behind an older order of its symbol, a cycle does not re-enter what it  *)
(* exited, exposure grows only within the equity its cycle was given, the  *)
(* account differs from the books only by what the loop was not told,      *)
(* nothing is sent once the day is closed, and cycles run out of steps.    *)
(***************************************************************************)
EXTENDS TradingSession, FiniteSetTheorems, TLAPS

\* Induction over the subsets of a finite set: a family that has every subset whose own
\* strict subsets it has, has them all.
LEMMA SubsetInduction ==
  ASSUME NEW S, IsFiniteSet(S), NEW Q,
         \A T \in SUBSET S : (\A U \in SUBSET T : U # T => U \in Q) => T \in Q
  PROVE  SUBSET S \subseteq Q
<1> DEFINE F == (SUBSET S) \ Q
<1> SUFFICES ASSUME F # {} PROVE FALSE
  OBVIOUS
<1>1. IsWellFoundedOn(StrictSubsetOrdering(S), FiniteSubsetsOf(S)) /\ F \subseteq FiniteSubsetsOf(S)
  BY FS_StrictSubsetOrderingWellFounded, FS_FiniteSubsetsOfFinite
<1>2. PICK T \in F : \A U \in F : ~ (<<U, T>> \in StrictSubsetOrdering(S))
  <2> HIDE DEF F
  <2> QED BY <1>1, WFMin
<1>3. ASSUME NEW U \in SUBSET T, U # T PROVE U \in Q
  <2>1. <<U, T>> \in StrictSubsetOrdering(S)
    BY <1>3 DEF StrictSubsetOrdering
  <2> QED BY <1>2, <2>1
<1> QED BY <1>3

Pick(T) == CHOOSE x \in T : TRUE

\* h is the function that SumFunctionOnSet(w, S) folds w with.
Adds(h, w, S) ==
  h = [T \in SUBSET S |-> IF T = {} THEN 0 ELSE w[Pick(T)] + h[T \ {Pick(T)}]]

LEMMA SumIsFold ==
  ASSUME NEW S, NEW w PROVE SumFunctionOnSet(w, S) = (CHOOSE h : Adds(h, w, S))[S]
  BY DEF SumFunctionOnSet, FoldFunctionOnSet, MapThenFoldSet, Adds, Pick

LEMMA PickIn == ASSUME NEW T, T # {} PROVE Pick(T) \in T
  BY DEF Pick

\* There is such a function.
LEMMA SomethingAdds ==
  ASSUME NEW S, IsFiniteSet(S), NEW w, \A x \in S : w[x] \in Int
  PROVE  \E h : Adds(h, w, S)
<1> DEFINE Right(g, U) == g[U] = IF U = {} THEN 0 ELSE w[Pick(U)] + g[U \ {Pick(U)}]
           Q == {T \in SUBSET S : \E g \in [SUBSET S -> Int] :
                   \A U \in SUBSET S : Cardinality(U) <= Cardinality(T) => Right(g, U)}
<1>0. ASSUME NEW T \in SUBSET S PROVE IsFiniteSet(T) /\ Cardinality(T) \in Nat
  BY FS_Subset, FS_CardinalityType
<1>1. ASSUME NEW T \in SUBSET S, \A U \in SUBSET T : U # T => U \in Q PROVE T \in Q
  <2>1. CASE T = {}
    <3> DEFINE g == [U \in SUBSET S |-> 0]
    <3>1. ASSUME NEW U \in SUBSET S, Cardinality(U) <= 0 PROVE U = {}
      BY <1>0, <3>1, FS_EmptySet
    <3>2. Cardinality(T) = 0
      BY <2>1, FS_EmptySet
    <3>3. g \in [SUBSET S -> Int]
      OBVIOUS
    <3>4. ASSUME NEW U \in SUBSET S, Cardinality(U) <= 0 PROVE Right(g, U)
      <4>1. U = {} /\ g[U] = 0
        BY <3>1, <3>4
      <4> HIDE DEF g
      <4> QED BY <4>1
    <3> HIDE DEF g, Right
    <3> QED BY <3>2, <3>3, <3>4
  <2>2. CASE T # {}
    <3>1. PICK x \in T : TRUE
      BY <2>2
    <3>2. Cardinality(T \ {x}) = Cardinality(T) - 1 /\ T \ {x} \in Q
      BY <1>0, <1>1, <3>1, FS_RemoveElement
    <3>3. PICK f \in [SUBSET S -> Int] :
            \A U \in SUBSET S : Cardinality(U) <= Cardinality(T) - 1 => Right(f, U)
      BY <3>2
    <3> DEFINE g == [U \in SUBSET S |-> IF U = {} THEN 0 ELSE w[Pick(U)] + f[U \ {Pick(U)}]]
    <3>4. g \in [SUBSET S -> Int]
      BY PickIn
    <3>5. ASSUME NEW U \in SUBSET S, Cardinality(U) <= Cardinality(T) - 1 PROVE g[U] = f[U]
      BY <3>3, <3>5
    <3>6. ASSUME NEW U \in SUBSET S, Cardinality(U) <= Cardinality(T), U # {}
          PROVE  g[U \ {Pick(U)}] = f[U \ {Pick(U)}]
      <4>1. Cardinality(U \ {Pick(U)}) = Cardinality(U) - 1
        BY <1>0, <3>6, PickIn, FS_RemoveElement
      <4>2. U \ {Pick(U)} \in SUBSET S /\ Cardinality(U) \in Nat /\ Cardinality(T) \in Nat
        BY <1>0
      <4>3. Cardinality(U \ {Pick(U)}) <= Cardinality(T) - 1
        BY <3>6, <4>1, <4>2
      <4> HIDE DEF g
      <4> QED BY <3>5, <4>2, <4>3
    <3>7. \A U \in SUBSET S : Cardinality(U) <= Cardinality(T) => Right(g, U)
      BY <3>6
    <3> HIDE DEF g, Right
    <3> QED BY <3>4, <3>7
  <2> QED BY <2>1, <2>2
<1> HIDE DEF Q
<1>2. S \in Q
  BY <1>1, SubsetInduction
<1> USE DEF Q
<1>3. PICK g \in [SUBSET S -> Int] : \A U \in SUBSET S : Cardinality(U) <= Cardinality(S) => Right(g, U)
  BY <1>2
<1>4. \A U \in SUBSET S : Right(g, U)
  BY <1>3, FS_Subset, <1>0
<1>5. g = [T \in SUBSET S |-> IF T = {} THEN 0 ELSE w[Pick(T)] + g[T \ {Pick(T)}]]
  BY <1>4
<1> QED BY <1>5 DEF Adds

\* It does not depend on the set it is taken on.
LEMMA AddsAgree ==
  ASSUME NEW S, IsFiniteSet(S), NEW R, NEW w, NEW v, NEW g, NEW h, Adds(g, w, S), Adds(h, v, R),
         \A x \in S \cap R : w[x] = v[x]
  PROVE  \A T \in SUBSET (S \cap R) : g[T] = h[T]
<1> DEFINE B == S \cap R
           Q == {T \in SUBSET B : g[T] = h[T]}
<1>1. ASSUME NEW T \in SUBSET B, \A U \in SUBSET T : U # T => U \in Q PROVE T \in Q
  <2>1. /\ g[T] = IF T = {} THEN 0 ELSE w[Pick(T)] + g[T \ {Pick(T)}]
        /\ h[T] = IF T = {} THEN 0 ELSE v[Pick(T)] + h[T \ {Pick(T)}]
    <3>1. T \in SUBSET S /\ T \in SUBSET R
      OBVIOUS
    <3> QED BY <3>1 DEF Adds
  <2>2. CASE T # {}
    <3>1. Pick(T) \in T
      BY <2>2, PickIn
    <3>2. T \ {Pick(T)} \in Q
      BY <1>1, <3>1
    <3> QED BY <2>1, <3>1, <3>2
  <2> QED BY <2>1, <2>2
<1>2. IsFiniteSet(B)
  BY FS_Subset
<1> HIDE DEF B, Q
<1>3. SUBSET B \subseteq Q
  BY <1>1, <1>2, SubsetInduction
<1> QED BY <1>3 DEF B, Q

\* The sum over nothing, and over a set with its picked element taken out.
LEMMA SumStep ==
  ASSUME NEW S, IsFiniteSet(S), NEW w, \A x \in S : w[x] \in Int
  PROVE  SumFunctionOnSet(w, S) =
           IF S = {} THEN 0 ELSE w[Pick(S)] + SumFunctionOnSet(w, S \ {Pick(S)})
<1> DEFINE h == CHOOSE f : Adds(f, w, S)
           R == S \ {Pick(S)}
           g == CHOOSE f : Adds(f, w, R)
<1>1. Adds(h, w, S) /\ SumFunctionOnSet(w, S) = h[S]
  BY SomethingAdds, SumIsFold
<1>2. Adds(g, w, R) /\ SumFunctionOnSet(w, R) = g[R]
  <2>1. IsFiniteSet(R) /\ \A x \in R : w[x] \in Int
    BY FS_Subset
  <2> QED BY <2>1, SomethingAdds, SumIsFold
<1> HIDE DEF h, g
<1>3. h[S] = IF S = {} THEN 0 ELSE w[Pick(S)] + h[R]
  BY <1>1 DEF Adds
<1>4. h[R] = g[R]
  <2>1. R \in SUBSET (S \cap R)
    OBVIOUS
  <2> QED BY <1>1, <1>2, <2>1, AddsAgree
<1> QED BY <1>1, <1>2, <1>3, <1>4

LEMMA SumInt ==
  ASSUME NEW S, IsFiniteSet(S), NEW w, \A x \in S : w[x] \in Int
  PROVE  SumFunctionOnSet(w, S) \in Int
<1> DEFINE Q == {T \in SUBSET S : SumFunctionOnSet(w, T) \in Int}
<1>1. ASSUME NEW T \in SUBSET S, \A U \in SUBSET T : U # T => U \in Q PROVE T \in Q
  <2>1. IsFiniteSet(T)
    BY FS_Subset
  <2>2. SumFunctionOnSet(w, T) =
          IF T = {} THEN 0 ELSE w[Pick(T)] + SumFunctionOnSet(w, T \ {Pick(T)})
    BY <2>1, SumStep
  <2>3. T # {} => w[Pick(T)] \in Int /\ T \ {Pick(T)} \in Q
    BY <1>1, PickIn
  <2> QED BY <2>2, <2>3
<1> HIDE DEF Q
<1>2. SUBSET S \subseteq Q
  BY <1>1, SubsetInduction
<1> QED BY <1>2 DEF Q

\* A sum depends on nothing but what it adds up.
LEMMA SumSame ==
  ASSUME NEW S, IsFiniteSet(S), NEW w, NEW v, \A x \in S : w[x] \in Int /\ w[x] = v[x]
  PROVE  SumFunctionOnSet(w, S) = SumFunctionOnSet(v, S)
<1> DEFINE g == CHOOSE f : Adds(f, w, S)
           h == CHOOSE f : Adds(f, v, S)
<1>1. Adds(g, w, S) /\ SumFunctionOnSet(w, S) = g[S]
  BY SomethingAdds, SumIsFold
<1>2. Adds(h, v, S) /\ SumFunctionOnSet(v, S) = h[S]
  BY SomethingAdds, SumIsFold
<1> HIDE DEF g, h
<1> QED BY <1>1, <1>2, AddsAgree

\* Any element may be taken out.
LEMMA SumRemove ==
  ASSUME NEW S, IsFiniteSet(S), NEW w, \A x \in S : w[x] \in Int, NEW x \in S
  PROVE  SumFunctionOnSet(w, S) = w[x] + SumFunctionOnSet(w, S \ {x})
<1> DEFINE Q == {T \in SUBSET S : \A y \in T :
                   SumFunctionOnSet(w, T) = w[y] + SumFunctionOnSet(w, T \ {y})}
<1>0. ASSUME NEW T \in SUBSET S
      PROVE  /\ SumFunctionOnSet(w, T) \in Int
             /\ T # {} => SumFunctionOnSet(w, T) = w[Pick(T)] + SumFunctionOnSet(w, T \ {Pick(T)})
  <2>1. IsFiniteSet(T)
    BY FS_Subset
  <2> QED BY <2>1, SumStep, SumInt
<1>1. ASSUME NEW T \in SUBSET S, \A U \in SUBSET T : U # T => U \in Q PROVE T \in Q
  <2>1. SUFFICES ASSUME NEW y \in T, y # Pick(T)
                 PROVE  SumFunctionOnSet(w, T) = w[y] + SumFunctionOnSet(w, T \ {y})
    BY <1>0
  <2>2. Pick(T) \in T
    BY PickIn
  <2> DEFINE p == Pick(T)
             rest == SumFunctionOnSet(w, (T \ {p}) \ {y})
  <2>3. SumFunctionOnSet(w, T \ {p}) = w[y] + rest
    BY <1>1, <2>1, <2>2
  <2>4. SumFunctionOnSet(w, T \ {y}) = w[p] + SumFunctionOnSet(w, (T \ {y}) \ {p})
    BY <1>1, <2>1, <2>2
  <2>5. SumFunctionOnSet(w, T \ {y}) = w[p] + rest
    <3>1. (T \ {y}) \ {p} = (T \ {p}) \ {y}
      OBVIOUS
    <3> QED BY <2>4, <3>1
  <2>6. SumFunctionOnSet(w, T) = w[p] + SumFunctionOnSet(w, T \ {p})
    BY <1>0, <2>2
  <2>7. rest \in Int /\ w[p] \in Int /\ w[y] \in Int
    <3>1. (T \ {p}) \ {y} \in SUBSET S
      OBVIOUS
    <3> QED BY <1>0, <2>2, <3>1
  <2> HIDE DEF rest, p
  <2> QED BY <2>3, <2>5, <2>6, <2>7
<1> HIDE DEF Q
<1>2. SUBSET S \subseteq Q
  BY <1>1, SubsetInduction
<1> QED BY <1>2 DEF Q

\* One summand changes.
LEMMA SumChange ==
  ASSUME NEW S, IsFiniteSet(S), NEW w, NEW v, NEW x \in S,
         \A y \in S : w[y] \in Int /\ v[y] \in Int, \A y \in S \ {x} : v[y] = w[y]
  PROVE  SumFunctionOnSet(v, S) = SumFunctionOnSet(w, S) - w[x] + v[x]
<1>1. IsFiniteSet(S \ {x})
  BY FS_Subset
<1>2. SumFunctionOnSet(v, S \ {x}) = SumFunctionOnSet(w, S \ {x})
  BY <1>1, SumSame
<1>3. SumFunctionOnSet(w, S \ {x}) \in Int
  BY <1>1, SumInt
<1>4. /\ SumFunctionOnSet(w, S) = w[x] + SumFunctionOnSet(w, S \ {x})
      /\ SumFunctionOnSet(v, S) = v[x] + SumFunctionOnSet(v, S \ {x})
  BY SumRemove
<1> QED BY <1>2, <1>3, <1>4

\* A sum of zeros.
LEMMA SumZero ==
  ASSUME NEW S, IsFiniteSet(S), NEW w, \A x \in S : w[x] = 0
  PROVE  SumFunctionOnSet(w, S) = 0
<1> DEFINE Q == {T \in SUBSET S : SumFunctionOnSet(w, T) = 0}
<1>1. ASSUME NEW T \in SUBSET S, \A U \in SUBSET T : U # T => U \in Q PROVE T \in Q
  <2>1. IsFiniteSet(T)
    BY FS_Subset
  <2>2. SumFunctionOnSet(w, T) =
          IF T = {} THEN 0 ELSE w[Pick(T)] + SumFunctionOnSet(w, T \ {Pick(T)})
    <3>1. \A x \in T : w[x] \in Int
      OBVIOUS
    <3> QED BY <2>1, <3>1, SumStep
  <2>3. T # {} => w[Pick(T)] = 0 /\ T \ {Pick(T)} \in Q
    BY <1>1, PickIn
  <2> QED BY <2>2, <2>3
<1> HIDE DEF Q
<1>2. SUBSET S \subseteq Q
  BY <1>1, SubsetInduction
<1> QED BY <1>2 DEF Q

--------------------------------------------------------------------------------
\* What the caller may rely on about the orders: a live one has shares left to
\* execute, none is of a later cycle, a call in flight is within a cycle, and a
\* candidate has a side.
Books ==
  /\ \A i \in DOMAIN orders : orders[i].live => orders[i].filled < orders[i].qty
  /\ \A i \in DOMAIN orders : orders[i].cycle <= cycles
  /\ pc = "idle" => Pending = {}
  /\ pc # "idle" => cycles \in 1..MaxCycles
  /\ pc = "entries" => \A s \in todo : ranked[s] # 0

\* An order may be worked, answered or killed; it stays the order it was.
SameOrder(o, p) ==
  /\ o.sym = p.sym /\ o.kind = p.kind /\ o.side = p.side /\ o.cycle = p.cycle
  /\ o.qty = p.qty /\ (o.filled <= o.qty => p.filled <= p.qty)
  /\ p.live => o.live
  /\ p.verdict = "pending" => o.verdict = "pending"
  /\ p.live => p.filled < p.qty

\* Every order of the day is still there and still the same.
Worked ==
  /\ orders' \in Seq(Order) /\ Len(orders') = Len(orders)
  /\ \A i \in DOMAIN orders : SameOrder(orders[i], orders'[i])

Sends == \E s \in Symbols, k \in {"enter", "exit"}, d \in Sides, n \in 1..MaxSize :
           Submit(s, k, d, n)

--------------------------------------------------------------------------------
\* One order replaced by a later state of itself.
LEMMA ReplaceWorks ==
  ASSUME TypeOK, Books, NEW i \in DOMAIN orders, NEW o \in Order, SameOrder(orders[i], o),
         orders' = [orders EXCEPT ![i] = o]
  PROVE  Worked
<1>1. \A j \in DOMAIN orders : orders[j] \in Order
  BY DEF TypeOK
<1>2. \A j \in DOMAIN orders : SameOrder(orders[j], orders[j])
  BY DEF Books, SameOrder
<1>3. orders' \in Seq(Order) /\ Len(orders') = Len(orders)
  BY DEF TypeOK
<1>4. \A j \in DOMAIN orders : orders'[j] = IF j = i THEN o ELSE orders[j]
  BY DEF TypeOK
<1> QED BY <1>2, <1>3, <1>4 DEF Worked

\* Leaving the orders alone is a way of working them.
LEMMA SameWorks == TypeOK /\ Books /\ UNCHANGED orders => Worked
  BY DEF TypeOK, Books, Worked, SameOrder

\* What the loop's answers do to an order.
LEMMA AnswerWorks ==
  ASSUME TypeOK, Books, NEW i \in DOMAIN orders, Recorded(i) \/ Refused(i)
  PROVE  Worked
<1>1. orders[i] \in Order
  BY DEF TypeOK
<1>2. CASE Refused(i)
  <2> DEFINE o == [orders[i] EXCEPT !.verdict = "refused"]
  <2>1. orders' = [orders EXCEPT ![i] = o]
    BY <1>2 DEF Refused, TypeOK
  <2>2. o \in Order /\ SameOrder(orders[i], o)
    BY <1>1 DEF Order, SameOrder, Books
  <2> HIDE DEF o
  <2> QED BY <2>1, <2>2, ReplaceWorks
<1>3. CASE Recorded(i)
  <2>1. PICK q \in 1..orders[i].filled :
          orders' = [orders EXCEPT ![i].verdict = "recorded", ![i].booked = q]
    BY <1>3 DEF Recorded
  <2> DEFINE o == [orders[i] EXCEPT !.verdict = "recorded", !.booked = q]
  <2>2. orders' = [orders EXCEPT ![i] = o]
    BY <2>1 DEF TypeOK
  <2>3. q \in 0..MaxSize
    BY <1>1, SessionAssumption DEF Order
  <2>4. o \in Order /\ SameOrder(orders[i], o)
    BY <1>1, <2>3 DEF Order, SameOrder, Books
  <2> HIDE DEF o
  <2> QED BY <2>2, <2>4, ReplaceWorks
<1> QED BY <1>2, <1>3

\* What the broker does to an order on its own.
LEMMA BrokerWorks ==
  ASSUME TypeOK, Books, NEW i \in DOMAIN orders, BrokerFill(i) \/ BrokerKill(i)
  PROVE  Worked
<1>1. orders[i] \in Order
  BY DEF TypeOK
<1>2. CASE BrokerKill(i)
  <2> DEFINE o == [orders[i] EXCEPT !.live = FALSE]
  <2>1. orders' = [orders EXCEPT ![i] = o]
    BY <1>2 DEF BrokerKill, TypeOK
  <2>2. o \in Order /\ SameOrder(orders[i], o)
    BY <1>1 DEF Order, SameOrder
  <2> HIDE DEF o
  <2> QED BY <2>1, <2>2, ReplaceWorks
<1>3. CASE BrokerFill(i)
  <2> DEFINE l == orders[i].filled + 1 < orders[i].qty
             o == [orders[i] EXCEPT !.filled = @ + 1, !.live = l]
  <2>1. orders' = [orders EXCEPT ![i] = o]
    BY <1>3 DEF BrokerFill, TypeOK
  <2>l. l \in BOOLEAN /\ (l => orders[i].filled + 1 < orders[i].qty)
    OBVIOUS
  <2> HIDE DEF l
  <2>2. orders[i].filled + 1 \in 0..MaxSize
    BY <1>1, <1>3, SessionAssumption DEF BrokerFill, Books, Order
  <2>3. o \in Order
    BY <1>1, <2>2, <2>l DEF Order
  <2>4. SameOrder(orders[i], o)
    <3>1. /\ orders[i].filled \in Int /\ orders[i].qty \in Int
          /\ orders[i].live /\ orders[i].filled < orders[i].qty
      BY <1>1, <1>3, SessionAssumption DEF Order, BrokerFill, Books
    <3>2. /\ o.sym = orders[i].sym /\ o.kind = orders[i].kind /\ o.side = orders[i].side
          /\ o.cycle = orders[i].cycle /\ o.qty = orders[i].qty
          /\ o.filled = orders[i].filled + 1 /\ o.verdict = orders[i].verdict /\ o.live = l
      BY <1>1 DEF Order
    <3>3. o.filled <= o.qty
      BY <3>1, <3>2
    <3>4. o.live => o.filled < o.qty
      BY <2>l, <3>2
    <3> HIDE DEF o
    <3> QED BY <3>1, <3>2, <3>3, <3>4 DEF SameOrder
  <2> HIDE DEF o
  <2> QED BY <2>1, <2>3, <2>4, ReplaceWorks
<1> QED BY <1>2, <1>3

\* A liquidation cancels every order.
LEMMA LiquidateWorks == TypeOK /\ Books /\ Liquidate => Worked
<1> SUFFICES ASSUME TypeOK, Books, Liquidate PROVE Worked
  OBVIOUS
<1>1. orders' = [i \in DOMAIN orders |-> [orders[i] EXCEPT !.live = FALSE]]
  BY DEF Liquidate
<1>2. \A i \in DOMAIN orders : orders[i] \in Order
  BY DEF TypeOK
<1>3. \A i \in DOMAIN orders : orders'[i] \in Order /\ SameOrder(orders[i], orders'[i])
  BY <1>1, <1>2 DEF Order, SameOrder
<1>4. DOMAIN orders = 1..Len(orders) /\ Len(orders) \in Nat
  BY DEF TypeOK
<1>5. orders' \in Seq(Order) /\ Len(orders') = Len(orders)
  BY <1>1, <1>3, <1>4
<1> QED BY <1>3, <1>5 DEF Worked

\* A new order goes to the end, and the older ones stay as they are.
LEMMA SubmitAppends ==
  ASSUME TypeOK, Books, cycles \in 1..MaxCycles, NEW s \in Symbols, NEW k \in {"enter", "exit"},
         NEW d \in Sides, NEW n \in 1..MaxSize, Submit(s, k, d, n)
  PROVE  /\ orders' \in Seq(Order) /\ Len(orders') = Len(orders) + 1
         /\ \A i \in DOMAIN orders : orders'[i] = orders[i]
         /\ LET o == orders'[Len(orders) + 1] IN
              /\ o.sym = s /\ o.kind = k /\ o.side = d /\ o.cycle = cycles
              /\ o.qty = n /\ o.filled = 0 /\ o.verdict \in {"pending", "refused"}
<1>1. PICK v \in {"pending", "refused"}, l \in BOOLEAN :
        orders' = Append(orders,
         [sym |-> s, kind |-> k, side |-> d, qty |-> n, cycle |-> cycles,
          filled |-> 0, live |-> l, verdict |-> v, booked |-> 0])
  BY DEF Submit
<1> DEFINE o == [sym |-> s, kind |-> k, side |-> d, qty |-> n, cycle |-> cycles,
                 filled |-> 0, live |-> l, verdict |-> v, booked |-> 0]
<1>2. o \in Order
  BY SessionAssumption DEF Order
<1>3. /\ o.sym = s /\ o.kind = k /\ o.side = d /\ o.cycle = cycles
      /\ o.qty = n /\ o.filled = 0 /\ o.verdict \in {"pending", "refused"}
  OBVIOUS
<1>4. orders \in Seq(Order) /\ orders' = Append(orders, o)
  BY <1>1 DEF TypeOK
<1> HIDE DEF o
<1> QED BY <1>2, <1>3, <1>4

\* Side and size of the order that flattens a position.
LEMMA OppositeOrder ==
  ASSUME NEW v \in -MaxSize..MaxSize, v # 0
  PROVE  -Side(v) \in Sides /\ Abs(v) \in 1..MaxSize
<1>1. Side(v) \in {1, -1}
  BY DEF Side, Long, Short
<1>2. \A d \in {1, -1} : -d \in {1, -1}
  OBVIOUS
<1>3. Abs(v) \in 1..MaxSize
  BY SessionAssumption DEF Abs
<1> QED BY <1>1, <1>2, <1>3 DEF Sides, Long, Short

\* The two symbol loops that call exit_position, and the one that enters.
LEMMA ExitSends == TypeOK /\ ExitNext => UNCHANGED orders \/ (pc # "idle" /\ Sends)
<1> SUFFICES ASSUME TypeOK, ExitNext PROVE UNCHANGED orders \/ (pc # "idle" /\ Sends)
  OBVIOUS
<1>1. PICK s \in todo : IF local[s] = 0
                          THEN UNCHANGED orders
                          ELSE Submit(s, "exit", -Side(local[s]), Abs(local[s]))
  BY DEF ExitNext
<1>2. CASE local[s] # 0
  <2>1. s \in Symbols /\ local[s] \in -MaxSize..MaxSize
    BY DEF TypeOK
  <2>2. -Side(local[s]) \in Sides /\ Abs(local[s]) \in 1..MaxSize
    BY <1>2, <2>1, OppositeOrder
  <2>3. Submit(s, "exit", -Side(local[s]), Abs(local[s]))
    BY <1>1, <1>2
  <2>4. Sends
    BY <2>1, <2>2, <2>3 DEF Sends
  <2> QED BY <2>4 DEF ExitNext
<1> QED BY <1>1, <1>2

\* An entry has passed the gates.
LEMMA EnterSends ==
  ASSUME TypeOK, Books, Enter
  PROVE  \E s \in todo, n \in 1..MaxSize :
           /\ s \in Symbols /\ ranked[s] \in Sides
           /\ PositionGates(s, ranked[s]) /\ s \notin exited /\ NoneReported(s)
           /\ Submit(s, "enter", ranked[s], n)
  BY DEF Enter, At, TypeOK, Books, CooledDown

\* Every step works the orders there are, or sends one more when none is in
\* flight and within the cycle.
LEMMA OrdersEvolve ==
  ASSUME TypeOK, Books, [Next]_vars
  PROVE  \/ Worked
         \/ /\ Sends /\ pc # "idle" /\ Pending = {} /\ cycles \in 1..MaxCycles
            /\ ExitNext \/ Enter
<1>1. CASE Answer
  BY <1>1, AnswerWorks DEF Answer
<1>2. CASE \E i \in DOMAIN orders : BrokerFill(i) \/ BrokerKill(i)
  BY <1>2, BrokerWorks
<1>3. CASE EodFailSafe \/ EodFailed
  BY <1>3, LiquidateWorks, SameWorks DEF EodFailSafe, EodFailed, broker
<1>4. CASE ExitNext
  BY <1>4, ExitSends, SameWorks DEF ExitNext, At, Books
<1>5. CASE Enter
  <2>1. Sends
    BY <1>5, EnterSends DEF Sends
  <2> QED BY <1>5, <2>1 DEF Enter, At, Books
<1>6. CASE \/ BeginRotations \/ BeginEntries \/ PassOver \/ EndCycle \/ AskPositions
           \/ EodClean \/ TickStep \/ Clock \/ UNCHANGED vars
           \/ \E s \in Symbols : BrokerClose(s)
  <2>1. UNCHANGED orders
    BY <1>6 DEF BeginRotations, BeginEntries, PassOver, EndCycle, AskPositions, EodClean,
       TickStep, SkipCycle, BeginCycle, BeginEod, Clock, BrokerClose, broker,
       vars
  <2> QED BY <2>1, SameWorks
<1> QED BY <1>1, <1>2, <1>3, <1>4, <1>5, <1>6 DEF Next, CycleStep, BrokerStep

\* What sending an order does to the list.
LEMMA SendsAppends ==
  ASSUME TypeOK, Books, cycles \in 1..MaxCycles, Sends
  PROVE  /\ orders' \in Seq(Order) /\ Len(orders') = Len(orders) + 1
         /\ \A i \in DOMAIN orders : orders'[i] = orders[i]
         /\ orders'[Len(orders) + 1].cycle = cycles
         /\ orders'[Len(orders) + 1].filled < orders'[Len(orders) + 1].qty
<1>1. PICK s \in Symbols, k \in {"enter", "exit"}, d \in Sides, n \in 1..MaxSize :
        Submit(s, k, d, n)
  BY DEF Sends
<1> QED BY <1>1, SubmitAppends

\* The orders keep their type, at most the last one is in flight, and their
\* cycles are never ahead of the loop's.
LEMMA OrdersKept ==
  ASSUME TypeOK, Books, [Next]_vars
  PROVE  /\ orders' \in Seq(Order) /\ Pending' \subseteq {Len(orders')}
         /\ cycles' \in 0..MaxCycles
         /\ \A i \in DOMAIN orders' : orders'[i].live => orders'[i].filled < orders'[i].qty
         /\ \A i \in DOMAIN orders' : orders'[i].cycle <= cycles'
<1>0. cycles \in 0..MaxCycles /\ (cycles' = cycles \/ (cycles' = cycles + 1 /\ cycles < MaxCycles))
  BY DEF TypeOK, Next, CycleStep, TickStep, BrokerStep, Answer, Recorded, Refused, ExitNext,
     BeginRotations, BeginEntries, Enter, PassOver, EndCycle, AskPositions, EodClean,
     EodFailSafe, EodFailed, LeaveEod, SkipCycle, BeginCycle, BeginEod, BrokerFill,
     BrokerKill, BrokerClose, Clock, loop, vars
<1>1. cycles' \in 0..MaxCycles /\ cycles' >= cycles
  BY <1>0, SessionAssumption
<1>2. \A i \in DOMAIN orders : orders[i] \in Order /\ orders[i].cycle \in 1..MaxCycles
  <2>1. \A i \in DOMAIN orders : orders[i] \in Order
    BY DEF TypeOK
  <2> QED BY <2>1 DEF Order
<1>3. CASE Worked
  <2>1. DOMAIN orders' = DOMAIN orders /\ orders' \in Seq(Order)
    BY <1>3 DEF Worked, TypeOK
  <2>2. Pending' \subseteq Pending
    BY <1>3, <2>1 DEF Worked, SameOrder, Pending
  <2>3. Pending' \subseteq {Len(orders')}
    BY <1>3, <2>2 DEF Worked, TypeOK
  <2>4. \A i \in DOMAIN orders' : orders'[i].live => orders'[i].filled < orders'[i].qty
    BY <1>3, <2>1 DEF Worked, SameOrder
  <2>5. \A i \in DOMAIN orders' : orders'[i].cycle = orders[i].cycle
    BY <1>3, <2>1 DEF Worked, SameOrder
  <2>6. \A i \in DOMAIN orders' : orders'[i].cycle <= cycles'
    BY <1>0, <1>1, <1>2, <2>1, <2>5 DEF Books
  <2> QED BY <1>1, <2>1, <2>3, <2>4, <2>6
<1>4. CASE Sends /\ Pending = {} /\ cycles \in 1..MaxCycles
  <2>1. /\ orders' \in Seq(Order) /\ Len(orders') = Len(orders) + 1
        /\ \A i \in DOMAIN orders : orders'[i] = orders[i]
        /\ orders'[Len(orders) + 1].cycle = cycles
        /\ orders'[Len(orders) + 1].filled < orders'[Len(orders) + 1].qty
    BY <1>4, SendsAppends
  <2>2. \A i \in DOMAIN orders' : i \in DOMAIN orders \/ i = Len(orders')
    BY <2>1 DEF TypeOK
  <2>3. Pending' \subseteq {Len(orders')}
    BY <1>4, <2>1, <2>2 DEF Pending
  <2>4. \A i \in DOMAIN orders' : orders'[i].live => orders'[i].filled < orders'[i].qty
    BY <2>1, <2>2 DEF Books
  <2>5. \A i \in DOMAIN orders' : orders'[i].cycle <= cycles'
    BY <1>0, <1>1, <1>2, <2>1, <2>2 DEF Books
  <2> QED BY <1>1, <2>1, <2>3, <2>4, <2>5
<1> QED BY <1>3, <1>4, OrdersEvolve

\* A share of the equity is no more than the equity.
LEMMA ShareOfEquity ==
  ASSUME NEW e \in Nat, NEW k \in Nat \ {0}
  PROVE  e \div k \in 0..e
  BY Z3

\* The loop's own variables, the account and the clock keep their types.
LEMMA TypesKept == TypeOK /\ Books /\ [Next]_vars => TypeOK'
<1> SUFFICES ASSUME TypeOK, Books, [Next]_vars PROVE TypeOK'
  OBVIOUS
<1>o. /\ orders' \in Seq(Order) /\ Pending' \subseteq {Len(orders')}
      /\ cycles' \in 0..MaxCycles
  BY OrdersKept
<1> USE SessionAssumption DEF TypeOK, Steps, loop, broker, funds
<1>1. ASSUME NEW i \in DOMAIN orders, Recorded(i) PROVE TypeOK'
  <2>1. orders[i] \in Order
    OBVIOUS
  <2>2. PICK q \in 1..orders[i].filled :
          IF orders[i].kind = "enter"
            THEN /\ local' = [local EXCEPT ![orders[i].sym] = orders[i].side * q]
                 /\ UNCHANGED exited
            ELSE /\ local' = [local EXCEPT ![orders[i].sym] = 0]
                 /\ exited' = exited \cup {orders[i].sym}
    BY <1>1 DEF Recorded
  <2>3. orders[i].sym \in Symbols /\ orders[i].side \in {1, -1} /\ q \in 1..MaxSize
    BY <2>1 DEF Order, Sides, Long, Short
  <2>4. orders[i].side * q \in -MaxSize..MaxSize /\ 0 \in -MaxSize..MaxSize
    <3>1. CASE orders[i].side = 1
      BY <2>3, <3>1
    <3>2. CASE orders[i].side = -1
      BY <2>3, <3>2
    <3> QED BY <2>3, <3>1, <3>2
  <2>5. local' \in [Symbols -> -MaxSize..MaxSize] /\ exited' \subseteq Symbols
    BY <2>2, <2>3, <2>4
  <2> QED BY <1>1, <1>o, <2>5 DEF Recorded
<1>2. CASE \E i \in DOMAIN orders : Refused(i)
  BY <1>2, <1>o DEF Refused
<1>3. CASE ExitNext
  BY <1>3, <1>o DEF ExitNext
<1>4. CASE BeginRotations
  BY <1>4, <1>o DEF BeginRotations, Open
<1>5. CASE BeginEntries
  <2>1. PICK c \in SUBSET {s \in Symbols \ Open : ranked[s] # 0}, e \in Equities :
          /\ todo' = c /\ equity' = e
          /\ budget' = e \div (IF c = {} THEN 1 ELSE Cardinality(c))
    BY <1>5 DEF BeginEntries
  <2>2. (IF c = {} THEN 1 ELSE Cardinality(c)) \in Nat \ {0}
    <3>1. IsFiniteSet(c)
      BY FS_Subset
    <3> QED BY <3>1, FS_EmptySet, FS_CardinalityType
  <2>3. \A k \in Nat \ {0} : e \div k \in 0..e
    BY ShareOfEquity
  <2>4. equity' \in Equities /\ budget' \in 0..equity'
    BY <2>1, <2>2, <2>3
  <2> QED BY <1>5, <1>o, <2>1, <2>4 DEF BeginEntries
<1>6. CASE Enter
  BY <1>6, <1>o DEF Enter
<1>7. CASE PassOver
  BY <1>7, <1>o DEF PassOver
<1>8. CASE EndCycle
  BY <1>8, <1>o DEF EndCycle
<1>9. CASE AskPositions
  BY <1>9, <1>o DEF AskPositions
<1>10. CASE EodClean \/ (EodFailed /\ UNCHANGED broker)
  BY <1>10, <1>o DEF EodClean, EodFailed, LeaveEod
<1>11. CASE EodFailSafe \/ (EodFailed /\ Liquidate)
  <2>1. 0 \in -MaxSize..MaxSize
    OBVIOUS
  <2>2. closing' \subseteq Symbols /\ swept' \in BOOLEAN /\ UNCHANGED held
    BY <1>11 DEF EodFailSafe, Liquidate
  <2>3. /\ local' = local \/ local' = [s \in Symbols |-> 0]
        /\ eodDone' = eodDone \/ eodDone' = TRUE
    BY <1>11 DEF EodFailSafe, EodFailed
  <2>4. /\ pc' = "idle" /\ sawHeld' = FALSE /\ exited' = {}
        /\ UNCHANGED <<todo, ranked, funds, cycles, window>>
    BY <1>11 DEF EodFailSafe, EodFailed, LeaveEod
  <2> QED BY <1>o, <2>1, <2>2, <2>3, <2>4
<1>12. CASE TickStep
  BY <1>12, <1>o DEF TickStep, SkipCycle, BeginCycle, BeginEod, Open
<1>13. ASSUME NEW i \in DOMAIN orders, BrokerFill(i) PROVE TypeOK'
  <2>1. orders[i] \in Order
    OBVIOUS
  <2>2. orders[i].sym \in Symbols /\ orders[i].side \in Int
    BY <2>1 DEF Order, Sides, Long, Short
  <2>3. held' \in [Symbols -> Int]
    <3>1. held[orders[i].sym] + orders[i].side \in Int
      BY <2>2
    <3>2. held' = [held EXCEPT ![orders[i].sym] = held[orders[i].sym] + orders[i].side]
      BY <1>13 DEF BrokerFill
    <3>3. held \in [Symbols -> Int]
      OBVIOUS
    <3> HIDE DEF TypeOK
    <3> QED BY <2>2, <3>1, <3>2, <3>3
  <2>4. UNCHANGED <<loop, local, eodDone, closing, swept, window>>
    BY <1>13 DEF BrokerFill
  <2> QED BY <1>o, <2>3, <2>4
<1>14. CASE \E i \in DOMAIN orders : BrokerKill(i)
  BY <1>14, <1>o DEF BrokerKill
<1>15. CASE \E s \in Symbols : BrokerClose(s)
  BY <1>15, <1>o DEF BrokerClose
<1>16. CASE Clock
  BY <1>16, <1>o DEF Clock, Windows
<1>17. CASE UNCHANGED vars
  BY <1>17, <1>o DEF vars
<1> QED BY <1>1, <1>2, <1>3, <1>4, <1>5, <1>6, <1>7, <1>8, <1>9, <1>10, <1>11, <1>12, <1>13,
           <1>14, <1>15, <1>16, <1>17
        DEF Next, CycleStep, BrokerStep, Answer, EodFailed

\* Calls are in flight only within a cycle, and only candidates with a side are
\* visited.
LEMMA BooksKept == TypeOK /\ Books /\ [Next]_vars => Books'
<1> SUFFICES ASSUME TypeOK, Books, [Next]_vars PROVE Books'
  OBVIOUS
<1>o. /\ \A i \in DOMAIN orders' : orders'[i].live => orders'[i].filled < orders'[i].qty
      /\ \A i \in DOMAIN orders' : orders'[i].cycle <= cycles'
      /\ cycles \in 0..MaxCycles
  BY OrdersKept DEF TypeOK
<1>p. Worked => Pending' \subseteq Pending
  BY DEF Worked, SameOrder, Pending, TypeOK
<1>1. pc' = "idle" => Pending' = {}
  <2>1. CASE Worked
    <3>1. pc' = "idle" => pc = "idle" \/ Pending = {}
      BY DEF Next, CycleStep, TickStep, BrokerStep, Answer, Recorded, Refused, ExitNext,
         BeginRotations, BeginEntries, Enter, PassOver, EndCycle, AskPositions, EodClean,
         EodFailSafe, EodFailed, SkipCycle, BeginCycle, BeginEod, BrokerFill, BrokerKill,
         BrokerClose, Clock, loop, vars, At
    <3> QED BY <2>1, <3>1, <1>p DEF Books
  <2>2. CASE pc # "idle" /\ (ExitNext \/ Enter)
    BY <2>2 DEF ExitNext, Enter
  <2> QED BY <2>1, <2>2, OrdersEvolve
<1>2. pc' # "idle" => cycles' \in 1..MaxCycles
  <2>1. \/ pc # "idle" /\ cycles' = cycles
        \/ pc' = "idle"
        \/ pc = "idle" /\ cycles' = cycles + 1 /\ cycles < MaxCycles
    BY DEF Next, CycleStep, TickStep, BrokerStep, Answer, Recorded, Refused, ExitNext,
       BeginRotations, BeginEntries, Enter, PassOver, EndCycle, AskPositions, EodClean,
       EodFailSafe, EodFailed, LeaveEod, SkipCycle, BeginCycle, BeginEod, BrokerFill,
       BrokerKill, BrokerClose, Clock, loop, vars, At
  <2> QED BY <1>o, <2>1, SessionAssumption DEF Books
<1>3. pc' = "entries" => \A s \in todo' : ranked'[s] # 0
  <2>1. CASE BeginEntries
    BY <2>1 DEF BeginEntries
  <2>2. CASE pc' = "entries" /\ ~BeginEntries
    <3>1. pc = "entries" /\ ranked' = ranked /\ todo' \subseteq todo
      BY <2>2 DEF Next, CycleStep, TickStep, BrokerStep, Answer, Recorded, Refused, ExitNext,
         BeginRotations, Enter, PassOver, EndCycle, AskPositions, EodClean, EodFailSafe,
         EodFailed, LeaveEod, SkipCycle, BeginCycle, BeginEod, BrokerFill, BrokerKill,
         BrokerClose, Clock, loop, vars, At
    <3> QED BY <3>1 DEF Books
  <2> QED BY <2>1, <2>2
<1> QED BY <1>o, <1>1, <1>2, <1>3 DEF Books

--------------------------------------------------------------------------------
\* Once it is answered no call is in flight.
LEMMA AnswerEndsCall ==
  ASSUME TypeOK, Books, NEW i \in DOMAIN orders, Recorded(i)
  PROVE  /\ orders[i] \in Order /\ i \in Pending /\ Pending' = {}
         /\ DOMAIN orders' = DOMAIN orders /\ \A j \in DOMAIN orders \ {i} : orders'[j] = orders[j]
         /\ \E q \in 1..orders[i].filled :
              /\ orders'[i] = [orders[i] EXCEPT !.verdict = "recorded", !.booked = q]
              /\ IF orders[i].kind = "enter"
                   THEN /\ local' = [local EXCEPT ![orders[i].sym] = orders[i].side * q]
                        /\ room' = room - orders[i].qty
                   ELSE local' = [local EXCEPT ![orders[i].sym] = 0] /\ room' = room
<1>1. orders[i] \in Order /\ i \in Pending
  BY DEF TypeOK, Recorded, Pending
<1>2. PICK q \in 1..orders[i].filled :
        /\ orders' = [orders EXCEPT ![i].verdict = "recorded", ![i].booked = q]
        /\ IF orders[i].kind = "enter"
             THEN /\ local' = [local EXCEPT ![orders[i].sym] = orders[i].side * q]
                  /\ room' = room - orders[i].qty
             ELSE local' = [local EXCEPT ![orders[i].sym] = 0] /\ room' = room
  BY DEF Recorded
<1> DEFINE o == [orders[i] EXCEPT !.verdict = "recorded", !.booked = q]
<1>3. /\ DOMAIN orders' = DOMAIN orders /\ \A j \in DOMAIN orders \ {i} : orders'[j] = orders[j]
      /\ orders'[i] = o
  BY <1>2 DEF TypeOK
<1>4. o.verdict = "recorded"
  BY <1>1 DEF Order
<1>5. Pending' = {}
  <2>1. Pending \subseteq {i}
    BY <1>1 DEF TypeOK
  <2>2. \A j \in DOMAIN orders \ {i} : orders[j].verdict # "pending"
    BY <2>1 DEF Pending
  <2> HIDE DEF o
  <2> QED BY <1>3, <1>4, <2>2 DEF Pending
<1> QED BY <1>1, <1>2, <1>3, <1>5

\* The gates an entry in flight has passed still hold: nothing else adds a
\* position while its order waits for confirmation.
RoomForPending ==
  \A i \in Pending : orders[i].kind = "enter" => PositionGates(orders[i].sym, orders[i].side)

Caps == RoomForPending /\ CapsHold /\ SectorCapHolds

\* Positions that go leave room.
LEMMA FewerKeepCaps ==
  ASSUME CapsHold, SectorCapHolds, \A s \in Symbols : local'[s] \in {0, local[s]}
  PROVE  CapsHold' /\ SectorCapHolds'
<1>1. /\ Open' \subseteq Open /\ \A d \in Sides : OnSide(d)' \subseteq OnSide(d)
      /\ \A k : InSector(k)' \subseteq InSector(k)
  BY DEF Open, OnSide, InSector, Sides, Long, Short
<1>2. \A S, T \in SUBSET Symbols : S \subseteq T => /\ Cardinality(S) <= Cardinality(T)
                                                  /\ Cardinality(S) \in Nat
                                                  /\ Cardinality(T) \in Nat
  BY FS_Subset, FS_CardinalityType, SessionAssumption
<1>3. /\ Open \subseteq Symbols /\ Open' \subseteq Symbols
      /\ \A d \in Sides : OnSide(d) \subseteq Symbols /\ OnSide(d)' \subseteq Symbols
      /\ \A k : InSector(k) \subseteq Symbols /\ InSector(k)' \subseteq Symbols
  BY DEF Open, OnSide, InSector
<1>4. Cardinality(Open)' <= MaxOpen
  <2>1. Cardinality(Open') <= Cardinality(Open) /\ Cardinality(Open) \in Nat
        /\ Cardinality(Open') \in Nat
    BY <1>1, <1>2, <1>3
  <2> QED BY <2>1, SessionAssumption DEF CapsHold
<1>5. ASSUME NEW d \in Sides PROVE Cardinality(OnSide(d))' <= SideCap(d)
  <2>1. /\ Cardinality(OnSide(d)') <= Cardinality(OnSide(d))
        /\ Cardinality(OnSide(d)) \in Nat /\ Cardinality(OnSide(d)') \in Nat
    BY <1>1, <1>2, <1>3
  <2>2. SideCap(d) \in Nat /\ Cardinality(OnSide(d)) <= SideCap(d)
    BY SessionAssumption DEF SideCap, CapsHold
  <2> QED BY <2>1, <2>2
<1>6. ASSUME SectorLimit > 0, NEW k \in {Sector[s] : s \in Symbols} \ {NoSector}
      PROVE  Cardinality(InSector(k))' <= SectorLimit
  <2>1. /\ Cardinality(InSector(k)') <= Cardinality(InSector(k))
        /\ Cardinality(InSector(k)) \in Nat /\ Cardinality(InSector(k)') \in Nat
    BY <1>1, <1>2, <1>3
  <2> QED BY <1>6, <2>1, SessionAssumption DEF SectorCapHolds
<1> QED BY <1>4, <1>5, <1>6 DEF CapsHold, SectorCapHolds

\* A confirmed entry takes the one place the gates left for it.
LEMMA EntryKeepsCaps ==
  ASSUME TypeOK, CapsHold, SectorCapHolds, NEW s \in Symbols, NEW d \in Sides,
         PositionGates(s, d), NEW q \in 1..MaxSize,
         local' = [local EXCEPT ![s] = d * q]
  PROVE  CapsHold' /\ SectorCapHolds'
<1>1. d * q # 0 /\ \A e \in Sides : (d * q) * e > 0 <=> e = d
  <2>1. q \in Nat \ {0} /\ d \in {1, -1} /\ Sides = {1, -1}
    BY SessionAssumption DEF Sides, Long, Short
  <2>2. CASE d = 1
    BY <2>1, <2>2
  <2>3. CASE d = -1
    BY <2>1, <2>3
  <2> QED BY <2>1, <2>2, <2>3
<1>2. /\ Open' = Open \cup {s}
      /\ OnSide(d)' = OnSide(d) \cup {s}
      /\ \A e \in Sides : e # d => OnSide(e)' \subseteq OnSide(e)
      /\ \A k : InSector(k)' \subseteq InSector(k) \cup {s}
      /\ \A k : k # Sector[s] => InSector(k)' \subseteq InSector(k)
  BY <1>1 DEF TypeOK, Open, OnSide, InSector
<1>3. \A S \in SUBSET Symbols : /\ IsFiniteSet(S) /\ Cardinality(S) \in Nat
                                /\ Cardinality(S \cup {s}) <= Cardinality(S) + 1
                                /\ Cardinality(S \cup {s}) \in Nat
                                /\ \A T \in SUBSET S : Cardinality(T) <= Cardinality(S)
  <2> TAKE S \in SUBSET Symbols
  <2>1. IsFiniteSet(S)
    BY FS_Subset, SessionAssumption
  <2>2. Cardinality(S) \in Nat
    BY <2>1, FS_CardinalityType
  <2>3. Cardinality(S \cup {s}) \in {Cardinality(S), Cardinality(S) + 1}
    BY <2>1, FS_AddElement
  <2> QED BY <2>1, <2>2, <2>3, FS_Subset
<1>4. /\ Open \subseteq Symbols
      /\ \A e \in Sides : OnSide(e) \subseteq Symbols /\ OnSide(e)' \subseteq Symbols
      /\ \A k : InSector(k) \subseteq Symbols /\ InSector(k)' \subseteq Symbols
  BY DEF Open, OnSide, InSector
<1>5. Cardinality(Open)' <= MaxOpen
  BY <1>2, <1>3, <1>4, SessionAssumption DEF PositionGates
<1>6. ASSUME NEW e \in Sides PROVE Cardinality(OnSide(e))' <= SideCap(e)
  <2>1. SideCap(e) \in Nat /\ Cardinality(OnSide(e)) <= SideCap(e)
    BY SessionAssumption DEF SideCap, CapsHold
  <2>2. CASE e = d
    BY <1>2, <1>3, <1>4, <2>1, <2>2 DEF PositionGates
  <2>3. CASE e # d
    <3>1. /\ Cardinality(OnSide(e)') <= Cardinality(OnSide(e))
          /\ Cardinality(OnSide(e)) \in Nat /\ Cardinality(OnSide(e)') \in Nat
      BY <1>2, <1>3, <1>4, <2>3
    <3> QED BY <2>1, <3>1
  <2> QED BY <2>2, <2>3
<1>7. ASSUME SectorLimit > 0, NEW k \in {Sector[t] : t \in Symbols} \ {NoSector}
      PROVE  Cardinality(InSector(k))' <= SectorLimit
  <2>1. Cardinality(InSector(k)) <= SectorLimit
    BY <1>7 DEF SectorCapHolds
  <2>2. CASE k = Sector[s]
    <3>1. Cardinality(InSector(k)) < SectorLimit
      BY <1>7, <2>2 DEF PositionGates
    <3>2. /\ Cardinality(InSector(k)') <= Cardinality(InSector(k) \cup {s})
          /\ Cardinality(InSector(k) \cup {s}) <= Cardinality(InSector(k)) + 1
          /\ Cardinality(InSector(k)) \in Nat /\ Cardinality(InSector(k)') \in Nat
          /\ Cardinality(InSector(k) \cup {s}) \in Nat
      BY <1>2, <1>3, <1>4
    <3> QED BY <3>1, <3>2, SessionAssumption
  <2>3. CASE k # Sector[s]
    <3>1. /\ Cardinality(InSector(k)') <= Cardinality(InSector(k))
          /\ Cardinality(InSector(k)) \in Nat /\ Cardinality(InSector(k)') \in Nat
      BY <1>2, <1>3, <1>4, <2>3
    <3> QED BY <2>1, <3>1, SessionAssumption
  <2> QED BY <2>2, <2>3
<1> QED BY <1>5, <1>6, <1>7 DEF CapsHold, SectorCapHolds

\* Only an answer and the fail-safe touch the positions.
LEMMA CapsKept ==
  ASSUME TypeOK, Books, Caps, [Next]_vars
  PROVE  Caps'
<1> USE DEF Caps
<1>p. Worked => /\ Pending' \subseteq Pending
                /\ \A i \in Pending : /\ orders'[i].kind = orders[i].kind
                                      /\ orders'[i].sym = orders[i].sym
                                      /\ orders'[i].side = orders[i].side
  BY DEF Worked, SameOrder, Pending, TypeOK
<1>g. UNCHANGED local =>
        /\ \A s, d : PositionGates(s, d)' = PositionGates(s, d)
        /\ CapsHold' = CapsHold /\ SectorCapHolds' = SectorCapHolds
  BY DEF PositionGates, CapsHold, SectorCapHolds, Open, OnSide, InSector
<1>1. ASSUME NEW i \in DOMAIN orders, Recorded(i) PROVE Caps'
  <2>1. orders[i] \in Order /\ i \in Pending
    BY <1>1, AnswerEndsCall
  <2>2. PICK q \in 1..orders[i].filled :
          IF orders[i].kind = "enter"
            THEN local' = [local EXCEPT ![orders[i].sym] = orders[i].side * q]
            ELSE local' = [local EXCEPT ![orders[i].sym] = 0]
    BY <1>1, AnswerEndsCall
  <2>3. Pending' = {}
    BY <1>1, AnswerEndsCall
  <2>4. RoomForPending'
    BY <2>3 DEF RoomForPending
  <2>5. CapsHold' /\ SectorCapHolds'
    <3>1. CASE orders[i].kind = "enter"
      <4>1. PositionGates(orders[i].sym, orders[i].side)
        BY <2>1, <3>1 DEF RoomForPending
      <4>2. orders[i].sym \in Symbols /\ orders[i].side \in Sides /\ q \in 1..MaxSize
        BY <2>1, SessionAssumption DEF Order
      <4> QED BY <2>2, <3>1, <4>1, <4>2, EntryKeepsCaps
    <3>2. CASE orders[i].kind # "enter"
      <4>1. \A s \in Symbols : local'[s] \in {0, local[s]}
        BY <2>2, <3>2 DEF TypeOK
      <4> QED BY <4>1, FewerKeepCaps
    <3> QED BY <3>1, <3>2
  <2> QED BY <2>4, <2>5
<1>2. CASE EodFailSafe
  <2>1. Pending' = {}
    BY <1>2, <1>p, LiquidateWorks DEF EodFailSafe, At
  <2>2. \A s \in Symbols : local'[s] \in {0, local[s]}
    BY <1>2 DEF EodFailSafe
  <2> QED BY <2>1, <2>2, FewerKeepCaps DEF RoomForPending
<1>3. CASE Enter
  <2>1. UNCHANGED local /\ Pending = {}
    BY <1>3 DEF Enter, At
  <2>2. PICK s \in todo, n \in 1..MaxSize :
          /\ s \in Symbols /\ ranked[s] \in Sides
          /\ PositionGates(s, ranked[s]) /\ s \notin exited /\ NoneReported(s)
          /\ Submit(s, "enter", ranked[s], n)
    BY <1>3, EnterSends
  <2>3. /\ orders' \in Seq(Order) /\ Len(orders') = Len(orders) + 1
        /\ \A i \in DOMAIN orders : orders'[i] = orders[i]
        /\ orders'[Len(orders) + 1].sym = s /\ orders'[Len(orders) + 1].side = ranked[s]
    BY <1>3, <2>2, SubmitAppends DEF Enter, At, Books
  <2>4. Pending' \subseteq {Len(orders) + 1}
    BY <2>3, OrdersKept
  <2>5. RoomForPending'
    BY <1>g, <2>1, <2>2, <2>3, <2>4 DEF RoomForPending
  <2> QED BY <1>g, <2>1, <2>5
<1>4. CASE ExitNext
  <2>1. UNCHANGED local
    BY <1>4 DEF ExitNext
  <2>2. CASE UNCHANGED orders
    BY <1>g, <1>p, <2>1, <2>2, SameWorks DEF RoomForPending
  <2>3. CASE ~UNCHANGED orders
    <3>1. PICK s \in Symbols : Submit(s, "exit", -Side(local[s]), Abs(local[s]))
      BY <1>4, <2>3 DEF ExitNext, TypeOK
    <3>2. \A i \in Pending' : orders'[i].kind = "exit"
      BY <1>4, <3>1 DEF ExitNext, At, Pending, Submit, TypeOK
    <3> QED BY <1>g, <2>1, <3>2 DEF RoomForPending
  <2> QED BY <2>2, <2>3
<1>5. CASE ~ExitNext /\ ~Enter /\ UNCHANGED local
  <2>1. Worked
    BY <1>5, OrdersEvolve
  <2> QED BY <1>g, <1>p, <1>5, <2>1 DEF RoomForPending
<1>6. \/ \E i \in DOMAIN orders : Recorded(i)
      \/ EodFailSafe \/ Enter \/ ExitNext \/ UNCHANGED local
  BY DEF Next, CycleStep, TickStep, BrokerStep, Answer, Refused, BeginRotations,
     BeginEntries, PassOver, EndCycle, AskPositions, EodClean, EodFailed, SkipCycle,
     BeginCycle, BeginEod, BrokerFill, BrokerKill, BrokerClose, Clock, vars
<1> QED BY <1>1, <1>2, <1>3, <1>4, <1>5, <1>6

--------------------------------------------------------------------------------
\* Every symbol this cycle recorded an exit of is still cooling down.
CooldownCovers ==
  \A i \in DOMAIN orders :
    orders[i].kind = "exit" /\ orders[i].verdict = "recorded" /\ orders[i].cycle = cycles
    => pc = "idle" \/ orders[i].sym \in exited

\* An order becomes recorded by its answer, which starts the cooldown of an exit.
LEMMA RecordedByAnswer ==
  ASSUME TypeOK, Books, [Next]_vars, Worked, NEW i \in DOMAIN orders,
         orders'[i].verdict = "recorded"
  PROVE  \/ orders[i].verdict = "recorded"
         \/ /\ i \in Pending
            /\ orders[i].kind = "exit" => orders[i].sym \in exited'
<1>1. \A j \in DOMAIN orders : orders[j] \in Order
  BY DEF TypeOK
<1>2. ASSUME NEW j \in DOMAIN orders, Recorded(j)
      PROVE  \/ orders[i].verdict = "recorded"
             \/ i \in Pending /\ (orders[i].kind = "exit" => orders[i].sym \in exited')
  <2>1. CASE i = j
    BY <1>2, <2>1 DEF Recorded, Pending
  <2>2. CASE i # j
    <3>1. orders'[i] = orders[i]
      BY <1>2, <2>2 DEF Recorded, TypeOK
    <3> QED BY <3>1
  <2> QED BY <2>1, <2>2
<1>3. ASSUME NEW j \in DOMAIN orders, Refused(j) \/ BrokerKill(j) \/ BrokerFill(j)
      PROVE  orders[i].verdict = "recorded"
  <2>1. CASE i = j
    <3>1. CASE Refused(j)
      BY <1>1, <2>1, <3>1 DEF Refused, TypeOK, Order
    <3>2. CASE BrokerKill(j)
      BY <1>1, <2>1, <3>2 DEF BrokerKill, TypeOK, Order
    <3>3. CASE BrokerFill(j)
      BY <1>1, <2>1, <3>3 DEF BrokerFill, TypeOK, Order
    <3> QED BY <1>3, <3>1, <3>2, <3>3
  <2>2. CASE i # j
    <3>1. orders'[i] = orders[i]
      BY <1>3, <2>2 DEF Refused, BrokerKill, BrokerFill, TypeOK
    <3> QED BY <3>1
  <2> QED BY <2>1, <2>2
<1>4. CASE Liquidate
  <2>1. orders'[i] = [orders[i] EXCEPT !.live = FALSE]
    BY <1>4 DEF Liquidate
  <2> QED BY <1>1, <2>1 DEF Order
<1>5. CASE ExitNext \/ Enter
  <2>1. UNCHANGED orders
    <3>1. Len(orders') = Len(orders)
      BY DEF Worked
    <3>2. ASSUME NEW s, NEW k, NEW d, NEW n, Submit(s, k, d, n) PROVE FALSE
      <4>1. PICK v, l : orders' = Append(orders,
              [sym |-> s, kind |-> k, side |-> d, qty |-> n, cycle |-> cycles,
               filled |-> 0, live |-> l, verdict |-> v, booked |-> 0])
        BY <3>2 DEF Submit
      <4>2. Len(orders') = Len(orders) + 1 /\ Len(orders) \in Nat
        BY <4>1 DEF TypeOK
      <4> QED BY <3>1, <4>2
    <3> QED BY <1>5, <3>2 DEF ExitNext, Enter
  <2> QED BY <2>1
<1>6. CASE UNCHANGED orders
  BY <1>6
<1>7. \/ \E j \in DOMAIN orders : Recorded(j) \/ Refused(j) \/ BrokerKill(j) \/ BrokerFill(j)
      \/ Liquidate \/ ExitNext \/ Enter \/ UNCHANGED orders
  BY DEF Next, CycleStep, TickStep, BrokerStep, Answer, BeginRotations, BeginEntries, PassOver,
     EndCycle, AskPositions, EodClean, EodFailSafe, EodFailed, SkipCycle, BeginCycle, BeginEod,
     BrokerClose, Clock, broker, vars
<1> QED BY <1>2, <1>3, <1>4, <1>5, <1>6, <1>7

\* A cooldown ends only with its cycle.
LEMMA CooldownLasts ==
  ASSUME TypeOK, [Next]_vars
  PROVE  \/ cycles' = cycles + 1
         \/ cycles' = cycles /\ (pc' = "idle" \/ (pc # "idle" /\ exited \subseteq exited'))
  BY DEF Next, CycleStep, TickStep, BrokerStep, Answer, Recorded, Refused, ExitNext,
     BeginRotations, BeginEntries, Enter, PassOver, EndCycle, AskPositions, EodClean,
     EodFailSafe, EodFailed, LeaveEod, SkipCycle, BeginCycle, BeginEod, BrokerFill,
     BrokerKill, BrokerClose, Clock, loop, vars, At

\* An entry sent in this cycle was checked against every exit recorded in it.
LEMMA ReentryKept ==
  ASSUME TypeOK, Books, CooldownCovers, NoReentryInCycle, [Next]_vars
  PROVE  CooldownCovers' /\ NoReentryInCycle'
<1>1. \A i \in DOMAIN orders : orders[i].cycle \in Nat
  <2>1. \A i \in DOMAIN orders : orders[i] \in Order
    BY DEF TypeOK
  <2> QED BY <2>1 DEF Order
<1>2. cycles \in Nat
  BY SessionAssumption DEF TypeOK
<1>3. CASE Worked
  <2>1. /\ DOMAIN orders' = DOMAIN orders
        /\ \A i \in DOMAIN orders : SameOrder(orders[i], orders'[i])
    BY <1>3 DEF Worked, TypeOK
  <2>2. ASSUME NEW i \in DOMAIN orders, orders'[i].kind = "exit",
               orders'[i].verdict = "recorded", orders'[i].cycle = cycles'
        PROVE  pc' = "idle" \/ orders'[i].sym \in exited'
    <3>1. orders[i].kind = "exit" /\ orders[i].cycle = cycles' /\ orders[i].sym = orders'[i].sym
      BY <2>1, <2>2 DEF SameOrder
    <3>2. cycles' = cycles
      BY <1>1, <1>2, <3>1, CooldownLasts DEF Books
    <3>3. orders[i].verdict = "recorded" \/ orders[i].sym \in exited'
      BY <1>3, <2>2, <3>1, RecordedByAnswer
    <3> QED BY <1>2, <3>1, <3>2, <3>3, CooldownLasts DEF CooldownCovers
  <2>3. ASSUME NEW i \in DOMAIN orders, NEW j \in DOMAIN orders, i < j,
               orders'[i].sym = orders'[j].sym, orders'[i].cycle = orders'[j].cycle,
               orders'[i].kind = "exit", orders'[i].verdict = "recorded"
        PROVE  orders'[j].kind = "exit"
    <3>1. /\ orders[i].sym = orders[j].sym /\ orders[i].cycle = orders[j].cycle
          /\ orders[i].kind = "exit" /\ orders'[j].kind = orders[j].kind
      BY <2>1, <2>3 DEF SameOrder
    <3>2. i \notin Pending
      BY <2>3 DEF TypeOK
    <3>3. orders[i].verdict = "recorded"
      BY <1>3, <2>3, <3>2, RecordedByAnswer
    <3> QED BY <2>3, <3>1, <3>3 DEF NoReentryInCycle
  <2> QED BY <2>1, <2>2, <2>3 DEF CooldownCovers, NoReentryInCycle
<1>4. CASE Sends /\ pc # "idle" /\ cycles \in 1..MaxCycles /\ (ExitNext \/ Enter)
  <2> DEFINE last == Len(orders) + 1
  <2>1. /\ orders' \in Seq(Order) /\ Len(orders') = last
        /\ \A i \in DOMAIN orders : orders'[i] = orders[i]
    BY <1>4, SendsAppends
  <2>2. \A i \in DOMAIN orders' : i \in DOMAIN orders \/ i = last
    BY <2>1 DEF TypeOK
  <2>3. UNCHANGED <<pc, cycles, exited>>
    BY <1>4 DEF ExitNext, Enter
  <2>4. /\ orders'[last].verdict # "recorded"
        /\ \/ orders'[last].kind = "exit"
           \/ orders'[last].sym \notin exited /\ orders'[last].cycle = cycles
    <3>1. CASE ExitNext /\ ~UNCHANGED orders
      <4>1. PICK s \in todo : Submit(s, "exit", -Side(local[s]), Abs(local[s]))
        BY <3>1 DEF ExitNext
      <4> QED BY <4>1 DEF Submit, TypeOK
    <3>2. CASE Enter
      BY <1>4, <3>2, EnterSends, SubmitAppends
    <3>3. ~UNCHANGED orders
      BY <2>1 DEF TypeOK
    <3> QED BY <1>4, <3>1, <3>2, <3>3
  <2>5. CooldownCovers'
    BY <2>1, <2>2, <2>3, <2>4 DEF CooldownCovers
  <2>6. ASSUME NEW i \in DOMAIN orders', NEW j \in DOMAIN orders', i < j,
               orders'[i].sym = orders'[j].sym, orders'[i].cycle = orders'[j].cycle,
               orders'[i].kind = "exit", orders'[i].verdict = "recorded"
        PROVE  orders'[j].kind = "exit"
    <3>1. i \in DOMAIN orders
      BY <2>2, <2>4, <2>6
    <3>2. CASE j \in DOMAIN orders
      BY <2>1, <2>6, <3>1, <3>2 DEF NoReentryInCycle
    <3>3. CASE j = last
      BY <1>4, <2>1, <2>4, <2>6, <3>1, <3>3 DEF CooldownCovers
    <3> QED BY <2>2, <3>2, <3>3
  <2> QED BY <2>5, <2>6 DEF NoReentryInCycle
<1> QED BY <1>3, <1>4, OrdersEvolve

--------------------------------------------------------------------------------
\* Once closed, a day is not reopened: the clock does not turn back, and the
\* only cycles that send orders start before the window or before eodDone.
ClosedForTheDay ==
  /\ eodDone \/ pc \in {"eod", "eodOrders"} => window # "regular"
  /\ eodDone => pc = "idle"

LEMMA ClosedKept == ClosedForTheDay /\ [Next]_vars => ClosedForTheDay'
<1> SUFFICES ASSUME ClosedForTheDay, [Next]_vars PROVE ClosedForTheDay'
  OBVIOUS
<1>1. ASSUME UNCHANGED <<pc, eodDone, window>> PROVE ClosedForTheDay'
  BY <1>1 DEF ClosedForTheDay
<1>2. CASE Answer \/ ExitNext \/ Enter \/ PassOver \/ SkipCycle \/ BrokerStep \/ UNCHANGED vars
  <2>1. UNCHANGED <<pc, eodDone, window>>
    BY <1>2 DEF Answer, Recorded, Refused, ExitNext, Enter, PassOver, SkipCycle, BrokerStep,
       BrokerFill, BrokerKill, BrokerClose, loop, vars
  <2> QED BY <1>1, <2>1
<1>3. CASE BeginRotations \/ BeginEntries
  BY <1>3 DEF BeginRotations, BeginEntries, ClosedForTheDay, At
<1>4. CASE EndCycle
  BY <1>4 DEF EndCycle, ClosedForTheDay, At
<1>5. CASE AskPositions
  BY <1>5 DEF AskPositions, ClosedForTheDay, At
<1>6. CASE EodClean \/ EodFailSafe \/ EodFailed
  <2>1. window # "regular"
    BY <1>6 DEF EodClean, EodFailSafe, EodFailed, At, ClosedForTheDay
  <2>2. pc' = "idle" /\ window' = window
    BY <1>6 DEF EodClean, EodFailSafe, EodFailed, LeaveEod
  <2> QED BY <2>1, <2>2 DEF ClosedForTheDay
<1>7. CASE BeginCycle
  <2>1. ~eodDone /\ eodDone' = eodDone /\ pc' = "exits"
    BY <1>7 DEF BeginCycle, ClosedForTheDay
  <2> QED BY <2>1 DEF ClosedForTheDay
<1>8. CASE BeginEod
  <2>1. ~eodDone /\ eodDone' = eodDone /\ window' = "buffer"
    BY <1>8 DEF BeginEod, EodDue
  <2> QED BY <2>1 DEF ClosedForTheDay
<1>9. CASE Clock
  <2>1. window' # "regular" /\ pc' = pc /\ eodDone' = eodDone
    BY <1>9 DEF Clock, loop
  <2> QED BY <2>1 DEF ClosedForTheDay
<1> QED BY <1>2, <1>3, <1>4, <1>5, <1>6, <1>7, <1>8, <1>9 DEF Next, CycleStep, TickStep

\* After the day is closed the orders are only worked.
LEMMA ClosedSendsNothing ==
  TypeOK /\ Books /\ ClosedForTheDay /\ [Next]_vars => (eodDone => Len(orders') = Len(orders))
  BY OrdersEvolve DEF ClosedForTheDay, Worked

\* An entry finds no order of its symbol working, and none is ever revived.
LEMMA WorkingKept ==
  ASSUME TypeOK, Books, NoEntryBehindWorkingOrder, [Next]_vars
  PROVE  NoEntryBehindWorkingOrder'
<1> SUFFICES ASSUME ~QueriesFail, NEW s \in Symbols, NEW i \in LiveOn(s)', NEW j \in LiveOn(s)', i < j
             PROVE  orders'[j].kind = "exit"
  BY DEF NoEntryBehindWorkingOrder
<1>1. CASE Worked
  <2>1. LiveOn(s)' \subseteq LiveOn(s)
    BY <1>1 DEF Worked, SameOrder, LiveOn, TypeOK
  <2>2. j \in DOMAIN orders /\ orders[j].kind = "exit"
    BY <2>1 DEF NoEntryBehindWorkingOrder, LiveOn
  <2> QED BY <1>1, <2>2 DEF Worked, SameOrder
<1>2. CASE Sends /\ cycles \in 1..MaxCycles /\ (ExitNext \/ Enter)
  <2> DEFINE last == Len(orders) + 1
  <2>1. /\ orders' \in Seq(Order) /\ Len(orders') = last
        /\ \A k \in DOMAIN orders : orders'[k] = orders[k]
    BY <1>2, SendsAppends
  <2>2. i \in DOMAIN orders
    BY <2>1 DEF LiveOn, TypeOK
  <2>3. CASE j \in DOMAIN orders
    BY <2>1, <2>2, <2>3 DEF LiveOn, NoEntryBehindWorkingOrder
  <2>4. CASE j = last /\ Enter
    <3>1. PICK t \in todo, n \in 1..MaxSize :
            /\ t \in Symbols /\ ranked[t] \in Sides /\ NoneReported(t)
            /\ Submit(t, "enter", ranked[t], n)
      BY <2>4, EnterSends
    <3>2. orders'[last].sym = t
      BY <1>2, <3>1, SubmitAppends
    <3>3. t = s
      BY <2>4, <3>2 DEF LiveOn
    <3>4. i \in LiveOn(t)
      BY <2>1, <2>2, <3>3 DEF LiveOn
    <3> QED BY <3>1, <3>4 DEF NoneReported
  <2>5. CASE j = last /\ ExitNext
    <3>1. ~UNCHANGED orders
      BY <2>1 DEF TypeOK
    <3>2. PICK t \in todo : Submit(t, "exit", -Side(local[t]), Abs(local[t]))
      BY <2>5, <3>1 DEF ExitNext
    <3> QED BY <2>5, <3>2 DEF Submit, TypeOK
  <2>6. j \in DOMAIN orders \/ j = last
    BY <2>1 DEF LiveOn, TypeOK
  <2> QED BY <1>2, <2>3, <2>4, <2>5, <2>6
<1> QED BY <1>1, <1>2, OrdersEvolve

--------------------------------------------------------------------------------
\* Exits in flight are for the whole position, no fill exceeds its order, and until
\* a liquidation is asked for nobody but the loop's orders touches the account.
Flattening ==
  /\ ~swept => closing = {}
  /\ \A i \in Pending : orders[i].kind = "exit" =>
       orders[i].side * orders[i].qty = -local[orders[i].sym]
  /\ \A i \in DOMAIN orders : orders[i].filled <= orders[i].qty

\* The sum of DriftIsUnrecorded, over any list of orders.
OrdersOf(os, s) == {i \in DOMAIN os : os[i].sym = s}
Untold(os)      == [i \in DOMAIN os |-> os[i].side * Unrecorded(os[i])]
Drift(os, s)    == SumFunctionOnSet(Untold(os), OrdersOf(os, s))

\* What an order hides is a number of shares, on one side or the other.
LEMMA SharesOf ==
  ASSUME NEW o \in Order PROVE o.side \in {1, -1} /\ Unrecorded(o) \in Int
<1>1. o.side \in {1, -1} /\ o.filled \in Int /\ o.booked \in Int /\ o.qty \in Int
  BY SessionAssumption DEF Order, Sides, Long, Short
<1> QED BY <1>1 DEF Unrecorded

\* The sums of DriftIsUnrecorded are sums of integers over finite sets.
LEMMA DriftSums ==
  ASSUME NEW os \in Seq(Order)
  PROVE  /\ \A i \in DOMAIN os : Untold(os)[i] \in Int
         /\ \A s \in Symbols : IsFiniteSet(OrdersOf(os, s)) /\ Drift(os, s) \in Int
<1>1. ASSUME NEW i \in DOMAIN os PROVE Untold(os)[i] \in Int
  <2>1. os[i] \in Order
    OBVIOUS
  <2>2. os[i].side \in {1, -1} /\ Unrecorded(os[i]) \in Int
    BY <2>1, SharesOf
  <2>3. \A n \in Int : 1 * n \in Int /\ (-1) * n \in Int
    OBVIOUS
  <2> QED BY <2>2, <2>3 DEF Untold
<1>2. IsFiniteSet(DOMAIN os)
  <2>1. DOMAIN os = 1..Len(os) /\ Len(os) \in Nat
    OBVIOUS
  <2> QED BY <2>1, FS_Interval
<1>3. ASSUME NEW s \in Symbols PROVE IsFiniteSet(OrdersOf(os, s))
  BY <1>2, FS_Subset DEF OrdersOf
<1>4. ASSUME NEW s \in Symbols PROVE Drift(os, s) \in Int
  <2>1. \A i \in OrdersOf(os, s) : Untold(os)[i] \in Int
    BY <1>1 DEF OrdersOf
  <2> QED BY <1>3, <2>1, SumInt DEF Drift
<1> QED BY <1>1, <1>3, <1>4

\* One summand changes.
LEMMA DriftAt ==
  ASSUME NEW os \in Seq(Order), NEW ns \in Seq(Order), NEW s \in Symbols,
         OrdersOf(ns, s) = OrdersOf(os, s), NEW i \in OrdersOf(os, s),
         \A j \in OrdersOf(os, s) \ {i} : Untold(ns)[j] = Untold(os)[j]
  PROVE  SumFunctionOnSet(Untold(ns), OrdersOf(os, s)) =
           SumFunctionOnSet(Untold(os), OrdersOf(os, s)) - Untold(os)[i] + Untold(ns)[i]
<1>1. IsFiniteSet(OrdersOf(os, s)) /\ \A j \in OrdersOf(os, s) : Untold(os)[j] \in Int
  BY DriftSums DEF OrdersOf
<1>2. \A j \in OrdersOf(os, s) : Untold(ns)[j] \in Int
  BY DriftSums DEF OrdersOf
<1> DEFINE S == OrdersOf(os, s)
           w == Untold(os)
           v == Untold(ns)
<1>3. IsFiniteSet(S) /\ i \in S
  BY <1>1
<1>4. \A j \in S : w[j] \in Int /\ v[j] \in Int
  BY <1>1, <1>2
<1>5. \A j \in S \ {i} : v[j] = w[j]
  OBVIOUS
<1> HIDE DEF S, w, v
<1>6. SumFunctionOnSet(v, S) = SumFunctionOnSet(w, S) - w[i] + v[i]
  BY <1>3, <1>4, <1>5, SumChange
<1> QED BY <1>6 DEF S, w, v

\* One order changes what it hides by so many shares.
LEMMA DriftOfOne ==
  ASSUME NEW os \in Seq(Order), NEW ns \in Seq(Order), NEW i \in DOMAIN os, NEW n \in Int,
         DOMAIN ns = DOMAIN os, \A j \in DOMAIN os \ {i} : ns[j] = os[j],
         ns[i].sym = os[i].sym, ns[i].side = os[i].side,
         Unrecorded(ns[i]) = Unrecorded(os[i]) + n,
         NEW s \in Symbols
  PROVE  Drift(ns, s) = Drift(os, s) + (IF s = os[i].sym THEN os[i].side * n ELSE 0)
<1>1. OrdersOf(ns, s) = OrdersOf(os, s)
  BY DEF OrdersOf
<1>2. \A j \in OrdersOf(os, s) \ {i} : Untold(ns)[j] = Untold(os)[j]
  BY DEF Untold, OrdersOf
<1>3. IsFiniteSet(OrdersOf(os, s)) /\ \A j \in OrdersOf(os, s) : Untold(os)[j] \in Int
  BY DriftSums DEF OrdersOf
<1>4. \A j \in OrdersOf(os, s) : Untold(ns)[j] \in Int
  BY DriftSums, <1>1 DEF OrdersOf
<1>5. Drift(os, s) \in Int
  BY DriftSums
<1>d. Drift(ns, s) = SumFunctionOnSet(Untold(ns), OrdersOf(os, s))
  BY <1>1 DEF Drift
<1>6. CASE i \in OrdersOf(os, s)
  <2>1. SumFunctionOnSet(Untold(ns), OrdersOf(os, s)) =
          SumFunctionOnSet(Untold(os), OrdersOf(os, s)) - Untold(os)[i] + Untold(ns)[i]
    BY <1>1, <1>2, <1>6, DriftAt
  <2>2. Untold(ns)[i] = Untold(os)[i] + os[i].side * n
    <3>1. os[i] \in Order
      OBVIOUS
    <3>2. os[i].side \in {1, -1} /\ Unrecorded(os[i]) \in Int
      BY <3>1, SharesOf
    <3>3. \A d \in {1, -1}, u \in Int : d * (u + n) = d * u + d * n
      OBVIOUS
    <3>4. Untold(ns)[i] = os[i].side * (Unrecorded(os[i]) + n)
      BY DEF Untold
    <3>5. Untold(os)[i] = os[i].side * Unrecorded(os[i])
      BY DEF Untold
    <3> QED BY <3>2, <3>3, <3>4, <3>5
  <2>3. Untold(os)[i] \in Int /\ Untold(ns)[i] \in Int
    BY <1>3, <1>4, <1>6
  <2>4. s = os[i].sym
    BY <1>6 DEF OrdersOf
  <2>5. os[i].side * n \in Int
    <3>1. os[i] \in Order
      OBVIOUS
    <3>2. os[i].side \in {1, -1}
      BY <3>1 DEF Order, Sides, Long, Short
    <3> QED BY <3>2
  <2> DEFINE dn == os[i].side * n
  <2>6. Drift(ns, s) = Drift(os, s) - Untold(os)[i] + (Untold(os)[i] + dn)
    BY <1>d, <2>1, <2>2 DEF Drift
  <2> HIDE DEF dn
  <2>7. Drift(ns, s) = Drift(os, s) + dn
    <3>1. dn \in Int
      BY <2>5 DEF dn
    <3> QED BY <1>5, <2>3, <2>6, <3>1
  <2> QED BY <2>4, <2>7 DEF dn
<1>7. CASE i \notin OrdersOf(os, s)
  <2>1. s # os[i].sym
    BY <1>7 DEF OrdersOf
  <2>2. \A j \in OrdersOf(os, s) : Untold(os)[j] \in Int /\ Untold(os)[j] = Untold(ns)[j]
    BY <1>2, <1>3, <1>7
  <2>3. Drift(ns, s) = Drift(os, s)
    BY <1>3, <1>d, <2>2, SumSame DEF Drift
  <2> QED BY <1>5, <2>1, <2>3
<1> QED BY <1>6, <1>7

\* An order nothing was executed of yet hides nothing.
LEMMA DriftOfNew ==
  ASSUME NEW os \in Seq(Order), NEW ns \in Seq(Order), Len(ns) = Len(os) + 1,
         \A i \in DOMAIN os : ns[i] = os[i],
         ns[Len(os) + 1].filled = 0, ns[Len(os) + 1].verdict # "recorded",
         NEW s \in Symbols
  PROVE  Drift(ns, s) = Drift(os, s)
<1> DEFINE last == Len(os) + 1
<1>0. DOMAIN ns = DOMAIN os \cup {last} /\ last \notin DOMAIN os
  OBVIOUS
<1>1. \A i \in OrdersOf(os, s) : Untold(os)[i] \in Int /\ Untold(os)[i] = Untold(ns)[i]
  BY <1>0, DriftSums DEF Untold, OrdersOf
<1>2. Untold(ns)[last] = 0
  <2>1. ns[last] \in Order
    BY <1>0
  <2>2. ns[last].side \in {1, -1} /\ Unrecorded(ns[last]) = 0
    BY <2>1 DEF Order, Sides, Long, Short, Unrecorded
  <2> QED BY <1>0, <2>2 DEF Untold
<1>3. IsFiniteSet(OrdersOf(os, s)) /\ IsFiniteSet(OrdersOf(ns, s))
  BY DriftSums
<1>4. SumFunctionOnSet(Untold(ns), OrdersOf(os, s)) = Drift(os, s) /\ Drift(os, s) \in Int
  <2>1. SumFunctionOnSet(Untold(os), OrdersOf(os, s)) = SumFunctionOnSet(Untold(ns), OrdersOf(os, s))
    BY <1>1, <1>3, SumSame
  <2> QED BY <2>1, DriftSums DEF Drift
<1>5. CASE last \in OrdersOf(ns, s)
  <2>1. OrdersOf(ns, s) \ {last} = OrdersOf(os, s)
    BY <1>0 DEF OrdersOf
  <2>2. \A i \in OrdersOf(ns, s) : Untold(ns)[i] \in Int
    BY DriftSums DEF OrdersOf
  <2>3. SumFunctionOnSet(Untold(ns), OrdersOf(ns, s)) =
          Untold(ns)[last] + SumFunctionOnSet(Untold(ns), OrdersOf(ns, s) \ {last})
    BY <1>3, <1>5, <2>2, SumRemove
  <2>4. SumFunctionOnSet(Untold(ns), OrdersOf(ns, s) \ {last}) = Drift(os, s)
    BY <1>4, <2>1
  <2>5. Drift(ns, s) = 0 + Drift(os, s) /\ Drift(os, s) \in Int
    BY <1>2, <1>4, <2>3, <2>4 DEF Drift
  <2> QED BY <2>5
<1>6. CASE last \notin OrdersOf(ns, s)
  <2>1. OrdersOf(ns, s) = OrdersOf(os, s)
    BY <1>0, <1>6 DEF OrdersOf
  <2> QED BY <1>4, <2>1 DEF Drift
<1> QED BY <1>5, <1>6

\* The order that flattens a position is exactly its opposite.
LEMMA OppositeIsAll ==
  ASSUME NEW v \in Int, v # 0 PROVE (-Side(v)) * Abs(v) = -v
<1>1. CASE v > 0
  BY <1>1 DEF Side, Abs, Long, Short
<1>2. CASE v < 0
  BY <1>2 DEF Side, Abs, Long, Short
<1> QED BY <1>1, <1>2

\* What an exit order is for, and what a fill may reach.
LEMMA FlatteningKept ==
  ASSUME TypeOK, Books, Flattening, [Next]_vars
  PROVE  Flattening'
<1>1. ~swept' => closing' = {}
  <2>1. \/ swept'
        \/ swept' = swept /\ closing' \subseteq closing
    BY DEF Next, CycleStep, TickStep, BrokerStep, Answer, Recorded, Refused, ExitNext,
       BeginRotations, BeginEntries, Enter, PassOver, EndCycle, AskPositions, EodClean,
       EodFailSafe, EodFailed, Liquidate, SkipCycle, BeginCycle, BeginEod, BrokerFill, BrokerKill,
       BrokerClose, Clock, broker, vars
  <2> QED BY <2>1 DEF Flattening
<1>2. CASE Worked
  <2>1. DOMAIN orders' = DOMAIN orders /\ Pending' \subseteq Pending
    BY <1>2 DEF Worked, SameOrder, Pending, TypeOK
  <2>2. \A i \in DOMAIN orders' : orders'[i].filled <= orders'[i].qty
    <3>1. ASSUME NEW i \in DOMAIN orders PROVE orders'[i].filled <= orders'[i].qty
      <4>1. SameOrder(orders[i], orders'[i]) /\ orders[i].filled <= orders[i].qty
        BY <1>2 DEF Worked, Flattening
      <4>2. orders[i].filled <= orders[i].qty => orders'[i].filled <= orders'[i].qty
        BY <4>1 DEF SameOrder
      <4> QED BY <4>1, <4>2
    <3> QED BY <2>1, <3>1
  <2>3. Pending' = {} \/ UNCHANGED local
    <3>1. (\E i \in DOMAIN orders : Recorded(i)) => Pending' = {}
      BY AnswerEndsCall
    <3>2. EodFailSafe => Pending' = {}
      BY <2>1 DEF EodFailSafe, At
    <3> QED BY <3>1, <3>2
        DEF Next, CycleStep, TickStep, BrokerStep, Answer, Refused, ExitNext, BeginRotations,
            BeginEntries, Enter, PassOver, EndCycle, AskPositions, EodClean, EodFailed,
            SkipCycle, BeginCycle, BeginEod, BrokerFill, BrokerKill, BrokerClose, Clock, vars
  <2>4. ASSUME NEW i \in Pending', orders'[i].kind = "exit"
        PROVE  orders'[i].side * orders'[i].qty = -local'[orders'[i].sym]
    <3>1. i \in Pending /\ i \in DOMAIN orders /\ UNCHANGED local
      BY <2>1, <2>3 DEF Pending
    <3>2. /\ orders'[i].kind = orders[i].kind /\ orders'[i].side = orders[i].side
          /\ orders'[i].qty = orders[i].qty /\ orders'[i].sym = orders[i].sym
      BY <1>2, <3>1 DEF Worked, SameOrder
    <3> QED BY <2>4, <3>1, <3>2 DEF Flattening
  <2> QED BY <1>1, <2>2, <2>4 DEF Flattening
<1>3. CASE Sends /\ Pending = {} /\ cycles \in 1..MaxCycles /\ (ExitNext \/ Enter)
  <2> DEFINE last == Len(orders) + 1
  <2>1. /\ orders' \in Seq(Order) /\ Len(orders') = last
        /\ \A i \in DOMAIN orders : orders'[i] = orders[i]
        /\ orders'[last].filled < orders'[last].qty
    BY <1>3, SendsAppends
  <2>2. \A i \in DOMAIN orders' : i \in DOMAIN orders \/ i = last
    BY <2>1 DEF TypeOK
  <2>3. orders'[last].filled <= orders'[last].qty
    <3>1. last \in DOMAIN orders'
      BY <2>1 DEF TypeOK
    <3>2. orders'[last] \in Order
      BY <2>1, <3>1
    <3>3. orders'[last].filled \in Int /\ orders'[last].qty \in Int
      BY <3>2, SessionAssumption DEF Order
    <3> QED BY <2>1, <3>3
  <2>4. \A i \in DOMAIN orders' : orders'[i].filled <= orders'[i].qty
    BY <2>1, <2>2, <2>3 DEF Flattening
  <2>5. Pending' \subseteq {last}
    BY <2>1, OrdersKept
  <2>6. UNCHANGED local
    BY <1>3 DEF ExitNext, Enter
  <2>7. orders'[last].kind = "exit" =>
          orders'[last].side * orders'[last].qty = -local[orders'[last].sym]
    <3>1. CASE Enter
      BY <1>3, <3>1, EnterSends, SubmitAppends
    <3>2. CASE ExitNext
      <4>1. ~UNCHANGED orders
        BY <2>1 DEF TypeOK
      <4>2. PICK s \in todo : local[s] # 0 /\ Submit(s, "exit", -Side(local[s]), Abs(local[s]))
        BY <3>2, <4>1 DEF ExitNext
      <4>3. s \in Symbols /\ local[s] \in -MaxSize..MaxSize
        BY DEF TypeOK
      <4>4. -Side(local[s]) \in Sides /\ Abs(local[s]) \in 1..MaxSize
        BY <4>2, <4>3, OppositeOrder
      <4>5. /\ orders'[last].sym = s /\ orders'[last].side = -Side(local[s])
            /\ orders'[last].qty = Abs(local[s])
        BY <1>3, <4>2, <4>3, <4>4, SubmitAppends
      <4>6. (-Side(local[s])) * Abs(local[s]) = -local[s]
        BY <4>2, <4>3, OppositeIsAll, SessionAssumption
      <4> QED BY <4>5, <4>6
    <3> QED BY <1>3, <3>1, <3>2
  <2> QED BY <1>1, <2>4, <2>5, <2>6, <2>7 DEF Flattening
<1> QED BY <1>2, <1>3, OrdersEvolve

\* Every step moves the account, the books and what the orders hide together.
LEMMA DriftKept ==
  ASSUME TypeOK, TypeOK', Books, Caps, Flattening, DriftIsUnrecorded, [Next]_vars
  PROVE  DriftIsUnrecorded'
<1> SUFFICES ASSUME ~swept', NEW s \in Symbols
             PROVE  held'[s] - local'[s] = Drift(orders', s)
  BY DEF DriftIsUnrecorded, Drift, Untold, OrdersOf
<1>0. ~swept
  BY DEF Next, CycleStep, TickStep, BrokerStep, Answer, Recorded, Refused, ExitNext,
     BeginRotations, BeginEntries, Enter, PassOver, EndCycle, AskPositions, EodClean,
     EodFailSafe, EodFailed, Liquidate, SkipCycle, BeginCycle, BeginEod, BrokerFill, BrokerKill,
     BrokerClose, Clock, broker, vars
<1>1. held[s] - local[s] = Drift(orders, s)
  BY <1>0 DEF DriftIsUnrecorded, Drift, Untold, OrdersOf
<1>2. /\ orders \in Seq(Order) /\ orders' \in Seq(Order)
      /\ held[s] \in Int /\ local[s] \in Int /\ Drift(orders, s) \in Int
  BY DriftSums, SessionAssumption DEF TypeOK
<1>3. ASSUME NEW i \in DOMAIN orders, Recorded(i) PROVE held'[s] - local'[s] = Drift(orders', s)
  <2> DEFINE o == orders[i]
  <2>1. /\ o \in Order /\ i \in Pending
        /\ DOMAIN orders' = DOMAIN orders /\ \A j \in DOMAIN orders \ {i} : orders'[j] = orders[j]
    BY <1>3, AnswerEndsCall
  <2>2. PICK q \in 1..o.filled :
          /\ orders'[i] = [o EXCEPT !.verdict = "recorded", !.booked = q]
          /\ IF o.kind = "enter" THEN local' = [local EXCEPT ![o.sym] = o.side * q]
                                 ELSE local' = [local EXCEPT ![o.sym] = 0]
    BY <1>3, AnswerEndsCall
  <2>3. o.sym \in Symbols /\ o.side \in {1, -1} /\ o.filled \in Int /\ o.qty \in Int /\ q \in Int
    BY <2>1, SessionAssumption DEF Order, Sides, Long, Short
  <2>4. orders'[i].sym = o.sym /\ orders'[i].side = o.side
    BY <2>1, <2>2 DEF Order
  <2>5. held' = held
    BY <1>3 DEF Recorded
  <2>v. o.verdict = "pending"
    BY <2>1 DEF Pending
  <2>6. CASE o.kind = "enter"
    <3>1. Unrecorded(orders'[i]) = Unrecorded(o) + (-q)
      <4>1. Unrecorded(o) = o.filled
        BY <2>v DEF Unrecorded
      <4>2. /\ orders'[i].verdict = "recorded" /\ orders'[i].kind = "enter"
            /\ orders'[i].filled = o.filled /\ orders'[i].booked = q
        BY <2>1, <2>2, <2>6 DEF Order
      <4>3. Unrecorded(orders'[i]) = o.filled - q
        BY <4>2 DEF Unrecorded
      <4> QED BY <2>3, <4>1, <4>3
    <3>2. Drift(orders', s) = Drift(orders, s) + (IF s = o.sym THEN o.side * (-q) ELSE 0)
      BY <1>2, <2>1, <2>3, <2>4, <3>1, DriftOfOne
    <3>3. local[o.sym] = 0
      BY <2>1, <2>3, <2>6 DEF Caps, RoomForPending, PositionGates, Open
    <3>4. local'[s] = IF s = o.sym THEN o.side * q ELSE local[s]
      BY <2>2, <2>6 DEF TypeOK
    <3>5. o.side * (-q) = -(o.side * q) /\ o.side * q \in Int
      BY <2>3
    <3> QED BY <1>1, <1>2, <2>5, <3>2, <3>3, <3>4, <3>5
  <2>7. CASE o.kind # "enter"
    <3>1. Unrecorded(orders'[i]) = Unrecorded(o) + (-o.qty)
      <4>1. Unrecorded(o) = o.filled
        BY <2>v DEF Unrecorded
      <4>2. /\ orders'[i].verdict = "recorded" /\ orders'[i].kind # "enter"
            /\ orders'[i].filled = o.filled /\ orders'[i].qty = o.qty
        BY <2>1, <2>2, <2>7 DEF Order
      <4>3. Unrecorded(orders'[i]) = o.filled - o.qty
        BY <4>2 DEF Unrecorded
      <4> QED BY <2>3, <4>1, <4>3
    <3>2. Drift(orders', s) = Drift(orders, s) + (IF s = o.sym THEN o.side * (-o.qty) ELSE 0)
      BY <1>2, <2>1, <2>3, <2>4, <3>1, DriftOfOne
    <3>3. o.side * o.qty = -local[o.sym]
      BY <2>1, <2>7 DEF Flattening, Order
    <3>4. local'[s] = IF s = o.sym THEN 0 ELSE local[s]
      BY <2>2, <2>7 DEF TypeOK
    <3>5. o.side * (-o.qty) = -(o.side * o.qty) /\ o.side * o.qty \in Int
      BY <2>3
    <3> QED BY <1>1, <1>2, <2>5, <3>2, <3>3, <3>4, <3>5
  <2> QED BY <2>6, <2>7
<1>4. ASSUME NEW i \in DOMAIN orders, Refused(i) \/ BrokerKill(i)
      PROVE  held'[s] - local'[s] = Drift(orders', s)
  <2>1. orders[i] \in Order
    BY DEF TypeOK
  <2>2. \/ /\ orders[i].verdict = "pending"
           /\ orders' = [orders EXCEPT ![i] = [orders[i] EXCEPT !.verdict = "refused"]]
        \/ orders' = [orders EXCEPT ![i] = [orders[i] EXCEPT !.live = FALSE]]
    BY <1>4 DEF Refused, BrokerKill, TypeOK
  <2>3. DOMAIN orders' = DOMAIN orders /\ \A j \in DOMAIN orders \ {i} : orders'[j] = orders[j]
    BY <2>2 DEF TypeOK
  <2>4. /\ orders'[i].sym = orders[i].sym /\ orders'[i].side = orders[i].side
        /\ Unrecorded(orders'[i]) = Unrecorded(orders[i])
    <3>1. CASE /\ orders[i].verdict = "pending"
               /\ orders' = [orders EXCEPT ![i] = [orders[i] EXCEPT !.verdict = "refused"]]
      BY <2>1, <3>1 DEF Order, Unrecorded, TypeOK
    <3>2. CASE orders' = [orders EXCEPT ![i] = [orders[i] EXCEPT !.live = FALSE]]
      BY <2>1, <3>2 DEF Order, Unrecorded, TypeOK
    <3> QED BY <2>2, <3>1, <3>2
  <2>5. Unrecorded(orders'[i]) = Unrecorded(orders[i]) + 0
    BY <2>1, <2>4, SharesOf
  <2>6. Drift(orders', s) = Drift(orders, s) + (IF s = orders[i].sym THEN orders[i].side * 0 ELSE 0)
    BY <1>2, <2>3, <2>4, <2>5, DriftOfOne
  <2>7. orders[i].side * 0 = 0
    BY <2>1, SharesOf
  <2>8. held' = held /\ local' = local
    BY <1>4 DEF Refused, BrokerKill
  <2> QED BY <1>1, <1>2, <2>6, <2>7, <2>8
<1>5. ASSUME NEW i \in DOMAIN orders, BrokerFill(i)
      PROVE  held'[s] - local'[s] = Drift(orders', s)
  <2> DEFINE o == orders[i]
  <2>0. o \in Order
    BY DEF TypeOK
  <2>1. o \in Order /\ o.filled \in Int
    BY <2>0, SessionAssumption DEF Order
  <2>2. orders' = [orders EXCEPT ![i] = [o EXCEPT !.filled = o.filled + 1,
                                                  !.live = o.filled + 1 < o.qty]]
    BY <1>5 DEF BrokerFill, TypeOK
  <2>3. DOMAIN orders' = DOMAIN orders /\ \A j \in DOMAIN orders \ {i} : orders'[j] = orders[j]
    BY <2>2 DEF TypeOK
  <2>4. /\ orders'[i].sym = o.sym /\ orders'[i].side = o.side /\ orders'[i].kind = o.kind
        /\ orders'[i].filled = o.filled + 1 /\ orders'[i].verdict = o.verdict
        /\ orders'[i].booked = o.booked /\ orders'[i].qty = o.qty
    BY <2>1, <2>2 DEF Order, TypeOK
  <2>5. Unrecorded(orders'[i]) = Unrecorded(o) + 1
    <3>1. o.booked \in Int /\ o.qty \in Int
      BY <2>1, SessionAssumption DEF Order
    <3> QED BY <2>1, <2>4, <3>1 DEF Unrecorded
  <2>6. Drift(orders', s) = Drift(orders, s) + (IF s = o.sym THEN o.side * 1 ELSE 0)
    BY <1>2, <2>3, <2>4, <2>5, DriftOfOne
  <2>7. o.side * 1 = o.side /\ o.side \in Int
    BY <2>1, SharesOf
  <2>8. local' = local /\ held'[s] = IF s = o.sym THEN held[s] + o.side ELSE held[s]
    BY <1>5 DEF BrokerFill, TypeOK
  <2> QED BY <1>1, <1>2, <2>6, <2>7, <2>8
<1>6. CASE Sends /\ cycles \in 1..MaxCycles /\ (ExitNext \/ Enter)
  <2>1. /\ Len(orders') = Len(orders) + 1
        /\ \A i \in DOMAIN orders : orders'[i] = orders[i]
        /\ orders'[Len(orders) + 1].filled = 0
        /\ orders'[Len(orders) + 1].verdict # "recorded"
    <3>1. PICK t \in Symbols, k \in {"enter", "exit"}, d \in Sides, n \in 1..MaxSize :
            Submit(t, k, d, n)
      BY <1>6 DEF Sends
    <3> QED BY <1>6, <3>1, SubmitAppends
  <2>2. Drift(orders', s) = Drift(orders, s)
    BY <1>2, <2>1, DriftOfNew
  <2>3. held' = held /\ local' = local
    BY <1>6 DEF ExitNext, Enter
  <2> QED BY <1>1, <2>2, <2>3
<1>7. CASE UNCHANGED <<orders, held, local>>
  BY <1>1, <1>7
<1>8. \/ \E i \in DOMAIN orders : Recorded(i) \/ Refused(i) \/ BrokerKill(i) \/ BrokerFill(i)
      \/ UNCHANGED <<orders, held, local>>
      \/ Sends /\ cycles \in 1..MaxCycles /\ (ExitNext \/ Enter)
  <2>1. ~EodFailSafe /\ ~Liquidate /\ \A t \in Symbols : ~BrokerClose(t)
    BY <1>0 DEF EodFailSafe, Liquidate, BrokerClose, Flattening
  <2>2. CASE Enter \/ ExitNext
    <3>1. CASE Enter
      <4>1. Sends
        BY <3>1, EnterSends DEF Sends
      <4> QED BY <3>1, <4>1 DEF Enter, At, Books
    <3>2. CASE ExitNext
      BY <3>2, ExitSends DEF ExitNext, At, Books
    <3> QED BY <2>2, <3>1, <3>2
  <2> QED BY <2>1, <2>2
      DEF Next, CycleStep, TickStep, BrokerStep, Answer, BeginRotations, BeginEntries,
          PassOver, EndCycle, AskPositions, EodClean, EodFailed, SkipCycle, BeginCycle,
          BeginEod, Clock, broker, vars
<1> QED BY <1>3, <1>4, <1>5, <1>6, <1>7, <1>8

--------------------------------------------------------------------------------
\* What is left for entries: the room never overstates what equity allows, and an
\* entry in flight has asked for no more than the room.
GrossRoom ==
  /\ room \in Int
  /\ pc = "entries" => room <= equity - GrossExposure
  /\ \A i \in Pending : orders[i].kind = "enter" => pc = "entries" /\ orders[i].qty <= room

\* GrossExposure of any books.
Gross(l) == SumFunctionOnSet([s \in Symbols |-> Abs(l[s])], Symbols)

\* The exposure is a number, and one position changes it by its own size.
LEMMA GrossInt == ASSUME NEW l \in [Symbols -> Int] PROVE Gross(l) \in Int
<1>1. \A s \in Symbols : [t \in Symbols |-> Abs(l[t])][s] \in Int
  BY DEF Abs
<1> QED BY <1>1, SumInt, SessionAssumption DEF Gross

LEMMA GrossOfOne ==
  ASSUME NEW l \in [Symbols -> Int], NEW s \in Symbols, NEW n \in Int
  PROVE  Gross([l EXCEPT ![s] = n]) = Gross(l) - Abs(l[s]) + Abs(n)
<1> DEFINE w == [t \in Symbols |-> Abs(l[t])]
           v == [t \in Symbols |-> Abs([l EXCEPT ![s] = n][t])]
<1>1. \A t \in Symbols : w[t] \in Int /\ v[t] \in Int
  BY DEF Abs
<1>2. \A t \in Symbols \ {s} : v[t] = w[t]
  OBVIOUS
<1>3. w[s] = Abs(l[s]) /\ v[s] = Abs(n)
  OBVIOUS
<1>4. IsFiniteSet(Symbols)
  BY SessionAssumption
<1> HIDE DEF w, v
<1>5. SumFunctionOnSet(v, Symbols) = SumFunctionOnSet(w, Symbols) - w[s] + v[s]
  <2>1. \A x \in Symbols : (\A t \in Symbols \ {x} : v[t] = w[t]) =>
          SumFunctionOnSet(v, Symbols) = SumFunctionOnSet(w, Symbols) - w[x] + v[x]
    BY <1>1, <1>4, SumChange
  <2> QED BY <1>2, <2>1
<1> QED BY <1>3, <1>5 DEF Gross, w, v

LEMMA GrossOfNone ==
  ASSUME NEW l, \A s \in Symbols : l[s] = 0 PROVE Gross(l) = 0
<1>1. \A s \in Symbols : [t \in Symbols |-> Abs(l[t])][s] = 0
  BY DEF Abs
<1> QED BY <1>1, SumZero, SessionAssumption DEF Gross

\* An entry takes from the room what it adds to the exposure, or more, and nothing
\* else adds to the exposure.
LEMMA GrossKept ==
  ASSUME TypeOK, Books, Caps, Flattening, GrossRoom, [Next]_vars
  PROVE  /\ GrossRoom'
         /\ GrossExposure' > GrossExposure => GrossExposure' <= equity
<1>0. /\ local \in [Symbols -> Int] /\ Gross(local) \in Int /\ equity \in Nat
      /\ room \in Int
      /\ pc = "entries" => room <= equity - Gross(local)
  <2>1. local \in [Symbols -> Int] /\ equity \in Nat
    BY SessionAssumption DEF TypeOK
  <2> QED BY <2>1, GrossInt DEF GrossRoom, GrossExposure, Gross
<1> DEFINE Kept == /\ GrossRoom'
                   /\ GrossExposure' > GrossExposure => GrossExposure' <= equity
<1>g. ASSUME Gross(local') <= Gross(local) \/ Gross(local') <= equity,
             Gross(local') \in Int, room' \in Int,
             pc' = "entries" => room' <= equity' - Gross(local'),
             \A i \in Pending' : orders'[i].kind = "enter" =>
               pc' = "entries" /\ orders'[i].qty <= room'
      PROVE  Kept
  <2>1. GrossRoom'
    BY <1>g DEF GrossRoom, GrossExposure, Gross
  <2>2. GrossExposure = Gross(local) /\ GrossExposure' = Gross(local')
    BY DEF GrossExposure, Gross
  <2> QED BY <1>0, <1>g, <2>1, <2>2
<1> HIDE DEF Kept
<1>1. ASSUME NEW i \in DOMAIN orders, Recorded(i) PROVE Kept
  <2> DEFINE o == orders[i]
  <2>1. o \in Order /\ i \in Pending /\ Pending' = {}
    BY <1>1, AnswerEndsCall
  <2>2. PICK q \in 1..o.filled :
          IF o.kind = "enter"
            THEN local' = [local EXCEPT ![o.sym] = o.side * q] /\ room' = room - o.qty
            ELSE local' = [local EXCEPT ![o.sym] = 0] /\ room' = room
    BY <1>1, AnswerEndsCall
  <2>3. /\ o.sym \in Symbols /\ o.side \in {1, -1} /\ o.qty \in Nat /\ q \in Nat
        /\ o.filled \in Nat /\ o.filled <= o.qty
    BY <2>1, SessionAssumption DEF Order, Sides, Long, Short, Flattening
  <2>4. pc' = pc /\ equity' = equity
    BY <1>1 DEF Recorded
  <2>5. Abs(local[o.sym]) \in Nat /\ q <= o.qty
    BY <1>0, <2>3 DEF Abs
  <2>6. CASE o.kind = "enter"
    <3>1. pc = "entries" /\ o.qty <= room
      BY <2>1, <2>6 DEF GrossRoom
    <3>2. Gross(local') = Gross(local) - Abs(local[o.sym]) + q
      <4>1. o.side * q \in Int /\ Abs(o.side * q) = q
        <5>1. CASE o.side = 1
          BY <2>3, <5>1 DEF Abs
        <5>2. CASE o.side = -1
          BY <2>3, <5>2 DEF Abs
        <5> QED BY <2>3, <5>1, <5>2
      <4> QED BY <1>0, <2>2, <2>3, <2>6, <4>1, GrossOfOne
    <3>3. room' = room - o.qty
      BY <2>2, <2>6
    <3>4. /\ Gross(local') <= equity /\ Gross(local') \in Int
          /\ room' \in Int /\ room' <= equity' - Gross(local')
      BY <1>0, <2>3, <2>4, <2>5, <3>1, <3>2, <3>3
    <3> QED BY <1>g, <2>1, <3>4
  <2>7. CASE o.kind # "enter"
    <3>1. Gross(local') = Gross(local) - Abs(local[o.sym])
      <4>1. Abs(0) = 0
        BY DEF Abs
      <4>2. Gross(local') = Gross(local) - Abs(local[o.sym]) + 0
        BY <1>0, <2>2, <2>3, <2>7, <4>1, GrossOfOne
      <4> QED BY <1>0, <2>5, <4>2
    <3>2. room' = room
      BY <2>2, <2>7
    <3>3. /\ Gross(local') <= Gross(local) /\ Gross(local') \in Int /\ room' \in Int
          /\ pc' = "entries" => room' <= equity' - Gross(local')
      BY <1>0, <2>4, <2>5, <3>1, <3>2
    <3> QED BY <1>g, <2>1, <3>3
  <2> QED BY <2>6, <2>7
<1>2. CASE EodFailSafe
  <2>1. Pending' = {}
    BY <1>2, LiquidateWorks DEF EodFailSafe, At, Worked, SameOrder, Pending, TypeOK
  <2>2. Gross(local') = 0
    BY <1>2, GrossOfNone DEF EodFailSafe
  <2>3. pc' = "idle" /\ room' = room
    BY <1>2 DEF EodFailSafe, LeaveEod, funds
  <2>4. 0 <= equity
    BY <1>0
  <2>5. /\ Gross(local') <= Gross(local) \/ Gross(local') <= equity
        /\ Gross(local') \in Int /\ room' \in Int
        /\ pc' = "entries" => room' <= equity' - Gross(local')
    BY <1>0, <2>2, <2>3, <2>4
  <2>6. \A i \in Pending' : orders'[i].kind = "enter" =>
          pc' = "entries" /\ orders'[i].qty <= room'
    BY <2>1
  <2> QED BY <1>g, <2>5, <2>6 DEF Kept
<1>3. CASE BeginEntries
  <2>1. PICK e \in Equities : equity' = e /\ room' = e - GrossExposure
    BY <1>3 DEF BeginEntries
  <2>2. Pending' = {} /\ local' = local /\ room' = equity' - Gross(local)
    BY <1>3, <2>1 DEF BeginEntries, At, Pending, broker, GrossExposure, Gross
  <2>3. equity' \in Nat
    BY <2>1, SessionAssumption
  <2>4. /\ Gross(local') <= Gross(local) \/ Gross(local') <= equity
        /\ Gross(local') \in Int /\ room' \in Int
        /\ pc' = "entries" => room' <= equity' - Gross(local')
    BY <1>0, <2>2, <2>3
  <2>5. \A i \in Pending' : orders'[i].kind = "enter" =>
          pc' = "entries" /\ orders'[i].qty <= room'
    BY <2>2
  <2> QED BY <1>g, <2>4, <2>5 DEF Kept
<1>4. CASE EndCycle
  <2>1. Pending' = {} /\ local' = local /\ room' = 0 /\ pc' = "idle"
    BY <1>4 DEF EndCycle, At, Pending, broker
  <2>2. /\ Gross(local') <= Gross(local) \/ Gross(local') <= equity
        /\ Gross(local') \in Int /\ room' \in Int
        /\ pc' = "entries" => room' <= equity' - Gross(local')
    BY <1>0, <2>1
  <2>3. \A i \in Pending' : orders'[i].kind = "enter" =>
          pc' = "entries" /\ orders'[i].qty <= room'
    BY <2>1
  <2> QED BY <1>g, <2>2, <2>3 DEF Kept
<1>5. CASE Enter
  <2>1. PICK s \in todo : \E n \in 1..MaxSize :
          CapitalGates(n) /\ Submit(s, "enter", ranked[s], n)
    BY <1>5 DEF Enter
  <2>2. PICK n \in 1..MaxSize : CapitalGates(n) /\ Submit(s, "enter", ranked[s], n)
    BY <2>1
  <2>3. s \in Symbols /\ ranked[s] \in Sides /\ cycles \in 1..MaxCycles
    BY <1>5 DEF Enter, At, TypeOK, Books
  <2>4. Pending' \subseteq {Len(orders) + 1} /\ orders'[Len(orders) + 1].qty = n
    BY <2>2, <2>3, OrdersKept, SubmitAppends
  <2>5. /\ pc' = pc /\ pc = "entries" /\ room' = room /\ equity' = equity
        /\ local' = local /\ n <= room
    BY <1>5, <2>2 DEF Enter, At, CapitalGates, funds
  <2>6. /\ Gross(local') <= Gross(local) \/ Gross(local') <= equity
        /\ Gross(local') \in Int /\ room' \in Int
        /\ pc' = "entries" => room' <= equity' - Gross(local')
    BY <1>0, <2>5
  <2>7. \A i \in Pending' : orders'[i].kind = "enter" =>
          pc' = "entries" /\ orders'[i].qty <= room'
    BY <2>4, <2>5
  <2> QED BY <1>g, <2>6, <2>7 DEF Kept
<1>6. CASE ExitNext
  <2>1. pc' = pc /\ room' = room /\ equity' = equity /\ local' = local /\ Pending = {}
    BY <1>6 DEF ExitNext, At, funds
  <2>2. \A i \in Pending' : orders'[i].kind = "exit"
    <3>1. CASE UNCHANGED orders
      BY <2>1, <3>1 DEF Pending
    <3>2. CASE ~UNCHANGED orders
      <4>1. PICK s \in Symbols : Submit(s, "exit", -Side(local[s]), Abs(local[s]))
        BY <1>6, <3>2 DEF ExitNext, TypeOK
      <4> QED BY <2>1, <4>1 DEF Pending, Submit, TypeOK
    <3> QED BY <3>1, <3>2
  <2>3. /\ Gross(local') <= Gross(local) \/ Gross(local') <= equity
        /\ Gross(local') \in Int /\ room' \in Int
        /\ pc' = "entries" => room' <= equity' - Gross(local')
    BY <1>0, <2>1
  <2>4. \A i \in Pending' : orders'[i].kind = "enter" =>
          pc' = "entries" /\ orders'[i].qty <= room'
    BY <2>2
  <2> QED BY <1>g, <2>3, <2>4 DEF Kept
<1>7. CASE /\ ~ExitNext /\ ~Enter /\ UNCHANGED <<local, room, equity>>
           /\ pc' = pc \/ (Pending = {} /\ pc' # "entries")
  <2>1. Worked
    BY <1>7, OrdersEvolve
  <2>2. Pending' \subseteq Pending
    BY <2>1 DEF Worked, SameOrder, Pending, TypeOK
  <2>3. \A i \in Pending' : orders'[i].kind = "enter" =>
          pc' = "entries" /\ orders'[i].qty <= room'
    <3>1. ASSUME NEW i \in Pending', orders'[i].kind = "enter"
          PROVE  pc' = "entries" /\ orders'[i].qty <= room'
      <4>1. i \in Pending /\ pc' = pc
        BY <1>7, <2>2
      <4>2. orders[i].kind = orders'[i].kind /\ orders[i].qty = orders'[i].qty
        BY <2>1, <4>1 DEF Worked, SameOrder, Pending
      <4> QED BY <1>7, <3>1, <4>1, <4>2 DEF GrossRoom
    <3> QED BY <3>1
  <2>4. /\ Gross(local') <= Gross(local) \/ Gross(local') <= equity
        /\ Gross(local') \in Int /\ room' \in Int
        /\ pc' = "entries" => room' <= equity' - Gross(local')
    BY <1>0, <1>7
  <2> QED BY <1>g, <2>3, <2>4 DEF Kept
<1>8. \/ \E i \in DOMAIN orders : Recorded(i)
      \/ EodFailSafe \/ BeginEntries \/ EndCycle \/ Enter \/ ExitNext
      \/ UNCHANGED <<local, room, equity>> /\ (pc' = pc \/ (Pending = {} /\ pc' # "entries"))
  BY DEF Next, CycleStep, TickStep, BrokerStep, Answer, Refused, BeginRotations,
     PassOver, AskPositions, EodClean, EodFailed, LeaveEod, SkipCycle,
     BeginCycle, BeginEod, BrokerFill, BrokerKill, BrokerClose, Clock, loop, funds, vars, At
<1> QED BY <1>1, <1>2, <1>3, <1>4, <1>5, <1>6, <1>7, <1>8 DEF Kept

--------------------------------------------------------------------------------
\* Part of a set of symbols is no more of them.
LEMMA FewerSymbols ==
  ASSUME NEW S \in SUBSET Symbols, NEW T \in SUBSET S
  PROVE  /\ Cardinality(T) \in Nat /\ Cardinality(S) \in Nat
         /\ Cardinality(T) <= Cardinality(S) /\ Cardinality(S) <= Cardinality(Symbols)
         /\ \A s \in S : Cardinality(S \ {s}) = Cardinality(S) - 1
  BY FS_Subset, FS_CardinalityType, FS_RemoveElement, SessionAssumption

\* A refusal, too, ends the call it answers.
LEMMA RefusalEndsCall ==
  ASSUME TypeOK, NEW i \in DOMAIN orders, Refused(i)
  PROVE  i \in Pending /\ Pending' = {}
<1>1. orders[i] \in Order /\ i \in Pending
  BY DEF TypeOK, Refused, Pending
<1>2. \A j \in DOMAIN orders \ {i} : orders[j].verdict # "pending"
  BY <1>1 DEF TypeOK, Pending
<1>3. /\ DOMAIN orders' = DOMAIN orders /\ \A j \in DOMAIN orders \ {i} : orders'[j] = orders[j]
      /\ orders'[i] = [orders[i] EXCEPT !.verdict = "refused"]
  BY DEF Refused, TypeOK
<1>4. orders'[i].verdict = "refused"
  BY <1>1, <1>3 DEF Order
<1>5. ASSUME NEW j \in DOMAIN orders' PROVE orders'[j].verdict # "pending"
  BY <1>2, <1>3, <1>4
<1> QED BY <1>1, <1>5 DEF Pending

\* What the broker does leaves the call in flight, in flight.
LEMMA BrokerAnswersNothing ==
  ASSUME TypeOK, NEW i \in DOMAIN orders, BrokerFill(i) \/ BrokerKill(i)
  PROVE  Pending' = Pending
<1>1. \A j \in DOMAIN orders : orders[j] \in Order
  BY DEF TypeOK
<1>2. DOMAIN orders' = DOMAIN orders
  BY DEF BrokerFill, BrokerKill, TypeOK
<1>3. ASSUME NEW j \in DOMAIN orders PROVE orders'[j].verdict = orders[j].verdict
  <2>1. CASE BrokerFill(i)
    BY <1>1, <2>1 DEF BrokerFill, TypeOK, Order
  <2>2. CASE BrokerKill(i)
    BY <1>1, <2>2 DEF BrokerKill, TypeOK, Order
  <2> QED BY <2>1, <2>2
<1> QED BY <1>2, <1>3 DEF Pending

\* At most one call is in flight.
LEMMA OneInFlight ==
  ASSUME NEW P, NEW x, P \subseteq {x}
  PROVE  Cardinality(P) \in {0, 1} /\ (P = {} <=> Cardinality(P) = 0)
<1>1. P = {} \/ P = {x}
  OBVIOUS
<1> QED BY <1>1, FS_EmptySet, FS_Singleton

\* A step of the cycle is one step fewer, and no other step is one more.
LEMMA StepsShrink ==
  ASSUME TypeOK, TypeOK', Books, [Next]_vars
  PROVE  BudgetSpent
<1> DEFINE N == Cardinality(Symbols)
           t == Cardinality(todo)
           a == Cardinality(Pending)
           tt == Cardinality(todo')
           aa == Cardinality(Pending')
<1>1. /\ N \in Nat /\ t \in Nat /\ tt \in Nat /\ tt <= N
      /\ a \in {0, 1} /\ (Pending = {} <=> a = 0)
      /\ aa \in {0, 1} /\ (Pending' = {} <=> aa = 0)
      /\ (todo = {} => t = 0) /\ (todo' = {} => tt = 0)
      /\ \A s \in todo : Cardinality(todo \ {s}) = t - 1
      /\ \A S \in SUBSET todo : Cardinality(S) <= t
  <2>1. todo \in SUBSET Symbols /\ todo' \in SUBSET Symbols
    BY DEF TypeOK
  <2>2. N \in Nat /\ t \in Nat /\ tt \in Nat /\ tt <= N
    BY <2>1, FewerSymbols
  <2>3. /\ \A s \in todo : Cardinality(todo \ {s}) = t - 1
        /\ \A S \in SUBSET todo : Cardinality(S) <= t
    BY <2>1, FewerSymbols
  <2>4. a \in {0, 1} /\ (Pending = {} <=> a = 0)
    BY OneInFlight DEF TypeOK
  <2>5. aa \in {0, 1} /\ (Pending' = {} <=> aa = 0)
    <3>1. Pending' \subseteq {Len(orders')}
      BY DEF TypeOK
    <3> QED BY <3>1, OneInFlight
  <2>6. (todo = {} => t = 0) /\ (todo' = {} => tt = 0)
    BY FS_EmptySet
  <2> QED BY <2>2, <2>3, <2>4, <2>5, <2>6
<1> HIDE DEF N, t, a, tt, aa
<1>d. /\ StepsLeft = Phase + 2 * t + a /\ StepsLeft' = Phase' + 2 * tt + aa
      /\ Phase = IF pc = "exits" THEN 4 * N + 3 ELSE IF pc = "rotations" THEN 2 * N + 2
                 ELSE IF pc = "eod" THEN 2 ELSE IF pc \in {"entries", "eodOrders"} THEN 1 ELSE 0
      /\ Phase' = IF pc' = "exits" THEN 4 * N + 3 ELSE IF pc' = "rotations" THEN 2 * N + 2
                  ELSE IF pc' = "eod" THEN 2
                  ELSE IF pc' \in {"entries", "eodOrders"} THEN 1 ELSE 0
  <2>1. pc \in Steps /\ pc' \in Steps
    BY DEF TypeOK
  <2>2. Phase = IF pc = "exits" THEN 4 * N + 3 ELSE IF pc = "rotations" THEN 2 * N + 2
                ELSE IF pc = "eod" THEN 2 ELSE IF pc \in {"entries", "eodOrders"} THEN 1 ELSE 0
    BY <2>1 DEF Phase, N, Steps
  <2>3. Phase' = IF pc' = "exits" THEN 4 * N + 3 ELSE IF pc' = "rotations" THEN 2 * N + 2
                 ELSE IF pc' = "eod" THEN 2
                 ELSE IF pc' \in {"entries", "eodOrders"} THEN 1 ELSE 0
    BY <2>1 DEF Phase, N, Steps
  <2>4. StepsLeft = Phase + 2 * t + a /\ StepsLeft' = Phase' + 2 * tt + aa
    BY DEF StepsLeft, t, a, tt, aa
  <2> QED BY <2>2, <2>3, <2>4
<1>n. Phase \in Nat /\ Phase' \in Nat /\ StepsLeft \in Nat /\ StepsLeft' \in Nat
  BY <1>1, <1>d
<1>2. CASE Answer
  <2>1. pc' = pc /\ tt = t
    BY <1>2 DEF Answer, Recorded, Refused, loop, t, tt
  <2>2. Pending # {} /\ Pending' = {}
    BY <1>2, AnswerEndsCall, RefusalEndsCall DEF Answer
  <2> QED BY <1>1, <1>d, <1>n, <1>2, <2>1, <2>2 DEF CycleStep, BudgetSpent
<1>3. CASE ExitNext \/ Enter
  <2>1. PICK s \in todo : todo' = todo \ {s}
    BY <1>3 DEF ExitNext, Enter
  <2>2. tt = t - 1 /\ pc' = pc /\ a = 0
    BY <1>1, <1>3, <2>1 DEF ExitNext, Enter, At, tt
  <2>3. Phase' = Phase
    BY <1>d, <2>2
  <2> QED BY <1>1, <1>d, <1>n, <1>3, <2>2, <2>3 DEF CycleStep, BudgetSpent
<1>4. CASE BeginRotations \/ BeginEntries
  <2>1. /\ todo = {} /\ aa = 0
        /\ (pc = "exits" /\ pc' = "rotations") \/ (pc = "rotations" /\ pc' = "entries")
    BY <1>1, <1>4 DEF BeginRotations, BeginEntries, At, Pending, broker
  <2> QED BY <1>1, <1>d, <1>n, <1>4, <2>1 DEF CycleStep, BudgetSpent
<1>5. CASE PassOver
  <2>1. PICK s \in todo : todo' \in {{}, todo \ {s}}
    BY <1>5 DEF PassOver
  <2>2. tt <= t - 1 /\ pc' = pc /\ aa = 0
    <3>1. tt = 0 \/ tt = t - 1
      BY <1>1, <2>1 DEF tt
    <3>2. t - 1 \in Nat
      <4>1. Cardinality(todo \ {s}) \in Nat /\ Cardinality(todo \ {s}) = t - 1
        <5>1. todo \ {s} \in SUBSET todo /\ todo \in SUBSET Symbols
          BY DEF TypeOK
        <5> QED BY <1>1, <5>1, FewerSymbols
      <4> QED BY <4>1
    <3> QED BY <1>1, <1>5, <3>1, <3>2 DEF PassOver, At, Pending, broker
  <2>3. Phase' = Phase
    BY <1>d, <2>2
  <2> QED BY <1>1, <1>d, <1>n, <1>5, <2>2, <2>3 DEF CycleStep, BudgetSpent
<1>6. CASE EndCycle \/ AskPositions \/ EodClean \/ EodFailSafe \/ EodFailed
  <2>1. todo' = todo /\ Pending = {} /\ Pending' \subseteq Pending
    <3>1. CASE EodFailSafe \/ EodFailed
      <4>1. Worked /\ todo' = todo /\ Pending = {}
        BY <3>1, LiquidateWorks, SameWorks
           DEF EodFailSafe, EodFailed, LeaveEod, At, broker
      <4> QED BY <4>1 DEF Worked, SameOrder, Pending, TypeOK
    <3>2. CASE EndCycle \/ AskPositions \/ EodClean
      BY <3>2 DEF EndCycle, AskPositions, EodClean, LeaveEod, At, Pending, broker
    <3> QED BY <1>6, <3>1, <3>2
  <2>2. tt = t /\ aa = 0
    BY <1>1, <2>1 DEF t, tt
  <2>3. \/ pc \in {"entries", "eodOrders"} /\ pc' = "idle"
        \/ pc = "eod" /\ pc' = "eodOrders"
    BY <1>6 DEF EndCycle, AskPositions, EodClean, EodFailSafe, EodFailed, LeaveEod, At
  <2> QED BY <1>1, <1>d, <1>n, <1>6, <2>2, <2>3 DEF CycleStep, BudgetSpent
<1>7. CASE ~CycleStep
  <2>1. TickStep => pc = "idle"
    BY DEF TickStep, SkipCycle, BeginCycle, BeginEod, At
  <2>2. BrokerStep \/ Clock \/ UNCHANGED vars => UNCHANGED <<pc, todo, Pending>>
    <3>1. (\E i \in DOMAIN orders : BrokerFill(i) \/ BrokerKill(i)) => UNCHANGED <<pc, todo, Pending>>
      BY BrokerAnswersNothing DEF BrokerFill, BrokerKill, loop
    <3>2. (\E s \in Symbols : BrokerClose(s)) \/ Clock \/ UNCHANGED vars => UNCHANGED <<pc, todo, orders>>
      BY DEF BrokerClose, Clock, loop, broker, vars
    <3> QED BY <3>1, <3>2 DEF BrokerStep, Pending
  <2>3. pc # "idle" => StepsLeft' = StepsLeft
    BY <1>7, <2>1, <2>2 DEF Next, StepsLeft, Phase
  <2> QED BY <1>7, <1>n, <2>3 DEF BudgetSpent
<1> QED BY <1>2, <1>3, <1>4, <1>5, <1>6, <1>7 DEF CycleStep

--------------------------------------------------------------------------------
\* Everything above, together inductive.
IInv ==
  /\ TypeOK /\ Books /\ Caps /\ CooldownCovers /\ NoReentryInCycle
  /\ ClosedForTheDay /\ NoEntryBehindWorkingOrder
  /\ Flattening /\ DriftIsUnrecorded /\ GrossRoom

\* The day starts without orders and without positions.
LEMMA InitIInv == Init => IInv
<1> SUFFICES ASSUME Init PROVE IInv
  OBVIOUS
<1> USE SessionAssumption DEF Init
<1>1. Pending = {} /\ DOMAIN orders = {}
  BY DEF Pending
<1>2. TypeOK /\ Books
  <2>1. 0 \in -MaxSize..MaxSize /\ 0 \in 0..MaxCycles
    OBVIOUS
  <2>2. orders \in Seq(Order) /\ Pending \subseteq {Len(orders)}
    BY <1>1
  <2>3. TypeOK
    <3>1. /\ pc \in Steps /\ todo \subseteq Symbols /\ exited \subseteq Symbols
          /\ closing \subseteq Symbols /\ window \in Windows
          /\ sawHeld \in BOOLEAN /\ eodDone \in BOOLEAN /\ swept \in BOOLEAN
      BY DEF Steps, Windows
    <3>3. equity \in Equities \cup {0} /\ budget \in 0..equity
      OBVIOUS
    <3>2. /\ ranked \in [Symbols -> Sides \cup {0}] /\ held \in [Symbols -> Int]
          /\ local \in [Symbols -> -MaxSize..MaxSize]
          /\ cycles \in 0..MaxCycles
      BY <2>1
    <3> HIDE DEF Init
    <3> QED BY <2>2, <3>1, <3>2, <3>3 DEF TypeOK
  <2>4. Books
    BY <1>1 DEF Books
  <2> QED BY <2>3, <2>4
<1>3. Open = {} /\ (\A d \in Sides : OnSide(d) = {}) /\ \A k : InSector(k) = {}
  BY DEF Open, OnSide, InSector, Sides, Long, Short
<1>4. Caps
  <2>1. Cardinality({}) = 0 /\ \A d \in Sides : SideCap(d) \in Nat
    BY FS_EmptySet DEF SideCap
  <2>2. RoomForPending
    BY <1>1 DEF RoomForPending
  <2>3. CapsHold /\ SectorCapHolds
    <3> HIDE DEF Init
    <3> QED BY <1>3, <2>1 DEF CapsHold, SectorCapHolds
  <2> QED BY <2>2, <2>3 DEF Caps
<1>5. CooldownCovers /\ NoReentryInCycle /\ ClosedForTheDay /\ NoEntryBehindWorkingOrder
  BY <1>1 DEF CooldownCovers, NoReentryInCycle, ClosedForTheDay, NoEntryBehindWorkingOrder, LiveOn
<1>6. Flattening
  BY <1>1 DEF Flattening
<1>7. DriftIsUnrecorded
  <2>1. ASSUME NEW s \in Symbols PROVE held[s] - local[s] = Drift(orders, s)
    <3>1. OrdersOf(orders, s) = {} /\ held[s] = 0 /\ local[s] = 0
      BY <1>1 DEF OrdersOf
    <3>2. Drift(orders, s) = 0
      BY <3>1, FS_EmptySet, SumZero DEF Drift
    <3> QED BY <3>1, <3>2
  <2> QED BY <2>1 DEF DriftIsUnrecorded, Drift, Untold, OrdersOf
<1>8. GrossRoom
  BY <1>1 DEF GrossRoom
<1> QED BY <1>2, <1>4, <1>5, <1>6, <1>7, <1>8 DEF IInv

\* Each part is kept by every step.
LEMMA NextIInv == IInv /\ [Next]_vars => IInv'
<1> SUFFICES ASSUME IInv, [Next]_vars PROVE IInv'
  OBVIOUS
<1> USE DEF IInv
<1>1. TypeOK' /\ Books' /\ Caps' /\ ClosedForTheDay'
  BY TypesKept, BooksKept, CapsKept, ClosedKept
<1>2. CooldownCovers' /\ NoReentryInCycle' /\ NoEntryBehindWorkingOrder'
  BY ReentryKept, WorkingKept
<1>3. Flattening' /\ DriftIsUnrecorded' /\ GrossRoom'
  BY <1>1, FlatteningKept, DriftKept, GrossKept
<1> QED BY <1>1, <1>2, <1>3

\* The invariant of every reachable state.
LEMMA Inductive == Spec => []IInv
  BY InitIInv, NextIInv, PTL DEF Spec

\* The loop, the position manager, the orders and the account keep their types,
\* and at most one call is in flight, the last one sent.
THEOREM TypeCorrect == Spec => []TypeOK
<1>1. IInv => TypeOK
  BY DEF IInv
<1> QED BY <1>1, Inductive, PTL

\* MAX_OPEN_POSITIONS and the two side caps hold of the positions themselves,
\* although validate_entry looks before the order is confirmed.
THEOREM CapsAlwaysHold == Spec => []CapsHold
<1>1. IInv => CapsHold
  BY DEF IInv, Caps
<1> QED BY <1>1, Inductive, PTL

\* SECTOR_CONCENTRATION_LIMIT holds of every known sector.
THEOREM SectorsNeverCrowd == Spec => []SectorCapHolds
<1>1. IInv => SectorCapHolds
  BY DEF IInv, Caps
<1> QED BY <1>1, Inductive, PTL

\* The cooldown keeps a cycle from re-entering a symbol it has just exited.
THEOREM NoReentry == Spec => []NoReentryInCycle
<1>1. IInv => NoReentryInCycle
  BY DEF IInv
<1> QED BY <1>1, Inductive, PTL

\* The pending-order check keeps an entry from working behind another order of
\* its symbol, given broker answers that can be trusted.
THEOREM EntriesWorkAlone == Spec => []NoEntryBehindWorkingOrder
<1>1. IInv => NoEntryBehindWorkingOrder
  BY DEF IInv
<1> QED BY <1>1, Inductive, PTL

\* Until a liquidation request reaches the broker, accepted or taken for failed,
\* the account differs from the books by exactly the fills the loop was not told of.
THEOREM DriftHasOneSource == Spec => []DriftIsUnrecorded
<1>1. IInv => DriftIsUnrecorded
  BY DEF IInv
<1> QED BY <1>1, Inductive, PTL

\* Exposure grows only within the equity of its cycle, whatever equity the cycles
\* read and although the room for entries is computed once per cycle and counted
\* down by what was asked for.
THEOREM ExposureStaysCovered == Spec => ExposureGrowsWithinEquity
<1>1. IInv /\ [Next]_vars =>
        [GrossExposure' > GrossExposure => GrossExposure' <= equity]_vars
  BY GrossKept DEF IInv
<1> QED BY <1>1, Inductive, PTL DEF Spec, ExposureGrowsWithinEquity

\* When _run_eod_close has returned True nothing is sent any more that day.
THEOREM DayStaysClosed == Spec => EodIsFinal
<1>1. IInv /\ [Next]_vars => [eodDone => Len(orders') = Len(orders)]_vars
  BY ClosedSendsNothing DEF IInv
<1> QED BY <1>1, Inductive, PTL DEF Spec, EodIsFinal

\* A cycle uses up a budget of its own steps that the universe fixes, whatever the
\* broker does meanwhile: no loop of it revisits a symbol.
THEOREM CyclesRunOut == Spec => CycleRunsOut
<1>1. IInv /\ IInv' /\ [Next]_vars => [BudgetSpent]_vars
  BY StepsShrink DEF IInv
<1> QED BY <1>1, Inductive, PTL DEF Spec, CycleRunsOut
===============================================================================
