-------------------------- MODULE OrderIntake_proofs --------------------------
(***************************************************************************)
(* Theorems about OrderIntake, for every catalog, every bound and whatever *)
(* subjects and arguments may arrive.                                      *)
(***************************************************************************)
EXTENDS OrderIntake, FiniteSetTheorems, TLAPS

(* A set of codes has a least element: of its initial segments, one is     *)
(* included in all the others.                                             *)
LEMMA LeastCode ==
    ASSUME NEW S \in SUBSET Code, S # {}
    PROVE  \E m \in S : \A k \in S : m <= k
<1> DEFINE Below(k) == {j \in S : j <= k}
           Segments == {Below(k) : k \in S}
<1>1. Segments \subseteq FiniteSubsetsOf(Code) /\ Segments # {}
  <2>1. ASSUME NEW k \in S PROVE IsFiniteSet(Below(k))
    <3>1. Below(k) \in SUBSET Code
      OBVIOUS
    <3> QED BY <3>1, CodeAssumption, FS_Subset
  <2> QED BY <2>1 DEF FiniteSubsetsOf
<1>2. PICK B \in Segments : \A C \in Segments : <<C, B>> \notin StrictSubsetOrdering(Code)
  BY <1>1, FS_StrictSubsetOrderingWellFounded, WFMin
<1>3. PICK m \in S : B = Below(m)
  OBVIOUS
<1>4. ASSUME NEW k \in S PROVE m <= k
  <2>1. SUFFICES ASSUME k < m PROVE FALSE
    BY CodeAssumption
  <2>2. Below(k) \subseteq Below(m) /\ m \in Below(m) /\ m \notin Below(k)
    <3>1. S \subseteq Nat /\ k \in Nat /\ m \in Nat
      BY CodeAssumption
    <3>2. ASSUME NEW j \in Nat, j <= k PROVE j <= m
      BY <2>1, <3>1, <3>2
    <3>3. m <= m /\ ~(m <= k)
      BY <2>1, <3>1
    <3> QED BY <3>1, <3>2, <3>3
  <2>3. <<Below(k), B>> \in StrictSubsetOrdering(Code)
    BY <2>2, <1>3 DEF StrictSubsetOrdering
  <2> QED BY <2>3, <1>2
<1> QED BY <1>4

(* An enumeration of a set in ascending order.                             *)
Ascending(s, S) ==
    /\ s \in [1..Cardinality(S) -> S]
    /\ \A i, j \in 1..Cardinality(S) : i < j => s[i] < s[j]

(* Every set of codes can be sorted: there is no smallest one that cannot. *)
LEMMA CanBeSorted ==
    ASSUME NEW S \in SUBSET Code
    PROVE  \E s : Ascending(s, S)
<1> DEFINE Unsortable == {T \in SUBSET Code : \A s : ~Ascending(s, T)}
<1>1. SUFFICES ASSUME Unsortable # {} PROVE FALSE
  OBVIOUS
<1>2. \A T \in SUBSET Code : IsFiniteSet(T)
  BY CodeAssumption, FS_Subset
<1>3. Unsortable \subseteq FiniteSubsetsOf(Code)
  BY <1>2 DEF FiniteSubsetsOf
<1>4. PICK T \in Unsortable : \A U \in Unsortable : <<U, T>> \notin StrictSubsetOrdering(Code)
  BY <1>1, <1>3, FS_StrictSubsetOrderingWellFounded, WFMin
<1>5. T # {}
  <2>1. SUFFICES ASSUME T = {} PROVE FALSE
    OBVIOUS
  <2>2. Cardinality(T) = 0
    BY <2>1, FS_EmptySet
  <2>3. Ascending([i \in 1..Cardinality(T) |-> 0], T)
    BY <2>2 DEF Ascending
  <2> QED BY <2>3
<1>6. PICK m \in T : \A k \in T : m <= k
  BY <1>5, LeastCode
<1> DEFINE U == T \ {m}
           n == Cardinality(T)
<1>7. n \in Nat /\ n > 0 /\ Cardinality(U) = n - 1 /\ U \in SUBSET Code
  <2>1. IsFiniteSet(T) /\ T \in SUBSET Code
    BY <1>2
  <2>2. Cardinality(U) = Cardinality(T) - 1 /\ Cardinality(T) \in Nat
    BY <2>1, FS_RemoveElement, FS_CardinalityType
  <2>3. Cardinality(T) # 0
    BY <2>1, <1>5, FS_EmptySet
  <2> QED BY <2>1, <2>2, <2>3
<1>8. PICK s : Ascending(s, U)
  <2>1. <<U, T>> \in StrictSubsetOrdering(Code)
    BY DEF StrictSubsetOrdering
  <2> QED BY <2>1, <1>4, <1>7
<1> DEFINE t == [i \in 1..n |-> IF i = 1 THEN m ELSE s[i - 1]]
<1>9. Ascending(t, T)
  <2>0. /\ s \in [1..(n - 1) -> U]
        /\ \A i, j \in 1..(n - 1) : i < j => s[i] < s[j]
    BY <1>7, <1>8 DEF Ascending
  <2> HIDE DEF n, U
  <2>1. ASSUME NEW i \in 1..n, i # 1 PROVE i - 1 \in 1..(n - 1) /\ s[i - 1] \in U
    BY <2>0, <2>1, <1>7
  <2>2. t \in [1..n -> T]
    BY <2>1 DEF U
  <2>3. ASSUME NEW i \in 1..n, NEW j \in 1..n, i < j PROVE t[i] < t[j]
    <3>1. j # 1 /\ t[j] = s[j - 1] /\ s[j - 1] \in U /\ j - 1 \in 1..(n - 1)
      BY <2>1, <2>3, <1>7
    <3>2. CASE i = 1
      <4>1. t[i] = m /\ t[j] \in T /\ t[j] # m
        BY <3>1, <3>2 DEF U
      <4>2. m \in Nat /\ t[j] \in Nat /\ m <= t[j]
        BY <4>1, <1>6, CodeAssumption
      <4> QED BY <4>1, <4>2
    <3>3. CASE i # 1
      BY <3>1, <3>3, <1>7, <2>0, <2>1, <2>3
    <3> QED BY <3>2, <3>3
  <2> QED BY <2>2, <2>3 DEF Ascending, n
<1> QED BY <1>9

(* So does the order in which canonical_order lists the lines.             *)
LEMMA SortedAscends ==
    ASSUME NEW S \in SUBSET Code
    PROVE  Ascending(Sorted(S), S) /\ Cardinality(S) \in Nat
<1>1. PICK s : Ascending(s, S)
  BY CanBeSorted
<1> QED BY <1>1, CodeAssumption, FS_Subset, FS_CardinalityType DEF Sorted, Ascending

(* It lists every code once.                                               *)
LEMMA SortedIsComplete ==
    ASSUME NEW S \in SUBSET Code, NEW c \in S
    PROVE  \E i \in 1..Cardinality(S) : Sorted(S)[i] = c
<1> DEFINE n == Cardinality(S)
           s == Sorted(S)
<1>1. s \in [1..n -> S] /\ n \in Nat /\ \A i, j \in 1..n : i < j => s[i] < s[j]
  BY SortedAscends DEF Ascending
<1>2. IsFiniteSet(S) /\ S \subseteq Nat
  BY CodeAssumption, FS_Subset
<1>3. IsFiniteSet(1..n) /\ Cardinality(1..n) = n
  BY <1>1, FS_Interval
<1> HIDE DEF s, n
<1>4. s \in Injection(1..n, S)
  <2>1. ASSUME NEW i \in 1..n, NEW j \in 1..n, s[i] = s[j] PROVE i = j
    <3>1. s[i] \in Nat /\ s[j] = s[i]
      BY <1>1, <1>2, <2>1
    <3>2. ~(i < j) /\ ~(j < i)
      <4>1. ~(s[i] < s[j]) /\ ~(s[j] < s[i])
        BY <3>1
      <4> QED BY <4>1, <1>1
    <3> QED BY <3>2, <1>1
  <2> QED BY <2>1, <1>1 DEF Injection, IsInjective
<1>5. s \in Surjection(1..n, S)
  BY <1>2, <1>3, <1>4, FS_Injection DEF n
<1> QED BY <1>5 DEF Surjection, n, s

-------------------------------------------------------------------------------
(* An order as either path makes one.                                      *)
WellFormed(doc) ==
    /\ IsOrder(doc) /\ doc.currency = "EUR"
    /\ Cardinality(DOMAIN doc.lines) \in 1..MaxLines
    /\ ValidCode(doc.order) /\ ValidCode(doc.customer)
    /\ \A sku \in DOMAIN doc.lines : ValidCode(sku)

(* The patterns of codes and prices are those of the other grammar.        *)
LEMMA PatternsAgree ==
    /\ \A code \in Code : ParsesCode(code) => ValidCode(code)
    /\ \A line \in RawLine : ParsesPrice(line) => ValidMoney(line)
<1>1. ASSUME NEW code \in Code, ParsesCode(code) PROVE ValidCode(code)
  <2>1. Spelling[code] \in [first : Character, rest : SUBSET Character, length : Nat]
    BY SpellingAssumption
  <2> DEFINE s == Spelling[code]
  <2>2. /\ s.first = "capital" /\ s.rest \subseteq {"capital", "mark"}
        /\ s.length \in Nat /\ s.length - 1 \in 0..(MaxCode - 1)
    BY <1>1, <2>1 DEF ParsesCode
  <2> HIDE DEF s
  <2>3. 1 <= s.length /\ s.length <= MaxCode /\ "other" \notin s.rest
    BY <2>2, BoundAssumption
  <2> QED BY <2>2, <2>3 DEF ValidCode, s
<1>2. ASSUME NEW line \in RawLine, ParsesPrice(line) PROVE ValidMoney(line)
  <2>1. line.units \in Nat /\ line.frac \in 0..99
    BY DEF RawLine
  <2> QED BY <1>2, <2>1, BoundAssumption DEF ParsesPrice, ValidMoney, Cents
<1> QED BY <1>1, <1>2

(* The PA1 grammar accepts nothing that the tool contract refuses.         *)
LEMMA ParsedIsValid ==
    ASSUME NEW raw \in Raw, Parses(raw)
    PROVE  Validates(raw)
<1>1. raw.lines \in Seq(RawLine) /\ raw.lines # <<>> /\ Len(raw.lines) <= MaxLines
  BY BoundAssumption DEF Parses, Raw
<1>2. ASSUME NEW i \in DOMAIN raw.lines
      PROVE  LET line == raw.lines[i] IN
             /\ line.shaped /\ ValidCode(line.sku)
             /\ 1 <= line.quantity /\ line.quantity <= MaxQuantity
             /\ ValidMoney(line)
  <2>1. raw.lines[i] \in RawLine
    BY <1>1
  <2> DEFINE line == raw.lines[i]
  <2>2. /\ line.shaped /\ ParsesCode(line.sku) /\ line.quantity \in 1..MaxQuantity
        /\ ParsesPrice(line)
    BY DEF Parses
  <2>3. line.sku \in Code
    BY <2>1 DEF RawLine
  <2> HIDE DEF line
  <2>4. ValidCode(line.sku)
    BY <2>2, <2>3, PatternsAgree
  <2>5. ValidMoney(line)
    BY <2>1, <2>2, PatternsAgree DEF line
  <2> QED BY <2>2, <2>4, <2>5, BoundAssumption DEF line
<1>3. ValidCode(raw.order) /\ ValidCode(raw.customer)
  BY PatternsAgree DEF Parses, Raw
<1> QED BY <1>1, <1>2, <1>3 DEF Parses, Validates

(* What is valid has at each place one line for its SKU.                   *)
LEMMA LineOfIsLine ==
    ASSUME NEW raw \in Raw, Validates(raw), NEW i \in DOMAIN raw.lines
    PROVE  LET line == raw.lines[i] IN
           /\ line.sku \in Code /\ ValidCode(line.sku)
           /\ LineOf(raw, line.sku) = [quantity |-> line.quantity, price |-> Cents(line)]
           /\ LineOf(raw, line.sku) \in Line
<1> DEFINE line == raw.lines[i]
           j == CHOOSE k \in DOMAIN raw.lines : raw.lines[k].sku = line.sku
<1>1. j \in DOMAIN raw.lines /\ raw.lines[j].sku = raw.lines[i].sku
  OBVIOUS
<1>2. j = i
  BY <1>1 DEF Validates, SkusUnique
<1>3. LineOf(raw, line.sku) = [quantity |-> line.quantity, price |-> Cents(line)]
  BY <1>2 DEF LineOf
<1>4. raw.lines \in Seq(RawLine)
  BY DEF Raw
<1>5. line \in RawLine
  BY <1>4
<1>6. /\ line.quantity \in Int /\ 1 <= line.quantity /\ line.quantity <= MaxQuantity
      /\ Cents(line) \in Int /\ 0 < Cents(line) /\ Cents(line) <= 100 * MaxUnits + 99
  <2>1. line.quantity \in Int /\ line.units \in Nat /\ line.frac \in 0..99
    BY <1>5 DEF RawLine
  <2>2. /\ 1 <= line.quantity /\ line.quantity <= MaxQuantity
        /\ 0 < Cents(line) /\ Cents(line) <= 100 * MaxUnits + 99
    BY DEF Validates, ValidMoney
  <2> HIDE DEF line
  <2> QED BY <2>1, <2>2 DEF Cents
<1>7. [quantity |-> line.quantity, price |-> Cents(line)] \in Line
  BY <1>6, BoundAssumption DEF Line
<1>8. ValidCode(line.sku)
  BY DEF Validates
<1> QED BY <1>3, <1>5, <1>7, <1>8 DEF RawLine

(* Whatever is valid is made into a well-formed order.                     *)
LEMMA ValidIsWellFormed ==
    ASSUME NEW raw \in Raw, Validates(raw)
    PROVE  WellFormed(ToOrderDocument(raw))
<1> DEFINE doc == ToOrderDocument(raw)
           n == Len(raw.lines)
<1>1. raw.lines \in Seq(RawLine) /\ n \in 1..MaxLines /\ DOMAIN raw.lines = 1..n
  BY BoundAssumption DEF Validates, Raw
<1>2. ASSUME NEW sku \in Skus(raw)
      PROVE  sku \in Code /\ ValidCode(sku) /\ LineOf(raw, sku) \in Line
  BY LineOfIsLine DEF Skus
<1>3. Cardinality(Skus(raw)) \in 1..MaxLines
  <2> DEFINE f == [i \in 1..n |-> raw.lines[i].sku]
  <2>1. f \in Surjection(1..n, Skus(raw))
    BY <1>1 DEF Surjection, Skus
  <2>2. Cardinality(Skus(raw)) <= n
    BY <1>1, <2>1, FS_SurjCardinalityBound DEF ExistsSurjection
  <2>3. IsFiniteSet(Skus(raw))
    BY <1>2, CodeAssumption, FS_Subset
  <2>4. raw.lines[1].sku \in Skus(raw)
    BY <1>1 DEF Skus
  <2>5. Cardinality(Skus(raw)) \in Nat /\ Cardinality(Skus(raw)) # 0
    BY <2>3, <2>4, FS_CardinalityType, FS_EmptySet
  <2> QED BY <1>1, <2>2, <2>5, BoundAssumption
<1>4. /\ doc.lines = [sku \in Skus(raw) |-> LineOf(raw, sku)]
      /\ doc.order = raw.order /\ doc.customer = raw.customer /\ doc.currency = "EUR"
      /\ doc = [order |-> doc.order, customer |-> doc.customer, currency |-> doc.currency,
                lines |-> doc.lines]
  BY DEF ToOrderDocument
<1>5. /\ doc.order \in Code /\ doc.customer \in Code
      /\ ValidCode(doc.order) /\ ValidCode(doc.customer)
  BY <1>4 DEF Raw, Validates
<1>6. DOMAIN doc.lines = Skus(raw) /\ \A sku \in Skus(raw) : doc.lines[sku] = LineOf(raw, sku)
  BY <1>4
<1>7. doc.lines = [sku \in DOMAIN doc.lines |-> doc.lines[sku]]
  BY <1>4
<1> HIDE DEF doc
<1>8. IsOrder(doc)
  BY <1>2, <1>4, <1>5, <1>6, <1>7 DEF IsOrder, Currency
<1> QED BY <1>2, <1>3, <1>4, <1>5, <1>6, <1>8 DEF WellFormed, doc

(* Cents are what format leaves of a price.                                *)
LEMMA PriceRoundTrip ==
    ASSUME NEW price \in 1..(100 * MaxUnits + 99)
    PROVE  Units(price) \in Nat /\ Frac(price) \in 0..99 /\ 100 * Units(price) + Frac(price) = price
BY BoundAssumption DEF Units, Frac

(* Reading canonical_order of a well-formed order gives the order again.   *)
LEMMA CanonicalRoundTrip ==
    ASSUME NEW doc, WellFormed(doc)
    PROVE  LET raw == CanonicalOrder(doc) IN
           raw \in Raw /\ Validates(raw) /\ ToOrderDocument(raw) = doc
<1> DEFINE D == DOMAIN doc.lines
           n == Cardinality(D)
           s == Sorted(D)
           raw == CanonicalOrder(doc)
<1>1. /\ D \in SUBSET Code /\ doc.order \in Code /\ doc.customer \in Code
      /\ doc.currency = "EUR" /\ n \in 1..MaxLines
      /\ ValidCode(doc.order) /\ ValidCode(doc.customer)
      /\ \A sku \in D : doc.lines[sku] \in Line /\ ValidCode(sku)
  BY DEF WellFormed, IsOrder
<1>2. s \in [1..n -> D] /\ n \in Nat /\ \A i, j \in 1..n : i < j => s[i] < s[j]
  BY <1>1, SortedAscends DEF Ascending
<1>3. \A sku \in D : \E i \in 1..n : s[i] = sku
  BY <1>1, SortedIsComplete
<1>4. /\ doc = [order |-> doc.order, customer |-> doc.customer, currency |-> doc.currency,
                lines |-> doc.lines]
      /\ doc.lines = [sku \in D |-> doc.lines[sku]]
  BY DEF WellFormed, IsOrder
<1> DEFINE RawOf(sku) == [sku |-> sku, quantity |-> doc.lines[sku].quantity,
                          units |-> Units(doc.lines[sku].price),
                          frac |-> Frac(doc.lines[sku].price), plain |-> TRUE, places |-> 2,
                          shaped |-> TRUE]
<1>5. /\ raw.order = doc.order /\ raw.customer = doc.customer /\ raw.currency = "EUR"
      /\ raw.shaped = TRUE /\ raw.lines = [i \in 1..n |-> RawOf(s[i])]
      /\ raw = [order |-> raw.order, customer |-> raw.customer, currency |-> raw.currency,
                shaped |-> raw.shaped, lines |-> raw.lines]
  BY <1>1 DEF CanonicalOrder
<1> HIDE DEF D, n, s, raw
<1>6. ASSUME NEW sku \in D
      PROVE  /\ RawOf(sku) \in RawLine /\ RawOf(sku).sku = sku
             /\ 1 <= RawOf(sku).quantity /\ RawOf(sku).quantity <= MaxQuantity
             /\ Cents(RawOf(sku)) = doc.lines[sku].price
             /\ doc.lines[sku] = [quantity |-> RawOf(sku).quantity, price |-> Cents(RawOf(sku))]
             /\ 0 < doc.lines[sku].price /\ doc.lines[sku].price <= 100 * MaxUnits + 99
  <2> DEFINE price == doc.lines[sku].price
             quantity == doc.lines[sku].quantity
  <2>1. /\ doc.lines[sku] = [quantity |-> quantity, price |-> price]
        /\ quantity \in 1..MaxQuantity /\ price \in 1..(100 * MaxUnits + 99)
    BY <1>1 DEF Line
  <2>2. Units(price) \in Nat /\ Frac(price) \in 0..99 /\ 100 * Units(price) + Frac(price) = price
    BY <2>1, PriceRoundTrip
  <2>3. sku \in Code
    BY <1>1
  <2>4. Cents(RawOf(sku)) = price
    BY <2>2 DEF Cents
  <2> HIDE DEF price, quantity
  <2>5. [sku |-> sku, quantity |-> quantity, units |-> Units(price), frac |-> Frac(price),
         plain |-> TRUE, places |-> 2, shaped |-> TRUE] \in RawLine
    BY <2>1, <2>2, <2>3, BoundAssumption DEF RawLine
  <2>6. /\ 1 <= quantity /\ quantity <= MaxQuantity
        /\ 0 < price /\ price <= 100 * MaxUnits + 99
    BY <2>1, BoundAssumption
  <2> QED BY <2>1, <2>4, <2>5, <2>6 DEF price, quantity
<1> HIDE DEF RawOf
<1>7. /\ raw.lines \in Seq(RawLine) /\ DOMAIN raw.lines = 1..n /\ Len(raw.lines) = n
      /\ \A i \in 1..n : s[i] \in D /\ raw.lines[i] = RawOf(s[i])
  <2>1. \A i \in 1..n : RawOf(s[i]) \in RawLine
    BY <1>2, <1>6
  <2>2. raw.lines \in [1..n -> RawLine]
    BY <1>5, <2>1
  <2>3. raw.lines \in Seq(RawLine) /\ DOMAIN raw.lines = 1..n /\ Len(raw.lines) = n
    BY <1>2, <2>2
  <2> QED BY <1>2, <1>5, <2>3
<1>8. raw \in Raw
  BY <1>1, <1>5, <1>7 DEF Raw, Currency
<1>9. SkusUnique(raw)
  <2>1. ASSUME NEW i \in 1..n, NEW j \in 1..n, s[i] = s[j] PROVE i = j
    <3>1. s[i] \in Nat /\ s[j] = s[i]
      BY <1>1, <1>2, <2>1, CodeAssumption
    <3>2. ~(i < j) /\ ~(j < i)
      <4>1. ~(s[i] < s[j]) /\ ~(s[j] < s[i])
        BY <3>1
      <4> QED BY <4>1, <1>2
    <3> QED BY <3>2, <1>2
  <2>2. \A i \in 1..n : raw.lines[i].sku = s[i]
    BY <1>6, <1>7
  <2> QED BY <1>7, <2>1, <2>2 DEF SkusUnique
<1>10. Validates(raw)
  <2>1. raw.lines # <<>> /\ Len(raw.lines) <= MaxLines
    BY <1>1, <1>7, BoundAssumption
  <2>2. ASSUME NEW i \in DOMAIN raw.lines
        PROVE  LET line == raw.lines[i] IN
               /\ line.shaped /\ ValidCode(line.sku)
               /\ 1 <= line.quantity /\ line.quantity <= MaxQuantity
               /\ ValidMoney(line)
    <3>1. /\ s[i] \in D /\ raw.lines[i] = RawOf(s[i])
          /\ RawOf(s[i]).shaped /\ RawOf(s[i]).plain /\ RawOf(s[i]).places = 2
      BY <1>7 DEF RawOf
    <3>2. /\ 1 <= RawOf(s[i]).quantity /\ RawOf(s[i]).quantity <= MaxQuantity
          /\ RawOf(s[i]).sku = s[i] /\ ValidCode(s[i])
          /\ 0 < Cents(RawOf(s[i])) /\ Cents(RawOf(s[i])) <= 100 * MaxUnits + 99
      BY <1>1, <1>6, <3>1
    <3> QED BY <3>1, <3>2 DEF ValidMoney
  <2> QED BY <1>1, <1>5, <1>9, <2>1, <2>2 DEF Validates
<1>11. ToOrderDocument(raw) = doc
  <2>1. Skus(raw) = D
    <3>1. Skus(raw) = {raw.lines[i].sku : i \in 1..n}
      BY <1>7 DEF Skus
    <3>2. \A i \in 1..n : raw.lines[i].sku = s[i] /\ s[i] \in D
      BY <1>6, <1>7
    <3> QED BY <1>3, <3>1, <3>2
  <2>2. ASSUME NEW sku \in D PROVE LineOf(raw, sku) = doc.lines[sku]
    <3>1. PICK i \in 1..n : s[i] = sku
      BY <1>3
    <3>2. raw.lines[i] = RawOf(sku) /\ raw.lines[i].sku = sku
      BY <1>6, <1>7, <3>1
    <3>3. LineOf(raw, sku) = [quantity |-> raw.lines[i].quantity, price |-> Cents(raw.lines[i])]
      BY <1>7, <1>8, <1>10, <3>2, LineOfIsLine
    <3> QED BY <1>6, <3>2, <3>3
  <2>3. [sku \in Skus(raw) |-> LineOf(raw, sku)] = doc.lines
    BY <1>4, <2>1, <2>2
  <2> QED BY <1>1, <1>4, <1>5, <2>3 DEF ToOrderDocument
<1> QED BY <1>8, <1>10, <1>11 DEF raw

-------------------------------------------------------------------------------
(* A row says MATCH of two lines exactly if they are the same line.        *)
LEMMA MatchIsEquality ==
    ASSUME NEW a \in Line \cup {None}, NEW b \in Line \cup {None}, a # None \/ b # None
    PROVE  LineStatus(a, b) = "MATCH" <=> a = b
<1>1. CASE a = None \/ b = None
  BY <1>1 DEF LineStatus
<1>2. CASE a # None /\ b # None
  <2>1. /\ a = [quantity |-> a.quantity, price |-> a.price]
        /\ b = [quantity |-> b.quantity, price |-> b.price]
    BY <1>2 DEF Line
  <2>2. CASE a.quantity # b.quantity
    BY <1>2, <2>2 DEF LineStatus
  <2>3. CASE a.quantity = b.quantity /\ a.price # b.price
    BY <1>2, <2>3 DEF LineStatus
  <2>4. CASE a.quantity = b.quantity /\ a.price = b.price
    BY <1>2, <2>1, <2>4 DEF LineStatus
  <2> QED BY <2>2, <2>3, <2>4
<1> QED BY <1>1, <1>2

(* All rows match exactly if the two orders have the same lines.           *)
LEMMA AllMatchIsEquality ==
    ASSUME NEW email, NEW erp,
           email = [sku \in DOMAIN email |-> email[sku]], \A sku \in DOMAIN email : email[sku] \in Line,
           erp = [sku \in DOMAIN erp |-> erp[sku]], \A sku \in DOMAIN erp : erp[sku] \in Line
    PROVE  AllMatch(Rows(email, erp)) <=> email = erp
<1> DEFINE R == DOMAIN email \cup DOMAIN erp
<1>1. /\ DOMAIN Rows(email, erp) = R
      /\ \A sku \in R : Rows(email, erp)[sku].status = LineStatus(LineAt(email, sku), LineAt(erp, sku))
  BY DEF Rows, RowSkus
<1>2. None \notin Line
  BY NoneAssumption
<1>3. ASSUME NEW sku \in R
      PROVE  LineStatus(LineAt(email, sku), LineAt(erp, sku)) = "MATCH"
             <=> LineAt(email, sku) = LineAt(erp, sku)
  <2>1. /\ LineAt(email, sku) \in Line \cup {None} /\ LineAt(erp, sku) \in Line \cup {None}
        /\ LineAt(email, sku) # None \/ LineAt(erp, sku) # None
    BY <1>2 DEF LineAt
  <2> QED BY <2>1, MatchIsEquality
<1>4. AllMatch(Rows(email, erp)) <=> \A sku \in R : LineAt(email, sku) = LineAt(erp, sku)
  BY <1>1, <1>3 DEF AllMatch
<1>5. ASSUME \A sku \in R : LineAt(email, sku) = LineAt(erp, sku) PROVE email = erp
  <2>1. \A sku \in R : sku \in DOMAIN email /\ sku \in DOMAIN erp /\ email[sku] = erp[sku]
    BY <1>2, <1>5 DEF LineAt
  <2>2. DOMAIN email = DOMAIN erp
    BY <2>1
  <2>3. [sku \in DOMAIN email |-> email[sku]] = [sku \in DOMAIN erp |-> erp[sku]]
    BY <2>1, <2>2
  <2> QED BY <2>3
<1>6. ASSUME email = erp PROVE \A sku \in R : LineAt(email, sku) = LineAt(erp, sku)
  BY <1>6
<1> QED BY <1>4, <1>5, <1>6

(* So reconcile_order reports MATCHED exactly for the ERP's own order.     *)
LEMMA MatchedIsExact ==
    ASSUME NEW doc, WellFormed(doc)
    PROVE  /\ Eligible(Reconcile(doc)) <=> doc.order \in DOMAIN Catalog /\ Catalog[doc.order] = doc
           /\ Reconcile(doc).outcome \in {"MATCHED", "REVIEW_REQUIRED", "ERP_ORDER_NOT_FOUND"}
<1> DEFINE rows == Rows(doc.lines, ErpLines(doc.order))
<1>1. Reconcile(doc).outcome = Outcome(doc, rows)
  BY DEF Reconcile
<1>2. Outcome(doc, rows) \in {"MATCHED", "REVIEW_REQUIRED", "ERP_ORDER_NOT_FOUND"}
  BY DEF Outcome
<1>3. CASE doc.order \notin DOMAIN Catalog
  BY <1>1, <1>2, <1>3 DEF Eligible, Outcome
<1>4. CASE doc.order \in DOMAIN Catalog
  <2> DEFINE erp == Catalog[doc.order]
  <2>1. /\ doc = [order |-> doc.order, customer |-> doc.customer, currency |-> doc.currency,
                  lines |-> doc.lines]
        /\ doc.lines = [sku \in DOMAIN doc.lines |-> doc.lines[sku]]
        /\ \A sku \in DOMAIN doc.lines : doc.lines[sku] \in Line
    BY DEF WellFormed, IsOrder
  <2>2. IsOrder(erp) /\ erp.order = doc.order
    BY <1>4, CatalogAssumption
  <2>3. /\ erp = [order |-> erp.order, customer |-> erp.customer, currency |-> erp.currency,
                  lines |-> erp.lines]
        /\ erp.lines = [sku \in DOMAIN erp.lines |-> erp.lines[sku]]
        /\ \A sku \in DOMAIN erp.lines : erp.lines[sku] \in Line
    BY <2>2 DEF IsOrder
  <2>4. ErpLines(doc.order) = erp.lines
    BY <1>4 DEF ErpLines
  <2>5. AllMatch(rows) <=> doc.lines = erp.lines
    BY <2>1, <2>3, <2>4, AllMatchIsEquality
  <2>6. Eligible(Reconcile(doc)) <=> /\ doc.customer = erp.customer /\ doc.currency = erp.currency
                                     /\ doc.lines = erp.lines
    BY <1>1, <1>4, <2>5 DEF Eligible, Outcome, CustomerMatch, CurrencyMatch
  <2>7. erp = doc <=> /\ doc.customer = erp.customer /\ doc.currency = erp.currency
                      /\ doc.lines = erp.lines
    BY <2>1, <2>2, <2>3
  <2> QED BY <1>1, <1>2, <1>4, <2>6, <2>7
<1> QED BY <1>3, <1>4

-------------------------------------------------------------------------------
(* Where each proposal comes from.                                         *)
Intake ==
    /\ subject # None => subject \in Subject /\ Parses(subject)
    /\ provider # None =>
          /\ subject # None /\ provider.name \in Provider /\ provider.arguments \in Raw
          /\ provider.name = "fake" => provider.arguments = CanonicalOrder(ToOrderDocument(subject))
    /\ direct # None => subject # None /\ direct = Proposal(ToOrderDocument(subject))
    /\ prepared # None =>
          /\ provider # None /\ Validates(provider.arguments)
          /\ prepared = Proposal(ToOrderDocument(provider.arguments))

(* A subject that parses is made into a well-formed order.                 *)
LEMMA SubjectIsWellFormed ==
    ASSUME Intake, subject # None
    PROVE  subject \in Raw /\ WellFormed(ToOrderDocument(subject))
BY InputAssumption, ParsedIsValid, ValidIsWellFormed DEF Intake

(* Intake is inductive.                                                    *)
LEMMA IntakeInvariant == Spec => []Intake
<1>1. Init => Intake
  BY DEF Init, Intake
<1>2. Intake /\ [Next]_vars => Intake'
  <2> SUFFICES ASSUME Intake, [Next]_vars PROVE Intake'
    OBVIOUS
  <2>1. CASE Receive
    <3>1. provider = None /\ direct = None /\ prepared = None
      BY <2>1 DEF Receive, Intake
    <3> QED BY <2>1, <3>1 DEF Receive, Intake
  <2>2. CASE PrepareFromMail
    BY <2>2 DEF PrepareFromMail, Intake
  <2>3. CASE InvokeFake
    <3>1. CanonicalOrder(ToOrderDocument(subject)) \in Raw
      BY <2>3, SubjectIsWellFormed, CanonicalRoundTrip DEF InvokeFake
    <3>2. prepared = None
      BY <2>3 DEF InvokeFake, Intake
    <3>3. "fake" \in Provider
      BY DEF Provider
    <3>4. /\ provider'.name = "fake"
          /\ provider'.arguments = CanonicalOrder(ToOrderDocument(subject))
      BY <2>3 DEF InvokeFake
    <3> QED BY <2>3, <3>1, <3>2, <3>3, <3>4 DEF InvokeFake, Intake
  <2>4. CASE InvokeModel
    <3>1. PICK a \in Arguments : provider' = [name |-> "model", arguments |-> a]
      BY <2>4 DEF InvokeModel
    <3>2. a \in Raw /\ "model" \in Provider
      BY InputAssumption DEF Provider
    <3>3. prepared = None
      BY <2>4 DEF InvokeModel, Intake
    <3> QED BY <2>4, <3>1, <3>2, <3>3 DEF InvokeModel, Intake
  <2>5. CASE PrepareWithAi
    BY <2>5 DEF PrepareWithAi, Intake
  <2>6. CASE Forget
    BY <2>6 DEF Forget, Intake
  <2>7. CASE UNCHANGED vars
    BY <2>7 DEF vars, Intake
  <2> QED BY <2>1, <2>2, <2>3, <2>4, <2>5, <2>6, <2>7 DEF Next
<1> QED BY <1>1, <1>2, PTL DEF Spec

(* What is proposed is the proposal of a well-formed order.                *)
LEMMA ProposalIsOfWellFormed ==
    ASSUME Intake, NEW p \in Proposals
    PROVE  WellFormed(p.order) /\ p = Proposal(p.order)
<1>1. PICK doc : WellFormed(doc) /\ p = Proposal(doc)
  BY SubjectIsWellFormed, ValidIsWellFormed DEF Proposals, Intake
<1> QED BY <1>1 DEF Proposal

(* Whatever subjects and arguments arrive, what is proposed is an order    *)
(* within the bounds, with lines and one of the three outcomes.            *)
THEOREM IntakeTypeCorrect == Spec => []IntakeTypeOK
<1>1. Intake => IntakeTypeOK
  <2> SUFFICES ASSUME Intake PROVE IntakeTypeOK
    OBVIOUS
  <2>1. ASSUME NEW p \in Proposals PROVE ProposalOK(p)
    <3>1. WellFormed(p.order) /\ p = Proposal(p.order)
      BY ProposalIsOfWellFormed
    <3>2. p.report = Reconcile(p.order) /\ p.eligible = Eligible(Reconcile(p.order))
      BY <3>1 DEF Proposal
    <3>3. DOMAIN p.order.lines # {}
      BY <3>1, BoundAssumption, FS_EmptySet DEF WellFormed
    <3>4. p.order.lines # NoLines
      BY <3>3 DEF NoLines
    <3>5. p.eligible \in BOOLEAN
      BY <3>2 DEF Eligible
    <3> QED BY <3>1, <3>2, <3>4, <3>5, MatchedIsExact DEF ProposalOK, WellFormed
  <2> QED BY <2>1 DEF Intake, IntakeTypeOK
<1> QED BY <1>1, IntakeInvariant, PTL

(* For any ERP catalog a proposed order may be approved exactly if it is,  *)
(* field by field, the order the ERP holds under its code.                 *)
THEOREM ApprovableIsExact == Spec => []EligibleIsExact
<1>1. Intake => EligibleIsExact
  <2> SUFFICES ASSUME Intake, NEW p \in Proposals
               PROVE  p.eligible <=> p.order.order \in DOMAIN Catalog /\ Catalog[p.order.order] = p.order
    BY DEF EligibleIsExact
  <2>1. WellFormed(p.order) /\ p = Proposal(p.order)
    BY ProposalIsOfWellFormed
  <2>2. p.eligible = Eligible(Reconcile(p.order))
    BY <2>1 DEF Proposal
  <2> QED BY <2>1, <2>2, MatchedIsExact
<1> QED BY <1>1, IntakeInvariant, PTL

(* The payload that is hashed, approved and sent is always the order that  *)
(* was reconciled, for any number of lines and any prices.                 *)
THEOREM PayloadCarriesTheOrder == Spec => []PayloadIsTheOrder
<1>1. Intake => PayloadIsTheOrder
  <2> SUFFICES ASSUME Intake, NEW p \in Proposals
               PROVE  Validates(p.payload) /\ ToOrderDocument(p.payload) = p.order
    BY DEF PayloadIsTheOrder
  <2>1. WellFormed(p.order) /\ p = Proposal(p.order)
    BY ProposalIsOfWellFormed
  <2>2. p.payload = CanonicalOrder(p.order)
    BY <2>1 DEF Proposal
  <2> QED BY <2>1, <2>2, CanonicalRoundTrip
<1> QED BY <1>1, IntakeInvariant, PTL

(* The from-mail route and the AI path with the deterministic provider     *)
(* always propose the same of a subject.                                   *)
THEOREM PathsAgree == Spec => []OfflinePathsAgree
<1>1. Intake => OfflinePathsAgree
  <2> SUFFICES ASSUME Intake, provider # None, provider.name = "fake"
               PROVE  /\ Validates(provider.arguments)
                      /\ direct # None /\ prepared # None => direct = prepared
    BY DEF OfflinePathsAgree
  <2>1. subject # None /\ provider.arguments = CanonicalOrder(ToOrderDocument(subject))
    BY DEF Intake
  <2>2. /\ Validates(provider.arguments)
        /\ ToOrderDocument(provider.arguments) = ToOrderDocument(subject)
    BY <2>1, SubjectIsWellFormed, CanonicalRoundTrip
  <2> QED BY <2>2 DEF Intake
<1> QED BY <1>1, IntakeInvariant, PTL
===============================================================================
