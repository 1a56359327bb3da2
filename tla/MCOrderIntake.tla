---------------------------- MODULE MCOrderIntake -----------------------------
(* An instance of OrderIntake for TLC: two ERP orders, as in ERP_CATALOG.  *)
EXTENDS OrderIntake, TLC

Price == {0, 99, 100, 101}        \* in cents, around a change of units
RawLines(skus, quantities, prices, shapes) ==
    {[sku |-> s, quantity |-> n, units |-> p \div 100, frac |-> p % 100, plain |-> TRUE,
      places |-> 2, shaped |-> f] : s \in skus, n \in quantities, p \in prices, f \in shapes}
Raws(orders, customers, currencies, shapes, lines) ==
    {[order |-> o, customer |-> c, currency |-> e, shaped |-> f, lines |-> l] :
        o \in orders, c \in customers, e \in currencies, f \in shapes, l \in lines}
UpTo(n, S) == UNION {[1..k -> S] : k \in 0..n}

(* The third code is as long as one may be; then one that starts with a    *)
(* mark, one that is too long, one with a character of another kind, and   *)
(* the empty one.                                                          *)
MCSpelling ==
    <<[first |-> "capital", rest |-> {}, length |-> 1],
      [first |-> "capital", rest |-> {"capital"}, length |-> 2],
      [first |-> "capital", rest |-> {"capital", "mark"}, length |-> 3],
      [first |-> "mark", rest |-> {"capital"}, length |-> 2],
      [first |-> "capital", rest |-> {"mark"}, length |-> 4],
      [first |-> "capital", rest |-> {"capital", "other"}, length |-> 3],
      [first |-> "other", rest |-> {}, length |-> 0]>>

MCCatalog ==
    (1 :> [order |-> 1, customer |-> 1, currency |-> "EUR",
           lines |-> (1 :> [quantity |-> 2, price |-> 99]) @@ (2 :> [quantity |-> 1, price |-> 100])]) @@
    (2 :> [order |-> 2, customer |-> 1, currency |-> "EUR",
           lines |-> (2 :> [quantity |-> 1, price |-> 101])])

(* Orders of up to three lines out of two SKUs and two quantities, and     *)
(* subjects with one thing wrong.                                          *)
Good == RawLines(1..2, 1..2, {99, 100}, {TRUE})
Odd == RawLines({1}, {0, 3}, {99}, {TRUE}) \cup RawLines({1}, {1}, {0, 200}, {TRUE})
       \cup RawLines({3}, {1}, {101}, BOOLEAN) \cup RawLines(4..7, {1}, {99}, {TRUE})
       \cup {[l EXCEPT !.plain = b, !.places = n] : l \in RawLines({1}, {1}, {99}, {TRUE}),
                                                   b \in BOOLEAN, n \in 1..3}
MCSubject ==
    Raws({1}, {1, 2}, {"EUR"}, {TRUE}, UpTo(2, Good)) \cup
    Raws({2, 3}, {1}, {"EUR"}, {TRUE}, [1..1 -> Good \cup Odd]) \cup
    Raws(3..7, {1}, {"EUR"}, {TRUE}, [1..1 -> Good]) \cup
    Raws({1}, 3..7, {"EUR"}, {TRUE}, [1..1 -> Good]) \cup
    Raws({1}, {1}, {"USD"}, {TRUE}, [1..1 -> Good]) \cup
    Raws({1}, {1}, {"EUR"}, {FALSE}, [1..1 -> Good]) \cup
    Raws({1}, {1}, {"EUR"}, {TRUE}, [1..3 -> RawLines(1..3, {2}, {99}, {TRUE})])
MCArguments ==
    Raws({1}, {1}, {"EUR"}, {TRUE}, [1..2 -> RawLines(1..2, {1, 2}, {99, 100}, {TRUE})]) \cup
    Raws({1}, 3..7, {"EUR"}, {TRUE}, [1..1 -> Good]) \cup
    Raws({2}, {1}, {"EUR"}, BOOLEAN, [1..1 -> Good \cup Odd])
===============================================================================
