------------------------------ MODULE OrderIntake -----------------------------
(***************************************************************************)
(* How a mail subject becomes a proposed order, v2/demo_connectors.py and  *)
(* ai/tooling.py: the from-mail route parses the PA1 grammar; the AI path  *)
(* has a provider turn the same subject into arguments of a tool call,     *)
(* which are validated by a contract of their own.  Either way the order   *)
(* is reconciled with the ERP catalog, and only a match may be approved.   *)
(*                                                                         *)
(* Subjects and arguments are kept as their fields, with the notation of   *)
(* codes and prices as far as the patterns tell it apart; "shaped" says    *)
(* that the rest of the text is in order: its segments and separators, or  *)
(* its JSON fields, and the notation of quantities.  An order's lines are  *)
(* sorted by SKU and name each SKU once, so they are a function of it.     *)
(***************************************************************************)
EXTENDS Integers, Sequences, FiniteSets

CONSTANTS
    Code,          \* order, customer and SKU codes; numbers stand for their ASCII order
    Spelling,      \* the characters each code is made of
    MaxCode,       \* the longest code either grammar allows
    Catalog,       \* ERP_CATALOG: the ERP's orders by their codes
    MaxLines,      \* MAX_LINES
    MaxQuantity,   \* MAX_QUANTITY
    MaxUnits,      \* the integer part of MAX_UNIT_PRICE, whose cents are 99
    Subject,       \* the subjects that may arrive
    Arguments,     \* the arguments a language model may return
    None

ASSUME CodeAssumption == Code \subseteq Nat /\ IsFiniteSet(Code)
(* The characters that the patterns of codes tell apart: capital letters   *)
(* and digits; the marks . _ - ; all others.  A price is plain when its    *)
(* units are digits without a superfluous zero in front, and has a number  *)
(* of places behind the point.                                             *)
Character == {"capital", "mark", "other"}
ASSUME SpellingAssumption ==
    Spelling \in [Code -> [first : Character, rest : SUBSET Character, length : Nat]]
ASSUME BoundAssumption ==
    /\ MaxLines \in Nat \ {0} /\ MaxQuantity \in Nat \ {0}
    /\ MaxCode \in Nat \ {0} /\ MaxUnits \in Nat

Currency == {"EUR", "USD"}
RawLine == [sku : Code, quantity : Int, units : Nat, frac : 0..99, plain : BOOLEAN,
            places : Nat, shaped : BOOLEAN]
Raw == [order : Code, customer : Code, currency : Currency, shaped : BOOLEAN, lines : Seq(RawLine)]
Line == [quantity : 1..MaxQuantity, price : 1..(100 * MaxUnits + 99)]
IsOrder(doc) ==
    /\ doc = [order |-> doc.order, customer |-> doc.customer, currency |-> doc.currency,
              lines |-> [sku \in DOMAIN doc.lines |-> doc.lines[sku]]]
    /\ doc.order \in Code /\ doc.customer \in Code /\ doc.currency \in Currency
    /\ DOMAIN doc.lines \subseteq Code /\ \A sku \in DOMAIN doc.lines : doc.lines[sku] \in Line

ASSUME InputAssumption == Subject \subseteq Raw /\ Arguments \subseteq Raw
ASSUME CatalogAssumption ==
    /\ DOMAIN Catalog \subseteq Code
    /\ \A o \in DOMAIN Catalog : IsOrder(Catalog[o]) /\ Catalog[o].order = o
ASSUME NoneAssumption == None \notin Raw \cup Line

VARIABLES
    subject,    \* the subject being prepared
    provider,   \* who answered the AI worker, and what it returned
    direct,     \* what create_run_from_mail proposes of the subject
    prepared    \* what the AI worker proposes of it

vars == <<subject, provider, direct, prepared>>

Provider == {"fake", "model"}

Init == subject = None /\ provider = None /\ direct = None /\ prepared = None

-------------------------------------------------------------------------------
(* Decimal(text) in cents, and format(price, ".2f").                       *)
Cents(line) == 100 * line.units + line.frac
Units(price) == price \div 100
Frac_OneDigit(price) == price % 10
Frac(price) == price % 100

SkusUnique(raw) == \A i, j \in DOMAIN raw.lines : raw.lines[i].sku = raw.lines[j].sku => i = j

(* _CODE_PATTERN: one character that is no mark, then any that are allowed.*)
ParsesCode(code) ==
    LET s == Spelling[code] IN
    s.first = "capital" /\ s.rest \subseteq {"capital", "mark"} /\ s.length - 1 \in 0..(MaxCode - 1)

(* _PRICE_PATTERN, whose digits before the point are as many as those of   *)
(* MAX_UNIT_PRICE, and the bounds.                                         *)
ParsesPrice(line) ==
    line.plain /\ line.units <= MaxUnits /\ line.places = 2 /\ Cents(line) > 0

(* parse_order_subject: the shape, the codes, the currency, 1 to MAX_LINES *)
(* lines, and of each line its quantity and its price.                     *)
Parses(raw) ==
    /\ raw.shaped /\ ParsesCode(raw.order) /\ ParsesCode(raw.customer) /\ raw.currency = "EUR"
    /\ Len(raw.lines) \in 1..MaxLines /\ SkusUnique(raw)
    /\ \A i \in DOMAIN raw.lines :
          LET line == raw.lines[i] IN
          /\ line.shaped /\ ParsesCode(line.sku) /\ line.quantity \in 1..MaxQuantity
          /\ ParsesPrice(line)

(* Code of tooling.py: a length and a pattern of its own.                  *)
ValidCode_Shorter(code) == ParsesCode(code) /\ Spelling[code].length < MaxCode
ValidCode(code) ==
    LET s == Spelling[code] IN
    /\ 1 <= s.length /\ s.length <= MaxCode
    /\ s.first = "capital" /\ "other" \notin s.rest

(* exact_money_string and Money.                                           *)
ValidMoney(line) ==
    /\ line.places = 2 /\ line.plain
    /\ 0 < Cents(line) /\ Cents(line) <= 100 * MaxUnits + 99

(* OrderExtractionV1, as validate_single_tool_call applies it.             *)
Validates(raw) ==
    /\ raw.shaped /\ ValidCode(raw.order) /\ ValidCode(raw.customer) /\ raw.currency = "EUR"
    /\ raw.lines # <<>> /\ Len(raw.lines) <= MaxLines
    /\ \A i \in DOMAIN raw.lines :
          LET line == raw.lines[i] IN
          /\ line.shaped /\ ValidCode(line.sku)
          /\ 1 <= line.quantity /\ line.quantity <= MaxQuantity
          /\ ValidMoney(line)
    /\ SkusUnique(raw)

(* The sorted lines of an OrderDocument, on either path.                   *)
Skus(raw) == {raw.lines[i].sku : i \in DOMAIN raw.lines}
LineOf(raw, sku) ==
    LET line == raw.lines[CHOOSE i \in DOMAIN raw.lines : raw.lines[i].sku = sku] IN
    [quantity |-> line.quantity, price |-> Cents(line)]
ToOrderDocument(raw) ==
    [order |-> raw.order, customer |-> raw.customer, currency |-> "EUR",
     lines |-> [sku \in Skus(raw) |-> LineOf(raw, sku)]]

(* canonical_order: the payload of a proposal, and what the deterministic  *)
(* provider returns as the arguments of its tool call.                     *)
Sorted(S) ==
    CHOOSE s \in [1..Cardinality(S) -> S] : \A i, j \in 1..Cardinality(S) : i < j => s[i] < s[j]
CanonicalOrder(doc) ==
    [order |-> doc.order, customer |-> doc.customer, currency |-> doc.currency, shaped |-> TRUE,
     lines |-> [i \in 1..Cardinality(DOMAIN doc.lines) |->
                   LET sku == Sorted(DOMAIN doc.lines)[i]
                       line == doc.lines[sku] IN
                   [sku |-> sku, quantity |-> line.quantity, units |-> Units(line.price),
                    frac |-> Frac(line.price), plain |-> TRUE, places |-> 2,
                    shaped |-> TRUE]]]

-------------------------------------------------------------------------------
(* reconcile_order: a row for each SKU of either order, then the outcome.  *)
NoLines == [sku \in {} |-> None]
ErpLines(o) == IF o \in DOMAIN Catalog THEN Catalog[o].lines ELSE NoLines
LineAt(lines, sku) == IF sku \in DOMAIN lines THEN lines[sku] ELSE None

LineStatus(email, erp) ==
    CASE erp = None -> "MISSING_IN_ERP"
      [] erp # None /\ email = None -> "MISSING_IN_EMAIL"
      [] erp # None /\ email # None ->
            IF email.quantity # erp.quantity THEN "QTY_MISMATCH"
            ELSE IF email.price # erp.price THEN "PRICE_MISMATCH" ELSE "MATCH"

RowSkus_OfEmail(email, erp) == DOMAIN email
RowSkus(email, erp) == DOMAIN email \cup DOMAIN erp
Rows(email, erp) ==
    [sku \in RowSkus(email, erp) |->
        LET a == LineAt(email, sku)
            b == LineAt(erp, sku) IN
        [status |-> LineStatus(a, b), email |-> a, erp |-> b]]

AllMatch(rows) == \A sku \in DOMAIN rows : rows[sku].status = "MATCH"
CustomerMatch(doc) == doc.customer = Catalog[doc.order].customer
CurrencyMatch(doc) == doc.currency = Catalog[doc.order].currency

Outcome(doc, rows) ==
    IF doc.order \notin DOMAIN Catalog THEN "ERP_ORDER_NOT_FOUND"
    ELSE IF CustomerMatch(doc) /\ CurrencyMatch(doc) /\ AllMatch(rows) THEN "MATCHED"
    ELSE "REVIEW_REQUIRED"

Reconcile(doc) ==
    LET rows == Rows(doc.lines, ErpLines(doc.order))
        known == doc.order \in DOMAIN Catalog IN
    [outcome |-> Outcome(doc, rows), rows |-> rows,
     customer_match |-> IF known THEN CustomerMatch(doc) ELSE None,
     currency_match |-> IF known THEN CurrencyMatch(doc) ELSE None]

(* The run that either path proposes, as far as the order decides it.      *)
Eligible(report) == report.outcome = "MATCHED"
Proposal(doc) ==
    [order |-> doc, report |-> Reconcile(doc), eligible |-> Eligible(Reconcile(doc)),
     payload |-> CanonicalOrder(doc)]

-------------------------------------------------------------------------------
(* DemoMailEnvelope lets only subjects through that parse.                 *)
Receive ==
    /\ subject = None
    /\ \E s \in Subject : Parses(s) /\ subject' = s
    /\ UNCHANGED <<provider, direct, prepared>>

(* The order of create_run_from_mail.                                      *)
PrepareFromMail ==
    /\ subject # None /\ direct = None
    /\ direct' = Proposal(ToOrderDocument(subject))
    /\ UNCHANGED <<subject, provider, prepared>>

(* FakeDeterministicProvider.invoke.                                       *)
InvokeFake ==
    /\ subject # None /\ provider = None
    /\ provider' = [name |-> "fake", arguments |-> CanonicalOrder(ToOrderDocument(subject))]
    /\ UNCHANGED <<subject, direct, prepared>>

(* A language model returns what it likes.                                 *)
InvokeModel ==
    /\ subject # None /\ provider = None
    /\ \E a \in Arguments : provider' = [name |-> "model", arguments |-> a]
    /\ UNCHANGED <<subject, direct, prepared>>

(* validate_single_tool_call, to_order_document, reconcile_order and the   *)
(* run of _finalize_success; arguments that do not validate prepare none.  *)
PrepareWithAi ==
    /\ provider # None /\ prepared = None /\ Validates(provider.arguments)
    /\ prepared' = Proposal(ToOrderDocument(provider.arguments))
    /\ UNCHANGED <<subject, provider, direct>>

(* The next message.                                                       *)
Forget ==
    /\ direct # None
    /\ subject' = None /\ provider' = None /\ direct' = None /\ prepared' = None

Next == Receive \/ PrepareFromMail \/ InvokeFake \/ InvokeModel \/ PrepareWithAi \/ Forget

Spec == Init /\ [][Next]_vars

-------------------------------------------------------------------------------
Proposals == {direct, prepared} \ {None}

(* The shape of the state: what is proposed is an order within the bounds. *)
ProposalOK(p) ==
    /\ IsOrder(p.order) /\ p.order.lines # NoLines /\ p.eligible \in BOOLEAN
    /\ p.report.outcome \in {"MATCHED", "REVIEW_REQUIRED", "ERP_ORDER_NOT_FOUND"}
IntakeTypeOK ==
    /\ subject \in Subject \cup {None}
    /\ provider # None => provider.name \in Provider
    /\ \A p \in Proposals : ProposalOK(p)

(* README.md, "una riconciliazione con blocker": an order may be approved  *)
(* exactly if it is in every field the order the ERP holds under its code, *)
(* whoever read it.                                                        *)
EligibleIsExact ==
    \A p \in Proposals :
        p.eligible <=> p.order.order \in DOMAIN Catalog /\ Catalog[p.order.order] = p.order

(* The payload that is hashed, approved and sent to the ERP is the order   *)
(* that was reconciled: reading it again gives the same order.             *)
PayloadIsTheOrder == \A p \in Proposals : Validates(p.payload) /\ ToOrderDocument(p.payload) = p.order

(* The two paths have a grammar each: what PA1 accepts the tool contract   *)
(* accepts from the deterministic provider, and proposes alike.            *)
OfflinePathsAgree ==
    provider # None /\ provider.name = "fake" =>
        /\ Validates(provider.arguments)
        /\ direct # None /\ prepared # None => direct = prepared
===============================================================================
