----------------------------- MODULE OrderParse -----------------------------
(* utils/order_detail_fetcher.py: what an order's page and responses say is   *)
(* put together from several sources, each of which may be missing or wrong.  *)
(* One step parses one page. A spec is a name with its value, an amount a     *)
(* number, a status one of six; texts and selectors are left out.             *)
EXTENDS Integers, Sequences, FiniteSets

CONSTANTS Specs,      \* name and value pairs that pass for specs
          NoSpec, BadSpec,   \* none, and one that _is_valid_spec_candidate refuses
          MaxAmount

ASSUME ParseAssumption == NoSpec \notin Specs /\ BadSpec \notin Specs /\ NoSpec # BadSpec /\ MaxAmount \in Nat

VARIABLES
    asked,     \* what is parsed next
    amount,    \* NoAmount or what is to be paid
    specs,     \* the first and the second spec
    status,    \* what is told
    again      \* whether the order is asked for again next time

parseVars == <<asked, amount, specs, status, again>>

NoAmount == -1
Amounts == NoAmount..MaxAmount

-----------------------------------------------------------------------------
\* Amounts. _append_amount_candidate takes what is above zero and has a score.
Candidates(payload) == {c \in payload : c.score > 0 /\ c.amount > 0}

\* _get_best_captured_amount_candidate: the best score, then the larger text,
\* which for one digit is the larger number
Best(candidates) ==
    IF candidates = {} THEN NoAmount
    ELSE (CHOOSE c \in candidates :
            \A d \in candidates : d.score < c.score \/ (d.score = c.score /\ d.amount <= c.amount)).amount

Or(a, b) == IF a = NoAmount THEN b ELSE a

\* _resolve_coin_deduction_amount: a page that speaks of coins has the full
\* price beside the deduction; the text of the page may have the rest.
LessCoins(primary, coins, deduction, text) ==
    CASE ~coins \/ primary <= 0 -> primary
      [] 0 < deduction /\ deduction < primary -> primary - deduction
      [] 0 < text /\ text < primary -> text
      [] OTHER -> primary

\* Responses, the page's source, its blocks, its elements, and last its text
ParseAmount ==
    /\ asked = "amount" /\ asked' = "specs"
    /\ \E payload \in SUBSET [amount : 0..MaxAmount, score : 0..1],
          html, block, element, deduction, text \in Amounts, coins \in BOOLEAN :
        amount' = Or(LessCoins(Or(Best(Candidates(payload)), Or(html, Or(block, element))),
                               coins, deduction, text),
                     text)
    /\ UNCHANGED <<specs, status, again>>

-----------------------------------------------------------------------------
\* Specs. _parse_sku_content makes one or two of a text, or nothing.
Pair(a, b) == [first |-> a, second |-> b]
Nothing == Pair(NoSpec, NoSpec)
Contents ==
    {Nothing} \cup {Pair(a, NoSpec) : a \in Specs \cup {BadSpec}} \cup {Pair(a, b) : a, b \in Specs}
        \cup {Pair(BadSpec, b) : b \in Specs} \cup {Pair(a, BadSpec) : a \in Specs}

Valid(s) == IF s = BadSpec THEN NoSpec ELSE s

SanitizedInPlace(p) == Pair(Valid(p.first), Valid(p.second))

\* _sanitize_sku_result: what is refused is dropped, a second spec alone moves up.
Sanitized(p) ==
    IF Valid(p.first) = NoSpec
    THEN Pair(Valid(p.second), NoSpec)
    ELSE Pair(Valid(p.first), Valid(p.second))

\* _extract_sku_from_text: the one line with two specs, else the one line with any
FromText(lines) ==
    LET found == {Sanitized(c) : c \in lines} \ {Nothing}
        double == {c \in found : c.second # NoSpec}
    IN CASE Cardinality(double) = 1 -> CHOOSE c \in double : TRUE
         [] Cardinality(found) = 1 -> CHOOSE c \in found : TRUE
         [] OTHER -> Nothing

\* _get_sku_content: the elements of the page over the response of the server
OverResponse(response, elements) ==
    LET one == IF elements = <<>> THEN Nothing ELSE elements[1]
        two == IF Len(elements) < 2 THEN Nothing ELSE elements[2]
        with == IF one = Nothing THEN response
                ELSE Pair(one.first, IF one.second = NoSpec THEN response.second ELSE one.second)
    IN IF with.second = NoSpec THEN Pair(with.first, two.first) ELSE with

\* and the page's text where that has no first spec, or has the same one.
Merged(response, elements, lines) ==
    LET main == OverResponse(Sanitized(response), elements)
        text == FromText(lines)
    IN Sanitized(
        CASE main.first = NoSpec /\ text.first # NoSpec ->
                Pair(text.first, IF text.second # NoSpec THEN text.second ELSE main.second)
          [] main.first # NoSpec /\ text.second # NoSpec /\ text.first = main.first -> text
          [] OTHER -> main)

ParseSpecs ==
    /\ asked = "specs" /\ asked' = "status"
    /\ \E response \in Contents,
          lines \in {{}} \cup {{c, d} : c, d \in Contents},
          elements \in {<<>>} \cup {<<c>> : c \in Contents} \cup {<<c, d>> : c, d \in Contents} :
        specs' = Merged(response, elements, lines)
    /\ UNCHANGED <<amount, status, again>>

-----------------------------------------------------------------------------
\* Status. _get_status_priority
Priority ==
    [unknown |-> 0, pending_payment |-> 10, pending_ship |-> 20, shipped |-> 30,
     completed |-> 40, refunding |-> 50, cancelled |-> 60]

\* _extract_status_matches_from_text: a text may speak of several.
Matches == {m \in SUBSET (DOMAIN Priority \ {"unknown"}) : Cardinality(m) <= 2}

\* _extract_status_from_text: the highest, except in the text of the whole page,
\* which may show the steps an order still has before it
Highest(m) ==
    IF m = {} THEN "unknown" ELSE CHOOSE s \in m : \A t \in m : Priority[t] <= Priority[s]

FromBody(m) ==
    CASE {"completed", "shipped"} \subseteq m -> "shipped"
      [] {"pending_ship", "shipped"} \subseteq m -> "unknown"
      [] {"pending_ship", "pending_payment"} \subseteq m -> "pending_ship"
      [] OTHER -> Highest(m)

Preferred(selector, buttons) ==
    IF Priority[Highest(buttons)] > Priority[Highest(selector)] THEN Highest(buttons) ELSE Highest(selector)

\* _get_order_status: selector and buttons, and the whole page where they say nothing
ParseStatus ==
    /\ asked = "status" /\ asked' = "told"
    /\ \E selector, buttons, body \in Matches :
        status' = IF Preferred(selector, buttons) # "unknown"
                  THEN Preferred(selector, buttons)
                  ELSE FromBody(body)
    /\ UNCHANGED <<amount, specs, again>>

\* _should_use_cached_order, when the result is in the row: the full price of
\* an item with a coin deduction was not read from the order.
UseCached(item, price) ==
    /\ amount > 0
    /\ ~(item = "coin" /\ amount = price)
    /\ LET known == status # "unknown" /\ status # "processing"
           spec == specs.first # NoSpec
       IN IF item = "multi" THEN known /\ spec ELSE known \/ spec

\* The result is stored, and the next fetch of the order looks at the row.
NextLook ==
    /\ asked = "told" /\ asked' = "stored"
    /\ \E item \in {"plain", "multi", "coin"}, price \in 0..MaxAmount : again' = ~UseCached(item, price)
    /\ UNCHANGED <<amount, specs, status>>

ParseInit ==
    /\ asked = "amount" /\ amount = NoAmount /\ specs = Nothing
    /\ status = "unknown" /\ again = FALSE

ParseNext == ParseAmount \/ ParseSpecs \/ ParseStatus \/ NextLook

ParseSpec == ParseInit /\ [][ParseNext]_parseVars

-----------------------------------------------------------------------------
\* However response, elements and text are mixed, what is told has no spec
\* that is not one, and a second only beside a first.
SpecsAreSound ==
    /\ BadSpec \notin {specs.first, specs.second}
    /\ specs.second # NoSpec => specs.first # NoSpec
=============================================================================
