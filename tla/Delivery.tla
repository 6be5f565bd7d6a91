------------------------------ MODULE Delivery ------------------------------
(***************************************************************************)
(* Delivery cards and rules: the routers of app/api/routers/shipping.py    *)
(* that edit them and app/services/shipping.py, which chooses the card to  *)
(* deliver.  Every handler is one transaction.  The id of a deleted row is *)
(* given again; a card's serial (history) tells its incarnations apart.    *)
(***************************************************************************)
EXTENDS Integers, FiniteSets, Rows

CONSTANTS Accounts, Items, Priorities, NoOwner,
          CardLimit, RuleLimit,   \* bounds: rows kept at once
          SerialLimit             \* bound: cards ever created

ASSUME DeliveryAssumption == Priorities \subseteq Int /\ NoOwner \notin Accounts

VARIABLES
    cards,   \* id -> [account, serial, moved]; moved is history
    rules,   \* id -> [item, card, priority, enabled, account, meant]; meant is history:
             \* the serial of the card the rule was given
    owner,   \* item -> account of its newest row, NoOwner without a row
    serial   \* history: cards created so far

deliveryVars == <<cards, rules, owner, serial>>

DeliveryInit ==
    /\ cards = << >> /\ rules = << >>
    /\ owner = [i \in Items |-> NoOwner]
    /\ serial = 0

CreateCard(a) ==
    /\ NextId(cards) <= CardLimit /\ serial < SerialLimit
    /\ serial' = serial + 1
    /\ cards' = WithRow(cards, [account |-> a, serial |-> serial + 1, moved |-> FALSE])
    /\ UNCHANGED <<rules, owner>>

\* update_card may give the card to another account; it looks at no rule.
UpdateCard(c, a) ==
    /\ c \in DOMAIN cards
    /\ cards' = [cards EXCEPT ![c].account = a, ![c].moved = @ \/ a # cards[c].account]
    /\ UNCHANGED <<rules, owner, serial>>

\* delete_card, without and with the foreign key's ON DELETE CASCADE
DeleteCardOnly(c) ==
    /\ c \in DOMAIN cards
    /\ cards' = Without(cards, {c})
    /\ UNCHANGED <<rules, owner, serial>>

DeleteCard(c) ==
    /\ c \in DOMAIN cards
    /\ cards' = Without(cards, {c})
    /\ rules' = Without(rules, {r \in DOMAIN rules : rules[r].card = c})
    /\ UNCHANGED <<owner, serial>>

\* create_delivery_rule: 404 without the card, 403 when the card's account or
\* the item's, if the item is known, is another.
CreateRule(i, c, p, on, a) ==
    /\ NextId(rules) <= RuleLimit
    /\ c \in DOMAIN cards /\ cards[c].account = a
    /\ owner[i] \in {NoOwner, a}
    /\ rules' = WithRow(rules, [item |-> i, card |-> c, priority |-> p, enabled |-> on,
                                account |-> a, meant |-> cards[c].serial])
    /\ UNCHANGED <<cards, owner, serial>>

\* update_delivery_rule with a new card
Recard(r, c) ==
    /\ r \in DOMAIN rules /\ c \in DOMAIN cards
    /\ cards[c].account = rules[r].account
    /\ rules' = [rules EXCEPT ![r].card = c, ![r].meant = cards[c].serial]
    /\ UNCHANGED <<cards, owner, serial>>

\* update_delivery_rule with a new priority and switch
Retune(r, p, on) ==
    /\ r \in DOMAIN rules
    /\ rules' = [rules EXCEPT ![r].priority = p, ![r].enabled = on]
    /\ UNCHANGED <<cards, owner, serial>>

DeleteRule(r) ==
    /\ r \in DOMAIN rules
    /\ rules' = Without(rules, {r})
    /\ UNCHANGED <<cards, owner, serial>>

\* The items table gets a row, or loses the rows of the item.
ItemChanges(i, a) ==
    /\ owner' = [owner EXCEPT ![i] = a]
    /\ UNCHANGED <<cards, rules, serial>>

DeliveryNext ==
    \/ \E a \in Accounts : CreateCard(a)
    \/ \E c \in 1..CardLimit :
          \/ DeleteCard(c)
          \/ \E a \in Accounts : UpdateCard(c, a)
          \/ \E i \in Items, p \in Priorities, on \in BOOLEAN, a \in Accounts : CreateRule(i, c, p, on, a)
          \/ \E r \in 1..RuleLimit : Recard(r, c)
    \/ \E r \in 1..RuleLimit :
          \/ DeleteRule(r)
          \/ \E p \in Priorities, on \in BOOLEAN : Retune(r, p, on)
    \/ \E i \in Items, a \in Accounts \cup {NoOwner} : ItemChanges(i, a)

DeliverySpec == DeliveryInit /\ [][DeliveryNext]_deliveryVars

-----------------------------------------------------------------------------
\* The rows resolve_delivery_rule's join selects, and the same without the
\* condition on the rule's account
JoinedByCard(i, a) ==
    {r \in DOMAIN rules : /\ rules[r].item = i /\ rules[r].enabled
                          /\ rules[r].card \in DOMAIN cards /\ cards[rules[r].card].account = a}

Joined(i, a) ==
    {r \in DOMAIN rules : /\ rules[r].item = i /\ rules[r].enabled /\ rules[r].account = a
                          /\ rules[r].card \in DOMAIN cards /\ cards[rules[r].card].account = a}

\* ORDER BY priority DESC, id ASC
Before(r, s) ==
    \/ rules[r].priority > rules[s].priority
    \/ rules[r].priority = rules[s].priority /\ r < s

\* What resolve_delivery_rule returns: the rule, or 0 for None.
ResolveRule(i, a) ==
    LET found == Joined(i, a)
    IN  IF found = {} THEN 0 ELSE CHOOSE r \in found : \A s \in found \ {r} : Before(r, s)

-----------------------------------------------------------------------------
\* A rule keeps to the card it was given: the card exists, is not a later card
\* that got the same id after the first was deleted, and is of the rule's
\* account unless update_card has moved it.
RulesFitTheirCards ==
    \A r \in DOMAIN rules :
        /\ rules[r].card \in DOMAIN cards
        /\ LET card == cards[rules[r].card]
           IN  /\ card.serial = rules[r].meant
               /\ card.moved \/ card.account = rules[r].account

\* The card an order of the account for the item is served with, by its serial
Served(i, a) ==
    LET r == ResolveRule(i, a) IN IF r = 0 THEN 0 ELSE cards[rules[r].card].serial

\* The account's rules for the item, whether they join or not
RulesOf(i, a) ==
    [r \in {s \in DOMAIN rules : rules[s].item = i /\ rules[s].account = a} |-> rules[r]]

\* A step takes a card away, or gives it to another account.
TakesCard(c) ==
    c \in DOMAIN cards /\ (c \notin DOMAIN cards' \/ cards'[c].account # cards[c].account)

\* What an account is served with changes only when one of its rules for the
\* item is made, edited or deleted, or a card that one of them names is taken
\* away or moved: never by an edit of another account's rules, by a change of
\* the items table, or by a new card, even one that gets the id of a card that
\* a rule once named.
OwnEditsDecide ==
    [][\A i \in Items, a \in Accounts :
          Served(i, a)' # Served(i, a) =>
              \/ RulesOf(i, a)' # RulesOf(i, a)
              \/ \E r \in DOMAIN RulesOf(i, a) : TakesCard(rules[r].card)]_deliveryVars
=============================================================================
