------------------------------- MODULE Replies -------------------------------
(***************************************************************************)
(* Reply rules: app/api/routers/replies.py edits them,                     *)
(* app/services/reply_policy.py chooses the answer to a message.  General  *)
(* and item keywords live in two tables whose ids overlap, and the keyword *)
(* routes are given an id alone.  Every handler is one transaction.        *)
(***************************************************************************)
EXTENDS Integers, FiniteSets, Rows

CONSTANTS ItemIds,
          Patterns,    \* what a keyword may match
          NoItem,
          KeywordLimit \* bound: rows kept in each keyword table

ASSUME RepliesAssumption == NoItem \notin ItemIds

VARIABLES
    general,    \* keywords: id -> [pattern, enabled]
    itemised,   \* item_keywords: id -> [item, pattern, enabled]
    itemReply,  \* item -> switches of its rows of item_replies
    fallback    \* switches of the rows of default_replies

replyVars == <<general, itemised, itemReply, fallback>>

RepliesInit ==
    /\ general = << >> /\ itemised = << >>
    /\ itemReply = [i \in ItemIds |-> {}]
    /\ fallback = {}

-----------------------------------------------------------------------------
\* _insert_keyword_row into one table or the other, as the payload names an
\* item or not; into the other table when the test is turned round.
InsertGeneral(p, on) ==
    /\ NextId(general) <= KeywordLimit
    /\ general' = WithRow(general, [pattern |-> p, enabled |-> on])
    /\ UNCHANGED itemised

InsertItemised(i, p, on) ==
    /\ NextId(itemised) <= KeywordLimit
    /\ itemised' = WithRow(itemised, [item |-> i, pattern |-> p, enabled |-> on])
    /\ UNCHANGED general

AddKeyword(i, p, on) ==
    /\ IF i = NoItem THEN InsertGeneral(p, on) ELSE InsertItemised(i, p, on)
    /\ UNCHANGED <<itemReply, fallback>>

\* _find_keyword_location: keywords before item_keywords
Location(id) ==
    IF id \in DOMAIN general THEN "general" ELSE IF id \in DOMAIN itemised THEN "item" ELSE "none"

\* The request carries an id, not the table the user picked it from.
UpdateKeyword(id, p, on) ==
    /\ Location(id) # "none"
    /\ IF Location(id) = "general"
       THEN general' = [general EXCEPT ![id] = [pattern |-> p, enabled |-> on]] /\ UNCHANGED itemised
       ELSE itemised' = [itemised EXCEPT ![id].pattern = p, ![id].enabled = on] /\ UNCHANGED general
    /\ UNCHANGED <<itemReply, fallback>>

\* delete_reply_keyword returns after the first table that has the id.
DeleteKeyword(id) ==
    /\ Location(id) # "none"
    /\ IF Location(id) = "general"
       THEN general' = Without(general, {id}) /\ UNCHANGED itemised
       ELSE itemised' = Without(itemised, {id}) /\ UNCHANGED general
    /\ UNCHANGED <<itemReply, fallback>>

\* Rows of item_replies and default_replies; a table is kept as the switches
\* of its rows, which is all that the policy tells apart.
EditItemReply(i, switches) ==
    /\ itemReply' = [itemReply EXCEPT ![i] = switches]
    /\ UNCHANGED <<general, itemised, fallback>>

EditDefault(switches) ==
    /\ fallback' = switches
    /\ UNCHANGED <<general, itemised, itemReply>>

RepliesNext ==
    \/ \E i \in ItemIds \cup {NoItem}, p \in Patterns, on \in BOOLEAN : AddKeyword(i, p, on)
    \/ \E id \in 1..KeywordLimit :
          \/ DeleteKeyword(id)
          \/ \E p \in Patterns, on \in BOOLEAN : UpdateKeyword(id, p, on)
    \/ \E switches \in SUBSET BOOLEAN :
          \/ EditDefault(switches)
          \/ \E i \in ItemIds : EditItemReply(i, switches)

RepliesSpec == RepliesInit /\ [][RepliesNext]_replyVars

-----------------------------------------------------------------------------
\* A message about an item is known by the patterns it matches.
ItemKeywordHits(i, said) ==
    {k \in DOMAIN itemised : itemised[k].item = i /\ itemised[k].enabled /\ itemised[k].pattern \in said}

GeneralHits(said) == {k \in DOMAIN general : general[k].enabled /\ general[k].pattern \in said}

\* ReplyPolicyService.resolve: the source of the answer and the row, the
\* first in the order the table is read; general before item keywords when
\* the two steps are swapped
ResolveSwapped(i, said) ==
    IF TRUE \in itemReply[i] THEN [source |-> "item_reply", id |-> 0]
    ELSE IF GeneralHits(said) # {} THEN [source |-> "keyword", id |-> Min(GeneralHits(said))]
    ELSE IF ItemKeywordHits(i, said) # {} THEN [source |-> "item_keyword", id |-> Min(ItemKeywordHits(i, said))]
    ELSE IF TRUE \in fallback THEN [source |-> "default", id |-> 0]
    ELSE [source |-> "ai_fallback", id |-> 0]

ResolveReply(i, said) ==
    IF TRUE \in itemReply[i] THEN [source |-> "item_reply", id |-> 0]
    ELSE IF ItemKeywordHits(i, said) # {} THEN [source |-> "item_keyword", id |-> Min(ItemKeywordHits(i, said))]
    ELSE IF GeneralHits(said) # {} THEN [source |-> "keyword", id |-> Min(GeneralHits(said))]
    ELSE IF TRUE \in fallback THEN [source |-> "default", id |-> 0]
    ELSE [source |-> "ai_fallback", id |-> 0]

-----------------------------------------------------------------------------
\* The order the service's header freezes, as ranks.
Rank == [item_reply |-> 1, item_keyword |-> 2, keyword |-> 3, default |-> 4, ai_fallback |-> 5]

\* An edit of the general keywords or of the default reply never changes the
\* answer of a message that an item's own reply or keyword answered, and one
\* of the default never that of a message any keyword answered: whatever
\* handler ran, an answer changes only with rows of its own rank or above.
LowerRanksAreHidden ==
    [][\A i \in ItemIds, said \in SUBSET Patterns :
          LET before == Rank[ResolveReply(i, said).source]
          IN  /\ before <= 2 /\ itemReply' = itemReply /\ itemised' = itemised =>
                     ResolveReply(i, said)' = ResolveReply(i, said)
              /\ before = 3 /\ itemReply' = itemReply /\ itemised' = itemised /\ general' = general =>
                     ResolveReply(i, said)' = ResolveReply(i, said)]_replyVars
=============================================================================
