------------------------------ MODULE UserList ------------------------------
(***************************************************************************)
(* The client's user list (src/client/client.c): after ui_main has applied *)
(* the UCHANGEs it drained, it rebuilds the menu.  populate_user_list      *)
(* walks user_by_id in id order and makes one item per user, carrying its  *)
(* nickname and score; qsort_r orders the items with cmp_item_for_sort     *)
(* under the sort key the user picked (UC_SORT); the item of the user that *)
(* was current before is meant to be current again.                        *)
(*                                                                         *)
(* These are operators: the rebuild is a function of the user tree, the    *)
(* sort key and the old selection.                                         *)
(***************************************************************************)
EXTENDS Integers, Sequences, FiniteSets, SequencesExt

CONSTANTS
    Ids,       \* user ids the list may hold
    Names,     \* nicknames
    CaseFold,  \* Names -> Nat: the order strncasecmp puts nicknames in
    Scores,    \* int32 scores a UCHANGE may carry
    MaxUsers   \* bound: users in the list at once

BY_NAME == "BY_NAME"
BY_SCORE == "BY_SCORE"
SortKeys == {BY_NAME, BY_SCORE}

INT32_MAX == 2147483647
INT32_MIN == -INT32_MAX - 1

(* a - b in int32 arithmetic, wrapping on overflow as the build does.  The *)
(* wrapped value is a - b + 2^32 or a - b - 2^32, computed in pieces that  *)
(* stay inside the int32 range.                                            *)
SubI32(a, b) ==
    IF b >= 0
    THEN IF a >= INT32_MIN + b THEN a - b
         ELSE (a - INT32_MIN) + (INT32_MAX - b) + 1
    ELSE IF a <= INT32_MAX + b THEN a - b
         ELSE (a - INT32_MAX) + (INT32_MIN - b) - 1

Sign(x) == IF x > 0 THEN 1 ELSE IF x < 0 THEN -1 ELSE 0

(***************************************************************************)
(* A user tree the client can hold: distinct ids (the tree is keyed on     *)
(* them) and nicknames distinct under strncasecmp, since the server        *)
(* refuses a JOIN whose nickname nick_cmp finds taken.                     *)
(***************************************************************************)
UserTrees ==
    UNION {{[i \in S |-> [nick |-> n[i], score |-> s[i]]] :
                n \in {m \in [S -> Names] :
                         \A i, j \in S : i # j => CaseFold[m[i]] # CaseFold[m[j]]},
                s \in [S -> Scores]} :
           S \in {S \in SUBSET Ids : Cardinality(S) <= MaxUsers}}

\* populate_user_list, called by twalk_r on user_by_id: one item per user,
\* in increasing id order.
populate_user_list(us) == SetToSortSeq(DOMAIN us, <)

\* Mutant: the score difference taken the other way round (ascending).
cmp_item_for_sort_ascending(us, i, j, sb) ==
    LET by_name == Sign(CaseFold[us[i].nick] - CaseFold[us[j].nick])
        by_score == SubI32(us[i].score, us[j].score)
    IN IF sb = BY_NAME THEN IF by_name = 0 THEN by_score ELSE by_name
                       ELSE IF by_score = 0 THEN by_name ELSE by_score

(* cmp_item_for_sort: strncasecmp of the names, and the int32 difference   *)
(* cj->chl_score - ci->chl_score (descending), one breaking ties of the    *)
(* other.  The subtraction wraps on overflow, as the build's does.         *)
cmp_item_for_sort(us, i, j, sb) ==
    LET by_name == Sign(CaseFold[us[i].nick] - CaseFold[us[j].nick])
        by_score == SubI32(us[j].score, us[i].score)
    IN IF sb = BY_NAME THEN IF by_name = 0 THEN by_score ELSE by_name
                       ELSE IF by_score = 0 THEN by_name ELSE by_score

\* The comparator is a strict weak order on the items: qsort_r's contract.
Consistent(us, sb) ==
    \A i, j, k \in DOMAIN us :
        /\ Sign(cmp_item_for_sort(us, i, j, sb)) = -Sign(cmp_item_for_sort(us, j, i, sb))
        /\ cmp_item_for_sort(us, i, j, sb) <= 0 /\ cmp_item_for_sort(us, j, k, sb) <= 0
              => cmp_item_for_sort(us, i, k, sb) <= 0

\* The orders qsort_r may leave the items in: sorted by the comparator when
\* it is consistent, any permutation when it is not.
qsort_r(items, us, sb) ==
    LET perms == {p \in [1 .. Len(items) -> Range(items)] :
                      Cardinality(Range(p)) = Len(items)}
    IN IF Consistent(us, sb)
       THEN {p \in perms : \A k \in 1 .. Len(p) - 1 :
                               cmp_item_for_sort(us, p[k], p[k + 1], sb) <= 0}
       ELSE perms

(***************************************************************************)
(* The rebuild in ui_main: populate, sort, set_menu_items (which makes the *)
(* first item current) and set_current_item on the item populate matched   *)
(* to old_id.  sel is the id of the user whose item was current (0 for no  *)
(* current item).  old_id is read as the uint16_t at item_userptr of the  *)
(* current item: the first member of the user_cmd_t, its kind UC_CHL_USER  *)
(* (0), not its chl_user_id.  The result: the items and the current one    *)
(* (0 for none).                                                            *)
(***************************************************************************)
UC_CHL_USER == 0

Rebuild(us, sb, sel) ==
    LET old_id == UC_CHL_USER
    IN {[items |-> p,
         sel |-> IF sel # 0 /\ old_id \in DOMAIN us THEN old_id
                 ELSE IF p = <<>> THEN 0 ELSE p[1]] :
           p \in qsort_r(populate_user_list(us), us, sb)}

-----------------------------------------------------------------------------
(* The order the list is meant to have: by score, highest first, players   *)
(* of equal score by name ignoring case; or by name ignoring case, equal   *)
(* names by score.                                                          *)
RefBefore(us, i, j, sb) ==
    LET higher == us[i].score > us[j].score
        sameScore == us[i].score = us[j].score
        nameFirst == CaseFold[us[i].nick] < CaseFold[us[j].nick]
        sameName == CaseFold[us[i].nick] = CaseFold[us[j].nick]
    IN IF sb = BY_SCORE THEN higher \/ (sameScore /\ (nameFirst \/ sameName))
                        ELSE nameFirst \/ (sameName /\ (higher \/ sameScore))

\* Every rebuild of the list us, under either sort key and any selection,
\* shows every user once, in the reference order, with a listed user's
\* item current when the list is not empty.
ListOK(us) ==
    \A sb \in SortKeys, sel \in Ids \cup {0} :
        LET R == Rebuild(us, sb, sel)
        IN /\ R # {}
           /\ \A r \in R :
                 /\ Range(r.items) = DOMAIN us /\ Len(r.items) = Cardinality(DOMAIN us)
                 /\ \A k \in 1 .. Len(r.items) - 1 :
                       RefBefore(us, r.items[k], r.items[k + 1], sb)
                 /\ r.sel \in (IF DOMAIN us = {} THEN {0} ELSE DOMAIN us)

\* ListOK for every user tree with scores in Scores.
AllListsOK == \A us \in UserTrees : ListOK(us)
====
