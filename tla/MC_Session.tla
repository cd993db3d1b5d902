----------------------------- MODULE MC_Session -----------------------------
(* Instantiates Session for TLC.  Nicknames are model values; descriptors  *)
(* start at 4 (0-2 are the standard streams, 3 the listening socket).      *)
EXTENDS Session, UserList

CONSTANTS n1, n2, n3, ann, Bob, bob, cat

MCNicks == {n1, n2, n3}
MCDamages == {5}
MCBonuses == {1}
MCPenalties == {3}
MCPicks == {"B_ROCK", "B_PAPER"}

MCNicks2 == {n1, n2}

\* The client's user list: nicknames of which two differ only in case, and
\* the scores the session reaches (two battles of bonus 1, penalty 3) with
\* the bottom and the top of the range in which no difference of two
\* overflows an int32.
MCNames == {ann, Bob, bob, cat}
MCCaseFold == (ann :> 1) @@ (Bob :> 2) @@ (bob :> 2) @@ (cat :> 3)
MCScores == {-1073741824, -6, -3, -2, 0, 1, 2, 1073741823}

(***************************************************************************)
(* Whenever a client is in ui_main, the user list it rebuilds from its     *)
(* user_by_id view (after the UCHANGEs it has applied) is one of the lists *)
(* of up to MaxUsers users with ids in Ids and scores in Scores; and every *)
(* rebuild of every such list, under either sort key and any current item, *)
(* lists each user once, ordered by cmp_item_for_sort as the reference     *)
(* order says (by score, highest first, ties by name ignoring case; or by  *)
(* name, ties by score), with a listed user's item current.  Between hosts *)
(* of one byte order the scores are those the server computes, and no     *)
(* difference of two overflows; a crossed tie-break, a reversed or         *)
(* case-sensitive comparison breaks it.                                    *)
(***************************************************************************)
ListMatchesReference ==
    /\ AllListsOK
    /\ \A f \in Fds : ui[f] = "main" =>
          /\ DOMAIN view[f] \subseteq Ids /\ Cardinality(DOMAIN view[f]) <= MaxUsers
          /\ \A i \in DOMAIN view[f] : view[f][i].score \in Scores

NickSymmetry == Permutations(MCNicks)
====
