----------------------------- MODULE MC_Server -----------------------------
(* Instantiates Server for TLC.  Nicknames are model values; descriptors   *)
(* start at 4 (0-2 are the standard streams, 3 the listening socket).      *)
EXTENDS Server

CONSTANTS n1, n2, n3

MCNicks == {n1, n2, n3}
MCDamages == {5}
MCBonuses == {1}
MCPenalties == {3}

\* Two of the three battle actions: get_turn_result then still yields a
\* win, a loss and a draw, and rock-paper-scissors is symmetric in them.
MCPicks == {"B_ROCK", "B_PAPER"}

(***************************************************************************)
(* With FreshChIds, add_challenge never returns a deleted challenge's id, *)
(* so a relay or a CHALLENGE_R of a deleted challenge that a client still *)
(* remembers enables nothing: its accept or reject is refused with NXCHID *)
(* and its TURN finds no challenge.  States that differ only in those     *)
(* entries behave alike; the lobby run identifies them.                   *)
(***************************************************************************)
LiveView == <<conn, sess, byId, byFd, byNick, userCnt, chs, nextSess, chCount,
              usedChIds, loggedIn,
              [f \in Fds |-> {o \in offered[f] : o[1] \in DOMAIN chs}],
              [f \in Fds |-> told[f] \cap DOMAIN chs], crash>>

NickSymmetry == Permutations(MCNicks)
====
