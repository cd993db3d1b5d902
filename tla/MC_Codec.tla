------------------------------ MODULE MC_Codec ------------------------------
(***************************************************************************)
(* Messages for the Codec model, built as the server and client build     *)
(* them: every integer field holds a value whose bytes differ, so that a  *)
(* missing or extra byte swap shows.  UCHANGE messages are made with       *)
(* make_uchange and uchange_add_or_create, the last one by overflowing a  *)
(* full message.                                                           *)
(***************************************************************************)
EXTENDS Codec

NICK == 300

\* A value of each width with distinct bytes: 0x01, 0x0102, 0x01020304.
Sample(w) == CASE w = STR -> NICK [] w = 1 -> 1 [] w = 2 -> 258 [] w = 4 -> 16909060

Filled(k) == [kind |-> k, f |-> [i \in DOMAIN Layout[k] |-> Sample(Layout[k][i])]]

AddUser(m) == uchange_add_or_create(m, NICK, 258, 1, 16909060)

U0 == make_msg_buf(UCHANGE)
U1 == AddUser(U0).msg
U2 == AddUser(U1).msg

MCMsgs == {Filled(k) : k \in Kinds \ {UCHANGE}} \cup {U1, U2, AddUser(U2).new}

\* Hosts of every pair of byte orders; an x86 (little-endian) sender with a
\* big-endian receiver; two x86 hosts.
MCHostOrders == BOOLEAN \X BOOLEAN
LittleToBig  == {<<TRUE, FALSE>>}
LittleToLittle == {<<TRUE, TRUE>>}
====
