------------------------------- MODULE Codec -------------------------------
(***************************************************************************)
(* One direction of a connection: msg_send on one host, the socket, and    *)
(* the reading loop of msg_recv / recv_count on the other host             *)
(* (src/lib/messages.c, src/lib/common.c, layouts in src/lib/common.h).    *)
(*                                                                         *)
(* A buffer is a sequence of cells.  An integer field of w bytes is w      *)
(* byte cells, laid out in the byte order of the host that holds it; a    *)
(* char array (nickname, text) is one cell holding an abstract string.    *)
(* The conversion macros conv / msg_body_conv / msg_head_conv are modelled *)
(* by what htons/htonl do: reverse the bytes of the field on a             *)
(* little-endian host, nothing on a big-endian one.                        *)
(***************************************************************************)
EXTENDS Integers, Sequences, SequencesExt

CONSTANTS Msgs,        \* host-order messages the sender may pass to msg_send
          Strs,        \* abstract NUL-terminated strings, numbers > 255
          UCNT,        \* UCHANGE_MAX_UCNT, the users array of a UCHANGE
          HostOrders,  \* pairs <<sender is LE, receiver is LE>>
          MaxShort,    \* short recv()s one recv_count may see
          MaxMsgs      \* bound on the number of messages sent

ASSUME \A s \in Strs : s > 255

\* msg_kind_t
JOIN == 1
JOIN_R == 2
QUIT == 3
UCHANGE == 4
CHALLENGE == 5
CHALLENGE_R == 6
TURN == 7
TURN_R == 8
SENDMSG == 9
MSG_MAX == 10
Kinds == JOIN .. SENDMSG

\* Field widths of a layout; STR marks a char array, kept as one cell.
STR == 0
Width(w) == IF w = STR THEN 1 ELSE w

\* struct msg_head_t and the bodies of the msg_body_t union, field by field.
HeadLayout == <<2, 2>>
UserLayout == <<STR, 2, 2, 4>>
LayoutOf(k) ==
  CASE k = JOIN        -> <<STR>>
    [] k = JOIN_R      -> <<STR, 2, 2, 4>>
    [] k = QUIT        -> <<4, 2>>
    [] k = UCHANGE     -> <<4>> \o FlattenSeq([i \in 1..UCNT |-> UserLayout])
    [] k = CHALLENGE   -> <<2, 2, 4, 2, 2>>
    [] k = CHALLENGE_R -> <<2, 2, 2, 2, 1>>
    [] k = TURN        -> <<2, 2, 4, 2, 2>>
    [] k = TURN_R      -> <<2, 2, 2, 2, 2, 4, 4, 4, 4, 1>>
    [] k = SENDMSG     -> <<2, 4, STR>>

Layout == [k \in Kinds |-> LayoutOf(k)]

RECURSIVE SizeOf(_)
SizeOf(lay) == IF lay = <<>> THEN 0 ELSE Width(Head(lay)) + SizeOf(Tail(lay))

\* Offset of field i of a layout.
Off(lay, i) == SizeOf(SubSeq(lay, 1, i - 1))

\* msg_body_size: sizeof the body struct of a kind, 0 for any other kind.
BodySize == [k \in Kinds |-> SizeOf(Layout[k])]
msg_body_size(k) == IF k \in Kinds THEN BodySize[k] ELSE 0

HEAD == SizeOf(HeadLayout)
MaxBody == Max({msg_body_size(k) : k \in Kinds})

\* Index in the UCHANGE layout of field j (1..4) of user i (0-based).
UserField(i, j) == 1 + 4 * i + j

\* The bytes of an integer v of w bytes in host memory.
Bytes(v, w, le) ==
  LET little == [j \in 1..w |-> (v \div (256 ^ (j - 1))) % 256]
  IN IF le THEN little ELSE Reverse(little)

\* A char array cell read as a byte: its first char, a printable one ('A')
\* for a nickname, NUL for the empty string.
ByteOf(c) == IF c > 255 THEN 65 ELSE c

\* The integer a host of byte order le reads from w bytes at offset off.
RECURSIVE Val(_, _, _, _)
Val(mem, off, w, le) ==
  IF w = 0 THEN 0
  ELSE IF le THEN ByteOf(mem[off + 1]) + 256 * Val(mem, off + 1, w - 1, le)
             ELSE ByteOf(mem[off + w]) + 256 * Val(mem, off, w - 1, le)

\* memcpy of a host-order message into a buffer: its fields in layout order.
ToMem(lay, f, le) ==
  FlattenSeq([i \in DOMAIN lay |->
                IF lay[i] = STR THEN <<f[i]>> ELSE Bytes(f[i], lay[i], le)])

\* conv(fld) on each field of a set of <<offset, width>> spans: htons/htonl
\* (or ntohs/ntohl, the same permutation) reverse the bytes of a field of
\* 2 or 4 bytes on a little-endian host and do nothing on a big-endian
\* one.  The fields are disjoint, so the order of the conv calls is moot.
Mirror(spans, i) ==
  LET hit == {p \in spans : p[2] \in {2, 4} /\ p[1] < i /\ i <= p[1] + p[2]}
  IN IF hit = {} THEN i
     ELSE LET p == CHOOSE p \in hit : TRUE IN 2 * p[1] + p[2] + 1 - i
Conv(mem, spans, le) ==
  IF le THEN [i \in 1..Len(mem) |-> mem[Mirror(spans, i)]] ELSE mem

\* The <<offset, width>> span of field i of kind k.
KindOff == [k \in Kinds |-> [i \in DOMAIN Layout[k] |-> Off(Layout[k], i)]]
Span(k, i) == <<KindOff[k][i], Layout[k][i]>>

\* The fields a host reads back from a buffer.
FromMem(k, mem, le) ==
  [i \in DOMAIN Layout[k] |->
     IF Layout[k][i] = STR THEN mem[KindOff[k][i] + 1]
                           ELSE Val(mem, KindOff[k][i], Layout[k][i], le)]

\* Mutant: TURN_R without its conv(body->turn_r.turn_no).
ConvFixedNoTurnNo(k) ==
  CASE k = JOIN    -> {}
    [] k = JOIN_R  -> {2, 3, 4}
    [] k = QUIT    -> {1, 2}
    [] k \in {CHALLENGE, CHALLENGE_R, TURN} -> 1..5
    [] k = TURN_R  -> 1..10 \ {2}
    [] k = SENDMSG -> {1, 2}

\* The fields msg_body_conv converts for every kind but UCHANGE.
ConvFixed(k) ==
  CASE k = JOIN    -> {}
    [] k = JOIN_R  -> {2, 3, 4}
    [] k = QUIT    -> {1, 2}
    [] k \in {CHALLENGE, CHALLENGE_R, TURN} -> 1..5
    [] k = TURN_R  -> 1..10
    [] k = SENDMSG -> {1, 2}

\* The fields msg_body_conv converts in a body of kind k: for UCHANGE the
\* count, and the id and state of the n users its loop visits -- never the
\* score.
BodySpans(k, n) ==
  IF k = UCHANGE
  THEN {Span(k, 1)} \cup {Span(k, UserField(i, j)) : i \in 0..n - 1, j \in {2, 3}}
  ELSE {Span(k, i) : i \in ConvFixed(k)}

\* Where each cell of a body comes from when msg_body_conv runs on an LE host.
BodyPerm == [k \in Kinds, n \in 0..UCNT |->
               [i \in 1..MaxBody |-> Mirror(BodySpans(k, n), i)]]

\* msg_body_conv, both directions.  UCHANGE converts count first; its loop
\* then reads count from the buffer, already converted, and runs while
\* i < count && i < UCHANGE_MAX_UCNT.
msg_body_conv(k, mem, le) ==
  LET cnt == Val(Conv(mem, {Span(k, 1)}, le), 0, 4, le)
      n   == IF k # UCHANGE THEN 0 ELSE IF cnt < UCNT THEN cnt ELSE UCNT
  IN IF le THEN [i \in 1..Len(mem) |-> mem[BodyPerm[k, n][i]]] ELSE mem

\* msg_head_conv: kind, then body_len.
msg_head_conv(mem, le) == Conv(mem, {<<0, 2>>, <<2, 2>>}, le)

\* init_msg_buf / make_msg_buf: a zeroed body (0 is also the empty string).
ZeroFields(k) == [i \in DOMAIN Layout[k] |-> 0]
make_msg_buf(k) == [kind |-> k, f |-> ZeroFields(k)]

\* uchange_add_or_create: the user goes into the next free slot; on a full
\* message, into a new one (returned as .new, with .ok = FALSE).
uchange_add_or_create(m, nick, id, state, score) ==
  LET cnt == m.f[1]
      Put(msg) == LET c == msg.f[1]
                  IN [msg EXCEPT !.f = [@ EXCEPT ![1] = c + 1,
                                                 ![UserField(c, 1)] = nick,
                                                 ![UserField(c, 2)] = id,
                                                 ![UserField(c, 3)] = state,
                                                 ![UserField(c, 4)] = score]]
  IN IF cnt >= UCNT
     THEN [ok |-> FALSE, msg |-> m, new |-> Put(make_msg_buf(UCHANGE))]
     ELSE [ok |-> TRUE, msg |-> Put(m), new |-> m]

\* null_terminated on a char array.  A cell holding a stray byte of some
\* integer stands for an array whose terminator is not known to be there.
null_terminated(c) == c = 0 \/ c \in Strs

\* Mutant: a UCHANGE holding UCHANGE_MAX_UCNT users is refused (>= for >).
msg_check_form_full(k, f) ==
  CASE k \in {JOIN, JOIN_R} -> null_terminated(f[1])
    [] k = UCHANGE -> /\ f[1] < UCNT
                      /\ \A i \in 0..UCNT - 1 :
                            i < f[1] => null_terminated(f[UserField(i, 1)])
    [] k = SENDMSG -> null_terminated(f[3])
    [] OTHER -> TRUE

\* msg_check_form on a host-order body (kind and body_len already checked).
msg_check_form(k, f) ==
  CASE k \in {JOIN, JOIN_R} -> null_terminated(f[1])
    [] k = UCHANGE -> /\ f[1] <= UCNT
                      /\ \A i \in 0..UCNT - 1 :
                            i < f[1] => null_terminated(f[UserField(i, 1)])
    [] k = SENDMSG -> null_terminated(f[3])
    [] OTHER -> TRUE

\* The bytes msg_send writes for host-order message m: a copy of head and
\* body, the body converted, then the head converted.
SendBytes(m, le) ==
  LET head == ToMem(HeadLayout, <<m.kind, msg_body_size(m.kind)>>, le)
  IN msg_head_conv(head, le) \o msg_body_conv(m.kind, ToMem(Layout[m.kind], m.f, le), le)
-----------------------------------------------------------------------------
(***************************************************************************)
(* The connection.  The sender calls msg_send; the receiver is the loop of *)
(* the server's reader thread (server.c) or the client's IN io_worker      *)
(* (client.c), each calling msg_recv on the same message_t again and again.*)
(***************************************************************************)
VARIABLES hosts,      \* <<sender is LE, receiver is LE>>
          sent,       \* messages passed to msg_send, in order
          wire,       \* bytes sent and not yet received
          closed,     \* the sender shut the connection down
          buf,        \* the receiver's message_t: HEAD + MaxBody cells
          rpc,        \* "head" / "body": inside recv_count for that part
          need,       \* len left in the current recv_count
          shorts,     \* recv()s of the current recv_count that returned short
          delivered   \* messages msg_recv returned 0 for, in order

vars == <<hosts, sent, wire, closed, buf, rpc, need, shorts, delivered>>

Init == /\ hosts \in HostOrders
        /\ sent = <<>>
        /\ wire = <<>>
        /\ closed = FALSE
        /\ buf = [i \in 1..HEAD + MaxBody |-> 0]
        /\ rpc = "head"
        /\ need = HEAD
        /\ shorts = 0
        /\ delivered = <<>>

\* msg_send of a well-formed message: one send() of head and body.
Send(m) == /\ ~closed
           /\ Len(sent) < MaxMsgs
           /\ m.kind > 0 /\ m.kind < MSG_MAX
           /\ sent' = Append(sent, m)
           /\ wire' = wire \o SendBytes(m, hosts[1])
           /\ UNCHANGED <<hosts, closed, buf, rpc, need, shorts, delivered>>

Close == /\ ~closed
         /\ closed' = TRUE
         /\ UNCHANGED <<hosts, sent, wire, buf, rpc, need, shorts, delivered>>

\* How many bytes one recv() may return: all it asked for that have
\* arrived, or, up to MaxShort times in one recv_count, fewer.
Chunks == LET avail == IF need < Len(wire) THEN need ELSE Len(wire)
          IN {c \in 1..avail : c = avail \/ shorts < MaxShort}

\* Start of the part recv_count fills: the head, or the body after it.
Base == IF rpc = "head" THEN 0 ELSE HEAD

\* recv(fd, p, len): the first c bytes of the wire land at p, which
\* recv_count never advances, so every chunk lands at the start of the part.
Recv(c) == SubSeq(buf, 1, Base) \o SubSeq(wire, 1, c)
             \o SubSeq(buf, Base + c + 1, Len(buf))

\* A recv() that leaves len > 0: recv_count loops.
RecvPart == /\ rpc \in {"head", "body"}
            /\ \E c \in Chunks : /\ c < need
                                 /\ buf' = Recv(c)
                                 /\ need' = need - c
                                 /\ shorts' = shorts + 1
                                 /\ wire' = SubSeq(wire, c + 1, Len(wire))
            /\ UNCHANGED <<hosts, sent, closed, rpc, delivered>>

\* The receiver's view after the last recv() of the head and msg_head_n2l:
\* the head in host order, its kind and its body_len.
HeadIn  == msg_head_conv(SubSeq(Recv(need), 1, HEAD), hosts[2])
InKind  == Val(HeadIn, 0, 2, hosts[2])
InLen   == Val(HeadIn, 2, 2, hosts[2])

\* Mutant: msg_recv without the check of body_len against msg_body_size.
RecvHeadNoLenCheck ==
            /\ rpc = "head"
            /\ need \in Chunks
            /\ buf' = HeadIn \o SubSeq(buf, HEAD + 1, Len(buf))
            /\ IF InKind <= 0 \/ InKind >= MSG_MAX
               THEN rpc' = "failed" /\ need' = 0
               ELSE rpc' = "body" /\ need' = InLen
            /\ wire' = SubSeq(wire, need + 1, Len(wire))
            /\ shorts' = 0
            /\ UNCHANGED <<hosts, sent, closed, delivered>>

\* The last recv() of the head, then msg_head_n2l and the checks of the
\* kind and of body_len against msg_body_size.
RecvHead == /\ rpc = "head"
            /\ need \in Chunks
            /\ buf' = HeadIn \o SubSeq(buf, HEAD + 1, Len(buf))
            /\ IF InKind <= 0 \/ InKind >= MSG_MAX \/ InLen # msg_body_size(InKind)
               THEN rpc' = "failed" /\ need' = 0
               ELSE rpc' = "body" /\ need' = InLen
            /\ wire' = SubSeq(wire, need + 1, Len(wire))
            /\ shorts' = 0
            /\ UNCHANGED <<hosts, sent, closed, delivered>>

\* The kind msg_recv checked, and the body after the last recv() of the
\* body and msg_body_n2l, as a buffer and as the fields it holds.
Kind     == Val(buf, 0, 2, hosts[2])
BodyIn   == msg_body_conv(Kind, SubSeq(Recv(need), HEAD + 1, Len(buf)), hosts[2])
InFields == FromMem(Kind, BodyIn, hosts[2])

\* The last recv() of the body, then msg_body_n2l and msg_check_form; on
\* success the reader hands a copy of the message on and loops.
RecvBody == /\ rpc = "body"
            /\ need \in Chunks
            /\ buf' = SubSeq(buf, 1, HEAD) \o BodyIn
            /\ IF msg_check_form(Kind, InFields)
               THEN /\ delivered' = Append(delivered, [kind |-> Kind, f |-> InFields])
                    /\ rpc' = "head" /\ need' = HEAD
               ELSE /\ rpc' = "failed" /\ need' = 0
                    /\ UNCHANGED delivered
            /\ wire' = SubSeq(wire, need + 1, Len(wire))
            /\ shorts' = 0
            /\ UNCHANGED <<hosts, sent, closed>>

\* recv() returns 0 at end of stream: recv_count and msg_recv return -1.
RecvEof == /\ rpc \in {"head", "body"}
           /\ wire = <<>> /\ closed
           /\ rpc' = "failed" /\ need' = 0
           /\ UNCHANGED <<hosts, sent, wire, closed, buf, shorts, delivered>>

Receive == RecvPart \/ RecvHead \/ RecvBody \/ RecvEof

Next == \/ \E m \in Msgs : Send(m)
        \/ Close
        \/ RecvPart
        \/ RecvHead
        \/ RecvBody
        \/ RecvEof

\* The reader thread is always blocked in recv(), and the kernel returns
\* data that has arrived; the sender is a user and owes no progress.
Spec == Init /\ [][Next]_vars /\ WF_vars(Receive)
-----------------------------------------------------------------------------
Cells == 0..255 \cup Strs

TypeOK == /\ hosts \in HostOrders
          /\ sent \in Seq(Msgs) /\ Len(sent) <= MaxMsgs
          /\ wire \in Seq(Cells)
          /\ closed \in BOOLEAN
          /\ buf \in [1..HEAD + MaxBody -> Cells]
          /\ rpc \in {"head", "body", "failed"}
          /\ need \in 0..MaxBody
          /\ shorts \in 0..HEAD + MaxBody
          /\ delivered \in Seq([kind : Kinds, f : Seq(Nat)])

\* The bytes msg_send put on the wire for the i-th message sent.
SentLen(i) == HEAD + msg_body_size(sent[i].kind)
Unread(j) == SizeOf([i \in 1..Len(sent) - j |-> SentLen(j + i)])

RoundTrip == IsPrefix(delivered, sent)

\* The score of a user of a UCHANGE: the one field msg_body_conv leaves alone.
UnconvertedField(k, i) == k = UCHANGE /\ \E u \in 0..UCNT - 1 : i = UserField(u, 4)

(***************************************************************************)
(* Between hosts of any byte orders, every field msg_body_conv converts,   *)
(* and every char array and one-byte field, arrives with the value sent:  *)
(* the delivered messages match the sent ones in kind and in every field  *)
(* but the UCHANGE scores.  This covers the UCHANGE loop, whose bound is  *)
(* the count as it reads after conversion.                                 *)
(***************************************************************************)
PortableFieldsRoundTrip ==
  /\ Len(delivered) <= Len(sent)
  /\ \A n \in 1..Len(delivered) :
       /\ delivered[n].kind = sent[n].kind
       /\ \A i \in DOMAIN sent[n].f :
            ~UnconvertedField(sent[n].kind, i) => delivered[n].f[i] = sent[n].f[i]

(***************************************************************************)
(* Every message msg_send puts on the wire is eventually returned by       *)
(* msg_recv: the receiver neither rejects a well-formed message nor stops  *)
(* before the end of the stream.                                           *)
(***************************************************************************)
AllDelivered == \A n \in 1..MaxMsgs : Len(sent) >= n ~> Len(delivered) >= n
====
