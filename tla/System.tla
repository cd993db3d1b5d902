------------------------------ MODULE System ------------------------------
(***************************************************************************)
(* The threads of the server and of its clients, and the buffers between   *)
(* them, while the users chat (src/server/server.c, src/client/client.c).  *)
(*                                                                         *)
(* A line typed in ui_main goes: UI thread -> send_queue -> OUT io_worker  *)
(* -> socket -> serve -> incoming queue -> pkt_handler (handle_sendmsg),   *)
(* which msg_sends it to every user in id order -> socket -> IN io_worker  *)
(* -> um_queue -> UI thread, which prints it.  Every queue_t is a bounded  *)
(* FIFO whose queue_add blocks while it is full (QueueSpec, implemented by *)
(* Queue); every socket is a bounded FIFO whose send() blocks while the    *)
(* peer's receive buffer and its own send buffer are full.  A thread that  *)
(* has taken a message and is blocked passing it on holds it (the *Hold    *)
(* variables).                                                             *)
(*                                                                         *)
(* All clients have joined.  A client can stall: its process is stopped    *)
(* (SIGSTOP, Ctrl-Z) or its host stops answering, and none of its threads  *)
(* runs again.                                                             *)
(***************************************************************************)
EXTENDS Naturals, Sequences, FiniteSets, SequencesExt

CONSTANTS
    Clients,    \* the clients' descriptors; a user's id is fd % 65535
    QCap,       \* bound: capacity of a queue_t (QSIZE, MAX_QUEUE_SIZE)
    SockCap,    \* bound: messages a connection's socket buffers hold
    MaxLines,   \* bound: chat lines each user types
    MaxStalls   \* bound: clients that stall over the run

\* A thread holding nothing; lines are <<typist, n>> pairs.
None == <<>>

VARIABLES
    typed,     \* c -> lines the user has entered so far
    uiHold,    \* c -> the line ui_main is blocked adding to send_queue
    sendQ,     \* c -> send_queue
    outHold,   \* c -> the line the OUT worker is blocked sending
    up,        \* c -> socket, client to server
    rcvHold,   \* c -> the line serve(c) is blocked adding to the queue
    incoming,  \* incoming_queue: [fd, line]
    disp,      \* the line pkt_handler is broadcasting, and the users left
               \* to send it to (none: pkt_handler is in queue_take)
    down,      \* c -> socket, server to client
    inHold,    \* c -> the line the IN worker is blocked adding to um_queue
    umQ,       \* c -> um_queue
    shown,     \* c -> the lines printed in the chat window
    stalled    \* c -> the process has stopped

vars == <<typed, uiHold, sendQ, outHold, up, rcvHold, incoming, disp,
          down, inHold, umQ, shown, stalled>>

\* twalk_r(user_by_id, ...) visits the users in increasing id order.
WalkOrder == SetToSortSeq(Clients, <)

Running(c) == ~stalled[c]

\* Mutant: the full test is off by one.
HasRoomOffByOne(q, cap) == Len(q) <= cap

\* queue_add(q, e, true) / send(): blocks while the buffer is full.
HasRoom(q, cap) == Len(q) < cap

Init ==
    /\ typed = [c \in Clients |-> 0]
    /\ uiHold = [c \in Clients |-> None]
    /\ sendQ = [c \in Clients |-> <<>>]
    /\ outHold = [c \in Clients |-> None]
    /\ up = [c \in Clients |-> <<>>]
    /\ rcvHold = [c \in Clients |-> None]
    /\ incoming = <<>>
    /\ disp = [line |-> None, to |-> <<>>]
    /\ down = [c \in Clients |-> <<>>]
    /\ inHold = [c \in Clients |-> None]
    /\ umQ = [c \in Clients |-> <<>>]
    /\ shown = [c \in Clients |-> <<>>]
    /\ stalled = [c \in Clients |-> FALSE]

-----------------------------------------------------------------------------
(* The client.                                                              *)

(* UC_SENDMSG: the user presses Enter in the chat field; ui_main calls     *)
(* queue_add(send_queue, msg, true), which may block.                      *)
UiType(c) ==
    /\ Running(c) /\ uiHold[c] = None /\ typed[c] < MaxLines
    /\ typed' = [typed EXCEPT ![c] = @ + 1]
    /\ uiHold' = [uiHold EXCEPT ![c] = <<c, typed[c] + 1>>]
    /\ UNCHANGED <<sendQ, outHold, up, rcvHold, incoming, disp, down, inHold,
                   umQ, shown, stalled>>

\* queue_add returns once send_queue has room.
UiAdd(c) ==
    /\ Running(c) /\ uiHold[c] # None /\ HasRoom(sendQ[c], QCap)
    /\ sendQ' = [sendQ EXCEPT ![c] = Append(@, uiHold[c])]
    /\ uiHold' = [uiHold EXCEPT ![c] = None]
    /\ UNCHANGED <<typed, outHold, up, rcvHold, incoming, disp, down, inHold,
                   umQ, shown, stalled>>

\* Mutant: um_queue hands out its newest message first.
UiShowNewest(c) ==
    /\ Running(c) /\ uiHold[c] = None /\ umQ[c] # <<>>
    /\ shown' = [shown EXCEPT ![c] = Append(@, Last(umQ[c]))]
    /\ umQ' = [umQ EXCEPT ![c] = Front(@)]
    /\ UNCHANGED <<typed, uiHold, sendQ, outHold, up, rcvHold, incoming, disp,
                   down, inHold, stalled>>

(* The message loop of ui_main: queue_take(um_queue, &p, false) and print  *)
(* the SENDMSG.  The UI thread gets there only when not blocked in a       *)
(* queue_add.                                                              *)
UiShow(c) ==
    /\ Running(c) /\ uiHold[c] = None /\ umQ[c] # <<>>
    /\ shown' = [shown EXCEPT ![c] = Append(@, Head(umQ[c]))]
    /\ umQ' = [umQ EXCEPT ![c] = Tail(@)]
    /\ UNCHANGED <<typed, uiHold, sendQ, outHold, up, rcvHold, incoming, disp,
                   down, inHold, stalled>>

\* io_worker OUT: queue_take(send_queue, &p, true) ...
OutTake(c) ==
    /\ Running(c) /\ outHold[c] = None /\ sendQ[c] # <<>>
    /\ outHold' = [outHold EXCEPT ![c] = Head(sendQ[c])]
    /\ sendQ' = [sendQ EXCEPT ![c] = Tail(@)]
    /\ UNCHANGED <<typed, uiHold, up, rcvHold, incoming, disp, down, inHold,
                   umQ, shown, stalled>>

\* ... then msg_send(fd, msg), blocking in send() while the socket is full.
OutSend(c) ==
    /\ Running(c) /\ outHold[c] # None /\ HasRoom(up[c], SockCap)
    /\ up' = [up EXCEPT ![c] = Append(@, outHold[c])]
    /\ outHold' = [outHold EXCEPT ![c] = None]
    /\ UNCHANGED <<typed, uiHold, sendQ, rcvHold, incoming, disp, down, inHold,
                   umQ, shown, stalled>>

\* io_worker IN: msg_recv(fd, &msg, true) ...
InRecv(c) ==
    /\ Running(c) /\ inHold[c] = None /\ down[c] # <<>>
    /\ inHold' = [inHold EXCEPT ![c] = Head(down[c])]
    /\ down' = [down EXCEPT ![c] = Tail(@)]
    /\ UNCHANGED <<typed, uiHold, sendQ, outHold, up, rcvHold, incoming, disp,
                   umQ, shown, stalled>>

\* ... then queue_add(um_queue, ui_msg, true).
InAdd(c) ==
    /\ Running(c) /\ inHold[c] # None /\ HasRoom(umQ[c], QCap)
    /\ umQ' = [umQ EXCEPT ![c] = Append(@, inHold[c])]
    /\ inHold' = [inHold EXCEPT ![c] = None]
    /\ UNCHANGED <<typed, uiHold, sendQ, outHold, up, rcvHold, incoming, disp,
                   down, shown, stalled>>

\* The process stops for good: none of its three threads runs again.
Stall(c) ==
    /\ Running(c)
    /\ Cardinality({d \in Clients : stalled[d]}) < MaxStalls
    /\ stalled' = [stalled EXCEPT ![c] = TRUE]
    /\ UNCHANGED <<typed, uiHold, sendQ, outHold, up, rcvHold, incoming, disp,
                   down, inHold, umQ, shown>>

-----------------------------------------------------------------------------
(* The server.                                                              *)

\* serve(fd): msg_recv(fd, &buf, true) ...
SrvRecv(c) ==
    /\ rcvHold[c] = None /\ up[c] # <<>>
    /\ rcvHold' = [rcvHold EXCEPT ![c] = Head(up[c])]
    /\ up' = [up EXCEPT ![c] = Tail(@)]
    /\ UNCHANGED <<typed, uiHold, sendQ, outHold, incoming, disp, down, inHold,
                   umQ, shown, stalled>>

\* ... then queue_add(incoming_queue, pq, true).
SrvEnqueue(c) ==
    /\ rcvHold[c] # None /\ HasRoom(incoming, QCap)
    /\ incoming' = Append(incoming, [fd |-> c, line |-> rcvHold[c]])
    /\ rcvHold' = [rcvHold EXCEPT ![c] = None]
    /\ UNCHANGED <<typed, uiHold, sendQ, outHold, up, disp, down, inHold,
                   umQ, shown, stalled>>

(* pkt_handler: queue_take(incoming_queue, &p, true), then handle_sendmsg: *)
(* the sender's id and key check out, so the line goes to every user,      *)
(* the sender included (except_fd = -1).                                   *)
Dispatch ==
    /\ disp.to = <<>> /\ incoming # <<>>
    /\ disp' = [line |-> Head(incoming).line, to |-> WalkOrder]
    /\ incoming' = Tail(incoming)
    /\ UNCHANGED <<typed, uiHold, sendQ, outHold, up, rcvHold, down, inHold,
                   umQ, shown, stalled>>

(* send_user_info, MSG_TO_ALL: msg_send(user->fd, msg) for the next user,  *)
(* blocking in send() while that user's socket is full; after the last     *)
(* user pkt_handler goes back to the queue.                                *)
Broadcast ==
    LET d == Head(disp.to)
    IN /\ disp.to # <<>> /\ HasRoom(down[d], SockCap)
       /\ down' = [down EXCEPT ![d] = Append(@, disp.line)]
       /\ disp' = [disp EXCEPT !.to = Tail(@)]
       /\ UNCHANGED <<typed, uiHold, sendQ, outHold, up, rcvHold, incoming,
                      inHold, umQ, shown, stalled>>

-----------------------------------------------------------------------------
Next ==
    \/ \E c \in Clients :
          \/ UiType(c) \/ UiAdd(c) \/ UiShow(c) \/ OutTake(c) \/ OutSend(c)
          \/ InRecv(c) \/ InAdd(c) \/ Stall(c) \/ SrvRecv(c) \/ SrvEnqueue(c)
    \/ Dispatch
    \/ Broadcast

(* Every thread that can run gets to run (the scheduler is fair to         *)
(* runnable threads); a thread blocked in queue_add or send() is not       *)
(* enabled.  Nothing forces a user to type, nor a client to stall.         *)
Fairness ==
    /\ \A c \in Clients :
          /\ WF_vars(UiAdd(c)) /\ WF_vars(UiShow(c))
          /\ WF_vars(OutTake(c)) /\ WF_vars(OutSend(c))
          /\ WF_vars(InRecv(c)) /\ WF_vars(InAdd(c))
          /\ WF_vars(SrvRecv(c)) /\ WF_vars(SrvEnqueue(c))
    /\ WF_vars(Dispatch) /\ WF_vars(Broadcast)

Spec == Init /\ [][Next]_vars /\ Fairness

-----------------------------------------------------------------------------
TypeOK ==
    /\ typed \in [Clients -> 0 .. MaxLines]
    /\ \A c \in Clients : Len(sendQ[c]) <= QCap /\ Len(umQ[c]) <= QCap
                          /\ Len(up[c]) <= SockCap /\ Len(down[c]) <= SockCap
    /\ Len(incoming) <= QCap
    /\ stalled \in [Clients -> BOOLEAN]

(* There is one dispatcher, and every queue and socket is FIFO: any two    *)
(* chat lines that two windows both show appear in the same order in both. *)
SameOrder ==
    \A d1, d2 \in Clients :
        \A i, j \in 1 .. Len(shown[d1]) :
            i < j => \A k, l \in 1 .. Len(shown[d2]) :
                        shown[d2][k] = shown[d1][j] /\ shown[d2][l] = shown[d1][i]
                            => l < k
====
