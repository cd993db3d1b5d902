------------------------------ MODULE Session ------------------------------
(***************************************************************************)
(* The shipped clients (src/client/client.c) and the server's dispatcher   *)
(* (src/server/server.c) talking over their connections.                   *)
(*                                                                         *)
(* Each connection is a client process: its UI thread (ui_login, then      *)
(* ui_main) and two io_worker threads.  What the UI thread sends goes      *)
(* through send_queue, the OUT worker and the socket to the server's       *)
(* receiver thread, and from there through the incoming queue to the      *)
(* dispatcher: a FIFO per connection, toSrv.  What the dispatcher sends    *)
(* goes through the socket, the IN worker and um_queue to the UI thread:   *)
(* a FIFO per connection, toCli.  The dispatcher takes the head of any     *)
(* connection's FIFO, as the receivers interleave in the incoming queue.  *)
(*                                                                         *)
(* The dispatcher's state and its record operators are Server's (Srv);     *)
(* here every handler runs whole, error replies included, and its sends    *)
(* are delivered.  A client process can be killed at any time; the server *)
(* then reads its remaining requests and EOF, and handles EDISCONN.        *)
(***************************************************************************)
EXTENDS Integers, Sequences, FiniteSets, Functions, TLC

CONSTANTS
    FirstFd, NumConns, Nicks, IdMod, MaxUserCount, ChIds, MAXHP,
    Damages, Bonuses, Penalties, FreshChIds, Nil,
    MaxStarts,   \* bound: C_START requests the clients send over the run
    MaxMoves,    \* bound: TURN requests the clients send over the run
    Picks,       \* the battle actions the users choose among
    MaxKills     \* bound: client processes killed over the run

VARIABLES
    conn, sess, byId, byFd, byNick, userCnt, chs, nextSess, usedChIds, crash,
    ui,       \* fd -> the client's UI: "idle" (not connected), "login"
              \*   (WAIT_INPUT), "wait" (WAIT_MSG), "main" (ui_main), "gone"
              \*   (ui_main returned), "dead" (process killed)
    gs,       \* fd -> the client's game_state_t
    waiting,  \* fd -> ui_main's waiting_for
    view,     \* fd -> ui_main's user_by_id: id -> [state, score]
    toSrv,    \* fd -> requests sent and not yet handled by the dispatcher
    toCli,    \* fd -> messages sent and not yet handled by the client's UI
    starts,   \* C_START requests sent so far
    moves     \* TURN requests sent so far

srvVars == <<conn, sess, byId, byFd, byNick, userCnt, chs, nextSess, usedChIds, crash>>
cliVars == <<ui, gs, waiting, view, starts, moves>>
vars == <<srvVars, cliVars, toSrv, toCli>>

Srv == INSTANCE Server WITH BadNick <- Nil, Honest <- TRUE,
                            MaxSessions <- NumConns, MaxChallenges <- MaxStarts,
                            MaxTurn <- MaxMoves, chCount <- 0, loggedIn <- {},
                            offered <- [f \in {} |-> {}], told <- [f \in {} |-> {}]

Fds == Srv!Fds
Find(f, k) == Srv!Find(f, k)
Reading == {"login", "wait", "main"}

-----------------------------------------------------------------------------
(* Messages.  A refusal (CHALLENGE_R with an error) carries only the error: *)
(* the client reads nothing else of it.  TURN_R carries only fin: the hp    *)
(* and turn_no it shows are display, and handle_turn ignores turn_no.       *)

JoinR(ok, id, key) == [t |-> "JOIN_R", ok |-> ok, id |-> id, key |-> key]
ChErr(err) == [t |-> "CHALLENGE_R", err |-> err]
ChOk(q, isId1) == [t |-> "CHALLENGE_R", err |-> "ME_OK", chid |-> q.chid,
                   id1 |-> q.id1, id2 |-> q.id2, isId1 |-> isId1]
Relay(c, q) == [t |-> "CHALLENGE", chid |-> c, id1 |-> q.id1, id2 |-> q.id2]
ChReq(a, c, id1, id2, k) == [t |-> "CHALLENGE", a |-> a, chid |-> c,
                             id1 |-> id1, id2 |-> id2, key |-> k]

\* A send to a client whose UI no longer reads (or that is dead) is lost.
Deliver(out) == [f \in Fds |-> IF ui[f] \in Reading THEN toCli[f] \o out[f]
                               ELSE toCli[f]]

\* msg_send(f, m) from the current handler
Reply(s, f, m) == [s EXCEPT !.out = Srv!Post(@, {f}, m)]

-----------------------------------------------------------------------------
(* The dispatcher: pkt_handler takes the next entry of connection f and   *)
(* runs its handler.                                                       *)

Takes(f) == /\ crash = "none" /\ conn[f] = "open" /\ toSrv[f] # <<>>

Req(f) == Head(toSrv[f])

\* The handler leaves the state s and its sends are delivered.
Handled(f, s) == /\ Srv!Apply(s)
                 /\ toCli' = Deliver(s.out)
                 /\ toSrv' = [toSrv EXCEPT ![f] = Tail(@)]

(* handle_join: a refusal is answered with its error; on success JOIN_R   *)
(* with the id and key, then every user's info (ALL_TO_ONE, the new user   *)
(* included), then the new user's info to every other user (MSG_TO_ALL).   *)
JoinOut(s, f, h) ==
    LET u == s.sess[h]
        o1 == Srv!Post(s.out, {f}, JoinR(TRUE, u.id, u.key))
        o2 == Srv!Post(o1, {f}, [t |-> "UCHANGE",
                                 us |-> {Srv!Info(s.sess[v]) : v \in DOMAIN s.sess}])
    IN [s EXCEPT !.out = Srv!Post(o2, {s.sess[v].fd : v \in DOMAIN s.sess} \ {f},
                                   [t |-> "UCHANGE", us |-> {Srv!Info(u)}])]

SrvJoin(f) ==
    LET q == Req(f)
        h == nextSess
        s1 == Srv!UserAdd(Srv!Cur, f, q.nick, h)
    IN /\ Takes(f) /\ q.t = "JOIN"
       /\ \E g \in Fds \cup {0} :
             CASE Srv!JoinErr(f, q.nick, g) # "ME_OK" ->
                     Handled(f, Reply(Srv!Cur, f, JoinR(FALSE, 0, 0)))
                       /\ UNCHANGED nextSess
               [] s1.crash # "none" -> Handled(f, s1) /\ UNCHANGED nextSess
               [] OTHER -> /\ h \in Srv!Handles
                           /\ Handled(f, JoinOut(s1, f, h))
                           /\ nextSess' = h + 1
       /\ UNCHANGED <<conn, usedChIds, cliVars>>

\* handle_quit: a QUIT with an unknown id or a wrong key is ignored.
SrvQuit(f) ==
    LET q == Req(f)
        h == Find(byId, q.id)
    IN /\ Takes(f) /\ q.t = "QUIT"
       /\ IF h # Nil /\ sess[h].key = q.key
          THEN \E r \in Srv!Draws : Handled(f, Srv!QuitUser(Srv!Cur, h, r))
          ELSE Handled(f, Srv!Cur)
       /\ UNCHANGED <<conn, nextSess, usedChIds, cliVars>>

\* serve() reached EOF after the killed client's last request: EDISCONN.
SrvDisconnect(f) ==
    LET h == Find(byFd, f)
    IN /\ crash = "none" /\ conn[f] = "open"
       /\ ui[f] = "dead" /\ toSrv[f] = <<>>
       /\ conn' = [conn EXCEPT ![f] = "closed"]
       /\ IF h = Nil THEN UNCHANGED <<sess, byId, byFd, byNick, userCnt, chs, crash, toCli>>
          ELSE \E r \in Srv!Draws :
                  LET s == Srv!QuitUser(Srv!Cur, h, r)
                  IN Srv!Apply(s) /\ toCli' = Deliver(s.out)
       /\ UNCHANGED <<nextSess, usedChIds, toSrv, cliVars>>

(* handle_challenge: an id naming no user is refused with NXID, a key that *)
(* is not usr1's (START, CANCEL) or usr2's (ACCEPT, REJECT) with ICKEY.   *)
Users(q) == <<Find(byId, q.id1), Find(byId, q.id2)>>

IsChallenge(f, a) == Req(f).t = "CHALLENGE" /\ Req(f).a = a

SrvChRefused(f) ==
    LET q == Req(f)
        u == Users(q)
    IN /\ Takes(f) /\ q.t = "CHALLENGE"
       /\ ~Srv!KeyOk(u[1], u[2], q.key, q.a)
       /\ Handled(f, Reply(Srv!Cur, f,
                           ChErr(IF u[1] = Nil \/ u[2] = Nil THEN "NXID" ELSE "ICKEY")))
       /\ UNCHANGED <<conn, nextSess, usedChIds, cliVars>>

(* C_START: ENGAGED unless both are UONLINE, CHLSELF for oneself; else     *)
(* add_challenge (assert(0) when no id is free), usr1->chid, and the       *)
(* request relayed to usr2 with the new chid.  No reply goes to usr1.      *)
SrvChStart(f) ==
    LET q == Req(f)
        u == Users(q)
    IN /\ Takes(f) /\ IsChallenge(f, Srv!C_START)
       /\ Srv!KeyOk(u[1], u[2], q.key, q.a)
       /\ CASE sess[u[1]].state # "UONLINE" \/ sess[u[2]].state # "UONLINE" ->
                 Handled(f, Reply(Srv!Cur, f, ChErr("ENGAGED"))) /\ UNCHANGED usedChIds
            [] q.id1 = q.id2 ->
                 Handled(f, Reply(Srv!Cur, f, ChErr("CHLSELF"))) /\ UNCHANGED usedChIds
            [] Srv!FreeChIds = {} ->
                 Handled(f, [Srv!Cur EXCEPT !.crash = "assert"]) /\ UNCHANGED usedChIds
            [] OTHER ->
                 \E c \in Srv!FreeChIds :
                    /\ Handled(f, Reply([Srv!Cur EXCEPT
                                           !.chs = (c :> Srv!NewChallenge(q.id1, q.id2)) @@ @,
                                           !.sess[u[1]].chid = c],
                                        sess[u[2]].fd, Relay(c, q)))
                    /\ usedChIds' = usedChIds \cup {c}
       /\ UNCHANGED <<conn, nextSess, cliVars>>

(* C_CANCEL withdraws usr1->chid (not the request's chid) if usr1 is       *)
(* UONLINE and it is usr1's ASKING challenge; its target, if still known,  *)
(* is sent CANCELLED.  Otherwise nothing happens and nothing is replied.   *)
SrvChCancel(f) ==
    LET q  == Req(f)
        u  == Users(q)
        c  == sess[u[1]].chid
        s1 == [Srv!Cur EXCEPT !.sess[u[1]].chid = 0, !.chs = Srv!Del(@, c)]
        h2 == Find(byId, chs[c].user2)
    IN /\ Takes(f) /\ IsChallenge(f, Srv!C_CANCEL)
       /\ Srv!KeyOk(u[1], u[2], q.key, q.a)
       /\ CASE ~Srv!Cancels(u[1], q.id1) -> Handled(f, Srv!Cur)
            [] h2 = Nil                  -> Handled(f, s1)
            [] OTHER -> Handled(f, Reply(s1, sess[h2].fd, ChErr("CANCELLED")))
       /\ UNCHANGED <<conn, nextSess, usedChIds, cliVars>>

(* C_ACCEPT and C_REJECT look up the request's chid: NXCHID if it is gone, *)
(* ignored if it has STARTED.  ACCEPT starts the battle if both users are  *)
(* UONLINE (else ENGAGED): the state broadcast, CHALLENGE_R ME_OK to usr1  *)
(* (is_id1) and usr2, and judge_turn(ch, -1) sending the first TURN_R.     *)
SrvChAccept(f) ==
    LET q  == Req(f)
        u  == Users(q)
        c  == q.chid
        s1 == Srv!Broadcast(Srv!StartBattle(Srv!Cur, c, u[1], u[2]), {u[1], u[2]})
        s2 == Reply(Reply(s1, sess[u[1]].fd, ChOk(q, TRUE)), sess[u[2]].fd, ChOk(q, FALSE))
    IN /\ Takes(f) /\ IsChallenge(f, Srv!C_ACCEPT)
       /\ Srv!KeyOk(u[1], u[2], q.key, q.a)
       /\ CASE c \notin DOMAIN chs -> Handled(f, Reply(Srv!Cur, f, ChErr("NXCHID")))
            [] chs[c].state = "STARTED" -> Handled(f, Srv!Cur)
            [] sess[u[1]].state = "UONLINE" /\ sess[u[2]].state = "UONLINE" ->
                  \E r \in Srv!Draws : Handled(f, Srv!JudgeTurn(s2, c, Srv!NoForce, r))
            [] OTHER -> Handled(f, Reply(Srv!Cur, f, ChErr("ENGAGED")))
       /\ UNCHANGED <<conn, nextSess, usedChIds, cliVars>>

\* C_REJECT deletes an ASKING challenge whose target is usr2, telling usr1.
SrvChReject(f) ==
    LET q  == Req(f)
        u  == Users(q)
        c  == q.chid
    IN /\ Takes(f) /\ IsChallenge(f, Srv!C_REJECT)
       /\ Srv!KeyOk(u[1], u[2], q.key, q.a)
       /\ CASE c \notin DOMAIN chs -> Handled(f, Reply(Srv!Cur, f, ChErr("NXCHID")))
            [] chs[c].state = "ASKING" /\ chs[c].user2 = q.id2 ->
                  Handled(f, Reply([Srv!Cur EXCEPT !.chs = Srv!Del(@, c)],
                                   sess[u[1]].fd, ChErr("REJECTED")))
            [] OTHER -> Handled(f, Srv!Cur)
       /\ UNCHANGED <<conn, nextSess, usedChIds, cliVars>>

(* handle_turn: ignored unless the challenge and the user exist and the   *)
(* key matches; the move is recorded for the user's side if that side has *)
(* not acted, and judge_turn runs once both sides have acted.             *)
SrvTurn(f) ==
    LET q   == Req(f)
        h   == Find(byId, q.user)
        rec == Srv!Record(chs[q.chid], q.user, q.act)
        s0  == [Srv!Cur EXCEPT !.chs[q.chid] = rec]
    IN /\ Takes(f) /\ q.t = "TURN"
       /\ IF q.chid \notin DOMAIN chs \/ h = Nil \/ sess[h].key # q.key
          THEN Handled(f, Srv!Cur)
          ELSE IF rec.acted1 /\ rec.acted2
               THEN \E r \in Srv!Draws : Handled(f, Srv!JudgeTurn(s0, q.chid, Srv!NoForce, r))
               ELSE Handled(f, s0)
       /\ UNCHANGED <<conn, nextSess, usedChIds, cliVars>>

-----------------------------------------------------------------------------
(* The clients.  Each step is one thing the UI thread does: one message    *)
(* taken from um_queue, or one key handled.                                *)

\* game_state_t after game_state_init, before ui_main copies in the JOIN_R.
NoGame == [id |-> 0, key |-> 0, state |-> "UOFFLINE", acted |-> TRUE, chid |-> 0, opp |-> 0]

Send(f, m) == toSrv' = [toSrv EXCEPT ![f] = Append(@, m)]

(* ui_login, WAIT_INPUT with a legal nickname and Enter: do_connect (the   *)
(* server's accept() returns the next descriptor) and the JOIN.            *)
CliConnect(f, nick) ==
    /\ crash = "none" /\ ui[f] = "idle"
    /\ \A g \in Fds : g < f => ui[g] # "idle"
    /\ conn' = [conn EXCEPT ![f] = "open"]
    /\ ui' = [ui EXCEPT ![f] = "wait"]
    /\ Send(f, [t |-> "JOIN", nick |-> nick])
    /\ UNCHANGED <<sess, byId, byFd, byNick, userCnt, chs, nextSess, usedChIds, crash,
                   gs, waiting, view, toCli, starts, moves>>

\* After a refused join the client is still connected: SEND_JOIN again.
CliRejoin(f, nick) ==
    /\ ui[f] = "login"
    /\ ui' = [ui EXCEPT ![f] = "wait"]
    /\ Send(f, [t |-> "JOIN", nick |-> nick])
    /\ UNCHANGED <<srvVars, gs, waiting, view, toCli, starts, moves>>

Msg(f) == Head(toCli[f])
Took(f) == toCli' = [toCli EXCEPT ![f] = Tail(@)]

(* WAIT_MSG: a JOIN_R with ME_OK enters ui_main, whose game_state_t has    *)
(* id and key from it and an uninitialised state and acted; a refusal goes *)
(* back to WAIT_INPUT; anything else is dropped.                           *)
CliJoinR(f) ==
    LET m == Msg(f)
    IN /\ ui[f] = "wait" /\ toCli[f] # <<>>
       /\ Took(f)
       /\ CASE m.t = "JOIN_R" /\ m.ok ->
                 \E st \in Srv!UserStates, a \in BOOLEAN :
                    /\ ui' = [ui EXCEPT ![f] = "main"]
                    /\ gs' = [gs EXCEPT ![f] = [NoGame EXCEPT !.id = m.id, !.key = m.key,
                                                              !.state = st, !.acted = a]]
                    /\ waiting' = [waiting EXCEPT ![f] = "W_NONE"]
                    /\ view' = [view EXCEPT ![f] = [i \in {} |-> Nil]]
            [] m.t = "JOIN_R" -> ui' = [ui EXCEPT ![f] = "login"] /\ UNCHANGED <<gs, waiting, view>>
            [] OTHER -> UNCHANGED <<ui, gs, waiting, view>>
       /\ UNCHANGED <<srvVars, toSrv, starts, moves>>

InMain(f, kind) == ui[f] = "main" /\ toCli[f] # <<>> /\ Msg(f).t = kind

\* TURN_R: a finished battle blocks further moves, a new turn allows one.
CliTurnR(f) ==
    /\ InMain(f, "TURN_R")
    /\ Took(f)
    /\ gs' = [gs EXCEPT ![f].acted = Msg(f).fin]
    /\ UNCHANGED <<srvVars, ui, waiting, view, toSrv, starts, moves>>

(* CHALLENGE relayed: shown (W_ACCEPT) if nothing else is, remembering its *)
(* chid and challenger; otherwise rejected at once.                        *)
CliChallenge(f) ==
    LET m == Msg(f)
    IN /\ InMain(f, "CHALLENGE")
       /\ Took(f)
       /\ IF waiting[f] = "W_NONE"
          THEN /\ waiting' = [waiting EXCEPT ![f] = "W_ACCEPT"]
               /\ gs' = [gs EXCEPT ![f].chid = m.chid, ![f].opp = m.id1]
               /\ UNCHANGED toSrv
          ELSE /\ Send(f, ChReq(Srv!C_REJECT, m.chid, m.id1, m.id2, gs[f].key))
               /\ UNCHANGED <<waiting, gs>>
       /\ UNCHANGED <<srvVars, ui, view, starts, moves>>

(* CHALLENGE_R: ME_OK starts the battle it names (opponent, chid, not yet  *)
(* allowed to move, UBATTLING); any error just closes the popup.           *)
CliChallengeR(f) ==
    LET m == Msg(f)
    IN /\ InMain(f, "CHALLENGE_R")
       /\ Took(f)
       /\ waiting' = [waiting EXCEPT ![f] = "W_NONE"]
       /\ IF m.err = "ME_OK"
          THEN gs' = [gs EXCEPT ![f].opp = IF m.isId1 THEN m.id2 ELSE m.id1,
                                ![f].acted = TRUE, ![f].chid = m.chid,
                                ![f].state = "UBATTLING"]
          ELSE UNCHANGED gs
       /\ UNCHANGED <<srvVars, ui, view, toSrv, starts, moves>>

(* The frame of ui_main is gone: its game_state_t, waiting_for and        *)
(* user_by_id, and the um_queue nobody reads any more.                     *)
Forget(f) ==
    /\ gs' = [gs EXCEPT ![f] = NoGame]
    /\ waiting' = [waiting EXCEPT ![f] = "W_NONE"]
    /\ view' = [view EXCEPT ![f] = [i \in {} |-> Nil]]
    /\ toCli' = [toCli EXCEPT ![f] = <<>>]

(* ui_main's "done": a QUIT is queued and ui_main returns; the messages    *)
(* still in um_queue are never read.                                       *)
Leave(f) ==
    /\ Send(f, [t |-> "QUIT", id |-> gs[f].id, key |-> gs[f].key])
    /\ ui' = [ui EXCEPT ![f] = "gone"]
    /\ Forget(f)

(* UCHANGE: news of oneself going UOFFLINE ends ui_main; otherwise one's   *)
(* own state is taken over and the user list updated: UOFFLINE users are   *)
(* removed, others added or overwritten.                                   *)
ViewOf(u) == [state |-> u.state, score |-> u.score]

\* Mutant of CliUChange: users going UOFFLINE are kept in the list.
CliUChangeKeepOffline(f) ==
    LET us  == Msg(f).us
        ids == DOMAIN view[f] \cup {u.id : u \in us}
        me  == {u \in us : u.id = gs[f].id}
    IN /\ InMain(f, "UCHANGE")
       /\ IF \E u \in me : u.state = "UOFFLINE"
          THEN Leave(f)
          ELSE /\ Took(f)
               /\ gs' = IF me = {} THEN gs
                        ELSE [gs EXCEPT ![f].state = (CHOOSE u \in me : TRUE).state]
               /\ view' = [view EXCEPT ![f] =
                             [i \in ids |-> IF i \in {u.id : u \in us}
                                            THEN ViewOf(CHOOSE u \in us : u.id = i)
                                            ELSE view[f][i]]]
               /\ UNCHANGED <<ui, toSrv, waiting>>
       /\ UNCHANGED <<srvVars, starts, moves>>

CliUChange(f) ==
    LET us  == Msg(f).us
        on  == {u \in us : u.state # "UOFFLINE"}
        ids == (DOMAIN view[f] \ {u.id : u \in us}) \cup {u.id : u \in on}
        me  == {u \in us : u.id = gs[f].id}
    IN /\ InMain(f, "UCHANGE")
       /\ IF \E u \in me : u.state = "UOFFLINE"
          THEN Leave(f)
          ELSE /\ Took(f)
               /\ gs' = IF me = {} THEN gs
                        ELSE [gs EXCEPT ![f].state = (CHOOSE u \in me : TRUE).state]
               /\ view' = [view EXCEPT ![f] =
                             [i \in ids |-> IF i \in {u.id : u \in on}
                                            THEN ViewOf(CHOOSE u \in on : u.id = i)
                                            ELSE view[f][i]]]
               /\ UNCHANGED <<ui, toSrv, waiting>>
       /\ UNCHANGED <<srvVars, starts, moves>>

-----------------------------------------------------------------------------
(* Keys.  While a popup is up (W_CANCEL, W_ACCEPT) keys answer it; the     *)
(* menus act only when none is.                                            *)

\* UC_CHL_USER on another user of the list: C_START, and the popup waits.
CliInvite(f, id2) ==
    /\ ui[f] = "main" /\ waiting[f] = "W_NONE"
    /\ id2 \in DOMAIN view[f] \ {gs[f].id}
    /\ starts < MaxStarts
    /\ Send(f, ChReq(Srv!C_START, 0, gs[f].id, id2, gs[f].key))
    /\ waiting' = [waiting EXCEPT ![f] = "W_CANCEL"]
    /\ starts' = starts + 1
    /\ UNCHANGED <<srvVars, ui, gs, view, toCli, moves>>

(* Any key while inviting: C_CANCEL with chid 0 and id2 = gs.opponent_id,  *)
(* which nothing on this path has set.                                     *)
CliCancel(f) ==
    /\ ui[f] = "main" /\ waiting[f] = "W_CANCEL"
    /\ Send(f, ChReq(Srv!C_CANCEL, 0, gs[f].id, gs[f].opp, gs[f].key))
    /\ waiting' = [waiting EXCEPT ![f] = "W_NONE"]
    /\ UNCHANGED <<srvVars, ui, gs, view, toCli, starts, moves>>

\* 'y' or 'n' on the invitation: C_ACCEPT or C_REJECT of gs.chid.
CliAnswer(f, a) ==
    /\ ui[f] = "main" /\ waiting[f] = "W_ACCEPT"
    /\ Send(f, ChReq(a, gs[f].chid, gs[f].opp, gs[f].id, gs[f].key))
    /\ waiting' = [waiting EXCEPT ![f] = "W_NONE"]
    /\ UNCHANGED <<srvVars, ui, gs, view, toCli, starts, moves>>

\* Mutant of CliAct: the request is built as make_msg_buf(TURN_R).
CliActTurnR(f, act) ==
    /\ ui[f] = "main" /\ waiting[f] = "W_NONE"
    /\ gs[f].state = "UBATTLING" /\ ~gs[f].acted
    /\ moves < MaxMoves
    /\ Send(f, [t |-> "TURN_R", chid |-> gs[f].chid, user |-> gs[f].id,
                key |-> gs[f].key, act |-> act])
    /\ gs' = [gs EXCEPT ![f].acted = TRUE]
    /\ moves' = moves + 1
    /\ UNCHANGED <<srvVars, ui, waiting, view, toCli, starts>>

\* UC_BATTLE_ACT: a TURN, only while UBATTLING and not yet acted this turn.
CliAct(f, act) ==
    /\ ui[f] = "main" /\ waiting[f] = "W_NONE"
    /\ gs[f].state = "UBATTLING" /\ ~gs[f].acted
    /\ moves < MaxMoves
    /\ Send(f, [t |-> "TURN", chid |-> gs[f].chid, user |-> gs[f].id,
                key |-> gs[f].key, act |-> act])
    /\ gs' = [gs EXCEPT ![f].acted = TRUE]
    /\ moves' = moves + 1
    /\ UNCHANGED <<srvVars, ui, waiting, view, toCli, starts>>

\* UC_QUIT
CliQuit(f) ==
    /\ ui[f] = "main" /\ waiting[f] = "W_NONE"
    /\ Leave(f)
    /\ UNCHANGED <<srvVars, starts, moves>>

(* The client process is killed: what it had not sent is lost, what it had *)
(* sent is still read by the server, followed by EOF.                     *)
CliKill(f) ==
    /\ ui[f] \in Reading \cup {"gone"}
    /\ Cardinality({g \in Fds : ui[g] = "dead"}) < MaxKills
    /\ ui' = [ui EXCEPT ![f] = "dead"]
    /\ Forget(f)
    /\ UNCHANGED <<srvVars, toSrv, starts, moves>>

-----------------------------------------------------------------------------
Init ==
    /\ conn = [f \in Fds |-> "unused"]
    /\ sess = [h \in {} |-> Nil] /\ byId = [i \in {} |-> Nil]
    /\ byFd = [f \in {} |-> Nil] /\ byNick = [n \in {} |-> Nil]
    /\ userCnt = 0 /\ chs = [c \in {} |-> Nil]
    /\ nextSess = 1 /\ usedChIds = {} /\ crash = "none"
    /\ ui = [f \in Fds |-> "idle"]
    /\ gs = [f \in Fds |-> NoGame]
    /\ waiting = [f \in Fds |-> "W_NONE"]
    /\ view = [f \in Fds |-> [i \in {} |-> Nil]]
    /\ toSrv = [f \in Fds |-> <<>>]
    /\ toCli = [f \in Fds |-> <<>>]
    /\ starts = 0
    /\ moves = 0

Next ==
    \E f \in Fds :
        \/ \E n \in Nicks : CliConnect(f, n)
        \/ \E n \in Nicks : CliRejoin(f, n)
        \/ CliJoinR(f)
        \/ CliTurnR(f)
        \/ CliChallenge(f)
        \/ CliChallengeR(f)
        \/ CliUChange(f)
        \/ \E i \in Srv!ReqIds : CliInvite(f, i)
        \/ CliCancel(f)
        \/ \E a \in {Srv!C_ACCEPT, Srv!C_REJECT} : CliAnswer(f, a)
        \/ \E a \in Picks : CliAct(f, a)
        \/ CliQuit(f)
        \/ CliKill(f)
        \/ SrvJoin(f)
        \/ SrvQuit(f)
        \/ SrvDisconnect(f)
        \/ SrvChRefused(f)
        \/ SrvChStart(f)
        \/ SrvChCancel(f)
        \/ SrvChAccept(f)
        \/ SrvChReject(f)
        \/ SrvTurn(f)

Spec == Init /\ [][Next]_vars

-----------------------------------------------------------------------------
SessionTypeOK ==
    /\ ui \in [Fds -> Reading \cup {"idle", "gone", "dead"}]
    /\ waiting \in [Fds -> {"W_NONE", "W_CANCEL", "W_ACCEPT"}]
    /\ \A f \in Fds : gs[f].state \in Srv!UserStates /\ gs[f].acted \in BOOLEAN
    /\ \A f \in Fds : \A i \in DOMAIN toSrv[f] :
          toSrv[f][i].t \in {"JOIN", "QUIT", "CHALLENGE", "TURN"}
    /\ \A f \in Fds : \A i \in DOMAIN toCli[f] :
          toCli[f][i].t \in {"JOIN_R", "UCHANGE", "CHALLENGE", "CHALLENGE_R", "TURN_R"}
    /\ starts \in 0 .. MaxStarts /\ moves \in 0 .. MaxMoves

\* Nothing is in flight between the clients and the dispatcher.
Quiescent == \A f \in Fds : toSrv[f] = <<>> /\ toCli[f] = <<>>

\* The other side of the battle c, for the user id.
Opponent(c, id) == IF chs[c].user1 = id THEN chs[c].user2 ELSE chs[c].user1

(* Once every request is handled and every message read, each client in    *)
(* ui_main is a registered user and agrees with the server: on its own     *)
(* state, on the user list (ids, states, scores) built from the UCHANGEs    *)
(* of handle_join, broadcast_user_change and judge_turn, and, in a battle,  *)
(* on its chid and its opponent (from CHALLENGE_R).                         *)
ViewsAgree ==
    crash = "none" /\ Quiescent =>
      \A f \in Fds : ui[f] = "main" =>
        LET h == Find(byFd, f)
        IN /\ h # Nil /\ sess[h].id = gs[f].id
           /\ gs[f].state = sess[h].state
           /\ view[f] = [i \in DOMAIN byId |-> ViewOf(sess[byId[i]])]
           /\ sess[h].state = "UBATTLING" =>
                LET c == sess[h].chid
                IN /\ gs[f].chid = c
                   /\ gs[f].opp = Opponent(c, gs[f].id)

(* handle_turn does not look at the challenge's state: a move is recorded  *)
(* wherever the TURN's chid points.  With the shipped clients a move is    *)
(* only ever recorded in the STARTED battle that is the mover's own.       *)
MovesReachOwnBattle ==
    [][\A f \in Fds :
         LET q == Req(f)
             h == Find(byId, q.user)
         IN (Takes(f) /\ q.t = "TURN" /\ toSrv'[f] = Tail(toSrv[f])
             /\ q.chid \in DOMAIN chs /\ h # Nil /\ sess[h].key = q.key
             /\ Srv!Record(chs[q.chid], q.user, q.act) # chs[q.chid])
            => /\ chs[q.chid].state = "STARTED"
               /\ sess[h].chid = q.chid]_vars

(* The popup of UC_CHL_USER says any key cancels the invitation: once the  *)
(* dispatcher has handled that C_CANCEL, the requester has no ASKING       *)
(* challenge left.                                                          *)
CancelWithdraws ==
    [][\A f \in Fds :
         (Takes(f) /\ IsChallenge(f, Srv!C_CANCEL) /\ toSrv'[f] = Tail(toSrv[f]))
           => ~\E c \in DOMAIN chs' : chs'[c].state = "ASKING" /\ chs'[c].user1 = Req(f).id1]_vars

====
