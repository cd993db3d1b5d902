------------------------------- MODULE Server -------------------------------
(***************************************************************************)
(* The dispatcher of game_server (src/server/server.c): the only thread    *)
(* that reads the session registry (the tsearch trees user_by_id,          *)
(* user_by_fd and user_by_nick, and user_cnt) and the challenge table      *)
(* ch_by_id.  Each step is one queue entry taken by pkt_handler and the    *)
(* whole handler it runs: handle_join, handle_quit, handle_challenge,      *)
(* handle_turn, handle_disconnect, with judge_turn and quit_user inlined.  *)
(* The incoming queue only orders the entries; since every connection has *)
(* its own receiver thread, any interleaving of the connections' requests *)
(* can reach the dispatcher, which is what choosing the next request with *)
(* \E gives.  Error replies that change no state are stuttering steps.    *)
(*                                                                         *)
(* Requests come from clients.  With Honest = TRUE a client builds them   *)
(* as src/client/client.c does, from what the server has told it (its own *)
(* id and key, every challenge relayed to it, every battle it was told    *)
(* has started); a TURN carries gs.chid, which CHALLENGE_R ME_OK and also *)
(* the popup of a relayed challenge set (client.c:946), and is sent only  *)
(* while the user is UBATTLING (client.c:1224).  With Honest =             *)
(* FALSE a client sends any request that carries a key it holds: the      *)
(* secret keys stop only impersonation.                                    *)
(***************************************************************************)
EXTENDS Integers, Sequences, FiniteSets, Functions, TLC

CONSTANTS
    FirstFd,       \* the first descriptor accept() returns to a client
    NumConns,      \* number of connections accepted over the run
    Nicks,         \* legal nicknames, equal iff equal under strncasecmp
    BadNick,       \* a nickname that is_nickstr rejects
    IdMod,         \* UINT16_MAX: user ids are fd % UINT16_MAX
    MaxUserCount,  \* MAX_USER_COUNT
    ChIds,         \* challenge ids random() % UINT16_MAX can return
    MAXHP,         \* MAXHP
    Damages,       \* random() % 5 + 1
    Bonuses,       \* random() % 4 + 1
    Penalties,     \* random() % 4
    MaxSessions,   \* bound: successful joins over the run
    MaxChallenges, \* bound: challenges created over the run
    MaxTurn,       \* bound: turn_no of a challenge
    Honest,        \* requests are built as the shipped client builds them
    FreshChIds,    \* add_challenge never returns the id of a deleted challenge
    Picks,         \* the battle_act_t values the clients send in a TURN
    Nil

ASSUME /\ FirstFd \in Nat /\ NumConns \in Nat \ {0}
       /\ BadNick \notin Nicks
       /\ IdMod \in Nat \ {0} /\ MaxUserCount \in Nat \ {0}
       /\ ChIds \subseteq Nat \ {0}
       /\ MAXHP \in Nat \ {0}
       /\ Damages \subseteq Nat \ {0} /\ Bonuses \subseteq Nat
       /\ Penalties \subseteq Nat
       /\ MaxTurn \in Nat \ {0}
       /\ Honest \in BOOLEAN /\ FreshChIds \in BOOLEAN
       /\ Picks \subseteq {"B_ROCK", "B_PAPER", "B_SCISSORS"} /\ Picks # {}

Fds     == FirstFd .. (FirstFd + NumConns - 1)
Handles == 1 .. MaxSessions   \* user_info_t objects; the handle is the key
ReqIds  == {fd % IdMod : fd \in Fds}

\* challenge_action_t
C_START  == 0
C_REJECT == 1
C_ACCEPT == 2
C_CANCEL == 3

Acts == {"B_ROCK", "B_PAPER", "B_SCISSORS"}
NoForce == -1   \* judge_turn(ch, -1): no side is forced to lose

VARIABLES
    conn,      \* fd -> "unused" | "open" | "closed" (EDISCONN handled)
    sess,      \* handle -> user_info_t, the users reachable from the trees
    byId,      \* user_by_id:   id -> handle
    byFd,      \* user_by_fd:   fd -> handle
    byNick,    \* user_by_nick: nickname -> handle
    userCnt,   \* user_cnt
    chs,       \* ch_by_id: challenge id -> challenge_t
    nextSess,  \* next user_info_t handle
    chCount,   \* challenges created so far
    usedChIds, \* ids add_challenge has returned so far
    loggedIn,  \* fds whose client received JOIN_R with ME_OK
    offered,   \* fd -> <<chid, id1>> of every CHALLENGE relayed to that client
    told,      \* fd -> chid of every CHALLENGE_R ME_OK sent to that client
    crash      \* "none" | "assert" (assert failed) | "segv" (NULL dereference)

vars == <<conn, sess, byId, byFd, byNick, userCnt, chs, nextSess, chCount,
          usedChIds, loggedIn, offered, told, crash>>

UserStates == {"UOFFLINE", "UONLINE", "UBATTLING"}

User == [nick : Nicks \cup {BadNick}, id : ReqIds, fd : Fds, key : Handles,
         state : UserStates, score : Int, chid : ChIds \cup {0}]

Challenge == [user1 : ReqIds, user2 : ReqIds, turn : 0 .. MaxTurn,
              acted1 : BOOLEAN, acted2 : BOOLEAN, act1 : Acts, act2 : Acts,
              hp1 : 1 .. MAXHP, hp2 : 1 .. MAXHP, state : {"ASKING", "STARTED"}]

-----------------------------------------------------------------------------
(* Trees as partial functions.                                             *)

\* deref_or_null(tfind(key, tree, cmp))
Find(f, k) == IF k \in DOMAIN f THEN f[k] ELSE Nil

\* tdelete(key, tree, cmp)
Del(f, k) == Restrict(f, DOMAIN f \ {k})

\* get_turn_result(a, b)
Beats == {<<"B_ROCK", "B_SCISSORS">>, <<"B_PAPER", "B_ROCK">>,
          <<"B_SCISSORS", "B_PAPER">>}
TurnResult(a, b) == IF <<a, b>> \in Beats THEN "TR_WIN"
                    ELSE IF <<b, a>> \in Beats THEN "TR_LOSE"
                    ELSE "TR_EVEN"

\* The random() draws of one judge_turn call.
Draws == [damage : Damages, bonus : Bonuses, penalty : Penalties]

(* The messages a handler sends, per descriptor in the order msg_send is  *)
(* called.  Server's own actions leave them out; Session delivers them.    *)
NoOut == [f \in Fds |-> <<>>]

\* msg_send(fd, m) for every fd in fds
Post(out, fds, m) == [f \in Fds |-> IF f \in fds THEN Append(out[f], m) ELSE out[f]]

\* A UCHANGE entry: what uchange_add_or_create copies from a user.
Info(u) == [id |-> u.id, state |-> u.state, score |-> u.score]

TurnR(fin) == [t |-> "TURN_R", fin |-> fin]

(* The part of the state judge_turn and quit_user rewrite, as a record so  *)
(* that the calls can be composed in the order the code makes them.       *)
Cur == [sess |-> sess, byId |-> byId, byFd |-> byFd, byNick |-> byNick,
        userCnt |-> userCnt, chs |-> chs, crash |-> crash, out |-> NoOut]

(* broadcast_user_changes(usr1, usr2): one UCHANGE holding the users hs,   *)
(* sent to every user user_by_id holds.                                     *)
Broadcast(s, hs) ==
    [s EXCEPT !.out = Post(@, {s.sess[h].fd : h \in DOMAIN s.sess},
                           [t |-> "UCHANGE", us |-> {Info(s.sess[h]) : h \in hs}])]

Apply(s) == /\ sess' = s.sess /\ byId' = s.byId /\ byFd' = s.byFd
            /\ byNick' = s.byNick /\ userCnt' = s.userCnt /\ chs' = s.chs
            /\ crash' = s.crash

\* Mutant of EndBattle: the states are left UBATTLING.
EndBattleNoReset(us, h1, h2, winner, r) ==
    LET won1 == us[h1].id = winner
    IN [us EXCEPT
          ![h1].score = IF won1 THEN @ + r.bonus ELSE @ - r.penalty,
          ![h2].score = IF won1 THEN @ - r.penalty ELSE @ + r.bonus]

\* The end of a battle in judge_turn: scores, then states back to UONLINE.
EndBattle(us, h1, h2, winner, r) ==
    LET won1 == us[h1].id = winner
        Back(st) == IF st = "UBATTLING" THEN "UONLINE" ELSE st
    IN [us EXCEPT
          ![h1].score = IF won1 THEN @ + r.bonus ELSE @ - r.penalty,
          ![h2].score = IF won1 THEN @ - r.penalty ELSE @ + r.bonus,
          ![h1].state = Back(@),
          ![h2].state = Back(@)]

\* Mutants of Winner: the forced loser's opponent swapped, and a knockout
\* tested with < instead of <=.
WinnerSwapped(ch, force, hp1, hp2) ==
    CASE force = ch.user1 -> ch.user1
      [] force = ch.user2 -> ch.user2
      [] hp1 <= 0         -> ch.user2
      [] hp2 <= 0         -> ch.user1
      [] OTHER            -> Nil

WinnerHpLt(ch, force, hp1, hp2) ==
    CASE force = ch.user1 -> ch.user2
      [] force = ch.user2 -> ch.user1
      [] hp1 < 0          -> ch.user2
      [] hp2 < 0          -> ch.user1
      [] OTHER            -> Nil

\* The winner judge_turn decides, Nil while the battle goes on: the forced
\* loser's opponent, else the side that still has hp.
Winner(ch, force, hp1, hp2) ==
    CASE force = ch.user1 -> ch.user2
      [] force = ch.user2 -> ch.user1
      [] hp1 <= 0         -> ch.user2
      [] hp2 <= 0         -> ch.user1
      [] OTHER            -> Nil

\* judge_turn(ch, force_lose_id)
JudgeTurn(s, c, force, r) ==
    LET ch     == s.chs[c]
        boot   == ch.turn = 0
        both   == ~boot /\ ch.acted1 /\ ch.acted2
        res    == TurnResult(ch.act1, ch.act2)
        hp1    == IF both /\ res = "TR_LOSE" THEN ch.hp1 - r.damage ELSE ch.hp1
        hp2    == IF both /\ res = "TR_WIN"  THEN ch.hp2 - r.damage ELSE ch.hp2
        winner == Winner(ch, force, hp1, hp2)
        h1     == Find(s.byId, ch.user1)
        h2     == Find(s.byId, ch.user2)
        next   == [ch EXCEPT !.turn = IF boot THEN 1 ELSE @ + 1,
                             !.acted1 = FALSE, !.acted2 = FALSE,
                             !.hp1 = hp1, !.hp2 = hp2]
        fds    == {s.sess[h1].fd, s.sess[h2].fd}
    IN CASE h1 = Nil \/ h2 = Nil -> [s EXCEPT !.crash = "segv"]
         [] winner = Nil -> [s EXCEPT !.chs[c] = next,
                                      !.out = Post(@, fds, TurnR(FALSE))]
         [] OTHER -> Broadcast([s EXCEPT !.sess = EndBattle(@, h1, h2, winner, r),
                                         !.chs = Del(@, c),
                                         !.out = Post(@, fds, TurnR(TRUE))],
                               {h1, h2})

\* Mutant of DelUser: the user_by_fd entry is left behind.
DelUserKeepFd(s, h) ==
    LET id == s.sess[h].id
        v  == s.byId[id]
    IN CASE id \notin DOMAIN s.byId              -> s
         [] s.sess[v].nick \notin DOMAIN s.byNick -> [s EXCEPT !.crash = "assert"]
         [] OTHER -> [s EXCEPT !.byId = Del(@, id),
                               !.byNick = Del(@, s.sess[v].nick),
                               !.sess = Del(@, v),
                               !.userCnt = @ - 1]

\* user_del_and_destroy(user)
DelUser(s, h) ==
    LET id == s.sess[h].id
        v  == s.byId[id]
    IN CASE id \notin DOMAIN s.byId              -> s
         [] s.sess[v].nick \notin DOMAIN s.byNick -> [s EXCEPT !.crash = "assert"]
         [] OTHER -> [s EXCEPT !.byId = Del(@, id),
                               !.byNick = Del(@, s.sess[v].nick),
                               !.byFd = Del(@, s.sess[v].fd),
                               !.sess = Del(@, v),
                               !.userCnt = @ - 1]

\* Mutant of QuitUser: the user is unregistered before its battle is judged.
QuitUserDelFirst(s, h, r) ==
    LET u  == s.sess[h]
        s1 == DelUser(Broadcast([s EXCEPT !.sess[h].state = "UOFFLINE"], {h}), h)
    IN IF u.state = "UBATTLING" /\ u.chid \in DOMAIN s1.chs /\ s1.crash = "none"
       THEN JudgeTurn(s1, u.chid, u.id, r) ELSE s1

\* quit_user(user)
QuitUser(s, h, r) ==
    LET u  == s.sess[h]
        s1 == IF u.state = "UBATTLING" /\ u.chid \in DOMAIN s.chs
              THEN JudgeTurn(s, u.chid, u.id, r) ELSE s
    IN IF s1.crash # "none" THEN s1
       ELSE DelUser(Broadcast([s1 EXCEPT !.sess[h].state = "UOFFLINE"], {h}), h)

-----------------------------------------------------------------------------
(* What a client on fd can send.                                           *)

\* The sessions whose key the client on fd received in a JOIN_R.
Own(fd) == {h \in DOMAIN sess : sess[h].fd = fd}

(* A request is handled only while its connection is served and the      *)
(* process has not aborted.                                                *)
Serving(fd) == crash = "none" /\ conn[fd] = "open"

Init ==
    /\ conn = [fd \in Fds |-> "unused"]
    /\ sess = [h \in {} |-> Nil]
    /\ byId = [i \in {} |-> Nil]
    /\ byFd = [f \in {} |-> Nil]
    /\ byNick = [n \in {} |-> Nil]
    /\ userCnt = 0
    /\ chs = [c \in {} |-> Nil]
    /\ nextSess = 1
    /\ chCount = 0
    /\ usedChIds = {}
    /\ loggedIn = {}
    /\ offered = [fd \in Fds |-> {}]
    /\ told = [fd \in Fds |-> {}]
    /\ crash = "none"

-----------------------------------------------------------------------------
(* main(): accept() returns the lowest free descriptor, and since no       *)
(* descriptor is ever closed they come in increasing order; serve() starts. *)
AcceptConn(fd) ==
    /\ crash = "none"
    /\ conn[fd] = "unused"
    /\ \A f \in Fds : f < fd => conn[f] # "unused"
    /\ conn' = [conn EXCEPT ![fd] = "open"]
    /\ UNCHANGED <<sess, byId, byFd, byNick, userCnt, chs, nextSess, chCount,
                   usedChIds, loggedIn, offered, told, crash>>

(* The checks of user_add before it inserts anything, in code order.  g   *)
(* is the uninitialised user->fd that tfind compares against user_by_fd    *)
(* for JOINTWICE; the id loop tests user->id, which is still 0.            *)
JoinErr(fd, nick, g) ==
    CASE userCnt >= MaxUserCount -> "TOOMANYUSER"
      [] g \in DOMAIN byFd       -> "JOINTWICE"
      [] nick \in DOMAIN byNick  -> "DUPNICK"
      [] 0 \in DOMAIN byId       -> "ME_OTHER"
      [] OTHER                   -> "ME_OK"

(* The insertions of user_add for the user object h with id fd % UINT16_MAX *)
(* and a fresh key; each tsearch asserts that its key was new.              *)
UserAdd(s, fd, nick, h) ==
    LET id == fd % IdMod
    IN IF id \in DOMAIN s.byId \/ fd \in DOMAIN s.byFd \/ nick \in DOMAIN s.byNick
       THEN [s EXCEPT !.crash = "assert"]
       ELSE [s EXCEPT !.sess = (h :> [nick |-> nick, id |-> id, fd |-> fd,
                                      key |-> h, state |-> "UONLINE",
                                      score |-> 0, chid |-> 0]) @@ @,
                      !.byId = (id :> h) @@ @,
                      !.byFd = (fd :> h) @@ @,
                      !.byNick = (nick :> h) @@ @,
                      !.userCnt = @ + 1]

\* handle_join -> user_add, when it succeeds or aborts.
HandleJoin(fd, nick, g) ==
    LET s1 == UserAdd(Cur, fd, nick, nextSess)
        ok == s1.crash = "none"
    IN /\ JoinErr(fd, nick, g) = "ME_OK"
       /\ ok => nextSess \in Handles
       /\ Apply(s1)
       /\ nextSess' = IF ok THEN nextSess + 1 ELSE nextSess
       /\ loggedIn' = IF ok THEN loggedIn \cup {fd} ELSE loggedIn
       /\ UNCHANGED <<conn, chCount, usedChIds, offered, told>>

\* handle_quit: the id must exist and the key match.
HandleQuit(fd, id, k) ==
    LET h == Find(byId, id)
    IN /\ h # Nil
       /\ sess[h].key = k
       /\ \E r \in Draws : Apply(QuitUser(Cur, h, r))
       /\ UNCHANGED <<conn, nextSess, chCount, usedChIds, loggedIn, offered, told>>

\* serve() pushed EDISCONN after its last message; handle_disconnect.
HandleDisconnect(fd) ==
    LET h == Find(byFd, fd)
    IN /\ Serving(fd)
       /\ conn' = [conn EXCEPT ![fd] = "closed"]
       /\ IF h = Nil THEN UNCHANGED <<sess, byId, byFd, byNick, userCnt, chs, crash>>
          ELSE \E r \in Draws : Apply(QuitUser(Cur, h, r))
       /\ UNCHANGED <<nextSess, chCount, usedChIds, loggedIn, offered, told>>

(* handle_challenge, up to the action switch: both ids must name users     *)
(* (else NXID) and the key must be usr1's for START and CANCEL, usr2's for *)
(* ACCEPT and REJECT (else ICKEY).  Out-of-range actions only get INVARG.  *)
KeyOk(h1, h2, k, a) ==
    /\ h1 # Nil /\ h2 # Nil
    /\ k = IF a \in {C_START, C_CANCEL} THEN sess[h1].key ELSE sess[h2].key

\* The ids add_challenge can draw: not in ch_by_id (16 misses assert(0)).
FreeChIds == {c \in ChIds \ DOMAIN chs : FreshChIds => c \notin usedChIds}

\* The challenge handle_challenge creates for C_START.
NewChallenge(id1, id2) ==
    [user1 |-> id1, user2 |-> id2, turn |-> 0, acted1 |-> FALSE, acted2 |-> FALSE,
     act1 |-> "B_ROCK", act2 |-> "B_ROCK", hp1 |-> MAXHP, hp2 |-> MAXHP,
     state |-> "ASKING"]

(* C_START: both users UONLINE (else ENGAGED), not the same user (else     *)
(* CHLSELF); add_challenge draws an unused id, asserting after 16 misses;  *)
(* usr1->chid is set and the request is relayed to usr2 with the new id.  *)
StartChallenge(fd, id1, id2, k) ==
    LET h1 == Find(byId, id1)
        h2 == Find(byId, id2)
        Free == FreeChIds
    IN /\ KeyOk(h1, h2, k, C_START)
       /\ sess[h1].state = "UONLINE" /\ sess[h2].state = "UONLINE"
       /\ id1 # id2
       /\ chCount < MaxChallenges
       /\ IF Free = {}
          THEN /\ crash' = "assert"
               /\ UNCHANGED <<sess, chs, chCount, usedChIds, offered>>
          ELSE \E c \in Free :
                  /\ chs' = (c :> NewChallenge(id1, id2)) @@ chs
                  /\ sess' = [sess EXCEPT ![h1].chid = c]
                  /\ chCount' = chCount + 1
                  /\ usedChIds' = usedChIds \cup {c}
                  /\ offered' = [offered EXCEPT ![sess[h2].fd] = @ \cup {<<c, id1>>}]
                  /\ UNCHANGED crash
       /\ UNCHANGED <<conn, byId, byFd, byNick, userCnt, nextSess, loggedIn, told>>

(* C_CANCEL: the challenge is usr1->chid, not the request's chid; it is    *)
(* deleted if usr1 is UONLINE, it is ASKING and usr1 created it.  The      *)
(* target is sent CANCELLED.                                               *)
Cancels(h1, id1) ==
    LET c == sess[h1].chid
    IN /\ sess[h1].state = "UONLINE"
       /\ c \in DOMAIN chs
       /\ chs[c].state = "ASKING"
       /\ chs[c].user1 = id1

CancelChallenge(fd, id1, id2, k) ==
    LET h1 == Find(byId, id1)
        h2 == Find(byId, id2)
        c  == sess[h1].chid
    IN /\ KeyOk(h1, h2, k, C_CANCEL)
       /\ Cancels(h1, id1)
       /\ sess' = [sess EXCEPT ![h1].chid = 0]
       /\ chs' = Del(chs, c)
       /\ UNCHANGED <<conn, byId, byFd, byNick, userCnt, nextSess, chCount,
                      usedChIds, loggedIn, offered, told, crash>>

\* Mutant of StartBattle: only usr1's chid is set.
StartBattleOneChid(s, c, h1, h2) ==
    [s EXCEPT !.chs[c].state = "STARTED", !.chs[c].turn = 0,
              !.sess[h1].state = "UBATTLING", !.sess[h2].state = "UBATTLING",
              !.sess[h1].chid = c]

\* The accepted challenge starts and both users battle in it.
StartBattle(s, c, h1, h2) ==
    [s EXCEPT !.chs[c].state = "STARTED", !.chs[c].turn = 0,
              !.sess[h1].state = "UBATTLING", !.sess[h2].state = "UBATTLING",
              !.sess[h1].chid = c, !.sess[h2].chid = c]

(* C_ACCEPT on an existing challenge (else NXCHID) that is not STARTED     *)
(* (else ignored): if both users are UONLINE (else ENGAGED) the challenge  *)
(* starts, both users battle in it, both are sent CHALLENGE_R ME_OK, and   *)
(* judge_turn(ch, -1) runs from turn_no = 0 to send the first TURN_R.      *)
AcceptChallenge(fd, id1, id2, k, c) ==
    LET h1 == Find(byId, id1)
        h2 == Find(byId, id2)
        s0 == StartBattle(Cur, c, h1, h2)
    IN /\ KeyOk(h1, h2, k, C_ACCEPT)
       /\ c \in DOMAIN chs
       /\ chs[c].state = "ASKING"
       /\ sess[h1].state = "UONLINE" /\ sess[h2].state = "UONLINE"
       /\ \E r \in Draws : Apply(JudgeTurn(s0, c, NoForce, r))
       /\ told' = [told EXCEPT ![sess[h1].fd] = @ \cup {c},
                               ![sess[h2].fd] = @ \cup {c}]
       /\ UNCHANGED <<conn, nextSess, chCount, usedChIds, loggedIn, offered>>

(* C_REJECT on an existing ASKING challenge whose target is usr2: it is    *)
(* deleted and usr1 is sent REJECTED.                                      *)
RejectChallenge(fd, id1, id2, k, c) ==
    LET h1 == Find(byId, id1)
        h2 == Find(byId, id2)
    IN /\ KeyOk(h1, h2, k, C_REJECT)
       /\ c \in DOMAIN chs
       /\ chs[c].state = "ASKING"
       /\ chs[c].user2 = id2
       /\ chs' = Del(chs, c)
       /\ UNCHANGED <<conn, sess, byId, byFd, byNick, userCnt, nextSess,
                      chCount, usedChIds, loggedIn, offered, told, crash>>

(* handle_turn: the challenge and the user must exist and the key match;  *)
(* the action is recorded for the side the user is, if that side has not  *)
(* acted this turn, and judge_turn runs once both sides have acted.       *)
\* The move handle_turn records: for the side user is, if it has not acted.
Record(ch, user, act) ==
    CASE user = ch.user1 /\ ~ch.acted1 -> [ch EXCEPT !.act1 = act, !.acted1 = TRUE]
      [] user = ch.user2 /\ ~ch.acted2 -> [ch EXCEPT !.act2 = act, !.acted2 = TRUE]
      [] OTHER -> ch

HandleTurn(fd, user, c, k, act) ==
    LET h   == Find(byId, user)
        ch  == chs[c]
        rec == Record(ch, user, act)
        s0  == [Cur EXCEPT !.chs[c] = rec]
    IN /\ c \in DOMAIN chs
       /\ h # Nil
       /\ sess[h].key = k
       /\ rec # ch
       /\ ch.turn < MaxTurn
       /\ IF rec.acted1 /\ rec.acted2
          THEN \E r \in Draws : Apply(JudgeTurn(s0, c, NoForce, r))
          ELSE Apply(s0)
       /\ UNCHANGED <<conn, nextSess, chCount, usedChIds, loggedIn, offered, told>>

-----------------------------------------------------------------------------
(* The requests a client sends (see the module header).                    *)

Keys(fd) == {sess[h].key : h \in Own(fd)}

ClientJoin(fd) ==
    /\ Serving(fd)
    /\ IF Honest
       THEN /\ fd \notin loggedIn
            /\ \E nick \in Nicks, g \in Fds \cup {0} : HandleJoin(fd, nick, g)
       ELSE \E nick \in Nicks \cup {BadNick}, g \in Fds \cup {0} :
               HandleJoin(fd, nick, g)

ClientQuit(fd) ==
    /\ Serving(fd)
    /\ IF Honest THEN \E h \in Own(fd) : HandleQuit(fd, sess[h].id, sess[h].key)
       ELSE \E id \in ReqIds, k \in Keys(fd) : HandleQuit(fd, id, k)

ClientStart(fd) ==
    /\ Serving(fd)
    /\ IF Honest
       THEN \E h \in Own(fd), id2 \in ReqIds :
               id2 # sess[h].id /\ StartChallenge(fd, sess[h].id, id2, sess[h].key)
       ELSE \E id1, id2 \in ReqIds, k \in Keys(fd) : StartChallenge(fd, id1, id2, k)

\* The shipped client sends gs.opponent_id as id2 and 0 as chid.
ClientCancel(fd) ==
    /\ Serving(fd)
    /\ IF Honest
       THEN \E h \in Own(fd), id2 \in ReqIds :
               CancelChallenge(fd, sess[h].id, id2, sess[h].key)
       ELSE \E id1, id2 \in ReqIds, k \in Keys(fd) : CancelChallenge(fd, id1, id2, k)

ClientAccept(fd) ==
    /\ Serving(fd)
    /\ IF Honest
       THEN \E h \in Own(fd), o \in offered[fd] :
               AcceptChallenge(fd, o[2], sess[h].id, sess[h].key, o[1])
       ELSE \E id1, id2 \in ReqIds, k \in Keys(fd), c \in ChIds :
               AcceptChallenge(fd, id1, id2, k, c)

ClientReject(fd) ==
    /\ Serving(fd)
    /\ IF Honest
       THEN \E h \in Own(fd), o \in offered[fd] :
               RejectChallenge(fd, o[2], sess[h].id, sess[h].key, o[1])
       ELSE \E id1, id2 \in ReqIds, k \in Keys(fd), c \in ChIds :
               RejectChallenge(fd, id1, id2, k, c)

ClientTurn(fd) ==
    /\ Serving(fd)
    /\ IF Honest
       THEN \E h \in Own(fd), c \in told[fd] \cup {o[1] : o \in offered[fd]},
                act \in Picks :
               sess[h].state = "UBATTLING" /\ HandleTurn(fd, sess[h].id, c, sess[h].key, act)
       ELSE \E user \in ReqIds, k \in Keys(fd), c \in ChIds, act \in Picks :
               HandleTurn(fd, user, c, k, act)

Next ==
    \E fd \in Fds :
        \/ AcceptConn(fd)
        \/ HandleDisconnect(fd)
        \/ ClientJoin(fd)
        \/ ClientQuit(fd)
        \/ ClientStart(fd)
        \/ ClientCancel(fd)
        \/ ClientAccept(fd)
        \/ ClientReject(fd)
        \/ ClientTurn(fd)

Spec == Init /\ [][Next]_vars

-----------------------------------------------------------------------------
TypeOK ==
    /\ conn \in [Fds -> {"unused", "open", "closed"}]
    /\ DOMAIN sess \subseteq Handles
    /\ \A h \in DOMAIN sess : sess[h] \in User
    /\ \A h \in DOMAIN sess : sess[h].score \in -(MaxChallenges * 3) .. (MaxChallenges * 4)
    /\ byId \in [DOMAIN byId -> DOMAIN sess] /\ DOMAIN byId \subseteq ReqIds
    /\ byFd \in [DOMAIN byFd -> DOMAIN sess] /\ DOMAIN byFd \subseteq Fds
    /\ byNick \in [DOMAIN byNick -> DOMAIN sess]
    /\ DOMAIN byNick \subseteq Nicks \cup {BadNick}
    /\ userCnt \in 0 .. MaxUserCount
    /\ DOMAIN chs \subseteq ChIds
    /\ \A c \in DOMAIN chs : chs[c] \in Challenge
    /\ nextSess \in 1 .. MaxSessions + 1
    /\ chCount \in 0 .. MaxChallenges
    /\ usedChIds \subseteq ChIds
    /\ loggedIn \subseteq Fds
    /\ offered \in [Fds -> SUBSET (ChIds \X ReqIds)]
    /\ told \in [Fds -> SUBSET ChIds]
    /\ crash \in {"none", "assert", "segv"}

-----------------------------------------------------------------------------
(* Safety.                                                                 *)

(* The server process never dies: no assert() in user_add, add_challenge   *)
(* or user_del_and_destroy fails, and judge_turn never sends to a user     *)
(* that tfind did not find.                                                *)
NoCrash == crash = "none"

(* The three trees and user_cnt that handle_join, quit_user and            *)
(* handle_disconnect maintain describe the same users: every user is      *)
(* reachable under its own id, fd and nickname and under nothing else, so *)
(* ids, descriptors and nicknames are unique among the users.              *)
RegistryConsistent ==
    /\ Range(byId) = DOMAIN sess
    /\ Range(byFd) = DOMAIN sess
    /\ Range(byNick) = DOMAIN sess
    /\ \A i \in DOMAIN byId : sess[byId[i]].id = i
    /\ \A f \in DOMAIN byFd : sess[byFd[f]].fd = f
    /\ \A n \in DOMAIN byNick : sess[byNick[n]].nick = n
    /\ userCnt = Cardinality(DOMAIN sess)

(* A UBATTLING user's chid names a STARTED challenge it takes part in, and *)
(* both users a STARTED challenge names exist, are UBATTLING and have it  *)
(* as their chid: accept, judge_turn and quit_user move user states and   *)
(* challenge states together.                                              *)
BattleConsistent ==
    /\ \A h \in DOMAIN sess : sess[h].state = "UBATTLING" =>
          LET c == sess[h].chid
          IN /\ c \in DOMAIN chs
             /\ chs[c].state = "STARTED"
             /\ sess[h].id \in {chs[c].user1, chs[c].user2}
    /\ \A c \in DOMAIN chs : chs[c].state = "STARTED" =>
          \A i \in {chs[c].user1, chs[c].user2} :
             /\ i \in DOMAIN byId
             /\ sess[byId[i]].state = "UBATTLING"
             /\ sess[byId[i]].chid = c

(* A user's score changes only in the step that ends a battle it fights:  *)
(* it leaves UBATTLING for UONLINE and its challenge is deleted.           *)
ScoreChangesOnlyWhenBattleEnds ==
    [][\A h \in DOMAIN sess \cap DOMAIN sess' :
         sess'[h].score # sess[h].score =>
            /\ sess[h].state = "UBATTLING"
            /\ sess'[h].state = "UONLINE"
            /\ sess[h].chid \in DOMAIN chs
            /\ sess[h].chid \notin DOMAIN chs']_<<sess, chs>>

(* A user that quits or disconnects in the middle of a battle forfeits   *)
(* it: in the same step its opponent gains score and is UONLINE again.     *)
ForfeitGoesToOpponent ==
    [][\A h \in DOMAIN sess \ DOMAIN sess' :
         /\ sess[h].state = "UBATTLING"
         /\ sess[h].chid \in DOMAIN chs
         => LET c == chs[sess[h].chid]
                o == IF c.user1 = sess[h].id THEN c.user2 ELSE c.user1
            IN /\ o \in DOMAIN byId
               /\ byId[o] \in DOMAIN sess'
               /\ sess'[byId[o]].score > sess[byId[o]].score
               /\ sess'[byId[o]].state = "UONLINE"]_<<sess, chs, byId>>

(* spec.md section 3: a challenge exists only while at least its           *)
(* challenger is known to the registry.                                    *)
ChallengerKnown == \A c \in DOMAIN chs : chs[c].user1 \in DOMAIN byId

====
