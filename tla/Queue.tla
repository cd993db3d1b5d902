------------------------------- MODULE Queue -------------------------------
(***************************************************************************)
(* queue_t of src/lib/queue.c: a ring of cap slots (data, lo, hi, sz)      *)
(* behind one mutex, with condition variable conde ("not full") for       *)
(* queue_add and condf ("not empty") for queue_take.  Each operation       *)
(* locks, loops while its condition fails (failing at once if it must not *)
(* block), moves one entry, unlocks and only then signals the other side.  *)
(* Producers only call queue_add and consumers only queue_take, as the     *)
(* receiver threads and pkt_handler of the server, and the UI and the      *)
(* socket workers of the client, do.                                       *)
(*                                                                         *)
(* pthread_cond_wait releases the mutex and joins the wait set in one      *)
(* step; pthread_cond_signal takes one waiter, if any, out of it; a woken  *)
(* waiter must then get the mutex back before it re-tests its condition.   *)
(* With Spurious = TRUE a waiter may also leave the wait set by itself, as *)
(* POSIX allows.  A lock that is contended is modelled by Start and Relock *)
(* being disabled while another thread holds the mutex.                    *)
(***************************************************************************)
EXTENDS Naturals, FiniteSets

CONSTANTS
    Cap,        \* q->cap
    Vals,       \* the entries callers add
    Producers,  \* threads that call queue_add
    Consumers,  \* threads that call queue_take
    Blocking,   \* the values callers pass as block
    Spurious,   \* pthread_cond_wait may return without a signal
    Nil

ASSUME /\ Cap \in Nat \ {0}
       /\ Producers \cap Consumers = {}
       /\ Blocking \subseteq BOOLEAN /\ Blocking # {}
       /\ Spurious \in BOOLEAN

Threads == Producers \cup Consumers
Slots   == 0 .. Cap - 1

VARIABLES
    data,   \* q->data
    lo,     \* q->lo
    hi,     \* q->hi
    sz,     \* q->sz
    mutex,  \* the thread holding q->mutex, or Nil
    waitE,  \* threads blocked in pthread_cond_wait(&q->conde)
    waitF,  \* threads blocked in pthread_cond_wait(&q->condf)
    pc,     \* "idle" | "check" (holds the mutex at the while test)
            \* | "wait" (in pthread_cond_wait) | "signal" (unlocked, about to signal)
    arg,    \* the entry e a producer adds
    blk,    \* the block argument of the current call
    got,    \* *p of a consumer's last successful take
    res     \* the queue_err_t the current call returns

vars == <<data, lo, hi, sz, mutex, waitE, waitF, pc, arg, blk, got, res>>

\* The entries in the ring, head first.
Contents == [i \in 1 .. sz |-> data[(lo + i - 1) % Cap]]

Init ==
    /\ data = [i \in Slots |-> Nil]   \* xmalloc: never read before written
    /\ lo = 0 /\ hi = 0 /\ sz = 0
    /\ mutex = Nil
    /\ waitE = {} /\ waitF = {}
    /\ pc = [t \in Threads |-> "idle"]
    /\ arg = [t \in Threads |-> Nil]
    /\ blk = [t \in Threads |-> TRUE]
    /\ got = [t \in Threads |-> Nil]
    /\ res = [t \in Threads |-> "QOK"]

-----------------------------------------------------------------------------
(* queue_add(q, e, block) and queue_take(q, p, block) up to the while      *)
(* test: pthread_mutex_lock.                                               *)
Start(t, e, b) ==
    /\ pc[t] = "idle" /\ mutex = Nil
    /\ mutex' = t
    /\ pc' = [pc EXCEPT ![t] = "check"]
    /\ arg' = [arg EXCEPT ![t] = e]
    /\ blk' = [blk EXCEPT ![t] = b]
    /\ UNCHANGED <<data, lo, hi, sz, waitE, waitF, got, res>>

\* Mutant of AddCheck: the while test is q->cap < q->sz.
AddCheckOffByOne(t) ==
    /\ pc[t] = "check" /\ mutex = t /\ t \in Producers
    /\ IF sz > Cap
       THEN IF blk[t]
            THEN /\ waitE' = waitE \cup {t}
                 /\ pc' = [pc EXCEPT ![t] = "wait"]
                 /\ UNCHANGED <<data, hi, sz, res>>
            ELSE /\ res' = [res EXCEPT ![t] = "QFULL"]
                 /\ pc' = [pc EXCEPT ![t] = "signal"]
                 /\ UNCHANGED <<data, hi, sz, waitE>>
       ELSE /\ data' = [data EXCEPT ![hi % Cap] = arg[t]]
            /\ hi' = (hi + 1) % Cap
            /\ sz' = sz + 1
            /\ res' = [res EXCEPT ![t] = "QOK"]
            /\ pc' = [pc EXCEPT ![t] = "signal"]
            /\ UNCHANGED waitE
    /\ mutex' = Nil
    /\ UNCHANGED <<lo, waitF, arg, blk, got>>

(* The test of queue_add's while loop and what follows it, all under the   *)
(* mutex: a full queue fails with QFULL or waits on conde; otherwise e is  *)
(* stored at hi.  Both exits unlock.                                       *)
AddCheck(t) ==
    /\ pc[t] = "check" /\ mutex = t /\ t \in Producers
    /\ IF sz = Cap
       THEN IF blk[t]
            THEN /\ waitE' = waitE \cup {t}
                 /\ pc' = [pc EXCEPT ![t] = "wait"]
                 /\ UNCHANGED <<data, hi, sz, res>>
            ELSE /\ res' = [res EXCEPT ![t] = "QFULL"]
                 /\ pc' = [pc EXCEPT ![t] = "signal"]
                 /\ UNCHANGED <<data, hi, sz, waitE>>
       ELSE /\ data' = [data EXCEPT ![hi] = arg[t]]
            /\ hi' = (hi + 1) % Cap
            /\ sz' = sz + 1
            /\ res' = [res EXCEPT ![t] = "QOK"]
            /\ pc' = [pc EXCEPT ![t] = "signal"]
            /\ UNCHANGED waitE
    /\ mutex' = Nil
    /\ UNCHANGED <<lo, waitF, arg, blk, got>>

\* Mutants of TakeCheck: lo is not advanced; the entry at hi - 1 is taken.
TakeCheckNoAdvance(t) ==
    /\ pc[t] = "check" /\ mutex = t /\ t \in Consumers
    /\ IF sz = 0
       THEN IF blk[t]
            THEN /\ waitF' = waitF \cup {t}
                 /\ pc' = [pc EXCEPT ![t] = "wait"]
                 /\ UNCHANGED <<sz, got, res>>
            ELSE /\ res' = [res EXCEPT ![t] = "QEMPTY"]
                 /\ pc' = [pc EXCEPT ![t] = "signal"]
                 /\ UNCHANGED <<sz, got, waitF>>
       ELSE /\ got' = [got EXCEPT ![t] = data[lo]]
            /\ sz' = sz - 1
            /\ res' = [res EXCEPT ![t] = "QOK"]
            /\ pc' = [pc EXCEPT ![t] = "signal"]
            /\ UNCHANGED waitF
    /\ mutex' = Nil
    /\ UNCHANGED <<data, lo, hi, waitE, arg, blk>>

TakeCheckLifo(t) ==
    /\ pc[t] = "check" /\ mutex = t /\ t \in Consumers
    /\ IF sz = 0
       THEN IF blk[t]
            THEN /\ waitF' = waitF \cup {t}
                 /\ pc' = [pc EXCEPT ![t] = "wait"]
                 /\ UNCHANGED <<hi, sz, got, res>>
            ELSE /\ res' = [res EXCEPT ![t] = "QEMPTY"]
                 /\ pc' = [pc EXCEPT ![t] = "signal"]
                 /\ UNCHANGED <<hi, sz, got, waitF>>
       ELSE /\ got' = [got EXCEPT ![t] = data[(hi + Cap - 1) % Cap]]
            /\ hi' = (hi + Cap - 1) % Cap
            /\ sz' = sz - 1
            /\ res' = [res EXCEPT ![t] = "QOK"]
            /\ pc' = [pc EXCEPT ![t] = "signal"]
            /\ UNCHANGED waitF
    /\ mutex' = Nil
    /\ UNCHANGED <<data, lo, waitE, arg, blk>>

(* The same for queue_take: an empty queue fails with QEMPTY or waits on   *)
(* condf; otherwise *p is the entry at lo.                                 *)
TakeCheck(t) ==
    /\ pc[t] = "check" /\ mutex = t /\ t \in Consumers
    /\ IF sz = 0
       THEN IF blk[t]
            THEN /\ waitF' = waitF \cup {t}
                 /\ pc' = [pc EXCEPT ![t] = "wait"]
                 /\ UNCHANGED <<lo, sz, got, res>>
            ELSE /\ res' = [res EXCEPT ![t] = "QEMPTY"]
                 /\ pc' = [pc EXCEPT ![t] = "signal"]
                 /\ UNCHANGED <<lo, sz, got, waitF>>
       ELSE /\ got' = [got EXCEPT ![t] = data[lo]]
            /\ lo' = (lo + 1) % Cap
            /\ sz' = sz - 1
            /\ res' = [res EXCEPT ![t] = "QOK"]
            /\ pc' = [pc EXCEPT ![t] = "signal"]
            /\ UNCHANGED waitF
    /\ mutex' = Nil
    /\ UNCHANGED <<data, hi, waitE, arg, blk>>

\* pthread_cond_wait returns once the waiter is out of its wait set and it
\* holds the mutex again; the while loop re-tests.
Relock(t) ==
    /\ pc[t] = "wait" /\ t \notin waitE \cup waitF /\ mutex = Nil
    /\ mutex' = t
    /\ pc' = [pc EXCEPT ![t] = "check"]
    /\ UNCHANGED <<data, lo, hi, sz, waitE, waitF, arg, blk, got, res>>

\* A spurious wakeup.
WakeSpurious(t) ==
    /\ Spurious
    /\ t \in waitE \cup waitF
    /\ waitE' = waitE \ {t} /\ waitF' = waitF \ {t}
    /\ UNCHANGED <<data, lo, hi, sz, mutex, pc, arg, blk, got, res>>

\* The call returns res; its arguments and locals are gone.
Return(t) == /\ arg' = [arg EXCEPT ![t] = Nil]
             /\ blk' = [blk EXCEPT ![t] = TRUE]
             /\ res' = [res EXCEPT ![t] = "QOK"]

\* Mutant of AddSignal: queue_add signals conde instead of condf.
AddSignalWrongCv(t) ==
    /\ pc[t] = "signal" /\ t \in Producers
    /\ \/ waitE = {} /\ UNCHANGED waitE
       \/ \E w \in waitE : waitE' = waitE \ {w}
    /\ pc' = [pc EXCEPT ![t] = "idle"]
    /\ Return(t)
    /\ UNCHANGED <<data, lo, hi, sz, mutex, waitF, got>>

\* pthread_cond_signal(&q->condf) after queue_add unlocked, whatever it
\* returned: one waiting consumer, if there is one, leaves the wait set.
AddSignal(t) ==
    /\ pc[t] = "signal" /\ t \in Producers
    /\ \/ waitF = {} /\ UNCHANGED waitF
       \/ \E w \in waitF : waitF' = waitF \ {w}
    /\ pc' = [pc EXCEPT ![t] = "idle"]
    /\ Return(t)
    /\ UNCHANGED <<data, lo, hi, sz, mutex, waitE, got>>

\* pthread_cond_signal(&q->conde) after queue_take unlocked.
TakeSignal(t) ==
    /\ pc[t] = "signal" /\ t \in Consumers
    /\ \/ waitE = {} /\ UNCHANGED waitE
       \/ \E w \in waitE : waitE' = waitE \ {w}
    /\ pc' = [pc EXCEPT ![t] = "idle"]
    /\ Return(t)
    /\ UNCHANGED <<data, lo, hi, sz, mutex, waitF, got>>

Next ==
    \/ \E t \in Producers, e \in Vals, b \in Blocking : Start(t, e, b)
    \/ \E t \in Consumers, b \in Blocking : Start(t, Nil, b)
    \/ \E t \in Threads :
          \/ AddCheck(t) \/ TakeCheck(t) \/ Relock(t) \/ WakeSpurious(t)
          \/ AddSignal(t) \/ TakeSignal(t)

Spec == Init /\ [][Next]_vars

-----------------------------------------------------------------------------
TypeOK ==
    /\ data \in [Slots -> Vals \cup {Nil}]
    /\ lo \in Slots /\ hi \in Slots /\ sz \in 0 .. Cap
    /\ mutex \in Threads \cup {Nil}
    /\ waitE \subseteq Producers /\ waitF \subseteq Consumers
    /\ pc \in [Threads -> {"idle", "check", "wait", "signal"}]
    /\ arg \in [Threads -> Vals \cup {Nil}]
    /\ blk \in [Threads -> BOOLEAN]
    /\ got \in [Threads -> Vals \cup {Nil}]
    /\ res \in [Threads -> {"QOK", "QFULL", "QEMPTY"}]

(* The ring that queue_add and queue_take update under the mutex stays     *)
(* well formed: hi is sz slots after lo, and every slot between them was   *)
(* written by a queue_add, so a take never reads uninitialised memory.    *)
RingConsistent ==
    /\ hi = (lo + sz) % Cap
    /\ \A i \in 1 .. sz : Contents[i] # Nil

(* No lost wakeup: while consumers sleep on condf with entries in the      *)
(* queue, some thread is on its way to take one or to wake a sleeper: a   *)
(* producer that has yet to signal condf after unlocking, or a consumer   *)
(* that will re-test the queue.  Symmetrically for producers sleeping on   *)
(* conde while there is room.  queue_add and queue_take signal only after *)
(* unlocking, so this is what keeps a signal from arriving too early.      *)
NoLostWakeup ==
    LET Retesting(S) == {t \in S : \/ pc[t] = "check"
                                   \/ pc[t] = "wait" /\ t \notin waitE \cup waitF}
        Signalling(S) == {t \in S : pc[t] = "signal"}
    IN /\ (waitF # {} /\ sz > 0) =>
             Retesting(Consumers) \cup Signalling(Producers) # {}
       /\ (waitE # {} /\ sz < Cap) =>
             Retesting(Producers) \cup Signalling(Consumers) # {}

(* queue_t implements a bounded FIFO: mapped to the entries between lo and *)
(* hi, every step of queue_add and queue_take either appends the caller's  *)
(* entry, removes the head, or leaves the sequence alone.                  *)
Abstract == INSTANCE QueueSpec WITH q <- Contents

ImplementsFIFO == Abstract!Spec

====
