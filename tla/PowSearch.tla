------------------------------ MODULE PowSearch ------------------------------
(***************************************************************************)
(* The parallel nonce search of one CPU context: pow_c, pow_sse and        *)
(* pow_avx (src/src/pow_c.c, pow_sse.c, pow_avx.c), which differ in the    *)
(* nonces tested per iteration and in the type their loop returns.         *)
(*                                                                         *)
(* A call queues one work item per thread. Each item tests batches of      *)
(* nonces until one of them has the weight, another item has set stop_pow  *)
(* or its counter is at the end, and returns the number of its hashes,     *)
(* negated unless it has found a nonce: the sign alone tells work_cb       *)
(* whether the item won. When all the items are done the caller takes the  *)
(* nonce buffer of a winner. The items, the stop flag and the nonce        *)
(* buffers are reused by the next call.                                    *)
(***************************************************************************)
EXTENDS Integers

CONSTANTS
    NumMaxThreads,  \* num_max_threads: the work items of the context
    Batch,          \* nonces per iteration: 64, 128 (SSE) or 256 (AVX)
    RetMax,         \* the loop returns a number in -RetMax .. RetMax - 1
    MaxIter,        \* bound: the iterations of an item that are counted
    MaxCalls        \* bound: calls in this context

Items == 0 .. NumMaxThreads - 1

ASSUME SizeAssumption ==
    /\ NumMaxThreads \in Nat \ {0}
    /\ Batch \in Nat \ {0}
    /\ RetMax \in Nat \ {0}
    /\ MaxIter \in Nat
    /\ MaxCalls \in Nat

VARIABLES
    main,         \* the caller: "idle", "queue" or "run"
    call,         \* the number of the current call
    num_threads,  \* work items of the current call
    queued,       \* work items queued so far
    state,        \* per item: its next step
    iter,         \* per item: the loop counter i
    nonce,        \* per item: the call whose nonce is in its buffer (0: none)
    ret,          \* per item: pitem[i].ret
    n,            \* per item: pitem[i].n, -1 for a winner
    exhausted,    \* history: the items of this call that incr told of the end
    stop_pow,     \* ctx->stop_pow
    output,       \* the call whose nonce went to output_trytes (0: none)
    res           \* what the last call returned

callVars == <<call, num_threads, queued>>
itemVars == <<state, iter, nonce, ret, n, exhausted>>
vars == <<main, callVars, itemVars, stop_pow, output, res>>

\* A value of the loop's return type: two's complement on overflow.
Wrapped(x) == ((x + RetMax) % (2 * RetMax)) - RetMax

Init ==
    /\ main = "idle"
    /\ call = 0
    /\ num_threads = 1
    /\ queued = 0
    /\ state = [i \in Items |-> "none"]
    /\ iter = [i \in Items |-> 0]
    /\ nonce = [i \in Items |-> 0]
    /\ ret = [i \in Items |-> 0]
    /\ n = [i \in Items |-> 0]
    /\ exhausted = {}
    /\ stop_pow = FALSE
    /\ output = 0
    /\ res = FALSE

-----------------------------------------------------------------------------
(* The caller. *)

\* threads = 0 or more than there are means all of them.
Threads(threads) ==
    IF threads > 0 /\ threads < NumMaxThreads THEN threads ELSE NumMaxThreads

PowBegin ==
    /\ main = "idle"
    /\ call < MaxCalls
    /\ call' = call + 1
    /\ \E threads \in 0 .. NumMaxThreads : num_threads' = Threads(threads)
    /\ queued' = 0
    /\ stop_pow' = FALSE
    /\ state' = [i \in Items |-> "none"]
    /\ exhausted' = {}
    /\ main' = "queue"
    /\ UNCHANGED <<iter, nonce, ret, n, output, res>>

\* init_trytes or tx_to_cstate fails.
PowFails ==
    /\ main = "queue"
    /\ queued = 0
    /\ main' = "idle"
    /\ res' = FALSE
    /\ UNCHANGED <<callVars, itemVars, stop_pow, output>>

OneMore(q) == q > num_threads \* mutant
AllQueued(q) == q = num_threads

\* One round of the loop that fills pitem[i] and calls uv_queue_work; the items
\* queued before may be running already.
QueueWork ==
    /\ main = "queue"
    /\ state' = [state EXCEPT ![queued] = "queued"]
    /\ n' = [n EXCEPT ![queued] = queued]
    /\ ret' = [ret EXCEPT ![queued] = 0]
    /\ queued' = queued + 1
    /\ main' = IF AllQueued(queued + 1) THEN "run" ELSE "queue"
    /\ UNCHANGED <<call, num_threads, iter, nonce, exhausted, stop_pow, output,
                   res>>

\* The last winner among the items of this call, -1 if there is none.
CallItems == {i \in Items : i < num_threads}
AllItems == Items \* mutant
Collected == CallItems
Winners == {i \in Collected : n[i] = -1}
CompletedIndex ==
    IF Winners = {} THEN -1
    ELSE CHOOSE i \in Winners : \A j \in Winners : j <= i

\* uv_run returns when every item is done. nonce_array[-1] is no buffer of this
\* context: what is read there may be the nonce of any call, or none.
EndedOrStopped(i) == state[i] = "done" \/ stop_pow \* mutant
Ended(i) == state[i] = "done"

Chosen == IF CompletedIndex = -1 THEN 0 .. MaxCalls ELSE {nonce[CompletedIndex]}

Collect ==
    /\ main = "run"
    /\ \A i \in CallItems : Ended(i)
    /\ \/ /\ output' \in Chosen
          /\ res' = TRUE
       \/ /\ res' = FALSE    \* init_trits or trytes_from_trits fails
          /\ UNCHANGED output
    /\ main' = "idle"
    /\ UNCHANGED <<callVars, itemVars, stop_pow>>

-----------------------------------------------------------------------------
(* A work item, in a thread of the pool. *)

Start(i) ==
    /\ state[i] = "queued"
    /\ iter' = [iter EXCEPT ![i] = 0]
    /\ state' = [state EXCEPT ![i] = "test"]
    /\ UNCHANGED <<main, callVars, nonce, ret, n, exhausted, stop_pow, output, res>>

\* return -i * 64 - 1 and return i * 64, in the loop's return type.
StoppedAtZero(i) == Wrapped(-(iter[i] * Batch)) \* mutant
Stopped(i) == Wrapped(-(iter[i] * Batch) - 1)
Found(i) == Wrapped(iter[i] * Batch)

\* The loop condition, under the read lock: the next nonces, then *stop_pow. incr
\* may be at the end at any time, the first included: its trits start with those
\* of the transaction.
TestStop(i) ==
    /\ state[i] = "test"
    /\ \E end \in BOOLEAN :
          /\ exhausted' = IF end THEN exhausted \cup {i} ELSE exhausted
          /\ IF end \/ stop_pow
               THEN /\ ret' = [ret EXCEPT ![i] = Stopped(i)]
                    /\ state' = [state EXCEPT ![i] = "store"]
               ELSE /\ state' = [state EXCEPT ![i] = "hash"]
                    /\ UNCHANGED ret
    /\ UNCHANGED <<main, callVars, iter, nonce, n, stop_pow, output, res>>

\* transform and check without the lock: no nonce of the batch has the weight.
Miss(i) ==
    /\ state[i] = "hash"
    /\ iter' = [iter EXCEPT ![i] = IF @ < MaxIter THEN @ + 1 ELSE @]
    /\ state' = [state EXCEPT ![i] = "test"]
    /\ UNCHANGED <<main, callVars, nonce, ret, n, exhausted, stop_pow, output, res>>

\* seri writes the nonce to the item's own buffer.
Hit(i) ==
    /\ state[i] = "hash"
    /\ nonce' = [nonce EXCEPT ![i] = call]
    /\ ret' = [ret EXCEPT ![i] = Found(i)]
    /\ state' = [state EXCEPT ![i] = "store"]
    /\ UNCHANGED <<main, callVars, iter, n, exhausted, stop_pow, output, res>>

\* The rest of work_cb, under the write lock.
StopForgotten == stop_pow \* mutant
StopSet == TRUE

WorkDone(i) ==
    /\ state[i] = "store"
    /\ IF ret[i] >= 0
         THEN /\ stop_pow' = StopSet
              /\ n' = [n EXCEPT ![i] = -1]
         ELSE UNCHANGED <<stop_pow, n>>
    /\ state' = [state EXCEPT ![i] = "done"]
    /\ UNCHANGED <<main, callVars, iter, nonce, ret, exhausted, output, res>>

-----------------------------------------------------------------------------
Item(i) == Start(i) \/ TestStop(i) \/ Miss(i) \/ Hit(i) \/ WorkDone(i)
Caller == PowBegin \/ PowFails \/ QueueWork \/ Collect

Next == Caller \/ \E i \in Items : Item(i)

Spec == Init /\ [][Next]_vars

\* The caller and the threads of the pool are scheduled.
FairSpec ==
    /\ Spec
    /\ WF_vars(QueueWork \/ Collect)
    /\ \A i \in Items : WF_vars(Item(i))

-----------------------------------------------------------------------------
(* Properties. *)

TypeOK ==
    /\ main \in {"idle", "queue", "run"}
    /\ call \in 0 .. MaxCalls
    /\ num_threads \in 1 .. NumMaxThreads
    /\ queued \in 0 .. NumMaxThreads
    /\ state \in [Items -> {"none", "queued", "test", "hash", "store", "done"}]
    /\ iter \in [Items -> 0 .. MaxIter]
    /\ nonce \in [Items -> 0 .. MaxCalls]
    /\ ret \in [Items -> -RetMax .. RetMax - 1]
    /\ n \in [Items -> -1 .. NumMaxThreads - 1]
    /\ exhausted \subseteq Items
    /\ stop_pow \in BOOLEAN
    /\ output \in 0 .. MaxCalls
    /\ res \in BOOLEAN

\* A call that returns true wrote a nonce which one of its own items found, never
\* what an earlier call, with more threads perhaps, left in the buffers; unless
\* every item came to the end of its counter: pow_c then reads nonce_array[-1]
\* (pow_c.c:315) and returns true all the same.
ResultIsFresh ==
    main = "idle" /\ res => output = call \/ CallItems \subseteq exhausted

\* pow_c.c:199, pow_sse.c:216, pow_avx.c:436: n = -1 "means this thread got the
\* result": its buffer holds a nonce of this call.
WinnerGotResult ==
    \A i \in Items :
        state[i] = "done" /\ n[i] = -1 => nonce[i] = call

\* Nothing of a call is still running when it returns, so that its buffers, its
\* c_state and its lock may be freed or reused.
NothingRunsAfterReturn ==
    main = "idle" => \A i \in Items : state[i] \in {"none", "done"}

\* Once an item has found a nonce the call returns, although the others may have
\* missed the stop flag, and may not have started yet.
FoundEndsCall ==
    (\E i \in Items : state[i] = "store" /\ nonce[i] = call) ~> main = "idle"

-----------------------------------------------------------------------------
(* The inductive invariant behind ResultIsFresh and WinnerGotResult.         *)

\* The return type holds the counts of all iterations: true of the 64 bits of
\* pow_c and pow_sse for any search that ends, not of the int of pow_avx.
WideReturn == MaxIter * Batch + 1 <= RetMax

\* The items of the call are the first ones queued; they run within the call.
QueueInv ==
    /\ queued <= num_threads
    /\ main = "queue" => queued < num_threads
    /\ main = "run" => queued = num_threads
    /\ \A i \in Items : state[i] # "none" => i < queued
    /\ NothingRunsAfterReturn

\* The sign of ret tells who won; whoever did not saw another one's stop or the end.
Beaten(i) == stop_pow \/ i \in exhausted

SignInv ==
    \A i \in Items :
        /\ state[i] \in {"queued", "test", "hash", "store"} => n[i] # -1
        /\ state[i] = "store" => IF ret[i] >= 0 THEN nonce[i] = call
                                               ELSE Beaten(i)
        /\ state[i] = "done" => IF n[i] = -1 THEN nonce[i] = call
                                             ELSE Beaten(i)

\* stop_pow is set by a winner of this call.
StopInv == stop_pow => \E i \in Items : state[i] = "done" /\ n[i] = -1

SearchInv == QueueInv /\ SignInv /\ StopInv /\ ResultIsFresh
=============================================================================
