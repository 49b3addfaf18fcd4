-------------------------------- MODULE Dcurl --------------------------------
(***************************************************************************)
(* dcurl_init, dcurl_destroy and dcurl_entry (src/src/dcurl.c): a pool of  *)
(* PoW implementations shared by the threads of a process, with the slot   *)
(* accounting of src/src/implcontext.c, src/src/remote_interface.c and the *)
(* implementations' own get_pow_context / free_pow_context.                *)
(*                                                                         *)
(* A call first goes to the remote pool when the remote interface is       *)
(* registered, and falls back to the local pool when the remote PoW fails. *)
(* In a pool it scans the list of implementations for one with a free      *)
(* place, one lock at a time; if all of them are full it waits on the      *)
(* pool's semaphore, posted by every call that leaves, and scans again.    *)
(***************************************************************************)
EXTENDS Integers, Sequences, FiniteSets

CONSTANTS
    Threads,           \* the threads that call dcurl_entry
    Build,             \* the implementations compiled in (ENABLE_* macros)
    Capacity,          \* Capacity[i]: values num_max_thread may get at init
    IntBits,           \* width of "int bitmap": the largest number of slots
    MaxCalls,          \* bound: calls of dcurl_entry per thread
    None,              \* NULL
    Stale              \* a reply the broker delivers for an earlier request

Impls == {"cpu", "gpu", "fpga", "remote"}
Pools == {"local", "remote"}
PoolOf(i) == IF i = "remote" THEN "remote" ELSE "local"
Slots == 0 .. (IntBits - 1)
NoSlot == -1
\* The transactions: the n-th call of thread t asks for <<t, n>>; <<t, 0>> is none.
Jobs == Threads \X (0 .. MaxCalls)

ASSUME BuildAssumption == Build \subseteq Impls

ASSUME ThreadAssumption == IsFiniteSet(Threads)

ASSUME BoundAssumption ==
    /\ IntBits \in Nat \ {0}
    /\ MaxCalls \in Nat

\* The FPGA has no bitmap: its num_max_thread is the constant 1.
\* The CPU and the remote interface refuse to start without a thread; the GPU
\* starts with as many contexts as it finds devices, none included.
ASSUME CapacityAssumption ==
    /\ Capacity \in [Impls -> SUBSET (0 .. IntBits)]
    /\ Capacity["fpga"] \subseteq {1}
    /\ 0 \notin Capacity["cpu"] \cup Capacity["remote"]

ASSUME ValueAssumption ==
    /\ None \notin Jobs
    /\ Stale \notin Jobs
    /\ None # Stale

-----------------------------------------------------------------------------
VARIABLES
    is_initialized, \* dcurl.c: is_initialized
    runtime_caps,   \* dcurl.c: the implementations whose CAP_ bit is set
    list,           \* impl_list and remote_impl_list, by pool
    num_max,        \* num_max_thread of each registered implementation
    num_working,    \* num_working_thread of each implementation
    bitmap,         \* the set bits of "bitmap" (remote: the slots[] not in use)
    input,          \* input_trytes of each context: the job it was given
    output,         \* output_trytes of each context
    late,           \* remote slots whose connection may still get an old reply
    sem,            \* value of the semaphores notify and notify_remote
    pc,             \* per thread: the next step of dcurl_entry
    pool,           \* per thread: the list it scans
    at,             \* per thread: its position in that list
    impl,           \* per thread: the implementation entered
    slot,           \* per thread: index of its pow_ctx (NoSlot for NULL)
    fallback,       \* per thread: the remote PoW failed, goto local_pow
    answer,         \* per thread: res
    calls           \* per thread: calls made so far

lifecycle == <<is_initialized, runtime_caps, list, num_max>>
contexts == <<bitmap, input, output, late>>
frame == <<impl, slot, fallback, answer>>
scan == <<pool, at>>
vars == <<lifecycle, num_working, contexts, sem, pc, scan, frame, calls>>

\* The transaction the current call of t asked the PoW of.
Job(t) == <<t, calls[t]>>
Values == Jobs \cup {None, Stale}

InService == {"get", "fill", "pow", "result", "free", "exit", "post"}
Holding == {"get", "fill", "pow", "result", "free", "exit"}
Owning == {"fill", "pow", "result", "free"}

Idle(t) == pc[t] = "idle"
Quiescent == \A t \in Threads : Idle(t)

Init ==
    /\ is_initialized = FALSE
    /\ runtime_caps = {}
    /\ list = [p \in Pools |-> << >>]
    /\ num_max = [i \in Impls |-> 0]
    /\ num_working = [i \in Impls |-> 0]
    /\ bitmap = [i \in Impls |-> {}]
    /\ input = [i \in Impls |-> [s \in Slots |-> None]]
    /\ output = [i \in Impls |-> [s \in Slots |-> None]]
    /\ late = {}
    /\ sem = [p \in Pools |-> 0]
    /\ pc = [t \in Threads |-> "idle"]
    /\ pool = [t \in Threads |-> "local"]
    /\ at = [t \in Threads |-> 1]
    /\ impl = [t \in Threads |-> "cpu"]
    /\ slot = [t \in Threads |-> NoSlot]
    /\ fallback = [t \in Threads |-> FALSE]
    /\ answer = [t \in Threads |-> None]
    /\ calls = [t \in Threads |-> 0]

-----------------------------------------------------------------------------
(* dcurl_init and dcurl_destroy. Their callers run them while no call is in *)
(* progress, and initialise again only after a destroy.                     *)

\* list_add puts a node at the head of the list.
ListAdd(R, i, l) == IF i \in R THEN <<i>> \o l ELSE l

RegisteredLocal(R) ==
    ListAdd(R, "fpga", ListAdd(R, "gpu", ListAdd(R, "cpu", << >>)))

RegisteredRemote(R) == ListAdd(R, "remote", << >>)

\* bitmap = bitmap << 1 | 0x1, once per slot, on the bits left by the last use;
\* slots[] of the remote interface is cleared; the FPGA has none.
InitBitmap(i, cap) ==
    CASE i = "fpga" -> bitmap[i]
      [] i = "remote" -> bitmap[i] \cup {s \in Slots : s < cap}
      [] OTHER -> {s \in Slots : s < cap \/ s - cap \in bitmap[i]}

DcurlInit ==
    /\ Quiescent
    /\ runtime_caps = {}
    /\ \E R \in SUBSET Build :
       \E cap \in {c \in [Impls -> 0 .. IntBits] :
                     \A i \in Impls : IF i \in R THEN c[i] \in Capacity[i]
                                                 ELSE c[i] = 0} :
          /\ runtime_caps' = R
          /\ list' = [p \in Pools |-> IF p = "local" THEN RegisteredLocal(R)
                                                     ELSE RegisteredRemote(R)]
          /\ num_max' = cap
          /\ bitmap' = [i \in Impls |-> IF i \in R THEN InitBitmap(i, cap[i])
                                                   ELSE bitmap[i]]
          /\ is_initialized' = (R # {})
    /\ input' = [i \in Impls |-> [s \in Slots |-> None]]
    /\ output' = [i \in Impls |-> [s \in Slots |-> None]]
    /\ late' = {}
    /\ sem' = [p \in Pools |-> 0]
    /\ UNCHANGED <<num_working, pc, scan, frame, calls>>

DcurlDestroy ==
    /\ Quiescent
    /\ list' = [p \in Pools |-> << >>]
    /\ runtime_caps' = {}
    /\ UNCHANGED <<is_initialized, num_max, num_working, contexts, sem, pc,
                   scan, frame, calls>>

-----------------------------------------------------------------------------
(* dcurl_entry, one action per step another thread can observe.             *)

\* Also after dcurl_destroy, which leaves is_initialized set: such a call is not
\* refused but waits on an empty list.
StartCall(t) ==
    /\ Idle(t)
    /\ calls[t] < MaxCalls
    /\ calls' = [calls EXCEPT ![t] = @ + 1]
    /\ answer' = [answer EXCEPT ![t] = None]

\* if (!is_initialized) return NULL;
CallRefused(t) ==
    /\ StartCall(t)
    /\ ~is_initialized
    /\ UNCHANGED <<lifecycle, num_working, contexts, sem, pc, scan,
                   impl, slot, fallback>>

\* A registered remote interface is tried first.
FirstPool == IF "remote" \in runtime_caps THEN "remote" ELSE "local"

Call(t) ==
    /\ StartCall(t)
    /\ is_initialized
    /\ pool' = [pool EXCEPT ![t] = FirstPool]
    /\ at' = [at EXCEPT ![t] = 1]
    /\ pc' = [pc EXCEPT ![t] = "scan"]
    /\ UNCHANGED <<lifecycle, num_working, contexts, sem, impl, slot, fallback>>

\* list_for_each: the entry t looks at, while it has not reached the end.
Scanning(t) == pc[t] = "scan" /\ at[t] <= Len(list[pool[t]])
Entry(t) == list[pool[t]][at[t]]

\* The test of enter_impl_context and enter_remote_context, under the lock.
HasRoomOffByOne(i) == num_working[i] <= num_max[i] \* mutant
HasRoom(i) == num_working[i] < num_max[i]

\* num_working_thread++ and num_working_thread--, under the lock.
EnteredUncounted(i) == num_working \* mutant
Entered(i) == [num_working EXCEPT ![i] = @ + 1]
LeftUncounted(i) == num_working \* mutant
Left(i) == [num_working EXCEPT ![i] = @ - 1]

SkipFull(t) ==
    /\ Scanning(t)
    /\ ~HasRoom(Entry(t))
    /\ at' = [at EXCEPT ![t] = @ + 1]
    /\ UNCHANGED <<lifecycle, num_working, contexts, sem, pc, pool, frame, calls>>

Enter(t) ==
    /\ Scanning(t)
    /\ HasRoom(Entry(t))
    /\ num_working' = Entered(Entry(t))
    /\ impl' = [impl EXCEPT ![t] = Entry(t)]
    /\ pc' = [pc EXCEPT ![t] = "get"]
    /\ UNCHANGED <<lifecycle, contexts, sem, scan, slot, fallback, answer, calls>>

\* uv_sem_wait after a scan that found no room; then the list again.
SemWait(t) ==
    /\ pc[t] = "scan"
    /\ at[t] > Len(list[pool[t]])
    /\ sem[pool[t]] > 0
    /\ sem' = [sem EXCEPT ![pool[t]] = @ - 1]
    /\ at' = [at EXCEPT ![t] = 1]
    /\ UNCHANGED <<lifecycle, num_working, contexts, pc, pool, frame, calls>>

\* The loop of get_pow_context over the slots, under the lock: the first free
\* one, NULL ("It should not happen") if there is none. The FPGA has one context.
FreeSlots(i) == {s \in bitmap[i] : s < num_max[i]}
PickSlot(i) ==
    IF i = "fpga" THEN 0
    ELSE IF FreeSlots(i) = {} THEN NoSlot
    ELSE CHOOSE s \in FreeSlots(i) : \A r \in FreeSlots(i) : s <= r

\* bitmap &= ~(0x1 << i), slots[i] = true.
SlotShared(i, s) == bitmap \* mutant
SlotTaken(i, s) == [bitmap EXCEPT ![i] = @ \ {s}]

GetContext(t) ==
    /\ pc[t] = "get"
    /\ slot' = [slot EXCEPT ![t] = PickSlot(impl[t])]
    /\ bitmap' = SlotTaken(impl[t], PickSlot(impl[t]))
    /\ pc' = [pc EXCEPT ![t] = "fill"]
    /\ UNCHANGED <<lifecycle, num_working, input, output, late, sem, scan, impl,
                   fallback, answer, calls>>

\* memcpy(ctx->input_trytes, ...), after the lock was released.
CopiedOnce(i, s, job) == \* mutant
    IF input[i][s] = None THEN [input EXCEPT ![i][s] = job] ELSE input
Copied(i, s, job) == [input EXCEPT ![i][s] = job]

FillContext(t) ==
    /\ pc[t] = "fill"
    /\ slot[t] # NoSlot
    /\ input' = Copied(impl[t], slot[t], Job(t))
    /\ pc' = [pc EXCEPT ![t] = "pow"]
    /\ UNCHANGED <<lifecycle, num_working, bitmap, output, late, sem, scan,
                   frame, calls>>

\* do_the_pow leaves the PoW of the context's input in its output. The remote
\* one takes the first message delivered on the slot's connection for it.
Replies(i, s) ==
    {input[i][s]} \cup (IF i = "remote" /\ s \in late THEN {Stale} ELSE {})

PowSucceeds(t) ==
    /\ pc[t] = "pow"
    /\ \E v \in Replies(impl[t], slot[t]) :
          output' = [output EXCEPT ![impl[t]][slot[t]] = v]
    /\ pc' = [pc EXCEPT ![t] = "result"]
    /\ UNCHANGED <<lifecycle, num_working, bitmap, input, late, sem, scan,
                   frame, calls>>

\* do_the_pow returns false: res = NULL, or goto local_pow from the remote
\* pool, whose request may have been published and may be answered later.
AbandonRemote(t) == IF pool[t] = "remote" THEN "post" ELSE "free" \* mutant
AfterFailure(t) == "free"

PowFails(t) ==
    /\ pc[t] = "pow"
    /\ fallback' = [fallback EXCEPT ![t] = (pool[t] = "remote")]
    /\ late' \in IF pool[t] = "remote" THEN {late, late \cup {slot[t]}} ELSE {late}
    /\ pc' = [pc EXCEPT ![t] = AfterFailure(t)]
    /\ UNCHANGED <<lifecycle, num_working, bitmap, input, output, sem, scan,
                   impl, slot, answer, calls>>

\* get_pow_result: a copy of the output, or NULL if malloc fails.
GetResult(t) ==
    /\ pc[t] = "result"
    /\ \E v \in {output[impl[t]][slot[t]], None} :
          answer' = [answer EXCEPT ![t] = v]
    /\ pc' = [pc EXCEPT ![t] = "free"]
    /\ UNCHANGED <<lifecycle, num_working, contexts, sem, scan, impl, slot,
                   fallback, calls>>

\* bitmap |= 0x1 << index, slots[index] = false; nothing for the FPGA.
SlotLeaked(i, s) == bitmap \* mutant
SlotFreed(i, s) ==
    IF i = "fpga" THEN bitmap ELSE [bitmap EXCEPT ![i] = @ \cup {s}]

FreeContext(t) ==
    /\ pc[t] = "free"
    /\ bitmap' = SlotFreed(impl[t], slot[t])
    /\ pc' = [pc EXCEPT ![t] = "exit"]
    /\ UNCHANGED <<lifecycle, num_working, input, output, late, sem, scan, frame,
                   calls>>

ExitImpl(t) ==
    /\ pc[t] = "exit"
    /\ num_working' = Left(impl[t])
    /\ pc' = [pc EXCEPT ![t] = "post"]
    /\ UNCHANGED <<lifecycle, contexts, sem, scan, frame, calls>>

\* uv_sem_post, then go on with the local pool, or return res (and the call's
\* local variables are gone).
PostedIfAnswered(t) == \* mutant
    IF answer[t] = None THEN sem ELSE [sem EXCEPT ![pool[t]] = @ + 1]
PostedUnlessFallback(t) == \* mutant
    IF fallback[t] THEN sem ELSE [sem EXCEPT ![pool[t]] = @ + 1]
Posted(t) == [sem EXCEPT ![pool[t]] = @ + 1]

RetrySamePool(t) == pool[t] \* mutant
RetryPool(t) == "local"

PostNotify(t) ==
    /\ pc[t] = "post"
    /\ sem' = Posted(t)
    /\ IF fallback[t]
         THEN /\ pool' = [pool EXCEPT ![t] = RetryPool(t)]
              /\ at' = [at EXCEPT ![t] = 1]
              /\ pc' = [pc EXCEPT ![t] = "scan"]
              /\ UNCHANGED <<impl, slot>>
         ELSE /\ pc' = [pc EXCEPT ![t] = "idle"]
              /\ at' = [at EXCEPT ![t] = 1]
              /\ impl' = [impl EXCEPT ![t] = "cpu"]
              /\ slot' = [slot EXCEPT ![t] = NoSlot]
              /\ UNCHANGED pool
    /\ fallback' = [fallback EXCEPT ![t] = FALSE]
    /\ UNCHANGED <<lifecycle, num_working, contexts, answer, calls>>

Step(t) ==
    \/ SkipFull(t) \/ Enter(t) \/ SemWait(t)
    \/ GetContext(t) \/ FillContext(t)
    \/ PowSucceeds(t) \/ PowFails(t) \/ GetResult(t)
    \/ FreeContext(t) \/ ExitImpl(t) \/ PostNotify(t)

Next ==
    \/ DcurlInit
    \/ DcurlDestroy
    \/ \E t \in Threads : CallRefused(t) \/ Call(t) \/ Step(t)

Spec == Init /\ [][Next]_vars

\* t is inside remote_do_pow, which may wait for a silent broker without a limit
\* (RemoteRpc: Hangs).
RemotePow(t) == pc[t] = "pow" /\ pool[t] = "remote"

\* A thread inside dcurl_entry is scheduled; a woken semaphore wait returns, and so
\* does a local do_the_pow. Nothing is assumed of a remote one.
FairSpec == Spec /\ \A t \in Threads : WF_vars(Step(t) /\ ~RemotePow(t))

-----------------------------------------------------------------------------
(* Properties. *)

TypeOK ==
    /\ is_initialized \in BOOLEAN
    /\ runtime_caps \in SUBSET Impls
    /\ list \in [Pools -> Seq(Impls)]
    /\ num_max \in [Impls -> 0 .. IntBits]
    /\ num_working \in [Impls -> Nat]
    /\ bitmap \in [Impls -> SUBSET Slots]
    /\ input \in [Impls -> [Slots -> Values]]
    /\ output \in [Impls -> [Slots -> Values]]
    /\ late \in SUBSET Slots
    /\ sem \in [Pools -> Nat]
    /\ pc \in [Threads -> InService \cup {"idle", "scan"}]
    /\ pool \in [Threads -> Pools]
    /\ at \in [Threads -> Nat \ {0}]
    /\ impl \in [Threads -> Impls]
    /\ slot \in [Threads -> Slots \cup {NoSlot}]
    /\ fallback \in [Threads -> BOOLEAN]
    /\ answer \in [Threads -> Values]
    /\ calls \in [Threads -> 0 .. MaxCalls]

\* The threads between enter and exit, and those that own a context.
Holders(i) == {t \in Threads : pc[t] \in Holding /\ impl[t] = i}
Owners(i) == {t \in Threads : pc[t] \in Owning /\ impl[t] = i}

\* The code's "It should not happen" (pow_c.c:427, pow_cl.c:310,
\* remote_interface.c:213): get_pow_context never runs out of slots, although
\* the slots and num_working_thread are updated in separate critical sections.
SlotAlwaysFound ==
    \A t \in Threads : pc[t] \in Owning => slot[t] \in 0 .. num_max[impl[t]] - 1

\* Two calls never work in the same context, the unguarded one of the FPGA
\* (pow_fpga.c:202) included.
ContextExclusive ==
    \A t, u \in Threads :
        /\ t # u
        /\ pc[t] \in Owning
        /\ pc[u] \in Owning
        /\ impl[t] = impl[u]
        => slot[t] # slot[u]

\* dcurl_entry gives a caller the PoW of its own transaction or NULL, whatever
\* the other threads do with the same implementation; only a remote call on a
\* connection that lost a request before may return something else.
ResultIsOwn ==
    \A t \in Threads :
        \/ answer[t] \in {None, Job(t)}
        \/ /\ answer[t] = Stale
           /\ pool[t] = "remote"
           /\ Idle(t) \/ late # {}

\* When no call is in progress every place is free again, whatever path the
\* calls took (success, failure, fallback): destroy and init rely on it, since
\* neither resets num_working_thread.
QuiescentIsClean ==
    Quiescent => \A i \in Impls :
        /\ num_working[i] = 0
        /\ i \in runtime_caps /\ i # "fpga" => 0 .. num_max[i] - 1 \subseteq bitmap[i]

\* An implementation of pool p could serve a call.
Usable(p) == \E n \in 1 .. Len(list[p]) : num_max[list[p][n]] > 0

\* t sleeps in uv_sem_wait of pool p.
Asleep(t, p) ==
    /\ pc[t] = "scan"
    /\ pool[t] = p
    /\ at[t] > Len(list[p])
    /\ sem[p] = 0

\* No lost wake-up on notify and notify_remote: while a thread sleeps on a pool
\* that could serve it, another one is awake in that pool, in service (it will
\* post) or scanning (it will enter, or sleep for a good reason).
NoLostWakeup ==
    \A p \in Pools : \A t \in Threads :
        Asleep(t, p) /\ Usable(p) =>
            \E u \in Threads :
                /\ pool[u] = p
                /\ pc[u] \in InService \cup {"scan"}
                /\ ~Asleep(u, p)

\* No thread stays in remote_do_pow for ever.
RemoteEnds == \A t \in Threads : []<>~RemotePow(t)

\* Every call returns, if the local pool has a usable implementation and the remote
\* attempts end: no deadlock among the callers, on the semaphores or over the
\* places.
EveryCallReturns ==
    RemoteEnds => \A t \in Threads : (~Idle(t) /\ Usable("local")) ~> Idle(t)

-----------------------------------------------------------------------------
(* The inductive invariant behind the properties above.                      *)

\* num_working_thread counts the holders, and never exceeds num_max_thread.
CountersExact ==
    \A i \in Impls :
        /\ num_working[i] = Cardinality(Holders(i))
        /\ num_working[i] <= num_max[i]

\* Every slot is either marked free or owned, never both.
BitmapExact ==
    /\ num_max["fpga"] <= 1
    /\ \A i \in Impls \ {"fpga"} :
          /\ \A t \in Owners(i) : slot[t] \notin bitmap[i]
          /\ \A s \in 0 .. num_max[i] - 1 :
                s \in bitmap[i] \/ \E t \in Owners(i) : slot[t] = s

\* The lists hold implementations of their pool, only between init and destroy.
ListsExact ==
    /\ \A p \in Pools : \A n \in 1 .. Len(list[p]) :
          list[p][n] \in runtime_caps /\ PoolOf(list[p][n]) = p
    /\ \A t \in Threads : pc[t] \in InService => PoolOf(impl[t]) = pool[t]

SlotInv == CountersExact /\ BitmapExact /\ ListsExact /\ SlotAlwaysFound
             /\ ContextExclusive

\* The contents of the contexts on the way from the caller and back.
OwnAnswer(t, v) == v = Job(t) \/ (v = Stale /\ pool[t] = "remote" /\ late # {})

DataInv ==
    \A t \in Threads :
        /\ pc[t] = "pow" => input[impl[t]][slot[t]] = Job(t)
        /\ pc[t] = "result" => OwnAnswer(t, output[impl[t]][slot[t]])
        /\ pc[t] \in {"scan", "get", "fill", "pow", "result"} => answer[t] = None
        /\ fallback[t] => answer[t] = None /\ pc[t] \in {"free", "exit", "post"}

\* t has looked at every usable entry of pool p it could have entered.
Exhausted(t, p) ==
    /\ pc[t] = "scan"
    /\ pool[t] = p
    /\ \E n \in 1 .. Len(list[p]) : n < at[t] /\ num_max[list[p][n]] > 0

\* A token in the semaphore, a call in service that will leave one, or a scan
\* that has not reached a usable entry yet: one of them is there for a scan
\* that found the usable entries full.
WakeupInv ==
    \A p \in Pools :
        (\E t \in Threads : Exhausted(t, p)) =>
            \/ sem[p] > 0
            \/ \E u \in Threads : /\ pool[u] = p
                                  /\ \/ pc[u] \in InService
                                     \/ pc[u] = "scan" /\ ~Exhausted(u, p)

-----------------------------------------------------------------------------
(* Refinement: Dcurl implements PowService. A call is served from the moment *)
(* it has a context until it frees it, and its answer counts when it returns. *)

Places(p) ==
    {x \in runtime_caps \X Slots : PoolOf(x[1]) = p /\ x[2] < num_max[x[1]]}

StateOf(t) ==
    CASE Idle(t) -> "out"
      [] pc[t] \in {"scan", "get"} -> "waiting"
      [] pc[t] \in Owning -> "serving"
      [] OTHER -> "leaving"
PlaceOf(t) == IF pc[t] \in Owning THEN <<impl[t], slot[t]>> ELSE None
RetriedOf(t) == ~Idle(t) /\ pool[t] # FirstPool
AnswerOf(t) == IF Idle(t) THEN answer[t] ELSE None

Service == INSTANCE PowService WITH
    open <- is_initialized,
    places <- [p \in Pools |-> Places(p)],
    state <- [t \in Threads |-> StateOf(t)],
    place <- [t \in Threads |-> PlaceOf(t)],
    retried <- [t \in Threads |-> RetriedOf(t)],
    answer <- [t \in Threads |-> AnswerOf(t)]

\* Callers of dcurl see what PowService promises: exclusive places, the remote
\* ones first, one local retry, their own answers.
ServiceSpec == Service!Spec
=============================================================================
