------------------------------ MODULE Library ------------------------------
(***************************************************************************)
(* The life of the library in a process: dcurl_init and dcurl_destroy      *)
(* (src/src/dcurl.c) step by step, on the pointers of impl_list and the    *)
(* resources of the implementations, called by the bindings beside the     *)
(* calls of dcurl_entry:                                                   *)
(*   direct  the C functions, as the tests call them;                      *)
(*   jni     src/jni/iri_pearldiver_exlib.c;                               *)
(*   ccurl   src/src/compat_ccurl.c: the first call initialises;           *)
(*   go      src/cgo/pow/pow.go: initialised at load time, destroyed by a  *)
(*           goroutine that waits for a signal.                            *)
(* Nothing in the library keeps dcurl_destroy from running beside calls;   *)
(* misused tells whether the application ever let it, and broken whether   *)
(* the process crashed or its behaviour became undefined.                  *)
(*                                                                         *)
(* A build without the remote interface, whose list is treated alike, with *)
(* one context per implementation. The accounting of places and slots is   *)
(* the subject of Dcurl.                                                   *)
(***************************************************************************)
EXTENDS PowFpga, ListHead, FiniteSets

CONSTANTS
    Threads,     \* the callers
    App,         \* the thread that initialises and destroys
    Order,       \* the implementations compiled in, as dcurl_init registers them
    Fpga,        \* the one of pow_fpga.c
    ImplList,    \* impl_list
    Bindings,    \* the bindings of the run
    Nobody,      \* no thread holds a mutex
    MaxCalls,    \* bound: calls per thread
    MaxInits,    \* bound: calls of dcurl_init
    MaxDestroys  \* bound: calls of dcurl_destroy

Impls == {Order[k] : k \in DOMAIN Order}
Jobs == Threads \X (1 .. MaxCalls)

ASSUME OrderAssumption ==
    /\ Order \in Seq(Impls)
    /\ \A j, k \in DOMAIN Order : j # k => Order[j] # Order[k]
    /\ {ImplList, None} \cap Impls = {} /\ ImplList # None

\* Where list_del poisons a node, dcurl_destroy follows a poisoned pointer already
\* in its first turn.
ASSUME BuildAssumption == ~LIST_POISONING

ASSUME ActorAssumption ==
    /\ Actors = Threads \cup {App}
    /\ App \notin Threads /\ Nobody \notin Actors
    /\ None \notin Jobs

ASSUME BoundAssumption ==
    /\ MaxCalls \in Nat /\ MaxInits \in Nat /\ MaxDestroys \in Nat
    /\ Bindings \subseteq {"direct", "jni", "ccurl", "go"}

VARIABLES
    binding,          \* how the process uses the library
    compat,           \* compat_ccurl.c: is_initialized
    mtx,              \* compat_ccurl.c: the holder of mtx
    DcurlEntryMutex,  \* pow.go: its holder
    is_initialized,   \* dcurl.c
    mem,              \* the pointers of impl_list and of the nodes
    alive,            \* the implementations with a context
    num_working,      \* num_working_thread of each implementation
    notify,           \* the value of the semaphore
    pc,               \* per actor: its step
    at,               \* per actor: position in Order in dcurl_init
    ret,              \* per actor: ret of dcurl_init
    p,                \* per actor: the iterator of list_for_each
    answer,           \* per thread: res
    calls,            \* per thread: calls made
    inits, destroys,  \* calls of dcurl_init and dcurl_destroy
    misused,          \* the application broke the protocol
    broken            \* "no", or how the process was lost

guards == <<compat, mtx, DcurlEntryMutex>>
init == <<at, ret>>
lists == <<mem, alive>>
pool == <<num_working, notify>>
bounds == <<calls, inits, destroys>>
rest == <<binding, guards, is_initialized, lists, pool, init, p, answer, bounds, misused, broken>>
vars == <<fpgaVars, pc, rest>>

Init ==
    /\ FpgaInit
    /\ binding \in Bindings
    /\ compat = FALSE
    /\ mtx = Nobody
    /\ DcurlEntryMutex = Nobody
    /\ is_initialized = FALSE
    /\ mem = Unlinked({ImplList}, Impls, None)
    /\ alive = {}
    /\ num_working = [i \in Impls |-> 0]
    /\ notify = 0
    /\ pc = [a \in Actors |-> "idle"]
    /\ at = [a \in Actors |-> 1]
    /\ ret = [a \in Actors |-> FALSE]
    /\ p = [a \in Actors |-> ImplList]
    /\ answer = [t \in Threads |-> None]
    /\ calls = [t \in Threads |-> 0]
    /\ inits = 0
    /\ destroys = 0
    /\ misused = FALSE
    /\ broken = "no"

Move(a, from, to) == pc[a] = from /\ pc' = [pc EXCEPT ![a] = to]
Initialising(a) == pc[a] = "register"
Destroying(a) == pc[a] \in {"destroy", "unlink"}
Serving(t) == pc[t] \in {"take", "pow"}
PastGuard(t) == pc[t] \in {"entry", "scan", "take", "pow", "exit", "post", "return"}
OthersIdle(a) == \A b \in Actors \ {a} : pc[b] = "idle"
Asleep(t) == pc[t] = "scan" /\ p[t] = ImplList /\ notify = 0

\* Undefined behaviour: nothing is said of the state that follows.
Undefined ==
    /\ broken' = "undefined"
    /\ UNCHANGED <<fpgaVars, pc, binding, guards, is_initialized, lists, pool, init, p,
                   answer, bounds, misused>>

-----------------------------------------------------------------------------
(* dcurl_init, by the application or, in ccurl_pow, by the first caller.   *)

\* Allowed before the first call and after a destroy, with no call in progress.
BeginInit ==
    /\ binding # "ccurl" /\ (binding = "go" => inits = 0)
    /\ inits < MaxInits
    /\ inits' = inits + 1
    /\ Move(App, "idle", "register")
    /\ misused' = (misused \/ alive # {} \/ ~OthersIdle(App))
    /\ UNCHANGED <<fpgaVars, binding, guards, is_initialized, lists, pool, init, p, answer,
                   calls, destroys, broken>>

Current(a) == Order[at[a]]
MoreToRegister(a) == Initialising(a) /\ at[a] <= Len(Order)

\* register_impl_context: the node is added only when initialize succeeded.
Registered(a) ==
    /\ mem' = list_add(mem, Current(a), ImplList)
    /\ alive' = alive \cup {Current(a)}
    /\ ret' = [ret EXCEPT ![a] = TRUE]

NotRegistered == UNCHANGED <<lists, ret>>

Register(a) ==
    /\ MoreToRegister(a) /\ Current(a) # Fpga
    /\ Registered(a) \/ NotRegistered
    /\ at' = [at EXCEPT ![a] = @ + 1]
    /\ UNCHANGED <<fpgaVars, pc, binding, guards, is_initialized, pool, p, answer, bounds,
                   misused, broken>>

RegisterFpga(a) ==
    /\ MoreToRegister(a) /\ Current(a) = Fpga
    /\ Initialize(a) \/ Acquire(a) \/ CannotAcquire(a)
    /\ UNCHANGED <<pc, rest>>

FpgaAttempted(a) ==
    /\ MoreToRegister(a) /\ Current(a) = Fpga
    /\ \/ Goto(a, "succeeded", "idle") /\ Registered(a)
       \/ Goto(a, "failed", "idle") /\ NotRegistered
    /\ at' = [at EXCEPT ![a] = @ + 1]
    /\ UNCHANGED <<stage, held, context, device, pc, binding, guards, is_initialized, pool,
                   p, answer, bounds, misused, broken>>

\* The locals of the next dcurl_init.
Restarted(a) ==
    /\ at' = [at EXCEPT ![a] = 1]
    /\ ret' = [ret EXCEPT ![a] = FALSE]

\* uv_sem_init on a semaphore somebody waits for is undefined.
InitReturns(a) ==
    /\ Initialising(a) /\ at[a] > Len(Order)
    /\ ~\E t \in Threads : Asleep(t)
    /\ notify' = 0
    /\ is_initialized' = ret[a]
    /\ Restarted(a)
    /\ pc' = [pc EXCEPT ![a] = IF a = App THEN "idle" ELSE "initialized"]
    /\ UNCHANGED <<fpgaVars, binding, guards, lists, num_working, p, answer, bounds,
                   misused, broken>>

InitBesideSleeper(a) ==
    /\ Initialising(a) /\ at[a] > Len(Order)
    /\ \E t \in Threads : Asleep(t)
    /\ Undefined

-----------------------------------------------------------------------------
(* dcurl_destroy, by the application: exlibDestroy, ccurl_pow_finalize and  *)
(* DcurlDestroy only call it. is_initialized and the flag of ccurl stay.    *)

BeginDestroy ==
    /\ destroys < MaxDestroys /\ (binding = "go" => inits = 1)
    /\ destroys' = destroys + 1
    /\ Move(App, "idle", "destroy")
    /\ p' = [p EXCEPT ![App] = mem[ImplList].next]
    /\ misused' = (misused \/ ~OthersIdle(App))
    /\ UNCHANGED <<fpgaVars, binding, guards, is_initialized, lists, pool, init, answer, calls,
                   inits, broken>>

\* destroy_impl_context.
DestroyNode ==
    /\ Move(App, "destroy", "unlink")
    /\ p[App] \in alive
    /\ alive' = alive \ {p[App]}
    /\ held' = IF p[App] = Fpga THEN Released ELSE held
    /\ UNCHANGED <<step, stage, context, device, binding, guards, is_initialized, mem, pool,
                   init, p, answer, bounds, misused, broken>>

DestroyTwice ==
    /\ pc[App] = "destroy" /\ p[App] \notin alive \cup {ImplList}
    /\ Undefined

list_del_init(m, node) == \* mutant
    [list_del(m, node) EXCEPT ![node] = [prev |-> node, next |-> node]]
Without(m, node) == list_del(m, node)

\* list_del, then the step of list_for_each: it follows the pointer of the node
\* that was just removed.
Unlink ==
    /\ Move(App, "unlink", "destroy")
    /\ mem' = Without(mem, p[App])
    /\ p' = [p EXCEPT ![App] = mem'[p[App]].next]
    /\ UNCHANGED <<fpgaVars, binding, guards, is_initialized, alive, pool, init, answer, bounds,
                   misused, broken>>

DestroyReturns ==
    /\ p[App] = ImplList
    /\ Move(App, "destroy", "idle")
    /\ UNCHANGED <<fpgaVars, rest>>

-----------------------------------------------------------------------------
(* A call: the binding, then dcurl_entry. *)

Job(t) == <<t, calls[t]>>

Begin(t) ==
    /\ calls[t] < MaxCalls
    /\ calls' = [calls EXCEPT ![t] = @ + 1]
    /\ misused' = (misused \/ Initialising(App) \/ Destroying(App))
    /\ UNCHANGED <<fpgaVars, binding, guards, is_initialized, lists, pool, init, p, answer,
                   inits, destroys, broken>>

\* Straight to dcurl_entry: exlibSearch, DcurlProofOfWork.
CallEntry(t) ==
    /\ binding # "ccurl" /\ (binding = "go" => inits = 1 /\ ~Initialising(App))
    /\ Move(t, "idle", "entry")
    /\ Begin(t)

\* With a mutex before it: ccurl_pow, SyncDcurlProofOfWork.
CallLocked(t) ==
    /\ binding \in {"ccurl", "go"} /\ (binding = "go" => inits = 1 /\ ~Initialising(App))
    /\ Move(t, "idle", "lock")
    /\ Begin(t)

SyncLock(t) ==
    /\ binding = "go" /\ DcurlEntryMutex = Nobody
    /\ Move(t, "lock", "entry")
    /\ DcurlEntryMutex' = t
    /\ UNCHANGED <<fpgaVars, binding, compat, mtx, is_initialized, lists, pool, init, p,
                   answer, bounds, misused, broken>>

AlwaysFree == TRUE \* mutant
MtxFree == mtx = Nobody

\* ccurl_pow up to the test of its flag: dcurl_init is called with mtx held.
CcurlInit(t) ==
    /\ binding = "ccurl" /\ MtxFree /\ ~compat
    /\ Move(t, "lock", "register")
    /\ mtx' = t
    /\ inits' = inits + 1
    /\ UNCHANGED <<fpgaVars, binding, compat, DcurlEntryMutex, is_initialized, lists, pool,
                   init, p, answer, calls, destroys, misused, broken>>

\* What dcurl_init returns is not looked at.
CcurlInitialized(t) ==
    /\ Move(t, "initialized", "entry")
    /\ compat' = TRUE
    /\ mtx' = Nobody
    /\ UNCHANGED <<fpgaVars, binding, DcurlEntryMutex, is_initialized, lists, pool, init, p,
                   answer, bounds, misused, broken>>

CcurlSkip(t) ==
    /\ binding = "ccurl" /\ MtxFree /\ compat
    /\ Move(t, "lock", "entry")
    /\ UNCHANGED <<fpgaVars, rest>>

\* dcurl_entry: NULL before the library is initialised, else the first node.
EntryRefused(t) ==
    /\ ~is_initialized
    /\ Move(t, "entry", "return")
    /\ UNCHANGED <<fpgaVars, rest>>

EntryScan(t) ==
    /\ is_initialized
    /\ Move(t, "entry", "scan")
    /\ p' = [p EXCEPT ![t] = mem[ImplList].next]
    /\ UNCHANGED <<fpgaVars, binding, guards, is_initialized, lists, pool, init, answer,
                   bounds, misused, broken>>

AnyPlace(i) == TRUE \* mutant
HasPlace(i) == num_working[i] = 0

\* enter_impl_context on the node at p, one place each.
Enter(t) ==
    /\ p[t] # ImplList /\ HasPlace(p[t])
    /\ Move(t, "scan", "take")
    /\ num_working' = [num_working EXCEPT ![p[t]] = @ + 1]
    /\ UNCHANGED <<fpgaVars, binding, guards, is_initialized, lists, notify, init, p, answer,
                   bounds, misused, broken>>

ScanNext(t) ==
    /\ pc[t] = "scan" /\ p[t] # ImplList /\ ~HasPlace(p[t])
    /\ p' = [p EXCEPT ![t] = mem[p[t]].next]
    /\ UNCHANGED <<fpgaVars, pc, binding, guards, is_initialized, lists, pool, init, answer,
                   bounds, misused, broken>>

\* uv_sem_wait; the scan starts again.
Wake(t) ==
    /\ pc[t] = "scan" /\ p[t] = ImplList /\ notify > 0
    /\ notify' = notify - 1
    /\ p' = [p EXCEPT ![t] = mem[ImplList].next]
    /\ UNCHANGED <<fpgaVars, pc, binding, guards, is_initialized, lists, num_working, init,
                   answer, bounds, misused, broken>>

\* The back end of a destroyed implementation works on freed memory.
UseAfterDestroy(t) ==
    /\ Serving(t) /\ p[t] \notin alive
    /\ Undefined

Served(t, result) ==
    /\ answer' = [answer EXCEPT ![t] = result]
    /\ UNCHANGED <<binding, guards, is_initialized, lists, pool, init, p, bounds, misused,
                   broken>>

\* Any other back end, whose search is the subject of PowSearch and GpuSearch.
Pow(t) ==
    /\ p[t] \in alive \ {Fpga}
    /\ Move(t, "take", "exit")
    /\ \E result \in {None, OwnOutput(Job(t))} : Served(t, result)
    /\ UNCHANGED fpgaVars

TakeFpga(t) ==
    /\ p[t] \in alive \cap {Fpga}
    /\ Move(t, "take", "pow")
    /\ GetPowContext(t, Job(t))
    /\ UNCHANGED rest

PowOnFpga(t) ==
    /\ pc[t] = "pow" /\ p[t] \in alive
    /\ Dialogue(t)
    /\ UNCHANGED <<pc, rest>>

\* get_pow_result, which has to allocate the result.
FpgaServed(t) ==
    /\ p[t] \in alive
    /\ Move(t, "pow", "exit")
    /\ \/ Goto(t, "succeeded", "idle") /\ \E result \in {None, output} : Served(t, result)
       \/ Goto(t, "failed", "idle") /\ Served(t, None)
    /\ UNCHANGED <<stage, held, context, device>>

\* exit_impl_context; the static structure of the implementation outlives its
\* destruction.
Exit(t) ==
    /\ Move(t, "exit", "post")
    /\ num_working' = [num_working EXCEPT ![p[t]] = @ - 1]
    /\ UNCHANGED <<fpgaVars, binding, guards, is_initialized, lists, notify, init, p, answer,
                   bounds, misused, broken>>

NotPosted == notify \* mutant
Posted == notify + 1

Post(t) ==
    /\ Move(t, "post", "return")
    /\ notify' = Posted
    /\ UNCHANGED <<fpgaVars, binding, guards, is_initialized, lists, num_working, init, p,
                   answer, bounds, misused, broken>>

\* The wrappers in Java and Go read the result without a test for NULL.
NullResult(t) == binding \in {"jni", "go"} /\ answer[t] = None

\* The result goes to the caller, the locals end.
Return(t) ==
    /\ ~NullResult(t)
    /\ Move(t, "return", "idle")
    /\ DcurlEntryMutex' = IF DcurlEntryMutex = t THEN Nobody ELSE DcurlEntryMutex
    /\ p' = [p EXCEPT ![t] = ImplList]
    /\ answer' = [answer EXCEPT ![t] = None]
    /\ UNCHANGED <<fpgaVars, binding, compat, mtx, is_initialized, lists, pool, init, bounds,
                   misused, broken>>

ReadNull(t) ==
    /\ pc[t] = "return" /\ NullResult(t)
    /\ broken' = "null"
    /\ UNCHANGED <<fpgaVars, pc, binding, guards, is_initialized, lists, pool, init, p,
                   answer, bounds, misused>>

-----------------------------------------------------------------------------
InitSteps(a) ==
    Register(a) \/ RegisterFpga(a) \/ FpgaAttempted(a) \/ InitReturns(a) \/ InitBesideSleeper(a)

DestroySteps == DestroyNode \/ DestroyTwice \/ Unlink \/ DestroyReturns

CallSteps(t) ==
    \/ SyncLock(t) \/ CcurlInit(t) \/ CcurlInitialized(t) \/ CcurlSkip(t)
    \/ EntryRefused(t) \/ EntryScan(t) \/ Enter(t) \/ ScanNext(t) \/ Wake(t)
    \/ UseAfterDestroy(t) \/ Pow(t) \/ TakeFpga(t) \/ PowOnFpga(t) \/ FpgaServed(t)
    \/ Exit(t) \/ Post(t) \/ Return(t) \/ ReadNull(t)

\* Bound: once the protocol is broken what is in progress runs on, and nothing new
\* begins.
Application ==
    /\ ~misused
    /\ BeginInit \/ BeginDestroy \/ \E t \in Threads : CallEntry(t) \/ CallLocked(t)

FpgaDone == DeviceDone /\ UNCHANGED <<pc, rest>>

Running == broken = "no"

Next ==
    /\ Running
    /\ \/ Application
       \/ DestroySteps
       \/ FpgaDone
       \/ \E a \in Actors : InitSteps(a)
       \/ \E t \in Threads : CallSteps(t)

Spec == Init /\ [][Next]_vars

\* Every thread runs on and the device ends its work; nothing makes the
\* application initialise, destroy or call.
FairSpec ==
    /\ Spec
    /\ \A a \in Actors : WF_vars(Running /\ InitSteps(a))
    /\ \A t \in Threads : WF_vars(Running /\ CallSteps(t))
    /\ WF_vars(Running /\ DestroySteps)
    /\ WF_vars(Running /\ FpgaDone)

-----------------------------------------------------------------------------
(* Properties. *)

Steps ==
    {"idle", "lock", "register", "initialized", "entry", "scan", "take", "pow", "exit",
     "post", "return", "destroy", "unlink"}
Nodes == Impls \cup {ImplList}
Pointers == Nodes \cup {None}
Contents == Jobs \cup {None}
Results == {None} \cup {Output(i, n) : i, n \in Contents}
DialogueSteps == {"write_input", "write_mwm", "read_status", "read_nonce", "output"}
FpgaSteps == {"idle", "acquire", "succeeded", "failed"} \cup DialogueSteps

GuardTypes ==
    /\ binding \in Bindings /\ compat \in BOOLEAN
    /\ mtx \in Threads \cup {Nobody} /\ DcurlEntryMutex \in Threads \cup {Nobody}
ListTypes ==
    /\ mem \in [Nodes -> [prev : Pointers, next : Pointers]]
    /\ alive \subseteq Impls /\ p \in [Actors -> Nodes]
PoolTypes == num_working \in [Impls -> {0, 1}] /\ notify \in Nat
InitTypes ==
    /\ is_initialized \in BOOLEAN /\ ret \in [Actors -> BOOLEAN]
    /\ at \in [Actors -> 1 .. Len(Order) + 1]
CallTypes ==
    /\ pc \in [Actors -> Steps] /\ calls \in [Threads -> 0 .. MaxCalls]
    /\ inits \in Nat /\ destroys \in 0 .. MaxDestroys
    /\ misused \in BOOLEAN /\ broken \in {"no", "undefined", "null"}
FpgaTypes ==
    /\ stage \in [Actors -> DOMAIN Resources] /\ held \in [ResourceSet -> Int]
    /\ step \in [Actors -> FpgaSteps]
    /\ fpga_out_nonce_trit \in [Actors -> Contents]
    /\ {input, idata, running, odata} \subseteq Contents /\ output \in Results

\* The types of all variables.
TypeOK ==
    /\ GuardTypes /\ ListTypes /\ PoolTypes /\ InitTypes /\ CallTypes /\ FpgaTypes
    /\ answer \in [Threads -> Results]

\* No back end works on freed memory, no context is freed twice and no semaphore
\* is initialised under a sleeper, however often the library is initialised and
\* destroyed, as long as both happen alone and in turns.
SafeUnlessMisused == broken = "undefined" => misused

Settled == \A a \in Actors : ~Initialising(a) /\ ~Destroying(a)

\* What dcurl_init makes of the implementations in A, after each of Order: the one
\* registered last is in front.
ListsOf(A) ==
    LET Upto[k \in 0 .. Len(Order)] ==
            IF k = 0 THEN <<>>
            ELSE IF Order[k] \in A THEN <<Order[k]>> \o Upto[k - 1]
            ELSE Upto[k - 1]
    IN  Upto
ListOf(A) == ListsOf(A)[Len(Order)]

\* Between init and destroy the list holds exactly the implementations whose
\* context exists, the one registered last in front, and dcurl_entry answers
\* NULL only when there is none.
RegistryExact ==
    Settled /\ ~misused =>
        /\ IsList(mem, ImplList, ListOf(alive))
        /\ alive # {} => is_initialized

\* The FPGA's files, mapping and context are held once while it is registered and
\* not at all otherwise, also after an initialisation that failed half-way.
NothingLeaked ==
    Settled /\ ~misused =>
        \A x \in ResourceSet : held[x] = IF Fpga \in alive THEN 1 ELSE 0

\* However first calls of ccurl_pow overlap, one of them initialises, and no other
\* is past the mutex before the list is complete.
CompatInitOnce ==
    binding = "ccurl" =>
        /\ inits <= 1
        /\ \A a, t \in Threads : ~(Initialising(a) /\ PastGuard(t))

\* What a call returns is its own transaction with a nonce the device computed for
\* it, also after a call that failed while the device was still at work: then because
\* the device drops that work (ControlRestarts), for pow_fpga.c does nothing about it.
NonceIsOwn ==
    \A t \in Threads : answer[t] \in {None, OwnOutput(Job(t))}

\* A call that found the library initialised returns, unless it was destroyed
\* before: is_initialized stays set and the call waits at an empty list.
CallReturns(t) == PastGuard(t) ~> (pc[t] = "idle" \/ alive = {} \/ misused \/ ~Running)
CallsReturn == \A t \in Threads : CallReturns(t)

-----------------------------------------------------------------------------
(* The inductive invariants behind the safety properties. *)

\* Whatever the application does: who was once added points to such nodes only.
Touched == {x \in Nodes : mem[x].next # None}
MemInv ==
    /\ ImplList \in Touched
    /\ \A x \in Touched : mem[x].next \in Touched /\ mem[x].prev \in Touched
    /\ \A a \in Actors : p[a] \in Touched

\* A place is held by one call, and a call holds one place.
InService(t) == pc[t] \in {"take", "pow", "exit"}
CallInv(t) ==
    /\ InService(t) => p[t] \in Impls /\ num_working[p[t]] = 1
    /\ \A u \in Threads : InService(t) /\ InService(u) /\ p[t] = p[u] => t = u
    /\ pc[t] = "pow" => p[t] = Fpga
    /\ pc[t] \notin {"exit", "post", "return"} => answer[t] = None
    /\ pc[t] # "idle" => calls[t] >= 1
    /\ ~Destroying(t)
ServiceInv ==
    /\ \A t \in Threads : CallInv(t)
    /\ pc[App] \in {"idle", "register", "destroy", "unlink"}

\* An actor is in a function of pow_fpga.c while it registers the FPGA or searches
\* on it.
StepInv ==
    \A a \in Actors :
        /\ pc[a] = "pow" => step[a] \in DialogueSteps \cup {"succeeded", "failed"}
        /\ Initialising(a) => step[a] \in {"idle", "acquire", "succeeded", "failed"}
        /\ Initialising(a) /\ step[a] # "idle" => MoreToRegister(a) /\ Current(a) = Fpga
        /\ pc[a] # "pow" /\ ~Initialising(a) => step[a] = "idle"

\* How far the dialogue with the device has come.
DataOf(t) ==
    /\ input = Job(t)
    /\ step[t] = "write_mwm" => idata = Job(t)
    /\ step[t] = "read_status" =>
          running = Job(t) \/ (running = None /\ odata = Job(t))
    /\ step[t] = "read_nonce" => running = None /\ odata = Job(t)
    /\ step[t] = "output" => fpga_out_nonce_trit[t] = Job(t)
    /\ step[t] = "succeeded" => output = OwnOutput(Job(t))
DataInv == \A t \in Threads : pc[t] = "pow" => DataOf(t)

\* One initialisation behind the mutex of ccurl_pow, and nobody past it before.
InInit(t) == pc[t] \in {"register", "initialized"}
CompatInv ==
    /\ \A t \in Threads : InInit(t) => binding = "ccurl" /\ mtx = t
    /\ mtx # Nobody => InInit(mtx) /\ ~compat
    /\ binding = "ccurl" =>
          /\ pc[App] # "register"
          /\ inits = IF compat \/ mtx # Nobody THEN 1 ELSE 0
          /\ ~compat => \A t \in Threads : ~PastGuard(t)

\* While the application keeps to the protocol. The list holds the living
\* implementations and, between destroy and list_del, the one just destroyed.
Linked == alive \cup IF pc[App] = "unlink" THEN {p[App]} ELSE {}
ListInv ==
    /\ IsList(mem, ImplList, ListOf(Linked))
    /\ pc[App] = "unlink" =>
          Len(ListOf(Linked)) > 0 /\ p[App] = ListOf(Linked)[1] /\ p[App] \notin alive
    /\ pc[App] = "destroy" => p[App] = mem[ImplList].next
TurnInv ==
    /\ pc[App] # "idle" => \A t \in Threads : pc[t] = "idle"
    /\ \A a \in Actors : Initialising(a) =>
          \A k \in at[a] .. Len(Order) : Order[k] \notin alive
    /\ binding = "ccurl" /\ inits = 0 => alive = {}
    /\ \A t \in Threads :
          /\ pc[t] = "scan" => p[t] \in alive \cup {ImplList}
          /\ Serving(t) => p[t] \in alive
LifeInv == misused \/ (ListInv /\ TurnInv)

\* The flag follows what was registered: in dcurl_init by ret, then by itself.
RegisteredInv ==
    /\ \A a \in Actors : Initialising(a) /\ alive # {} => ret[a]
    /\ alive # {} => is_initialized \/ \E a \in Actors : Initialising(a)
FlagInv == misused \/ RegisteredInv

\* at and ret of an actor that is not in dcurl_init.
AtInv == \A a \in Actors : Initialising(a) \/ at[a] = 1

\* What is held is held by the registered FPGA or by who is about to register it.
StageInv == \A a \in Actors : step[a] # "acquire" => stage[a] = 1
Acquired(a, x) ==
    /\ Initialising(a)
    /\ step[a] = "succeeded" \/ (step[a] = "acquire" /\ x \in Unwound(stage[a]))
HeldBy(x) == Fpga \in alive \/ \E a \in Actors : Acquired(a, x)
HeldInv == misused \/ \A x \in ResourceSet : held[x] = IF HeldBy(x) THEN 1 ELSE 0
=============================================================================
