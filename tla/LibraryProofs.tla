---------------------------- MODULE LibraryProofs ----------------------------
(***************************************************************************)
(* Proofs about Library, for any number of callers, calls, implementations *)
(* and lives of the library.                                               *)
(***************************************************************************)
EXTENDS Library, DataProofs

\* What the assumptions on the constants say, in the form the proofs use it.
LEMMA ConstantFacts ==
    /\ Len(Order) \in Nat /\ DOMAIN Order = 1 .. Len(Order)
    /\ \A k \in 1 .. Len(Order) : Order[k] \in Impls
    /\ \A j, k \in 1 .. Len(Order) : j # k => Order[j] # Order[k]
    /\ ImplList \notin Impls /\ None \notin Nodes /\ ImplList \in Nodes /\ Impls \subseteq Nodes
    /\ Threads \subseteq Actors /\ App \in Actors /\ App \notin Threads
    /\ Nobody \notin Actors /\ None \notin Jobs
<1>1. Len(Order) \in Nat /\ DOMAIN Order = 1 .. Len(Order)
  BY OrderAssumption
<1> QED
  BY <1>1, OrderAssumption, ActorAssumption DEF Impls, Nodes

\* The resources in order.
LEMMA ResourceFacts ==
    /\ Len(Resources) = 6 /\ DOMAIN Resources = 1 .. 6
    /\ \A k \in 1 .. 6 : Resources[k] \in ResourceSet
BY DEF Resources, ResourceSet

-----------------------------------------------------------------------------
(* Which steps change what.                                                *)

\* The flags and the mutexes of the bindings.
LEMMA GuardsFrame ==
    Next =>
        \/ UNCHANGED guards
        \/ \E t \in Threads : SyncLock(t) \/ CcurlInit(t) \/ CcurlInitialized(t) \/
              Return(t)
<1>1. CASE Application
  BY <1>1 DEF Application, BeginInit, Move, BeginDestroy, CallEntry, Begin, CallLocked,
         vars, rest, guards, init, lists, pool, bounds, fpgaVars, context, device
<1>2. CASE DestroySteps
  BY <1>2 DEF DestroySteps, DestroyNode, Move, Released, DestroyTwice, Undefined,
         Unlink, DestroyReturns, vars, rest, guards, init, lists, pool, bounds,
         fpgaVars, context, device
<1>3. CASE FpgaDone
  BY <1>3 DEF FpgaDone, DeviceDone, vars, rest, guards, init, lists, pool, bounds,
         fpgaVars, context, device
<1>4. CASE \E a \in Actors : InitSteps(a)
  BY <1>4 DEF InitSteps, Register, MoreToRegister, Registered, NotRegistered,
         Initialising, RegisterFpga, Initialize, Acquire, CannotAcquire, Goto,
         FpgaAttempted, InitReturns, Restarted, InitBesideSleeper, Undefined, vars,
         rest, guards, init, lists, pool, bounds, fpgaVars, context, device
<1>5. CASE \E t \in Threads : CallSteps(t)
  BY <1>5 DEF CallSteps, CcurlSkip, Move, EntryRefused, EntryScan, Enter, ScanNext,
         Wake, UseAfterDestroy, Undefined, Pow, Served, TakeFpga, GetPowContext, Goto,
         PowOnFpga, Dialogue, WriteInput, WriteMwm, ReadStatus, ReadNonce, WriteOutput,
         PowFails, FpgaServed, Exit, Post, ReadNull, vars, rest, guards, init, lists,
         pool, bounds, fpgaVars, context, device
<1> QED
  BY <1>1, <1>2, <1>3, <1>4, <1>5 DEF Next

\* The list and the contexts.
LEMMA ListsFrame ==
    Next =>
        \/ UNCHANGED lists
        \/ DestroyNode \/ Unlink
        \/ \E a \in Actors : Register(a) \/ FpgaAttempted(a)
<1>1. CASE Application
  BY <1>1 DEF Application, BeginInit, Move, BeginDestroy, CallEntry, Begin, CallLocked,
         vars, rest, guards, init, lists, pool, bounds, fpgaVars, context, device
<1>2. CASE DestroySteps
  BY <1>2 DEF DestroySteps, DestroyTwice, Undefined, DestroyReturns, Move, vars, rest,
         guards, init, lists, pool, bounds, fpgaVars, context, device
<1>3. CASE FpgaDone
  BY <1>3 DEF FpgaDone, DeviceDone, vars, rest, guards, init, lists, pool, bounds,
         fpgaVars, context, device
<1>4. CASE \E a \in Actors : InitSteps(a)
  BY <1>4 DEF InitSteps, RegisterFpga, MoreToRegister, Initialize, Acquire,
         CannotAcquire, Goto, Initialising, InitReturns, Restarted, InitBesideSleeper,
         Undefined, vars, rest, guards, init, lists, pool, bounds, fpgaVars, context,
         device
<1>5. CASE \E t \in Threads : CallSteps(t)
  BY <1>5 DEF CallSteps, SyncLock, Move, CcurlInit, CcurlInitialized, CcurlSkip,
         EntryRefused, EntryScan, Enter, ScanNext, Wake, UseAfterDestroy, Undefined,
         Pow, Served, TakeFpga, GetPowContext, Goto, PowOnFpga, Dialogue, WriteInput,
         WriteMwm, ReadStatus, ReadNonce, WriteOutput, PowFails, FpgaServed, Exit, Post,
         Return, ReadNull, vars, rest, guards, init, lists, pool, bounds, fpgaVars,
         context, device
<1> QED
  BY <1>1, <1>2, <1>3, <1>4, <1>5 DEF Next

\* The places and the semaphore.
LEMMA PoolFrame ==
    Next =>
        \/ UNCHANGED pool
        \/ \E a \in Actors : InitReturns(a)
        \/ \E t \in Threads : Enter(t) \/ Exit(t) \/ Post(t) \/ Wake(t)
<1>1. CASE Application
  BY <1>1 DEF Application, BeginInit, Move, BeginDestroy, CallEntry, Begin, CallLocked,
         vars, rest, guards, init, lists, pool, bounds, fpgaVars, context, device
<1>2. CASE DestroySteps
  BY <1>2 DEF DestroySteps, DestroyNode, Move, Released, DestroyTwice, Undefined,
         Unlink, DestroyReturns, vars, rest, guards, init, lists, pool, bounds,
         fpgaVars, context, device
<1>3. CASE FpgaDone
  BY <1>3 DEF FpgaDone, DeviceDone, vars, rest, guards, init, lists, pool, bounds,
         fpgaVars, context, device
<1>4. CASE \E a \in Actors : InitSteps(a)
  BY <1>4 DEF InitSteps, Register, MoreToRegister, Registered, NotRegistered,
         Initialising, RegisterFpga, Initialize, Acquire, CannotAcquire, Goto,
         FpgaAttempted, InitBesideSleeper, Undefined, vars, rest, guards, init, lists,
         pool, bounds, fpgaVars, context, device
<1>5. CASE \E t \in Threads : CallSteps(t)
  BY <1>5 DEF CallSteps, SyncLock, Move, CcurlInit, CcurlInitialized, CcurlSkip,
         EntryRefused, EntryScan, ScanNext, UseAfterDestroy, Undefined, Pow, Served,
         TakeFpga, GetPowContext, Goto, PowOnFpga, Dialogue, WriteInput, WriteMwm,
         ReadStatus, ReadNonce, WriteOutput, PowFails, FpgaServed, Return, ReadNull,
         vars, rest, guards, init, lists, pool, bounds, fpgaVars, context, device
<1> QED
  BY <1>1, <1>2, <1>3, <1>4, <1>5 DEF Next

\* The locals of dcurl_init and its flag.
LEMMA InitFrame ==
    Next =>
        \/ UNCHANGED <<is_initialized, init>>
        \/ \E a \in Actors : Register(a) \/ FpgaAttempted(a) \/ InitReturns(a)
<1>1. CASE Application
  BY <1>1 DEF Application, BeginInit, Move, BeginDestroy, CallEntry, Begin, CallLocked,
         vars, rest, guards, init, lists, pool, bounds, fpgaVars, context, device
<1>2. CASE DestroySteps
  BY <1>2 DEF DestroySteps, DestroyNode, Move, Released, DestroyTwice, Undefined,
         Unlink, DestroyReturns, vars, rest, guards, init, lists, pool, bounds,
         fpgaVars, context, device
<1>3. CASE FpgaDone
  BY <1>3 DEF FpgaDone, DeviceDone, vars, rest, guards, init, lists, pool, bounds,
         fpgaVars, context, device
<1>4. CASE \E a \in Actors : InitSteps(a)
  BY <1>4 DEF InitSteps, RegisterFpga, MoreToRegister, Initialize, Acquire,
         CannotAcquire, Goto, Initialising, InitBesideSleeper, Undefined, vars, rest,
         guards, init, lists, pool, bounds, fpgaVars, context, device
<1>5. CASE \E t \in Threads : CallSteps(t)
  BY <1>5 DEF CallSteps, SyncLock, Move, CcurlInit, CcurlInitialized, CcurlSkip,
         EntryRefused, EntryScan, Enter, ScanNext, Wake, UseAfterDestroy, Undefined,
         Pow, Served, TakeFpga, GetPowContext, Goto, PowOnFpga, Dialogue, WriteInput,
         WriteMwm, ReadStatus, ReadNonce, WriteOutput, PowFails, FpgaServed, Exit, Post,
         Return, ReadNull, vars, rest, guards, init, lists, pool, bounds, fpgaVars,
         context, device
<1> QED
  BY <1>1, <1>2, <1>3, <1>4, <1>5 DEF Next

\* The iterators.
LEMMA PointerFrame ==
    Next =>
        \/ UNCHANGED p
        \/ BeginDestroy \/ Unlink
        \/ \E t \in Threads : EntryScan(t) \/ ScanNext(t) \/ Wake(t) \/ Return(t)
<1>1. CASE Application
  BY <1>1 DEF Application, BeginInit, Move, CallEntry, Begin, CallLocked, vars, rest,
         guards, init, lists, pool, bounds, fpgaVars, context, device
<1>2. CASE DestroySteps
  BY <1>2 DEF DestroySteps, DestroyNode, Move, Released, DestroyTwice, Undefined,
         DestroyReturns, vars, rest, guards, init, lists, pool, bounds, fpgaVars,
         context, device
<1>3. CASE FpgaDone
  BY <1>3 DEF FpgaDone, DeviceDone, vars, rest, guards, init, lists, pool, bounds,
         fpgaVars, context, device
<1>4. CASE \E a \in Actors : InitSteps(a)
  BY <1>4 DEF InitSteps, Register, MoreToRegister, Registered, NotRegistered,
         Initialising, RegisterFpga, Initialize, Acquire, CannotAcquire, Goto,
         FpgaAttempted, InitReturns, Restarted, InitBesideSleeper, Undefined, vars,
         rest, guards, init, lists, pool, bounds, fpgaVars, context, device
<1>5. CASE \E t \in Threads : CallSteps(t)
  BY <1>5 DEF CallSteps, SyncLock, Move, CcurlInit, CcurlInitialized, CcurlSkip,
         EntryRefused, Enter, UseAfterDestroy, Undefined, Pow, Served, TakeFpga,
         GetPowContext, Goto, PowOnFpga, Dialogue, WriteInput, WriteMwm, ReadStatus,
         ReadNonce, WriteOutput, PowFails, FpgaServed, Exit, Post, ReadNull, vars, rest,
         guards, init, lists, pool, bounds, fpgaVars, context, device
<1> QED
  BY <1>1, <1>2, <1>3, <1>4, <1>5 DEF Next

\* The results.
LEMMA AnswerFrame ==
    Next =>
        \/ UNCHANGED answer
        \/ \E t \in Threads : Pow(t) \/ FpgaServed(t) \/ Return(t)
<1>1. CASE Application
  BY <1>1 DEF Application, BeginInit, Move, BeginDestroy, CallEntry, Begin, CallLocked,
         vars, rest, guards, init, lists, pool, bounds, fpgaVars, context, device
<1>2. CASE DestroySteps
  BY <1>2 DEF DestroySteps, DestroyNode, Move, Released, DestroyTwice, Undefined,
         Unlink, DestroyReturns, vars, rest, guards, init, lists, pool, bounds,
         fpgaVars, context, device
<1>3. CASE FpgaDone
  BY <1>3 DEF FpgaDone, DeviceDone, vars, rest, guards, init, lists, pool, bounds,
         fpgaVars, context, device
<1>4. CASE \E a \in Actors : InitSteps(a)
  BY <1>4 DEF InitSteps, Register, MoreToRegister, Registered, NotRegistered,
         Initialising, RegisterFpga, Initialize, Acquire, CannotAcquire, Goto,
         FpgaAttempted, InitReturns, Restarted, InitBesideSleeper, Undefined, vars,
         rest, guards, init, lists, pool, bounds, fpgaVars, context, device
<1>5. CASE \E t \in Threads : CallSteps(t)
  BY <1>5 DEF CallSteps, SyncLock, Move, CcurlInit, CcurlInitialized, CcurlSkip,
         EntryRefused, EntryScan, Enter, ScanNext, Wake, UseAfterDestroy, Undefined,
         TakeFpga, GetPowContext, Goto, PowOnFpga, Dialogue, WriteInput, WriteMwm,
         ReadStatus, ReadNonce, WriteOutput, PowFails, Exit, Post, ReadNull, vars, rest,
         guards, init, lists, pool, bounds, fpgaVars, context, device
<1> QED
  BY <1>1, <1>2, <1>3, <1>4, <1>5 DEF Next

\* What the application has done.
LEMMA BoundsFrame ==
    Next =>
        \/ UNCHANGED <<bounds, misused>>
        \/ BeginInit \/ BeginDestroy
        \/ \E t \in Threads : CallEntry(t) \/ CallLocked(t) \/ CcurlInit(t)
<1>1. CASE Application
  BY <1>1 DEF Application, vars, rest, guards, init, lists, pool, bounds, fpgaVars,
         context, device
<1>2. CASE DestroySteps
  BY <1>2 DEF DestroySteps, DestroyNode, Move, Released, DestroyTwice, Undefined,
         Unlink, DestroyReturns, vars, rest, guards, init, lists, pool, bounds,
         fpgaVars, context, device
<1>3. CASE FpgaDone
  BY <1>3 DEF FpgaDone, DeviceDone, vars, rest, guards, init, lists, pool, bounds,
         fpgaVars, context, device
<1>4. CASE \E a \in Actors : InitSteps(a)
  BY <1>4 DEF InitSteps, Register, MoreToRegister, Registered, NotRegistered,
         Initialising, RegisterFpga, Initialize, Acquire, CannotAcquire, Goto,
         FpgaAttempted, InitReturns, Restarted, InitBesideSleeper, Undefined, vars,
         rest, guards, init, lists, pool, bounds, fpgaVars, context, device
<1>5. CASE \E t \in Threads : CallSteps(t)
  BY <1>5 DEF CallSteps, SyncLock, Move, CcurlInitialized, CcurlSkip, EntryRefused,
         EntryScan, Enter, ScanNext, Wake, UseAfterDestroy, Undefined, Pow, Served,
         TakeFpga, GetPowContext, Goto, PowOnFpga, Dialogue, WriteInput, WriteMwm,
         ReadStatus, ReadNonce, WriteOutput, PowFails, FpgaServed, Exit, Post, Return,
         ReadNull, vars, rest, guards, init, lists, pool, bounds, fpgaVars, context,
         device
<1> QED
  BY <1>1, <1>2, <1>3, <1>4, <1>5 DEF Next

\* The FPGA and its back end.
LEMMA FpgaFrame ==
    Next =>
        \/ UNCHANGED fpgaVars
        \/ DestroyNode \/ FpgaDone
        \/ \E a \in Actors : RegisterFpga(a) \/ FpgaAttempted(a)
        \/ \E t \in Threads : TakeFpga(t) \/ PowOnFpga(t) \/ FpgaServed(t)
<1>1. CASE Application
  BY <1>1 DEF Application, BeginInit, Move, BeginDestroy, CallEntry, Begin, CallLocked,
         vars, rest, guards, init, lists, pool, bounds, fpgaVars, context, device
<1>2. CASE DestroySteps
  BY <1>2 DEF DestroySteps, DestroyTwice, Undefined, Unlink, Move, DestroyReturns, vars,
         rest, guards, init, lists, pool, bounds, fpgaVars, context, device
<1>3. CASE FpgaDone
  BY <1>3 DEF vars, rest, guards, init, lists, pool, bounds, fpgaVars, context, device
<1>4. CASE \E a \in Actors : InitSteps(a)
  BY <1>4 DEF InitSteps, Register, MoreToRegister, Registered, NotRegistered,
         Initialising, InitReturns, Restarted, InitBesideSleeper, Undefined, vars, rest,
         guards, init, lists, pool, bounds, fpgaVars, context, device
<1>5. CASE \E t \in Threads : CallSteps(t)
  BY <1>5 DEF CallSteps, SyncLock, Move, CcurlInit, CcurlInitialized, CcurlSkip,
         EntryRefused, EntryScan, Enter, ScanNext, Wake, UseAfterDestroy, Undefined,
         Pow, Served, Exit, Post, Return, ReadNull, vars, rest, guards, init, lists,
         pool, bounds, fpgaVars, context, device
<1> QED
  BY <1>1, <1>2, <1>3, <1>4, <1>5 DEF Next

\* How the library is used.
LEMMA BindingFrame ==
    Next =>
        \/ UNCHANGED binding
<1>1. CASE Application
  BY <1>1 DEF Application, BeginInit, Move, BeginDestroy, CallEntry, Begin, CallLocked,
         vars, rest, guards, init, lists, pool, bounds, fpgaVars, context, device
<1>2. CASE DestroySteps
  BY <1>2 DEF DestroySteps, DestroyNode, Move, Released, DestroyTwice, Undefined,
         Unlink, DestroyReturns, vars, rest, guards, init, lists, pool, bounds,
         fpgaVars, context, device
<1>3. CASE FpgaDone
  BY <1>3 DEF FpgaDone, DeviceDone, vars, rest, guards, init, lists, pool, bounds,
         fpgaVars, context, device
<1>4. CASE \E a \in Actors : InitSteps(a)
  BY <1>4 DEF InitSteps, Register, MoreToRegister, Registered, NotRegistered,
         Initialising, RegisterFpga, Initialize, Acquire, CannotAcquire, Goto,
         FpgaAttempted, InitReturns, Restarted, InitBesideSleeper, Undefined, vars,
         rest, guards, init, lists, pool, bounds, fpgaVars, context, device
<1>5. CASE \E t \in Threads : CallSteps(t)
  BY <1>5 DEF CallSteps, SyncLock, Move, CcurlInit, CcurlInitialized, CcurlSkip,
         EntryRefused, EntryScan, Enter, ScanNext, Wake, UseAfterDestroy, Undefined,
         Pow, Served, TakeFpga, GetPowContext, Goto, PowOnFpga, Dialogue, WriteInput,
         WriteMwm, ReadStatus, ReadNonce, WriteOutput, PowFails, FpgaServed, Exit, Post,
         Return, ReadNull, vars, rest, guards, init, lists, pool, bounds, fpgaVars,
         context, device
<1> QED
  BY <1>1, <1>2, <1>3, <1>4, <1>5 DEF Next

\* The end of the process.
LEMMA BrokenFrame ==
    Next =>
        \/ UNCHANGED broken
        \/ DestroyTwice
        \/ \E a \in Actors : InitBesideSleeper(a)
        \/ \E t \in Threads : UseAfterDestroy(t) \/ ReadNull(t)
<1>1. CASE Application
  BY <1>1 DEF Application, BeginInit, Move, BeginDestroy, CallEntry, Begin, CallLocked,
         vars, rest, guards, init, lists, pool, bounds, fpgaVars, context, device
<1>2. CASE DestroySteps
  BY <1>2 DEF DestroySteps, DestroyNode, Move, Released, Unlink, DestroyReturns, vars,
         rest, guards, init, lists, pool, bounds, fpgaVars, context, device
<1>3. CASE FpgaDone
  BY <1>3 DEF FpgaDone, DeviceDone, vars, rest, guards, init, lists, pool, bounds,
         fpgaVars, context, device
<1>4. CASE \E a \in Actors : InitSteps(a)
  BY <1>4 DEF InitSteps, Register, MoreToRegister, Registered, NotRegistered,
         Initialising, RegisterFpga, Initialize, Acquire, CannotAcquire, Goto,
         FpgaAttempted, InitReturns, Restarted, vars, rest, guards, init, lists, pool,
         bounds, fpgaVars, context, device
<1>5. CASE \E t \in Threads : CallSteps(t)
  BY <1>5 DEF CallSteps, SyncLock, Move, CcurlInit, CcurlInitialized, CcurlSkip,
         EntryRefused, EntryScan, Enter, ScanNext, Wake, Pow, Served, TakeFpga,
         GetPowContext, Goto, PowOnFpga, Dialogue, WriteInput, WriteMwm, ReadStatus,
         ReadNonce, WriteOutput, PowFails, FpgaServed, Exit, Post, Return, vars, rest,
         guards, init, lists, pool, bounds, fpgaVars, context, device
<1> QED
  BY <1>1, <1>2, <1>3, <1>4, <1>5 DEF Next

\* The steps of the actors.
LEMMA PcFrame ==
    Next =>
        \/ UNCHANGED pc
        \/ BeginInit \/ BeginDestroy \/ DestroyNode \/ Unlink \/ DestroyReturns
        \/ \E a \in Actors : InitReturns(a)
        \/ \E t \in Threads : CallEntry(t) \/ CallLocked(t) \/ SyncLock(t) \/
              CcurlInit(t) \/ CcurlInitialized(t) \/ CcurlSkip(t) \/ EntryRefused(t) \/
              EntryScan(t) \/ Enter(t) \/ Pow(t) \/ TakeFpga(t) \/ FpgaServed(t) \/
              Exit(t) \/ Post(t) \/ Return(t)
<1>1. CASE Application
  BY <1>1 DEF Application, vars, rest, guards, init, lists, pool, bounds, fpgaVars,
         context, device
<1>2. CASE DestroySteps
  BY <1>2 DEF DestroySteps, DestroyTwice, Undefined, vars, rest, guards, init, lists,
         pool, bounds, fpgaVars, context, device
<1>3. CASE FpgaDone
  BY <1>3 DEF FpgaDone, DeviceDone, vars, rest, guards, init, lists, pool, bounds,
         fpgaVars, context, device
<1>4. CASE \E a \in Actors : InitSteps(a)
  BY <1>4 DEF InitSteps, Register, MoreToRegister, Registered, NotRegistered,
         Initialising, RegisterFpga, Initialize, Acquire, CannotAcquire, Goto,
         FpgaAttempted, InitBesideSleeper, Undefined, vars, rest, guards, init, lists,
         pool, bounds, fpgaVars, context, device
<1>5. CASE \E t \in Threads : CallSteps(t)
  BY <1>5 DEF CallSteps, ScanNext, Wake, UseAfterDestroy, Undefined, PowOnFpga,
         Dialogue, WriteInput, WriteMwm, ReadStatus, ReadNonce, WriteOutput, PowFails,
         Goto, ReadNull, vars, rest, guards, init, lists, pool, bounds, fpgaVars,
         context, device
<1> QED
  BY <1>1, <1>2, <1>3, <1>4, <1>5 DEF Next

-----------------------------------------------------------------------------
(* Type correctness.                                                       *)

\* The flags and the mutexes.
LEMMA GuardTypesStep ==
    GuardTypes /\ PoolTypes /\ Next => GuardTypes'
<1> SUFFICES ASSUME GuardTypes, PoolTypes, Next
             PROVE  GuardTypes'
  OBVIOUS
<1>1. ASSUME NEW t \in Threads, SyncLock(t)
     PROVE  GuardTypes'
  BY <1>1, ConstantFacts DEF SyncLock, Move, GuardTypes, guards, init, lists, pool,
         bounds, rest, fpgaVars, context, device
<1>2. ASSUME NEW t \in Threads, CcurlInit(t)
     PROVE  GuardTypes'
  BY <1>2, ConstantFacts DEF CcurlInit, Move, GuardTypes, guards, init, lists, pool,
         bounds, rest, fpgaVars, context, device
<1>3. ASSUME NEW t \in Threads, CcurlInitialized(t)
     PROVE  GuardTypes'
  BY <1>3, ConstantFacts DEF CcurlInitialized, Move, GuardTypes, guards, init, lists,
         pool, bounds, rest, fpgaVars, context, device
<1>4. ASSUME NEW t \in Threads, Return(t)
     PROVE  GuardTypes'
  BY <1>4, ConstantFacts DEF Return, Move, GuardTypes, guards, init, lists, pool,
         bounds, rest, fpgaVars, context, device
<1>5. CASE UNCHANGED <<guards, binding>>
  BY <1>5, ConstantFacts DEF GuardTypes, guards
<1> QED
  BY <1>1, <1>2, <1>3, <1>4, <1>5, GuardsFrame, BindingFrame DEF guards

\* A place is entered when it is free and left when it is held.
LEMMA PoolTypesStep ==
    PoolTypes /\ ListTypes /\ ServiceInv /\ Next => PoolTypes'
<1> SUFFICES ASSUME PoolTypes, ListTypes, ServiceInv, Next
             PROVE  PoolTypes'
  OBVIOUS
<1>1. ASSUME NEW t \in Threads, Enter(t)
     PROVE  PoolTypes'
  BY <1>1, ConstantFacts DEF Enter, Move, HasPlace, Nodes, PoolTypes, ListTypes, pool,
         guards, init, lists, bounds, rest, fpgaVars, context, device
<1>2. ASSUME NEW t \in Threads, Exit(t)
     PROVE  PoolTypes'
  BY <1>2, ConstantFacts DEF Exit, Move, ServiceInv, CallInv, InService, PoolTypes,
         ListTypes, pool, guards, init, lists, bounds, rest, fpgaVars, context, device
<1>3. ASSUME NEW t \in Threads, Post(t)
     PROVE  PoolTypes'
  BY <1>3, ConstantFacts DEF Post, Move, Posted, PoolTypes, ListTypes, pool, guards,
         init, lists, bounds, rest, fpgaVars, context, device
<1>4. ASSUME NEW t \in Threads, Wake(t)
     PROVE  PoolTypes'
  BY <1>4, ConstantFacts DEF Wake, PoolTypes, ListTypes, pool, guards, init, lists,
         bounds, rest, fpgaVars, context, device
<1>5. ASSUME NEW a \in Actors, InitReturns(a)
     PROVE  PoolTypes'
  BY <1>5, ConstantFacts DEF InitReturns, Restarted, Initialising, PoolTypes, ListTypes,
         pool, guards, init, lists, bounds, rest, fpgaVars, context, device
<1>6. CASE UNCHANGED <<pool>>
  BY <1>6, ConstantFacts DEF PoolTypes, ListTypes, pool
<1> QED
  BY <1>1, <1>2, <1>3, <1>4, <1>5, <1>6, PoolFrame DEF pool

\* The locals of dcurl_init.
LEMMA InitTypesStep ==
    InitTypes /\ Next => InitTypes'
<1> SUFFICES ASSUME InitTypes, Next
             PROVE  InitTypes'
  OBVIOUS
<1>1. ASSUME NEW a \in Actors, Register(a)
     PROVE  InitTypes'
  <2> DEFINE Positions == 1 .. Len(Order) + 1
  <2>1. at \in [Actors -> Positions] /\ at[a] <= Len(Order)
        /\ at' = [at EXCEPT ![a] = at[a] + 1]
    BY <1>1 DEF Register, MoreToRegister, InitTypes
  <2>2. at[a] + 1 \in Positions
    <3>1. at[a] \in Positions
      BY <2>1
    <3> QED
      BY <2>1, <3>1, ConstantFacts
  <2> HIDE DEF Positions
  <2>3. at' \in [Actors -> Positions]
    BY <2>1, <2>2
  <2>4. ret' = ret \/ ret' = [ret EXCEPT ![a] = TRUE]
    BY <1>1 DEF Register, Registered, NotRegistered
  <2>5. is_initialized' = is_initialized
    BY <1>1 DEF Register
  <2> QED
    BY <2>3, <2>4, <2>5 DEF InitTypes, Positions
<1>2. ASSUME NEW a \in Actors, FpgaAttempted(a)
     PROVE  InitTypes'
  <2> DEFINE Positions == 1 .. Len(Order) + 1
  <2>1. at \in [Actors -> Positions] /\ at[a] <= Len(Order)
        /\ at' = [at EXCEPT ![a] = at[a] + 1]
    BY <1>2 DEF FpgaAttempted, MoreToRegister, InitTypes
  <2>2. at[a] + 1 \in Positions
    <3>1. at[a] \in Positions
      BY <2>1
    <3> QED
      BY <2>1, <3>1, ConstantFacts
  <2> HIDE DEF Positions
  <2>3. at' \in [Actors -> Positions]
    BY <2>1, <2>2
  <2>4. ret' = ret \/ ret' = [ret EXCEPT ![a] = TRUE]
    BY <1>2 DEF FpgaAttempted, Registered, NotRegistered
  <2>5. is_initialized' = is_initialized
    BY <1>2 DEF FpgaAttempted
  <2> QED
    BY <2>3, <2>4, <2>5 DEF InitTypes, Positions
<1>3. ASSUME NEW a \in Actors, InitReturns(a)
     PROVE  InitTypes'
  BY <1>3, ConstantFacts DEF InitReturns, Restarted, Initialising, InitTypes, init,
         guards, lists, pool, bounds, rest, fpgaVars, context, device
<1>4. CASE UNCHANGED <<is_initialized, init>>
  BY <1>4, ConstantFacts DEF InitTypes, init
<1> QED
  BY <1>1, <1>2, <1>3, <1>4, InitFrame DEF init

\* The steps of the actors and the bounds.
LEMMA CallTypesStep ==
    CallTypes /\ Next => CallTypes'
<1> SUFFICES ASSUME CallTypes, Next
             PROVE  CallTypes'
  OBVIOUS
<1>1. CASE BeginInit
  BY <1>1, ConstantFacts, BoundAssumption DEF BeginInit, Move, CallTypes, Steps, bounds,
         guards, init, lists, pool, rest, fpgaVars, context, device
<1>2. ASSUME NEW a \in Actors, InitReturns(a)
     PROVE  CallTypes'
  BY <1>2, ConstantFacts, BoundAssumption DEF InitReturns, Restarted, Initialising,
         CallTypes, Steps, bounds, guards, init, lists, pool, rest, fpgaVars, context,
         device
<1>3. CASE BeginDestroy
  BY <1>3, ConstantFacts, BoundAssumption DEF BeginDestroy, Move, CallTypes, Steps,
         bounds, guards, init, lists, pool, rest, fpgaVars, context, device
<1>4. CASE DestroyNode
  BY <1>4, ConstantFacts, BoundAssumption DEF DestroyNode, Move, Released, CallTypes,
         Steps, bounds, guards, init, lists, pool, rest, fpgaVars, context, device
<1>5. CASE Unlink
  BY <1>5, ConstantFacts, BoundAssumption DEF Unlink, Move, CallTypes, Steps, bounds,
         guards, init, lists, pool, rest, fpgaVars, context, device
<1>6. CASE DestroyReturns
  BY <1>6, ConstantFacts, BoundAssumption DEF DestroyReturns, Move, CallTypes, Steps,
         bounds, guards, init, lists, pool, rest, fpgaVars, context, device
<1>7. ASSUME NEW t \in Threads, CallEntry(t)
     PROVE  CallTypes'
  BY <1>7, ConstantFacts, BoundAssumption DEF CallEntry, Begin, Move, CallTypes, Steps,
         bounds, guards, init, lists, pool, rest, fpgaVars, context, device
<1>8. ASSUME NEW t \in Threads, CallLocked(t)
     PROVE  CallTypes'
  BY <1>8, ConstantFacts, BoundAssumption DEF CallLocked, Begin, Move, CallTypes, Steps,
         bounds, guards, init, lists, pool, rest, fpgaVars, context, device
<1>9. ASSUME NEW t \in Threads, SyncLock(t)
     PROVE  CallTypes'
  BY <1>9, ConstantFacts, BoundAssumption DEF SyncLock, Move, CallTypes, Steps, bounds,
         guards, init, lists, pool, rest, fpgaVars, context, device
<1>10. ASSUME NEW t \in Threads, CcurlInit(t)
     PROVE  CallTypes'
  BY <1>10, ConstantFacts, BoundAssumption DEF CcurlInit, Move, CallTypes, Steps,
         bounds, guards, init, lists, pool, rest, fpgaVars, context, device
<1>11. ASSUME NEW t \in Threads, CcurlInitialized(t)
     PROVE  CallTypes'
  BY <1>11, ConstantFacts, BoundAssumption DEF CcurlInitialized, Move, CallTypes, Steps,
         bounds, guards, init, lists, pool, rest, fpgaVars, context, device
<1>12. ASSUME NEW t \in Threads, CcurlSkip(t)
     PROVE  CallTypes'
  BY <1>12, ConstantFacts, BoundAssumption DEF CcurlSkip, Move, CallTypes, Steps,
         bounds, guards, init, lists, pool, rest, fpgaVars, context, device
<1>13. ASSUME NEW t \in Threads, EntryRefused(t)
     PROVE  CallTypes'
  BY <1>13, ConstantFacts, BoundAssumption DEF EntryRefused, Move, CallTypes, Steps,
         bounds, guards, init, lists, pool, rest, fpgaVars, context, device
<1>14. ASSUME NEW t \in Threads, EntryScan(t)
     PROVE  CallTypes'
  BY <1>14, ConstantFacts, BoundAssumption DEF EntryScan, Move, CallTypes, Steps,
         bounds, guards, init, lists, pool, rest, fpgaVars, context, device
<1>15. ASSUME NEW t \in Threads, Enter(t)
     PROVE  CallTypes'
  BY <1>15, ConstantFacts, BoundAssumption DEF Enter, Move, CallTypes, Steps, bounds,
         guards, init, lists, pool, rest, fpgaVars, context, device
<1>16. ASSUME NEW t \in Threads, Pow(t)
     PROVE  CallTypes'
  BY <1>16, ConstantFacts, BoundAssumption DEF Pow, Move, Served, CallTypes, Steps,
         bounds, guards, init, lists, pool, rest, fpgaVars, context, device
<1>17. ASSUME NEW t \in Threads, TakeFpga(t)
     PROVE  CallTypes'
  BY <1>17, ConstantFacts, BoundAssumption DEF TakeFpga, Move, GetPowContext, Goto,
         CallTypes, Steps, bounds, guards, init, lists, pool, rest, fpgaVars, context,
         device
<1>18. ASSUME NEW t \in Threads, FpgaServed(t)
     PROVE  CallTypes'
  BY <1>18, ConstantFacts, BoundAssumption DEF FpgaServed, Move, Goto, Served,
         CallTypes, Steps, bounds, guards, init, lists, pool, rest, fpgaVars, context,
         device
<1>19. ASSUME NEW t \in Threads, Exit(t)
     PROVE  CallTypes'
  BY <1>19, ConstantFacts, BoundAssumption DEF Exit, Move, CallTypes, Steps, bounds,
         guards, init, lists, pool, rest, fpgaVars, context, device
<1>20. ASSUME NEW t \in Threads, Post(t)
     PROVE  CallTypes'
  BY <1>20, ConstantFacts, BoundAssumption DEF Post, Move, CallTypes, Steps, bounds,
         guards, init, lists, pool, rest, fpgaVars, context, device
<1>21. ASSUME NEW t \in Threads, Return(t)
     PROVE  CallTypes'
  BY <1>21, ConstantFacts, BoundAssumption DEF Return, Move, CallTypes, Steps, bounds,
         guards, init, lists, pool, rest, fpgaVars, context, device
<1>22. ASSUME NEW a \in Actors, InitBesideSleeper(a)
     PROVE  CallTypes'
  BY <1>22, ConstantFacts, BoundAssumption DEF InitBesideSleeper, Undefined, CallTypes,
         Steps, bounds, guards, init, lists, pool, rest, fpgaVars, context, device
<1>23. CASE DestroyTwice
  BY <1>23, ConstantFacts, BoundAssumption DEF DestroyTwice, Undefined, CallTypes,
         Steps, bounds, guards, init, lists, pool, rest, fpgaVars, context, device
<1>24. ASSUME NEW t \in Threads, UseAfterDestroy(t)
     PROVE  CallTypes'
  BY <1>24, ConstantFacts, BoundAssumption DEF UseAfterDestroy, Undefined, CallTypes,
         Steps, bounds, guards, init, lists, pool, rest, fpgaVars, context, device
<1>25. ASSUME NEW t \in Threads, ReadNull(t)
     PROVE  CallTypes'
  BY <1>25, ConstantFacts, BoundAssumption DEF ReadNull, CallTypes, Steps, bounds,
         guards, init, lists, pool, rest, fpgaVars, context, device
<1>26. CASE UNCHANGED <<pc, bounds, misused, broken>>
  BY <1>26, ConstantFacts, BoundAssumption DEF CallTypes, Steps, bounds
<1> QED
  BY <1>1, <1>2, <1>3, <1>4, <1>5, <1>6, <1>7, <1>8, <1>9, <1>10, <1>11, <1>12, <1>13,
     <1>14, <1>15, <1>16, <1>17, <1>18, <1>19, <1>20, <1>21, <1>22, <1>23, <1>24, <1>25,
     <1>26, PcFrame, BoundsFrame, BrokenFrame DEF bounds

\* Adding or removing any node, also one that is in the list or was never in it,
\* as long as the pointers that are followed lead to nodes.
LEMMA AddAny ==
    ASSUME NEW m \in [Nodes -> [prev : Pointers, next : Pointers]], NEW x \in Nodes,
           NEW head \in Nodes
    PROVE  list_add(m, x, head) \in [Nodes -> [prev : Pointers, next : Pointers]]
<1> DEFINE M == [Nodes -> [prev : Pointers, next : Pointers]]
           behind == [m EXCEPT ![m[head].next].prev = x]
           linked == [behind EXCEPT ![x] = [prev |-> head, next |-> m[head].next]]
<1>1. m[head].next \in Pointers /\ x \in Pointers /\ head \in Pointers
  BY DEF Pointers
<1>2. behind \in M
  BY <1>1
<1>3. linked \in M
  BY <1>1, <1>2
<1>4. list_add(m, x, head) = [linked EXCEPT ![head].next = x]
  BY DEF list_add
<1> HIDE DEF linked
<1> QED
  BY <1>1, <1>3, <1>4

LEMMA DelAny ==
    ASSUME NEW m \in [Nodes -> [prev : Pointers, next : Pointers]], NEW x \in Nodes
    PROVE  list_del(m, x) \in [Nodes -> [prev : Pointers, next : Pointers]]
<1> DEFINE M == [Nodes -> [prev : Pointers, next : Pointers]]
           behind == [m EXCEPT ![m[x].next].prev = m[x].prev]
<1>1. m[x].next \in Pointers /\ m[x].prev \in Pointers
  OBVIOUS
<1>2. behind \in M
  BY <1>1
<1>3. list_del(m, x) = [behind EXCEPT ![m[x].prev].next = m[x].next]
  BY BuildAssumption DEF list_del
<1> HIDE DEF behind
<1> QED
  BY <1>1, <1>2, <1>3

\* The pointers of touched nodes after list_add and list_del.
LEMMA AddTouches ==
    ASSUME NEW m \in [Nodes -> [prev : Pointers, next : Pointers]], NEW x \in Nodes,
           NEW T \in SUBSET Nodes, ImplList \in T,
           \A y \in Nodes : m[y].next # None <=> y \in T,
           \A y \in T : m[y].next \in T /\ m[y].prev \in T
    PROVE  \A y \in Nodes :
              /\ list_add(m, x, ImplList)[y].next # None <=> y \in T \cup {x}
              /\ y \in T \cup {x} =>
                    /\ list_add(m, x, ImplList)[y].next \in T \cup {x}
                    /\ list_add(m, x, ImplList)[y].prev \in T \cup {x}
<1> DEFINE M == [Nodes -> [prev : Pointers, next : Pointers]]
           next == m[ImplList].next
           behind == [m EXCEPT ![next].prev = x]
           linked == [behind EXCEPT ![x] = [prev |-> ImplList, next |-> next]]
           added == [linked EXCEPT ![ImplList].next = x]
<1>0. next \in T /\ next \in Pointers /\ x \in Pointers /\ ImplList \in Pointers
      /\ ImplList # None /\ x # None
  BY ConstantFacts DEF Pointers
<1>1. behind \in M /\ \A y \in Nodes :
         behind[y].next = m[y].next /\ behind[y].prev = IF y = next THEN x ELSE m[y].prev
  BY <1>0
<1> HIDE DEF behind
<1>2. linked \in M /\ \A y \in Nodes :
         /\ linked[y].next = IF y = x THEN next ELSE behind[y].next
         /\ linked[y].prev = IF y = x THEN ImplList ELSE behind[y].prev
  BY <1>0, <1>1
<1> HIDE DEF linked
<1>3. \A y \in Nodes :
         /\ added[y].next = IF y = ImplList THEN x ELSE linked[y].next
         /\ added[y].prev = linked[y].prev
  BY <1>0, <1>2
<1>4. list_add(m, x, ImplList) = added
  BY DEF list_add, behind, linked
<1> HIDE DEF added, next
<1>5. ASSUME NEW y \in Nodes
      PROVE  /\ added[y].next = IF y = ImplList THEN x ELSE IF y = x THEN next ELSE m[y].next
             /\ added[y].prev = IF y = x THEN ImplList ELSE IF y = next THEN x ELSE m[y].prev
  BY <1>1, <1>2, <1>3
<1>6. ASSUME NEW y \in Nodes PROVE added[y].next # None <=> y \in T \cup {x}
  <2>1. next # None
    BY <1>0 DEF next
  <2> QED
    BY <1>0, <1>5, <2>1
<1>7. ASSUME NEW y \in T \cup {x}
      PROVE  added[y].next \in T \cup {x} /\ added[y].prev \in T \cup {x}
  BY <1>0, <1>5
<1> QED
  BY <1>4, <1>6, <1>7

LEMMA DelTouches ==
    ASSUME NEW m \in [Nodes -> [prev : Pointers, next : Pointers]], NEW T \in SUBSET Nodes,
           NEW x \in T,
           \A y \in Nodes : m[y].next # None <=> y \in T,
           \A y \in T : m[y].next \in T /\ m[y].prev \in T
    PROVE  \A y \in Nodes :
              /\ list_del(m, x)[y].next # None <=> y \in T
              /\ y \in T => list_del(m, x)[y].next \in T /\ list_del(m, x)[y].prev \in T
<1> DEFINE M == [Nodes -> [prev : Pointers, next : Pointers]]
           next == m[x].next
           prev == m[x].prev
           behind == [m EXCEPT ![next].prev = prev]
           removed == [behind EXCEPT ![prev].next = next]
<1>0. next \in T /\ prev \in T /\ next \in Nodes /\ prev \in Nodes /\ next # None
  BY ConstantFacts
<1>1. behind \in M /\ \A y \in Nodes :
         behind[y].next = m[y].next /\ behind[y].prev = IF y = next THEN prev ELSE m[y].prev
  BY <1>0
<1> HIDE DEF behind
<1>3. \A y \in Nodes :
         /\ removed[y].next = IF y = prev THEN next ELSE behind[y].next
         /\ removed[y].prev = behind[y].prev
  BY <1>0, <1>1
<1>4. list_del(m, x) = removed
  BY BuildAssumption DEF list_del, behind
<1> HIDE DEF removed
<1> QED
  BY <1>0, <1>1, <1>3, <1>4, ConstantFacts

\* The jobs and the results that calls make of them.
LEMMA JobTypes ==
    ASSUME CallTypes, ServiceInv, NEW t \in Threads, pc[t] # "idle"
    PROVE  Job(t) \in Jobs /\ Job(t) \in Contents /\ Job(t) # None /\ OwnOutput(Job(t)) \in Results
<1>1. calls[t] \in 1 .. MaxCalls
  BY BoundAssumption DEF CallTypes, ServiceInv, CallInv
<1>2. Job(t) \in Jobs
  BY <1>1 DEF Job, Jobs
<1> QED
  BY <1>2, ConstantFacts DEF Contents, Results, OwnOutput, Output

\* The list: the iterators meet nodes that were once added only.
LEMMA ListTypesStep ==
    ListTypes /\ InitTypes /\ MemInv /\ Next => (ListTypes /\ MemInv)'
<1> SUFFICES ASSUME ListTypes, InitTypes, MemInv, Next
             PROVE  (ListTypes /\ MemInv)'
  OBVIOUS
<1>1. ASSUME NEW a \in Actors, Register(a)
     PROVE  (ListTypes /\ MemInv)'
  <2>1. \/ UNCHANGED lists
        \/ mem' = list_add(mem, Current(a), ImplList) /\ alive' = alive \cup {Current(a)}
    BY <1>1 DEF Register, Registered, NotRegistered, lists
  <2>2. Current(a) \in Impls /\ Current(a) \in Nodes
    BY <1>1, ConstantFacts DEF Register, MoreToRegister, Current, InitTypes
  <2>3. p' = p
    BY <1>1 DEF Register
  <2>4. CASE UNCHANGED lists
    BY <2>3, <2>4 DEF ListTypes, MemInv, Touched, lists
  <2>5. CASE mem' = list_add(mem, Current(a), ImplList) /\ alive' = alive \cup {Current(a)}
    <3>1. ListTypes'
      BY <2>2, <2>3, <2>5, AddAny, ConstantFacts DEF ListTypes
    <3>2. /\ Touched' = Touched \cup {Current(a)}
          /\ \A y \in Touched' : mem'[y].next \in Touched' /\ mem'[y].prev \in Touched'
      <4>1. /\ Touched \in SUBSET Nodes /\ ImplList \in Touched
            /\ \A y \in Nodes : mem[y].next # None <=> y \in Touched
            /\ \A y \in Touched : mem[y].next \in Touched /\ mem[y].prev \in Touched
        BY DEF MemInv, Touched
      <4>2. mem \in [Nodes -> [prev : Pointers, next : Pointers]]
        BY DEF ListTypes
      <4>3. \A y \in Nodes :
               /\ mem'[y].next # None <=> y \in Touched \cup {Current(a)}
               /\ y \in Touched \cup {Current(a)} =>
                     /\ mem'[y].next \in Touched \cup {Current(a)}
                     /\ mem'[y].prev \in Touched \cup {Current(a)}
        <5> HIDE DEF Touched
        <5>1. \A y \in Nodes :
                 LET n == list_add(mem, Current(a), ImplList)
                 IN  /\ n[y].next # None <=> y \in Touched \cup {Current(a)}
                     /\ y \in Touched \cup {Current(a)} =>
                           /\ n[y].next \in Touched \cup {Current(a)}
                           /\ n[y].prev \in Touched \cup {Current(a)}
          BY <2>2, <4>1, <4>2, AddTouches
        <5> QED
          BY <2>5, <5>1
      <4>4. Touched' = Touched \cup {Current(a)}
        BY <2>2, <4>1, <4>3 DEF Touched
      <4> QED
        BY <2>2, <4>1, <4>3, <4>4
    <3> QED
      BY <2>3, <3>1, <3>2 DEF MemInv
  <2> QED
    BY <2>1, <2>4, <2>5
<1>2. ASSUME NEW a \in Actors, FpgaAttempted(a)
     PROVE  (ListTypes /\ MemInv)'
  <2>1. \/ UNCHANGED lists
        \/ mem' = list_add(mem, Current(a), ImplList) /\ alive' = alive \cup {Current(a)}
    BY <1>2 DEF FpgaAttempted, Registered, NotRegistered, lists
  <2>2. Current(a) \in Impls /\ Current(a) \in Nodes
    BY <1>2, ConstantFacts DEF FpgaAttempted, MoreToRegister, Current, InitTypes
  <2>3. p' = p
    BY <1>2 DEF FpgaAttempted
  <2>4. CASE UNCHANGED lists
    BY <2>3, <2>4 DEF ListTypes, MemInv, Touched, lists
  <2>5. CASE mem' = list_add(mem, Current(a), ImplList) /\ alive' = alive \cup {Current(a)}
    <3>1. ListTypes'
      BY <2>2, <2>3, <2>5, AddAny, ConstantFacts DEF ListTypes
    <3>2. /\ Touched' = Touched \cup {Current(a)}
          /\ \A y \in Touched' : mem'[y].next \in Touched' /\ mem'[y].prev \in Touched'
      <4>1. /\ Touched \in SUBSET Nodes /\ ImplList \in Touched
            /\ \A y \in Nodes : mem[y].next # None <=> y \in Touched
            /\ \A y \in Touched : mem[y].next \in Touched /\ mem[y].prev \in Touched
        BY DEF MemInv, Touched
      <4>2. mem \in [Nodes -> [prev : Pointers, next : Pointers]]
        BY DEF ListTypes
      <4>3. \A y \in Nodes :
               /\ mem'[y].next # None <=> y \in Touched \cup {Current(a)}
               /\ y \in Touched \cup {Current(a)} =>
                     /\ mem'[y].next \in Touched \cup {Current(a)}
                     /\ mem'[y].prev \in Touched \cup {Current(a)}
        <5> HIDE DEF Touched
        <5>1. \A y \in Nodes :
                 LET n == list_add(mem, Current(a), ImplList)
                 IN  /\ n[y].next # None <=> y \in Touched \cup {Current(a)}
                     /\ y \in Touched \cup {Current(a)} =>
                           /\ n[y].next \in Touched \cup {Current(a)}
                           /\ n[y].prev \in Touched \cup {Current(a)}
          BY <2>2, <4>1, <4>2, AddTouches
        <5> QED
          BY <2>5, <5>1
      <4>4. Touched' = Touched \cup {Current(a)}
        BY <2>2, <4>1, <4>3 DEF Touched
      <4> QED
        BY <2>2, <4>1, <4>3, <4>4
    <3> QED
      BY <2>3, <3>1, <3>2 DEF MemInv
  <2> QED
    BY <2>1, <2>4, <2>5
<1>3. CASE DestroyNode
  BY <1>3, ConstantFacts DEF DestroyNode, Move, Released, ListTypes, MemInv, Touched,
         lists, guards, init, pool, bounds, rest, fpgaVars, context, device
<1>4. CASE Unlink
  <2>1. mem' = list_del(mem, p[App]) /\ p' = [p EXCEPT ![App] = mem'[p[App]].next]
        /\ alive' = alive
    BY <1>4 DEF Unlink, Without
  <2>2. mem' \in [Nodes -> [prev : Pointers, next : Pointers]]
    BY <2>1, DelAny, ConstantFacts DEF ListTypes
  <2>3. /\ Touched' = Touched
        /\ \A y \in Touched : mem'[y].next \in Touched /\ mem'[y].prev \in Touched
    <3>1. /\ Touched \in SUBSET Nodes /\ p[App] \in Touched
          /\ \A y \in Nodes : mem[y].next # None <=> y \in Touched
          /\ \A y \in Touched : mem[y].next \in Touched /\ mem[y].prev \in Touched
      BY ConstantFacts DEF MemInv, Touched
    <3>2. mem \in [Nodes -> [prev : Pointers, next : Pointers]]
      BY DEF ListTypes
    <3>3. \A y \in Nodes :
             /\ mem'[y].next # None <=> y \in Touched
             /\ y \in Touched => mem'[y].next \in Touched /\ mem'[y].prev \in Touched
      BY <2>1, <3>1, <3>2, DelTouches
    <3> QED
      BY <3>1, <3>3 DEF Touched
  <2>4. p' \in [Actors -> Touched]
    BY <2>1, <2>3, ConstantFacts DEF ListTypes, MemInv
  <2> QED
    BY <2>1, <2>2, <2>3, <2>4 DEF ListTypes, MemInv, Touched
<1>5. CASE BeginDestroy
  <2>1. \E y \in Touched, b \in Actors : p' = [p EXCEPT ![b] = y]
    BY <1>5, ConstantFacts DEF BeginDestroy, MemInv
  <2>2. UNCHANGED lists
    BY <1>5 DEF BeginDestroy, rest
  <2> QED
    BY <2>1, <2>2 DEF ListTypes, MemInv, Touched, lists
<1>6. ASSUME NEW t \in Threads, EntryScan(t)
     PROVE  (ListTypes /\ MemInv)'
  <2>1. \E y \in Touched, b \in Actors : p' = [p EXCEPT ![b] = y]
    BY <1>6, ConstantFacts DEF EntryScan, MemInv
  <2>2. UNCHANGED lists
    BY <1>6 DEF EntryScan, rest
  <2> QED
    BY <2>1, <2>2 DEF ListTypes, MemInv, Touched, lists
<1>7. ASSUME NEW t \in Threads, ScanNext(t)
     PROVE  (ListTypes /\ MemInv)'
  <2>1. \E y \in Touched, b \in Actors : p' = [p EXCEPT ![b] = y]
    BY <1>7, ConstantFacts DEF ScanNext, MemInv
  <2>2. UNCHANGED lists
    BY <1>7 DEF ScanNext, rest
  <2> QED
    BY <2>1, <2>2 DEF ListTypes, MemInv, Touched, lists
<1>8. ASSUME NEW t \in Threads, Wake(t)
     PROVE  (ListTypes /\ MemInv)'
  <2>1. \E y \in Touched, b \in Actors : p' = [p EXCEPT ![b] = y]
    BY <1>8, ConstantFacts DEF Wake, MemInv
  <2>2. UNCHANGED lists
    BY <1>8 DEF Wake, rest
  <2> QED
    BY <2>1, <2>2 DEF ListTypes, MemInv, Touched, lists
<1>9. ASSUME NEW t \in Threads, Return(t)
     PROVE  (ListTypes /\ MemInv)'
  <2>1. \E y \in Touched, b \in Actors : p' = [p EXCEPT ![b] = y]
    BY <1>9, ConstantFacts DEF Return, MemInv
  <2>2. UNCHANGED lists
    BY <1>9 DEF Return, rest
  <2> QED
    BY <2>1, <2>2 DEF ListTypes, MemInv, Touched, lists
<1>10. CASE UNCHANGED <<lists, p>>
  BY <1>10, ConstantFacts DEF ListTypes, MemInv, Touched, lists
<1> QED
  BY <1>1, <1>2, <1>3, <1>4, <1>5, <1>6, <1>7, <1>8, <1>9, <1>10, ListsFrame,
     PointerFrame DEF lists

\* The FPGA and its back end.
LEMMA FpgaTypesStep ==
    FpgaTypes /\ CallTypes /\ ServiceInv /\ Next => FpgaTypes'
<1> SUFFICES ASSUME FpgaTypes, CallTypes, ServiceInv, Next
             PROVE  FpgaTypes'
  OBVIOUS
<1>1. CASE DestroyNode
  <2>1. held' \in [ResourceSet -> Int]
    BY <1>1 DEF DestroyNode, Released, FpgaTypes
  <2> QED
    BY <1>1, <2>1 DEF DestroyNode, FpgaTypes, context, device
<1>2. CASE FpgaDone
  BY <1>2, ConstantFacts DEF FpgaDone, DeviceDone, Contents, FpgaTypes, FpgaSteps,
         DialogueSteps, fpgaVars, context, device, guards, init, lists, pool, bounds,
         rest
<1>3. ASSUME NEW a \in Actors, RegisterFpga(a)
     PROVE  FpgaTypes'
  <2>1. CASE Initialize(a)
    BY <1>3, <2>1, ConstantFacts DEF Initialize, FpgaTypes, Goto, FpgaSteps, context,
       device
  <2>2. CASE Acquire(a)
    <3>1. stage[a] \in 1 .. 6 /\ Resources[stage[a]] \in ResourceSet
      BY ResourceFacts DEF FpgaTypes
    <3>2. held' \in [ResourceSet -> Int]
      BY <2>2, <3>1 DEF Acquire, FpgaTypes
    <3>3. stage' \in [Actors -> 1 .. 6] /\ step' \in [Actors -> FpgaSteps]
      BY <2>2, <3>1, ResourceFacts DEF Acquire, FpgaTypes, FpgaSteps
    <3> QED
      BY <2>2, <3>2, <3>3, ResourceFacts DEF Acquire, FpgaTypes, context, device
  <2>3. CASE CannotAcquire(a)
    <3>1. held' \in [ResourceSet -> Int]
      BY <2>3 DEF CannotAcquire, FpgaTypes
    <3> QED
      BY <2>3, <3>1, ResourceFacts DEF CannotAcquire, FpgaTypes, Goto, FpgaSteps,
         context, device
  <2> QED
    BY <1>3, <2>1, <2>2, <2>3 DEF RegisterFpga
<1>4. ASSUME NEW a \in Actors, FpgaAttempted(a)
     PROVE  FpgaTypes'
  BY <1>4, ConstantFacts DEF FpgaAttempted, MoreToRegister, Registered, NotRegistered,
         Goto, Initialising, FpgaTypes, FpgaSteps, DialogueSteps, fpgaVars, context,
         device, guards, init, lists, pool, bounds, rest
<1>5. ASSUME NEW t \in Threads, TakeFpga(t)
     PROVE  FpgaTypes'
  <2>1. Job(t) \in Contents
    BY <1>5, JobTypes DEF TakeFpga, Move
  <2> QED
    BY <1>5, <2>1, ConstantFacts
    DEF TakeFpga, GetPowContext, Goto, FpgaTypes, FpgaSteps, DialogueSteps, device
<1>6. ASSUME NEW t \in Threads, PowOnFpga(t)
     PROVE  FpgaTypes'
  <2>1. CASE WriteOutput(t)
    BY <1>6, <2>1, ConstantFacts DEF WriteOutput, FpgaTypes, Goto, FpgaSteps, Contents,
       Results, device
  <2>2. CASE PowFails(t)
    BY <1>6, <2>2, ConstantFacts DEF PowFails, FpgaTypes, FpgaSteps, Contents, device
  <2>3. CASE WriteInput(t) \/ WriteMwm(t) \/ ReadStatus(t)
    BY <1>6, <2>3, ConstantFacts DEF WriteInput, WriteMwm, Transferred, ReadStatus, FpgaTypes, Goto,
       FpgaSteps, DialogueSteps, context, device
  <2>4. CASE ReadNonce(t)
    <3>1. PICK trits \in Transferred(odata, None) :
             fpga_out_nonce_trit' = [fpga_out_nonce_trit EXCEPT ![t] = trits]
      BY <2>4 DEF ReadNonce
    <3>2. trits \in Contents
      BY <3>1 DEF Transferred, FpgaTypes, Contents
    <3>3. fpga_out_nonce_trit' \in [Actors -> Contents]
      BY <3>1, <3>2 DEF FpgaTypes
    <3> QED
      BY <1>6, <2>4, <3>3, ConstantFacts DEF ReadNonce, FpgaTypes, Goto, FpgaSteps,
         DialogueSteps, device
  <2> QED
    BY <1>6, <2>1, <2>2, <2>3, <2>4 DEF PowOnFpga, Dialogue
<1>7. ASSUME NEW t \in Threads, FpgaServed(t)
     PROVE  FpgaTypes'
  BY <1>7, ConstantFacts DEF FpgaServed, Move, Goto, Served, FpgaTypes, FpgaSteps,
         DialogueSteps, fpgaVars, context, device, guards, init, lists, pool, bounds,
         rest
<1>8. CASE UNCHANGED <<fpgaVars>>
  BY <1>8, ConstantFacts DEF FpgaTypes, FpgaSteps, DialogueSteps, fpgaVars, context,
         device
<1> QED
  BY <1>1, <1>2, <1>3, <1>4, <1>5, <1>6, <1>7, <1>8, FpgaFrame DEF fpgaVars, context,
     device

\* The results.
LEMMA AnswerStep ==
    FpgaTypes /\ CallTypes /\ ServiceInv /\ answer \in [Threads -> Results] /\ Next
        => (answer \in [Threads -> Results])'
<1> SUFFICES ASSUME FpgaTypes, CallTypes, ServiceInv,
                    answer \in [Threads -> Results], Next
             PROVE  (answer \in [Threads -> Results])'
  OBVIOUS
<1>1. ASSUME NEW t \in Threads, Pow(t)
     PROVE  (answer \in [Threads -> Results])'
  <2>1. OwnOutput(Job(t)) \in Results
    BY <1>1, JobTypes DEF Pow, Move
  <2> QED
    BY <1>1, <2>1 DEF Pow, Served, Results
<1>2. ASSUME NEW t \in Threads, FpgaServed(t)
     PROVE  (answer \in [Threads -> Results])'
  BY <1>2, ConstantFacts DEF FpgaServed, Move, Goto, Served, FpgaTypes, Results, guards,
         init, lists, pool, bounds, rest, fpgaVars, context, device
<1>3. ASSUME NEW t \in Threads, Return(t)
     PROVE  (answer \in [Threads -> Results])'
  BY <1>3, ConstantFacts DEF Return, Move, FpgaTypes, Results, guards, init, lists,
         pool, bounds, rest, fpgaVars, context, device
<1>4. CASE UNCHANGED <<answer>>
  BY <1>4, ConstantFacts DEF FpgaTypes, Results
<1> QED
  BY <1>1, <1>2, <1>3, <1>4, AnswerFrame

\* A call that holds a place keeps it to itself.
LEMMA ServiceStep ==
    ListTypes /\ PoolTypes /\ CallTypes /\ answer \in [Threads -> Results] /\ ServiceInv
        /\ Next => ServiceInv'
<1> SUFFICES ASSUME ListTypes, PoolTypes, CallTypes, answer \in [Threads -> Results],
                    ServiceInv, Next
             PROVE  ServiceInv'
  OBVIOUS
<1>1. CASE BeginInit
  BY <1>1, ConstantFacts DEF BeginInit, Move, ServiceInv, CallInv, InService,
         Destroying, ListTypes, PoolTypes, CallTypes, pool, bounds, guards, init, lists,
         rest, fpgaVars, context, device
<1>2. ASSUME NEW a \in Actors, InitReturns(a)
     PROVE  ServiceInv'
  BY <1>2, ConstantFacts DEF InitReturns, Restarted, Initialising, ServiceInv, CallInv,
         InService, Destroying, ListTypes, PoolTypes, CallTypes, pool, bounds, guards,
         init, lists, rest, fpgaVars, context, device
<1>3. CASE BeginDestroy
  BY <1>3, ConstantFacts DEF BeginDestroy, Move, ServiceInv, CallInv, InService,
         Destroying, ListTypes, PoolTypes, CallTypes, pool, bounds, guards, init, lists,
         rest, fpgaVars, context, device
<1>4. CASE DestroyNode
  BY <1>4, ConstantFacts DEF DestroyNode, Move, Released, ServiceInv, CallInv,
         InService, Destroying, ListTypes, PoolTypes, CallTypes, pool, bounds, guards,
         init, lists, rest, fpgaVars, context, device
<1>5. CASE Unlink
  BY <1>5, ConstantFacts DEF Unlink, Move, ServiceInv, CallInv, InService, Destroying,
         ListTypes, PoolTypes, CallTypes, pool, bounds, guards, init, lists, rest,
         fpgaVars, context, device
<1>6. CASE DestroyReturns
  BY <1>6, ConstantFacts DEF DestroyReturns, Move, ServiceInv, CallInv, InService,
         Destroying, ListTypes, PoolTypes, CallTypes, pool, bounds, guards, init, lists,
         rest, fpgaVars, context, device
<1>7. ASSUME NEW t \in Threads, CallEntry(t)
     PROVE  ServiceInv'
  BY <1>7, ConstantFacts DEF CallEntry, Begin, Move, ServiceInv, CallInv, InService,
         Destroying, ListTypes, PoolTypes, CallTypes, pool, bounds, guards, init, lists,
         rest, fpgaVars, context, device
<1>8. ASSUME NEW t \in Threads, CallLocked(t)
     PROVE  ServiceInv'
  BY <1>8, ConstantFacts DEF CallLocked, Begin, Move, ServiceInv, CallInv, InService,
         Destroying, ListTypes, PoolTypes, CallTypes, pool, bounds, guards, init, lists,
         rest, fpgaVars, context, device
<1>9. ASSUME NEW t \in Threads, SyncLock(t)
     PROVE  ServiceInv'
  BY <1>9, ConstantFacts DEF SyncLock, Move, ServiceInv, CallInv, InService, Destroying,
         ListTypes, PoolTypes, CallTypes, pool, bounds, guards, init, lists, rest,
         fpgaVars, context, device
<1>10. ASSUME NEW t \in Threads, CcurlInit(t)
     PROVE  ServiceInv'
  BY <1>10, ConstantFacts DEF CcurlInit, Move, ServiceInv, CallInv, InService,
         Destroying, ListTypes, PoolTypes, CallTypes, pool, bounds, guards, init, lists,
         rest, fpgaVars, context, device
<1>11. ASSUME NEW t \in Threads, CcurlInitialized(t)
     PROVE  ServiceInv'
  BY <1>11, ConstantFacts DEF CcurlInitialized, Move, ServiceInv, CallInv, InService,
         Destroying, ListTypes, PoolTypes, CallTypes, pool, bounds, guards, init, lists,
         rest, fpgaVars, context, device
<1>12. ASSUME NEW t \in Threads, CcurlSkip(t)
     PROVE  ServiceInv'
  BY <1>12, ConstantFacts DEF CcurlSkip, Move, ServiceInv, CallInv, InService,
         Destroying, ListTypes, PoolTypes, CallTypes, pool, bounds, guards, init, lists,
         rest, fpgaVars, context, device
<1>13. ASSUME NEW t \in Threads, EntryRefused(t)
     PROVE  ServiceInv'
  BY <1>13, ConstantFacts DEF EntryRefused, Move, ServiceInv, CallInv, InService,
         Destroying, ListTypes, PoolTypes, CallTypes, pool, bounds, guards, init, lists,
         rest, fpgaVars, context, device
<1>14. ASSUME NEW t \in Threads, EntryScan(t)
     PROVE  ServiceInv'
  BY <1>14, ConstantFacts DEF EntryScan, Move, ServiceInv, CallInv, InService,
         Destroying, ListTypes, PoolTypes, CallTypes, pool, bounds, guards, init, lists,
         rest, fpgaVars, context, device
<1>15. ASSUME NEW t \in Threads, Enter(t)
     PROVE  ServiceInv'
  <2>1. /\ p[t] \in Impls /\ num_working[p[t]] = 0
        /\ num_working' = [num_working EXCEPT ![p[t]] = 1]
        /\ pc' = [pc EXCEPT ![t] = "take"] /\ pc[t] = "scan"
        /\ UNCHANGED <<p, answer, calls>>
    BY <1>15, ConstantFacts DEF Enter, Move, HasPlace, ListTypes, PoolTypes, Nodes,
       bounds
  <2>2. pc'[t] = "take" /\ num_working'[p[t]] = 1
        /\ \A u \in Actors \ {t} : pc'[u] = pc[u]
        /\ \A i \in Impls \ {p[t]} : num_working'[i] = num_working[i]
    BY <2>1, ConstantFacts DEF CallTypes, PoolTypes
  <2>3. \A u \in Threads : InService(u) => p[u] # p[t]
    BY <2>1 DEF ServiceInv, CallInv
  <2>4. ASSUME NEW u \in Threads
        PROVE  CallInv(u)'
    BY <2>1, <2>2, <2>3, ConstantFacts DEF ServiceInv, CallInv, InService, Destroying
  <2> QED
    BY <2>2, <2>4, ConstantFacts DEF ServiceInv
<1>16. ASSUME NEW t \in Threads, Pow(t)
     PROVE  ServiceInv'
  BY <1>16, ConstantFacts DEF Pow, Move, Served, ServiceInv, CallInv, InService,
         Destroying, ListTypes, PoolTypes, CallTypes, pool, bounds, guards, init, lists,
         rest, fpgaVars, context, device
<1>17. ASSUME NEW t \in Threads, TakeFpga(t)
     PROVE  ServiceInv'
  BY <1>17, ConstantFacts DEF TakeFpga, Move, GetPowContext, Goto, ServiceInv, CallInv,
         InService, Destroying, ListTypes, PoolTypes, CallTypes, pool, bounds, guards,
         init, lists, rest, fpgaVars, context, device
<1>18. ASSUME NEW t \in Threads, FpgaServed(t)
     PROVE  ServiceInv'
  BY <1>18, ConstantFacts DEF FpgaServed, Move, Goto, Served, ServiceInv, CallInv,
         InService, Destroying, ListTypes, PoolTypes, CallTypes, pool, bounds, guards,
         init, lists, rest, fpgaVars, context, device
<1>19. ASSUME NEW t \in Threads, Exit(t)
     PROVE  ServiceInv'
  BY <1>19, ConstantFacts DEF Exit, Move, ServiceInv, CallInv, InService, Destroying,
         ListTypes, PoolTypes, CallTypes, pool, bounds, guards, init, lists, rest,
         fpgaVars, context, device
<1>20. ASSUME NEW t \in Threads, Post(t)
     PROVE  ServiceInv'
  BY <1>20, ConstantFacts DEF Post, Move, ServiceInv, CallInv, InService, Destroying,
         ListTypes, PoolTypes, CallTypes, pool, bounds, guards, init, lists, rest,
         fpgaVars, context, device
<1>21. ASSUME NEW t \in Threads, Return(t)
     PROVE  ServiceInv'
  BY <1>21, ConstantFacts DEF Return, Move, ServiceInv, CallInv, InService, Destroying,
         ListTypes, PoolTypes, CallTypes, pool, bounds, guards, init, lists, rest,
         fpgaVars, context, device
<1>22. ASSUME NEW t \in Threads, Wake(t)
     PROVE  ServiceInv'
  BY <1>22, ConstantFacts DEF Wake, ServiceInv, CallInv, InService, Destroying,
         ListTypes, PoolTypes, CallTypes, pool, bounds, guards, init, lists, rest,
         fpgaVars, context, device
<1>23. ASSUME NEW t \in Threads, ScanNext(t)
     PROVE  ServiceInv'
  BY <1>23, ConstantFacts DEF ScanNext, ServiceInv, CallInv, InService, Destroying,
         ListTypes, PoolTypes, CallTypes, pool, bounds, guards, init, lists, rest,
         fpgaVars, context, device
<1>24. CASE UNCHANGED <<pc, pool, p, answer, bounds, misused>>
  BY <1>24, ConstantFacts DEF ServiceInv, CallInv, InService, Destroying, ListTypes,
         PoolTypes, CallTypes, pool, bounds
<1> QED
  BY <1>1, <1>2, <1>3, <1>4, <1>5, <1>6, <1>7, <1>8, <1>9, <1>10, <1>11, <1>12, <1>13,
     <1>14, <1>15, <1>16, <1>17, <1>18, <1>19, <1>20, <1>21, <1>22, <1>23, <1>24,
     PcFrame, PoolFrame, PointerFrame, AnswerFrame, BoundsFrame DEF pool, bounds

\* The types hold, with what they rest on: the iterators meet nodes that were once
\* added only, whatever the application does, and a call holds one place that no
\* other call holds.
Typed == TypeOK /\ MemInv /\ ServiceInv

LEMMA TypedStep ==
    Typed /\ [Next]_vars => Typed'
<1> SUFFICES ASSUME Typed, [Next]_vars
             PROVE  Typed'
  OBVIOUS
<1>1. CASE Next
  BY <1>1, GuardTypesStep, PoolTypesStep, InitTypesStep, CallTypesStep, ListTypesStep,
     FpgaTypesStep, AnswerStep, ServiceStep DEF Typed, TypeOK
<1>2. CASE UNCHANGED vars
  BY <1>2 DEF Typed, TypeOK, GuardTypes, ListTypes, PoolTypes, InitTypes, CallTypes,
     FpgaTypes,
     MemInv, Touched, ServiceInv, CallInv, InService, Destroying,
     vars, rest, guards, init, lists, pool, bounds, fpgaVars, context, device
<1> QED
  BY <1>1, <1>2

LEMMA TypedInit ==
    Init => Typed
<1> SUFFICES ASSUME Init
             PROVE  Typed
  OBVIOUS
<1>1. GuardTypes /\ PoolTypes /\ answer \in [Threads -> Results]
  <2>1. binding \in Bindings /\ compat = FALSE /\ mtx = Nobody /\ DcurlEntryMutex = Nobody
    BY DEF Init
  <2>2. PoolTypes
    BY DEF Init, PoolTypes
  <2>3. answer \in [Threads -> Results]
    BY DEF Init, Results
  <2> QED
    BY <2>1, <2>2, <2>3 DEF GuardTypes
<1>2. InitTypes
  <2>1. 1 \in 1 .. Len(Order) + 1
    BY ConstantFacts
  <2>2. is_initialized = FALSE /\ ret = [a \in Actors |-> FALSE] /\ at = [a \in Actors |-> 1]
    BY DEF Init
  <2> QED
    BY <2>1, <2>2 DEF InitTypes
<1>8. CallTypes
  <2>1. pc \in [Actors -> Steps]
    BY DEF Init, Steps
  <2>2. 0 \in 0 .. MaxCalls /\ 0 \in 0 .. MaxDestroys
    BY BoundAssumption
  <2>3. calls = [t \in Threads |-> 0] /\ inits = 0 /\ destroys = 0 /\ misused = FALSE
        /\ broken = "no"
    BY DEF Init
  <2> QED
    BY <2>1, <2>2, <2>3 DEF CallTypes
<1>3. FpgaTypes
  BY ResourceFacts DEF Init, FpgaInit, FpgaTypes, FpgaSteps, Contents, Results
<1>4. /\ mem = [x \in Nodes |->
                  IF x = ImplList THEN [prev |-> x, next |-> x]
                                  ELSE [prev |-> None, next |-> None]]
      /\ alive = {} /\ p = [a \in Actors |-> ImplList]
  BY DEF Init, Unlinked, Nodes
<1>5. ListTypes
  BY <1>4, ConstantFacts DEF ListTypes, Pointers
<1>6. MemInv
  BY <1>4, ConstantFacts DEF MemInv, Touched
<1>7. ServiceInv
  BY ConstantFacts DEF Init, ServiceInv, CallInv, InService, Destroying
<1> QED
  BY <1>1, <1>2, <1>3, <1>5, <1>6, <1>7, <1>8 DEF Typed, TypeOK

\* The types hold in every run of dcurl_init, dcurl_destroy and dcurl_entry.
THEOREM TypeCorrect ==
    Spec => []TypeOK
<1>1. Spec => []Typed
  BY TypedInit, TypedStep, PTL DEF Spec
<1>2. Typed => TypeOK
  BY DEF Typed
<1> QED
  BY <1>1, <1>2, PTL

-----------------------------------------------------------------------------
(* The first call of ccurl_pow, and the results of the FPGA.               *)

\* One initialisation behind the mutex of ccurl_pow.
LEMMA CompatStep ==
    Typed /\ CompatInv /\ Next => CompatInv'
<1> SUFFICES ASSUME Typed, CompatInv, Next
             PROVE  CompatInv'
  OBVIOUS
<1>1. CASE BeginInit
  BY <1>1, ConstantFacts DEF BeginInit, Move, CompatInv, InInit, PastGuard, Typed,
         TypeOK, GuardTypes, CallTypes, ServiceInv, Steps, MtxFree, Initialising, Begin,
         guards, bounds, init, lists, pool, rest, fpgaVars, context, device
<1>2. ASSUME NEW a \in Actors, InitReturns(a)
     PROVE  CompatInv'
  BY <1>2, ConstantFacts DEF InitReturns, Restarted, Initialising, CompatInv, InInit,
         PastGuard, Typed, TypeOK, GuardTypes, CallTypes, ServiceInv, Steps, MtxFree,
         Begin, guards, bounds, init, lists, pool, rest, fpgaVars, context, device
<1>3. CASE BeginDestroy
  BY <1>3, ConstantFacts DEF BeginDestroy, Move, CompatInv, InInit, PastGuard, Typed,
         TypeOK, GuardTypes, CallTypes, ServiceInv, Steps, MtxFree, Initialising, Begin,
         guards, bounds, init, lists, pool, rest, fpgaVars, context, device
<1>4. CASE DestroyNode
  BY <1>4, ConstantFacts DEF DestroyNode, Move, Released, CompatInv, InInit, PastGuard,
         Typed, TypeOK, GuardTypes, CallTypes, ServiceInv, Steps, MtxFree, Initialising,
         Begin, guards, bounds, init, lists, pool, rest, fpgaVars, context, device
<1>5. CASE Unlink
  BY <1>5, ConstantFacts DEF Unlink, Move, CompatInv, InInit, PastGuard, Typed, TypeOK,
         GuardTypes, CallTypes, ServiceInv, Steps, MtxFree, Initialising, Begin, guards,
         bounds, init, lists, pool, rest, fpgaVars, context, device
<1>6. CASE DestroyReturns
  BY <1>6, ConstantFacts DEF DestroyReturns, Move, CompatInv, InInit, PastGuard, Typed,
         TypeOK, GuardTypes, CallTypes, ServiceInv, Steps, MtxFree, Initialising, Begin,
         guards, bounds, init, lists, pool, rest, fpgaVars, context, device
<1>7. ASSUME NEW t \in Threads, CallEntry(t)
     PROVE  CompatInv'
  BY <1>7, ConstantFacts DEF CallEntry, Begin, Move, CompatInv, InInit, PastGuard,
         Typed, TypeOK, GuardTypes, CallTypes, ServiceInv, Steps, MtxFree, Initialising,
         guards, bounds, init, lists, pool, rest, fpgaVars, context, device
<1>8. ASSUME NEW t \in Threads, CallLocked(t)
     PROVE  CompatInv'
  BY <1>8, ConstantFacts DEF CallLocked, Begin, Move, CompatInv, InInit, PastGuard,
         Typed, TypeOK, GuardTypes, CallTypes, ServiceInv, Steps, MtxFree, Initialising,
         guards, bounds, init, lists, pool, rest, fpgaVars, context, device
<1>9. ASSUME NEW t \in Threads, SyncLock(t)
     PROVE  CompatInv'
  BY <1>9, ConstantFacts DEF SyncLock, Move, CompatInv, InInit, PastGuard, Typed,
         TypeOK, GuardTypes, CallTypes, ServiceInv, Steps, MtxFree, Initialising, Begin,
         guards, bounds, init, lists, pool, rest, fpgaVars, context, device
<1>10. ASSUME NEW t \in Threads, CcurlInit(t)
     PROVE  CompatInv'
  BY <1>10, ConstantFacts DEF CcurlInit, Move, CompatInv, InInit, PastGuard, Typed,
         TypeOK, GuardTypes, CallTypes, ServiceInv, Steps, MtxFree, Initialising, Begin,
         guards, bounds, init, lists, pool, rest, fpgaVars, context, device
<1>11. ASSUME NEW t \in Threads, CcurlInitialized(t)
     PROVE  CompatInv'
  BY <1>11, ConstantFacts DEF CcurlInitialized, Move, CompatInv, InInit, PastGuard,
         Typed, TypeOK, GuardTypes, CallTypes, ServiceInv, Steps, MtxFree, Initialising,
         Begin, guards, bounds, init, lists, pool, rest, fpgaVars, context, device
<1>12. ASSUME NEW t \in Threads, CcurlSkip(t)
     PROVE  CompatInv'
  BY <1>12, ConstantFacts DEF CcurlSkip, Move, CompatInv, InInit, PastGuard, Typed,
         TypeOK, GuardTypes, CallTypes, ServiceInv, Steps, MtxFree, Initialising, Begin,
         guards, bounds, init, lists, pool, rest, fpgaVars, context, device
<1>13. ASSUME NEW t \in Threads, EntryRefused(t)
     PROVE  CompatInv'
  BY <1>13, ConstantFacts DEF EntryRefused, Move, CompatInv, InInit, PastGuard, Typed,
         TypeOK, GuardTypes, CallTypes, ServiceInv, Steps, MtxFree, Initialising, Begin,
         guards, bounds, init, lists, pool, rest, fpgaVars, context, device
<1>14. ASSUME NEW t \in Threads, EntryScan(t)
     PROVE  CompatInv'
  BY <1>14, ConstantFacts DEF EntryScan, Move, CompatInv, InInit, PastGuard, Typed,
         TypeOK, GuardTypes, CallTypes, ServiceInv, Steps, MtxFree, Initialising, Begin,
         guards, bounds, init, lists, pool, rest, fpgaVars, context, device
<1>15. ASSUME NEW t \in Threads, Enter(t)
     PROVE  CompatInv'
  BY <1>15, ConstantFacts DEF Enter, Move, CompatInv, InInit, PastGuard, Typed, TypeOK,
         GuardTypes, CallTypes, ServiceInv, Steps, MtxFree, Initialising, Begin, guards,
         bounds, init, lists, pool, rest, fpgaVars, context, device
<1>16. ASSUME NEW t \in Threads, Pow(t)
     PROVE  CompatInv'
  BY <1>16, ConstantFacts DEF Pow, Move, Served, CompatInv, InInit, PastGuard, Typed,
         TypeOK, GuardTypes, CallTypes, ServiceInv, Steps, MtxFree, Initialising, Begin,
         guards, bounds, init, lists, pool, rest, fpgaVars, context, device
<1>17. ASSUME NEW t \in Threads, TakeFpga(t)
     PROVE  CompatInv'
  BY <1>17, ConstantFacts DEF TakeFpga, Move, GetPowContext, Goto, CompatInv, InInit,
         PastGuard, Typed, TypeOK, GuardTypes, CallTypes, ServiceInv, Steps, MtxFree,
         Initialising, Begin, guards, bounds, init, lists, pool, rest, fpgaVars,
         context, device
<1>18. ASSUME NEW t \in Threads, FpgaServed(t)
     PROVE  CompatInv'
  BY <1>18, ConstantFacts DEF FpgaServed, Move, Goto, Served, CompatInv, InInit,
         PastGuard, Typed, TypeOK, GuardTypes, CallTypes, ServiceInv, Steps, MtxFree,
         Initialising, Begin, guards, bounds, init, lists, pool, rest, fpgaVars,
         context, device
<1>19. ASSUME NEW t \in Threads, Exit(t)
     PROVE  CompatInv'
  BY <1>19, ConstantFacts DEF Exit, Move, CompatInv, InInit, PastGuard, Typed, TypeOK,
         GuardTypes, CallTypes, ServiceInv, Steps, MtxFree, Initialising, Begin, guards,
         bounds, init, lists, pool, rest, fpgaVars, context, device
<1>20. ASSUME NEW t \in Threads, Post(t)
     PROVE  CompatInv'
  BY <1>20, ConstantFacts DEF Post, Move, CompatInv, InInit, PastGuard, Typed, TypeOK,
         GuardTypes, CallTypes, ServiceInv, Steps, MtxFree, Initialising, Begin, guards,
         bounds, init, lists, pool, rest, fpgaVars, context, device
<1>21. ASSUME NEW t \in Threads, Return(t)
     PROVE  CompatInv'
  BY <1>21, ConstantFacts DEF Return, Move, CompatInv, InInit, PastGuard, Typed, TypeOK,
         GuardTypes, CallTypes, ServiceInv, Steps, MtxFree, Initialising, Begin, guards,
         bounds, init, lists, pool, rest, fpgaVars, context, device
<1>22. CASE UNCHANGED <<pc, guards, bounds, misused, binding>>
  BY <1>22, ConstantFacts DEF CompatInv, InInit, PastGuard, Typed, TypeOK, GuardTypes,
         CallTypes, ServiceInv, Steps, MtxFree, Initialising, Begin, guards, bounds
<1> QED
  BY <1>1, <1>2, <1>3, <1>4, <1>5, <1>6, <1>7, <1>8, <1>9, <1>10, <1>11, <1>12, <1>13,
     <1>14, <1>15, <1>16, <1>17, <1>18, <1>19, <1>20, <1>21, <1>22, PcFrame,
     GuardsFrame, BoundsFrame, BindingFrame DEF guards, bounds

\* However first calls of ccurl_pow overlap, one initialises and no other is past the
\* mutex before.
THEOREM CompatOnce ==
    Spec => []CompatInitOnce
<1>1. Init => Typed /\ CompatInv
  BY TypedInit, ConstantFacts DEF Init, CompatInv, InInit, PastGuard
<1>2. Typed /\ CompatInv /\ [Next]_vars => (Typed /\ CompatInv)'
  <2> SUFFICES ASSUME Typed, CompatInv, [Next]_vars
               PROVE  CompatInv'
    BY TypedStep
  <2>1. CASE UNCHANGED vars
    BY <2>1 DEF CompatInv, InInit, PastGuard, vars, rest, guards, bounds
  <2> QED
    BY <2>1, CompatStep
<1>3. Typed /\ CompatInv => CompatInitOnce
  <2> SUFFICES ASSUME Typed, CompatInv, binding = "ccurl"
               PROVE  /\ inits <= 1
                      /\ \A a, t \in Threads : ~(Initialising(a) /\ PastGuard(t))
    BY DEF CompatInitOnce
  <2> QED
    BY ConstantFacts DEF CompatInv, InInit, Initialising, PastGuard
<1> QED
  BY <1>1, <1>2, <1>3, PTL DEF Spec

\* The other steps of an actor neither enter nor leave the FPGA back end.
Elsewhere == \E b \in Actors, q \in Steps \ {"pow", "register"} :
    pc[b] \notin {"pow", "register"} /\ pc' = [pc EXCEPT ![b] = q]

LEMMA ElsewhereFrame ==
    ServiceInv /\ Next =>
        \/ UNCHANGED <<step, at>> /\ (UNCHANGED pc \/ Elsewhere)
        \/ BeginInit
        \/ \E a \in Actors : InitReturns(a) \/ RegisterFpga(a) \/ FpgaAttempted(a) \/
              Register(a)
        \/ \E t \in Threads : CcurlInit(t) \/ TakeFpga(t) \/ FpgaServed(t) \/
              PowOnFpga(t)
<1>1. CASE Application
  BY <1>1, ConstantFacts DEF Application, BeginDestroy, Move, CallEntry, Begin,
         CallLocked, Elsewhere, Steps, vars, rest, guards, init, lists, pool, bounds,
         fpgaVars, context, device
<1>2. CASE DestroySteps
  BY <1>2, ConstantFacts DEF DestroySteps, DestroyNode, Move, Released, DestroyTwice,
         Undefined, Unlink, DestroyReturns, Elsewhere, Steps, vars, rest, guards, init,
         lists, pool, bounds, fpgaVars, context, device
<1>3. CASE FpgaDone
  BY <1>3, ConstantFacts DEF FpgaDone, DeviceDone, Elsewhere, Steps, vars, rest, guards,
         init, lists, pool, bounds, fpgaVars, context, device
<1>4. CASE \E a \in Actors : InitSteps(a)
  BY <1>4, ConstantFacts DEF InitSteps, InitBesideSleeper, Undefined, Elsewhere, Steps,
         vars, rest, guards, init, lists, pool, bounds, fpgaVars, context, device
<1>5. CASE \E t \in Threads : CallSteps(t)
  BY <1>5, ConstantFacts DEF CallSteps, SyncLock, Move, CcurlInitialized, CcurlSkip,
         EntryRefused, EntryScan, Enter, ScanNext, Wake, UseAfterDestroy, Undefined,
         Pow, Served, Exit, Post, Return, ReadNull, Elsewhere, Steps, vars, rest,
         guards, init, lists, pool, bounds, fpgaVars, context, device
<1> QED
  BY <1>1, <1>2, <1>3, <1>4, <1>5 DEF Next

LEMMA StepStep ==
    Typed /\ StepInv /\ Next => StepInv'
<1> SUFFICES ASSUME Typed, StepInv, Next
             PROVE  StepInv'
  OBVIOUS
<1>0. /\ pc \in [Actors -> Steps] /\ step \in [Actors -> FpgaSteps]
      /\ at \in [Actors -> 1 .. Len(Order) + 1]
  BY DEF Typed, TypeOK, CallTypes, FpgaTypes, InitTypes
<1>1. CASE UNCHANGED <<step, at>> /\ (UNCHANGED pc \/ Elsewhere)
  BY <1>0, <1>1 DEF StepInv, MoreToRegister, Current, Initialising, Elsewhere
<1>2. CASE BeginInit
  BY <1>0, <1>2, ConstantFacts
  DEF BeginInit, Move, StepInv, MoreToRegister, Current, Initialising, fpgaVars, init
<1>3. ASSUME NEW a \in Actors, InitReturns(a)
      PROVE  StepInv'
  <2>1. /\ pc[a] = "register" /\ at[a] > Len(Order) /\ step' = step
        /\ \A b \in Actors \ {a} : pc'[b] = pc[b] /\ at'[b] = at[b]
        /\ pc'[a] \in {"idle", "initialized"}
    BY <1>0, <1>3 DEF InitReturns, Initialising, Restarted, fpgaVars
  <2>2. step[a] = "idle"
    BY <1>0, <2>1, ConstantFacts DEF StepInv, MoreToRegister, Initialising
  <2> QED
    BY <2>1, <2>2 DEF StepInv, MoreToRegister, Current, Initialising
<1>4. ASSUME NEW t \in Threads, CcurlInit(t)
      PROVE  StepInv'
  BY <1>0, <1>4, ConstantFacts
  DEF CcurlInit, Move, StepInv, MoreToRegister, Current, Initialising, fpgaVars, init
<1>5. ASSUME NEW t \in Threads, TakeFpga(t)
      PROVE  StepInv'
  BY <1>0, <1>5, ConstantFacts
  DEF TakeFpga, GetPowContext, Goto, Move, StepInv, MoreToRegister, Current,
      Initialising,
      DialogueSteps, rest, init
<1>6. ASSUME NEW t \in Threads, FpgaServed(t)
      PROVE  StepInv'
  <2>1. /\ pc[t] = "pow" /\ pc' = [pc EXCEPT ![t] = "exit"]
        /\ step' = [step EXCEPT ![t] = "idle"] /\ at' = at
    BY <1>6 DEF FpgaServed, Served, Goto, Move, init
  <2> QED
    BY <1>0, <2>1, ConstantFacts DEF StepInv, MoreToRegister, Current, Initialising
<1>7. ASSUME NEW t \in Threads, PowOnFpga(t)
      PROVE  StepInv'
  <2>1. /\ pc[t] = "pow" /\ pc' = pc /\ at' = at
        /\ \E q \in DialogueSteps \cup {"succeeded", "failed"} : step' = [step EXCEPT ![t] = q]
    BY <1>7 DEF PowOnFpga, Dialogue, WriteInput, WriteMwm, ReadStatus, ReadNonce,
       WriteOutput,
       PowFails, Goto, DialogueSteps, rest, init
  <2> QED
    BY <1>0, <2>1, ConstantFacts DEF StepInv, MoreToRegister, Current, Initialising
<1>8. ASSUME NEW a \in Actors, RegisterFpga(a)
      PROVE  StepInv'
  <2>1. MoreToRegister(a) /\ Current(a) = Fpga /\ pc' = pc /\ at' = at
        /\ (step' = step \/ \E q \in {"acquire", "succeeded", "failed"} :
                               step' = [step EXCEPT ![a] = q])
    BY <1>8 DEF RegisterFpga, Initialize, Acquire, CannotAcquire, Goto, rest, init
  <2> QED
    BY <1>0, <2>1 DEF StepInv, MoreToRegister, Current, Initialising
<1>9. ASSUME NEW a \in Actors, FpgaAttempted(a)
      PROVE  StepInv'
  <2>1. /\ pc[a] = "register" /\ pc' = pc /\ step' = [step EXCEPT ![a] = "idle"]
        /\ \A b \in Actors \ {a} : at'[b] = at[b]
    BY <1>0, <1>9 DEF FpgaAttempted, MoreToRegister, Goto, Initialising
  <2> QED
    BY <1>0, <2>1 DEF StepInv, MoreToRegister, Current, Initialising
<1>10. ASSUME NEW a \in Actors, Register(a)
       PROVE  StepInv'
  <2>1. /\ pc[a] = "register" /\ Current(a) # Fpga /\ pc' = pc /\ step' = step
        /\ \A b \in Actors \ {a} : at'[b] = at[b]
    BY <1>0, <1>10 DEF Register, MoreToRegister, Initialising, fpgaVars
  <2>2. step[a] = "idle"
    BY <2>1 DEF StepInv, Initialising
  <2> QED
    BY <1>0, <2>1, <2>2 DEF StepInv, MoreToRegister, Current, Initialising
<1> QED
  BY <1>1, <1>2, <1>3, <1>4, <1>5, <1>6, <1>7, <1>8, <1>9, <1>10, ElsewhereFrame DEF
     Typed

\* A search on the FPGA begins in get_pow_context.
LEMMA PowFrame ==
    ASSUME CallTypes, Next, NEW u \in Threads, pc'[u] = "pow"
    PROVE  \/ pc[u] = "pow" /\ calls'[u] = calls[u]
           \/ TakeFpga(u)
<1>1. CASE Application
  BY <1>1, ConstantFacts DEF Application, BeginInit, Move, BeginDestroy, CallEntry,
         Begin, CallLocked, CallTypes, vars, rest, guards, init, lists, pool, bounds,
         fpgaVars, context, device
<1>2. CASE DestroySteps
  BY <1>2, ConstantFacts DEF DestroySteps, DestroyNode, Move, Released, DestroyTwice,
         Undefined, Unlink, DestroyReturns, CallTypes, vars, rest, guards, init, lists,
         pool, bounds, fpgaVars, context, device
<1>3. CASE FpgaDone
  BY <1>3, ConstantFacts DEF FpgaDone, DeviceDone, CallTypes, vars, rest, guards, init,
         lists, pool, bounds, fpgaVars, context, device
<1>4. CASE \E a \in Actors : InitSteps(a)
  BY <1>4, ConstantFacts DEF InitSteps, Register, MoreToRegister, Registered,
         NotRegistered, Initialising, RegisterFpga, Initialize, Acquire, CannotAcquire,
         Goto, FpgaAttempted, InitReturns, Restarted, InitBesideSleeper, Undefined,
         CallTypes, vars, rest, guards, init, lists, pool, bounds, fpgaVars, context,
         device
<1>5. CASE \E t \in Threads : CallSteps(t)
  BY <1>5, ConstantFacts DEF CallSteps, SyncLock, Move, CcurlInit, CcurlInitialized,
         CcurlSkip, EntryRefused, EntryScan, Enter, ScanNext, Wake, UseAfterDestroy,
         Undefined, Pow, Served, PowOnFpga, Dialogue, WriteInput, WriteMwm, ReadStatus,
         ReadNonce, WriteOutput, PowFails, Goto, FpgaServed, Exit, Post, Return,
         ReadNull, TakeFpga, CallTypes, vars, rest, guards, init, lists, pool, bounds,
         fpgaVars, context, device
<1> QED
  BY <1>1, <1>2, <1>3, <1>4, <1>5 DEF Next

\* One search is on the FPGA at a time.
LEMMA OnePow ==
    ASSUME ServiceInv, NEW t \in Threads, NEW u \in Threads,
           InService(t), p[t] = Fpga, pc[u] = "pow"
    PROVE  t = u
BY DEF ServiceInv, CallInv, InService

\* What a step of the dialogue leaves behind.
LEMMA DialogueStep ==
    ASSUME ControlRestarts, WholeTransfers,
           NEW t \in Threads, step \in [Actors -> FpgaSteps],
           fpga_out_nonce_trit \in [Actors -> Contents],
           Job(t) # None, DataOf(t), Dialogue(t), UNCHANGED calls
    PROVE  DataOf(t)'
<1>1. CASE WriteInput(t)
  BY <1>1, ConstantFacts DEF WriteInput, Transferred, Goto, DataOf, Job, context
<1>2. CASE WriteMwm(t)
  BY <1>2, ConstantFacts DEF WriteMwm, Transferred, Goto, DataOf, Job, context
<1>3. CASE ReadStatus(t)
  BY <1>3, ConstantFacts DEF ReadStatus, Goto, DataOf, Job, context, device, DeviceIdle
<1>4. CASE ReadNonce(t)
  BY <1>4, ConstantFacts DEF ReadNonce, Transferred, Goto, DataOf, Job, device
<1>5. CASE WriteOutput(t)
  BY <1>5, ConstantFacts DEF WriteOutput, Goto, DataOf, Job, device, OwnOutput
<1>6. CASE PowFails(t)
  BY <1>6, ConstantFacts DEF PowFails, DataOf, Job, device
<1> QED
  BY <1>1, <1>2, <1>3, <1>4, <1>5, <1>6 DEF Dialogue

LEMMA DataStep ==
    ASSUME ControlRestarts, WholeTransfers
    PROVE  Typed /\ StepInv /\ DataInv /\ Next => DataInv'
<1> SUFFICES ASSUME Typed, StepInv, DataInv, Next, NEW u \in Threads, pc'[u] = "pow"
             PROVE  DataOf(u)'
  BY DEF DataInv
<1>0. /\ CallTypes /\ ServiceInv /\ u \in Actors
      /\ pc \in [Actors -> Steps] /\ step \in [Actors -> FpgaSteps]
      /\ fpga_out_nonce_trit \in [Actors -> Contents]
  BY ConstantFacts DEF Typed, TypeOK, CallTypes, FpgaTypes
<1>1. CASE TakeFpga(u)
  BY <1>0, <1>1 DEF TakeFpga, GetPowContext, Goto, DataOf, Job, rest, bounds
<1>2. CASE pc[u] = "pow" /\ calls'[u] = calls[u]
  <2>0. DataOf(u) /\ Job(u)' = Job(u) /\ Job(u) # None
    BY <1>0, <1>2, JobTypes DEF DataInv, Job
  <2>1. CASE UNCHANGED fpgaVars
    BY <2>0, <2>1 DEF DataOf, fpgaVars, context, device, OwnOutput
  <2>2. CASE DestroyNode
    BY <2>0, <2>2 DEF DestroyNode, DataOf, context, device, OwnOutput
  <2>3. CASE FpgaDone
    BY <2>0, <2>3 DEF FpgaDone, DeviceDone, DataOf, context, OwnOutput
  <2>4. ASSUME NEW a \in Actors, RegisterFpga(a)
        PROVE  DataOf(u)'
    <3>1. UNCHANGED <<context, device>> /\ pc[a] = "register"
          /\ \A b \in Actors \ {a} : step'[b] = step[b]
      BY <1>0, <2>4
      DEF RegisterFpga, MoreToRegister, Initialising, Initialize, Acquire,
          CannotAcquire, Goto
    <3>2. step'[u] = step[u]
      BY <1>0, <1>2, <3>1
    <3> QED
      BY <2>0, <3>1, <3>2 DEF DataOf, context, device, OwnOutput
  <2>5. ASSUME NEW a \in Actors, FpgaAttempted(a)
        PROVE  DataOf(u)'
    <3>1. UNCHANGED <<context, device>> /\ pc[a] = "register"
          /\ \A b \in Actors \ {a} : step'[b] = step[b]
      BY <1>0, <2>5 DEF FpgaAttempted, MoreToRegister, Initialising, Goto
    <3>2. step'[u] = step[u]
      BY <1>0, <1>2, <3>1
    <3> QED
      BY <2>0, <3>1, <3>2 DEF DataOf, context, device, OwnOutput
  <2>6. ASSUME NEW t \in Threads, TakeFpga(t)
        PROVE  DataOf(u)'
    <3>1. InService(t) /\ p[t] = Fpga /\ pc[t] = "take"
      BY <2>6 DEF TakeFpga, Move, InService
    <3> QED
      BY <1>0, <1>2, <3>1, OnePow
  <2>7. ASSUME NEW t \in Threads, PowOnFpga(t)
        PROVE  DataOf(u)'
    <3>1. InService(t) /\ pc[t] = "pow" /\ Dialogue(t) /\ UNCHANGED calls
      BY <2>7 DEF PowOnFpga, InService, rest, bounds
    <3>2. t = u
      BY <1>0, <1>2, <3>1, OnePow DEF ServiceInv, CallInv
    <3> QED
      BY <1>0, <2>0, <3>1, <3>2, DialogueStep
  <2>8. ASSUME NEW t \in Threads, FpgaServed(t)
        PROVE  DataOf(u)'
    <3>1. InService(t) /\ pc[t] = "pow" /\ pc'[t] = "exit"
      BY <1>0, <2>8, ConstantFacts DEF FpgaServed, Move, InService
    <3> QED
      BY <1>0, <1>2, <3>1, OnePow DEF ServiceInv, CallInv
  <2> QED
    BY <2>1, <2>2, <2>3, <2>4, <2>5, <2>6, <2>7, <2>8, FpgaFrame
<1> QED
  BY <1>0, <1>1, <1>2, PowFrame

\* What a search hands to its caller.
LEMMA AnswerOwn ==
    Typed /\ StepInv /\ DataInv /\ NonceIsOwn /\ Next => NonceIsOwn'
<1> SUFFICES ASSUME Typed, StepInv, DataInv, NonceIsOwn, Next, NEW u \in Threads
             PROVE  answer'[u] \in {None, OwnOutput(Job(u))'}
  BY DEF NonceIsOwn
<1>0. answer \in [Threads -> Results] /\ calls \in [Threads -> 0 .. MaxCalls]
      /\ answer[u] \in {None, OwnOutput(Job(u))} /\ ServiceInv
  BY DEF Typed, TypeOK, CallTypes, NonceIsOwn
<1>1. CASE UNCHANGED <<answer, calls>>
  BY <1>0, <1>1 DEF Job, OwnOutput
<1>2. ASSUME NEW t \in Threads, Pow(t)
      PROVE  answer'[u] \in {None, OwnOutput(Job(u))'}
  BY <1>0, <1>2 DEF Pow, Served, Job, OwnOutput, bounds
<1>3. ASSUME NEW t \in Threads, FpgaServed(t)
      PROVE  answer'[u] \in {None, OwnOutput(Job(u))'}
  <2>1. pc[t] = "pow" /\ UNCHANGED calls
        /\ \/ answer' = [answer EXCEPT ![t] = None]
           \/ answer' = [answer EXCEPT ![t] = output] /\ step[t] = "succeeded"
    BY <1>3 DEF FpgaServed, Served, Goto, Move, bounds
  <2>2. step[t] = "succeeded" => output = OwnOutput(Job(t))
    BY <2>1 DEF DataInv, DataOf
  <2> QED
    BY <1>0, <2>1, <2>2 DEF Job, OwnOutput
<1>4. ASSUME NEW t \in Threads, Return(t)
      PROVE  answer'[u] \in {None, OwnOutput(Job(u))'}
  BY <1>0, <1>4 DEF Return, Job, OwnOutput, bounds
<1>5. CASE BeginInit \/ BeginDestroy \/ \E t \in Threads : CcurlInit(t)
  BY <1>0, <1>5 DEF BeginInit, BeginDestroy, CcurlInit, Job, OwnOutput
<1>6. ASSUME NEW t \in Threads, CallEntry(t) \/ CallLocked(t)
      PROVE  answer'[u] \in {None, OwnOutput(Job(u))'}
  <2>1. pc[t] = "idle" /\ calls' = [calls EXCEPT ![t] = @ + 1] /\ answer' = answer
    BY <1>6 DEF CallEntry, CallLocked, Begin, Move
  <2>2. answer[t] = None
    BY <1>0, <2>1 DEF ServiceInv, CallInv
  <2>3. u # t => calls'[u] = calls[u]
    BY <1>0, <2>1
  <2> QED
    BY <1>0, <2>1, <2>2, <2>3 DEF Job, OwnOutput
<1> QED
  BY <1>1, <1>2, <1>3, <1>4, <1>5, <1>6, AnswerFrame, BoundsFrame DEF bounds

\* NonceIsOwn: the result of a call is its own transaction with a nonce computed for
\* it (pow_fpga.c:75 to 122), if a control write replaces a proof of work that a failed
\* call has left running, and no transfer ends short.
THEOREM OwnNonce ==
    ASSUME ControlRestarts, WholeTransfers
    PROVE  Spec => []NonceIsOwn
<1> DEFINE IInv == Typed /\ StepInv /\ DataInv /\ NonceIsOwn
<1>1. Init => IInv
  <2> SUFFICES ASSUME Init
               PROVE  StepInv /\ DataInv /\ NonceIsOwn
    BY TypedInit
  <2> QED
    BY ConstantFacts DEF Init, FpgaInit, StepInv, Initialising, DataInv, NonceIsOwn
<1>2. IInv /\ [Next]_vars => IInv'
  <2> SUFFICES ASSUME IInv, [Next]_vars
               PROVE  StepInv' /\ DataInv' /\ NonceIsOwn'
    BY TypedStep
  <2>1. CASE UNCHANGED vars
    BY <2>1 DEF StepInv, Initialising, MoreToRegister, Current, DataInv, DataOf, Job,
       NonceIsOwn,
       OwnOutput, vars, rest, init, bounds, fpgaVars, context, device
  <2> QED
    BY <2>1, StepStep, DataStep, AnswerOwn
<1>3. IInv => NonceIsOwn
  OBVIOUS
<1> HIDE DEF IInv
<1> QED
  BY <1>1, <1>2, <1>3, PTL DEF Spec

-----------------------------------------------------------------------------
(* The life of the library while the application keeps to the protocol.    *)

\* Calls leave the list and the application alone.
LEMMA AppFrame ==
    ASSUME pc \in [Actors -> Steps], p \in [Actors -> Nodes], Next
    PROVE  \/ UNCHANGED lists /\ pc'[App] = pc[App] /\ p'[App] = p[App]
           \/ BeginInit \/ BeginDestroy \/ DestroyNode \/ Unlink \/ DestroyReturns
           \/ \E a \in Actors : InitReturns(a) \/ Register(a) \/ FpgaAttempted(a)
<1>1. CASE Application
  BY <1>1, ConstantFacts DEF Application, CallEntry, Begin, Move, CallLocked, vars,
         rest, guards, init, lists, pool, bounds, fpgaVars, context, device
<1>2. CASE DestroySteps
  BY <1>2, ConstantFacts DEF DestroySteps, DestroyTwice, Undefined, vars, rest, guards,
         init, lists, pool, bounds, fpgaVars, context, device
<1>3. CASE FpgaDone
  BY <1>3, ConstantFacts DEF FpgaDone, DeviceDone, vars, rest, guards, init, lists,
         pool, bounds, fpgaVars, context, device
<1>4. CASE \E a \in Actors : InitSteps(a)
  BY <1>4, ConstantFacts DEF InitSteps, RegisterFpga, MoreToRegister, Initialize,
         Acquire, CannotAcquire, Goto, Initialising, InitBesideSleeper, Undefined, vars,
         rest, guards, init, lists, pool, bounds, fpgaVars, context, device
<1>5. CASE \E t \in Threads : CallSteps(t)
  BY <1>5, ConstantFacts DEF CallSteps, SyncLock, Move, CcurlInit, CcurlInitialized,
         CcurlSkip, EntryRefused, EntryScan, Enter, ScanNext, Wake, UseAfterDestroy,
         Undefined, Pow, Served, TakeFpga, GetPowContext, Goto, PowOnFpga, Dialogue,
         WriteInput, WriteMwm, ReadStatus, ReadNonce, WriteOutput, PowFails, FpgaServed,
         Exit, Post, Return, ReadNull, vars, rest, guards, init, lists, pool, bounds,
         fpgaVars, context, device
<1> QED
  BY <1>1, <1>2, <1>3, <1>4, <1>5 DEF Next

\* The recursive definition of ListsOf.
LEMMA ListsAre ==
    ASSUME NEW A
    PROVE  /\ ListsOf(A)[0] = <<>>
           /\ \A k \in 1 .. Len(Order) :
                 ListsOf(A)[k] =
                     IF Order[k] \in A THEN <<Order[k]>> \o ListsOf(A)[k - 1]
                     ELSE ListsOf(A)[k - 1]
           /\ \A k \in 0 .. Len(Order) : ListsOf(A)[k] \in Seq(Impls)
<1> DEFINE N == Len(Order)
           S == Seq(Impls)
           Op(k, x) == IF Order[k] \in A THEN <<Order[k]>> \o x ELSE x
           rec == [k \in 1 .. N |-> [x \in S |-> Op(k, x)]]
           Eq(f) == f = [k \in 0 .. N |-> IF k = 0 THEN <<>> ELSE Op(k, f[k - 1])]
<1>1. N \in Nat /\ <<>> \in S
  BY ConstantFacts
<1>2. ASSUME NEW k \in 1 .. N, NEW x \in S PROVE Op(k, x) \in S
  BY ConstantFacts
<1>3. rec \in [1 .. N -> [S -> S]]
  <2> HIDE DEF Op, S, N
  <2> QED
    BY <1>2
<1> HIDE DEF S
<1>4. PICK f \in [0 .. N -> S] : Recursive(f, N, <<>>, rec)
  <2> HIDE DEF rec, N
  <2> QED
    BY <1>1, <1>3, RecursionExists
<1>5. Eq(f)
  <2> HIDE DEF Op, N
  <2>1. ASSUME NEW k \in 0 .. N, k # 0 PROVE rec[k][f[k - 1]] = Op(k, f[k - 1])
    <3>1. k \in 1 .. N /\ k - 1 \in 0 .. N
      BY <1>1, <2>1
    <3> QED
      BY <3>1
  <2> HIDE DEF rec
  <2> QED
    BY <1>4, <2>1 DEF Recursive
<1> DEFINE h == ListsOf(A)
<1>6. \A g : Eq(g) <=> g = [k \in 0 .. N |->
                              IF k = 0 THEN <<>>
                              ELSE IF Order[k] \in A THEN <<Order[k]>> \o g[k - 1]
                              ELSE g[k - 1]]
  OBVIOUS
<1>7. h = CHOOSE g : Eq(g)
  BY DEF ListsOf
<1>8. h = [k \in 0 .. N |-> IF k = 0 THEN <<>> ELSE Op(k, h[k - 1])]
  <2>1. Eq(h)
    <3> HIDE DEF h, Eq
    <3> QED
      BY <1>5, <1>7
  <2> QED
    BY <2>1
<1> HIDE DEF h, N, Op
<1>9. h[0] = <<>>
  BY <1>1, <1>8
<1>10. ASSUME NEW k \in 1 .. N PROVE h[k] = Op(k, h[k - 1])
  BY <1>1, <1>8
<1> DEFINE T == {k \in 0 .. N : h[k] \in S}
<1>11. 0 \in T
  BY <1>1, <1>9
<1>12. ASSUME NEW k \in 0 .. N - 1, k \in T PROVE k + 1 \in T
  <2>1. k + 1 \in 1 .. N /\ (k + 1) - 1 = k /\ k + 1 \in 0 .. N
    BY <1>1
  <2> QED
    BY <1>2, <1>10, <1>12, <2>1
<1>13. \A k \in 0 .. N : h[k] \in S
  <2> HIDE DEF T
  <2>1. 0 .. N \subseteq T
    BY <1>1, <1>11, <1>12, Induction
  <2> QED
    BY <2>1 DEF T
<1> QED
  BY <1>9, <1>10, <1>13 DEF h, N, Op, S

\* The implementations in it.
LEMMA ListMembers ==
    ASSUME NEW A
    PROVE  /\ ListOf(A) \in Seq(Impls)
           /\ Members(ListOf(A)) = A \cap Impls
<1> DEFINE N == Len(Order)
           h == ListsOf(A)
           T == {k \in 0 .. N : Members(h[k]) = {i \in A : \E j \in 1 .. k : i = Order[j]}}
<1>1. N \in Nat /\ \A j \in 1 .. N : Order[j] \in Impls
  BY ConstantFacts
<1>2. /\ h[0] = <<>>
      /\ \A k \in 1 .. N : h[k] = IF Order[k] \in A THEN <<Order[k]>> \o h[k - 1] ELSE h[k - 1]
      /\ \A k \in 0 .. N : h[k] \in Seq(Impls)
  BY ListsAre
<1>3. Impls = {Order[k] : k \in 1 .. N}
  BY ConstantFacts DEF Impls
<1> HIDE DEF h, N
<1>4. 0 \in T
  <2>1. Members(h[0]) = {}
    BY <1>2 DEF Members
  <2> QED
    BY <1>1, <2>1
<1>5. ASSUME NEW k \in 0 .. N - 1, k \in T PROVE k + 1 \in T
  <2>1. /\ k + 1 \in 1 .. N /\ k + 1 \in 0 .. N /\ (k + 1) - 1 = k /\ k \in 0 .. N
        /\ \A j \in 1 .. k + 1 : (j \in 1 .. k \/ j = k + 1)
        /\ \A j \in 1 .. k : j \in 1 .. k + 1
        /\ k + 1 \in 1 .. k + 1
    BY <1>1
  <2>2. h[k + 1] = IF Order[k + 1] \in A THEN <<Order[k + 1]>> \o h[k] ELSE h[k]
    BY <1>2, <2>1
  <2>3. Members(h[k]) = {i \in A : \E j \in 1 .. k : i = Order[j]}
    BY <1>5
  <2>4. Members(<<Order[k + 1]>> \o h[k]) = Members(h[k]) \cup {Order[k + 1]}
    BY <1>1, <1>2, <2>1, MembersPrepended
  <2>5. Members(h[k + 1]) = {i \in A : \E j \in 1 .. k + 1 : i = Order[j]}
    <3>1. {i \in A : \E j \in 1 .. k + 1 : i = Order[j]}
            = {i \in A : \E j \in 1 .. k : i = Order[j]} \cup {i \in A : i = Order[k + 1]}
      BY <2>1
    <3> QED
      BY <2>2, <2>3, <2>4, <3>1
  <2> QED
    BY <2>1, <2>5
<1>6. N \in T
  <2> HIDE DEF T
  <2>1. 0 .. N \subseteq T
    BY <1>1, <1>4, <1>5, Induction
  <2> QED
    BY <1>1, <2>1
<1>7. h[N] \in Seq(Impls) /\ Members(h[N]) = A \cap Impls
  BY <1>1, <1>2, <1>3, <1>6
<1> QED
  BY <1>7 DEF h, N, ListOf

\* It depends only on which of the implementations are in the set.
LEMMA ListsSame ==
    ASSUME NEW A, NEW B, NEW n \in 0 .. Len(Order),
           \A j \in 1 .. n : Order[j] \in A <=> Order[j] \in B
    PROVE  ListsOf(A)[n] = ListsOf(B)[n]
<1> DEFINE T == {k \in 0 .. n : ListsOf(A)[k] = ListsOf(B)[k]}
<1>1. n \in Nat /\ Len(Order) \in Nat
  BY ConstantFacts
<1>2. 0 \in T
  BY <1>1, ListsAre
<1>3. ASSUME NEW k \in 0 .. n - 1, k \in T PROVE k + 1 \in T
  <2>1. k + 1 \in 1 .. n /\ k + 1 \in 1 .. Len(Order) /\ (k + 1) - 1 = k /\ k + 1 \in 0 .. n
    BY <1>1
  <2>2. /\ ListsOf(A)[k + 1] = IF Order[k + 1] \in A THEN <<Order[k + 1]>> \o ListsOf(A)[k]
                               ELSE ListsOf(A)[k]
        /\ ListsOf(B)[k + 1] = IF Order[k + 1] \in B THEN <<Order[k + 1]>> \o ListsOf(B)[k]
                               ELSE ListsOf(B)[k]
    BY <2>1, ListsAre
  <2>3. ListsOf(A)[k] = ListsOf(B)[k] /\ (Order[k + 1] \in A <=> Order[k + 1] \in B)
    BY <1>3, <2>1
  <2> QED
    BY <2>1, <2>2, <2>3
<1> HIDE DEF T
<1>4. 0 .. n \subseteq T
  BY <1>1, <1>2, <1>3, Induction
<1> QED
  BY <1>1, <1>4 DEF T

\* Implementations behind the last of the set add nothing.
LEMMA ListsSkip ==
    ASSUME NEW A, NEW n \in 0 .. Len(Order),
           \A j \in n + 1 .. Len(Order) : Order[j] \notin A
    PROVE  ListOf(A) = ListsOf(A)[n]
<1> DEFINE M == Len(Order) - n
           T == {k \in 0 .. M : ListsOf(A)[n + k] = ListsOf(A)[n]}
<1>1. n \in Nat /\ Len(Order) \in Nat /\ M \in Nat /\ n + M = Len(Order) /\ n + 0 = n
  BY ConstantFacts
<1>2. 0 \in T
  BY <1>1
<1>3. ASSUME NEW k \in 0 .. M - 1, k \in T PROVE k + 1 \in T
  <2>1. /\ n + (k + 1) \in 1 .. Len(Order) /\ (n + (k + 1)) - 1 = n + k /\ k + 1 \in 0 .. M
        /\ n + (k + 1) \in n + 1 .. Len(Order)
    BY <1>1
  <2>2. \A j \in 1 .. Len(Order) : Order[j] \notin A => ListsOf(A)[j] = ListsOf(A)[j - 1]
    BY ListsAre
  <2>3. Order[n + (k + 1)] \notin A
    BY <2>1
  <2>4. ListsOf(A)[n + (k + 1)] = ListsOf(A)[n + k]
    BY <2>1, <2>2, <2>3
  <2> QED
    BY <1>3, <2>1, <2>4
<1> HIDE DEF T, M
<1>4. 0 .. M \subseteq T
  BY <1>1, <1>2, <1>3, Induction
<1>5. ListsOf(A)[n + M] = ListsOf(A)[n]
  BY <1>1, <1>4 DEF T
<1> QED
  BY <1>1, <1>5 DEF ListOf

\* Registering one that comes after all others puts it in front.
LEMMA ListGrows ==
    ASSUME NEW A, NEW n \in 1 .. Len(Order),
           \A j \in n .. Len(Order) : Order[j] \notin A
    PROVE  ListOf(A \cup {Order[n]}) = <<Order[n]>> \o ListOf(A)
<1> DEFINE B == A \cup {Order[n]}
<1>1. /\ n \in 0 .. Len(Order) /\ n - 1 \in 0 .. Len(Order) /\ (n - 1) + 1 = n
      /\ Len(Order) \in Nat
  BY ConstantFacts
<1>2. ListOf(A) = ListsOf(A)[n - 1]
  BY <1>1, ListsSkip
<1>3. \A j \in 1 .. Len(Order) : j # n => (Order[j] \in A <=> Order[j] \in B)
  BY <1>1, ConstantFacts
<1>4. ListsOf(A)[n - 1] = ListsOf(B)[n - 1]
  <2>1. \A j \in 1 .. n - 1 : Order[j] \in A <=> Order[j] \in B
    BY <1>1, <1>3
  <2> HIDE DEF B
  <2> QED
    BY <1>1, <2>1, ListsSame
<1>5. \A j \in n + 1 .. Len(Order) : Order[j] \notin B
  BY <1>1, <1>3
<1>6. Order[n] \in B
  OBVIOUS
<1> HIDE DEF B
<1>7. ListOf(B) = ListsOf(B)[n]
  BY <1>1, <1>5, ListsSkip
<1>8. ListsOf(B)[n] = <<Order[n]>> \o ListsOf(B)[n - 1]
  BY <1>6, ListsAre
<1> QED
  BY <1>2, <1>4, <1>7, <1>8 DEF B

\* The first of the list is the one registered last; without it the rest is left.
LEMMA ListShrinks ==
    ASSUME NEW A, Len(ListOf(A)) > 0
    PROVE  ListOf(A \ {ListOf(A)[1]}) = Tail(ListOf(A))
<1> DEFINE N == Len(Order)
           T == {d \in 0 .. N - 1 : Order[N - d] \in A}
<1>1. N \in Nat
  BY ConstantFacts
<1>2. T # {}
  <2> SUFFICES ASSUME T = {} PROVE FALSE
    OBVIOUS
  <2>1. ASSUME NEW j \in 0 + 1 .. N PROVE Order[j] \notin A
    <3>1. N - j \in 0 .. N - 1 /\ N - (N - j) = j
      BY <1>1
    <3> QED
      BY <3>1
  <2>2. ListOf(A) = ListsOf(A)[0]
    BY <1>1, <2>1, ListsSkip
  <2> QED
    BY <2>2, ListsAre
<1>3. PICK d \in T : \A e \in T : d <= e
  <2>1. T \subseteq Nat
    BY <1>1
  <2> HIDE DEF T
  <2> QED
    BY <1>2, <2>1, Least
<1> DEFINE n == N - d
           B == A \ {Order[n]}
<1>4. n \in 1 .. N /\ Order[n] \in A
  BY <1>1, <1>3
<1>5. ASSUME NEW j \in n .. N PROVE Order[j] \notin B
  <2>1. CASE j = n
    BY <2>1
  <2>2. CASE j # n
    <3>1. d \in 0 .. N - 1 /\ j \in 1 .. N
      BY <1>1, <1>3
    <3>2. N - j \in 0 .. N - 1 /\ N - (N - j) = j /\ ~(d <= N - j)
      BY <1>1, <2>2, <3>1
    <3>3. N - j \notin T
      BY <1>3, <3>2
    <3> QED
      BY <3>2, <3>3
  <2> QED
    BY <2>1, <2>2
<1> HIDE DEF n, T, N
<1>6. ListOf(B \cup {Order[n]}) = <<Order[n]>> \o ListOf(B)
  <2> HIDE DEF B
  <2> QED
    BY <1>4, <1>5, ListGrows DEF N
<1>7. B \cup {Order[n]} = A
  BY <1>4
<1>8. ListOf(B) \in Seq(Impls) /\ Order[n] \in Impls
  BY <1>4, ListMembers, ConstantFacts DEF N
<1>9. ListOf(A) = <<Order[n]>> \o ListOf(B)
  BY <1>6, <1>7
<1>10. ListOf(A)[1] = Order[n] /\ Tail(ListOf(A)) = ListOf(B)
  <2> HIDE DEF B
  <2> DEFINE u == ListOf(B)
  <2> HIDE DEF u
  <2>1. u \in Seq(Impls)
    BY <1>8 DEF u
  <2>2. (<<Order[n]>> \o u)[1] = Order[n] /\ Tail(<<Order[n]>> \o u) = u
    BY <1>8, <2>1
  <2> QED
    BY <1>9, <2>2 DEF u
<1> QED
  BY <1>10

\* What the list says of the pointers that dcurl_entry and dcurl_destroy follow.
LEMMA ListFacts ==
    ASSUME ListTypes, ListInv
    PROVE  /\ ListOf(Linked) \in Seq(Impls)
           /\ Members(ListOf(Linked)) = Linked
           /\ mem[ImplList].next \in Linked \cup {ImplList}
           /\ \A x \in Linked : mem[x].next \in Linked \cup {ImplList}
<1> DEFINE s == ListOf(Linked)
<1>0. Linked \subseteq Impls
  <2>1. CASE pc[App] = "unlink"
    <3>1. s \in Seq(Impls) /\ Len(s) > 0 /\ p[App] = s[1]
      BY <2>1, ListMembers DEF ListInv
    <3>2. p[App] \in Impls
      BY <3>1
    <3> QED
      BY <3>2 DEF Linked, ListTypes
  <2>2. CASE pc[App] # "unlink"
    BY <2>2 DEF Linked, ListTypes
  <2> QED
    BY <2>1, <2>2
<1>1. s \in Seq(Impls) /\ IsList(mem, ImplList, s) /\ Members(s) = Linked
  BY <1>0, ListMembers DEF ListInv
<1> HIDE DEF s
<1>2. s \in Seq(Nodes) /\ mem \in Memory(Nodes, Pointers) /\ ImplList \in Nodes
  BY <1>1, ConstantFacts DEF ListTypes, Memory
<1> QED
  BY <1>1, <1>2, NextInside DEF s

\* A list that nobody touches.
LEMMA ListQuiet ==
    ASSUME ListInv, UNCHANGED lists, Linked' = Linked, pc'[App] \notin {"destroy", "unlink"}
    PROVE  ListInv'
BY DEF ListInv, lists

\* An initialisation is alone, and the implementation it registers is not in the
\* list.
LEMMA RegisterAlone ==
    ASSUME Typed, CompatInv, TurnInv, NEW a \in Actors, MoreToRegister(a)
    PROVE  /\ Current(a) \in Impls \ alive
           /\ pc[App] \notin {"destroy", "unlink"}
           /\ \A b \in Actors : Initialising(b) => b = a
           /\ binding = "ccurl" => inits = 1
<1>1. at[a] \in 1 .. Len(Order)
  BY ConstantFacts DEF Typed, TypeOK, InitTypes, MoreToRegister
<1>2. Current(a) \in Impls \ alive
  BY <1>1, ConstantFacts DEF TurnInv, MoreToRegister, Current
<1> QED
  BY <1>2, ConstantFacts, ActorAssumption
  DEF TurnInv, MoreToRegister, Initialising, CompatInv, InInit

LEMMA ListStep ==
    ASSUME Typed, CompatInv, ListInv, TurnInv, Next, ~misused'
    PROVE  ListInv'
<1>0. /\ pc \in [Actors -> Steps] /\ p \in [Actors -> Nodes] /\ ListTypes
      /\ mem \in Memory(Nodes, Pointers) /\ ImplList \in Nodes /\ Nodes \subseteq Pointers
      /\ App \in Actors
  BY ConstantFacts DEF Typed, TypeOK, CallTypes, ListTypes, Memory, Pointers
<1> DEFINE s == ListOf(Linked)
<1>1. /\ s \in Seq(Impls) /\ IsList(mem, ImplList, s)
      /\ Members(s) = Linked
      /\ pc[App] = "unlink" => Len(s) > 0 /\ p[App] = s[1] /\ p[App] \notin alive
      /\ pc[App] = "destroy" => p[App] = mem[ImplList].next
  BY <1>0, ListFacts DEF ListInv
<1> HIDE DEF s
<1>2. s \in Seq(Nodes) /\ Len(s) \in Nat
  BY <1>1, ConstantFacts
<1>3. CASE UNCHANGED lists /\ pc'[App] = pc[App] /\ p'[App] = p[App]
  BY <1>3 DEF ListInv, Linked, lists
<1>4. CASE BeginInit \/ DestroyReturns
  <2>1. UNCHANGED lists /\ pc[App] \in {"idle", "destroy"} /\ pc'[App] \in {"idle", "register"}
    BY <1>0, <1>4 DEF BeginInit, DestroyReturns, Move, rest
  <2> QED
    BY <2>1, ListQuiet DEF Linked, lists
<1>5. ASSUME NEW a \in Actors, InitReturns(a)
      PROVE  ListInv'
  <2>1. UNCHANGED <<lists, p>>
        /\ (pc'[App] = pc[App] \/ (pc[App] = "register" /\ pc'[App] = "idle"))
    <3>1. UNCHANGED <<lists, p>>
      BY <1>5 DEF InitReturns
    <3>2. pc[a] = "register"
          /\ pc' = [pc EXCEPT ![a] = IF a = App THEN "idle" ELSE "initialized"]
      BY <1>5 DEF InitReturns, Initialising
    <3> QED
      BY <1>0, <3>1, <3>2
  <2> QED
    BY <2>1, ListQuiet DEF ListInv, Linked, lists
<1>6. CASE BeginDestroy
  BY <1>0, <1>6 DEF BeginDestroy, Move, ListInv, Linked, lists
<1>7. CASE DestroyNode
  <2>1. /\ UNCHANGED <<mem, p>> /\ pc[App] = "destroy" /\ pc'[App] = "unlink"
        /\ p[App] \in alive /\ alive' = alive \ {p[App]}
    BY <1>0, <1>7 DEF DestroyNode, Move
  <2>2. p[App] # ImplList
    BY <1>0, <2>1, ConstantFacts DEF ListTypes
  <2>3. Len(s) > 0 /\ p[App] = s[1]
    BY <1>0, <1>1, <1>2, <2>1, <2>2, ListEnds
  <2>4. Linked' = Linked
    BY <2>1 DEF Linked
  <2> QED
    BY <1>1, <2>1, <2>3, <2>4 DEF ListInv, s
<1>8. CASE Unlink
  <2>1. /\ mem' = list_del(mem, p[App]) /\ p'[App] = mem'[p[App]].next
        /\ pc[App] = "unlink" /\ pc'[App] = "destroy" /\ alive' = alive
    BY <1>0, <1>8 DEF Unlink, Without, Move
  <2>2. p[App] = s[1] /\ Len(s) > 0 /\ p[App] \notin alive
    BY <1>1, <2>1
  <2>3. /\ IsList(mem', ImplList, Tail(s))
        /\ Members(Tail(s)) = Members(s) \ {s[1]}
        /\ mem'[s[1]].next = mem'[ImplList].next
    BY <1>0, <1>1, <1>2, <2>1, <2>2, BuildAssumption, DelFirst
  <2>4. Linked' = Linked \ {s[1]}
    BY <2>1, <2>2 DEF Linked
  <2>5. ListOf(Linked)' = Tail(s)
    BY <2>2, <2>4, ListShrinks DEF s
  <2> QED
    BY <2>1, <2>2, <2>3, <2>5 DEF ListInv
<1>9. ASSUME NEW a \in Actors, Register(a) \/ FpgaAttempted(a)
      PROVE  ListInv'
  <2>1. MoreToRegister(a) /\ pc' = pc /\ p' = p
        /\ \/ UNCHANGED lists
           \/ /\ mem' = list_add(mem, Current(a), ImplList)
              /\ alive' = alive \cup {Current(a)}
    BY <1>9 DEF Register, FpgaAttempted, Registered, NotRegistered, lists
  <2>2. Current(a) \in Impls \ alive /\ pc[App] \notin {"destroy", "unlink"}
    BY <2>1, RegisterAlone
  <2>3. CASE UNCHANGED lists
    BY <2>1, <2>3 DEF ListInv, Linked, lists
  <2>4. CASE mem' = list_add(mem, Current(a), ImplList) /\ alive' = alive \cup {Current(a)}
    <3>1. Current(a) \in Nodes /\ Current(a) # ImplList /\ Current(a) \notin Members(s)
      BY <1>1, <2>2, ConstantFacts DEF Linked
    <3>2. /\ IsList(mem', ImplList, <<Current(a)>> \o s)
          /\ Members(<<Current(a)>> \o s) = Members(s) \cup {Current(a)}
      BY <1>0, <1>1, <1>2, <2>4, <3>1, AddPrepends
    <3>3. Linked = alive /\ Linked' = alive \cup {Order[at[a]]}
      BY <2>1, <2>2, <2>4 DEF Linked, Current
    <3>4. at[a] \in 1 .. Len(Order) /\ \A k \in at[a] .. Len(Order) : Order[k] \notin alive
      BY <2>1, ConstantFacts DEF Typed, TypeOK, InitTypes, MoreToRegister, TurnInv
    <3>5. ListOf(Linked)' = <<Current(a)>> \o s
      BY <3>3, <3>4, ListGrows DEF s, Current
    <3> QED
      BY <2>1, <2>2, <3>2, <3>5 DEF ListInv
  <2> QED
    BY <2>1, <2>3, <2>4
<1> QED
  BY <1>0, <1>3, <1>4, <1>5, <1>6, <1>7, <1>8, <1>9, AppFrame

LEMMA TurnStep ==
    ASSUME Typed, CompatInv, AtInv, ListInv, TurnInv, Next, ~misused'
    PROVE  TurnInv'
<1>0. /\ pc \in [Actors -> Steps] /\ p \in [Actors -> Nodes] /\ ListTypes
      /\ at \in [Actors -> 1 .. Len(Order) + 1]
      /\ Threads \subseteq Actors /\ App \in Actors /\ Actors = Threads \cup {App}
      /\ App \notin Threads
      /\ \A t \in Threads : pc[t] \notin {"destroy", "unlink"}
      /\ pc[App] \in {"idle", "register", "destroy", "unlink"}
  BY ConstantFacts, ActorAssumption
  DEF Typed, TypeOK, CallTypes, ListTypes, InitTypes, ServiceInv, CallInv, Destroying
<1>1. \A t \in Threads : pc[t] # "idle" => pc[App] = "idle" /\ Linked = alive
  BY <1>0 DEF TurnInv, Linked
<1>2. /\ pc[App] = "idle" => mem[ImplList].next \in alive \cup {ImplList}
      /\ pc[App] = "idle" => \A x \in alive : mem[x].next \in alive \cup {ImplList}
  BY <1>0, ListFacts DEF Linked
<1>3. CASE BeginInit
  BY <1>0, <1>1, <1>2, <1>3 DEF BeginInit, Move, OthersIdle, AtInv, TurnInv,
         Initialising, Serving, guards, init, lists, pool, bounds, rest
<1>4. CASE BeginDestroy
  BY <1>0, <1>1, <1>2, <1>4 DEF BeginDestroy, Move, OthersIdle, AtInv, TurnInv,
         Initialising, Serving, guards, init, lists, pool, bounds, rest
<1>5. CASE DestroyNode
  BY <1>0, <1>1, <1>2, <1>5 DEF DestroyNode, Move, Released, TurnInv, Initialising,
         Serving, guards, init, lists, pool, bounds, rest
<1>6. CASE Unlink
  BY <1>0, <1>1, <1>2, <1>6 DEF Unlink, Move, TurnInv, Initialising, Serving, guards,
         init, lists, pool, bounds, rest
<1>7. CASE DestroyReturns
  BY <1>0, <1>1, <1>2, <1>7 DEF DestroyReturns, Move, TurnInv, Initialising, Serving,
         guards, init, lists, pool, bounds, rest
<1>8. ASSUME NEW t \in Threads, CallEntry(t)
      PROVE  TurnInv'
  BY <1>0, <1>1, <1>2, <1>8 DEF CallEntry, Begin, Move, Destroying, TurnInv,
         Initialising, Serving, guards, init, lists, pool, bounds, rest
<1>9. ASSUME NEW t \in Threads, CallLocked(t)
      PROVE  TurnInv'
  BY <1>0, <1>1, <1>2, <1>9 DEF CallLocked, Begin, Move, Destroying, TurnInv,
         Initialising, Serving, guards, init, lists, pool, bounds, rest
<1>10. ASSUME NEW a \in Actors, Register(a)
      PROVE  TurnInv'
  <2>1. /\ MoreToRegister(a) /\ pc' = pc /\ p' = p /\ UNCHANGED <<binding, inits>>
        /\ at' = [at EXCEPT ![a] = at[a] + 1]
    BY <1>10 DEF Register, bounds
  <2>5. alive' = alive \/ alive' = alive \cup {Current(a)}
    BY <1>10 DEF Register, Registered, NotRegistered, lists
  <2>2. /\ \A b \in Actors : Initialising(b) => b = a
        /\ binding = "ccurl" => inits = 1
        /\ at[a] \in 1 .. Len(Order) /\ Len(Order) \in Nat
    BY <1>0, <2>1, RegisterAlone, ConstantFacts DEF MoreToRegister
  <2>3. at'[a] = at[a] + 1
    <3>1. DOMAIN at = Actors
      BY <1>0
    <3> QED
      BY <2>1, <3>1
  <2>4. ASSUME NEW k \in at[a] + 1 .. Len(Order)
        PROVE  Order[k] \notin alive'
    <3>1. k \in at[a] .. Len(Order) /\ k \in 1 .. Len(Order) /\ k # at[a]
      BY <2>2
    <3>2. Order[k] \notin alive
      BY <2>1, <3>1 DEF TurnInv, MoreToRegister
    <3>3. Order[k] # Order[at[a]]
      BY <2>2, <3>1, ConstantFacts
    <3> QED
      BY <2>5, <3>2, <3>3 DEF Current
  <2> QED
    BY <2>1, <2>2, <2>3, <2>4, <2>5 DEF TurnInv, Initialising, Serving, MoreToRegister
<1>11. ASSUME NEW a \in Actors, FpgaAttempted(a)
      PROVE  TurnInv'
  <2>1. /\ MoreToRegister(a) /\ pc' = pc /\ p' = p /\ UNCHANGED <<binding, inits>>
        /\ at' = [at EXCEPT ![a] = at[a] + 1]
    BY <1>11 DEF FpgaAttempted, bounds
  <2>5. alive' = alive \/ alive' = alive \cup {Current(a)}
    BY <1>11 DEF FpgaAttempted, Registered, NotRegistered, lists
  <2>2. /\ \A b \in Actors : Initialising(b) => b = a
        /\ binding = "ccurl" => inits = 1
        /\ at[a] \in 1 .. Len(Order) /\ Len(Order) \in Nat
    BY <1>0, <2>1, RegisterAlone, ConstantFacts DEF MoreToRegister
  <2>3. at'[a] = at[a] + 1
    <3>1. DOMAIN at = Actors
      BY <1>0
    <3> QED
      BY <2>1, <3>1
  <2>4. ASSUME NEW k \in at[a] + 1 .. Len(Order)
        PROVE  Order[k] \notin alive'
    <3>1. k \in at[a] .. Len(Order) /\ k \in 1 .. Len(Order) /\ k # at[a]
      BY <2>2
    <3>2. Order[k] \notin alive
      BY <2>1, <3>1 DEF TurnInv, MoreToRegister
    <3>3. Order[k] # Order[at[a]]
      BY <2>2, <3>1, ConstantFacts
    <3> QED
      BY <2>5, <3>2, <3>3 DEF Current
  <2> QED
    BY <2>1, <2>2, <2>3, <2>4, <2>5 DEF TurnInv, Initialising, Serving, MoreToRegister
<1>12. ASSUME NEW a \in Actors, InitReturns(a)
      PROVE  TurnInv'
  <2>1. /\ pc[a] = "register" /\ UNCHANGED <<lists, p, binding, inits>>
        /\ pc' = [pc EXCEPT ![a] = IF a = App THEN "idle" ELSE "initialized"]
        /\ at' = [at EXCEPT ![a] = 1]
    BY <1>12 DEF InitReturns, Restarted, Initialising, bounds
  <2>2. /\ \A b \in Actors \ {a} : pc'[b] = pc[b] /\ at'[b] = at[b]
        /\ pc'[a] \in {"idle", "initialized"}
        /\ a # App => pc[App] = "idle" /\ pc'[App] = "idle"
        /\ a = App => pc'[App] = "idle"
    BY <1>0, <1>1, <2>1
  <2> QED
    BY <1>0, <2>1, <2>2 DEF TurnInv, Initialising, Serving, lists
<1>13. ASSUME NEW t \in Threads, CcurlInit(t)
      PROVE  TurnInv'
  <2>1. /\ binding = "ccurl" /\ mtx = Nobody /\ ~compat /\ pc[t] = "lock"
        /\ pc' = [pc EXCEPT ![t] = "register"] /\ inits' = inits + 1
        /\ UNCHANGED <<lists, p, at, binding>>
    BY <1>13 DEF CcurlInit, MtxFree, Move, init
  <2>2. inits = 0 /\ inits' = 1
    BY <2>1 DEF CompatInv
  <2>3. alive = {} /\ alive' = {}
    BY <2>1, <2>2 DEF TurnInv, lists
  <2> QED
    BY <1>0, <1>1, <2>1, <2>2, <2>3 DEF TurnInv, Initialising, Serving
<1>14. ASSUME NEW t \in Threads, SyncLock(t)
      PROVE  TurnInv'
  BY <1>0, <1>1, <1>2, <1>14 DEF SyncLock, Move, Destroying, TurnInv, Initialising,
         Serving, guards, init, lists, pool, bounds, rest
<1>15. ASSUME NEW t \in Threads, CcurlInitialized(t)
      PROVE  TurnInv'
  BY <1>0, <1>1, <1>2, <1>15 DEF CcurlInitialized, Move, Destroying, TurnInv,
         Initialising, Serving, guards, init, lists, pool, bounds, rest
<1>16. ASSUME NEW t \in Threads, CcurlSkip(t)
      PROVE  TurnInv'
  BY <1>0, <1>1, <1>2, <1>16 DEF CcurlSkip, Move, Destroying, TurnInv, Initialising,
         Serving, guards, init, lists, pool, bounds, rest
<1>17. ASSUME NEW t \in Threads, EntryRefused(t)
      PROVE  TurnInv'
  BY <1>0, <1>1, <1>2, <1>17 DEF EntryRefused, Move, Destroying, TurnInv, Initialising,
         Serving, guards, init, lists, pool, bounds, rest
<1>18. ASSUME NEW t \in Threads, EntryScan(t)
      PROVE  TurnInv'
  BY <1>0, <1>1, <1>2, <1>18 DEF EntryScan, Move, Destroying, TurnInv, Initialising,
         Serving, guards, init, lists, pool, bounds, rest
<1>19. ASSUME NEW t \in Threads, Enter(t)
      PROVE  TurnInv'
  BY <1>0, <1>1, <1>2, <1>19 DEF Enter, Move, Destroying, TurnInv, Initialising,
         Serving, guards, init, lists, pool, bounds, rest
<1>20. ASSUME NEW t \in Threads, ScanNext(t)
      PROVE  TurnInv'
  BY <1>0, <1>1, <1>2, <1>20 DEF ScanNext, Destroying, TurnInv, Initialising, Serving,
         guards, init, lists, pool, bounds, rest
<1>21. ASSUME NEW t \in Threads, Wake(t)
      PROVE  TurnInv'
  BY <1>0, <1>1, <1>2, <1>21 DEF Wake, Destroying, TurnInv, Initialising, Serving,
         guards, init, lists, pool, bounds, rest
<1>22. ASSUME NEW t \in Threads, Pow(t)
      PROVE  TurnInv'
  BY <1>0, <1>1, <1>2, <1>22 DEF Pow, Move, Served, Destroying, TurnInv, Initialising,
         Serving, guards, init, lists, pool, bounds, rest
<1>23. ASSUME NEW t \in Threads, TakeFpga(t)
      PROVE  TurnInv'
  BY <1>0, <1>1, <1>2, <1>23 DEF TakeFpga, Move, GetPowContext, Goto, Destroying,
         TurnInv, Initialising, Serving, guards, init, lists, pool, bounds, rest
<1>24. ASSUME NEW t \in Threads, FpgaServed(t)
      PROVE  TurnInv'
  BY <1>0, <1>1, <1>2, <1>24 DEF FpgaServed, Move, Goto, Served, Destroying, TurnInv,
         Initialising, Serving, guards, init, lists, pool, bounds, rest
<1>25. ASSUME NEW t \in Threads, Exit(t)
      PROVE  TurnInv'
  BY <1>0, <1>1, <1>2, <1>25 DEF Exit, Move, Destroying, TurnInv, Initialising, Serving,
         guards, init, lists, pool, bounds, rest
<1>26. ASSUME NEW t \in Threads, Post(t)
      PROVE  TurnInv'
  BY <1>0, <1>1, <1>2, <1>26 DEF Post, Move, Destroying, TurnInv, Initialising, Serving,
         guards, init, lists, pool, bounds, rest
<1>27. ASSUME NEW t \in Threads, Return(t)
      PROVE  TurnInv'
  BY <1>0, <1>1, <1>2, <1>27 DEF Return, Move, Destroying, TurnInv, Initialising,
         Serving, guards, init, lists, pool, bounds, rest
<1>28. CASE UNCHANGED <<pc, at, p, lists, binding, inits>>
  BY <1>28 DEF TurnInv, Initialising, Serving, lists
<1> QED
  BY <1>3, <1>4, <1>5, <1>6, <1>7, <1>8, <1>9, <1>10, <1>11, <1>12, <1>13, <1>14, <1>15,
     <1>16, <1>17, <1>18, <1>19, <1>20, <1>21, <1>22, <1>23, <1>24, <1>25, <1>26, <1>27,
     <1>28, PcFrame, PointerFrame, ListsFrame, InitFrame, BindingFrame, BoundsFrame
  DEF init, bounds
LEMMA AtStep ==
    ASSUME Typed, AtInv, Next
    PROVE  AtInv'
<1>0. pc \in [Actors -> Steps] /\ at \in [Actors -> 1 .. Len(Order) + 1]
  BY DEF Typed, TypeOK, CallTypes, InitTypes
<1>1. ASSUME NEW a \in Actors, Register(a)
      PROVE  AtInv'
  BY <1>0, <1>1 DEF Register, MoreToRegister, Initialising, AtInv
<1>2. ASSUME NEW a \in Actors, FpgaAttempted(a)
      PROVE  AtInv'
  BY <1>0, <1>2 DEF FpgaAttempted, MoreToRegister, Initialising, AtInv
<1>3. ASSUME NEW a \in Actors, InitReturns(a)
      PROVE  AtInv'
  BY <1>0, <1>3 DEF InitReturns, Restarted, Initialising, AtInv
<1>4. CASE UNCHANGED init
  <2>1. \A b \in Actors : Initialising(b) => Initialising(b)' \/ \E a \in Actors : InitReturns(a)
    BY <1>0, PcFrame, ConstantFacts DEF Initialising, BeginInit, BeginDestroy,
       DestroyNode, Unlink, DestroyReturns, CallEntry, CallLocked, SyncLock, CcurlInit,
       CcurlInitialized, CcurlSkip, EntryRefused, EntryScan, Enter, Pow, TakeFpga,
       FpgaServed, Exit, Post, Return, Move
  <2> QED
    BY <1>0, <1>3, <1>4, <2>1 DEF AtInv, init
<1> QED
  BY <1>1, <1>2, <1>3, <1>4, InitFrame

\* No back end works on freed memory, no context is freed twice and no semaphore is
\* initialised under a sleeper.
LEMMA NothingUndefined ==
    ASSUME Typed, CompatInv, ListInv, TurnInv, Next
    PROVE  broken' # "undefined"
<1>0. Running /\ ListTypes /\ Threads \subseteq Actors
  BY ConstantFacts DEF Next, Typed, TypeOK
<1>1. ASSUME NEW t \in Threads, UseAfterDestroy(t)
      PROVE  FALSE
  BY <1>1 DEF UseAfterDestroy, TurnInv
<1>2. CASE DestroyTwice
  <2>1. Linked = alive /\ p[App] = mem[ImplList].next
    BY <1>2 DEF DestroyTwice, ListInv, Linked
  <2> QED
    BY <1>0, <1>2, <2>1, ListFacts DEF DestroyTwice
<1>3. ASSUME NEW a \in Actors, InitBesideSleeper(a)
      PROVE  FALSE
  <2>1. PICK t \in Threads : pc[t] = "scan"
    BY <1>3 DEF InitBesideSleeper, Asleep
  <2>2. Initialising(a)
    BY <1>3 DEF InitBesideSleeper
  <2> QED
    BY <2>1, <2>2, ActorAssumption DEF TurnInv, CompatInv, InInit, PastGuard,
       Initialising
<1>4. ASSUME NEW t \in Threads, ReadNull(t)
      PROVE  broken' # "undefined"
  BY <1>4 DEF ReadNull
<1> QED
  BY <1>0, <1>1, <1>2, <1>3, <1>4, BrokenFrame DEF Running

\* The invariants of the library's lives together.
LEMMA LivesInit ==
    Init => Typed /\ CompatInv /\ AtInv /\ LifeInv
<1> SUFFICES ASSUME Init
             PROVE  CompatInv /\ AtInv /\ LifeInv
  BY TypedInit
<1>1. CompatInv /\ AtInv
  BY ConstantFacts DEF Init, CompatInv, InInit, PastGuard, AtInv
<1>2. ListInv
  <2>1. IsList(mem, ImplList, <<>>) /\ alive = {} /\ pc[App] = "idle"
    BY ConstantFacts DEF Init, Unlinked, IsList, At
  <2>2. Linked = {}
    BY <2>1 DEF Linked
  <2>3. ListOf({}) = <<>>
    <3>1. ListOf({}) = ListsOf({})[0]
      BY ConstantFacts, ListsSkip
    <3> QED
      BY <3>1, ConstantFacts, ListsAre
  <2> QED
    BY <2>1, <2>2, <2>3 DEF ListInv
<1>3. TurnInv
  BY ConstantFacts DEF Init, TurnInv, Initialising, Serving
<1> QED
  BY <1>1, <1>2, <1>3 DEF LifeInv

LEMMA StillMisused ==
    misused /\ Next => misused'
BY BoundsFrame DEF BeginInit, BeginDestroy, CallEntry, CallLocked, Begin, CcurlInit

LEMMA LivesStep ==
    Typed /\ CompatInv /\ AtInv /\ LifeInv /\ [Next]_vars
        => (Typed /\ CompatInv /\ AtInv /\ LifeInv)'
<1> SUFFICES ASSUME Typed, CompatInv, AtInv, LifeInv, [Next]_vars
             PROVE  CompatInv' /\ AtInv' /\ LifeInv'
  BY TypedStep
<1>1. CASE UNCHANGED vars
  BY <1>1 DEF CompatInv, InInit, PastGuard, AtInv, Initialising, LifeInv, ListInv,
     Linked, TurnInv,
     Serving, vars, rest, guards, lists, init, bounds
<1>2. CASE Next
  BY <1>2, CompatStep, AtStep, ListStep, TurnStep, StillMisused DEF LifeInv
<1> QED
  BY <1>1, <1>2

\* As long as the application initialises and destroys the library alone and in
\* turns, nothing undefined happens, however often it does.
THEOREM SafeLives ==
    Spec => []SafeUnlessMisused
<1> DEFINE IInv == Typed /\ CompatInv /\ AtInv /\ LifeInv /\ SafeUnlessMisused
<1>1. Init => IInv
  BY LivesInit DEF Init, SafeUnlessMisused
<1>2. IInv /\ [Next]_vars => IInv'
  <2> SUFFICES ASSUME IInv, [Next]_vars
               PROVE  SafeUnlessMisused'
    BY LivesStep
  <2>1. CASE UNCHANGED vars
    BY <2>1 DEF SafeUnlessMisused, vars, rest
  <2>2. CASE Next
    BY <2>2, NothingUndefined, StillMisused DEF LifeInv, SafeUnlessMisused
  <2> QED
    BY <2>1, <2>2
<1>3. IInv => SafeUnlessMisused
  OBVIOUS
<1> HIDE DEF IInv
<1> QED
  BY <1>1, <1>2, <1>3, PTL DEF Spec

-----------------------------------------------------------------------------
(* The resources of the FPGA back end.                                     *)

\* The resources acquired before one, after it and before any.
LEMMA UnwoundFacts ==
    /\ \A x \in ResourceSet : x \notin Unwound(1)
    /\ \A k \in 1 .. 5 : \A x \in ResourceSet :
          x \in Unwound(k + 1) <=> x \in Unwound(k) \/ x = Resources[k]
    /\ \A x \in ResourceSet : x \in Unwound(6) \/ x = Resources[6]
    /\ \A k \in 1 .. 6 : Resources[k] \notin Unwound(k)
<1>1. \A k \in 1 .. 6 : Unwound(k) = {Resources[j] : j \in 1 .. k - 1}
  BY DEF Unwound
<1>2. \A j, k \in 1 .. 6 : Resources[j] = Resources[k] => j = k
  BY DEF Resources
<1>3. ResourceSet = {Resources[j] : j \in 1 .. 6}
  BY ResourceFacts DEF ResourceSet
<1> QED
  BY <1>1, <1>2, <1>3

LEMMA StageStep ==
    ASSUME Typed, StageInv, Next
    PROVE  StageInv'
<1>0. step \in [Actors -> FpgaSteps] /\ stage \in [Actors -> 1 .. 6]
  BY ResourceFacts DEF Typed, TypeOK, FpgaTypes
<1>1. CASE UNCHANGED <<step, stage>>
  BY <1>1 DEF StageInv
<1>2. ASSUME NEW a \in Actors, RegisterFpga(a)
      PROVE  StageInv'
  BY <1>0, <1>2 DEF RegisterFpga, Initialize, Acquire, CannotAcquire, Goto, StageInv
<1>3. ASSUME NEW a \in Actors, FpgaAttempted(a)
      PROVE  StageInv'
  BY <1>0, <1>3 DEF FpgaAttempted, Goto, StageInv
<1>4. ASSUME NEW t \in Threads, TakeFpga(t) \/ PowOnFpga(t) \/ FpgaServed(t)
      PROVE  StageInv'
  <2>1. stage' = stage
        /\ \E q \in FpgaSteps \ {"acquire"} : step[t] # "acquire" /\ step' = [step EXCEPT ![t] = q]
    BY <1>4 DEF TakeFpga, GetPowContext, PowOnFpga, Dialogue, WriteInput, WriteMwm,
       ReadStatus,
       ReadNonce, WriteOutput, PowFails, FpgaServed, Goto, FpgaSteps, DialogueSteps
  <2> QED
    BY <1>0, <2>1, ConstantFacts DEF StageInv
<1>5. CASE DestroyNode \/ FpgaDone
  BY <1>5 DEF DestroyNode, FpgaDone, DeviceDone, StageInv
<1> QED
  BY <1>1, <1>2, <1>3, <1>4, <1>5, FpgaFrame DEF fpgaVars

\* Steps that neither touch the resources nor move between the stages.
LEMMA HeldSame ==
    ASSUME \A x \in ResourceSet : held[x] = IF HeldBy(x) THEN 1 ELSE 0,
           held' = held, Fpga \in alive' <=> Fpga \in alive,
           \A a \in Actors, x \in ResourceSet : Acquired(a, x)' <=> Acquired(a, x)
    PROVE  \A x \in ResourceSet : held'[x] = IF HeldBy(x)' THEN 1 ELSE 0
BY DEF HeldBy

LEMMA HeldStep ==
    ASSUME Typed, StepInv, StageInv, CompatInv, TurnInv, Next, ~misused',
           \A x \in ResourceSet : held[x] = IF HeldBy(x) THEN 1 ELSE 0
    PROVE  \A x \in ResourceSet : held'[x] = IF HeldBy(x)' THEN 1 ELSE 0
<1> DEFINE Goal == \A x \in ResourceSet : held'[x] = IF HeldBy(x)' THEN 1 ELSE 0
<1> SUFFICES Goal
  OBVIOUS
<1>0. /\ pc \in [Actors -> Steps] /\ step \in [Actors -> FpgaSteps]
      /\ stage \in [Actors -> 1 .. 6] /\ held \in [ResourceSet -> Int]
      /\ ServiceInv /\ Threads \subseteq Actors /\ App \in Actors
  BY ConstantFacts, ResourceFacts DEF Typed, TypeOK, CallTypes, FpgaTypes
<1>1. CASE BeginInit
  <2>1. step[App] = "idle" /\ UNCHANGED <<held, step, stage, alive>>
        /\ pc' = [pc EXCEPT ![App] = "register"]
    BY <1>0, <1>1 DEF BeginInit, Move, StepInv, Initialising, fpgaVars, lists
  <2> QED
    BY <1>0, <2>1, HeldSame DEF Acquired, Initialising
<1>2. ASSUME NEW t \in Threads, CcurlInit(t)
      PROVE  Goal
  <2>1. step[t] = "idle" /\ UNCHANGED <<held, step, stage, alive>>
        /\ pc' = [pc EXCEPT ![t] = "register"]
    BY <1>0, <1>2 DEF CcurlInit, Move, StepInv, Initialising, fpgaVars, lists
  <2> QED
    BY <1>0, <2>1, HeldSame DEF Acquired, Initialising
<1>3. ASSUME NEW a \in Actors, InitReturns(a)
      PROVE  Goal
  <2>1. pc[a] = "register" /\ at[a] > Len(Order) /\ UNCHANGED <<held, step, stage, alive>>
        /\ \A b \in Actors \ {a} : pc'[b] = pc[b]
    BY <1>0, <1>3 DEF InitReturns, Initialising, fpgaVars, lists
  <2>2. step[a] = "idle"
    <3>1. at[a] \in 1 .. Len(Order) + 1 /\ Len(Order) \in Nat
      BY ConstantFacts DEF Typed, TypeOK, InitTypes
    <3> QED
      BY <2>1, <3>1 DEF StepInv, Initialising, MoreToRegister
  <2> QED
    BY <2>1, <2>2, HeldSame DEF Acquired, Initialising
<1>4. ASSUME NEW t \in Threads, TakeFpga(t) \/ FpgaServed(t) \/ PowOnFpga(t)
      PROVE  Goal
  <2>1. /\ UNCHANGED <<held, stage, alive>> /\ ~Initialising(t)
        /\ \A b \in Actors \ {t} : step'[b] = step[b] /\ pc'[b] = pc[b]
        /\ pc'[t] # "register"
    BY <1>0, <1>4 DEF TakeFpga, GetPowContext, PowOnFpga, Dialogue, WriteInput,
       WriteMwm, ReadStatus,
       ReadNonce, WriteOutput, PowFails, FpgaServed, Served, Goto, Move, Initialising,
       rest, lists
  <2> QED
    BY <2>1, HeldSame DEF Acquired, Initialising
<1>5. ASSUME NEW a \in Actors, RegisterFpga(a)
      PROVE  Goal
  <2>1. /\ MoreToRegister(a) /\ Current(a) = Fpga /\ UNCHANGED <<pc, alive>>
        /\ Initialising(a)
    BY <1>5 DEF RegisterFpga, MoreToRegister, rest, lists
  <2>2. Fpga \notin alive /\ \A b \in Actors : Initialising(b) => b = a
    BY <2>1, RegisterAlone
  <2>3. /\ \A x \in ResourceSet : HeldBy(x) <=> Acquired(a, x)
        /\ \A x \in ResourceSet : HeldBy(x)' <=> Acquired(a, x)'
    BY <2>1, <2>2 DEF HeldBy, Acquired, Initialising
  <2>4. CASE Initialize(a)
    BY <1>0, <2>1, <2>3, <2>4, UnwoundFacts
    DEF Initialize, Goto, StageInv, Acquired, Initialising
  <2>5. CASE Acquire(a)
    <3> DEFINE k == stage[a]
    <3>1. k \in 1 .. 6 /\ Resources[k] \in ResourceSet /\ step[a] = "acquire"
      BY <1>0, <2>5, ResourceFacts DEF Acquire
    <3>2. \A x \in ResourceSet : Acquired(a, x) <=> x \in Unwound(k)
      BY <2>1, <3>1 DEF Acquired
    <3>3. \A x \in ResourceSet : Acquired(a, x)' <=> x \in Unwound(k) \/ x = Resources[k]
      <4>1. CASE k < 6
        <5>1. stage'[a] = k + 1 /\ step'[a] = "acquire"
          BY <1>0, <2>5, <3>1, <4>1, ResourceFacts DEF Acquire
        <5> QED
          BY <2>1, <3>1, <4>1, <5>1, UnwoundFacts DEF Acquired, Initialising
      <4>2. CASE k = 6
        <5>1. step'[a] = "succeeded"
          BY <1>0, <2>5, <4>2, ResourceFacts DEF Acquire
        <5> QED
          BY <2>1, <4>2, <5>1, UnwoundFacts DEF Acquired, Initialising
      <4> QED
        BY <3>1, <4>1, <4>2
    <3>4. \A x \in ResourceSet : held'[x] = IF x = Resources[k] THEN held[x] + 1 ELSE held[x]
      BY <1>0, <2>5, <3>1 DEF Acquire
    <3>5. Resources[k] \notin Unwound(k)
      BY <3>1, UnwoundFacts
    <3> HIDE DEF k
    <3> QED
      BY <2>3, <3>1, <3>2, <3>3, <3>4, <3>5
  <2>6. CASE CannotAcquire(a)
    <3>1. /\ step[a] = "acquire" /\ step'[a] = "failed"
          /\ \A x \in ResourceSet :
                held'[x] = IF x \in Unwound(stage[a]) THEN held[x] - 1 ELSE held[x]
      BY <1>0, <2>6 DEF CannotAcquire, Goto
    <3> QED
      BY <2>1, <2>3, <3>1 DEF Acquired
  <2> QED
    BY <1>5, <2>4, <2>5, <2>6 DEF RegisterFpga
<1>6. ASSUME NEW a \in Actors, FpgaAttempted(a)
      PROVE  Goal
  <2>1. /\ MoreToRegister(a) /\ Current(a) = Fpga /\ UNCHANGED <<pc, held>>
        /\ Initialising(a) /\ step'[a] = "idle"
        /\ \/ step[a] = "succeeded" /\ alive' = alive \cup {Fpga}
           \/ step[a] = "failed" /\ alive' = alive
    BY <1>0, <1>6
    DEF FpgaAttempted, Goto, Registered, NotRegistered, MoreToRegister, lists
  <2>2. Fpga \notin alive /\ \A b \in Actors : Initialising(b) => b = a
    BY <2>1, RegisterAlone
  <2>3. /\ \A x \in ResourceSet : HeldBy(x) <=> step[a] = "succeeded"
        /\ \A x \in ResourceSet : HeldBy(x)' <=> Fpga \in alive'
    BY <2>1, <2>2 DEF HeldBy, Acquired, Initialising
  <2> QED
    BY <2>1, <2>2, <2>3
<1>7. ASSUME NEW a \in Actors, Register(a)
      PROVE  Goal
  <2>1. UNCHANGED <<held, step, stage, pc>> /\ (Fpga \in alive' <=> Fpga \in alive)
    BY <1>7 DEF Register, Registered, NotRegistered, fpgaVars, lists
  <2> QED
    BY <2>1, HeldSame DEF Acquired, Initialising
<1>8. CASE DestroyNode
  <2>1. /\ p[App] \in alive /\ alive' = alive \ {p[App]} /\ UNCHANGED <<step, stage>>
        /\ held' = IF p[App] = Fpga THEN Released ELSE held
        /\ pc[App] = "destroy" /\ pc' = [pc EXCEPT ![App] = "unlink"]
    BY <1>8 DEF DestroyNode, Move
  <2>2. \A b \in Actors : ~Initialising(b) /\ ~Initialising(b)'
    BY <1>0, <2>1, ActorAssumption DEF TurnInv, Initialising
  <2>3. /\ \A x \in ResourceSet : HeldBy(x) <=> Fpga \in alive
        /\ \A x \in ResourceSet : HeldBy(x)' <=> Fpga \in alive'
    BY <2>2 DEF HeldBy, Acquired
  <2>4. \A x \in ResourceSet : Released[x] = held[x] - 1
    BY DEF Released
  <2> QED
    BY <1>0, <2>1, <2>3, <2>4
<1>9. CASE /\ UNCHANGED <<held, step, stage, alive>>
           /\ UNCHANGED pc \/ Elsewhere
  BY <1>0, <1>9, HeldSame DEF Acquired, Initialising, Elsewhere
<1>10. UNCHANGED <<held, stage>> \/ DestroyNode \/ \E a \in Actors : RegisterFpga(a)
  BY FpgaFrame
  DEF fpgaVars, FpgaDone, DeviceDone, FpgaAttempted, TakeFpga, GetPowContext, PowOnFpga,
       Dialogue,
      WriteInput, WriteMwm, ReadStatus, ReadNonce, WriteOutput, PowFails, FpgaServed
<1>11. UNCHANGED alive \/ DestroyNode \/ \E a \in Actors : Register(a) \/ FpgaAttempted(a)
  BY ListsFrame DEF lists, Unlink
<1> HIDE DEF Goal
<1>12. CASE UNCHANGED <<step, at>> /\ (UNCHANGED pc \/ Elsewhere)
  <2>1. CASE UNCHANGED <<held, stage>> /\ UNCHANGED alive
    BY <1>9, <1>12, <2>1
  <2> QED
    BY <1>5, <1>6, <1>7, <1>8, <1>10, <1>11, <2>1
<1> QED
  BY <1>0, <1>1, <1>2, <1>3, <1>4, <1>5, <1>6, <1>7, <1>12, ElsewhereFrame

\* The FPGA's resources are held once while it is registered and not at all
\* otherwise, also after an initialisation that failed half-way.
THEOREM NoLeak ==
    Spec => []NothingLeaked
<1> DEFINE IInv == Typed /\ CompatInv /\ AtInv /\ LifeInv /\ StepInv /\ StageInv /\ HeldInv
<1>1. Init => IInv
  <2> SUFFICES ASSUME Init
               PROVE  IInv
    OBVIOUS
  <2>1. Typed /\ CompatInv /\ AtInv /\ LifeInv
    BY LivesInit
  <2>2. StepInv /\ StageInv
    BY ConstantFacts DEF Init, FpgaInit, StepInv, StageInv, Initialising
  <2>3. HeldInv
    BY DEF Init, FpgaInit, HeldInv, HeldBy, Acquired, Initialising
  <2> QED
    BY <2>1, <2>2, <2>3
<1>2. IInv /\ [Next]_vars => IInv'
  <2> SUFFICES ASSUME IInv, [Next]_vars
               PROVE  StepInv' /\ StageInv' /\ HeldInv'
    BY LivesStep
  <2>1. CASE UNCHANGED vars
    BY <2>1 DEF StepInv, Initialising, MoreToRegister, Current, StageInv, HeldInv,
       HeldBy, Acquired,
       vars, rest, init, lists, fpgaVars
  <2>2. CASE Next
    BY <2>2, StepStep, StageStep, HeldStep, LivesStep, StillMisused DEF HeldInv, LifeInv
  <2> QED
    BY <2>1, <2>2
<1>3. IInv => NothingLeaked
  <2> SUFFICES ASSUME IInv, Settled, ~misused, NEW x \in ResourceSet
               PROVE  held[x] = IF Fpga \in alive THEN 1 ELSE 0
    BY DEF NothingLeaked
  <2> QED
    BY DEF HeldInv, HeldBy, Acquired, Settled
<1> HIDE DEF IInv
<1> QED
  BY <1>1, <1>2, <1>3, PTL DEF Spec

-----------------------------------------------------------------------------
(* The registry.                                                           *)

\* One initialisation at a time.
LEMMA InitAlone ==
    ASSUME CompatInv, TurnInv, NEW a \in Actors, NEW b \in Actors,
           Initialising(a), Initialising(b)
    PROVE  a = b
BY ActorAssumption DEF TurnInv, Initialising, CompatInv, InInit

\* Steps that neither register nor enter or leave dcurl_init.
LEMMA RegisteredQuiet ==
    ASSUME RegisteredInv, UNCHANGED <<ret, is_initialized>>, alive' \subseteq alive,
           \A a \in Actors : Initialising(a)' <=> Initialising(a)
    PROVE  RegisteredInv'
BY DEF RegisteredInv

LEMMA RegisteredStep ==
    ASSUME Typed, CompatInv, TurnInv, RegisteredInv, Next, ~misused'
    PROVE  RegisteredInv'
<1>0. /\ pc \in [Actors -> Steps] /\ ret \in [Actors -> BOOLEAN] /\ ServiceInv
      /\ Threads \subseteq Actors /\ App \in Actors
  BY ConstantFacts DEF Typed, TypeOK, CallTypes, InitTypes
<1>1. CASE BeginInit
  <2>1. alive = {} /\ alive' = {}
    BY <1>1 DEF BeginInit, lists
  <2> QED
    BY <2>1 DEF RegisteredInv
<1>2. ASSUME NEW t \in Threads, CcurlInit(t)
      PROVE  RegisteredInv'
  <2>1. binding = "ccurl" /\ mtx = Nobody /\ ~compat /\ alive' = alive
    BY <1>2 DEF CcurlInit, MtxFree, lists
  <2>2. alive' = {}
    BY <2>1 DEF CompatInv, TurnInv
  <2> QED
    BY <2>2 DEF RegisteredInv
<1>3. ASSUME NEW a \in Actors, InitReturns(a)
      PROVE  RegisteredInv'
  <2>1. /\ Initialising(a) /\ is_initialized' = ret[a] /\ alive' = alive
        /\ \A b \in Actors \ {a} : pc'[b] = pc[b]
        /\ pc'[a] # "register"
    BY <1>0, <1>3 DEF InitReturns, lists
  <2>2. \A b \in Actors : ~Initialising(b)'
    BY <2>1, InitAlone DEF Initialising
  <2> QED
    BY <2>1, <2>2 DEF RegisteredInv
<1>4. ASSUME NEW a \in Actors, Register(a) \/ FpgaAttempted(a)
      PROVE  RegisteredInv'
  <2>1. /\ Initialising(a) /\ pc' = pc /\ is_initialized' = is_initialized
        /\ Registered(a) \/ NotRegistered
    BY <1>4 DEF Register, FpgaAttempted, MoreToRegister
  <2>2. CASE NotRegistered
    BY <2>1, <2>2, RegisteredQuiet DEF NotRegistered, Initialising, lists
  <2>3. CASE Registered(a)
    <3>1. ret'[a]
      BY <1>0, <2>3 DEF Registered
    <3>2. \A b \in Actors : Initialising(b)' => b = a
      BY <2>1, InitAlone DEF Initialising
    <3>3. Initialising(a)'
      BY <2>1 DEF Initialising
    <3> QED
      BY <3>1, <3>2, <3>3 DEF RegisteredInv
  <2> QED
    BY <2>1, <2>2, <2>3
<1>5. ASSUME NEW a \in Actors, RegisterFpga(a)
      PROVE  RegisteredInv'
  BY <1>5, RegisteredQuiet DEF RegisterFpga, Initialising, rest, init, lists
<1>6. ASSUME NEW t \in Threads, TakeFpga(t) \/ FpgaServed(t) \/ PowOnFpga(t)
      PROVE  RegisteredInv'
  <2>1. /\ UNCHANGED <<ret, is_initialized, alive>>
        /\ pc' = pc \/ \E q \in {"pow", "exit"} : pc[t] # "register" /\ pc' = [pc EXCEPT ![t] = q]
    BY <1>6 DEF TakeFpga, FpgaServed, PowOnFpga, Served, Move, rest, init, lists
  <2> QED
    BY <1>0, <2>1, RegisteredQuiet DEF Initialising
<1>7. CASE (UNCHANGED pc \/ Elsewhere) /\ UNCHANGED at
  <2>1. \A a \in Actors : Initialising(a)' <=> Initialising(a)
    BY <1>0, <1>7 DEF Elsewhere, Initialising
  <2>2. CASE UNCHANGED <<is_initialized, init>>
    <3>1. alive' \subseteq alive \/ \E a \in Actors : Register(a) \/ FpgaAttempted(a)
      BY ListsFrame DEF DestroyNode, Unlink, lists
    <3> QED
      BY <1>4, <2>1, <2>2, <3>1, RegisteredQuiet DEF init
  <2> QED
    BY <1>3, <1>4, <2>2, InitFrame
<1> QED
  BY <1>0, <1>1, <1>2, <1>3, <1>4, <1>5, <1>6, <1>7, ElsewhereFrame

\* Between dcurl_init and dcurl_destroy the list holds the implementations whose
\* context exists, the one registered last in front, and dcurl_entry is refused only
\* when there is none.
THEOREM Registry ==
    Spec => []RegistryExact
<1> DEFINE IInv == Typed /\ CompatInv /\ AtInv /\ LifeInv /\ FlagInv
<1>1. Init => IInv
  BY LivesInit DEF Init, FlagInv, RegisteredInv
<1>2. IInv /\ [Next]_vars => IInv'
  <2> SUFFICES ASSUME IInv, [Next]_vars
               PROVE  FlagInv'
    BY LivesStep
  <2>1. CASE UNCHANGED vars
    BY <2>1 DEF FlagInv, RegisteredInv, Initialising, vars, rest, init, lists
  <2>2. CASE Next
    BY <2>2, RegisteredStep, StillMisused DEF FlagInv, LifeInv
  <2> QED
    BY <2>1, <2>2
<1>3. IInv => RegistryExact
  <2> SUFFICES ASSUME IInv, Settled, ~misused
               PROVE  /\ IsList(mem, ImplList, ListOf(alive))
                      /\ alive # {} => is_initialized
    BY DEF RegistryExact
  <2>1. Linked = alive
    BY ConstantFacts DEF Linked, Settled, Destroying
  <2> QED
    BY <2>1 DEF LifeInv, ListInv, FlagInv, RegisteredInv, Settled
<1> HIDE DEF IInv
<1> QED
  BY <1>1, <1>2, <1>3, PTL DEF Spec
=============================================================================
