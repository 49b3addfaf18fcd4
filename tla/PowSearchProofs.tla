--------------------------- MODULE PowSearchProofs ---------------------------
(***************************************************************************)
(* Proofs about PowSearch, for any number of items, calls and iterations.  *)
(***************************************************************************)
EXTENDS PowSearch, WellFoundedInduction, TLAPS

\* A number in the range of the return type is returned as it is.
LEMMA WrappedInRange ==
    ASSUME NEW x \in Int, -RetMax <= x, x < RetMax
    PROVE  Wrapped(x) = x
<1>1. RetMax \in Nat \ {0}
  BY SizeAssumption
<1>2. x + RetMax \in 0 .. 2 * RetMax - 1
  BY <1>1
<1>3. (x + RetMax) % (2 * RetMax) = x + RetMax
  BY <1>1, <1>2
<1> QED
  BY <1>1, <1>3 DEF Wrapped

\* Every number returned is in the range of the return type.
LEMMA WrappedType ==
    ASSUME NEW x \in Int
    PROVE  Wrapped(x) \in -RetMax .. RetMax - 1
<1>1. RetMax \in Nat \ {0}
  BY SizeAssumption
<1>2. (x + RetMax) % (2 * RetMax) \in 0 .. 2 * RetMax - 1
  BY <1>1
<1> QED
  BY <1>1, <1>2 DEF Wrapped

\* With a wide return type the sign of the result tells a found nonce from a stop.
LEMMA SignTells ==
    ASSUME WideReturn, TypeOK, NEW i \in Items
    PROVE  Found(i) >= 0 /\ Stopped(i) < 0
<1> DEFINE k == iter[i]
           h == k * Batch
<1>1. /\ Batch \in Nat \ {0}
      /\ RetMax \in Nat \ {0}
      /\ MaxIter \in Nat
      /\ k \in 0 .. MaxIter
  BY SizeAssumption DEF TypeOK
<1>2. h \in Nat /\ h <= MaxIter * Batch
  BY <1>1
<1>3. h \in Int /\ -h - 1 \in Int /\ 0 <= h /\ h < RetMax /\ -RetMax <= -h - 1 /\ -h - 1 < 0
  <2>1. MaxIter * Batch \in Nat
    BY <1>1
  <2> HIDE DEF h
  <2> QED
    BY <1>1, <1>2, <2>1 DEF WideReturn
<1>4. Wrapped(h) = h /\ Wrapped(-h - 1) = -h - 1
  <2> HIDE DEF h
  <2> QED
    BY <1>1, <1>3, WrappedInRange
<1>5. Found(i) = Wrapped(h) /\ Stopped(i) = Wrapped(-h - 1)
  BY DEF Found, Stopped
<1> HIDE DEF h
<1> QED
  BY <1>3, <1>4, <1>5

-----------------------------------------------------------------------------
(* Type correctness. *)

\* The number of threads of a call is at least one and at most num_max_threads.
LEMMA ThreadsType ==
    ASSUME NEW t \in 0 .. NumMaxThreads
    PROVE  Threads(t) \in 1 .. NumMaxThreads
BY SizeAssumption DEF Threads

\* The largest element of a nonempty set of items exists.
LEMMA LastExists ==
    ASSUME NEW W \in SUBSET Items, W # {}
    PROVE  \E i \in W : \A j \in W : j <= i
<1> DEFINE T == {NumMaxThreads - 1 - i : i \in W}
<1>1. NumMaxThreads \in Nat /\ W \subseteq Int
  BY SizeAssumption DEF Items
<1>2. T \subseteq Nat /\ T # {}
  <2>1. ASSUME NEW i \in W
        PROVE  NumMaxThreads - 1 - i \in Nat
    <3>1. i \in 0 .. NumMaxThreads - 1
      BY DEF Items
    <3> QED
      BY <1>1, <3>1
  <2> QED
    BY <2>1
<1>3. PICK x \in T : \A y \in T : <<y, x>> \notin OpToRel(<, Nat)
  BY <1>2, NatLessThanWellFounded, WFMin
<1>4. PICK i \in W : x = NumMaxThreads - 1 - i
  OBVIOUS
<1>5. ASSUME NEW j \in W
      PROVE  j <= i
  <2>1. NumMaxThreads - 1 - j \in T
    OBVIOUS
  <2>2. ~ (NumMaxThreads - 1 - j < NumMaxThreads - 1 - i)
    BY <1>2, <1>3, <1>4, <2>1 DEF OpToRel
  <2> QED
    BY <1>1, <2>2
<1> QED
  BY <1>5

\* completed_index is a winner when there is one.
LEMMA CompletedWinner ==
    ASSUME Winners # {}
    PROVE  CompletedIndex \in Winners
<1>1. Winners \in SUBSET Items
  BY DEF Winners, Collected, CallItems
<1>2. \E i \in Winners : \A j \in Winners : j <= i
  BY <1>1, LastExists
<1> QED
  BY <1>2 DEF CompletedIndex

\* What is copied to the output is the nonce of some call, or none.
LEMMA ChosenType ==
    ASSUME TypeOK
    PROVE  Chosen \subseteq 0 .. MaxCalls
<1>1. CASE CompletedIndex = -1
  BY <1>1 DEF Chosen
<1>2. CASE CompletedIndex # -1
  <2>1. CompletedIndex \in Items
    BY <1>2, CompletedWinner DEF CompletedIndex, Winners, Collected, CallItems
  <2> QED
    BY <1>2, <2>1 DEF Chosen, TypeOK
<1> QED
  BY <1>1, <1>2

\* There is room for the next item while items are being queued.
QueueRoom == main = "queue" => queued < num_threads
TypeInv == TypeOK /\ QueueRoom

\* Every step keeps the types: the counters within their bounds and the result
\* of an item within its return type, however far it counts.
LEMMA TypeStep == TypeInv /\ [Next]_vars => TypeInv'
<1> SUFFICES ASSUME TypeOK, QueueRoom, [Next]_vars
             PROVE  TypeInv'
  BY DEF TypeInv
<1> USE SizeAssumption
<1>1. CASE PowBegin
  <2>1. num_threads' \in 1 .. NumMaxThreads
    BY <1>1, ThreadsType DEF PowBegin
  <2>2. call' \in 0 .. MaxCalls /\ queued' = 0 /\ main' = "queue" /\ stop_pow' = FALSE
    BY <1>1 DEF TypeOK, PowBegin
  <2>3. state' \in [Items -> {"none", "queued", "test", "hash", "store", "done"}]
    BY <1>1 DEF PowBegin
  <2>4. exhausted' = {} /\ UNCHANGED <<iter, nonce, ret, n, output, res>>
    BY <1>1 DEF PowBegin
  <2>5. 0 < num_threads' /\ queued' \in 0 .. NumMaxThreads
    BY <2>1, <2>2
  <2> QED
    BY <2>1, <2>2, <2>3, <2>4, <2>5 DEF TypeInv, QueueRoom, TypeOK
<1>2. CASE PowFails
  BY <1>2 DEF TypeInv, QueueRoom, TypeOK, PowFails, callVars, itemVars
<1>3. CASE QueueWork
  <2>1. queued + 1 \in 0 .. NumMaxThreads /\ queued \in -1 .. NumMaxThreads - 1
    BY <1>3 DEF TypeOK, QueueRoom, QueueWork
  <2>2. queued' = queued + 1 /\ QueueRoom'
    BY <1>3 DEF QueueRoom, QueueWork, AllQueued, TypeOK
  <2>3. main' \in {"idle", "queue", "run"}
    BY <1>3 DEF QueueWork
  <2>4. state' \in [Items -> {"none", "queued", "test", "hash", "store", "done"}]
    BY <1>3 DEF QueueWork, TypeOK
  <2>5. n' \in [Items -> -1 .. NumMaxThreads - 1]
    BY <1>3, <2>1 DEF QueueWork, TypeOK
  <2>6. ret' \in [Items -> -RetMax .. RetMax - 1]
    <3>1. 0 \in -RetMax .. RetMax - 1
      OBVIOUS
    <3> QED
      BY <1>3, <3>1 DEF QueueWork, TypeOK
  <2>7. UNCHANGED <<call, num_threads, iter, nonce, exhausted, stop_pow, output, res>>
    BY <1>3 DEF QueueWork
  <2> QED
    BY <2>1, <2>2, <2>3, <2>4, <2>5, <2>6, <2>7 DEF TypeInv, TypeOK
<1>4. CASE Collect
  <2>1. output' \in 0 .. MaxCalls
    BY <1>4, ChosenType DEF Collect, TypeOK
  <2>2. /\ main' = "idle" /\ res' \in BOOLEAN
        /\ UNCHANGED <<call, num_threads, queued, state, iter, nonce, ret, n, exhausted,
                        stop_pow>>
    BY <1>4 DEF TypeOK, Collect, callVars, itemVars
  <2> QED
    BY <2>1, <2>2 DEF TypeInv, QueueRoom, TypeOK
<1>5. ASSUME NEW i \in Items, Item(i)
      PROVE  TypeInv'
  <2>1. CASE Start(i)
    BY <2>1 DEF TypeInv, QueueRoom, TypeOK, Start, callVars
  <2>2. CASE TestStop(i)
    <3>1. iter[i] * Batch \in Int
      BY DEF TypeOK
    <3>2. Stopped(i) \in -RetMax .. RetMax - 1
      <4>1. -(iter[i] * Batch) - 1 \in Int
        BY <3>1
      <4> QED
        BY <4>1, WrappedType DEF Stopped
    <3> QED
      BY <2>2, <3>2 DEF TypeInv, QueueRoom, TypeOK, TestStop, callVars
  <2>3. CASE Miss(i)
    BY <2>3 DEF TypeInv, QueueRoom, TypeOK, Miss, callVars
  <2>4. CASE Hit(i)
    <3>1. Found(i) \in -RetMax .. RetMax - 1
      BY WrappedType DEF Found, TypeOK
    <3> QED
      BY <2>4, <3>1 DEF TypeInv, QueueRoom, TypeOK, Hit, callVars
  <2>5. CASE WorkDone(i)
    <3>1. CASE ret[i] >= 0
      BY <2>5, <3>1 DEF TypeInv, QueueRoom, TypeOK, WorkDone, StopSet, callVars
    <3>2. CASE ~(ret[i] >= 0)
      BY <2>5, <3>2 DEF TypeInv, QueueRoom, TypeOK, WorkDone, callVars
    <3> QED
      BY <3>1, <3>2
  <2> QED
    BY <1>5, <2>1, <2>2, <2>3, <2>4, <2>5 DEF Item
<1>6. CASE UNCHANGED vars
  BY <1>6 DEF TypeInv, QueueRoom, TypeOK, vars, callVars, itemVars
<1> QED
  BY <1>1, <1>2, <1>3, <1>4, <1>5, <1>6 DEF Next, Caller

\* The types are those declared, for any number of items, calls and iterations
\* and any width of the return type.
THEOREM TypeCorrect == Spec => []TypeOK
<1>1. Init => TypeInv
  <2>1. /\ 1 \in 1 .. NumMaxThreads /\ 0 \in 0 .. NumMaxThreads
        /\ 0 \in 0 .. MaxCalls /\ 0 \in 0 .. MaxIter
        /\ 0 \in -RetMax .. RetMax - 1 /\ 0 \in -1 .. NumMaxThreads - 1
    BY SizeAssumption
  <2> QED
    BY <2>1 DEF Init, TypeInv, TypeOK, QueueRoom
<1>2. TypeInv => TypeOK
  BY DEF TypeInv
<1> QED
  BY <1>1, <1>2, TypeStep, PTL DEF Spec

-----------------------------------------------------------------------------
(* Which items run when. *)

\* The items of a call run between its PowBegin and its Collect, and no other.
LEMMA QueueStep == TypeOK /\ QueueInv /\ [Next]_vars => QueueInv'
<1> SUFFICES ASSUME TypeOK, QueueInv, [Next]_vars
             PROVE  QueueInv'
  OBVIOUS
<1> USE DEF QueueInv, NothingRunsAfterReturn
<1>0. Items \subseteq Int /\ queued \in Nat /\ num_threads \in Nat \ {0}
  BY SizeAssumption DEF Items, TypeOK
<1>1. CASE PowBegin
  <2>1. num_threads' \in 1 .. NumMaxThreads
    BY <1>1, ThreadsType DEF PowBegin
  <2>2. queued' = 0 /\ main' = "queue"
    BY <1>1 DEF PowBegin
  <2>3. \A i \in Items : state'[i] = "none"
    BY <1>1 DEF PowBegin
  <2> QED
    BY <2>1, <2>2, <2>3
<1>2. CASE PowFails
  <2>1. \A i \in Items : state[i] = "none"
    BY <1>0, <1>2 DEF PowFails, Items
  <2>2. main' = "idle" /\ UNCHANGED <<num_threads, queued, state>>
    BY <1>2 DEF PowFails, callVars, itemVars
  <2> QED
    BY <2>1, <2>2
<1>3. CASE QueueWork
  <2>1. main = "queue" /\ queued < num_threads /\ queued' = queued + 1
    BY <1>3 DEF QueueWork
  <2>2. num_threads' = num_threads
    BY <1>3 DEF QueueWork
  <2>3. main' = IF queued + 1 = num_threads THEN "run" ELSE "queue"
    BY <1>3 DEF QueueWork, AllQueued
  <2>4. \A i \in Items : state'[i] # "none" => state[i] # "none" \/ i = queued
    BY <1>3 DEF QueueWork, TypeOK
  <2>5. \A i \in Items : state'[i] # "none" => i < queued'
    BY <1>0, <2>1, <2>4
  <2> QED
    BY <1>0, <2>1, <2>2, <2>3, <2>5
<1>4. CASE Collect
  <2>1. \A i \in Items : state[i] # "none" => state[i] = "done"
    BY <1>0, <1>4 DEF Collect, Ended, CallItems
  <2>2. main' = "idle" /\ UNCHANGED <<num_threads, queued, state>>
    BY <1>4 DEF Collect, callVars, itemVars
  <2> QED
    BY <2>1, <2>2
<1>5. ASSUME NEW i \in Items, Item(i)
      PROVE  QueueInv'
  <2>1. state[i] \notin {"none", "done"}
    BY <1>5 DEF Item, Start, TestStop, Miss, Hit, WorkDone
  <2>2. \A j \in Items : j # i => state'[j] = state[j]
    BY <1>5 DEF Item, Start, TestStop, Miss, Hit, WorkDone, TypeOK
  <2>3. UNCHANGED <<main, num_threads, queued>>
    BY <1>5 DEF Item, Start, TestStop, Miss, Hit, WorkDone, callVars
  <2> QED
    BY <2>1, <2>2, <2>3
<1>6. CASE UNCHANGED vars
  BY <1>6 DEF vars, callVars, itemVars
<1> QED
  BY <1>1, <1>2, <1>3, <1>4, <1>5, <1>6 DEF Next, Caller

\* Initially no item runs.
LEMMA QueueInit == Init => QueueInv
BY SizeAssumption DEF Init, QueueInv, NothingRunsAfterReturn, Items

\* Nothing of a call runs when it has returned: uv_run waits for every item,
\* also for those that had not started when the winner set stop_pow.
THEOREM NothingRuns == Spec => []NothingRunsAfterReturn
<1>1. QueueInv => NothingRunsAfterReturn
  BY DEF QueueInv
<1> QED
  BY <1>1, QueueInit, QueueStep, TypeCorrect, PTL DEF Spec

-----------------------------------------------------------------------------
(* Who won. *)

\* When every item of a call is done, and one of them did not come to the end of its
\* counter, one has won: a loser with nonces left saw stop_pow, which only a winner
\* sets. completed_index is then an item with a fresh nonce.
LEMMA SomeoneWon ==
    ASSUME TypeOK, QueueInv, SignInv, StopInv, main = "run",
           \A i \in CallItems : Ended(i), ~(CallItems \subseteq exhausted)
    PROVE  Chosen = {call}
<1>1. PICK k \in CallItems : k \notin exhausted /\ state[k] = "done"
  BY DEF Ended
<1>2. Winners # {}
  <2>1. CASE n[k] = -1
    BY <1>1, <2>1 DEF Winners, Collected
  <2>2. CASE n[k] # -1
    <3>1. stop_pow
      BY <1>1, <2>2 DEF SignInv, Beaten, CallItems
    <3>2. PICK i \in Items : state[i] = "done" /\ n[i] = -1
      BY <3>1 DEF StopInv
    <3>3. i \in CallItems
      BY <3>2 DEF QueueInv, CallItems
    <3> QED
      BY <3>2, <3>3 DEF Winners, Collected
  <2> QED
    BY <2>1, <2>2
<1>3. CompletedIndex \in Winners
  BY <1>2, CompletedWinner
<1>4. nonce[CompletedIndex] = call /\ CompletedIndex \in Items
  BY <1>3 DEF Winners, Collected, CallItems, Ended, SignInv
<1>5. CompletedIndex # -1
  BY <1>4 DEF Items
<1> QED
  BY <1>4, <1>5 DEF Chosen

\* A call that succeeds writes the nonce of a winner of that call, if it has one.
LEMMA FreshStep ==
    TypeOK /\ SearchInv /\ [Next]_vars => ResultIsFresh'
<1> SUFFICES ASSUME TypeOK, SearchInv, [Next]_vars
             PROVE  ResultIsFresh'
  OBVIOUS
<1> USE DEF ResultIsFresh
<1>1. CASE PowBegin
  BY <1>1 DEF PowBegin
<1>2. CASE PowFails
  BY <1>2 DEF PowFails
<1>3. CASE QueueWork
  BY <1>3 DEF QueueWork
<1>4. CASE Collect
  <2>1. UNCHANGED <<call, num_threads, exhausted>>
    BY <1>4 DEF Collect, callVars, itemVars
  <2>2. CASE CallItems \subseteq exhausted
    BY <2>1, <2>2 DEF CallItems
  <2>3. CASE ~(CallItems \subseteq exhausted)
    <3>1. Chosen = {call}
      BY <1>4, <2>3, SomeoneWon DEF Collect, SearchInv
    <3> QED
      BY <1>4, <2>1, <3>1 DEF Collect
  <2> QED
    BY <2>2, <2>3
<1>5. ASSUME NEW i \in Items, Item(i)
      PROVE  ResultIsFresh'
  <2>1. UNCHANGED <<main, call, num_threads, output, res>> /\ exhausted \subseteq exhausted'
    BY <1>5 DEF Item, Start, TestStop, Miss, Hit, WorkDone, callVars
  <2> QED
    BY <2>1 DEF SearchInv, CallItems
<1>6. CASE UNCHANGED vars
  BY <1>6 DEF vars, callVars, itemVars, SearchInv, CallItems
<1> QED
  BY <1>1, <1>2, <1>3, <1>4, <1>5, <1>6 DEF Next, Caller

\* The sign of an item's result goes on telling whether it found a nonce, if the
\* return type holds every count; this is what the int of pow_avx may break.
LEMMA SignStep ==
    ASSUME WideReturn, TypeOK, TypeOK', SearchInv, [Next]_vars
    PROVE  SignInv' /\ StopInv'
<1>1. CASE PowBegin
  BY <1>1 DEF PowBegin, SignInv, StopInv, Beaten
<1>2. CASE PowFails
  BY <1>2 DEF PowFails, SearchInv, SignInv, StopInv, Beaten, callVars, itemVars
<1>3. CASE QueueWork
  <2>1. queued \in Nat /\ queued # -1 /\ queued < num_threads
    BY <1>3 DEF QueueWork, SearchInv, QueueInv, TypeOK
  <2>2. queued \in Items
    BY <2>1, SizeAssumption DEF TypeOK, Items
  <2>3. state[queued] = "none"
    BY <2>1, <2>2 DEF SearchInv, QueueInv
  <2>4. state'[queued] = "queued" /\ n'[queued] = queued
    BY <1>3, <2>2 DEF QueueWork, TypeOK
  <2>5. \A i \in Items : i # queued =>
          state'[i] = state[i] /\ n'[i] = n[i] /\ ret'[i] = ret[i]
    BY <1>3 DEF QueueWork, TypeOK
  <2>6. UNCHANGED <<call, nonce, exhausted, stop_pow>>
    BY <1>3 DEF QueueWork
  <2> QED
    BY <2>1, <2>3, <2>4, <2>5, <2>6 DEF SearchInv, SignInv, StopInv, Beaten
<1>4. CASE Collect
  BY <1>4 DEF Collect, SearchInv, SignInv, StopInv, Beaten, callVars, itemVars
<1>5. ASSUME NEW i \in Items, Start(i)
      PROVE  SignInv' /\ StopInv'
  BY <1>5 DEF Start, TypeOK, SearchInv, SignInv, StopInv, Beaten, callVars
<1>6. ASSUME NEW i \in Items, TestStop(i)
      PROVE  SignInv' /\ StopInv'
  <2>1. UNCHANGED <<call, nonce, n, stop_pow>> /\ exhausted \subseteq exhausted'
    BY <1>6 DEF TestStop, callVars
  <2>2. \A j \in Items : j # i => state'[j] = state[j] /\ ret'[j] = ret[j]
    BY <1>6 DEF TestStop, TypeOK
  <2>3. CASE stop_pow \/ i \in exhausted'
    <3>1. state[i] = "test" /\ (state'[i] = "store" => ret'[i] = Stopped(i))
      BY <1>6 DEF TestStop, TypeOK
    <3>2. state'[i] \in {"hash", "store"}
      BY <1>6 DEF TestStop, TypeOK
    <3>3. Stopped(i) < 0 /\ Stopped(i) \in Int
      BY SignTells, WrappedType, SizeAssumption DEF Stopped, TypeOK
    <3>4. state'[i] = "store" => ~(ret'[i] >= 0)
      BY <3>1, <3>3
    <3> QED
      BY <2>1, <2>2, <2>3, <3>1, <3>2, <3>4 DEF SearchInv, SignInv, StopInv, Beaten
  <2>4. CASE ~stop_pow /\ i \notin exhausted'
    <3>1. state'[i] = "hash" /\ state[i] = "test"
      BY <1>6, <2>4 DEF TestStop, TypeOK
    <3> QED
      BY <2>1, <2>2, <2>4, <3>1 DEF SearchInv, SignInv, StopInv, Beaten
  <2> QED
    BY <2>3, <2>4
<1>7. ASSUME NEW i \in Items, Miss(i)
      PROVE  SignInv' /\ StopInv'
  <2>1. UNCHANGED <<call, nonce, n, ret, exhausted, stop_pow>>
    BY <1>7 DEF Miss, callVars
  <2>2. \A j \in Items : j # i => state'[j] = state[j]
    BY <1>7 DEF Miss, TypeOK
  <2>3. state'[i] = "test" /\ state[i] = "hash"
    BY <1>7 DEF Miss, TypeOK
  <2> QED
    BY <2>1, <2>2, <2>3 DEF SearchInv, SignInv, StopInv, Beaten
<1>8. ASSUME NEW i \in Items, Hit(i)
      PROVE  SignInv' /\ StopInv'
  <2>1. UNCHANGED <<call, n, exhausted, stop_pow>>
    BY <1>8 DEF Hit, callVars
  <2>2. \A j \in Items : j # i =>
          state'[j] = state[j] /\ ret'[j] = ret[j] /\ nonce'[j] = nonce[j]
    BY <1>8 DEF Hit, TypeOK
  <2>3. state'[i] = "store" /\ state[i] = "hash" /\ ret'[i] = Found(i) /\ nonce'[i] = call
    BY <1>8 DEF Hit, TypeOK
  <2>4. ret'[i] >= 0
    BY <2>3, SignTells
  <2> QED
    BY <2>1, <2>2, <2>3, <2>4 DEF SearchInv, SignInv, StopInv, Beaten
<1>9. ASSUME NEW i \in Items, WorkDone(i)
      PROVE  SignInv' /\ StopInv'
  <2>1. UNCHANGED <<call, nonce, ret, exhausted>>
    BY <1>9 DEF WorkDone, callVars
  <2>2. \A j \in Items : j # i => state'[j] = state[j] /\ n'[j] = n[j]
    BY <1>9 DEF WorkDone, TypeOK
  <2>3. state'[i] = "done" /\ state[i] = "store"
    BY <1>9 DEF WorkDone, TypeOK
  <2>4. CASE ret[i] >= 0
    <3>1. n'[i] = -1 /\ stop_pow'
      BY <1>9, <2>4 DEF WorkDone, StopSet, TypeOK
    <3> QED
      BY <2>1, <2>2, <2>3, <2>4, <3>1 DEF SearchInv, SignInv, StopInv, Beaten
  <2>5. CASE ~(ret[i] >= 0)
    <3>1. UNCHANGED <<n, stop_pow>>
      BY <1>9, <2>5 DEF WorkDone
    <3> QED
      BY <2>1, <2>2, <2>3, <2>5, <3>1 DEF SearchInv, SignInv, StopInv, Beaten
  <2> QED
    BY <2>4, <2>5
<1>10. CASE UNCHANGED vars
  BY <1>10 DEF vars, callVars, itemVars, SearchInv, SignInv, StopInv, Beaten
<1> QED
  BY <1>1, <1>2, <1>3, <1>4, <1>5, <1>6, <1>7, <1>8, <1>9, <1>10
     DEF Next, Caller, Item

\* The invariant of the search, if the return type is wide enough.
THEOREM SearchInvariant == ASSUME WideReturn PROVE Spec => []SearchInv
<1>1. Init => SearchInv
  BY QueueInit DEF Init, SearchInv, SignInv, StopInv, ResultIsFresh
<1>2. TypeOK /\ TypeOK' /\ SearchInv /\ [Next]_vars => SearchInv'
  BY QueueStep, FreshStep, SignStep DEF SearchInv
<1> QED
  BY <1>1, <1>2, TypeCorrect, PTL DEF Spec

\* What pow_c, pow_sse and pow_avx write when they return true is a nonce found by an
\* item of this very call, or every item came to the end of its counter and found none
\* (ResultIsFresh); for any number of threads, if the count of each fits the return
\* type.
THEOREM FreshResult == ASSUME WideReturn PROVE Spec => []ResultIsFresh
<1>1. SearchInv => ResultIsFresh
  BY DEF SearchInv
<1> QED
  BY <1>1, SearchInvariant, PTL

\* An item marked with n = -1 holds a nonce of this call, under the same
\* condition.
THEOREM WinnerHasNonce == ASSUME WideReturn PROVE Spec => []WinnerGotResult
<1>1. SearchInv => WinnerGotResult
  BY DEF SearchInv, SignInv, WinnerGotResult
<1> QED
  BY <1>1, SearchInvariant, PTL
=============================================================================
